---------------------------- MODULE RegistryProofs ----------------------------
(***************************************************************************)
(* What holds of Registry for any calls, fields and entries, with proofs   *)
(* checked by TLAPS.                                                       *)
(*                                                                         *)
(* IInv says who holds the lock, as the program counters tell it, and what *)
(* a call has learnt from the registry.  NoRace is the first half of it,   *)
(* HonestRefusal the second; together they make each action a step of the  *)
(* atomic map or none.                                                     *)
(***************************************************************************)
EXTENDS Registry, TLAPS

\* The lock is held as the program counters say, and a writer holds it alone.
Locking ==
    /\ readers = {c \in Call : pc[c] \in Reading}
    /\ \A c \in Call : pc[c] = "write" <=> writer = c
    /\ \A c \in Call : pc[c] = "wait" <=> announced = c
    /\ writer # Nil => readers = {} /\ announced = Nil

\* A call that registers has an entry and no answer; one that looks fields up
\* has the name of one; no other lists what is registered for a refusal.
Placed ==
    \A c \in Call :
        /\ pc[c] \in {"lock", "wait", "write"} =>
            op[c] \in Op /\ op[c].entry \in Entry /\ answer[c] = Nil
        /\ pc[c] = "idle" => answer[c] = Nil
        /\ pc[c] = "read" => name[c] \in Field

\* What a call has learnt is still so: the registry only grows, and not while
\* somebody ranges over it.
Learnt ==
    \A c \in Call :
        /\ before[c] \subseteq DOMAIN registry
        /\ seen[c] \subseteq DOMAIN registry
        /\ pc[c] \in {"list", "range", "listed"} /\ op[c].kind = "enable" =>
            name[c] \notin before[c]
        /\ pc[c] = "range" => DOMAIN registry \subseteq left[c] \cup seen[c]
        /\ pc[c] = "listed" => before[c] \subseteq seen[c]

IInv == TypeOK /\ Locking /\ Placed /\ Learnt

-------------------------------------------------------------------------------
\* A partial map is a function on some of the names.
LEMMA Partial ==
    ASSUME NEW S, NEW T, NEW f
    PROVE  f \in PartialMap(S, T) <=> DOMAIN f \subseteq S /\ f \in [DOMAIN f -> T]
<1>1. ASSUME f \in PartialMap(S, T) PROVE DOMAIN f \subseteq S /\ f \in [DOMAIN f -> T]
  <2>1. PICK D \in SUBSET S : f \in [D -> T]
    BY <1>1 DEF PartialMap
  <2>2. QED
    BY <2>1
<1>2. ASSUME DOMAIN f \subseteq S, f \in [DOMAIN f -> T] PROVE f \in PartialMap(S, T)
  BY <1>2 DEF PartialMap
<1>3. QED
  BY <1>1, <1>2

\* Writing an entry of a field leaves a registry, with one more name at most.
LEMMA WrittenType ==
    ASSUME NEW e \in Entry, registry \in PartialMap(Field, Entry)
    PROVE  /\ Written(registry, e) \in PartialMap(Field, Entry)
           /\ DOMAIN Written(registry, e) = DOMAIN registry \cup {e.name}
<1>1. DOMAIN registry \subseteq Field /\ registry \in [DOMAIN registry -> Entry]
  BY Partial
<1>2. e.name \in Field
  BY EntryAssumption
<1> DEFINE W == Written(registry, e)
<1>3. DOMAIN W = DOMAIN registry \cup {e.name}
  BY DEF Written
<1>4. W \in [DOMAIN W -> Entry]
  BY <1>1 DEF Written
<1>5. DOMAIN W \subseteq Field
  BY <1>1, <1>2, <1>3
<1>6. W \in PartialMap(Field, Entry)
  BY <1>4, <1>5, Partial
<1>7. QED
  BY <1>3, <1>6

\* At the start nothing is registered and no call has begun.
LEMMA InitInvariant == Init => IInv
<1> SUFFICES ASSUME Init PROVE IInv
  OBVIOUS
<1> USE NilAssumption DEF Init
<1>1. registry \in PartialMap(Field, Entry)
  <2>1. DOMAIN registry = {} /\ registry \in [DOMAIN registry -> Entry]
    OBVIOUS
  <2>2. QED
    BY <2>1, Partial
<1>2. TypeOK
  BY <1>1 DEF TypeOK, PC, Answer
<1>3. Locking /\ Placed /\ Learnt
  BY DEF Locking, Reading, Placed, Learnt
<1>4. QED
  BY <1>2, <1>3 DEF IInv

-------------------------------------------------------------------------------
\* A call begins.
LEMMA BeginStep ==
    ASSUME IInv, NEW c \in Call, NEW o \in Op, Begin(c, o) PROVE IInv'
<1> USE NilAssumption, OpAssumption DEF Begin, lockVars
<1>0. TypeOK /\ Locking /\ Placed /\ Learnt
  BY DEF IInv
<1>1. First(o) \in {"lock", "list", "next"} /\ First(o) \in PC
  BY DEF First, PC
<1>2. o.kind = "register" <=> First(o) = "lock"
  BY DEF First
<1>3. Names(o) \subseteq Field
  BY DEF Names
<1>4. DOMAIN registry \subseteq Field
  BY <1>0, Partial DEF TypeOK
<1>5. TypeOK'
  BY <1>0, <1>1, <1>3, <1>4 DEF TypeOK
<1>6. Locking'
  BY <1>0, <1>1 DEF TypeOK, Locking, Reading
<1>7. Placed'
  BY <1>0, <1>1, <1>2 DEF TypeOK, Placed
<1>8. Learnt'
  <2>1. First(o) = "list" => o.kind # "enable"
    BY DEF First
  <2>2. QED
    BY <1>0, <1>1, <2>1 DEF TypeOK, Learnt
<1>9. QED
  BY <1>5, <1>6, <1>7, <1>8 DEF IInv

\* Register takes the lock and writes.
LEMMA WriterStep ==
    ASSUME IInv, NEW c \in Call, Announce(c) \/ Grant(c) \/ Write(c) PROVE IInv'
<1> USE NilAssumption
<1>0. TypeOK /\ Locking /\ Placed /\ Learnt
  BY DEF IInv
<1>1. CASE Announce(c)
  <2> USE <1>1 DEF Announce
  <2>1. TypeOK'
    BY <1>0 DEF TypeOK, PC
  <2>2. Locking'
    BY <1>0 DEF TypeOK, Locking, Reading
  <2>3. Placed' /\ Learnt'
    BY <1>0 DEF TypeOK, Placed, Learnt
  <2>4. QED
    BY <2>1, <2>2, <2>3 DEF IInv
<1>2. CASE Grant(c)
  <2> USE <1>2 DEF Grant
  <2>1. TypeOK'
    BY <1>0 DEF TypeOK, PC
  <2>2. Locking'
    BY <1>0 DEF TypeOK, Locking, Reading, Exclusive
  <2>3. Placed' /\ Learnt'
    BY <1>0 DEF TypeOK, Placed, Learnt
  <2>4. QED
    BY <2>1, <2>2, <2>3 DEF IInv
<1>3. CASE Write(c)
  <2> USE <1>3 DEF Write, Leave
  <2>1. op[c].entry \in Entry
    BY <1>0 DEF Placed
  <2>2. /\ registry' \in PartialMap(Field, Entry)
        /\ DOMAIN registry \subseteq DOMAIN registry'
    BY <1>0, <2>1, WrittenType DEF TypeOK
  <2>3. TypeOK'
    BY <1>0, <2>2 DEF TypeOK, PC, Answer
  <2>4. Locking'
    BY <1>0 DEF TypeOK, Locking, Reading
  <2>5. Placed'
    BY <1>0 DEF TypeOK, Placed
  <2>6. Learnt'
    <3>1. \A d \in Call : pc'[d] # "range"
      BY <1>0 DEF TypeOK, Locking, Reading
    <3>2. QED
      BY <1>0, <2>2, <3>1 DEF TypeOK, Learnt
  <2>7. QED
    BY <2>3, <2>4, <2>5, <2>6 DEF IInv
<1>4. QED
  BY <1>1, <1>2, <1>3

\* The loops that look fields up, and the extractors.
LEMMA LookupStep ==
    ASSUME IInv, NEW c \in Call, Lookup(c) \/ Read(c) \/ Extracted(c) \/ EndLoop(c)
    PROVE  IInv'
<1> USE NilAssumption DEF lockVars
<1>0. TypeOK /\ Locking /\ Placed /\ Learnt
  BY DEF IInv
<1>1. CASE Lookup(c)
  <2> USE <1>1 DEF Lookup, RLock
  <2>1. PICK f \in left[c] : /\ name' = [name EXCEPT ![c] = f]
                             /\ left' = [left EXCEPT ![c] = @ \ {f}]
    OBVIOUS
  <2>2. f \in Field
    BY <1>0, <2>1 DEF TypeOK
  <2>3. TypeOK'
    BY <1>0, <2>1, <2>2 DEF TypeOK, PC
  <2>4. Locking'
    BY <1>0 DEF TypeOK, Locking, Reading
  <2>5. Placed'
    BY <1>0, <2>1, <2>2 DEF TypeOK, Placed
  <2>6. Learnt'
    BY <1>0, <2>1 DEF TypeOK, Learnt
  <2>7. QED
    BY <2>3, <2>4, <2>5, <2>6 DEF IInv
<1>2. CASE Read(c)
  <2> DEFINE known == name[c] \in DOMAIN registry
             found == [field |-> name[c],
                       entry |-> IF known THEN registry[name[c]] ELSE Nil]
             to == IF op[c].kind = "enable" THEN Checked(known)
                   ELSE IF known THEN "extract" ELSE "next"
  <2>1. /\ pc[c] = "read"
        /\ readers' = readers \ {c}
        /\ answer' = [answer EXCEPT ![c] = found]
        /\ pc' = [pc EXCEPT ![c] = to]
        /\ UNCHANGED <<registry, announced, writer, op, left, name, seen, before>>
    BY <1>2 DEF Read, Released
  <2>2. to \in {"list", "next", "extract"} /\ (to = "list" => ~known)
    BY DEF Checked
  <2>3. found \in Answer
    <3>1. known => registry[name[c]] \in Entry
      BY <1>0, Partial DEF TypeOK
    <3>2. name[c] \in Field
      BY <1>0, <2>1 DEF Placed
    <3>3. QED
      BY <3>1, <3>2 DEF Answer
  <2> HIDE DEF known, found, to
  <2>4. TypeOK'
    BY <1>0, <2>1, <2>2, <2>3 DEF TypeOK, PC
  <2>5. Locking'
    BY <1>0, <2>1, <2>2 DEF TypeOK, Locking, Reading
  <2>6. Placed'
    BY <1>0, <2>1, <2>2 DEF TypeOK, Placed
  <2>7. Learnt'
    BY <1>0, <2>1, <2>2 DEF TypeOK, Learnt, known
  <2>8. QED
    BY <2>4, <2>5, <2>6, <2>7 DEF IInv
<1>3. CASE Extracted(c)
  <2> USE <1>3 DEF Extracted
  <2>1. TypeOK'
    BY <1>0 DEF TypeOK, PC
  <2>2. Locking' /\ Placed' /\ Learnt'
    BY <1>0 DEF TypeOK, Locking, Reading, Placed, Learnt
  <2>3. QED
    BY <2>1, <2>2 DEF IInv
<1>4. CASE EndLoop(c)
  <2> USE <1>4 DEF EndLoop, Leave
  <2>1. TypeOK'
    BY <1>0 DEF TypeOK, PC, Answer
  <2>2. Locking'
    BY <1>0 DEF TypeOK, Locking, Reading
  <2>3. Placed' /\ Learnt'
    BY <1>0 DEF TypeOK, Placed, Learnt
  <2>4. QED
    BY <2>1, <2>2, <2>3 DEF IInv
<1>5. QED
  BY <1>1, <1>2, <1>3, <1>4

\* Registered.
LEMMA RegisteredStep ==
    ASSUME IInv, NEW c \in Call, StartRange(c) \/ Range(c) \/ EndRange(c) \/ Return(c)
    PROVE  IInv'
<1> USE NilAssumption DEF lockVars
<1>0. TypeOK /\ Locking /\ Placed /\ Learnt
  BY DEF IInv
<1>1. CASE StartRange(c)
  <2> USE <1>1 DEF StartRange, RLock
  <2>1. TypeOK'
    <3>1. DOMAIN registry \subseteq Field
      BY <1>0, Partial DEF TypeOK
    <3>2. QED
      BY <1>0, <3>1 DEF TypeOK, PC
  <2>2. Locking'
    BY <1>0 DEF TypeOK, Locking, Reading
  <2>3. Placed' /\ Learnt'
    BY <1>0 DEF TypeOK, Placed, Learnt
  <2>4. QED
    BY <2>1, <2>2, <2>3 DEF IInv
<1>2. CASE Range(c)
  <2> USE <1>2 DEF Range
  <2>1. PICK f \in DOMAIN registry \ seen[c] :
            /\ seen' = [seen EXCEPT ![c] = @ \cup {f}]
            /\ left' = [left EXCEPT ![c] = @ \ {f}]
    OBVIOUS
  <2>2. f \in Field
    BY <1>0, <2>1, Partial DEF TypeOK
  <2>3. TypeOK'
    BY <1>0, <2>1, <2>2 DEF TypeOK
  <2>4. Locking' /\ Placed'
    BY <1>0 DEF Locking, Placed
  <2>5. Learnt'
    BY <1>0, <2>1 DEF TypeOK, Learnt
  <2>6. QED
    BY <2>3, <2>4, <2>5 DEF IInv
<1>3. CASE EndRange(c)
  <2> USE <1>3 DEF EndRange
  <2>1. [names |-> seen[c]] \in Answer
    BY <1>0 DEF TypeOK, Answer
  <2>2. TypeOK'
    BY <1>0, <2>1 DEF TypeOK, PC
  <2>3. Locking'
    BY <1>0 DEF TypeOK, Locking, Reading
  <2>4. Placed' /\ Learnt'
    BY <1>0 DEF TypeOK, Placed, Learnt
  <2>5. QED
    BY <2>2, <2>3, <2>4 DEF IInv
<1>4. CASE Return(c)
  <2> USE <1>4 DEF Return, Leave
  <2>1. TypeOK'
    BY <1>0 DEF TypeOK, PC, Answer
  <2>2. Locking'
    BY <1>0 DEF TypeOK, Locking, Reading
  <2>3. Placed' /\ Learnt'
    BY <1>0 DEF TypeOK, Placed, Learnt
  <2>4. QED
    BY <2>1, <2>2, <2>3 DEF IInv
<1>5. QED
  BY <1>1, <1>2, <1>3, <1>4

\* Every step keeps the invariant.
LEMMA InvariantStep == IInv /\ [Next]_vars => IInv'
<1> SUFFICES ASSUME IInv, [Next]_vars PROVE IInv'
  OBVIOUS
<1>1. CASE Next
  <2>1. PICK c \in Call :
            \/ \E o \in Op : Begin(c, o)
            \/ Announce(c) \/ Grant(c) \/ Write(c)
            \/ Lookup(c) \/ Read(c) \/ Extracted(c) \/ EndLoop(c)
            \/ StartRange(c) \/ Range(c) \/ EndRange(c) \/ Return(c)
    BY <1>1 DEF Next
  <2>2. QED
    BY <2>1, BeginStep, WriterStep, LookupStep, RegisteredStep
<1>2. CASE UNCHANGED vars
  BY <1>2 DEF vars, lockVars, callVars, IInv, TypeOK, Locking, Reading, Placed, Learnt
<1>3. QED
  BY <1>1, <1>2

\* The inductive invariant holds in every behaviour.
THEOREM Invariant == Spec => []IInv
BY InitInvariant, InvariantStep, PTL DEF Spec

-------------------------------------------------------------------------------
\* The variables of Registry keep their types.
THEOREM TypeCorrect == Spec => []TypeOK
<1>1. IInv => TypeOK
  BY DEF IInv
<1>2. QED
  BY <1>1, Invariant, PTL

\* The map is never written while another goroutine reads or writes it, for
\* any number of goroutines and whatever their extractors do.
THEOREM NoRaceHolds == Spec => []NoRace
<1>1. IInv => NoRace
  BY NilAssumption DEF IInv, TypeOK, Locking, NoRace, Reading
<1>2. QED
  BY <1>1, Invariant, PTL

\* Enable refuses only fields that were not registered when it was called,
\* and names all that were.
THEOREM HonestRefusalHolds == Spec => []HonestRefusal
<1>1. IInv => HonestRefusal
  BY DEF IInv, Learnt, HonestRefusal
<1>2. QED
  BY <1>1, Invariant, PTL

-------------------------------------------------------------------------------
(* The atomic map.                                                         *)

\* An action that leaves the registry and all answers alone, and moves only c,
\* between places where it registers nothing or the same entry, is no step.
LEMMA Stutter ==
    ASSUME NEW c \in Call, UNCHANGED <<registry, answer>>,
           \A d \in Call \ {c} : pc'[d] = pc[d] /\ op'[d] = op[d],
           Putting'[c] = Putting[c]
    PROVE  UNCHANGED <<registry, Putting, answer>>
BY DEF Putting

\* Beginning a Register is Ask, its write is Put; beginning anything else is no
\* step.
LEMMA RegisterMaps ==
    ASSUME IInv, NEW c \in Call, (\E o \in Op : Begin(c, o)) \/ Write(c)
    PROVE  [Atomic!Next]_<<registry, Putting, answer>>
<1> USE NilAssumption DEF lockVars
<1>0. TypeOK /\ Placed
  BY DEF IInv
<1>1. ASSUME NEW o \in Op, Begin(c, o)
      PROVE  [Atomic!Next]_<<registry, Putting, answer>>
  <2> USE <1>1 DEF Begin
  <2>1. Putting[c] = Nil
    BY DEF Putting
  <2>2. CASE o.kind = "register"
    <3>1. o.entry \in Entry
      BY <2>2, OpAssumption
    <3>2. pc' = [pc EXCEPT ![c] = "lock"] /\ op' = [op EXCEPT ![c] = o]
      BY <2>2 DEF First
    <3>3. Putting' = [Putting EXCEPT ![c] = o.entry]
      BY <1>0, <3>2 DEF TypeOK, Putting
    <3>4. Atomic!Ask(c, o.entry)
      BY <2>1, <3>3 DEF Atomic!Ask
    <3>5. QED
      BY <3>1, <3>4 DEF Atomic!Next
  <2>3. CASE o.kind # "register"
    <3>1. pc' = [pc EXCEPT ![c] = First(o)] /\ First(o) \in {"list", "next"}
      BY <2>3 DEF First
    <3>2. Putting'[c] = Nil
      BY <1>0, <3>1 DEF TypeOK, Putting
    <3>3. QED
      BY <1>0, <2>1, <3>2, Stutter DEF TypeOK
  <2>4. QED
    BY <2>2, <2>3
<1>2. CASE Write(c)
  <2> USE <1>2 DEF Write, Leave
  <2>1. op[c].entry \in Entry /\ answer[c] = Nil /\ Putting[c] = op[c].entry
    BY <1>0 DEF Placed, Putting
  <2>2. registry' = [f \in DOMAIN registry \cup {Putting[c].name} |->
                        IF f = Putting[c].name THEN Putting[c] ELSE registry[f]]
    BY <2>1 DEF Written
  <2>3. Putting' = [Putting EXCEPT ![c] = Nil]
    BY <1>0 DEF TypeOK, Putting
  <2>4. answer' = answer
    BY <1>0, <2>1 DEF TypeOK
  <2>5. Putting[c] # Nil
    BY <2>1
  <2>6. Atomic!Put(c)
    BY <2>2, <2>3, <2>4, <2>5 DEF Atomic!Put
  <2>7. QED
    BY <2>6 DEF Atomic!Next
<1>3. QED
  BY <1>1, <1>2

\* A read of the map is Get, the end of the loop of Registered is List, and
\* leaving with an answer is Return.
LEMMA AnswerMaps ==
    ASSUME IInv, NEW c \in Call, Read(c) \/ EndRange(c) \/ EndLoop(c) \/ Return(c)
    PROVE  Atomic!Next
<1> USE NilAssumption
<1>0. TypeOK /\ Placed /\ Learnt
  BY DEF IInv
<1>1. CASE Read(c)
  <2> DEFINE to == IF op[c].kind = "enable"
                   THEN Checked(name[c] \in DOMAIN registry)
                   ELSE IF name[c] \in DOMAIN registry THEN "extract" ELSE "next"
  <2>1. pc[c] = "read" /\ pc' = [pc EXCEPT ![c] = to] /\ op' = op /\ registry' = registry
    BY <1>1 DEF Read
  <2>2. to \in {"list", "next", "extract"}
    BY DEF Checked
  <2> HIDE DEF to
  <2>3. Putting' = Putting
    BY <1>0, <2>1, <2>2 DEF TypeOK, Putting
  <2>4. name[c] \in Field
    BY <1>0, <2>1 DEF Placed
  <2>5. Atomic!Get(c, name[c])
    BY <1>1, <2>3 DEF Read, Atomic!Get
  <2>6. QED
    BY <2>4, <2>5 DEF Atomic!Next
<1>2. CASE EndRange(c)
  <2>1. seen[c] = DOMAIN registry
    BY <1>0, <1>2 DEF Learnt, EndRange
  <2>2. Putting' = Putting
    BY <1>0, <1>2 DEF TypeOK, EndRange, Putting
  <2>3. Atomic!List(c)
    BY <1>2, <2>1, <2>2 DEF EndRange, Atomic!List
  <2>4. QED
    BY <2>3 DEF Atomic!Next
<1>3. CASE EndLoop(c) \/ Return(c)
  <2>1. pc[c] \in {"next", "listed"} /\ Leave(c) /\ registry' = registry
    BY <1>3 DEF EndLoop, Return, lockVars
  <2>2. Putting' = Putting
    BY <1>0, <2>1 DEF TypeOK, Leave, Putting
  <2>3. Atomic!Return(c)
    BY <2>1, <2>2 DEF Leave, Atomic!Return
  <2>4. QED
    BY <2>3 DEF Atomic!Next
<1>4. QED
  BY <1>1, <1>2, <1>3

\* Taking the lock, starting a loop or a round of it, and leaving an extractor
\* are no steps of the atomic map.
LEMMA LockMaps ==
    ASSUME IInv, NEW c \in Call,
           Announce(c) \/ Grant(c) \/ Lookup(c) \/ Extracted(c)
                \/ StartRange(c) \/ Range(c)
    PROVE  UNCHANGED <<registry, Putting, answer>>
<1>0. TypeOK
  BY DEF IInv
<1>1. CASE Announce(c) \/ Grant(c)
  <2>1. /\ UNCHANGED <<registry, answer, op>>
        /\ \E p, q \in {"lock", "wait", "write"} :
                pc[c] = p /\ pc' = [pc EXCEPT ![c] = q]
    BY <1>1 DEF Announce, Grant
  <2>2. QED
    BY <1>0, <2>1 DEF TypeOK, Putting
<1>2. CASE Lookup(c) \/ Extracted(c) \/ StartRange(c)
  <2>1. /\ UNCHANGED <<registry, answer, op>>
        /\ \E p, q \in {"next", "read", "extract", "list", "range"} :
                pc[c] = p /\ pc' = [pc EXCEPT ![c] = q]
    BY <1>2 DEF Lookup, RLock, Extracted, StartRange
  <2>2. QED
    BY <1>0, <2>1 DEF TypeOK, Putting
<1>3. CASE Range(c)
  BY <1>3 DEF Range, Putting
<1>4. QED
  BY <1>1, <1>2, <1>3

\* Registry implements FieldMap: for any calls, and extractors that call back,
\* every Register, lookup and Registered is one step of an atomic map.
THEOREM LinearHolds == Spec => Linear
<1>1. Init => Atomic!Init
  BY DEF Init, Atomic!Init, Putting
<1>2. IInv /\ [Next]_vars => [Atomic!Next]_<<registry, Putting, answer>>
  <2> SUFFICES ASSUME IInv, [Next]_vars
               PROVE  [Atomic!Next]_<<registry, Putting, answer>>
    OBVIOUS
  <2>1. CASE Next
    <3>1. PICK c \in Call :
            \/ (\E o \in Op : Begin(c, o)) \/ Write(c)
            \/ Read(c) \/ EndRange(c) \/ EndLoop(c) \/ Return(c)
            \/ Announce(c) \/ Grant(c) \/ Lookup(c) \/ Extracted(c)
                \/ StartRange(c) \/ Range(c)
      BY <2>1 DEF Next
    <3>2. QED
      BY <3>1, RegisterMaps, AnswerMaps, LockMaps
  <2>2. CASE UNCHANGED vars
    BY <2>2 DEF vars, callVars, Putting
  <2>3. QED
    BY <2>1, <2>2
<1>3. QED
  BY <1>1, <1>2, Invariant, PTL DEF Spec, Linear, Atomic!Spec, Atomic!vars

===============================================================================
