------------------------------- MODULE Registry -------------------------------
(***************************************************************************)
(* The registry of fields (registry.go) under its RWMutex, and the calls   *)
(* that use it.                                                            *)
(*                                                                         *)
(* A sync.RWMutex is not reentrant, and a writer that waits keeps new      *)
(* readers out: a goroutine that took it twice could wait for a writer     *)
(* that waits for it.  What makes that a danger here is that Emit and      *)
(* matches call extractors, which are the service's own code and may call  *)
(* any function of limelight in turn; and that Enable, when it refuses a   *)
(* field, calls Registered.                                                *)
(*                                                                         *)
(* A call is a use of the package by a goroutine.  Inner[c] is the call in *)
(* which the extractors that c runs use the package: it can begin only     *)
(* while c is in an extractor.                                             *)
(***************************************************************************)
EXTENDS Targeting

CONSTANTS Call,   \* calls
          Inner,  \* Inner[c]: the call c's extractors may make, or Nil
          Field,  \* field names
          Entry,  \* registry entries: records [name, key]
          Op,     \* what a call may do, see below
          Nil

ASSUME NilAssumption == Nil \notin Call /\ Nil \notin Entry

ASSUME InnerAssumption == Inner \in [Call -> Call \cup {Nil}]

ASSUME EntryAssumption == \A e \in Entry : e.name \in Field

(* Op is made of                                                           *)
(*   [kind |-> "register", entry]  Register                                *)
(*   [kind |-> "registered"]       Registered                              *)
(*   [kind |-> "enable", names]    the fields of a Match, in Enable        *)
(*   [kind |-> "gate", names]      the fields of a Match or of a directive,*)
(*                                 in matches or Emit                      *)
ASSUME OpAssumption ==
    \A o \in Op :
        /\ o.kind \in {"register", "registered", "enable", "gate"}
        /\ o.kind = "register" => o.entry \in Entry
        /\ o.kind \in {"enable", "gate"} => o.names \subseteq Field

VARIABLES registry,  \* field name -> entry
          readers,   \* calls that hold registryMu for reading
          announced, \* the call that waits to write, or Nil
          writer,    \* the call that holds registryMu for writing, or Nil
          pc,        \* pc[c]: where call c is
          op,        \* op[c]: what it does
          left,      \* left[c]: names its loop has not come to
          name,      \* name[c]: the name it looks up
          seen,      \* seen[c]: names Registered has collected
          answer     \* answer[c]: what the registry told it last, or Nil

\* History: the fields that were registered when call c began.  No action
\* reads it.
VARIABLE before

lockVars == <<readers, announced, writer>>
callVars == <<pc, op, left, name, seen, answer, before>>
vars     == <<registry, lockVars, callVars>>

-------------------------------------------------------------------------------
(* Where a call is:                                                        *)
(*   idle     not begun, or returned                                       *)
(*   lock     in Register, before registryMu.Lock()                        *)
(*   wait     in Lock(), announced, waiting for the readers to leave       *)
(*   write    holding the lock, before the assignment                      *)
(*   next     in a loop over names, holding nothing                        *)
(*   read     in lookup, holding the lock for reading                      *)
(*   extract  in an extractor, that is in the service's code               *)
(*   list     before RLock() in Registered                                 *)
(*   range    in the loop of Registered, holding the lock for reading      *)
(*   listed   past it, with the names                                      *)
PC == {"idle", "lock", "wait", "write", "next", "read", "extract", "list",
       "range", "listed"}

NoOp == [kind |-> "none"]

Names(o) == IF o.kind \in {"enable", "gate"} THEN o.names ELSE {}

First(o) ==
    IF o.kind = "register" THEN "lock"
    ELSE IF o.kind = "registered" THEN "list" ELSE "next"

(* Steps of the code that a bug would change.                              *)

\* registry[name] = f
Written_keyBug(reg, e) ==
    [f \in DOMAIN reg \cup {e.key} |-> IF f = e.key THEN e ELSE reg[f]]
Written_firstWinsBug(reg, e) ==
    [f \in DOMAIN reg \cup {e.name} |-> IF f \in DOMAIN reg THEN reg[f] ELSE e]
Written(reg, e) ==
    [f \in DOMAIN reg \cup {e.name} |-> IF f = e.name THEN e ELSE reg[f]]

\* Whether Register's lock goes through once announced.
Exclusive_readLockBug(rd) == TRUE
Exclusive(rd) == rd = {}

\* defer registryMu.RUnlock(), in lookup.
Released_forgottenBug(rd, c) == rd
Released(rd, c) == rd \ {c}

\* Where Enable goes when lookup says that a name is registered or not.
Checked_invertedBug(known) == IF known THEN "list" ELSE "next"
Checked(known) == IF known THEN "next" ELSE "list"

-------------------------------------------------------------------------------
Init ==
    /\ registry = [f \in {} |-> f]
    /\ readers = {}
    /\ announced = Nil
    /\ writer = Nil
    /\ pc = [c \in Call |-> "idle"]
    /\ op = [c \in Call |-> NoOp]
    /\ left = [c \in Call |-> {}]
    /\ name = [c \in Call |-> Nil]
    /\ seen = [c \in Call |-> {}]
    /\ answer = [c \in Call |-> Nil]
    /\ before = [c \in Call |-> {}]

\* The goroutine of c may call: it is outside limelight, or in an extractor.
MayCall(c) == \A d \in Call : Inner[d] = c => pc[d] = "extract"

Begin(c, o) ==
    /\ pc[c] = "idle"
    /\ MayCall(c)
    /\ pc' = [pc EXCEPT ![c] = First(o)]
    /\ op' = [op EXCEPT ![c] = o]
    /\ left' = [left EXCEPT ![c] = Names(o)]
    /\ before' = [before EXCEPT ![c] = DOMAIN registry]
    /\ UNCHANGED <<registry, lockVars, name, seen, answer>>

-------------------------------------------------------------------------------
\* The return of c's call, which leaves nothing behind but what it did.
Leave(c) ==
    /\ pc' = [pc EXCEPT ![c] = "idle"]
    /\ op' = [op EXCEPT ![c] = NoOp]
    /\ left' = [left EXCEPT ![c] = {}]
    /\ name' = [name EXCEPT ![c] = Nil]
    /\ seen' = [seen EXCEPT ![c] = {}]
    /\ answer' = [answer EXCEPT ![c] = Nil]
    /\ before' = [before EXCEPT ![c] = {}]

(* Register.  Its options have been applied to the entry, which nobody     *)
(* else can see yet.                                                       *)

\* registryMu.Lock(): from here on, no new reader gets in.
Announce(c) ==
    /\ pc[c] = "lock"
    /\ announced = Nil
    /\ writer = Nil
    /\ announced' = c
    /\ pc' = [pc EXCEPT ![c] = "wait"]
    /\ UNCHANGED <<registry, readers, writer, op, left, name, seen, answer, before>>

\* registryMu.Lock(), when the last reader has left.
Grant(c) ==
    /\ pc[c] = "wait"
    /\ Exclusive(readers)
    /\ writer' = c
    /\ announced' = Nil
    /\ pc' = [pc EXCEPT ![c] = "write"]
    /\ UNCHANGED <<registry, readers, op, left, name, seen, answer, before>>

\* registry[name] = f, and the deferred Unlock.
Write(c) ==
    /\ pc[c] = "write"
    /\ registry' = Written(registry, op[c].entry)
    /\ writer' = Nil
    /\ Leave(c)
    /\ UNCHANGED <<readers, announced>>

-------------------------------------------------------------------------------
(* lookup, in the loops of Enable, matches and Emit.                       *)

RLock(c) ==
    /\ announced = Nil
    /\ writer = Nil
    /\ readers' = readers \cup {c}
    /\ UNCHANGED <<registry, announced, writer>>

Lookup(c) ==
    /\ pc[c] = "next"
    /\ \E f \in left[c] :
        /\ name' = [name EXCEPT ![c] = f]
        /\ left' = [left EXCEPT ![c] = @ \ {f}]
    /\ RLock(c)
    /\ pc' = [pc EXCEPT ![c] = "read"]
    /\ UNCHANGED <<op, seen, answer, before>>

\* f, ok := registry[name], and the deferred RUnlock.
Read(c) ==
    LET f == name[c]
        known == f \in DOMAIN registry
    IN  /\ pc[c] = "read"
        /\ readers' = Released(readers, c)
        /\ answer' = [answer EXCEPT ![c] =
                        [field |-> f, entry |-> IF known THEN registry[f] ELSE Nil]]
        /\ pc' = [pc EXCEPT ![c] =
                    IF op[c].kind = "enable" THEN Checked(known)
                    ELSE IF known THEN "extract" ELSE "next"]
        /\ UNCHANGED <<registry, announced, writer, op, left, name, seen, before>>

\* The extractor returns; its own calls have returned before.
Extracted(c) ==
    /\ pc[c] = "extract"
    /\ Inner[c] # Nil => pc[Inner[c]] = "idle"
    /\ pc' = [pc EXCEPT ![c] = "next"]
    /\ UNCHANGED <<registry, lockVars, op, left, name, seen, answer, before>>

\* The loop ends; that of matches as soon as a field is not what it should be.
EndLoop(c) ==
    /\ pc[c] = "next"
    /\ left[c] = {} \/ op[c].kind = "gate"
    /\ Leave(c)
    /\ UNCHANGED <<registry, lockVars>>

-------------------------------------------------------------------------------
(* Registered, on its own or in an Enable that refuses a field.            *)

StartRange(c) ==
    /\ pc[c] = "list"
    /\ RLock(c)
    /\ seen' = [seen EXCEPT ![c] = {}]
    /\ left' = [left EXCEPT ![c] = DOMAIN registry]
    /\ pc' = [pc EXCEPT ![c] = "range"]
    /\ UNCHANGED <<op, name, answer, before>>

\* One round of the loop over the map, in any order.  What is in the map when
\* the loop begins is visited; what came later may be or not.
Range(c) ==
    /\ pc[c] = "range"
    /\ \E f \in DOMAIN registry \ seen[c] :
        /\ seen' = [seen EXCEPT ![c] = @ \cup {f}]
        /\ left' = [left EXCEPT ![c] = @ \ {f}]
    /\ UNCHANGED <<registry, lockVars, pc, op, name, answer, before>>

\* The loop is over; the deferred RUnlock.
EndRange(c) ==
    /\ pc[c] = "range"
    /\ left[c] = {}
    /\ readers' = readers \ {c}
    /\ answer' = [answer EXCEPT ![c] = [names |-> seen[c]]]
    /\ pc' = [pc EXCEPT ![c] = "listed"]
    /\ UNCHANGED <<registry, announced, writer, op, left, name, seen, before>>

Return(c) ==
    /\ pc[c] = "listed"
    /\ Leave(c)
    /\ UNCHANGED <<registry, lockVars>>

-------------------------------------------------------------------------------
Next ==
    \E c \in Call :
        \/ \E o \in Op : Begin(c, o)
        \/ Announce(c)
        \/ Grant(c)
        \/ Write(c)
        \/ Lookup(c)
        \/ Read(c)
        \/ Extracted(c)
        \/ EndLoop(c)
        \/ StartRange(c)
        \/ Range(c)
        \/ EndRange(c)
        \/ Return(c)

Spec == Init /\ [][Next]_vars

(* A call that can go on does.  One that waits for the lock gets it in the *)
(* end: Lock and Unlock of an RWMutex let the readers that wait go before  *)
(* the next writer, and writers queue on a Mutex.  An extractor returns,   *)
(* after any calls of its own.  Nobody has to call anything.               *)
Waiting(c) == Announce(c) \/ Lookup(c) \/ StartRange(c)

Running(c) ==
    \/ Grant(c) \/ Write(c) \/ Read(c) \/ EndLoop(c)
    \/ Range(c) \/ EndRange(c) \/ Return(c)

Fairness ==
    \A c \in Call :
        /\ SF_vars(Waiting(c))
        /\ WF_vars(Running(c))
        /\ SF_vars(Extracted(c))

FairSpec == Spec /\ Fairness

-------------------------------------------------------------------------------
Answer ==
    {Nil} \cup [field : Field, entry : Entry \cup {Nil}] \cup [names : SUBSET Field]

TypeOK ==
    /\ registry \in PartialMap(Field, Entry)
    /\ readers \subseteq Call
    /\ announced \in Call \cup {Nil}
    /\ writer \in Call \cup {Nil}
    /\ pc \in [Call -> PC]
    /\ op \in [Call -> Op \cup {NoOp}]
    /\ left \in [Call -> SUBSET Field]
    /\ name \in [Call -> Field \cup {Nil}]
    /\ seen \in [Call -> SUBSET Field]
    /\ answer \in [Call -> Answer]
    /\ before \in [Call -> SUBSET Field]

Reading == {"read", "range"}

\* The map is never written while another goroutine writes or reads it: the
\* Go runtime would end the process (registryMu in Register, lookup and
\* Registered).
NoRace ==
    \A c, d \in Call :
        pc[c] = "write" /\ c # d => pc[d] \notin Reading \cup {"write"}

\* The registry is an atomic map to everybody who calls it: each Register
\* takes effect at one instant between its call and its return, each lookup
\* finds what was registered last under the name it asks for at one instant,
\* each Registered lists what was registered at one instant, whatever registers
\* meanwhile.
Putting ==
    [c \in Call |->
        IF pc[c] \in {"lock", "wait", "write"} THEN op[c].entry ELSE Nil]

Atomic == INSTANCE FieldMap WITH fields <- registry, putting <- Putting

Linear == Atomic!Spec

\* When Enable refuses a field as unregistered, it was not registered when
\* Enable was called, and the list in the error leaves out nothing that was.
\* (The refused field itself may be on it: lookup and Registered take the
\* lock separately.)
HonestRefusal ==
    \A c \in Call :
        pc[c] = "listed" /\ op[c].kind = "enable" =>
            /\ name[c] \notin before[c]
            /\ before[c] \subseteq seen[c]
            /\ seen[c] \subseteq DOMAIN registry

\* Every call returns, also when extractors call back into limelight while
\* others register: no goroutine waits for a lock with one in its hands.
CallsReturn == \A c \in Call : []<>(pc[c] = "idle")

===============================================================================
