------------------------------ MODULE FieldMap ------------------------------
(***************************************************************************)
(* What the registry promises: a map from field names to entries, in which *)
(* every Register, every lookup and every Registered happens at one        *)
(* instant between its call and its return.  Gate relies on it: there a    *)
(* Register and a lookup are one action each.                              *)
(*                                                                         *)
(* Registry implements this module (Registry!Linear).                      *)
(***************************************************************************)
EXTENDS Integers

CONSTANTS Call,   \* calls that use the registry
          Field,  \* field names
          Entry,  \* registry entries: records with a name
          Nil     \* "not registered", and no answer

VARIABLES fields,  \* field name -> entry
          putting, \* putting[c]: the entry that c has asked to register, or Nil
          answer   \* answer[c]: what call c was told last, or Nil

vars == <<fields, putting, answer>>

Init ==
    /\ fields = [f \in {} |-> f]
    /\ putting = [c \in Call |-> Nil]
    /\ answer = [c \in Call |-> Nil]

\* Register is called: nobody sees the entry yet.
Ask(c, e) ==
    /\ putting[c] = Nil
    /\ putting' = [putting EXCEPT ![c] = e]
    /\ UNCHANGED <<fields, answer>>

\* It takes effect, once, and returns.
Put(c) ==
    LET e == putting[c] IN
    /\ e # Nil
    /\ fields' = [f \in DOMAIN fields \cup {e.name} |->
                    IF f = e.name THEN e ELSE fields[f]]
    /\ putting' = [putting EXCEPT ![c] = Nil]
    /\ UNCHANGED answer

Get(c, f) ==
    /\ answer' = [answer EXCEPT ![c] =
                    [field |-> f,
                     entry |-> IF f \in DOMAIN fields THEN fields[f] ELSE Nil]]
    /\ UNCHANGED <<fields, putting>>

List(c) ==
    /\ answer' = [answer EXCEPT ![c] = [names |-> DOMAIN fields]]
    /\ UNCHANGED <<fields, putting>>

\* A call returns; what it was told is its caller's.
Return(c) ==
    /\ answer' = [answer EXCEPT ![c] = Nil]
    /\ UNCHANGED <<fields, putting>>

Next ==
    \E c \in Call :
        \/ \E e \in Entry : Ask(c, e)
        \/ Put(c)
        \/ \E f \in Field : Get(c, f)
        \/ List(c)
        \/ Return(c)

Spec == Init /\ [][Next]_vars

=============================================================================
