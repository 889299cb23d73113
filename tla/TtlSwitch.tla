------------------------------ MODULE TtlSwitch ------------------------------
(***************************************************************************)
(* What the switch promises its users, with no lock, timer or pointer in   *)
(* sight.  An activation is used once.  Turning the switch on replaces the *)
(* activation in force and sets the instant until which the new one is     *)
(* promised.  After that the activation ends in one of three ways only: it *)
(* is replaced, somebody who asked for the switch to be off gets that, or  *)
(* it expires - never before the promised instant.                         *)
(*                                                                         *)
(* Switch implements this module (Switch!Promise).                         *)
(***************************************************************************)
EXTENDS Integers

CONSTANTS Caller,      \* goroutines that call Enable and Disable
          Activation,  \* identities of activations, each used at most once
          Nil          \* "no activation": the switch is off

VARIABLES active,  \* the activation in force, or Nil
          until,   \* the instant it is promised until
          spent,   \* activations that have been in force
          asked,   \* callers that asked for off and have not got it yet
          now      \* the clock

vars == <<active, until, spent, asked, now>>

Init ==
    /\ active = Nil
    /\ until = 0
    /\ spent = {}
    /\ asked = {}
    /\ now = 0

TurnOn(a) ==
    /\ a \notin spent
    /\ active' = a
    /\ until' \in Nat
    /\ spent' = spent \cup {a}
    /\ UNCHANGED <<asked, now>>

AskOff(c) ==
    /\ asked' = asked \cup {c}
    /\ UNCHANGED <<active, until, spent, now>>

TurnOff(c) ==
    /\ c \in asked
    /\ active' = Nil
    /\ until' = 0
    /\ asked' = asked \ {c}
    /\ UNCHANGED <<spent, now>>

Expire ==
    /\ active # Nil
    /\ now >= until
    /\ active' = Nil
    /\ until' = 0
    /\ UNCHANGED <<spent, asked, now>>

Tick ==
    /\ now' = now + 1
    /\ UNCHANGED <<active, until, spent, asked>>

Next ==
    \/ \E a \in Activation : TurnOn(a)
    \/ \E c \in Caller : AskOff(c) \/ TurnOff(c)
    \/ Expire
    \/ Tick

Spec == Init /\ [][Next]_vars

=============================================================================
