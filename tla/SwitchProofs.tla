----------------------------- MODULE SwitchProofs -----------------------------
(***************************************************************************)
(* What holds of Switch for any number of callers, activations and Configs *)
(* and any clock bound, with proofs checked by TLAPS.                      *)
(*                                                                         *)
(* The argument has three layers.  IInv is the inductive invariant of the  *)
(* switch under overlapping calls: who holds timerMu, which activation     *)
(* each call is working on, and that a timer is never due before the       *)
(* deadline its Enable reported.  From it follow OneLiveTimer and, step by *)
(* step, the refinement of TtlSwitch.  SerialInv adds what is true only    *)
(* when calls do not overlap, and gives OnIsBounded.                       *)
(***************************************************************************)
EXTENDS Switch, TLAPS

\* Exactly the holder of timerMu is in a critical section.
Mutex ==
    \A c \in Caller : pc[c] \in {"locked", "stopped"} <=> timerMu = c

\* Between the Stop and the end of a critical section no timer runs.
NoneBetween ==
    \A c \in Caller, a \in Activation : pc[c] = "stopped" => life[a] # "armed"

\* A call works on an activation that is where the call is.
Owned ==
    /\ \A c \in Caller : pc[c] = "publish" =>
        mine[c] # Nil /\ life[mine[c]] = "built"
    /\ \A c \in Caller : pc[c] = "clear" => mine[c] = Nil
    /\ \A c \in Caller : pc[c] \in Finishing /\ mine[c] # Nil =>
        life[mine[c]] \notin {"free", "built"}
    /\ \A c, d \in Caller :
        pc[c] = "publish" /\ pc[d] = "publish" /\ mine[c] = mine[d] => c = d

\* The activation in force has been stored.
InForce == current # Nil => life[current] \notin {"free", "built"}

\* No timer is due before the deadline of its activation.
Punctual ==
    \A a \in Activation :
        /\ life[a] # "free" => conf[a].ttl \in Int /\ expiresAt[a] <= now + conf[a].ttl
        /\ life[a] # "free" => conf[a].ttl > 0
        /\ life[a] \in {"armed", "fired"} => fireAt[a] >= expiresAt[a]
        /\ life[a] = "fired" => now >= fireAt[a]

IInv == TypeOK /\ Mutex /\ NoneBetween /\ OneLiveTimer /\ Owned /\ InForce /\ Punctual

\* What serial calls add: a call that is finishing has had the last word on
\* `current`, up to expiry.
SerialInv ==
    /\ NoOverlap
    /\ \A c \in Caller : pc[c] \in Finishing => current \in {Nil, mine[c]}
    /\ OnIsBounded

-------------------------------------------------------------------------------
\* The initial state satisfies the invariant: no activation, no call.
LEMMA InitInvariant == Init => IInv
<1> SUFFICES ASSUME Init PROVE IInv
  OBVIOUS
<1>1. TypeOK
  BY DEF Init, TypeOK, Life, PC
<1>2. Mutex /\ NoneBetween /\ OneLiveTimer
  BY NilAssumption DEF Init, Mutex, NoneBetween, OneLiveTimer
<1>3. Owned /\ InForce /\ Punctual
  BY DEF Init, Owned, InForce, Punctual, Finishing
<1>4. QED
  BY <1>1, <1>2, <1>3 DEF IInv

\* Every step keeps the types.  Rearm needs more than the types: that the
\* Config of an activation in use has a positive TTL.
LEMMA TypeStep == IInv /\ [Next]_vars => TypeOK'
<1> SUFFICES ASSUME IInv, [Next]_vars PROVE TypeOK'
  OBVIOUS
<1> USE DEF TypeOK, Life, PC, switchVars, timerVars, callVars
<1>0. TypeOK /\ Owned /\ Punctual
  BY DEF IInv
<1>1. ASSUME NEW c \in Caller, NEW a \in Activation, NEW cfg \in Config, Build(c, a, cfg)
      PROVE  TypeOK'
  <2>1. cfg.ttl \in Int /\ cfg.ttl > 0
    BY <1>1, ConfigAssumption DEF Build, Accepts, Bounded
  <2>2. now + cfg.ttl \in Nat
    BY <2>1, <1>0
  <2>3. QED
    BY <1>0, <1>1, <2>2 DEF Build, Deadline
<1>2. ASSUME NEW c \in Caller, Publish(c) PROVE TypeOK'
  BY <1>0, <1>2 DEF Publish
<1>3. ASSUME NEW c \in Caller, CallDisable(c) PROVE TypeOK'
  BY <1>0, <1>3 DEF CallDisable
<1>4. ASSUME NEW c \in Caller, Clear(c) PROVE TypeOK'
  BY <1>0, <1>4 DEF Clear
<1>5. ASSUME NEW c \in Caller, Acquire(c) PROVE TypeOK'
  BY <1>0, <1>5 DEF Acquire
<1>6. ASSUME NEW c \in Caller, StopOld(c) PROVE TypeOK'
  BY <1>0, <1>6 DEF StopOld, Stopped
<1>7. ASSUME NEW c \in Caller, Rearm(c) PROVE TypeOK'
  <2>1. mine[c] \in Activation /\ life[mine[c]] # "free"
    BY <1>0, <1>7 DEF Rearm, Owned, Finishing
  <2>2. now + conf[mine[c]].ttl \in Nat
    BY <1>0, <2>1 DEF Punctual
  <2>3. QED
    BY <1>0, <1>7, <2>1, <2>2 DEF Rearm, Armed, Unlock
<1>8. ASSUME NEW c \in Caller, Disarm(c) PROVE TypeOK'
  BY <1>0, <1>8 DEF Disarm, Unlock
<1>9. ASSUME NEW a \in Activation, Fire(a) PROVE TypeOK'
  BY <1>0, <1>9 DEF Fire
<1>10. ASSUME NEW a \in Activation, Expire(a) PROVE TypeOK'
  BY <1>0, <1>10 DEF Expire, CompareAndClear
<1>11. CASE Tick
  BY <1>0, <1>11 DEF Tick
<1>12. CASE UNCHANGED vars
  BY <1>0, <1>12 DEF vars
<1>13. QED
  BY <1>1, <1>2, <1>3, <1>4, <1>5, <1>6, <1>7, <1>8, <1>9, <1>10, <1>11, <1>12 DEF Next

\* Every step keeps timerMu and the program counters in agreement.
LEMMA MutexStep == IInv /\ [Next]_vars => Mutex'
<1> SUFFICES ASSUME IInv, [Next]_vars PROVE Mutex'
  OBVIOUS
<1> USE NilAssumption DEF Mutex, switchVars, timerVars, callVars
<1>0. pc \in [Caller -> PC] /\ Mutex
  BY DEF IInv, TypeOK
<1>1. ASSUME NEW c \in Caller, Acquire(c) PROVE Mutex'
  BY <1>0, <1>1 DEF Acquire, Free
<1>2. ASSUME NEW c \in Caller, StopOld(c) PROVE Mutex'
  BY <1>0, <1>2 DEF StopOld
<1>3. ASSUME NEW c \in Caller, Return(c) PROVE Mutex'
  BY <1>0, <1>3 DEF Return, Rearm, Disarm, Unlock
<1>4. ASSUME NEW c \in Caller, NEW a \in Activation, NEW cfg \in Config, Build(c, a, cfg)
      PROVE  Mutex'
  BY <1>0, <1>4 DEF Build
<1>5. ASSUME NEW c \in Caller, Publish(c) \/ CallDisable(c) \/ Clear(c) PROVE Mutex'
  BY <1>0, <1>5 DEF Publish, CallDisable, Clear
<1>6. ASSUME NEW a \in Activation, Fire(a) \/ Expire(a) PROVE Mutex'
  BY <1>0, <1>6 DEF Fire, Expire
<1>7. CASE Tick \/ UNCHANGED vars
  BY <1>0, <1>7 DEF Tick, vars
<1>8. QED
  BY <1>1, <1>2, <1>3, <1>4, <1>5, <1>6, <1>7 DEF Next, Return

\* Every step keeps at most one timer running, the one `timer` points to.
\* StopOld stops it, so that none runs when Rearm starts the next; Mutex is
\* why no other call starts one in between.
LEMMA TimerStep == IInv /\ [Next]_vars => NoneBetween' /\ OneLiveTimer'
<1> SUFFICES ASSUME IInv, [Next]_vars PROVE NoneBetween' /\ OneLiveTimer'
  OBVIOUS
<1> USE NilAssumption DEF NoneBetween, OneLiveTimer, switchVars, timerVars, callVars
<1>0. TypeOK /\ Mutex /\ NoneBetween /\ OneLiveTimer /\ Owned
  BY DEF IInv
<1>1. ASSUME NEW c \in Caller, NEW a \in Activation, NEW cfg \in Config, Build(c, a, cfg)
      PROVE  NoneBetween' /\ OneLiveTimer'
  BY <1>0, <1>1 DEF Build, TypeOK
<1>2. ASSUME NEW c \in Caller, Publish(c) PROVE NoneBetween' /\ OneLiveTimer'
  BY <1>0, <1>2 DEF Publish, TypeOK
<1>3. ASSUME NEW c \in Caller, CallDisable(c) \/ Clear(c)
      PROVE  NoneBetween' /\ OneLiveTimer'
  BY <1>0, <1>3 DEF CallDisable, Clear, TypeOK
<1>4. ASSUME NEW c \in Caller, Acquire(c) PROVE NoneBetween' /\ OneLiveTimer'
  BY <1>0, <1>4 DEF Acquire, TypeOK
<1>5. ASSUME NEW c \in Caller, StopOld(c) PROVE NoneBetween' /\ OneLiveTimer'
  <2>1. \A a \in Activation : life'[a] # "armed"
    BY <1>0, <1>5 DEF StopOld, Stopped, TypeOK
  <2>2. QED
    BY <2>1
<1>6. ASSUME NEW c \in Caller, Rearm(c) PROVE NoneBetween' /\ OneLiveTimer'
  <2>1. \A a \in Activation : life'[a] = "armed" => a = mine[c]
    BY <1>0, <1>6 DEF Rearm, Armed, TypeOK
  <2>2. \A d \in Caller : pc'[d] # "stopped"
    BY <1>0, <1>6 DEF Rearm, Mutex, TypeOK
  <2>3. QED
    BY <1>6, <2>1, <2>2 DEF Rearm
<1>7. ASSUME NEW c \in Caller, Disarm(c) PROVE NoneBetween' /\ OneLiveTimer'
  BY <1>0, <1>7 DEF Disarm, TypeOK
<1>8. ASSUME NEW a \in Activation, Fire(a) PROVE NoneBetween' /\ OneLiveTimer'
  BY <1>0, <1>8 DEF Fire, TypeOK
<1>9. ASSUME NEW a \in Activation, Expire(a) PROVE NoneBetween' /\ OneLiveTimer'
  BY <1>0, <1>9 DEF Expire, TypeOK
<1>10. CASE Tick \/ UNCHANGED vars
  BY <1>0, <1>10 DEF Tick, vars
<1>11. QED
  BY <1>1, <1>2, <1>3, <1>4, <1>5, <1>6, <1>7, <1>8, <1>9, <1>10 DEF Next

\* Every step keeps each call on an activation of its own, and the one in
\* force stored: a free activation is nobody's, and a built one is only its
\* builder's.
LEMMA OwnedStep == IInv /\ [Next]_vars => Owned' /\ InForce'
<1> SUFFICES ASSUME IInv, [Next]_vars PROVE Owned' /\ InForce'
  OBVIOUS
<1> USE NilAssumption DEF Owned, InForce, Finishing, switchVars, timerVars, callVars
<1>0. TypeOK /\ Owned /\ InForce
  BY DEF IInv
<1>1. ASSUME NEW c \in Caller, NEW a \in Activation, NEW cfg \in Config, Build(c, a, cfg)
      PROVE  Owned' /\ InForce'
  BY <1>0, <1>1 DEF Build, TypeOK
<1>2. ASSUME NEW c \in Caller, Publish(c) PROVE Owned' /\ InForce'
  BY <1>0, <1>2 DEF Publish, TypeOK
<1>3. ASSUME NEW c \in Caller, CallDisable(c) PROVE Owned' /\ InForce'
  BY <1>0, <1>3 DEF CallDisable, TypeOK
<1>4. ASSUME NEW c \in Caller, Clear(c) PROVE Owned' /\ InForce'
  <2>1. mine'[c] = mine[c] /\ life' = life
    BY <1>4 DEF Clear
  <2>2. mine[c] = Nil
    BY <1>0, <1>4 DEF Clear
  <2>3. QED
    BY <1>0, <1>4, <2>1, <2>2 DEF Clear, TypeOK
<1>5. ASSUME NEW c \in Caller, Acquire(c) PROVE Owned' /\ InForce'
  BY <1>0, <1>5 DEF Acquire, TypeOK
<1>6. ASSUME NEW c \in Caller, StopOld(c) PROVE Owned' /\ InForce'
  BY <1>0, <1>6 DEF StopOld, Stopped, TypeOK
<1>7. ASSUME NEW c \in Caller, Rearm(c) PROVE Owned' /\ InForce'
  BY <1>0, <1>7 DEF Rearm, Armed, TypeOK
<1>8. ASSUME NEW c \in Caller, Disarm(c) PROVE Owned' /\ InForce'
  BY <1>0, <1>8 DEF Disarm, TypeOK
<1>9. ASSUME NEW a \in Activation, Fire(a) PROVE Owned' /\ InForce'
  BY <1>0, <1>9 DEF Fire, TypeOK
<1>10. ASSUME NEW a \in Activation, Expire(a) PROVE Owned' /\ InForce'
  BY <1>0, <1>10 DEF Expire, CompareAndClear, TypeOK
<1>11. CASE Tick \/ UNCHANGED vars
  BY <1>0, <1>11 DEF Tick, vars
<1>12. QED
  BY <1>1, <1>2, <1>3, <1>4, <1>5, <1>6, <1>7, <1>8, <1>9, <1>10, <1>11 DEF Next

\* Every step keeps timers from being due before their deadlines: the TTL is
\* counted from the AfterFunc, which comes after the deadline was computed.
LEMMA PunctualStep == IInv /\ [Next]_vars => Punctual'
<1> SUFFICES ASSUME IInv, [Next]_vars PROVE Punctual'
  OBVIOUS
<1> USE NilAssumption DEF Punctual, switchVars, timerVars, callVars
<1>0. TypeOK /\ Owned /\ Punctual
  BY DEF IInv
<1>1. ASSUME NEW c \in Caller, NEW a \in Activation, NEW cfg \in Config, Build(c, a, cfg)
      PROVE  Punctual'
  <2>1. cfg.ttl \in Int /\ cfg.ttl > 0
    BY <1>1, ConfigAssumption DEF Build, Accepts, Bounded
  <2>2. conf'[a] = cfg /\ expiresAt'[a] = now + cfg.ttl /\ life'[a] = "built"
    BY <1>0, <1>1 DEF Build, Deadline, TypeOK
  <2>3. \A b \in Activation \ {a} :
          conf'[b] = conf[b] /\ expiresAt'[b] = expiresAt[b] /\ life'[b] = life[b]
    BY <1>0, <1>1 DEF Build, TypeOK
  <2>4. now' = now /\ fireAt' = fireAt
    BY <1>1 DEF Build
  <2>5. QED
    BY <1>0, <2>1, <2>2, <2>3, <2>4 DEF TypeOK
<1>2. ASSUME NEW c \in Caller, Publish(c) PROVE Punctual'
  BY <1>0, <1>2 DEF Publish, Owned, TypeOK
<1>3. ASSUME NEW c \in Caller, CallDisable(c) \/ Clear(c) \/ Acquire(c) \/ Disarm(c)
      PROVE  Punctual'
  BY <1>0, <1>3 DEF CallDisable, Clear, Acquire, Disarm
<1>4. ASSUME NEW c \in Caller, StopOld(c) PROVE Punctual'
  BY <1>0, <1>4 DEF StopOld, Stopped, TypeOK
<1>5. ASSUME NEW c \in Caller, Rearm(c) PROVE Punctual'
  <2> DEFINE a == mine[c]
  <2>1. a \in Activation /\ life[a] # "free"
    BY <1>0, <1>5 DEF Rearm, Owned, Finishing, TypeOK
  <2>2. fireAt'[a] = now + conf[a].ttl /\ life'[a] = "armed"
    BY <1>0, <1>5, <2>1 DEF Rearm, Armed, TypeOK
  <2>3. \A b \in Activation \ {a} : fireAt'[b] = fireAt[b] /\ life'[b] = life[b]
    BY <1>0, <1>5 DEF Rearm, Armed, TypeOK
  <2>4. now' = now /\ conf' = conf /\ expiresAt' = expiresAt
    BY <1>5 DEF Rearm
  <2>5. QED
    BY <1>0, <2>1, <2>2, <2>3, <2>4
<1>6. ASSUME NEW a \in Activation, Fire(a) PROVE Punctual'
  BY <1>0, <1>6 DEF Fire, TypeOK
<1>7. ASSUME NEW a \in Activation, Expire(a) PROVE Punctual'
  BY <1>0, <1>7 DEF Expire, TypeOK
<1>8. CASE Tick
  BY <1>0, <1>8 DEF Tick, TypeOK
<1>9. CASE UNCHANGED vars
  BY <1>0, <1>9 DEF vars
<1>10. QED
  BY <1>1, <1>2, <1>3, <1>4, <1>5, <1>6, <1>7, <1>8, <1>9 DEF Next

\* Every step keeps the invariant.
LEMMA InvariantStep == IInv /\ [Next]_vars => IInv'
BY TypeStep, MutexStep, TimerStep, OwnedStep, PunctualStep DEF IInv

-------------------------------------------------------------------------------
\* IInv holds in every state, however calls, timers and ticks interleave.
THEOREM Invariant == Spec => []IInv
BY InitInvariant, InvariantStep, PTL DEF Spec

\* Variables keep their types; in particular every deadline is an instant
\* (Enable's refusal of a TTL that is not positive).
THEOREM TypeCorrect == Spec => []TypeOK
<1>1. IInv => TypeOK
  BY DEF IInv
<1>2. QED
  BY <1>1, Invariant, PTL

\* At most one timer runs and it is the one Enable and Disable would stop,
\* for any number of overlapping calls (timerMu around Stop and AfterFunc).
THEOREM OneLiveTimerHolds == Spec => []OneLiveTimer
<1>1. IInv => OneLiveTimer
  BY DEF IInv
<1>2. QED
  BY <1>1, Invariant, PTL

-------------------------------------------------------------------------------
(* The refinement of TtlSwitch.                                            *)

\* The mapped state, and the set the mapping calls `spent`.
InUse(lf) == {a \in Activation : lf[a] \notin {"free", "built"}}

\* A step that leaves `current`, the deadline in force, the activations in
\* use, the Disables not yet served and the clock alone is a stutter.
LEMMA Stutter ==
    ASSUME current' = current,
           current # Nil => expiresAt'[current] = expiresAt[current],
           InUse(life') = InUse(life),
           {c \in Caller : pc'[c] = "clear"} = {c \in Caller : pc[c] = "clear"},
           now' = now
    PROVE  UNCHANGED Promised!vars
BY DEF Promised!vars, InUse

\* Every step of the switch is a step of TtlSwitch or changes nothing in it.
LEMMA PromiseStep == IInv /\ [Next]_vars => [Promised!Next]_(Promised!vars)
<1> SUFFICES ASSUME IInv, [Next]_vars PROVE Promised!Next \/ UNCHANGED Promised!vars
  OBVIOUS
<1> USE NilAssumption DEF switchVars, timerVars, callVars
<1>0. TypeOK /\ Owned /\ InForce /\ Punctual
  BY DEF IInv
<1>1. ASSUME NEW c \in Caller, NEW a \in Activation, NEW cfg \in Config, Build(c, a, cfg)
      PROVE  UNCHANGED Promised!vars
  <2>1. current # Nil => current # a
    BY <1>0, <1>1 DEF Build, InForce
  <2>2. current # Nil => expiresAt'[current] = expiresAt[current]
    BY <1>0, <1>1, <2>1 DEF Build, TypeOK
  <2>3. InUse(life') = InUse(life)
    BY <1>0, <1>1 DEF Build, InUse, TypeOK
  <2>4. {d \in Caller : pc'[d] = "clear"} = {d \in Caller : pc[d] = "clear"}
    BY <1>0, <1>1 DEF Build, TypeOK
  <2>5. QED
    BY <1>1, <2>2, <2>3, <2>4, Stutter DEF Build
<1>2. ASSUME NEW c \in Caller, Publish(c) PROVE \E a \in Activation : Promised!TurnOn(a)
  <2>1. mine[c] \in Activation /\ life[mine[c]] = "built"
    BY <1>0, <1>2 DEF Publish, Owned, TypeOK
  <2>2. current' = mine[c] /\ expiresAt' = expiresAt /\ expiresAt[mine[c]] \in Nat /\ now' = now
    BY <1>0, <1>2, <2>1 DEF Publish, TypeOK
  <2>3. {a \in Activation : life'[a] \notin {"free", "built"}}
          = {a \in Activation : life[a] \notin {"free", "built"}} \cup {mine[c]}
    BY <1>0, <1>2, <2>1 DEF Publish, TypeOK
  <2>4. {d \in Caller : pc'[d] = "clear"} = {d \in Caller : pc[d] = "clear"}
    BY <1>0, <1>2 DEF Publish, TypeOK
  <2>5. QED
    BY <2>1, <2>2, <2>3, <2>4 DEF Promised!TurnOn
<1>3. ASSUME NEW c \in Caller, CallDisable(c) PROVE Promised!AskOff(c)
  <2>1. {d \in Caller : pc'[d] = "clear"} = {d \in Caller : pc[d] = "clear"} \cup {c}
    BY <1>0, <1>3 DEF CallDisable, TypeOK
  <2>2. QED
    BY <1>3, <2>1 DEF CallDisable, Promised!AskOff
<1>4. ASSUME NEW c \in Caller, Clear(c) PROVE Promised!TurnOff(c)
  <2>1. {d \in Caller : pc'[d] = "clear"} = {d \in Caller : pc[d] = "clear"} \ {c}
    BY <1>0, <1>4 DEF Clear, TypeOK
  <2>2. QED
    BY <1>4, <2>1 DEF Clear, Promised!TurnOff
<1>5. ASSUME NEW c \in Caller, Acquire(c) PROVE UNCHANGED Promised!vars
  <2>1. {d \in Caller : pc'[d] = "clear"} = {d \in Caller : pc[d] = "clear"}
    BY <1>0, <1>5 DEF Acquire, TypeOK
  <2>2. QED
    BY <1>5, <2>1, Stutter DEF Acquire, InUse
<1>6. ASSUME NEW c \in Caller, StopOld(c) PROVE UNCHANGED Promised!vars
  <2>1. InUse(life') = InUse(life)
    BY <1>0, <1>6 DEF StopOld, Stopped, InUse, TypeOK
  <2>2. {d \in Caller : pc'[d] = "clear"} = {d \in Caller : pc[d] = "clear"}
    BY <1>0, <1>6 DEF StopOld, TypeOK
  <2>3. QED
    BY <1>6, <2>1, <2>2, Stutter DEF StopOld
<1>7. ASSUME NEW c \in Caller, Rearm(c) PROVE UNCHANGED Promised!vars
  <2>1. mine[c] \in InUse(life)
    BY <1>0, <1>7 DEF Rearm, Owned, Finishing, InUse, TypeOK
  <2>2. InUse(life') = InUse(life)
    BY <1>0, <1>7, <2>1 DEF Rearm, Armed, InUse, TypeOK
  <2>3. {d \in Caller : pc'[d] = "clear"} = {d \in Caller : pc[d] = "clear"}
    BY <1>0, <1>7 DEF Rearm, TypeOK
  <2>4. QED
    BY <1>7, <2>2, <2>3, Stutter DEF Rearm
<1>8. ASSUME NEW c \in Caller, Disarm(c) PROVE UNCHANGED Promised!vars
  <2>1. {d \in Caller : pc'[d] = "clear"} = {d \in Caller : pc[d] = "clear"}
    BY <1>0, <1>8 DEF Disarm, TypeOK
  <2>2. QED
    BY <1>8, <2>1, Stutter DEF Disarm, InUse
<1>9. ASSUME NEW a \in Activation, Fire(a) PROVE UNCHANGED Promised!vars
  <2>1. InUse(life') = InUse(life)
    BY <1>0, <1>9 DEF Fire, InUse, TypeOK
  <2>2. QED
    BY <1>9, <2>1, Stutter DEF Fire
<1>10. ASSUME NEW a \in Activation, Expire(a) PROVE Promised!Expire \/ UNCHANGED Promised!vars
  <2>1. InUse(life') = InUse(life)
    BY <1>0, <1>10 DEF Expire, InUse, TypeOK
  <2>2. CASE current = a
    <3>1. now >= expiresAt[a] /\ current' = Nil
      BY <1>0, <1>10, <2>2 DEF Expire, CompareAndClear, Punctual, TypeOK
    <3>2. QED
      BY <1>10, <2>1, <2>2, <3>1 DEF Expire, InUse, Promised!Expire
  <2>3. CASE current # a
    BY <1>10, <2>1, <2>3, Stutter DEF Expire, CompareAndClear
  <2>4. QED
    BY <2>2, <2>3
<1>11. ASSUME Tick PROVE Promised!Tick
  BY <1>11 DEF Tick, Promised!Tick
<1>12. CASE UNCHANGED vars
  BY <1>12, Stutter DEF vars, InUse
<1>13. QED
  <2>1. ASSUME NEW c \in Caller,
               \/ \E a \in Activation, cfg \in Config : Build(c, a, cfg)
               \/ Acquire(c) \/ StopOld(c) \/ Rearm(c) \/ Disarm(c)
        PROVE  UNCHANGED Promised!vars
    BY <1>1, <1>5, <1>6, <1>7, <1>8, <2>1
  <2>2. ASSUME NEW c \in Caller, Publish(c) \/ CallDisable(c) \/ Clear(c)
        PROVE  Promised!Next
    BY <1>2, <1>3, <1>4, <2>2 DEF Promised!Next
  <2>3. ASSUME NEW a \in Activation, Fire(a) \/ Expire(a)
        PROVE  Promised!Next \/ UNCHANGED Promised!vars
    BY <1>9, <1>10, <2>3 DEF Promised!Next
  <2>4. ASSUME Tick PROVE Promised!Next
    BY <1>11, <2>4 DEF Promised!Next
  <2>5. QED
    BY <1>12, <2>1, <2>2, <2>3, <2>4 DEF Next

\* Switch implements TtlSwitch: whatever the overlap of Enable, Disable and
\* timer callbacks, an activation is used once and ends by replacement, by a
\* Disable that was asked for, or at an expiry no earlier than its deadline.
THEOREM Refinement == Spec => Promise
<1>1. Init => Promised!Init
  BY DEF Init, Promised!Init
<1>2. QED
  BY <1>1, PromiseStep, Invariant, PTL DEF Spec, Promise, Promised!Spec

-------------------------------------------------------------------------------
(* Calls that do not overlap.                                              *)

\* Every step of serial calls keeps SerialInv.  The last store of `current`
\* and the last critical section are then of the same call.
LEMMA SerialStep == IInv /\ SerialInv /\ [Next]_vars /\ NoOverlap' => SerialInv'
<1> SUFFICES ASSUME IInv, SerialInv, [Next]_vars, NoOverlap' PROVE SerialInv'
  OBVIOUS
<1> USE NilAssumption DEF SerialInv, OnIsBounded, switchVars, timerVars, callVars
<1>0. TypeOK /\ Owned /\ InForce /\ NoOverlap
  BY DEF IInv
<1>a. NoOverlap'
  OBVIOUS
<1>1. ASSUME NEW c \in Caller, NEW a \in Activation, NEW cfg \in Config, Build(c, a, cfg)
      PROVE  SerialInv'
  BY <1>0, <1>1, <1>a DEF Build, InForce, NoOverlap, Finishing, TypeOK
<1>2. ASSUME NEW c \in Caller, Publish(c) PROVE SerialInv'
  BY <1>0, <1>2, <1>a DEF Publish, Owned, NoOverlap, Finishing, TypeOK
<1>3. ASSUME NEW c \in Caller, CallDisable(c) PROVE SerialInv'
  BY <1>0, <1>3, <1>a DEF CallDisable, NoOverlap, Finishing, TypeOK
<1>4. ASSUME NEW c \in Caller, Clear(c) PROVE SerialInv'
  BY <1>0, <1>4, <1>a DEF Clear, NoOverlap, Finishing, TypeOK
<1>5. ASSUME NEW c \in Caller, Acquire(c) PROVE SerialInv'
  BY <1>0, <1>5, <1>a DEF Acquire, Finishing, TypeOK
<1>6. ASSUME NEW c \in Caller, StopOld(c) PROVE SerialInv'
  BY <1>0, <1>6, <1>a DEF StopOld, Finishing, TypeOK
<1>7. ASSUME NEW c \in Caller, Rearm(c) PROVE SerialInv'
  BY <1>0, <1>7, <1>a DEF Rearm, Armed, NoOverlap, Finishing, TypeOK
<1>8. ASSUME NEW c \in Caller, Disarm(c) PROVE SerialInv'
  BY <1>0, <1>8, <1>a DEF Disarm, NoOverlap, Finishing, TypeOK
<1>9. ASSUME NEW a \in Activation, Fire(a) PROVE SerialInv'
  BY <1>0, <1>9, <1>a DEF Fire, Finishing, TypeOK
<1>10. ASSUME NEW a \in Activation, Expire(a) PROVE SerialInv'
  BY <1>0, <1>10, <1>a DEF Expire, CompareAndClear, Finishing, TypeOK
<1>11. CASE Tick \/ UNCHANGED vars
  BY <1>0, <1>11, <1>a DEF Tick, vars
<1>12. QED
  BY <1>1, <1>2, <1>3, <1>4, <1>5, <1>6, <1>7, <1>8, <1>9, <1>10, <1>11 DEF Next

\* With calls that do not overlap, the switch is on only while the call that
\* turned it on has yet to arm the timer, or that activation's own timer is
\* running or about to call back.  (With calls that overlap it is not so:
\* the run `switch_forever` shows an activation that nothing bounds.)
THEOREM SerialIsBounded == Spec => BoundedWhenSerial
<1>1. Init => SerialInv
  BY DEF Init, SerialInv, NoOverlap, OnIsBounded, Finishing
<1>2. SerialInv => OnIsBounded
  BY DEF SerialInv
<1>3. QED
  BY <1>1, <1>2, InitInvariant, InvariantStep, SerialStep, PTL
     DEF Spec, BoundedWhenSerial

===============================================================================
