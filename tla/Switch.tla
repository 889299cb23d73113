-------------------------------- MODULE Switch --------------------------------
(***************************************************************************)
(* The switch of limelight (config.go): the pointer `current` that the hot *)
(* path reads, and the timer that must turn it off.                        *)
(*                                                                         *)
(* Enable publishes its activation with an atomic store and only then      *)
(* takes timerMu to replace the timer; Disable clears the pointer and only *)
(* then takes timerMu to stop the timer; the timer's callback clears the   *)
(* pointer with a CompareAndSwap and no lock.  An action here is one such  *)
(* step: everything between two points where another goroutine can see the *)
(* difference.  A call that Enable refuses changes nothing and has no      *)
(* action.                                                                 *)
(*                                                                         *)
(* Activations are the *active structs Enable allocates: a fresh one every *)
(* time, never mutated.  Each owns at most one timer, so the state of that *)
(* timer is kept with it, in `life`.                                       *)
(***************************************************************************)
EXTENDS Targeting

CONSTANTS Caller,      \* goroutines that call Enable and Disable
          Activation,  \* activation structs that may be allocated (a bound)
          Config,      \* Configs that callers pass to Enable
          Registered,  \* field names in the registry
          Nil,         \* the nil pointer
          Horizon      \* the clock bound: nothing is enabled after it

ASSUME NilAssumption ==
    /\ Nil \notin Activation
    /\ Nil \notin Caller

ASSUME ConfigAssumption == \A cfg \in Config : cfg.ttl \in Int

ASSUME HorizonAssumption == Horizon \in Nat

VARIABLES now,        \* the clock
          current,    \* atomic.Pointer[active]
          conf,       \* conf[a]: the Config activation a was built from
          expiresAt,  \* expiresAt[a]: the deadline Enable computed for a
          life,       \* life[a]: where a and its timer are
          fireAt,     \* fireAt[a]: when a's timer is due
          timerMu,    \* the holder of the mutex, or Nil
          timer,      \* the activation whose timer `timer` points to, or Nil
          pc,         \* pc[c]: where caller c is
          mine        \* mine[c]: the activation c's Enable built, or Nil

switchVars == <<current, conf, expiresAt, life>>
timerVars  == <<fireAt, timerMu, timer>>
callVars   == <<pc, mine>>
vars       == <<now, switchVars, timerVars, callVars>>

-------------------------------------------------------------------------------
(* How far an activation has come:                                         *)
(*   free       not allocated                                              *)
(*   built      allocated and stamped, not yet stored in `current`         *)
(*   published  stored in `current`, no timer yet                          *)
(*   armed      its timer is running                                       *)
(*   fired      its timer went off, the callback has not run yet           *)
(*   stopped    its timer was stopped before it went off                   *)
(*   done       its callback has run                                       *)
Life == {"free", "built", "published", "armed", "fired", "stopped", "done"}

(* Where a caller is:                                                      *)
(*   idle     in no call                                                   *)
(*   clear    in Disable, before the store                                 *)
(*   publish  in Enable, validated and stamped, before the store           *)
(*   lock     in either, after the store, waiting for timerMu              *)
(*   locked   in either, holding timerMu, before the old timer is stopped  *)
(*   stopped  in either, holding timerMu, the old timer stopped            *)
PC == {"idle", "clear", "publish", "lock", "locked", "stopped"}

\* A caller between its store and its return.
Finishing == {"lock", "locked", "stopped"}

(* Steps of the code that a bug would change.  The operators whose names   *)
(* end in _bug are such changes; nothing else uses them.                   *)

\* time.Now().Add(cfg.TTL)
Deadline_signBug(t, cfg) == t - cfg.ttl
Deadline(t, cfg) == t + cfg.ttl

\* current.CompareAndSwap(a, nil): the new value of the pointer cur.
CompareAndClear_storeNilBug(cur, a) == Nil
CompareAndClear_swappedBug(cur, a) == IF cur = Nil THEN a ELSE cur
CompareAndClear(cur, a) == IF cur = a THEN Nil ELSE cur

\* timer.Stop() on a's timer: it has no effect once the timer went off.
Stopped_noStopBug(lf, a) == lf
Stopped(lf, a) ==
    IF a # Nil /\ lf[a] = "armed" THEN [lf EXCEPT ![a] = "stopped"] ELSE lf

\* time.AfterFunc(cfg.TTL, ...) for a.
Armed_forgottenBug(lf, a) == lf
Armed(lf, a) == [lf EXCEPT ![a] = "armed"]

\* Whether timerMu.Lock() goes through when holder has the mutex.
Free_noLockBug(holder) == TRUE
Free(holder) == holder = Nil

\* defer timerMu.Unlock()
Unlock_missingBug(holder) == holder
Unlock(holder) == Nil

-------------------------------------------------------------------------------
Init ==
    /\ now = 0
    /\ current = Nil
    /\ conf = [a \in Activation |-> ZeroConfig]
    /\ expiresAt = [a \in Activation |-> 0]
    /\ life = [a \in Activation |-> "free"]
    /\ fireAt = [a \in Activation |-> 0]
    /\ timerMu = Nil
    /\ timer = Nil
    /\ pc = [c \in Caller |-> "idle"]
    /\ mine = [c \in Caller |-> Nil]

\* Enable up to the store: validate cfg, stamp the deadline, allocate a.
Build(c, a, cfg) ==
    /\ pc[c] = "idle"
    /\ life[a] = "free"
    /\ now <= Horizon
    /\ Accepts(cfg, Registered)
    /\ conf' = [conf EXCEPT ![a] = cfg]
    /\ expiresAt' = [expiresAt EXCEPT ![a] = Deadline(now, cfg)]
    /\ life' = [life EXCEPT ![a] = "built"]
    /\ pc' = [pc EXCEPT ![c] = "publish"]
    /\ mine' = [mine EXCEPT ![c] = a]
    /\ UNCHANGED <<now, current, timerVars>>

\* current.Store(a)
Publish(c) ==
    /\ pc[c] = "publish"
    /\ current' = mine[c]
    /\ life' = [life EXCEPT ![mine[c]] = "published"]
    /\ pc' = [pc EXCEPT ![c] = "lock"]
    /\ UNCHANGED <<now, conf, expiresAt, timerVars, mine>>

\* A goroutine calls Disable.
CallDisable(c) ==
    /\ pc[c] = "idle"
    /\ pc' = [pc EXCEPT ![c] = "clear"]
    /\ mine' = [mine EXCEPT ![c] = Nil]
    /\ UNCHANGED <<now, switchVars, timerVars>>

\* current.Store(nil)
Clear(c) ==
    /\ pc[c] = "clear"
    /\ current' = Nil
    /\ pc' = [pc EXCEPT ![c] = "lock"]
    /\ UNCHANGED <<now, conf, expiresAt, life, timerVars, mine>>

\* timerMu.Lock(), in both calls.
Acquire(c) ==
    /\ pc[c] = "lock"
    /\ Free(timerMu)
    /\ timerMu' = c
    /\ pc' = [pc EXCEPT ![c] = "locked"]
    /\ UNCHANGED <<now, switchVars, fireAt, timer, mine>>

\* if timer != nil { timer.Stop() }, in both calls.
StopOld(c) ==
    /\ pc[c] = "locked"
    /\ life' = Stopped(life, timer)
    /\ pc' = [pc EXCEPT ![c] = "stopped"]
    /\ UNCHANGED <<now, current, conf, expiresAt, timerVars, mine>>

\* timer = time.AfterFunc(...), and Enable's return.  The TTL counts from
\* here, not from the deadline computed before the lock.
Rearm(c) ==
    LET a == mine[c] IN
    /\ pc[c] = "stopped"
    /\ a # Nil
    /\ life' = Armed(life, a)
    /\ fireAt' = [fireAt EXCEPT ![a] = now + conf[a].ttl]
    /\ timer' = a
    /\ timerMu' = Unlock(timerMu)
    /\ pc' = [pc EXCEPT ![c] = "idle"]
    /\ UNCHANGED <<now, current, conf, expiresAt, mine>>

\* timer = nil, and Disable's return.
Disarm(c) ==
    /\ pc[c] = "stopped"
    /\ mine[c] = Nil
    /\ timer' = Nil
    /\ timerMu' = Unlock(timerMu)
    /\ pc' = [pc EXCEPT ![c] = "idle"]
    /\ UNCHANGED <<now, switchVars, fireAt, mine>>

\* The runtime starts the callback of a timer that is due.
Fire(a) ==
    /\ life[a] = "armed"
    /\ now >= fireAt[a]
    /\ life' = [life EXCEPT ![a] = "fired"]
    /\ UNCHANGED <<now, current, conf, expiresAt, timerVars, callVars>>

\* The callback of a's timer.
Expire(a) ==
    /\ life[a] = "fired"
    /\ current' = CompareAndClear(current, a)
    /\ life' = [life EXCEPT ![a] = "done"]
    /\ UNCHANGED <<now, conf, expiresAt, timerVars, callVars>>

\* Time passes, to the horizon and for as long as a running timer needs it.
Tick ==
    /\ \/ now < Horizon
       \/ \E a \in Activation : life[a] = "armed" /\ fireAt[a] > now
    /\ now' = now + 1
    /\ UNCHANGED <<switchVars, timerVars, callVars>>

-------------------------------------------------------------------------------
Return(c) == Rearm(c) \/ Disarm(c)

Next ==
    \/ \E c \in Caller :
        \/ \E a \in Activation, cfg \in Config : Build(c, a, cfg)
        \/ Publish(c)
        \/ CallDisable(c)
        \/ Clear(c)
        \/ Acquire(c)
        \/ StopOld(c)
        \/ Rearm(c)
        \/ Disarm(c)
    \/ \E a \in Activation : Fire(a) \/ Expire(a)
    \/ Tick

Spec == Init /\ [][Next]_vars

(* A call that has begun runs on; a goroutine that waits for timerMu gets  *)
(* it in the end (sync.Mutex hands it to a waiter that starves); the       *)
(* runtime fires due timers and runs their callbacks; time passes.         *)
(* Nobody has to call Enable or Disable.                                   *)
Fairness ==
    /\ \A c \in Caller :
        /\ WF_vars(Publish(c))
        /\ WF_vars(Clear(c))
        /\ SF_vars(Acquire(c))
        /\ WF_vars(StopOld(c))
        /\ WF_vars(Return(c))
    /\ \A a \in Activation :
        /\ WF_vars(Fire(a))
        /\ WF_vars(Expire(a))
    /\ WF_vars(Tick)

FairSpec == Spec /\ Fairness

-------------------------------------------------------------------------------
TypeOK ==
    /\ now \in Nat
    /\ current \in Activation \cup {Nil}
    /\ conf \in [Activation -> Config \cup {ZeroConfig}]
    /\ expiresAt \in [Activation -> Nat]
    /\ life \in [Activation -> Life]
    /\ fireAt \in [Activation -> Nat]
    /\ timerMu \in Caller \cup {Nil}
    /\ timer \in Activation \cup {Nil}
    /\ pc \in [Caller -> PC]
    /\ mine \in [Caller -> Activation \cup {Nil}]

\* Only the timer that `timer` points to can be running, however calls
\* overlap: no timer is ever left running with nobody able to stop it, so
\* activations never leak timers (the Stop under timerMu in Enable and
\* Disable).
OneLiveTimer == \A a \in Activation : life[a] = "armed" => timer = a

\* TtlSwitch, as Switch implements it: an activation is in force from its
\* store, and a Disable has been asked for from its call to its store.
Promised == INSTANCE TtlSwitch WITH
    active <- current,
    until  <- IF current = Nil THEN 0 ELSE expiresAt[current],
    spent  <- {a \in Activation : life[a] \notin {"free", "built"}},
    asked  <- {c \in Caller : pc[c] = "clear"}

\* Switch implements TtlSwitch, with any number of overlapping calls: in
\* particular no callback turns off an activation before the deadline its
\* Enable reported, and no activation comes back once it has ended (the
\* CompareAndSwap in Enable's callback).
Promise == Promised!Spec

\* No call of Enable or Disable begins before the previous one has returned.
NoOverlap == \A c, d \in Caller : pc[c] # "idle" /\ pc[d] # "idle" => c = d

\* Something bounds what is in force: the Enable that turned the switch on
\* has yet to arm the timer, or the timer of this very activation is running
\* or its callback about to run.
OnIsBounded ==
    current # Nil =>
        \/ life[current] \in {"armed", "fired"}
        \/ \E c \in Caller : mine[c] = current /\ pc[c] \in Finishing

\* When calls do not overlap, whatever is in force is bounded by its own
\* timer, however late callbacks of older timers run (the store of `current`
\* and the critical section on timerMu are then taken in one order).
BoundedWhenSerial == []NoOverlap => []OnIsBounded

\* Config.TTL: "there is no way to turn limelight on forever, by design".
\* Every activation that comes into force leaves it again.
EventuallyOff == \A a \in Activation : current = a ~> current # a

\* When calls do not overlap, every activation does leave again.
EndsWhenSerial == []NoOverlap => EventuallyOff

\* Enable and Disable return, however many goroutines are in them: timerMu
\* is always given back (the deferred Unlocks).
CallsReturn == \A c \in Caller : pc[c] # "idle" ~> pc[c] = "idle"

===============================================================================
