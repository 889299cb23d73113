------------------------------ MODULE GateProofs ------------------------------
(***************************************************************************)
(* What holds of Gate for any number of goroutines, fields, contexts,      *)
(* Configs and emitters, when no field is registered twice, with proofs    *)
(* checked by TLAPS.                                                       *)
(*                                                                         *)
(* The key is that what a lookup finds never changes once it finds         *)
(* something, and that every activation a call may see names registered    *)
(* fields only.  So whether an activation targets a context is settled,    *)
(* and what matches found is still true when the event is made.            *)
(***************************************************************************)
EXTENDS Gate, TLAPS

\* As keeps the attribute keys of different fields apart.
DistinctKeys == \A d, e \in Entry : d.key = e.key => d.name = e.name

\* Past the load of `current` and its nil check.
Snapped == {"match", "emitter", "fields", "trace", "deliver", "sent"}

Types ==
    /\ current \in Config \cup {Nil}
    /\ emitter \in Emitters \cup {Nil}
    /\ pc \in [Goroutine -> PC]
    /\ call \in [Goroutine -> Calls]
    /\ snap \in [Goroutine -> Config \cup {Nil}]
    /\ DOMAIN pending = Goroutine
    /\ next \in [Goroutine -> Nat]
    /\ DOMAIN event = Goroutine
    /\ handle \in [Goroutine -> Emitters \cup {Nil}]
    /\ seenOn \in [Goroutine -> SUBSET (Config \cup {Nil})]
    /\ DOMAIN seenEmitter = Goroutine

\* An entry is found under its own name.
Indexed == \A f \in DOMAIN registry : registry[f] \in Entry /\ registry[f].name = f

\* A call in progress has seen what is in place now.
UpToDate ==
    \A g \in Goroutine : InCall(g) => current \in seenOn[g] /\ emitter \in seenEmitter[g]

\* Every activation in sight names registered fields only.
Settled ==
    /\ current # Nil => DOMAIN current.match \subseteq DOMAIN registry
    /\ \A g \in Goroutine : \A a \in seenOn[g] :
        a # Nil => DOMAIN a.match \subseteq DOMAIN registry

\* The snapshot is an activation the call has seen, and every entry of its
\* match that has been checked holds.
Matched ==
    \A g \in Goroutine :
        pc[g] \in Snapped =>
            /\ snap[g] \in seenOn[g]
            /\ snap[g] # Nil
            /\ pc[g] = "match" => ~snap[g].matchAll /\ pending[g] \subseteq DOMAIN snap[g].match
            /\ \/ snap[g].matchAll
               \/ \A f \in DOMAIN snap[g].match :
                    \/ pc[g] = "match" /\ f \in pending[g]
                    \/ Value(f, call[g].ctx) = snap[g].match[f]

TargetInv == Types /\ UpToDate /\ Settled /\ Matched /\ QuietForCause

-------------------------------------------------------------------------------
\* Before anything is called or turned on the invariant holds.
LEMMA InitTargetInv == Init => TargetInv
BY DEF Init, TargetInv, Types, UpToDate, Settled, Matched, QuietForCause,
       InCall, Returned, PC, Snapped, Calls

\* A step that registers nothing leaves every lookup as it was.
LEMMA SameRegistry ==
    ASSUME registry' = registry, NEW f, NEW ctx
    PROVE  Value(f, ctx)' = Value(f, ctx)
BY DEF Value, Extract

\* Registering a new field leaves the lookup of the others as it was.
LEMMA RegisterKeeps ==
    ASSUME ~Rebind, NEW e \in Entry, Register(e)
    PROVE  /\ DOMAIN registry \subseteq DOMAIN registry'
           /\ \A f \in DOMAIN registry : registry'[f] = registry[f]
           /\ \A f \in DOMAIN registry : \A x : Value(f, x)' = Value(f, x)
BY DEF Register, Value, Extract

\* Every step keeps the shapes of the variables.
LEMMA TypesStep == Types /\ [Next]_vars => Types'
<1> SUFFICES ASSUME Types, [Next]_vars PROVE Types'
  OBVIOUS
<1> USE DEF Types, PC, Returned, shared, local, history
<1>1. CASE TurnOn
  BY <1>1 DEF TurnOn, Switch
<1>2. CASE TurnOff
  BY <1>2 DEF TurnOff, Switch
<1>3. ASSUME NEW e \in Entry, Register(e) PROVE Types'
  BY <1>3 DEF Register
<1>4. ASSUME NEW list \in Emitters, SetEmitter(list) PROVE Types'
  BY <1>4 DEF SetEmitter
<1>5. ASSUME NEW h \in Hook \cup {Nil}, SetTraceContextFunc(h) PROVE Types'
  BY <1>5 DEF SetTraceContextFunc
<1>6. ASSUME NEW g \in Goroutine, NEW c \in Calls, Begin(g, c) PROVE Types'
  BY <1>6 DEF Begin
<1>7. ASSUME NEW g \in Goroutine, On(g) PROVE Types'
  BY <1>7 DEF On
<1>8. ASSUME NEW g \in Goroutine, Load(g) PROVE Types'
  BY <1>8 DEF Load
<1>9. ASSUME NEW g \in Goroutine, Match(g) PROVE Types'
  BY <1>9 DEF Match
<1>10. ASSUME NEW g \in Goroutine, LoadEmitter(g) PROVE Types'
  BY <1>10 DEF LoadEmitter
<1>11. ASSUME NEW g \in Goroutine, ExtractField(g) PROVE Types'
  BY <1>11 DEF ExtractField, AfterField
<1>12. ASSUME NEW g \in Goroutine, Trace(g) PROVE Types'
  BY <1>12 DEF Trace
<1>13. ASSUME NEW g \in Goroutine, Deliver(g) PROVE Types'
  BY <1>13 DEF Deliver
<1>14. CASE UNCHANGED vars
  BY <1>14 DEF vars
<1>15. QED
  BY <1>1, <1>2, <1>3, <1>4, <1>5, <1>6, <1>7, <1>8, <1>9, <1>10, <1>11, <1>12,
     <1>13, <1>14 DEF Next, Environment

\* Every step keeps calls in progress up to date with what is in place: the
\* history variables grow with each store they can see.
LEMMA UpToDateStep == Types /\ UpToDate /\ [Next]_vars => UpToDate'
<1> SUFFICES ASSUME Types, UpToDate, [Next]_vars PROVE UpToDate'
  OBVIOUS
<1> USE DEF Types, UpToDate, InCall, Returned, shared, local, history
<1>1. CASE TurnOn \/ TurnOff
  BY <1>1 DEF TurnOn, TurnOff, Switch
<1>2. ASSUME NEW e \in Entry, Register(e) PROVE UpToDate'
  BY <1>2 DEF Register
<1>3. ASSUME NEW list \in Emitters, SetEmitter(list) PROVE UpToDate'
  BY <1>3 DEF SetEmitter
<1>4. ASSUME NEW h \in Hook \cup {Nil}, SetTraceContextFunc(h) PROVE UpToDate'
  BY <1>4 DEF SetTraceContextFunc
<1>5. ASSUME NEW g \in Goroutine, NEW c \in Calls, Begin(g, c) PROVE UpToDate'
  BY <1>5 DEF Begin
<1>6. ASSUME NEW g \in Goroutine, On(g) \/ Load(g) \/ Match(g) \/ LoadEmitter(g)
      PROVE  UpToDate'
  BY <1>6 DEF On, Load, Match, LoadEmitter
<1>7. ASSUME NEW g \in Goroutine, ExtractField(g) \/ Trace(g) \/ Deliver(g)
      PROVE  UpToDate'
  BY <1>7 DEF ExtractField, AfterField, Trace, Deliver
<1>8. CASE UNCHANGED vars
  BY <1>8 DEF vars
<1>9. QED
  BY <1>1, <1>2, <1>3, <1>4, <1>5, <1>6, <1>7, <1>8 DEF Next, Environment

\* Every step keeps the activations in sight on registered fields: Enable
\* accepts no other, and the registry only grows.
LEMMA SettledStep == Types /\ Settled /\ [Next]_vars => Settled'
<1> SUFFICES ASSUME Types, Settled, [Next]_vars PROVE Settled'
  OBVIOUS
<1> USE DEF Types, Settled, shared, local, history
<1>1. CASE TurnOn
  <2>1. PICK cfg \in Config : Accepts(cfg, DOMAIN registry) /\ Switch(cfg)
    BY <1>1 DEF TurnOn
  <2>2. DOMAIN cfg.match \subseteq DOMAIN registry
    BY <2>1 DEF Accepts, Known
  <2>3. QED
    BY <2>1, <2>2 DEF Switch
<1>2. CASE TurnOff
  BY <1>2 DEF TurnOff, Switch
<1>3. ASSUME NEW e \in Entry, Register(e) PROVE Settled'
  <2>1. DOMAIN registry \subseteq DOMAIN registry'
    BY <1>3 DEF Register
  <2>2. QED
    BY <1>3, <2>1 DEF Register
<1>4. ASSUME NEW list \in Emitters, SetEmitter(list) PROVE Settled'
  BY <1>4 DEF SetEmitter
<1>5. ASSUME NEW h \in Hook \cup {Nil}, SetTraceContextFunc(h) PROVE Settled'
  BY <1>5 DEF SetTraceContextFunc
<1>6. ASSUME NEW g \in Goroutine, NEW c \in Calls, Begin(g, c) PROVE Settled'
  BY <1>6 DEF Begin
<1>7. ASSUME NEW g \in Goroutine, On(g) \/ Load(g) \/ Match(g) \/ LoadEmitter(g)
      PROVE  Settled'
  BY <1>7 DEF On, Load, Match, LoadEmitter
<1>8. ASSUME NEW g \in Goroutine, ExtractField(g) \/ Trace(g) \/ Deliver(g)
      PROVE  Settled'
  BY <1>8 DEF ExtractField, Trace, Deliver
<1>9. CASE UNCHANGED vars
  BY <1>9 DEF vars
<1>10. QED
  BY <1>1, <1>2, <1>3, <1>4, <1>5, <1>6, <1>7, <1>8, <1>9 DEF Next, Environment

\* When no field is registered twice, every step keeps the snapshot of a call
\* an activation it has seen, and what was matched true.
LEMMA MatchedStep ==
    ASSUME ~Rebind, TargetInv, [Next]_vars
    PROVE  Matched'
<1> USE DEF Matched, Snapped, shared, local, history
<1>0. Types /\ UpToDate /\ Settled /\ Matched
  BY DEF TargetInv
<1>1. CASE TurnOn \/ TurnOff
  BY <1>0, <1>1, SameRegistry DEF TurnOn, TurnOff, Switch, Types
<1>2. ASSUME NEW e \in Entry, Register(e) PROVE Matched'
  <2>1. \A g \in Goroutine : pc[g] \in Snapped =>
          DOMAIN snap[g].match \subseteq DOMAIN registry
    BY <1>0 DEF Settled, Types
  <2>2. QED
    BY <1>0, <1>2, <2>1, RegisterKeeps DEF Register, Types
<1>3. ASSUME NEW list \in Emitters, SetEmitter(list) PROVE Matched'
  BY <1>0, <1>3, SameRegistry DEF SetEmitter, Types
<1>4. ASSUME NEW h \in Hook \cup {Nil}, SetTraceContextFunc(h) PROVE Matched'
  BY <1>0, <1>4, SameRegistry DEF SetTraceContextFunc, Types
<1>5. ASSUME NEW g \in Goroutine, NEW c \in Calls, Begin(g, c) PROVE Matched'
  BY <1>0, <1>5, SameRegistry DEF Begin, Types
<1>6. ASSUME NEW g \in Goroutine, On(g) PROVE Matched'
  BY <1>0, <1>6, SameRegistry DEF On, Types
<1>7. ASSUME NEW g \in Goroutine, Load(g) PROVE Matched'
  <2>1. current \in seenOn[g]
    BY <1>0, <1>7 DEF Load, UpToDate, InCall, Returned
  <2>2. QED
    BY <1>0, <1>7, <2>1, SameRegistry DEF Load, Types
<1>8. ASSUME NEW g \in Goroutine, Match(g) PROVE Matched'
  BY <1>0, <1>8, SameRegistry DEF Match, Unchecked, Types
<1>9. ASSUME NEW g \in Goroutine, LoadEmitter(g) PROVE Matched'
  BY <1>0, <1>9, SameRegistry DEF LoadEmitter, Types
<1>10. ASSUME NEW g \in Goroutine, ExtractField(g) PROVE Matched'
  BY <1>0, <1>10, SameRegistry DEF ExtractField, AfterField, Types
<1>11. ASSUME NEW g \in Goroutine, Trace(g) \/ Deliver(g) PROVE Matched'
  BY <1>0, <1>11, SameRegistry DEF Trace, Deliver, Types
<1>12. CASE UNCHANGED vars
  BY <1>0, <1>12, SameRegistry DEF vars, Types
<1>13. QED
  BY <1>1, <1>2, <1>3, <1>4, <1>5, <1>6, <1>7, <1>8, <1>9, <1>10, <1>11, <1>12
  DEF Next, Environment

\* When no field is registered twice, whether an activation in sight targets a
\* context does not change.
LEMMA TargetsSettled ==
    ASSUME ~Rebind, Types, Settled, [Next]_vars,
           NEW g \in Goroutine, NEW a \in seenOn[g], NEW ctx
    PROVE  Targets(a, ctx)' = Targets(a, ctx)
<1>1. a # Nil => DOMAIN a.match \subseteq DOMAIN registry
  BY DEF Settled
<1>2. CASE registry' = registry
  BY <1>2 DEF Targets, Value, Extract
<1>3. ASSUME NEW e \in Entry, Register(e) PROVE Targets(a, ctx)' = Targets(a, ctx)
  BY <1>1, <1>3, RegisterKeeps DEF Targets
<1>4. QED
  BY <1>2, <1>3 DEF Next, Environment, TurnOn, TurnOff, Switch, SetEmitter,
     SetTraceContextFunc, Begin, On, Load, Match, LoadEmitter, ExtractField,
     Trace, Deliver, vars, shared

\* Why the call of g may return without an event.
Cause(g) ==
    \/ \E a \in seenOn[g] : ~Targets(a, call[g].ctx)
    \/ Nil \in seenEmitter[g]

\* A cause stays one, for as long as the call and what it has seen stay.
LEMMA CauseStays ==
    ASSUME ~Rebind, Types, Settled, [Next]_vars, NEW g \in Goroutine, Cause(g),
           call'[g] = call[g],
           seenOn'[g] = seenOn[g],
           seenEmitter'[g] = seenEmitter[g]
    PROVE  Cause(g)'
<1>1. CASE Nil \in seenEmitter[g]
  BY <1>1 DEF Cause
<1>2. CASE \E a \in seenOn[g] : ~Targets(a, call[g].ctx)
  <2>1. PICK a \in seenOn[g] : ~Targets(a, call[g].ctx)
    BY <1>2
  <2>2. PICK x : x = call[g].ctx
    OBVIOUS
  <2>3. ~Targets(a, x)
    BY <2>1, <2>2
  <2>4. ~Targets(a, x)'
    BY <2>3, TargetsSettled
  <2>5. x = call'[g].ctx /\ a \in seenOn'[g]
    BY <2>1, <2>2
  <2>6. QED
    BY <2>4, <2>5 DEF Cause, Targets, Value, Extract
<1>3. QED
  BY <1>1, <1>2 DEF Cause

\* When no field is registered twice, every step keeps QuietForCause: a call
\* that returns without an event has just read its cause.
LEMMA QuietStep ==
    ASSUME ~Rebind, TargetInv, [Next]_vars
    PROVE  QuietForCause'
<1> USE DEF Types, InCall, Returned, shared, local, history
<1>0. Types /\ UpToDate /\ Settled /\ Matched /\ QuietForCause
  BY DEF TargetInv
<1>a. \A g \in Goroutine : pc[g] = "quiet" /\ seenOn[g] # {} => Cause(g)
  BY <1>0 DEF QuietForCause, Cause
<1>b. SUFFICES ASSUME NEW g \in Goroutine, pc'[g] = "quiet", seenOn'[g] # {}
               PROVE  Cause(g)'
  BY DEF QuietForCause, Cause
\* Whoever takes the step, the call of g had returned, or returns now.
<1>1. CASE /\ pc[g] = "quiet"
           /\ call'[g] = call[g] /\ seenOn'[g] = seenOn[g]
           /\ seenEmitter'[g] = seenEmitter[g]
  BY <1>0, <1>a, <1>b, <1>1, CauseStays
<1>2. CASE On(g) \/ Load(g)
  <2>1. current = Nil /\ current \in seenOn[g]
    BY <1>0, <1>b, <1>2 DEF On, Load, UpToDate
  <2>2. Cause(g)
    BY <2>1 DEF Cause, Targets
  <2>3. QED
    BY <1>0, <1>2, <2>2, CauseStays DEF On, Load
<1>3. CASE Match(g)
  <2>1. /\ snap[g] \in seenOn[g] /\ ~snap[g].matchAll
        /\ pending[g] \subseteq DOMAIN snap[g].match
    BY <1>0, <1>3 DEF Match, Matched, Snapped
  <2>2. \E name \in pending[g] : Value(name, call[g].ctx) # snap[g].match[name]
    BY <1>0, <1>b, <1>3 DEF Match
  <2>3. Cause(g)
    BY <2>1, <2>2 DEF Cause, Targets
  <2>4. QED
    BY <1>0, <1>3, <2>3, CauseStays DEF Match
<1>4. CASE LoadEmitter(g)
  <2>1. emitter = Nil /\ emitter \in seenEmitter[g]
    BY <1>0, <1>b, <1>4 DEF LoadEmitter, UpToDate
  <2>2. Cause(g)
    BY <2>1 DEF Cause
  <2>3. QED
    BY <1>0, <1>4, <2>2, CauseStays DEF LoadEmitter
<1>5. ASSUME TurnOn \/ TurnOff \/ (\E list \in Emitters : SetEmitter(list))
      PROVE  /\ pc[g] = "quiet"
             /\ call'[g] = call[g] /\ seenOn'[g] = seenOn[g]
             /\ seenEmitter'[g] = seenEmitter[g]
  BY <1>0, <1>b, <1>5 DEF TurnOn, TurnOff, Switch, SetEmitter
<1>6. ASSUME \/ \E e \in Entry : Register(e)
             \/ \E h \in Hook \cup {Nil} : SetTraceContextFunc(h)
             \/ UNCHANGED vars
      PROVE  /\ pc[g] = "quiet"
             /\ call'[g] = call[g] /\ seenOn'[g] = seenOn[g]
             /\ seenEmitter'[g] = seenEmitter[g]
  BY <1>b, <1>6 DEF Register, SetTraceContextFunc, vars
<1>7. ASSUME NEW d \in Goroutine \ {g},
             \/ \E c \in Calls : Begin(d, c)
             \/ On(d) \/ Load(d) \/ Match(d) \/ LoadEmitter(d)
      PROVE  /\ pc[g] = "quiet"
             /\ call'[g] = call[g] /\ seenOn'[g] = seenOn[g]
             /\ seenEmitter'[g] = seenEmitter[g]
  BY <1>0, <1>b, <1>7 DEF Begin, On, Load, Match, LoadEmitter
<1>8. ASSUME NEW d \in Goroutine, ExtractField(d) \/ Trace(d) \/ Deliver(d)
      PROVE  /\ pc[g] = "quiet"
             /\ call'[g] = call[g] /\ seenOn'[g] = seenOn[g]
             /\ seenEmitter'[g] = seenEmitter[g]
  BY <1>0, <1>b, <1>8 DEF ExtractField, AfterField, Trace, Deliver
<1>9. ASSUME NEW c \in Calls, Begin(g, c) PROVE FALSE
  BY <1>0, <1>b, <1>9 DEF Begin
<1>10. QED
  BY <1>1, <1>2, <1>3, <1>4, <1>5, <1>6, <1>7, <1>8, <1>9 DEF Next, Environment

-------------------------------------------------------------------------------
\* TargetInv holds in every state when no field is registered twice.
THEOREM TargetInvariant == ASSUME ~Rebind PROVE Spec => []TargetInv
<1>1. ASSUME TargetInv, [Next]_vars PROVE TargetInv'
  BY <1>1, TypesStep, UpToDateStep, SettledStep, MatchedStep, QuietStep DEF TargetInv
<1>2. QED
  BY <1>1, InitTargetInv, PTL DEF Spec

\* An event leaves only for a request that one activation, in force during
\* the call, targeted as a whole: for any number of goroutines, however the
\* switch moves between the reads of Emit.
THEOREM TargetedOnlyHolds == ASSUME ~Rebind PROVE Spec => []TargetedOnly
<1>1. TargetInv => TargetedOnly
  BY DEF TargetInv, Matched, Snapped, TargetedOnly, Targets
<1>2. QED
  BY <1>1, TargetInvariant, PTL

\* A call returns without an event only when, at some time during it, the
\* switch did not target it or no emitter was installed.
THEOREM QuietForCauseHolds == ASSUME ~Rebind PROVE Spec => []QuietForCause
<1>1. TargetInv => QuietForCause
  BY DEF TargetInv
<1>2. QED
  BY <1>1, TargetInvariant, PTL

-------------------------------------------------------------------------------
(* The content of events.                                                  *)

\* The field names of the directive of the method that g runs.
NamesOf(g) == Names[call[g].method]

\* Enable lets nothing into force that is both a firehose and targeted.
OneTargetEach ==
    /\ current # Nil => OneTarget(current)
    /\ \A g \in Goroutine : snap[g] # Nil => OneTarget(snap[g])

\* Past the first round of the extraction loop.
Extracting == {"fields", "trace", "deliver", "sent"}

\* How far the extraction loop is.
Progress ==
    \A g \in Goroutine :
        /\ "fields" \in DOMAIN event[g]
        /\ pc[g] \in {"on", "load", "match", "emitter"} => next[g] = 1
        /\ pc[g] = "fields" => next[g] \in 1..Len(NamesOf(g))
        /\ pc[g] \in {"trace", "deliver", "sent"} => next[g] = Len(NamesOf(g)) + 1

\* The i-th name of the directive is in the event as it was targeted.
Agrees(g, i) ==
    LET f == NamesOf(g)[i] IN
    f \in DOMAIN snap[g].match =>
        /\ registry[f].key \in DOMAIN event[g].fields
        /\ event[g].fields[registry[f].key] = snap[g].match[f]

\* The names extracted so far are in the event as they were targeted.
Extracted ==
    \A g \in Goroutine : \A i \in Nat \ {0} :
        pc[g] \in Extracting /\ i < next[g] => Agrees(g, i)

EventInv == TargetInv /\ Indexed /\ OneTargetEach /\ Progress /\ Extracted

\* Before any call the invariant holds.
LEMMA InitEventInv == Init => EventInv
<1>1. Init => Indexed /\ OneTargetEach /\ Progress /\ Extracted
  BY DEF Init, Indexed, OneTargetEach, Progress, Extracted, Extracting, NoEvent
<1>2. QED
  BY <1>1, InitTargetInv DEF EventInv

\* Every step keeps entries under their names.
LEMMA IndexedStep == Indexed /\ [Next]_vars => Indexed'
<1> SUFFICES ASSUME Indexed, [Next]_vars PROVE Indexed'
  OBVIOUS
<1>1. CASE registry' = registry
  BY <1>1 DEF Indexed
<1>2. ASSUME NEW e \in Entry, Register(e) PROVE Indexed'
  BY <1>2 DEF Indexed, Register
<1>3. QED
  BY <1>1, <1>2 DEF Next, Environment, TurnOn, TurnOff, Switch, SetEmitter,
     SetTraceContextFunc, Begin, On, Load, Match, LoadEmitter, ExtractField,
     Trace, Deliver, vars, shared

\* Every step keeps firehoses and targeted activations apart.
LEMMA OneTargetStep == Types /\ OneTargetEach /\ [Next]_vars => OneTargetEach'
<1> SUFFICES ASSUME Types, OneTargetEach, [Next]_vars PROVE OneTargetEach'
  OBVIOUS
<1> USE DEF Types, OneTargetEach, shared, local
<1>1. CASE TurnOn \/ TurnOff
  BY <1>1 DEF TurnOn, TurnOff, Switch, Accepts
<1>2. ASSUME NEW g \in Goroutine, (\E c \in Calls : Begin(g, c)) \/ Load(g)
      PROVE  OneTargetEach'
  BY <1>2 DEF Begin, Load
<1>3. CASE current' = current /\ snap' = snap
  BY <1>3
<1>4. QED
  BY <1>1, <1>2, <1>3 DEF Next, Environment, Register, SetEmitter,
     SetTraceContextFunc, On, Match, LoadEmitter, ExtractField, Trace, Deliver, vars

\* Every step keeps count of the names that have been extracted.
LEMMA ProgressStep == Types /\ Progress /\ [Next]_vars => Progress'
<1> SUFFICES ASSUME Types, Progress, [Next]_vars PROVE Progress'
  OBVIOUS
<1> USE DEF Types, Progress, NamesOf, shared, local
<1>0. \A m \in Method : Len(Names[m]) \in Nat /\ Len(Names[m]) >= 1
  BY NamesAssumption
<1>1. \A g \in Goroutine : call[g].method \in Method
  BY DEF Calls
<1>2. CASE pc' = pc /\ call' = call /\ next' = next /\ event' = event
  BY <1>2
<1>3. ASSUME NEW g \in Goroutine, NEW c \in Calls, Begin(g, c) PROVE Progress'
  BY <1>3 DEF Begin, InCall, Returned, NoEvent
<1>4. ASSUME NEW g \in Goroutine, On(g) \/ Load(g) \/ Match(g) PROVE Progress'
  BY <1>4 DEF On, Load, Match
<1>5. ASSUME NEW g \in Goroutine, LoadEmitter(g) PROVE Progress'
  BY <1>0, <1>1, <1>5 DEF LoadEmitter
<1>6. ASSUME NEW g \in Goroutine, ExtractField(g) PROVE Progress'
  <2>1. /\ call' = call /\ DOMAIN pc' = DOMAIN pc
        /\ pc[g] = "fields" /\ next'[g] = next[g] + 1
        /\ pc'[g] = IF next[g] < Len(NamesOf(g)) THEN "fields" ELSE "trace"
    BY <1>6 DEF ExtractField, AfterField
  <2>2. \A d \in Goroutine \ {g} : pc'[d] = pc[d] /\ next'[d] = next[d]
    BY <1>6 DEF ExtractField
  <2>3. \A d \in Goroutine : "fields" \in DOMAIN event'[d]
    BY <1>6 DEF ExtractField
  <2>4. SUFFICES ASSUME NEW d \in Goroutine
                 PROVE  /\ pc'[d] \in {"on", "load", "match", "emitter"} => next'[d] = 1
                        /\ pc'[d] = "fields" => next'[d] \in 1..Len(NamesOf(d))
                        /\ pc'[d] \in {"trace", "deliver", "sent"} =>
                              next'[d] = Len(NamesOf(d)) + 1
    BY <2>1, <2>3
  <2>5. CASE d = g
    <3>1. next[g] \in 1..Len(NamesOf(g)) /\ Len(NamesOf(g)) \in Nat
      BY <1>0, <1>1, <2>1
    <3>2. QED
      BY <2>1, <2>5, <3>1
  <2>6. CASE d # g
    BY <2>2, <2>6
  <2>7. QED
    BY <2>5, <2>6
<1>7. ASSUME NEW g \in Goroutine, Trace(g) \/ Deliver(g) PROVE Progress'
  BY <1>7 DEF Trace, Deliver
<1>8. QED
  BY <1>2, <1>3, <1>4, <1>5, <1>6, <1>7 DEF Next, Environment, TurnOn, TurnOff,
     Switch, Register, SetEmitter, SetTraceContextFunc, vars

\* A name stays in the event as it was targeted, for as long as the call, its
\* snapshot, the event's fields and the entries it was matched by stay.
LEMMA AgreesStays ==
    ASSUME NEW g \in Goroutine, NEW i, Agrees(g, i),
           call'[g] = call[g], snap'[g] = snap[g],
           event'[g].fields = event[g].fields,
           \A f \in DOMAIN snap[g].match : registry'[f] = registry[f]
    PROVE  Agrees(g, i)'
BY DEF Agrees, NamesOf

\* When no field is registered twice and no two fields share a key, every step
\* keeps the fields extracted so far as they were targeted: what was matched
\* is found again, and no other field overwrites it.
LEMMA ExtractedStep ==
    ASSUME ~Rebind, DistinctKeys, EventInv, [Next]_vars
    PROVE  Extracted'
<1>0. Types /\ Settled /\ Matched /\ Indexed /\ OneTargetEach /\ Progress /\ Extracted
  BY DEF EventInv, TargetInv
<1>a. SUFFICES ASSUME NEW g \in Goroutine, NEW i \in Nat \ {0},
                      pc'[g] \in Extracting, i < next'[g]
               PROVE  Agrees(g, i)'
  BY DEF Extracted, Extracting
<1> DEFINE Calm == /\ pc[g] \in Extracting
                   /\ next'[g] = next[g] /\ call'[g] = call[g]
                   /\ snap'[g] = snap[g] /\ event'[g].fields = event[g].fields
<1> USE DEF Types, Extracting, shared, local
<1>b. pc[g] \in Extracting =>
        snap[g] \in Config /\ DOMAIN snap[g].match \subseteq DOMAIN registry
  BY <1>0 DEF Settled, Matched, Snapped
<1>1. CASE Calm
  <2>1. \A f \in DOMAIN registry : registry'[f] = registry[f]
    <3>1. ASSUME NEW e \in Entry, Register(e)
          PROVE  \A f \in DOMAIN registry : registry'[f] = registry[f]
      BY <3>1, RegisterKeeps
    <3>2. CASE registry' = registry
      BY <3>2
    <3>3. QED
      BY <3>1, <3>2 DEF Next, Environment, TurnOn, TurnOff, Switch, SetEmitter,
         SetTraceContextFunc, Begin, On, Load, Match, LoadEmitter, ExtractField,
         Trace, Deliver, vars
  <2>2. Agrees(g, i)
    BY <1>0, <1>a, <1>1 DEF Extracted
  <2>3. QED
    BY <1>1, <1>b, <2>1, <2>2, AgreesStays
<1>2. ASSUME LoadEmitter(g) PROVE FALSE
  BY <1>0, <1>a, <1>2 DEF LoadEmitter, Progress
<1>3. CASE ExtractField(g)
  <2> DEFINE n    == next[g]
             name == NamesOf(g)[n]
             v    == Value(name, call[g].ctx)
             wanted == snap[g].match
  <2>1. /\ pc[g] = "fields" /\ n \in Nat
        /\ registry' = registry /\ snap' = snap /\ call' = call
        /\ next'[g] = n + 1
    BY <1>0, <1>3 DEF ExtractField
  <2>2. name \in DOMAIN wanted => v = wanted[name] /\ v # Nil
    <3>1. /\ OneTarget(snap[g])
          /\ snap[g].matchAll \/ \A f \in DOMAIN wanted : Value(f, call[g].ctx) = wanted[f]
      BY <1>0, <1>b, <2>1 DEF Matched, Snapped, OneTargetEach
    <3>2. QED
      BY <1>b, <2>1, <3>1, ConfigAssumption DEF OneTarget
  <2>3. ASSUME v # Nil
        PROVE  /\ name \in DOMAIN registry
               /\ event'[g].fields =
                    [k \in DOMAIN event[g].fields \cup {registry[name].key} |->
                        IF k = registry[name].key THEN v ELSE event[g].fields[k]]
    BY <1>0, <1>3, <2>3 DEF ExtractField, KeyOf, Value, Progress, NamesOf
  <2>4. v = Nil => event' = event
    BY <1>3 DEF ExtractField, NamesOf
  <2>5. CASE i < n
    <3>1. Agrees(g, i)
      BY <1>0, <2>1, <2>5 DEF Extracted
    <3>2. CASE v = Nil
      BY <2>1, <2>4, <3>1, <3>2, AgreesStays
    <3>3. CASE v # Nil
      <4> DEFINE f == NamesOf(g)[i]
      <4>1. SUFFICES ASSUME f \in DOMAIN wanted
                     PROVE  /\ registry[f].key \in DOMAIN event'[g].fields
                            /\ event'[g].fields[registry[f].key] = wanted[f]
        BY <2>1 DEF Agrees, NamesOf
      <4>2. /\ registry[f].key \in DOMAIN event[g].fields
            /\ event[g].fields[registry[f].key] = wanted[f]
        BY <3>1, <4>1 DEF Agrees
      <4>3. registry[f].key = registry[name].key => f = name
        BY <1>0, <1>b, <2>1, <2>3, <3>3, <4>1 DEF Indexed, DistinctKeys
      <4>4. QED
        BY <2>2, <2>3, <3>3, <4>1, <4>2, <4>3
    <3>4. QED
      BY <3>2, <3>3
  <2>6. CASE i = n
    BY <2>1, <2>2, <2>3, <2>6 DEF Agrees, NamesOf
  <2>7. QED
    BY <1>a, <2>1, <2>5, <2>6
<1>4. ASSUME NEW c \in Calls, Begin(g, c) PROVE FALSE
  BY <1>0, <1>a, <1>4 DEF Begin
<1>5. ASSUME On(g) \/ Load(g) \/ Match(g) PROVE FALSE
  BY <1>0, <1>a, <1>5 DEF On, Load, Match
<1>6. CASE Trace(g) \/ Deliver(g)
  BY <1>0, <1>1, <1>6 DEF Trace, Deliver, Progress
<1>7. CASE /\ pc'[g] = pc[g] /\ next'[g] = next[g] /\ call'[g] = call[g]
           /\ snap'[g] = snap[g] /\ event'[g] = event[g]
  BY <1>1, <1>7, <1>a
<1>8. ASSUME NEW d \in Goroutine \ {g},
             \/ \E c \in Calls : Begin(d, c)
             \/ On(d) \/ Load(d) \/ Match(d) \/ LoadEmitter(d)
             \/ ExtractField(d) \/ Trace(d) \/ Deliver(d)
      PROVE  /\ pc'[g] = pc[g] /\ next'[g] = next[g] /\ call'[g] = call[g]
             /\ snap'[g] = snap[g] /\ event'[g] = event[g]
  BY <1>0, <1>8 DEF Begin, On, Load, Match, LoadEmitter, ExtractField, Trace, Deliver
<1>9. ASSUME Environment \/ UNCHANGED vars
      PROVE  /\ pc'[g] = pc[g] /\ next'[g] = next[g] /\ call'[g] = call[g]
             /\ snap'[g] = snap[g] /\ event'[g] = event[g]
  BY <1>9 DEF Environment, TurnOn, TurnOff, Switch, Register, SetEmitter,
     SetTraceContextFunc, vars
<1>10. QED
  BY <1>2, <1>3, <1>4, <1>5, <1>6, <1>7, <1>8, <1>9 DEF Next

\* EventInv holds in every state when no field is registered twice and no two
\* fields share an attribute key.
THEOREM EventInvariant == ASSUME ~Rebind, DistinctKeys PROVE Spec => []EventInv
<1>1. ASSUME EventInv, [Next]_vars PROVE EventInv'
  <2>1. TargetInv /\ Types
    BY <1>1 DEF EventInv, TargetInv
  <2>2. TargetInv'
    BY <1>1, <2>1, TypesStep, UpToDateStep, SettledStep, MatchedStep, QuietStep DEF TargetInv
  <2>3. QED
    BY <1>1, <2>1, <2>2, IndexedStep, OneTargetStep, ProgressStep, ExtractedStep DEF EventInv
<1>2. QED
  BY <1>1, InitEventInv, PTL DEF Spec

\* Targeting and emission do not disagree (Config.Match), when each field is
\* registered once and As gives different fields different keys: a field that
\* the call was targeted by, and that its directive names, is in the event
\* with the value that was targeted.
THEOREM AgreementHolds == ASSUME ~Rebind, DistinctKeys PROVE Spec => []Agreement
<1>1. ASSUME EventInv, NEW g \in Goroutine, pc[g] \in {"deliver", "sent"},
             NEW f \in DOMAIN snap[g].match \cap ToSet(Names[call[g].method])
      PROVE  /\ registry[f].key \in DOMAIN event[g].fields
             /\ event[g].fields[registry[f].key] = snap[g].match[f]
  <2>1. call[g].method \in Method
    BY <1>1 DEF EventInv, TargetInv, Types, Calls
  <2>2. PICK i \in 1..Len(NamesOf(g)) : f = NamesOf(g)[i]
    BY <2>1, NamesAssumption DEF ToSet, NamesOf
  <2>3. i < next[g]
    BY <1>1, <2>1, <2>2, NamesAssumption DEF EventInv, Progress, NamesOf
  <2>4. Agrees(g, i)
    BY <1>1, <2>2, <2>3 DEF EventInv, Extracted, Extracting
  <2>5. QED
    BY <1>1, <2>2, <2>4 DEF Agrees
<1>2. EventInv => Agreement
  BY <1>1 DEF Agreement
<1>3. QED
  BY <1>2, EventInvariant, PTL

-------------------------------------------------------------------------------
(* The delivery.                                                           *)

\* seq is the list up to position n, without its nil members.
VisitsTo(seq, list, n) ==
    /\ seq \in Seq({list[i] : i \in DOMAIN list})
    /\ \E at \in [DOMAIN seq -> DOMAIN list] :
        /\ \A j, k \in DOMAIN seq : j < k => at[j] < at[k]
        /\ \A k \in DOMAIN seq : seq[k] = list[at[k]]
        /\ {at[k] : k \in DOMAIN seq} = {i \in Live(list) : i <= n}

\* What the call of g has delivered: nothing before its emitter is called,
\* then the members of the emitter it loaded, which was installed during the
\* call, up to the last one reached.
Delivered(g) ==
    /\ last[g] \in 0..(IF handle[g] = Nil THEN 0 ELSE Len(handle[g]))
    /\ pc[g] \notin {"deliver", "sent"} => last[g] = 0 /\ reached[g] = <<>>
    /\ pc[g] \in Extracting => handle[g] \in Emitters /\ handle[g] \in seenEmitter[g]
    /\ pc[g] \in {"deliver", "sent"} => VisitsTo(reached[g], handle[g], last[g])
    /\ pc[g] = "sent" => Visits(reached[g], handle[g])

DeliveryTypes ==
    last \in [Goroutine -> Nat] /\ DOMAIN reached = Goroutine

DeliveryInv ==
    /\ Types /\ UpToDate /\ DeliveryTypes
    /\ \A g \in Goroutine : Delivered(g)

\* Before the first member nothing is visited.
LEMMA NoneVisited ==
    ASSUME NEW list \in Emitters
    PROVE  VisitsTo(<<>>, list, 0)
<1> DEFINE none == [k \in {} |-> k]
<1>1. DOMAIN list = 1..Len(list) /\ Len(list) \in Nat
  BY EmittersAssumption
<1>2. {i \in Live(list) : i <= 0} = {}
  BY <1>1 DEF Live
<1>3. DOMAIN <<>> = {}
  OBVIOUS
<1>4. none \in [DOMAIN <<>> -> DOMAIN list] /\ {none[k] : k \in DOMAIN <<>>} = {}
  BY <1>3
<1>5. <<>> \in Seq({list[i] : i \in DOMAIN list})
  OBVIOUS
<1>6. QED
  BY <1>2, <1>3, <1>4, <1>5 DEF VisitsTo

\* Handing the event to the next member that is not nil visits it too.
LEMMA OneMoreVisited ==
    ASSUME NEW list \in Emitters, NEW seq, NEW n \in Nat, VisitsTo(seq, list, n),
           NEW i \in Live(list), i > n, \A j \in Live(list) : j > n => i <= j
    PROVE  VisitsTo(Append(seq, list[i]), list, i)
<1> DEFINE Members == {list[j] : j \in DOMAIN list}
           more == Append(seq, list[i])
<1>1. DOMAIN list = 1..Len(list) /\ Len(list) \in Nat /\ i \in DOMAIN list
  BY EmittersAssumption DEF Live
<1>2. seq \in Seq(Members) /\ list[i] \in Members
  BY <1>1 DEF VisitsTo
<1>3. PICK at \in [DOMAIN seq -> DOMAIN list] :
        /\ \A j, k \in DOMAIN seq : j < k => at[j] < at[k]
        /\ \A k \in DOMAIN seq : seq[k] = list[at[k]]
        /\ {at[k] : k \in DOMAIN seq} = {j \in Live(list) : j <= n}
  BY DEF VisitsTo
<1>4. PICK len \in Nat : len = Len(seq) /\ DOMAIN seq = 1..len
  BY <1>2
<1>5. /\ more \in Seq(Members) /\ DOMAIN more = 1..(len + 1)
      /\ more[len + 1] = list[i]
      /\ \A k \in 1..len : more[k] = seq[k]
  BY <1>2, <1>4
<1> HIDE DEF more, Members
<1> DEFINE on == [k \in 1..(len + 1) |-> IF k = len + 1 THEN i ELSE at[k]]
<1>6. /\ on \in [DOMAIN more -> DOMAIN list]
      /\ on[len + 1] = i
      /\ \A k \in 1..len : on[k] = at[k]
  BY <1>1, <1>3, <1>4, <1>5
<1>7. \A k \in 1..len : at[k] \in Live(list) /\ at[k] <= n
  BY <1>3, <1>4
<1> HIDE DEF on
<1>8. \A j, k \in DOMAIN more : j < k => on[j] < on[k]
  <2> SUFFICES ASSUME NEW j \in 1..(len + 1), NEW k \in 1..(len + 1), j < k
               PROVE  on[j] < on[k]
    BY <1>5
  <2>1. j \in 1..len /\ on[j] = at[j] /\ at[j] \in DOMAIN list /\ at[j] <= n
    BY <1>3, <1>4, <1>6, <1>7
  <2>2. CASE k = len + 1
    BY <1>1, <1>6, <2>1, <2>2
  <2>3. CASE k \in 1..len
    BY <1>3, <1>4, <1>6, <2>1, <2>3
  <2>4. QED
    BY <2>2, <2>3
<1>9. \A k \in DOMAIN more : more[k] = list[on[k]]
  BY <1>3, <1>4, <1>5, <1>6
<1>10. {on[k] : k \in DOMAIN more} = {j \in Live(list) : j <= i}
  <2>1. ASSUME NEW k \in 1..(len + 1) PROVE on[k] \in Live(list) /\ on[k] <= i
    <3>1. CASE k = len + 1
      BY <1>1, <1>6, <3>1
    <3>2. CASE k \in 1..len
      <4>1. on[k] = at[k] /\ at[k] \in Live(list) /\ at[k] <= n /\ at[k] \in 1..Len(list)
        BY <1>1, <1>3, <1>4, <1>6, <1>7, <3>2
      <4>2. QED
        BY <1>1, <4>1
    <3>3. QED
      BY <3>1, <3>2
  <2>2. ASSUME NEW j \in Live(list), j <= i PROVE \E k \in 1..(len + 1) : on[k] = j
    <3>1. j \in 1..Len(list)
      BY <1>1 DEF Live
    <3>2. CASE j > n
      <4>1. j = i
        BY <1>1, <2>2, <3>1, <3>2
      <4>2. QED
        BY <1>4, <1>6, <4>1
    <3>3. CASE j <= n
      <4>1. PICK k \in 1..len : at[k] = j
        BY <1>3, <1>4, <3>3
      <4>2. QED
        BY <1>4, <1>6, <4>1
    <3>4. QED
      BY <3>1, <3>2, <3>3
  <2>3. QED
    BY <1>5, <2>1, <2>2
<1>11. QED
  BY <1>5, <1>6, <1>8, <1>9, <1>10 DEF VisitsTo, more, Members

\* When none is left, all are visited.
LEMMA AllVisited ==
    ASSUME NEW list \in Emitters, NEW seq, NEW n \in Nat, VisitsTo(seq, list, n),
           {i \in Live(list) : i > n} = {}
    PROVE  Visits(seq, list)
<1>1. DOMAIN list \subseteq Nat
  BY EmittersAssumption
<1>2. {i \in Live(list) : i <= n} = {i \in DOMAIN list : list[i] # Nil}
  BY <1>1 DEF Live
<1>3. QED
  BY <1>2 DEF VisitsTo, Visits

\* Every step keeps what has been delivered.
LEMMA DeliveryStep ==
    ASSUME DeliveryInv, [Next]_vars
    PROVE  DeliveryTypes' /\ \A g \in Goroutine : Delivered(g)'
<1> USE DEF Types, DeliveryTypes, shared, local, history
<1>0. Types /\ UpToDate /\ DeliveryTypes /\ \A g \in Goroutine : Delivered(g)
  BY DEF DeliveryInv
<1> DEFINE Same(g) == /\ pc'[g] = pc[g] /\ handle'[g] = handle[g]
                      /\ last'[g] = last[g] /\ reached'[g] = reached[g]
                      /\ seenEmitter[g] \subseteq seenEmitter'[g]
           Other(g) == \A d \in Goroutine \ {g} : Same(d)
\* A call whose own step it is not keeps what it has delivered.
<1>1. ASSUME NEW g \in Goroutine, Same(g) PROVE Delivered(g)'
  BY <1>0, <1>1 DEF Delivered, Extracting
<1>2. ASSUME Environment \/ UNCHANGED vars
      PROVE  DeliveryTypes' /\ \A g \in Goroutine : Same(g)
  BY <1>0, <1>2 DEF Environment, TurnOn, TurnOff, Switch, Register, SetEmitter,
     SetTraceContextFunc, vars
<1>3. ASSUME NEW g \in Goroutine, NEW c \in Calls, Begin(g, c)
      PROVE  DeliveryTypes' /\ Other(g) /\ Delivered(g)'
  <2>1. /\ pc'[g] = "on" /\ last'[g] = 0 /\ reached'[g] = <<>> /\ handle'[g] = Nil
        /\ DeliveryTypes' /\ Other(g)
    BY <1>0, <1>3 DEF Begin
  <2>2. QED
    BY <2>1 DEF Delivered, Extracting
<1>4. ASSUME NEW g \in Goroutine, On(g) \/ Load(g) \/ Match(g)
      PROVE  DeliveryTypes' /\ Other(g) /\ Delivered(g)'
  <2>1. /\ pc[g] \in {"on", "load", "match"}
        /\ pc'[g] \in {"quiet", "load", "match", "emitter"}
        /\ handle' = handle /\ last' = last /\ reached' = reached
        /\ DeliveryTypes' /\ Other(g)
    BY <1>0, <1>4 DEF On, Load, Match
  <2>2. QED
    BY <1>0, <2>1 DEF Delivered, Extracting
<1>5. ASSUME NEW g \in Goroutine, LoadEmitter(g)
      PROVE  DeliveryTypes' /\ Other(g) /\ Delivered(g)'
  <2>1. /\ pc[g] = "emitter" /\ handle'[g] = emitter
        /\ pc'[g] = IF emitter = Nil THEN "quiet" ELSE "fields"
        /\ last' = last /\ reached' = reached /\ seenEmitter' = seenEmitter
        /\ DeliveryTypes' /\ Other(g)
    BY <1>0, <1>5 DEF LoadEmitter
  <2>2. emitter \in seenEmitter[g] /\ emitter \in Emitters \cup {Nil}
    BY <1>0, <2>1 DEF UpToDate, InCall, Returned
  <2>3. last[g] = 0 /\ reached[g] = <<>>
    BY <1>0, <2>1 DEF Delivered
  <2>4. emitter # Nil => Len(emitter) \in Nat
    BY <2>2, EmittersAssumption
  <2>5. QED
    BY <2>1, <2>2, <2>3, <2>4 DEF Delivered, Extracting
<1>6. ASSUME NEW g \in Goroutine, ExtractField(g)
      PROVE  DeliveryTypes' /\ Other(g) /\ Delivered(g)'
  <2>1. /\ pc[g] = "fields" /\ pc'[g] \in {"fields", "trace"} /\ handle' = handle
        /\ last' = last /\ reached' = reached /\ seenEmitter' = seenEmitter
        /\ DeliveryTypes' /\ Other(g)
    BY <1>0, <1>6 DEF ExtractField, AfterField
  <2>2. QED
    BY <1>0, <2>1 DEF Delivered, Extracting
<1>7. ASSUME NEW g \in Goroutine, Trace(g)
      PROVE  DeliveryTypes' /\ Other(g) /\ Delivered(g)'
  <2>1. /\ pc[g] = "trace" /\ pc'[g] = "deliver" /\ handle' = handle
        /\ last' = last /\ reached' = reached /\ seenEmitter' = seenEmitter
        /\ DeliveryTypes' /\ Other(g)
    BY <1>0, <1>7 DEF Trace
  <2>2. last[g] = 0 /\ reached[g] = <<>> /\ handle[g] \in Emitters
    BY <1>0, <2>1 DEF Delivered, Extracting
  <2>3. VisitsTo(reached'[g], handle'[g], last'[g])
    BY <2>1, <2>2, NoneVisited
  <2>4. QED
    BY <1>0, <2>1, <2>3 DEF Delivered, Extracting
<1>8. ASSUME NEW g \in Goroutine, Deliver(g)
      PROVE  DeliveryTypes' /\ Other(g) /\ Delivered(g)'
  <2> DEFINE left == {i \in Live(handle[g]) : i > last[g]}
  <2>1. /\ pc[g] = "deliver" /\ handle' = handle /\ seenEmitter' = seenEmitter
        /\ last[g] \in Nat
    BY <1>0, <1>8 DEF Deliver
  <2>2. /\ handle[g] \in Emitters /\ handle[g] # Nil
        /\ handle[g] \in seenEmitter[g]
        /\ VisitsTo(reached[g], handle[g], last[g])
    BY <1>0, <2>1, NilAssumption DEF Delivered, Extracting
  <2>3. Len(handle[g]) \in Nat /\ DOMAIN handle[g] = 1..Len(handle[g])
    BY <2>2, EmittersAssumption
  <2>4. ASSUME NEW i \in left, \A j \in left : i <= j,
               last' = [last EXCEPT ![g] = i],
               reached' = [reached EXCEPT ![g] = Append(@, handle[g][i])],
               UNCHANGED pc
        PROVE  DeliveryTypes' /\ Other(g) /\ Delivered(g)'
    <3>1. i \in Live(handle[g]) /\ i > last[g] /\ i \in 1..Len(handle[g])
      BY <2>3 DEF Live
    <3>2. \A j \in Live(handle[g]) : j > last[g] => i <= j
      BY <2>4
    <3>3. VisitsTo(Append(reached[g], handle[g][i]), handle[g], i)
      BY <2>1, <2>2, <3>1, <3>2, OneMoreVisited
    <3>4. /\ last'[g] = i /\ reached'[g] = Append(reached[g], handle[g][i])
          /\ pc'[g] = "deliver" /\ Other(g)
      BY <1>0, <2>1, <2>4
    <3>5. DeliveryTypes'
      BY <1>0, <2>3, <2>4, <3>1
    <3>6. QED
      BY <2>1, <2>2, <2>3, <3>1, <3>3, <3>4, <3>5 DEF Delivered
  <2>5. ASSUME left = {}, pc' = [pc EXCEPT ![g] = "sent"], UNCHANGED <<last, reached>>
        PROVE  DeliveryTypes' /\ Other(g) /\ Delivered(g)'
    <3>1. Visits(reached[g], handle[g])
      BY <2>1, <2>2, <2>5, AllVisited
    <3>2. pc'[g] = "sent" /\ Other(g) /\ DeliveryTypes'
      BY <1>0, <2>1, <2>5
    <3>3. QED
      BY <1>0, <2>1, <2>2, <2>5, <3>1, <3>2 DEF Delivered
  <2> HIDE DEF Other
  <2>6. QED
    BY <1>8, <2>4, <2>5 DEF Deliver
<1> HIDE DEF Same
<1>9. QED
  BY <1>0, <1>1, <1>2, <1>3, <1>4, <1>5, <1>6, <1>7, <1>8 DEF Next

\* DeliveryInv holds in every state, however often fields are registered.
THEOREM DeliveryInvariant == Spec => []DeliveryInv
<1>1. Init => DeliveryInv
  <2> SUFFICES ASSUME Init PROVE DeliveryInv
    OBVIOUS
  <2>1. Types /\ UpToDate
    BY InitTargetInv DEF TargetInv
  <2>2. QED
    BY <2>1 DEF Init, DeliveryInv, DeliveryTypes, Delivered, Extracting
<1>2. ASSUME DeliveryInv, [Next]_vars PROVE DeliveryInv'
  BY <1>2, TypesStep, UpToDateStep, DeliveryStep DEF DeliveryInv
<1>3. QED
  BY <1>1, <1>2, PTL DEF Spec

\* An event that was sent has reached every backend of one emitter installed
\* during the call, each once and in the order of MultiEmitter's list, and no
\* backend of another, whatever SetEmitter did meanwhile: for any emitters,
\* and also when fields are registered more than once.
THEOREM WholeEmitterHolds == Spec => []WholeEmitter
<1>1. DeliveryInv => WholeEmitter
  <2> SUFFICES ASSUME DeliveryInv, NEW g \in Goroutine, pc[g] = "sent"
               PROVE  \E list \in seenEmitter[g] \ {Nil} : Visits(reached[g], list)
    BY DEF WholeEmitter
  <2>1. handle[g] \in Emitters /\ handle[g] \in seenEmitter[g]
    BY DEF DeliveryInv, Delivered, Extracting
  <2>2. Visits(reached[g], handle[g])
    BY DEF DeliveryInv, Delivered
  <2>3. QED
    BY <2>1, <2>2, NilAssumption
<1>2. QED
  BY <1>1, DeliveryInvariant, PTL

-------------------------------------------------------------------------------
(* The types.                                                              *)

Keys == {e.key : e \in Entry}

\* What TypeOK says beyond Types.
Typed ==
    /\ registry \in PartialMap(Field, Entry)
    /\ hook \in Hook \cup {Nil}
    /\ pending \in [Goroutine -> SUBSET Field]
    /\ event \in [Goroutine ->
                    [fields : PartialMap(Keys, Strings), hook : Hook \cup {Nil}]]
    /\ \A g \in Goroutine : next[g] \in 1..(Len(NamesOf(g)) + 1)

\* A partial map with one more entry is one.
LEMMA OneMore ==
    ASSUME NEW K, NEW V, NEW f \in PartialMap(K, V), NEW k \in K, NEW v \in V
    PROVE  [j \in DOMAIN f \cup {k} |-> IF j = k THEN v ELSE f[j]] \in PartialMap(K, V)
<1>1. PICK D \in SUBSET K : f \in [D -> V]
  BY DEF PartialMap
<1>2. [j \in DOMAIN f \cup {k} |-> IF j = k THEN v ELSE f[j]] \in [D \cup {k} -> V]
  BY <1>1
<1>3. D \cup {k} \in SUBSET K
  OBVIOUS
<1>4. QED
  BY <1>2, <1>3 DEF PartialMap

\* The string that a lookup finds for a context is a string.
LEMMA ValueType ==
    ASSUME registry \in PartialMap(Field, Entry), NEW f, NEW ctx \in Context,
           Value(f, ctx) # Nil
    PROVE  Value(f, ctx) \in Strings /\ f \in DOMAIN registry /\ KeyOf(f) \in Keys
<1>1. f \in DOMAIN registry
  BY DEF Value
<1>2. registry[f] \in Entry
  BY <1>1 DEF PartialMap
<1>3. Carries[registry[f].extract][ctx] \in DOMAIN Text \cup {Nil}
  BY <1>2, EntryAssumption
<1>4. QED
  BY <1>1, <1>2, <1>3 DEF Value, Extract, Strings, KeyOf, Keys

\* Every step keeps the types.
LEMMA TypedStep ==
    ASSUME Types, Settled, Progress, Typed, [Next]_vars
    PROVE  Typed'
<1> USE DEF shared, local
<1>0. \A m \in Method : Len(Names[m]) \in Nat /\ Len(Names[m]) >= 1
  BY NamesAssumption
<1>1. ASSUME pending' = pending, event' = event, next' = next, call' = call,
             registry' \in PartialMap(Field, Entry), hook' \in Hook \cup {Nil}
      PROVE  Typed'
  BY <1>1 DEF Typed, NamesOf
<1>2. CASE TurnOn \/ TurnOff \/ (\E list \in Emitters : SetEmitter(list))
  BY <1>1, <1>2 DEF TurnOn, TurnOff, Switch, SetEmitter, Typed
<1>3. ASSUME NEW e \in Entry, Register(e) PROVE Typed'
  <2>1. registry' \in PartialMap(Field, Entry)
    <3>1. e.name \in Field /\ registry \in PartialMap(Field, Entry)
      BY EntryAssumption DEF Typed
    <3>2. [f \in DOMAIN registry \cup {e.name} |->
                IF f = e.name THEN e ELSE registry[f]] \in PartialMap(Field, Entry)
      BY <3>1, OneMore
    <3>3. QED
      BY <1>3, <3>2 DEF Register
  <2>2. QED
    BY <1>1, <1>3, <2>1 DEF Register, Typed
<1>4. ASSUME NEW h \in Hook \cup {Nil}, SetTraceContextFunc(h) PROVE Typed'
  BY <1>1, <1>4 DEF SetTraceContextFunc, Typed
<1>5. ASSUME NEW g \in Goroutine, NEW c \in Calls, Begin(g, c) PROVE Typed'
  <2>1. NoEvent \in [fields : PartialMap(Keys, Strings), hook : Hook \cup {Nil}]
    BY DEF NoEvent, PartialMap
  <2>2. event' \in [Goroutine ->
                    [fields : PartialMap(Keys, Strings), hook : Hook \cup {Nil}]]
    BY <1>5, <2>1 DEF Begin, Typed
  <2>3. 1 \in 1..(Len(Names[c.method]) + 1)
    BY <1>0 DEF Calls
  <2>4. \A d \in Goroutine : next'[d] \in 1..(Len(Names[call'[d].method]) + 1)
    BY <1>5, <2>3 DEF Begin, Types, Typed, NamesOf
  <2>5. QED
    BY <1>5, <2>2, <2>4 DEF Begin, Typed, NamesOf
<1>6. ASSUME NEW g \in Goroutine, On(g) \/ Match(g) \/ LoadEmitter(g) \/ Deliver(g)
      PROVE  Typed'
  BY <1>6 DEF On, Match, Unchecked, LoadEmitter, Deliver, Typed, NamesOf
<1>7. ASSUME NEW g \in Goroutine, Load(g) PROVE Typed'
  <2>1. current # Nil => DOMAIN current.match \subseteq Field
    BY DEF Settled, Typed, PartialMap
  <2>2. QED
    BY <1>7, <2>1 DEF Load, Typed, NamesOf
<1>8. ASSUME NEW g \in Goroutine, ExtractField(g) PROVE Typed'
  <2> DEFINE name == NamesOf(g)[next[g]]
             v == Value(name, call[g].ctx)
             old == event[g].fields
             new == [k \in DOMAIN old \cup {KeyOf(name)} |->
                        IF k = KeyOf(name) THEN v ELSE old[k]]
  <2>1. /\ pc[g] = "fields" /\ registry' = registry /\ hook' = hook
        /\ pending' = pending /\ call' = call
        /\ next' = [next EXCEPT ![g] = @ + 1]
        /\ event' = IF v = Nil THEN event ELSE [event EXCEPT ![g].fields = new]
    BY <1>8 DEF ExtractField, NamesOf
  <2>2. v # Nil => new \in PartialMap(Keys, Strings)
    <3>1. call[g].ctx \in Context /\ old \in PartialMap(Keys, Strings)
      BY DEF Types, Calls, Typed
    <3>2. v # Nil => v \in Strings /\ KeyOf(name) \in Keys
      BY <3>1, ValueType DEF Typed
    <3>3. QED
      BY <3>1, <3>2, OneMore
  <2> HIDE DEF new, v
  <2>3. event' \in [Goroutine ->
                    [fields : PartialMap(Keys, Strings), hook : Hook \cup {Nil}]]
    BY <2>1, <2>2 DEF Typed
  <2>4. next[g] \in 1..Len(NamesOf(g)) /\ Len(NamesOf(g)) \in Nat
    BY <1>0, <2>1 DEF Progress, NamesOf, Types, Calls
  <2>5. \A d \in Goroutine : next'[d] \in 1..(Len(NamesOf(d)) + 1)
    BY <2>1, <2>4 DEF Typed, Types
  <2>6. QED
    BY <2>1, <2>3, <2>5 DEF Typed, NamesOf
<1>9. ASSUME NEW g \in Goroutine, Trace(g) PROVE Typed'
  BY <1>9 DEF Trace, Typed, NamesOf
<1>10. CASE UNCHANGED vars
  BY <1>1, <1>10 DEF vars, Typed
<1>11. QED
  BY <1>2, <1>3, <1>4, <1>5, <1>6, <1>7, <1>8, <1>9, <1>10 DEF Next, Environment

\* The variables of Gate keep their types, also when fields are registered
\* more than once.
THEOREM TypeCorrect == Spec => []TypeOK
<1> DEFINE Inv == Types /\ Settled /\ Progress /\ Typed
<1>1. Init => Inv
  <2> SUFFICES ASSUME Init PROVE Inv
    OBVIOUS
  <2>1. Types /\ Settled /\ Progress
    BY InitTargetInv, InitEventInv DEF TargetInv, EventInv
  <2>2. \A m \in Method : Len(Names[m]) \in Nat /\ Len(Names[m]) >= 1
    BY NamesAssumption
  <2>3. NoEvent \in [fields : PartialMap(Keys, Strings), hook : Hook \cup {Nil}]
    BY DEF NoEvent, PartialMap
  <2>4. registry \in PartialMap(Field, Entry)
    <3>1. registry \in [{} -> Entry] /\ {} \in SUBSET Field
      BY DEF Init
    <3>2. QED
      BY <3>1 DEF PartialMap
  <2>5. \A g \in Goroutine : next[g] \in 1..(Len(NamesOf(g)) + 1)
    BY <2>2 DEF Init, NamesOf, Calls
  <2>6. QED
    BY <2>1, <2>3, <2>4, <2>5 DEF Init, Typed
<1>2. Inv /\ [Next]_vars => Inv'
  BY TypesStep, SettledStep, ProgressStep, TypedStep
<1>3. Inv /\ DeliveryInv => TypeOK
  BY DEF Types, Typed, DeliveryInv, Delivered, TypeOK, NamesOf, Keys
<1> HIDE DEF Inv
<1>4. QED
  BY <1>1, <1>2, <1>3, DeliveryInvariant, PTL DEF Spec

===============================================================================
