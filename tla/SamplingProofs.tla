---------------------------- MODULE SamplingProofs ----------------------------
(***************************************************************************)
(* What holds of Sampling for any services, strands of work, spans and     *)
(* activations, with proofs checked by TLAPS.                              *)
(*                                                                         *)
(* A span's facts are settled when it starts, all but `ended`.  So it is   *)
(* enough to look at StartSpan, and there at the span's parent: what its   *)
(* lineage implies for the parent, by induction over steps, it implies for *)
(* the span.                                                               *)
(***************************************************************************)
EXTENDS Sampling, TLAPS

\* The part of TypeOK that the proofs rest on.
Started ==
    /\ switch \in [Service -> SUBSET Who]
    /\ ctx \in [Work -> Contexts]
    /\ event \in [Work -> Events \cup {Nil}]
    /\ spans \in [DOMAIN spans -> SpanFacts]
    /\ DOMAIN spans \subseteq Span
    /\ \A w \in Work :
        /\ ctx[w].span \in DOMAIN spans \cup {Nil}
        /\ event[w] # Nil => event[w].ctx.span \in DOMAIN spans \cup {Nil}
    /\ \A n \in DOMAIN spans :
        /\ spans[n].parent \in DOMAIN spans \cup {Nil}
        /\ spans[n].lineage \subseteq DOMAIN spans

\* Every span that is started for a targeted identity is kept.
ForcedKept == \A n \in DOMAIN spans : spans[n].forced => spans[n].sampled

SamplingInv ==
    Started /\ ForcedKept /\ KeepsBase /\ OnlyForced /\ NoHoles /\ TargetedWorkSeen

\* Facts about spans that exist: those that no step changes.
SpansStay ==
    /\ DOMAIN spans \subseteq DOMAIN spans'
    /\ \A n \in DOMAIN spans :
        /\ spans'[n].sampled = spans[n].sampled
        /\ spans'[n].base = spans[n].base
        /\ spans'[n].parent = spans[n].parent
        /\ spans'[n].lineage = spans[n].lineage
        /\ spans'[n].forced = spans[n].forced

-------------------------------------------------------------------------------
\* Before any work begins the invariant holds.
LEMMA InitSamplingInv == Init => SamplingInv
BY DEF Init, SamplingInv, Started, ForcedKept, KeepsBase, OnlyForced, NoHoles,
       TargetedWorkSeen, Background, Contexts, Who

\* What StartSpan knows of the span it starts.
LEMMA NewSpan ==
    ASSUME Started, NEW w \in Work, NEW n \in Span, StartSpan(w, n)
    PROVE  LET p == ctx[w].span IN
           /\ n \notin DOMAIN spans
           /\ DOMAIN spans' = DOMAIN spans \cup {n}
           /\ \A m \in DOMAIN spans : spans'[m] = spans[m]
           /\ spans'[n] \in SpanFacts
           /\ spans'[n].forced => spans'[n].sampled
           /\ p = Nil => /\ spans'[n].lineage = {n}
                         /\ spans'[n].sampled <=> spans'[n].forced \/ spans'[n].base
           /\ p # Nil => /\ spans'[n].lineage = {n} \cup spans[p].lineage
                         /\ spans'[n].sampled <=> spans[p].sampled \/ spans'[n].forced
           /\ spans'[n].parent = p
           /\ ctx' = [ctx EXCEPT ![w].span = n, ![w].remote = FALSE]
           /\ switch' = switch /\ event' = event
<1> DEFINE c == ctx[w]
           p == c.span
           T == c.who \in switch[where[w]]
<1>1. /\ p \in DOMAIN spans \cup {Nil} /\ c.who \in Who /\ c.remote \in BOOLEAN
      /\ n \notin DOMAIN spans /\ where[w] \in Service
      /\ switch[where[w]] \in SUBSET Who
  BY DEF Started, StartSpan, Running, Contexts
<1>2. PICK base \in BOOLEAN :
        spans' = [m \in DOMAIN spans \cup {n} |->
                    IF m = n
                    THEN [parent   |-> p, remote |-> c.remote, owner |-> w,
                          sampled  |-> Sampler(Matches(where[w], c.who), base, p, c.remote),
                          ended    |-> FALSE, base |-> base,
                          forced   |-> T,
                          lineage  |-> {n} \cup (IF p = Nil THEN {} ELSE spans[p].lineage)]
                    ELSE spans[m]]
  BY DEF StartSpan
<1>3. /\ DOMAIN spans' = DOMAIN spans \cup {n}
      /\ \A m \in DOMAIN spans : spans'[m] = spans[m]
  BY <1>1, <1>2
<1>4. spans'[n] = [parent   |-> p, remote |-> c.remote, owner |-> w,
                   sampled  |-> Sampler(T, base, p, c.remote),
                   ended    |-> FALSE, base |-> base,
                   forced   |-> T,
                   lineage  |-> {n} \cup (IF p = Nil THEN {} ELSE spans[p].lineage)]
  BY <1>2 DEF Matches
<1>5. p # Nil => spans[p] \in SpanFacts
  BY <1>1 DEF Started
<1>6. /\ Sampler(T, base, p, c.remote) =
            IF p = Nil THEN T \/ base ELSE spans[p].sampled \/ T
      /\ Sampler(T, base, p, c.remote) \in BOOLEAN
  BY <1>5 DEF Sampler, Root, Rescue, SpanFacts
<1>7. spans'[n].forced = T
  BY <1>4
<1>8. spans'[n] \in SpanFacts
  <2> DEFINE L == {n} \cup (IF p = Nil THEN {} ELSE spans[p].lineage)
  <2>1. L \in SUBSET Span /\ p \in Span \cup {Nil}
    BY <1>1 DEF Started
  <2>2. QED
    BY <1>1, <1>4, <1>6, <2>1 DEF SpanFacts
<1>9. ctx' = [ctx EXCEPT ![w].span = n, ![w].remote = FALSE] /\ switch' = switch /\ event' = event
  BY DEF StartSpan
<1>10. QED
  BY <1>1, <1>3, <1>4, <1>6, <1>7, <1>8, <1>9

\* No step changes what is settled about a span.
LEMMA SpansStayStep == Started /\ [Next]_vars => SpansStay
<1> SUFFICES ASSUME Started, [Next]_vars PROVE SpansStay
  OBVIOUS
<1>1. CASE spans' = spans
  BY <1>1 DEF SpansStay
<1>2. ASSUME NEW w \in Work, NEW n \in Span, StartSpan(w, n) PROVE SpansStay
  BY <1>2, NewSpan DEF SpansStay
<1>3. ASSUME NEW w \in Work, EndSpan(w) PROVE SpansStay
  BY <1>3 DEF EndSpan, Owns, Started, SpanFacts, SpansStay
<1>4. QED
  BY <1>1, <1>2, <1>3 DEF Next, Switch, Start, Arrive, CallService, Spawn,
     Identify, Tagged, Finish, vars

-------------------------------------------------------------------------------
\* Every step keeps contexts, parents and lineages on spans that were started.
LEMMA StartedStep == Started /\ [Next]_vars => Started'
<1> SUFFICES ASSUME Started, [Next]_vars PROVE Started'
  OBVIOUS
<1>1. ASSUME NEW s \in Service, NEW t \in Targetings \cup {{}}, Switch(s, t) PROVE Started'
  BY <1>1, TargetingsAssumption DEF Switch, Started
<1>2. ASSUME NEW w \in Work, NEW s \in Service, Arrive(w, s) PROVE Started'
  BY <1>2 DEF Arrive, Start, Background, Started, Contexts, Who
<1>3. ASSUME NEW v \in Work, NEW w \in Work, NEW s \in Service, CallService(v, w, s)
      PROVE  Started'
  BY <1>3 DEF CallService, Start, Started, Contexts, Who
<1>4. ASSUME NEW v \in Work, NEW w \in Work, Spawn(v, w) PROVE Started'
  BY <1>4 DEF Spawn, Start, Started
<1>5. ASSUME NEW w \in Work, NEW i \in Identity, Identify(w, i) PROVE Started'
  BY <1>5 DEF Identify, Started, Contexts, Events, Who
<1>6. ASSUME NEW w \in Work, NEW n \in Span, StartSpan(w, n) PROVE Started'
  <2> DEFINE p == ctx[w].span
  <2>1. /\ DOMAIN spans' = DOMAIN spans \cup {n}
        /\ \A m \in DOMAIN spans : spans'[m] = spans[m]
        /\ spans'[n] \in SpanFacts /\ spans'[n].parent = p
        /\ p = Nil => spans'[n].lineage = {n}
        /\ p # Nil => spans'[n].lineage = {n} \cup spans[p].lineage
        /\ ctx' = [ctx EXCEPT ![w].span = n, ![w].remote = FALSE]
        /\ switch' = switch /\ event' = event
    BY <1>6, NewSpan
  <2>2. p \in DOMAIN spans \cup {Nil}
    BY DEF Started
  <2>3. \E D, f : spans' = [m \in D |-> f[m]]
    <3>1. spans' = [m \in DOMAIN spans' |-> spans'[m]]
      BY <1>6 DEF StartSpan
    <3>2. QED
      BY <3>1
  <2>4. spans' \in [DOMAIN spans' -> SpanFacts]
    BY <2>1, <2>3 DEF Started
  <2>5. /\ ctx' \in [Work -> Contexts]
        /\ \A v \in Work : ctx'[v].span \in DOMAIN spans' \cup {Nil}
    <3>1. /\ DOMAIN ctx' = Work
          /\ \A v \in Work \ {w} : ctx'[v] = ctx[v]
          /\ ctx'[w] = [[ctx[w] EXCEPT !.span = n] EXCEPT !.remote = FALSE]
      BY <2>1 DEF Started
    <3>2. ctx'[w] \in Contexts /\ ctx'[w].span = n
      <4>1. ctx[w] \in Contexts
        BY DEF Started
      <4>2. QED
        BY <3>1, <4>1 DEF Contexts
    <3>3. ctx' = [v \in Work |-> ctx'[v]]
      BY <2>1 DEF Started
    <3>4. QED
      BY <2>1, <3>1, <3>2, <3>3 DEF Started
  <2>6. \A m \in DOMAIN spans' :
        /\ spans'[m].parent \in DOMAIN spans' \cup {Nil}
        /\ spans'[m].lineage \subseteq DOMAIN spans'
    BY <2>1, <2>2 DEF Started
  <2>7. QED
    BY <2>1, <2>4, <2>5, <2>6 DEF Started
<1>7. ASSUME NEW w \in Work, EndSpan(w) PROVE Started'
  <2> DEFINE n == ctx[w].span
  <2>1. n \in DOMAIN spans /\ spans[n] \in SpanFacts
    BY <1>7 DEF EndSpan, Owns, Started
  <2>2. /\ spans' \in [DOMAIN spans -> SpanFacts]
        /\ \A m \in DOMAIN spans : /\ spans'[m].parent = spans[m].parent
                                   /\ spans'[m].lineage = spans[m].lineage
    BY <1>7, <2>1 DEF EndSpan, Started, SpanFacts
  <2>3. Outer(ctx[w]) \in Contexts /\ Outer(ctx[w]).span = spans[n].parent
    <3>1. ctx[w] \in Contexts /\ spans[n].parent \in Span \cup {Nil} /\ spans[n].remote \in BOOLEAN
      BY <2>1 DEF Started, SpanFacts
    <3>2. QED
      BY <3>1 DEF Outer, Contexts
  <2>4. /\ ctx' = [ctx EXCEPT ![w] = Outer(ctx[w])]
        /\ switch' = switch /\ event' = event
    BY <1>7 DEF EndSpan
  <2>5. QED
    BY <2>1, <2>2, <2>3, <2>4 DEF Started
<1>8. ASSUME NEW w \in Work, Tagged(w) PROVE Started'
  <2>1. Recording(ctx[w]) \in BOOLEAN
    BY DEF Recording
  <2>2. ctx[w].span # Nil => spans[ctx[w].span].ended \in BOOLEAN
    BY DEF Started, SpanFacts
  <2>3. QED
    BY <1>8, <2>1, <2>2 DEF Tagged, Started, Events
<1>9. ASSUME NEW w \in Work, Finish(w) PROVE Started'
  BY <1>9 DEF Finish, Started
<1>10. CASE UNCHANGED vars
  BY <1>10 DEF vars, Started
<1>11. QED
  BY <1>1, <1>2, <1>3, <1>4, <1>5, <1>6, <1>7, <1>8, <1>9, <1>10 DEF Next

\* Every step keeps the four facts about spans.  A step that starts none
\* changes nothing that they speak of.
LEMMA TreeStep ==
    ASSUME Started, ForcedKept, KeepsBase, OnlyForced, NoHoles, [Next]_vars
    PROVE  ForcedKept' /\ KeepsBase' /\ OnlyForced' /\ NoHoles'
<1>0. SpansStay
  BY SpansStayStep
<1>1. CASE DOMAIN spans' = DOMAIN spans
  BY <1>0, <1>1 DEF SpansStay, Started, ForcedKept, KeepsBase, OnlyForced, NoHoles, BaseKeeps
<1>2. ASSUME NEW w \in Work, NEW n \in Span, StartSpan(w, n)
      PROVE  ForcedKept' /\ KeepsBase' /\ OnlyForced' /\ NoHoles'
  <2> DEFINE p == ctx[w].span
  <2>1. /\ n \notin DOMAIN spans
        /\ DOMAIN spans' = DOMAIN spans \cup {n}
        /\ \A m \in DOMAIN spans : spans'[m] = spans[m]
        /\ spans'[n].forced => spans'[n].sampled
        /\ p = Nil => /\ spans'[n].lineage = {n}
                      /\ spans'[n].sampled <=> spans'[n].forced \/ spans'[n].base
        /\ p # Nil => /\ spans'[n].lineage = {n} \cup spans[p].lineage
                      /\ spans'[n].sampled <=> spans[p].sampled \/ spans'[n].forced
        /\ spans'[n].parent = p
    BY <1>2, NewSpan
  <2>2. p # Nil => p \in DOMAIN spans
    BY DEF Started
  <2>3. \A m \in DOMAIN spans : /\ spans'[m].forced <=> spans[m].forced
                                /\ BaseKeeps(m)' <=> BaseKeeps(m)
                                /\ spans[m].lineage \subseteq DOMAIN spans
    BY <2>1 DEF BaseKeeps, Started
  <2>4. ForcedKept'
    BY <2>1, <2>3 DEF ForcedKept
  <2>5. BaseKeeps(n)' <=> p = Nil /\ spans'[n].base
    BY <2>1 DEF BaseKeeps
  <2>6. KeepsBase'
    BY <2>1, <2>2, <2>3, <2>5 DEF KeepsBase
  <2>7. OnlyForced'
    BY <2>1, <2>2, <2>3, <2>5 DEF OnlyForced
  <2>8. NoHoles'
    BY <2>1, <2>2, <2>3 DEF NoHoles
  <2>9. QED
    BY <2>4, <2>6, <2>7, <2>8
<1>3. ASSUME NEW w \in Work, EndSpan(w) PROVE DOMAIN spans' = DOMAIN spans
  BY <1>3 DEF EndSpan, Started
<1>4. QED
  BY <1>1, <1>2, <1>3 DEF Next, Switch, Start, Arrive, CallService, Spawn,
     Identify, Tagged, Finish, vars

\* Every step keeps TargetedWorkSeen: an open span of this process that does
\* not record was dropped, and what was dropped was not forced.
LEMMA SeenStep ==
    ASSUME Started, ForcedKept, TargetedWorkSeen, [Next]_vars
    PROVE  TargetedWorkSeen'
<1>0. SpansStay
  BY SpansStayStep
<1>1. CASE event' = event
  <2>1. \A w \in Work : event[w] # Nil => event[w].ctx.span \in DOMAIN spans \cup {Nil}
    BY DEF Started
  <2>2. \A n \in DOMAIN spans : spans'[n].forced <=> spans[n].forced
    BY <1>0 DEF SpansStay
  <2>3. QED
    BY <1>1, <2>1, <2>2 DEF TargetedWorkSeen
<1>2. ASSUME NEW w \in Work, Tagged(w) PROVE TargetedWorkSeen'
  <2> DEFINE c == ctx[w]
  <2>1. /\ spans' = spans
        /\ event'[w].ctx = c /\ event'[w].onSpan = Recording(c)
        /\ event'[w].late = (c.span # Nil /\ spans[c.span].ended)
        /\ \A v \in Work \ {w} : event'[v] = event[v]
    BY <1>2 DEF Tagged, Started
  <2>2. \A n : spans'[n].forced <=> spans[n].forced
    BY <2>1
  <2>3. \/ Recording(c) \/ c.span = Nil \/ c.remote
        \/ spans[c.span].ended \/ ~spans[c.span].forced
    BY DEF Recording, ForcedKept, Started
  <2>4. QED
    BY <2>1, <2>2, <2>3 DEF TargetedWorkSeen
<1>3. QED
  BY <1>1, <1>2 DEF Next, Switch, Start, Arrive, CallService, Spawn,
     Identify, StartSpan, EndSpan, Finish, vars

-------------------------------------------------------------------------------
\* The invariant holds in every state.
THEOREM SamplingInvariant == Spec => []SamplingInv
<1>1. SamplingInv /\ [Next]_vars => SamplingInv'
  BY StartedStep, TreeStep, SeenStep DEF SamplingInv
<1>2. QED
  BY <1>1, InitSamplingInv, PTL DEF Spec

\* A trace that the base of its first service keeps is whole, in any services,
\* whatever the bases of the others would say.
THEOREM KeepsBaseHolds == Spec => []KeepsBase
<1>1. SamplingInv => KeepsBase
  BY DEF SamplingInv
<1>2. QED
  BY <1>1, SamplingInvariant, PTL

\* Of other traces nothing is kept but what was targeted and what descends from
\* it.
THEOREM OnlyForcedHolds == Spec => []OnlyForced
<1>1. SamplingInv => OnlyForced
  BY DEF SamplingInv
<1>2. QED
  BY <1>1, SamplingInvariant, PTL

\* Below a span that is kept no span is dropped, in any service.
THEOREM NoHolesHolds == Spec => []NoHoles
<1>1. SamplingInv => NoHoles
  BY DEF SamplingInv
<1>2. QED
  BY <1>1, SamplingInvariant, PTL

\* Targeted work done in an open span that was started for it is on that span.
THEOREM TargetedWorkSeenHolds == Spec => []TargetedWorkSeen
<1>1. SamplingInv => TargetedWorkSeen
  BY DEF SamplingInv
<1>2. QED
  BY <1>1, SamplingInvariant, PTL

-------------------------------------------------------------------------------
(* The types, with what TypeOK says of ended spans.                        *)

\* The spans that the context of a strand is in.
Around(w) == IF ctx[w].span = Nil THEN {} ELSE spans[ctx[w].span].lineage

\* A strand owns nothing before it begins, and of the spans it is in, its own
\* are open.  A span is new to the lineage of its parent.
Nested ==
    /\ where \in [Work -> Service \cup {Nil, Over}]
    /\ \A n \in DOMAIN spans :
        LET w == spans[n].owner
            p == spans[n].parent
        IN  /\ where[w] # Nil
            /\ n \in Around(w) => ~spans[n].ended
            /\ n \in spans[n].lineage
            /\ p # Nil => /\ spans[n].lineage = {n} \cup spans[p].lineage
                          /\ n \notin spans[p].lineage

\* A strand that begins owns nothing yet.
LEMMA NestedStart ==
    ASSUME Started, Nested, NEW w \in Work, NEW s \in Service, NEW c, Start(w, s, c)
    PROVE  Nested'
<1>1. where' \in [Work -> Service \cup {Nil, Over}]
  BY DEF Start, Nested
<1>2. spans' = spans /\ \A v \in Work \ {w} : where'[v] = where[v] /\ ctx'[v] = ctx[v]
  BY DEF Start, Started
<1>3. \A n \in DOMAIN spans : spans[n].owner \in Work \ {w}
  BY DEF Start, Started, Nested, SpanFacts
<1>4. QED
  BY <1>1, <1>2, <1>3 DEF Nested, Around

\* A span is its strand's, and open when it starts.
LEMMA NewSpanOwned ==
    ASSUME NEW w \in Work, NEW n \in Span, StartSpan(w, n)
    PROVE  spans'[n].owner = w /\ ~spans'[n].ended
<1>1. PICK new : /\ spans' = [m \in DOMAIN spans \cup {n} |->
                                IF m = n THEN new ELSE spans[m]]
                 /\ new.owner = w /\ ~new.ended
  BY DEF StartSpan
<1>2. QED
  BY <1>1

\* A span that starts is new to every lineage, and is around its owner only.
LEMMA NestedStartSpan ==
    ASSUME Started, Nested, NEW w \in Work, NEW n \in Span, StartSpan(w, n)
    PROVE  Nested'
<1> DEFINE p == ctx[w].span
<1>1. /\ n \notin DOMAIN spans /\ DOMAIN spans' = DOMAIN spans \cup {n}
      /\ \A m \in DOMAIN spans : spans'[m] = spans[m]
      /\ spans'[n].owner = w /\ ~spans'[n].ended /\ spans'[n].parent = p
      /\ p = Nil => spans'[n].lineage = {n}
      /\ p # Nil => spans'[n].lineage = {n} \cup spans[p].lineage
      /\ ctx' = [ctx EXCEPT ![w].span = n, ![w].remote = FALSE]
  BY NewSpan, NewSpanOwned
<1>2. where' = where /\ where[w] # Nil
  BY NilAssumption DEF StartSpan, Running
<1>3. /\ \A v \in Work : ctx[v].span \in DOMAIN spans \cup {Nil}
      /\ \A m \in DOMAIN spans : /\ spans[m].parent \in DOMAIN spans \cup {Nil}
                                 /\ spans[m].lineage \subseteq DOMAIN spans
                                 /\ spans[m].owner \in Work
      /\ Nil \notin Span
  BY NilAssumption DEF Started, SpanFacts
<1>4. ctx'[w].span = n /\ \A v \in Work \ {w} : ctx'[v].span = ctx[v].span
  BY <1>1 DEF Started, Contexts
<1>5. Around(w)' = {n} \cup Around(w)
  BY <1>1, <1>3, <1>4 DEF Around
<1>6. \A v \in Work \ {w} : Around(v)' = Around(v)
  <2> SUFFICES ASSUME NEW v \in Work \ {w} PROVE Around(v)' = Around(v)
    OBVIOUS
  <2>1. ctx'[v].span = ctx[v].span /\ ctx[v].span \in DOMAIN spans \cup {Nil}
    BY <1>3, <1>4
  <2>2. ctx[v].span # Nil => spans'[ctx[v].span] = spans[ctx[v].span]
    BY <1>1, <2>1
  <2>3. QED
    BY <2>1, <2>2 DEF Around
<1>7. ASSUME NEW m \in DOMAIN spans
      PROVE  m \in Around(spans[m].owner)' => m \in Around(spans[m].owner)
  <2>1. spans'[m].owner = spans[m].owner /\ spans[m].owner \in Work /\ m # n
    BY <1>1, <1>3
  <2>2. QED
    BY <1>5, <1>6, <2>1
<1>8. SUFFICES ASSUME NEW m \in DOMAIN spans'
               PROVE  /\ where[spans'[m].owner] # Nil
                      /\ m \in Around(spans[m].owner)' => ~spans'[m].ended
                      /\ m \in spans'[m].lineage
                      /\ spans'[m].parent # Nil =>
                            /\ spans'[m].lineage = {m} \cup spans'[spans'[m].parent].lineage
                            /\ m \notin spans'[spans'[m].parent].lineage
  <2>1. where' \in [Work -> Service \cup {Nil, Over}]
    BY <1>2 DEF Nested
  <2>2. QED
    BY <1>2, <2>1 DEF Nested
<1>9. CASE m = n
  BY <1>1, <1>2, <1>3, <1>9
<1>10. CASE m # n
  <2>1. m \in DOMAIN spans /\ spans'[m] = spans[m]
    BY <1>1, <1>10
  <2>2. spans[m].parent # Nil =>
            spans[m].parent \in DOMAIN spans /\ spans'[spans[m].parent] = spans[spans[m].parent]
    BY <1>1, <1>3, <2>1
  <2>3. QED
    BY <1>7, <2>1, <2>2 DEF Nested
<1>11. QED
  BY <1>9, <1>10

\* A strand that ends a span leaves it, and is in no other than it was in.
LEMMA NestedEndSpan ==
    ASSUME Started, Nested, NEW w \in Work, EndSpan(w)
    PROVE  Nested'
<1> DEFINE n == ctx[w].span
           p == spans[n].parent
<1>1. /\ n \in DOMAIN spans /\ spans[n].owner = w
      /\ spans' = [spans EXCEPT ![n].ended = TRUE]
      /\ ctx' = [ctx EXCEPT ![w] = Outer(@)]
      /\ where' = where
  BY DEF EndSpan, Owns, Started
<1>2. /\ DOMAIN spans' = DOMAIN spans
      /\ \A m \in DOMAIN spans :
            /\ spans'[m].owner = spans[m].owner /\ spans'[m].parent = spans[m].parent
            /\ spans'[m].lineage = spans[m].lineage
            /\ m # n => spans'[m].ended = spans[m].ended
  BY <1>1 DEF Started, SpanFacts
<1>3. ctx'[w].span = p /\ \A v \in Work \ {w} : ctx'[v].span = ctx[v].span
  BY <1>1 DEF Outer, Started, Contexts
<1>4. /\ \A v \in Work : ctx[v].span \in DOMAIN spans \cup {Nil}
      /\ \A m \in DOMAIN spans : /\ spans[m].parent \in DOMAIN spans \cup {Nil}
                                 /\ spans[m].owner \in Work
      /\ n # Nil
  BY DEF Started, SpanFacts, EndSpan, Owns
<1>5. \A v \in Work \ {w} : Around(v)' = Around(v)
  BY <1>2, <1>3, <1>4 DEF Around
<1>6. Around(w)' \subseteq Around(w) \ {n}
  BY <1>1, <1>2, <1>3, <1>4 DEF Around, Nested
<1>7. SUFFICES ASSUME NEW m \in DOMAIN spans
               PROVE  m \in Around(spans[m].owner)' => ~spans'[m].ended
  BY <1>1, <1>2, <1>4 DEF Nested, Around
<1>8. QED
  BY <1>1, <1>2, <1>4, <1>5, <1>6 DEF Nested

\* Every step keeps the spans of a strand nested.
LEMMA NestedStep == Started /\ Nested /\ [Next]_vars => Nested'
<1> SUFFICES ASSUME Started, Nested, [Next]_vars PROVE Nested'
  OBVIOUS
<1>1. ASSUME spans' = spans, \A w \in Work : ctx'[w].span = ctx[w].span,
             where' \in [Work -> Service \cup {Nil, Over}],
             \A w \in Work : where[w] # Nil => where'[w] # Nil
      PROVE  Nested'
  <2>1. \A n \in DOMAIN spans : spans[n].owner \in Work
    BY DEF Started, SpanFacts
  <2>2. QED
    BY <1>1, <2>1 DEF Nested, Around
<1>2. CASE \E s \in Service, t \in Targetings \cup {{}} : Switch(s, t)
  BY <1>1, <1>2 DEF Switch, Nested
<1>3. ASSUME NEW w \in Work, NEW i \in Identity, Identify(w, i) PROVE Nested'
  BY <1>1, <1>3 DEF Identify, Nested, Started, Contexts
<1>4. ASSUME NEW w \in Work, Tagged(w) PROVE Nested'
  BY <1>1, <1>4 DEF Tagged, Nested
<1>5. ASSUME NEW w \in Work, Finish(w) PROVE Nested'
  BY <1>1, <1>5, NilAssumption DEF Finish, Nested
<1>6. ASSUME NEW w \in Work, NEW s \in Service,
             Arrive(w, s) \/ \E v \in Work : CallService(v, w, s)
      PROVE  Nested'
  BY <1>6, NestedStart DEF Arrive, CallService
<1>7. ASSUME NEW w \in Work, NEW v \in Work, Spawn(v, w) PROVE Nested'
  BY <1>7, NestedStart DEF Spawn, Running
<1>8. CASE UNCHANGED vars
  BY <1>1, <1>8 DEF vars, Nested
<1>9. QED
  BY <1>2, <1>3, <1>4, <1>5, <1>6, <1>7, <1>8, NestedStartSpan, NestedEndSpan DEF Next

\* The variables of Sampling keep their types; contexts and parents name spans
\* that were started, and a strand has left every span that it has ended.
THEOREM TypeCorrect == Spec => []TypeOK
<1>1. Init => Nested
  BY DEF Init, Nested
<1>2. Started /\ Nested => TypeOK
  <2> SUFFICES ASSUME Started, Nested PROVE TypeOK
    OBVIOUS
  <2>1. \A w \in Work : Owns(w) => ~spans[ctx[w].span].ended
    BY DEF Started, Nested, Owns, Around
  <2>2. QED
    BY <2>1 DEF Started, Nested, TypeOK
<1>3. SamplingInv => Started
  BY DEF SamplingInv
<1>4. QED
  BY <1>1, <1>2, <1>3, SamplingInvariant, NestedStep, PTL DEF Spec

===============================================================================
