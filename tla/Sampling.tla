------------------------------- MODULE Sampling -------------------------------
(***************************************************************************)
(* limelight in an OpenTelemetry pipeline (limelightotel): which spans its *)
(* sampler keeps, and which events its emitter can write to a span.        *)
(*                                                                         *)
(* The sampler decides when a span starts, from the context and the switch *)
(* at that moment; the emitter writes when a tagged method is called, from *)
(* the context and the switch at that moment.  In between, middleware puts *)
(* the identity on the context, spans start and end, goroutines are        *)
(* spawned, other services are called, and the switch of each service      *)
(* moves.  Whether an event has a span to go to depends on the whole of    *)
(* this, as does whether a trace is whole.                                 *)
(*                                                                         *)
(* The switch appears as the set of identities it targets: {} when it is   *)
(* off.  One call of Matches is atomic here; Gate takes it apart.          *)
(***************************************************************************)
EXTENDS Integers, FiniteSets

CONSTANTS Service,     \* processes, each with a switch of its own
          Work,        \* strands of work: requests, and goroutines they spawn
          Span,        \* spans that may be started
          Identity,    \* whom a request may be for
          Anon,        \* a context without an identity
          Targetings,  \* sets of identities that an activation may target
          Over,        \* where a strand is when it has ended
          Nil

Who == Identity \cup {Anon}

ASSUME NilAssumption ==
    Nil \notin Span /\ {Nil, Over} \cap Service = {} /\ Nil # Over /\ Anon \notin Identity

ASSUME TargetingsAssumption == Targetings \subseteq SUBSET Who

VARIABLES switch,   \* switch[s]: whom the activation in force in s targets
          where,    \* where[w]: the service w runs in; Nil before, Over after
          ctx,      \* ctx[w]: [who, span, remote], the context w carries
          spans,    \* span -> what is known of it, for the spans started so far
          event     \* event[w]: the last event of a tagged call of w, or Nil

vars == <<switch, where, ctx, spans, event>>

(* A context carries at most one span context: of a span of this process,  *)
(* or (remote) of the caller's, which arrived in a header.                 *)
(*                                                                         *)
(* Of a span:                                                              *)
(*   parent, remote  the span context it was started under                 *)
(*   owner           the strand that started it and will end it            *)
(*   sampled, ended  whether it is kept, and whether it is over            *)
(* and, as history that no action reads,                                   *)
(*   base            what the base sampler of its service says, or would   *)
(*                   say, of this span                                     *)
(*   forced          whether the switch targeted the identity on the       *)
(*                   context when it was started                           *)
(*   lineage         the span, its parent, its parent's parent, ...        *)
Background == [who |-> Anon, span |-> Nil, remote |-> FALSE]

Running(w) == where[w] \in Service

-------------------------------------------------------------------------------
(* The sampler.                                                            *)

\* limelight.Matches(ctx), in service s.
Matches_onBug(s, who) == switch[s] # {}
Matches(s, who) == who \in switch[s]

\* targetedSampler: a span without a parent.  Only here is the base asked.
Root_onlyTargetedBug(targeted, base) == targeted
Root(targeted, base) == targeted \/ base

\* rescueSampler: a span whose parent was not sampled.  The base is not asked.
Rescue(targeted) == targeted

\* Sampler: ParentBased with a root sampler and two rescues.
Sampler_flatBug(targeted, base, parent, remote) == Root(targeted, base)
Sampler_noRemoteRescueBug(targeted, base, parent, remote) ==
    IF parent = Nil THEN Root(targeted, base)
    ELSE spans[parent].sampled \/ (~remote /\ Rescue(targeted))
Sampler(targeted, base, parent, remote) ==
    IF parent = Nil THEN Root(targeted, base)
    ELSE spans[parent].sampled \/ Rescue(targeted)

(* The emitter.                                                            *)

\* trace.SpanFromContext(c).IsRecording(): a span of another process is not,
\* nor is one that was dropped or has ended.
Recording(c) ==
    /\ c.span # Nil
    /\ ~c.remote
    /\ spans[c.span].sampled
    /\ ~spans[c.span].ended

\* The context a strand goes back to when the span it started is over.
Outer_keptBug(c) == c
Outer(c) == [c EXCEPT !.span = spans[c.span].parent, !.remote = spans[c.span].remote]

-------------------------------------------------------------------------------
Init ==
    /\ switch = [s \in Service |-> {}]
    /\ where = [w \in Work |-> Nil]
    /\ ctx = [w \in Work |-> Background]
    /\ spans = [n \in {} |-> n]
    /\ event = [w \in Work |-> Nil]

\* Enable, Disable, or the TTL running out in service s.
Switch(s, targeting) ==
    /\ switch' = [switch EXCEPT ![s] = targeting]
    /\ UNCHANGED <<where, ctx, spans, event>>

\* Work begins in s under context c.
Start(w, s, c) ==
    /\ where[w] = Nil
    /\ where' = [where EXCEPT ![w] = s]
    /\ ctx' = [ctx EXCEPT ![w] = c]
    /\ UNCHANGED <<switch, spans, event>>

\* A request from a client that sends no trace context.
Arrive(w, s) == Start(w, s, Background)

\* v calls service s: the span context crosses in a header, and the identity
\* is for the callee's middleware to find.
CallService(v, w, s) ==
    /\ Running(v)
    /\ Start(w, s, [who |-> Anon, span |-> ctx[v].span, remote |-> ctx[v].span # Nil])

\* v starts a goroutine with its own context.  It may outlive v's spans.
Spawn(v, w) == Running(v) /\ Start(w, where[v], ctx[v])

\* The identity middleware.
Identify(w, i) ==
    /\ Running(w)
    /\ ctx[w].who = Anon
    /\ ctx' = [ctx EXCEPT ![w].who = i]
    /\ UNCHANGED <<switch, where, spans, event>>

\* tracer.Start, in the tracing middleware or in a handler: the sampler is
\* asked with the context as it is.  The base sampler is the service's own, and
\* may say anything of any span.
StartSpan(w, n) ==
    LET c        == ctx[w]
        targeted == Matches(where[w], c.who)
    IN  /\ Running(w)
        /\ n \notin DOMAIN spans
        /\ \E base \in BOOLEAN :
            LET new == [parent   |-> c.span,
                        remote   |-> c.remote,
                        owner    |-> w,
                        sampled  |-> Sampler(targeted, base, c.span, c.remote),
                        ended    |-> FALSE,
                        base     |-> base,
                        forced   |-> c.who \in switch[where[w]],
                        lineage  |-> {n} \cup
                                     (IF c.span = Nil THEN {} ELSE spans[c.span].lineage)]
            IN  spans' = [m \in DOMAIN spans \cup {n} |-> IF m = n THEN new ELSE spans[m]]
        /\ ctx' = [ctx EXCEPT ![w].span = n, ![w].remote = FALSE]
        /\ UNCHANGED <<switch, where, event>>

\* The innermost span that w started itself.
Owns(w) ==
    /\ ctx[w].span # Nil
    /\ ~ctx[w].remote
    /\ spans[ctx[w].span].owner = w

\* defer span.End(): the middleware or handler that started the span returns.
EndSpan(w) ==
    /\ Running(w)
    /\ Owns(w)
    /\ spans' = [spans EXCEPT ![ctx[w].span].ended = TRUE]
    /\ ctx' = [ctx EXCEPT ![w] = Outer(@)]
    /\ UNCHANGED <<switch, where, event>>

\* A tagged method, while the switch targets its context: the event goes to
\* the log in any case, and to the span if there is one that records.
Tagged(w) ==
    /\ Running(w)
    /\ Matches(where[w], ctx[w].who)
    /\ event' = [event EXCEPT ![w] =
        [ctx    |-> ctx[w],
         late   |-> ctx[w].span # Nil /\ spans[ctx[w].span].ended,
         onSpan |-> Recording(ctx[w])]]
    /\ UNCHANGED <<switch, where, ctx, spans>>

\* w is over; its spans have ended.
Finish(w) ==
    /\ Running(w)
    /\ ~Owns(w)
    /\ where' = [where EXCEPT ![w] = Over]
    /\ UNCHANGED <<switch, ctx, spans, event>>

Next ==
    \/ \E s \in Service, targeting \in Targetings \cup {{}} : Switch(s, targeting)
    \/ \E w \in Work :
        \/ \E s \in Service : Arrive(w, s)
        \/ \E v \in Work, s \in Service : CallService(v, w, s)
        \/ \E v \in Work : Spawn(v, w)
        \/ \E i \in Identity : Identify(w, i)
        \/ \E n \in Span : StartSpan(w, n)
        \/ EndSpan(w)
        \/ Tagged(w)
        \/ Finish(w)

Spec == Init /\ [][Next]_vars

-------------------------------------------------------------------------------
Contexts == [who : Who, span : Span \cup {Nil}, remote : BOOLEAN]

Events == [ctx : Contexts, late : BOOLEAN, onSpan : BOOLEAN]

SpanFacts ==
    [parent : Span \cup {Nil}, remote : BOOLEAN, owner : Work, sampled : BOOLEAN,
     ended : BOOLEAN, base : BOOLEAN, forced : BOOLEAN, lineage : SUBSET Span]

\* The types of the variables.  Contexts and parents name spans that were
\* started, and a strand has left every span that it has ended.
TypeOK ==
    /\ switch \in [Service -> SUBSET Who]
    /\ where \in [Work -> Service \cup {Nil, Over}]
    /\ ctx \in [Work -> Contexts]
    /\ event \in [Work -> Events \cup {Nil}]
    /\ DOMAIN spans \subseteq Span
    /\ \A n \in DOMAIN spans :
        spans[n] \in SpanFacts /\ spans[n].parent \in DOMAIN spans \cup {Nil}
    /\ \A w \in Work :
        /\ ctx[w].span \in DOMAIN spans \cup {Nil}
        /\ Owns(w) => ~spans[ctx[w].span].ended

\* n is the root of a trace, and the base sampler of its service keeps it.
BaseKeeps(n) == spans[n].parent = Nil /\ spans[n].base

\* Sampler: a span is kept "even when it otherwise would not be".  A trace that
\* the base sampler of its first service keeps is kept whole, in every service
\* that it runs through, whatever the base samplers of the others would say:
\* limelight costs no span that ParentBased(base) in each service would keep.
\* (It does cost spans that a base which looks at no parent would keep below a
\* root that was dropped: there rescueSampler does not ask.)
KeepsBase ==
    \A n \in DOMAIN spans : \A m \in spans[n].lineage :
        BaseKeeps(m) => spans[n].sampled

\* A span of any other trace is kept only because limelight was targeting that
\* span, or one it descends from, when that one started: turning the switch
\* on for one customer samples nobody else's traces.
OnlyForced ==
    \A n \in DOMAIN spans :
        spans[n].sampled => \E m \in spans[n].lineage : BaseKeeps(m) \/ spans[m].forced

\* "a decision made here propagates to downstream services ... rather than
\* being remade - and disagreed with - in each one": below a span that is
\* kept no span is dropped, although the switch may go off meanwhile, and the
\* other services may have none on.
NoHoles ==
    \A n \in DOMAIN spans : \A m \in spans[n].lineage :
        spans[m].sampled => spans[n].sampled

\* "Every span created after the identity is known ... is force-sampled": an
\* event that could not be written to a span had none of this process that
\* was open, or one that started when the identity was not known or the
\* switch did not target it.
TargetedWorkSeen ==
    \A w \in Work : event[w] # Nil =>
        \/ event[w].onSpan
        \/ event[w].ctx.span = Nil \/ event[w].ctx.remote \/ event[w].late
        \/ ~spans[event[w].ctx.span].forced

===============================================================================
