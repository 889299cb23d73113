--------------------------------- MODULE Gate ---------------------------------
(***************************************************************************)
(* The path of one tagged call: the gate that the build injects, and Emit  *)
(* (gate.go, registry.go, emitter.go, trace.go).                           *)
(*                                                                         *)
(* A call reads shared state again and again without a lock around the     *)
(* whole: `current` in the injected `if On()`, `current` once more in      *)
(* Emit, the registry for every field it matches and every field it        *)
(* emits, the installed emitter, the trace hook.  Between any two of these *)
(* the switch may be turned on for somebody else or off, fields may be     *)
(* registered, and another emitter installed.  An action is one such read  *)
(* with the code up to the next one.                                       *)
(*                                                                         *)
(* The switch appears as TtlSwitch shows it to a reader: at any time any   *)
(* activation that Enable accepts may be in force, or none.                *)
(***************************************************************************)
EXTENDS Targeting, Sequences, SequencesExt

CONSTANTS Goroutine,  \* goroutines that run tagged methods
          Method,     \* tagged methods
          Names,      \* Names[m]: the field names of m's directive
          Context,    \* the contexts that calls carry
          Field,      \* field names
          Entry,      \* registry entries: records [name, key, extract]
          Carries,    \* Carries[x][ctx]: what extractor x returns, Nil for none
          Text,       \* Text[v]: the string of value v
          Config,     \* Configs that callers pass to Enable
          Emitters,   \* lists passed to MultiEmitter, with nil members
          Hook,       \* trace-context functions
          Rebind,     \* may a field that is registered be registered again?
          Nil

ASSUME RebindAssumption == Rebind \in BOOLEAN

ASSUME NilAssumption ==
    /\ Nil \notin Config /\ Nil \notin Emitters /\ Nil \notin Hook
    /\ Nil \notin DOMAIN Text

\* Wanted values are strings: no Config asks for a field to be absent.
ASSUME ConfigAssumption ==
    \A cfg \in Config : \A f \in DOMAIN cfg.match : cfg.match[f] # Nil

\* What directive.Parse lets through: at least one field, none listed twice.
ASSUME NamesAssumption ==
    \A m \in Method :
        Names[m] \in Seq(Field) /\ Names[m] # <<>> /\ IsInjective(Names[m])

\* Entries are for fields; extractors return nothing, or what has a string.
ASSUME EntryAssumption ==
    \A e \in Entry :
        /\ e.name \in Field
        /\ \A ctx \in Context : Carries[e.extract][ctx] \in DOMAIN Text \cup {Nil}

\* The members of an emitter are numbered from 1.
ASSUME EmittersAssumption ==
    \A list \in Emitters : Len(list) \in Nat /\ DOMAIN list = 1..Len(list)

VARIABLES current,   \* the activation in force, or Nil
          registry,  \* field name -> entry
          emitter,   \* the list of the installed emitter, or Nil
          hook,      \* the installed trace-context function, or Nil
          pc,        \* pc[g]: where g's call is
          call,      \* call[g]: [method, ctx], the call g makes
          snap,      \* snap[g]: the activation Emit loaded
          pending,   \* pending[g]: entries of snap[g].match still to check
          next,      \* next[g]: index of the field name to extract
          event,     \* event[g]: [fields, hook], the event under construction
          handle,    \* handle[g]: the emitter Emit loaded
          last,      \* last[g]: position in handle[g] of the last backend reached
          reached    \* reached[g]: the backends the event has been handed to

\* History of the call g is in: the activations and the emitters that were
\* in place at some time since it began.  No action reads them.
VARIABLES seenOn, seenEmitter

shared  == <<current, registry, emitter, hook>>
local   == <<pc, call, snap, pending, next, event, handle, last, reached>>
history == <<seenOn, seenEmitter>>
vars    == <<shared, local, history>>

(* Where a call is:                                                        *)
(*   on        in the injected gate, before the load in On                 *)
(*   load      in Emit, before its load of current                         *)
(*   match     in the loop of matches                                      *)
(*   emitter   matched, before the load of the emitter                     *)
(*   fields    in the loop that extracts the fields                        *)
(*   trace     before the load of the trace hook                           *)
(*   deliver   in the emitter                                              *)
(*   quiet     returned, without an event                                  *)
(*   sent      returned, with its event handed to the emitter              *)
Returned == {"quiet", "sent"}
PC == {"on", "load", "match", "emitter", "fields", "trace", "deliver"} \cup Returned

NoEvent == [fields |-> [k \in {} |-> k], hook |-> Nil]

\* The calls that tagged methods receive.
Calls == [method : Method, ctx : Context]

-------------------------------------------------------------------------------
(* The registry.                                                           *)

\* f.extract(ctx): the string that entry e finds in ctx, or Nil.  One
\* function serves matching and emission, and it makes strings of both.
Extract_rawBug(e, ctx) == Carries[e.extract][ctx]
Extract(e, ctx) ==
    LET v == Carries[e.extract][ctx] IN IF v = Nil THEN Nil ELSE Text[v]

\* lookup(name), then the extractor it found: Nil if either finds nothing.
Value(name, ctx) ==
    IF name \in DOMAIN registry THEN Extract(registry[name], ctx) ELSE Nil

\* The key under which a registered field is emitted.
KeyOf_nameBug(name) == name
KeyOf(name) == registry[name].key

(* Steps of Emit that a bug would change.                                  *)

\* The entries of Match left to check once one of them holds.
Unchecked_anyBug(left, name) == {}
Unchecked(left, name) == left \ {name}

\* Where the extraction loop goes after a name whose value was v.
AfterField_abortBug(i, n, v) ==
    IF v = Nil THEN "quiet" ELSE IF i < n THEN "fields" ELSE "trace"
AfterField(i, n, v) == IF i < n THEN "fields" ELSE "trace"

\* MultiEmitter: where the members that are not nil are.
Live_stopBug(list) == {i \in DOMAIN list : \A j \in 1..i : list[j] # Nil}
Live(list) == {i \in DOMAIN list : list[i] # Nil}

-------------------------------------------------------------------------------
Init ==
    /\ current = Nil
    /\ registry = [f \in {} |-> f]
    /\ emitter = Nil
    /\ hook = Nil
    /\ pc = [g \in Goroutine |-> "quiet"]
    /\ call \in [Goroutine -> Calls]
    /\ snap = [g \in Goroutine |-> Nil]
    /\ pending = [g \in Goroutine |-> {}]
    /\ next = [g \in Goroutine |-> 1]
    /\ event = [g \in Goroutine |-> NoEvent]
    /\ handle = [g \in Goroutine |-> Nil]
    /\ last = [g \in Goroutine |-> 0]
    /\ reached = [g \in Goroutine |-> <<>>]
    /\ seenOn = [g \in Goroutine |-> {}]
    /\ seenEmitter = [g \in Goroutine |-> {}]

InCall(g) == pc[g] \notin Returned

\* The switch moves: `current` becomes a, and every call in progress lives
\* to see it.
Switch(a) ==
    /\ current' = a
    /\ seenOn' = [g \in Goroutine |->
                    IF InCall(g) THEN seenOn[g] \cup {a} ELSE seenOn[g]]
    /\ UNCHANGED <<registry, emitter, hook, local, seenEmitter>>

TurnOn ==
    \E cfg \in Config :
        /\ Accepts(cfg, DOMAIN registry)
        /\ Switch(cfg)

TurnOff == current # Nil /\ Switch(Nil)

\* Register(name, extract, As(key)).  Entries are never removed; an entry
\* for a name that has one takes its place.
Register(e) ==
    /\ e.name \in DOMAIN registry => Rebind
    /\ registry' = [f \in DOMAIN registry \cup {e.name} |->
                        IF f = e.name THEN e ELSE registry[f]]
    /\ UNCHANGED <<current, emitter, hook, local, history>>

\* SetEmitter(MultiEmitter(list...)); the empty list is DiscardEmitter.
SetEmitter(list) ==
    /\ emitter' = list
    /\ seenEmitter' = [g \in Goroutine |->
            IF InCall(g) THEN seenEmitter[g] \cup {list} ELSE seenEmitter[g]]
    /\ UNCHANGED <<current, registry, hook, local, seenOn>>

\* SetTraceContextFunc(h): a nil h removes the hook.
SetTraceContextFunc(h) ==
    /\ hook' = h
    /\ UNCHANGED <<current, registry, emitter, local, history>>

-------------------------------------------------------------------------------
\* A tagged method is called.
Begin(g, c) ==
    /\ ~InCall(g)
    /\ pc' = [pc EXCEPT ![g] = "on"]
    /\ call' = [call EXCEPT ![g] = c]
    /\ snap' = [snap EXCEPT ![g] = Nil]
    /\ pending' = [pending EXCEPT ![g] = {}]
    /\ next' = [next EXCEPT ![g] = 1]
    /\ event' = [event EXCEPT ![g] = NoEvent]
    /\ handle' = [handle EXCEPT ![g] = Nil]
    /\ last' = [last EXCEPT ![g] = 0]
    /\ reached' = [reached EXCEPT ![g] = <<>>]
    /\ seenOn' = [seenOn EXCEPT ![g] = {current}]
    /\ seenEmitter' = [seenEmitter EXCEPT ![g] = {emitter}]
    /\ UNCHANGED shared

\* if limelight.On() { ...
On(g) ==
    /\ pc[g] = "on"
    /\ pc' = [pc EXCEPT ![g] = IF current = Nil THEN "quiet" ELSE "load"]
    /\ UNCHANGED <<shared, call, snap, pending, next, event, handle, last, reached, history>>

\* a := current.Load(), and matches up to its loop.  The switch may have been
\* turned off, or on for another target, since On.
Load(g) ==
    /\ pc[g] = "load"
    /\ snap' = [snap EXCEPT ![g] = current]
    /\ \/ /\ current = Nil
          /\ pc' = [pc EXCEPT ![g] = "quiet"]
          /\ UNCHANGED pending
       \/ /\ current # Nil
          /\ current.matchAll
          /\ pc' = [pc EXCEPT ![g] = "emitter"]
          /\ UNCHANGED pending
       \/ /\ current # Nil
          /\ ~current.matchAll
          /\ pc' = [pc EXCEPT ![g] = "match"]
          /\ pending' = [pending EXCEPT ![g] = DOMAIN current.match]
    /\ UNCHANGED <<shared, call, next, event, handle, last, reached, history>>

\* One round of the loop of matches.  It ranges over a Go map: in any order.
Match(g) ==
    /\ pc[g] = "match"
    /\ \E name \in pending[g] :
        LET left == Unchecked(pending[g], name) IN
        \/ /\ Value(name, call[g].ctx) # snap[g].match[name]
           /\ pc' = [pc EXCEPT ![g] = "quiet"]
           /\ UNCHANGED pending
        \/ /\ Value(name, call[g].ctx) = snap[g].match[name]
           /\ pending' = [pending EXCEPT ![g] = left]
           /\ pc' = [pc EXCEPT ![g] = IF left = {} THEN "emitter" ELSE "match"]
    /\ UNCHANGED <<shared, call, snap, next, event, handle, last, reached, history>>

\* h := emitter.Load()
LoadEmitter(g) ==
    /\ pc[g] = "emitter"
    /\ handle' = [handle EXCEPT ![g] = emitter]
    /\ pc' = [pc EXCEPT ![g] =
                IF emitter = Nil THEN "quiet" ELSE "fields"]
    /\ UNCHANGED <<shared, call, snap, pending, next, event, last, reached, history>>

\* One round of the loop over the field names: a field that is not registered,
\* or not in the context, is left out.
ExtractField(g) ==
    LET names == Names[call[g].method]
        name  == names[next[g]]
        v     == Value(name, call[g].ctx)
    IN  /\ pc[g] = "fields"
        /\ event' = IF v = Nil THEN event
                    ELSE [event EXCEPT ![g].fields =
                            [k \in DOMAIN @ \cup {KeyOf(name)} |->
                                IF k = KeyOf(name) THEN v ELSE @[k]]]
        /\ next' = [next EXCEPT ![g] = @ + 1]
        /\ pc' = [pc EXCEPT ![g] = AfterField(next[g], Len(names), v)]
        /\ UNCHANGED <<shared, call, snap, pending, handle, last, reached, history>>

\* if t := traceContext.Load(); t != nil { ... t.f(ctx) }
Trace(g) ==
    /\ pc[g] = "trace"
    /\ event' = [event EXCEPT ![g].hook = hook]
    /\ pc' = [pc EXCEPT ![g] = "deliver"]
    /\ UNCHANGED <<shared, call, snap, pending, next, handle, last, reached, history>>

\* h.e.Emit(ctx, ev): the backends of the loaded emitter, one by one and in
\* their order.
Deliver(g) ==
    LET left == {i \in Live(handle[g]) : i > last[g]} IN
    /\ pc[g] = "deliver"
    /\ \/ \E i \in left :
            /\ \A j \in left : i <= j
            /\ last' = [last EXCEPT ![g] = i]
            /\ reached' = [reached EXCEPT ![g] = Append(@, handle[g][i])]
            /\ UNCHANGED pc
       \/ /\ left = {}
          /\ pc' = [pc EXCEPT ![g] = "sent"]
          /\ UNCHANGED <<last, reached>>
    /\ UNCHANGED <<shared, call, snap, pending, next, event, handle, history>>

-------------------------------------------------------------------------------
Environment ==
    \/ TurnOn
    \/ TurnOff
    \/ \E e \in Entry : Register(e)
    \/ \E list \in Emitters : SetEmitter(list)
    \/ \E h \in Hook \cup {Nil} : SetTraceContextFunc(h)

Next ==
    \/ Environment
    \/ \E g \in Goroutine :
        \/ \E c \in Calls : Begin(g, c)
        \/ On(g)
        \/ Load(g)
        \/ Match(g)
        \/ LoadEmitter(g)
        \/ ExtractField(g)
        \/ Trace(g)
        \/ Deliver(g)

Spec == Init /\ [][Next]_vars

-------------------------------------------------------------------------------
Strings == {Text[v] : v \in DOMAIN Text}

TypeOK ==
    /\ current \in Config \cup {Nil}
    /\ registry \in PartialMap(Field, Entry)
    /\ emitter \in Emitters \cup {Nil}
    /\ hook \in Hook \cup {Nil}
    /\ pc \in [Goroutine -> PC]
    /\ call \in [Goroutine -> Calls]
    /\ snap \in [Goroutine -> Config \cup {Nil}]
    /\ pending \in [Goroutine -> SUBSET Field]
    /\ \A g \in Goroutine :
        /\ next[g] \in 1..(Len(Names[call[g].method]) + 1)
        /\ event[g].fields \in PartialMap({e.key : e \in Entry}, Strings)
        /\ event[g].hook \in Hook \cup {Nil}
        /\ handle[g] \in Emitters \cup {Nil}
        /\ last[g] \in 0..(IF handle[g] = Nil THEN 0 ELSE Len(handle[g]))

\* What it means for activation a to target ctx: every field it names is
\* found in ctx, with the value it wants.
Targets(a, ctx) ==
    /\ a # Nil
    /\ a.matchAll \/ \A f \in DOMAIN a.match : Value(f, ctx) = a.match[f]

\* An event leaves only for a request that was targeted: when a call hands
\* its event over, one single activation, in force at some time during the
\* call, targeted its whole context - never half of one activation and half
\* of the next (Emit works on one snapshot of `current`).
TargetedOnly ==
    \A g \in Goroutine :
        pc[g] \in {"deliver", "sent"} =>
            \E a \in seenOn[g] : Targets(a, call[g].ctx)

\* A call that returns without an event had a reason that was true at some
\* time during it: the switch was off or targeted somebody else, or no
\* emitter was installed.  A field that cannot be extracted is no reason.
QuietForCause ==
    \A g \in Goroutine :
        pc[g] = "quiet" /\ seenOn[g] # {} =>
            \/ \E a \in seenOn[g] : ~Targets(a, call[g].ctx)
            \/ Nil \in seenEmitter[g]

\* Config.Match: "It is evaluated by the same registered extractors that
\* produce output, so targeting and emission can never disagree."  A field
\* the call was targeted by, and that its directive names, is in the event
\* with the value that was targeted.
Agreement ==
    \A g \in Goroutine :
        pc[g] \in {"deliver", "sent"} =>
            \A f \in DOMAIN snap[g].match \cap ToSet(Names[call[g].method]) :
                /\ registry[f].key \in DOMAIN event[g].fields
                /\ event[g].fields[registry[f].key] = snap[g].match[f]

\* seq is the list without its nil members: it visits every other position of
\* the list once, in the list's order.
Visits(seq, list) ==
    \E at \in [DOMAIN seq -> DOMAIN list] :
        /\ \A j, k \in DOMAIN seq : j < k => at[j] < at[k]
        /\ \A k \in DOMAIN seq : seq[k] = list[at[k]]
        /\ {at[k] : k \in DOMAIN seq} = {i \in DOMAIN list : list[i] # Nil}

\* MultiEmitter "fans one event out to several emitters, in order": an event
\* that was sent has reached every backend of one emitter installed during
\* the call, each once and in its order, and no backend of another, whatever
\* SetEmitter did meanwhile.
WholeEmitter ==
    \A g \in Goroutine :
        pc[g] = "sent" =>
            \E list \in seenEmitter[g] \ {Nil} : Visits(reached[g], list)

===============================================================================
