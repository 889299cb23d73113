# limelight: TLA+ models and proofs

limelight traces tagged methods on demand: a service registers how to read
identities from a context, a build-time rewriter puts a gate in front of tagged
methods, and an HTTP endpoint turns emission on for one identity and a bounded
time. This directory models the Go runtime of `limelight-go/`, its backends, its
source rewriter, its build driver and the services of `examples/` that put them
together, checks them with TLC on small instances, and proves what matters most
with TLAPS.

## Inventory

| Component | State | Operations | Called by / calls |
|---|---|---|---|
| Switch (`config.go`) | `current` (atomic pointer to an immutable activation), `timer` under `timerMu` | `Enable`, `Disable`, `Current`, the expiry callback | control endpoint, application code, the runtime's timers |
| Gate (`gate.go`) | the installed emitter (atomic pointer) | `On`, `Emit`, `Matches`, `SetEmitter` | injected code; reads the switch, the registry, the trace hook |
| Registry (`registry.go`) | name → entry, under an RWMutex | `Register`, `As`, `Registered`, `lookup` | application start-up; `Enable` and `Emit` look fields up |
| Emitters (`emitter.go`, `limelightotel`) | none | `Emit(ctx, event)`, `MultiEmitter` | called by the gate |
| Trace hook (`trace.go`) | the installed function (atomic pointer) | `SetTraceContextFunc` | `limelightotel.InstallTraceContext`; read by the gate |
| Sampler (`limelightotel/sampler.go`) | none | `ShouldSample` | the OpenTelemetry SDK, when a span starts; asks `Matches` |
| Control endpoint (`control/control.go`, `control/auto`) | none | `enable`, `disable`, `status`; `Mount`, `Wrap`, `Handler` | HTTP clients; calls the switch |
| Directive parser, rewriter (`internal/directive`, `internal/rewrite`) | none | `Parse`, `File` | the toolexec driver |
| Toolexec driver (`internal/toolexec`, `cmd/limelight`) | a temporary directory, the tool identity | `Run`, `instrument`, `runVersion` | the go command, once per tool invocation |
| Backends (`logemitter.go`, `limelightzap`) | a logger, or none for the global one | `Emit` | called by the gate; write to slog or zap |
| Examples | the process: what `main` has set up, its listeners | `main`, the identity middleware, the route, the tagged method | call everything above |
| Command line (`cmd/limelight`) | none | dispatches its first argument | calls the toolexec driver |

What is hard, and what would make each component wrong:

* **Switch.** `Enable` and `Disable` change the pointer first and take the lock
  for the timer afterwards; expiry is a callback that takes no lock and may run
  late. Right means: an activation ends, and not before the deadline that was
  reported; an old timer never ends a new activation; no timer is leaked.
* **Gate.** A call makes up to a dozen reads of shared state with no lock around
  them. Right means: an event leaves only for a request that one activation
  targeted; no targeted request is dropped without a cause; the event agrees
  with what was matched; it reaches the backends of one emitter.
* **Registry.** A plain map under an RWMutex, which is not reentrant, while
  extractors are the service's own code and may call back. Right means: no access
  races with a write, every call returns, and the whole behaves as an atomic map.
* **Control.** Handlers run concurrently, on one pod each, behind a load
  balancer. Right means: the caps hold for every body, a request never gets more
  than it asked for, other versions are told so, and an answer describes the
  activation of its own request.
* **Sampler and OpenTelemetry emitter.** The sampling decision and the event are
  made at different times from a switch that moves, and an identity is known
  only after some middleware ran.
* **A whole service.** `main` sets things up in an order while a listener may
  already be open; the process may end and start again at any step; a backend
  follows a global logger that may be replaced. Right means: who asks finds
  everything set up, control requests get in at one place only, a request that is
  watched all along leaves a line, and the line tells the truth.
* **Rewriter and driver.** Splices at byte offsets, directives that cannot be
  honoured, failures between files, build-cache keys.

`PROJECT.json` lists the components, the hazards with their lines and the
properties that cover them.

## Modules

| Module | What it models |
|---|---|
| `Targeting` | Configs: what `Enable` accepts, and how an activation is labelled. Data only. |
| `TtlSwitch` | The abstract promise of the switch: who is in force, until when, who asked for off. |
| `Switch` | `config.go`, one action per atomic step. Implements `TtlSwitch`. |
| `SwitchProofs` | Theorems about `Switch`, for all constants. |
| `FieldMap` | The abstract promise of the registry: an atomic map. |
| `Registry` | `registry.go` under its RWMutex, with extractors that call back. Implements `FieldMap`. |
| `RegistryProofs` | Theorems about `Registry`, for all constants. |
| `Gate` | The path of a tagged call: `gate.go`, `registry.go`, `emitter.go`, `trace.go`. |
| `Control` | `control/control.go` on several pods, each pod's switch as `TtlSwitch` shows it. |
| `ControlProofs` | Theorems about `Control`, for all constants. |
| `GateProofs` | Theorems about `Gate`, for all constants. |
| `Sampling` | `limelightotel`: the sampler and the span emitter over the life of requests in several services. |
| `SamplingProofs` | Theorems about `Sampling`, for all constants. |
| `Rewrite` | `internal/rewrite` and `internal/directive`: how one file gets its gates. |
| `RewriteProofs` | Theorems about `Rewrite`, for all files. |
| `Toolexec` | `internal/toolexec` in the builds of the go command. |
| `ToolexecProofs` | Theorems about `Toolexec`, for all constants. |
| `Service` | The programs of `examples/`, `control.Handler`, `Mount`, `Wrap` and `auto`, the slog and zap backends, from start to exit and again. |
| `ServiceProofs` | Theorems about `Service`, for all constants. |
| `MCSwitch`, `MCRegistry`, `MCGate`, `MCControl`, `MCSampling`, `MCRewrite`, `MCToolexec`, `MCService` | Small instances for TLC. |

Operators whose names end in `Bug` are variants of the definition that follows
them, each a plausible slip in the code. Nothing uses them; with one put in the
place of its definition, a property of the runs fails.

### Switch

An activation is the struct `Enable` allocates: fresh each time, never mutated,
so a value of `Activation` is used once. It owns at most one timer, whose state
is kept in `life`: built, published, armed, fired (went off, callback pending),
stopped, done. A caller moves through `pc`:

    Enable:   idle -Build-> publish -Publish-> lock -Acquire-> locked -StopOld-> stopped -Rearm-> idle
    Disable:  idle -CallDisable-> clear -Clear-> lock -Acquire-> locked -StopOld-> stopped -Disarm-> idle

`Build` is `Enable` up to the store: the refusals are its guard (a refused call
changes nothing and has no action), and the deadline is stamped there. `Rearm`
counts the TTL from the `AfterFunc`. `Fire` and `Expire` are the timer going off
and its callback; `Stopped` on a timer that went off does nothing, as in Go.

In the refinement an activation is in force from its store, its deadline is the
one `Enable` stamped, and a `Disable` is asked for from its call to its store.
`TtlSwitch` has a separate "asked" so that a callback which turns the switch off
too early cannot pass for somebody's `Disable`.

### Registry

A `Call` is a goroutine's use of the package, and does one `Op` at a time:

    Register:    idle -Begin-> lock -Announce-> wait -Grant-> write -Write-> idle
    Enable,Emit: idle -Begin-> next -Lookup-> read -Read-> (extract -Extracted->) next ... -EndLoop-> idle
    Registered:  idle -Begin-> list -StartRange-> range -Range*, EndRange-> listed -Return-> idle

`Lock()` is two steps, as in Go: an announced writer keeps new readers out, then
waits for those inside. An `Enable` that misses a field goes on as `Registered`.
The loop of `Registered` visits what is in the map when it begins (`left`) and may
visit what came later, as a Go map's does: that nothing comes later is for the
lock to see to.
`Inner[c]` is the call that the extractors of `c` make; it can begin only while
`c` is in `extract`, and `c` goes on only when it has returned. In the refinement
a `Register` takes effect at `Write`, a lookup at `Read`, and a `Registered` when
its loop ends.

### Gate

`On`, `Load`, `Match`, `LoadEmitter`, `ExtractField`, `Trace`, `Deliver` are the
reads of one call in their order; `Match` takes the entries of the match in any
order because the code ranges over a Go map. Between any two of them the
environment may turn the switch on with any Config `Enable` accepts, or off,
register a field, install an emitter or a trace hook. `Value` is a lookup and
the extractor it found: the entry is immutable and the extractor is taken to be
a function of the context, so nothing can come between the two. `Carries` and
`Text` give what an extractor returns and its string. That a directive names at
least one field, and none twice, is what `directive.Parse` lets through. An
emitter is the list handed to `MultiEmitter`, nil members included; the empty
list is `DiscardEmitter`. `Deliver` hands the event to the next member that is not
nil: `last` is its position in the list.

`seenOn` and `seenEmitter` are history: the activations and emitters in place at
some time during the call. No action reads them.

### Control

A body is what the handler tells apart: readable; JSON with an integer version,
null or none, which is all that the lenient probe asks (`json`); the version; an
unknown field; fields of the right types (`typed`); the TTL, the targeting, a
non-empty `methods`. `Checks` are the handler's checks in order - the probe and
the version, then the strict decoding of the whole, then the rest -, `Fails`
says of each whether a body fails it, and `Verdict` is the first that it fails.
`Enable`, `Disable` and `Status` act on the pod the request was routed to and fix
the reply; `Write` writes it later. A retry is another request with the same
body. Calls of the switch are atomic here, which is what the refinement of
`TtlSwitch` provides: the moment of the store is the moment of the call.

### Sampling

A strand of work is a request or a goroutine it spawned; it carries a context,
which holds an identity or none, and the context of a span or none. A span
context is local, or came from a caller in a header: only a local span can be
written to, and the sampler has a rescue for each kind of parent. `Arrive`,
`CallService` and `Spawn` begin a strand, `Identify`, `StartSpan`, `EndSpan` and
`Tagged` are what middleware and handlers do, in any order, as the two middleware
orders that `sampler.go` describes are both in use. Goroutines may outlive the
spans on their contexts.

`StartSpan` asks the sampler with the context and the switch of that moment;
`Tagged` asks the switch again, later. Each service has a switch of its own, as
each pod of the control endpoint does, and it appears as the set of identities it
targets; the firehose also takes in contexts whose identity is not known. The
base sampler is the service's own and may say anything of any span: `StartSpan`
chooses its answer (`base`) for each, and whether the sampler asks for it is up to
`Sampler`. `ParentBased` and `IsRecording` belong to the OpenTelemetry SDK and are
modelled by what the code uses of them.

Only `targetedSampler`, for a span without a parent, asks the base. So `KeepsBase`
speaks of traces whose root the base of the first service keeps: limelight costs
no span that `ParentBased(base)` in each service would keep.

What the base would have said of a span (`base`), whether limelight was targeting
it (`forced`) and its lineage are history.

### Service

`main` is a sequence of steps (`GoLog`, `GoLogZap`, `GoOtel`, and `Wrapped` for a
service that uses `control.Wrap` instead of `control/auto`); `Register`,
`Prepare`, `SetSlog`, `SetZap` and `Listen` are its steps, `Bind` the moment at
which a listener accepts. `Exit` is any end of the process, a `log.Fatal` or a
signal, and may come at any step; `Launch` starts it again with nothing left but
the log. `Handler`, `Mount`, `Wrap` and `Router` say which route a method and a
path on a listener lead to. `Enable` and `Disable` are requests to any listener
with any method and path; refusals of a body are in `Control`. `Arrive` is the
middleware with the route and the decoding of the body, `On`, `Match`, `EmitSlog`
or `EmitZap`, and `Write` the tagged call, `Answer` its end. The zap backend looks
at the level when it chooses its logger, both look at it when they write.

An `Enable` is one step because `Switch` implements `TtlSwitch`, and so is the
part of `Emit` up to the event because the theorems of `GateProofs` apply: the
programs register each field once. Requests share only the state of the process,
which none of them changes, so one client has all the behaviours of each of many.
`seen` and `order` are history.

### Rewrite

A file is what the parser tells `File` of it: the local names of the two imports
that matter, declarations with the directives of their doc comments, the other
comment groups, and the text, with the offset of the package name and of each
opening brace. A directive is the list of names in its fields argument. Text is a
sequence of tokens, only those between which something is spliced, and an offset
is a place in it; that the offsets are right is `FilesAssumption`, an assumption on
`go/parser`.

    Declaration* -Comments-> CommentGroup* -Nothing-> done
                                           -Resolve-> Splice* -> done

`Declaration` and `CommentGroup` are one round of each loop: the declarations give
gates whose call still lacks the name of the runtime, the comment groups warnings.
`Nothing` is the return without a splice, `Resolve` settles the name and the import,
and `Splice` is one round of `apply`, which sorts the splices and makes the last
first: `todo` are those left. A malformed first directive of a function ends in
`error`; a loose one is warned of. Files that do not parse are left out: `File`
returns at once. A parameter is the package name of its `Context` type with its
own name; `ContextParam` takes the first whose package is the local name of the
import of `context`, and of several imports the first usable one counts
(`LocalName`), as in the code. Whether a parameter or receiver hides the local
name of the runtime inside its function is not modelled: `Resolves` is about what
the imports bind.

### Toolexec

A build asks for the version (`RunVersion`), then for each package reuses an
object of the cache or runs the driver (`Run`, `Scan`, `MkdirTemp`, `WriteFile`,
`Compile`), several packages at a time. Every action on a file has a failing
alternative, and so has the deferred removal of the directory, whose error the
code discards (`Return`, with the outcomes of `Cleanup`; `removal` is history, so
that a directory that was never tried differs from one that would not go). `Kill`
is a process that dies with its deferred cleanup undone. The go command, its
cache and the compiler are external: what is said of them is that a cache key has
the answer to the version query in it, and that an object is put in the cache when
`Run` returns 0. The driver is taken not to be rebuilt while a build runs
(`Rebuild` needs `build = Nil`): the processes of a build run the binary that
answered for its version. `Content` is what `Rewrite` makes of a file; "invalid" is
one with a directive in it that `rewrite.File` refuses, because it does not parse
or because the first directive of a function is malformed.

## Runs

| Run | Instance | Shows |
|---|---|---|
| `switch_overlap` | 2 callers whose calls may overlap, 2 activations, TTL 1 and 2, horizon 1 | `TypeOK`; `OneLiveTimer`; `Promise`: Switch implements TtlSwitch; `CallsReturn`: timerMu is always given back; `BoundedWhenSerial`, `EndsWhenSerial`: as long as calls do not overlap, what is on is bounded by a pending Enable or by its own timer, and ends |
| `switch_forever` | as `switch_overlap` | `EventuallyOff` is violated: see Findings |
| `registry_calls` | 2 goroutines, the extractors of one call back; 2 fields, 3 entries | `TypeOK`; `NoRace`; `HonestRefusal`; `Linear`: Registry implements FieldMap; `CallsReturn`: nobody waits for a lock with one in its hands |
| `gate_once` | 1 goroutine, 3 fields, 4 contexts, one of which meets half of each of two Configs, 3 Configs, 3 emitters, each field registered once | `TypeOK`, `TargetedOnly`, `QuietForCause`, `Agreement`, `WholeEmitter` |
| `gate_rebind` | the same with two extractors for one field, and re-registration | `Agreement` is violated: see Findings |
| `control_pods` | 2 requests, 2 pods; bodies with every TTL and targeting, or with up to two flaws of form (not JSON, an unknown field, a wrong type, `methods`, another version or none) | `TypeOK`, `VersionFirst`, `BoundedExposure`, `NeverWider`, `OwnAnswer` |
| `service_run` | 5 programs, 1 client, 3 sets of headers, 3 Configs | `TypeOK`; `Ready`: no field of main's is refused, however early the request; `EveryTargetedLine`: who is watched all along leaves a line; `TrueLine`: a line has its request's identity, from the right logger; `Confined`: only a POST on the right listener turns tracing on |
| `sampling_services` | 2 services, 2 strands, 2 spans, one customer or the firehose, any answers of the bases | `TypeOK`, `KeepsBase`, `OnlyForced`, `NoHoles`, `TargetedWorkSeen` |
| `rewrite_files` | 49 704 files: up to 2 declarations of 45 kinds, 12 ways to import | `TypeOK`, `Spliced`, `Resolves`, `FirstAnswered` |
| `rewrite_ignored` | the same | `NoneIgnored` is violated: see Findings |
| `toolexec_build` | 4 packages, one of each kind, 2 drivers; every file operation may fail, the removal too | `TypeOK`, `WholePackage`, `NoLeftovers`, `Compilable`, `CacheFresh` |
| `toolexec_unreadable` | 2 packages, 2 drivers that may fail to read themselves | `CacheFresh` is violated: see Findings |

Bounds. `Activation` bounds the number of Enables that get past validation: with
two, an activation can be replaced while its callback is pending (that
`OneLiveTimer`, `Promise` and `BoundedWhenSerial` hold for any number is proved).
`Horizon` bounds the clock: nothing is enabled after it, but time runs on for
every timer still running. Two callers are enough for every pair of steps that
may be reordered. In `Gate` goroutines share only
the environment's state, which none of them writes, so one goroutine with a free
environment has all the behaviours of each of many. In `Registry` a reader, a
writer and a call from inside the reader's extractor are what a deadlock of an
RWMutex takes, and one field has two entries so that a lookup can be late. In
`Service` the programs differ in the order of `main`, in the backend, in the
listener with the control routes and in the logger; a third Config asks for a
field nobody registers. In `Control` a tick is
abstract: the caps are 3 and 1 ticks with TTLs on both sides of each. In
`Sampling` two spans are a parent and a child, in one service or across two (the
theorems are about lineages of any length); the switches move
without bound. In `Rewrite` two gates and an import are three splices in an order
that is not the order of their offsets. In `Toolexec` a build finds what the last
one left in the cache, with the same driver or the other.
Symmetry is used in runs that check safety only.

Fairness (`Switch!Fairness`). Weak fairness of every step of a call that has
begun (a goroutine keeps running), of a due timer and of its callback (the
runtime), and of time. Strong fairness of `Acquire`, because a goroutine that
waits for a `sync.Mutex` competes with others, and the mutex hands itself to a
waiter that starves. None for beginning a call.

In `Registry!Fairness` a call that can go on does (weak), and one that waits for
the lock gets it in the end (strong, `Waiting`): `Unlock` lets the readers that
wait go before the next writer, and writers queue on a mutex. An extractor that
can return in the end does (strong, as inner calls may come and go). Nobody has
to call anything. The other modules state safety only and assume no fairness.

Deadlock is checked in `Switch`, `Registry` and `Gate`, where some call can always
begin, in `Sampling`, whose switches can always move, in `Toolexec`, where another
build can begin, and in `Service`, where the process can end and start. It is not
in `Control`, whose clients may stop, nor in `Rewrite`, which ends.

## Findings

1. **An activation can stay on for ever** (`switch_forever`). `Enable` stores
   its activation before it takes `timerMu`, `Disable` clears the pointer before
   it takes `timerMu`. When two calls overlap, the later store can belong to the
   call that enters its critical section first. The other call then stops the
   timer of the activation that is in force; what it leaves in `timer` is a timer
   whose CompareAndSwap fails, or nothing. `config.go` says that "there is no way
   to turn limelight on forever, by design". `EndsWhenSerial` in `switch_overlap`
   and the theorem `SerialIsBounded` show that this needs overlapping calls.
2. **Targeting and emission can disagree when a field is registered again**
   (`gate_rebind`). `Register` replaces an entry, and `Emit` looks the field up
   once to match and once to emit. `config.go` says they "can never disagree".
   `gate_once` shows that they agree when each field is registered once, which is
   the use `registry.go` expects.

3. **A second directive in a doc comment is dropped** (`rewrite_ignored`).
   `parseDoc` returns at the first and marks the group, and the pass that warns
   about inert directives skips marked groups. `rewrite.go` calls a silently
   ignored tag "the failure mode limelight exists to avoid". `FirstAnswered` holds:
   the first directive of every group has its gate or a warning.
4. **Drivers that cannot read themselves share an identity**
   (`toolexec_unreadable`). `selfID` then answers `unknown`, and after a rebuild
   the go command reuses objects of the older driver, which `toolexec.go` says the
   identity prevents. `toolexec_build` shows that it does when the hash succeeds.

Not a finding, but worth knowing: a killed driver leaves its temporary directory,
and so does one whose `os.RemoveAll` fails, without a word (`toolexec.go:119`);
below a root that was dropped the sampler keeps targeted spans only and does not
ask the base, so that a base which looks at no parent is not "left alone" there
(`sampler.go:70-81`; the test that says the sampler must be invisible with the
switch off starts root spans only);
an event of a call that was past its load of `current` may still be delivered
after `Disable` has returned; an `Enable` that refuses a field may list that very
field as registered, when it was registered between the lookup and the list; and
`log.Fatal` in the examples leaves without the deferred `Sync` and `Shutdown`.

## Proofs

`SwitchProofs` assumes only what `Switch` assumes: `Nil` is neither a caller nor
an activation, TTLs are integers, the horizon is a natural number. Callers,
activations and Configs may be any sets.

* `Invariant`: the inductive invariant `IInv`, in six parts. `Mutex` ties
  `timerMu` to the program counters. `NoneBetween` says that no timer runs
  between the Stop and the AfterFunc of a critical section; with `Mutex` it makes
  `OneLiveTimer` inductive, which alone it is not. `Owned` says that a call works
  on an activation that is where the call is, `InForce` that what is in force has
  been stored: the refinement needs both to know that a store uses a fresh
  activation. `Punctual` says that no timer is due before its activation's
  deadline: this is what makes an expiry a legal step of `TtlSwitch`. One lemma
  per part shows that each action preserves it.
* `TypeCorrect`, `OneLiveTimerHolds` follow from it.
* `Refinement`: Switch implements TtlSwitch. `PromiseStep` maps each action to
  its abstract step or, by the lemma `Stutter`, to none.
* `SerialIsBounded`: as long as calls have not overlapped, `OnIsBounded`. The
  strengthening `SerialInv` says that a call which is finishing still has the last
  word on `current`, up to expiry - exactly what overlapping calls break.

`RegistryProofs` assumes what `Registry` does: entries have names that are fields,
operations are well formed, `Nil` is no call and no entry. Nesting of extractors
may be any.

* `Invariant`: `Locking` ties the RWMutex to the program counters, with a writer
  alone; `Learnt` says that what a call has found registered still is, that a
  field `Enable` refuses was missing when it began, and that a call in the loop of
  `Registered` has seen all names that are registered or has them left. `NoRaceHolds` and
  `HonestRefusalHolds` follow.
* `LinearHolds`: Registry implements FieldMap. The step that needs the invariant is
  the end of `Registered`: nobody has written since its loop began, so the names
  it saw are those of one instant.

`GateProofs` assumes what `Gate` does: wanted values are strings, directives name
at least one field, entries are for fields and what an extractor returns has a
string, the members of an emitter are numbered from 1, `Nil` is none of the other
values. All but `TypeCorrect` and `WholeEmitterHolds` have the hypothesis `~Rebind`,
that no field is registered twice, without which they fail: the second finding is
a counterexample to `Agreement`.

* `TargetInvariant`: the inductive invariant `TargetInv`. `Settled` says that every
  activation in sight names registered fields only, because `Enable` refuses any
  other and the registry only grows. With `~Rebind` this makes a lookup final
  (`RegisterKeeps`), and so whether an activation targets a context
  (`TargetsSettled`): what one read of the loop of matches found is still true
  at the last. `UpToDate` ties the history to what a read can return, `Matched`
  carries what the loop has found.
* `TargetedOnlyHolds` and `QuietForCauseHolds` follow, the one from `Matched`, the
  other because a call that returns quietly has just read its cause.
* `AgreementHolds` needs the stronger `EventInv`: `Progress` counts the rounds of
  the extraction loop, `Extracted` says that the names of the rounds so far are in
  the event as they were targeted. It also needs `DistinctKeys`, that `As` gives
  different fields different keys, which `Register` does not check.
* `WholeEmitterHolds` needs no hypothesis. `DeliveryInv` says that what was reached is
  the list up to `last` without its nil members (`VisitsTo`), by an increasing choice
  of positions that each delivery extends by one (`OneMoreVisited`), and that the
  list was installed during the call.
* `TypeCorrect` needs no hypothesis. `Typed` rests on `Settled`, for the fields of
  a match, and on `Progress`, for the index of the extraction loop.

`ControlProofs` assumes what `Control` does: the cap of a firehose is below the
other one, flags of bodies are Booleans and TTLs integers, `Nil` is no body and no
activation.

* `Passed` says what a body with the verdict "ok" has passed, `OtherVersion` that
  one of another version is refused for it; they rest on `VerdictIs`, that the
  verdict is the first check to fail.
* `Invariant`: `InForce` ties every activation in force to the request that made
  it, whose body has passed and whose answer is fixed, and `Replied` every answer
  to the body of its own request. `NeverWider` and `BoundedExposure` alone are not
  inductive: they say nothing of the verdict.
* `BoundedExposureHolds`, `NeverWiderHolds`, `VersionFirstHolds`, `OwnAnswerHolds`
  follow, for any number of pods and requests and any caps.

`SamplingProofs` assumes that the names are distinct and that activations
target identities, and nothing else; of the base samplers nothing at all.

* `SamplingInvariant`: all that is known of a span but `ended` is settled when it
  starts, so one lemma about `StartSpan` (`NewSpan`) and one that nothing else
  changes it (`SpansStayStep`) carry the four properties. Each is a statement
  about a whole lineage; the step needs it of the parent only.
* `KeepsBaseHolds`, `OnlyForcedHolds`, `NoHolesHolds`, `TargetedWorkSeenHolds`
  follow.
* `TypeCorrect`: that a strand has left every span it has ended is not inductive,
  as goroutines share spans they do not own. `Nested` says of all the spans a
  strand is in that those of its own are open, and that lineages have no cycles.

`ToolexecProofs` assumes what `Toolexec` does: contents are of three kinds, sources
have file names, no two of one package have the same (they are in one directory),
`Unknown` is no driver.

* `Invariant`: `Progress` says of each package how far its process is. What it
  found is what is tagged of what it scanned, and no file of that is one that
  rewrite refuses (`FoundSoFar`); a process that makes or fills its directory has scanned all
  (`Where`); every argument that was replaced names a copy of its own source, and
  before the compiler runs every source found is replaced (`Copies`); a process
  runs in a build, with the driver on disk (`InBuild`). Of the cache, `Keyed` says
  that an object is under an identity its driver may give. `WholePackage` is about
  the cache only, and inductive just with all of these.
* One lemma per action; a step of one package changes no other (`Frame`,
  `OneStep`). `ReadWhole` is the heart: what the compiler reads is a copy of each
  tagged source and the original of each other.
* `WholePackageHolds`, `NoLeftoversHolds`, `CompilableHolds` follow. Of the directory
  the invariant says that a process that returned has none or has failed to remove
  it.
  `CacheFreshHolds` has the hypothesis `~HashMayFail`, that every driver can read
  itself: an identity then names one driver. Without it the property fails, which
  is the fourth finding.

`ServiceProofs` assumes what `Service` does: the programs are of the four kinds,
Configs ask for values, headers are values or absent, `Nil` is none of the things
it is put in the place of. There may be any number of clients.

* `Invariant`: `Setup` says that a step of main that was passed has had its effect
  and that a listener was passed when it is waiting or open; by `MainFacts` the fields
  and the emitter come before any listener in every program, so whoever gets in
  finds them (`SetUp`). `Aimed` says that what is in force asks for fields of main.
  `OfClient` follows each request: it has seen what is in place (`Watching`), its
  event is its identity and somebody wanted it, and if it ended without a line it
  is excused (`Call`), its line is true (`TrueFor`). `EveryTargetedLine` is not
  inductive without `Watching`, which ties the history to what a step can read.
* `ReadyHolds`, `EveryTargetedLineHolds`, `TrueLineHolds` follow. `ConfinedHolds` is an
  action property: the step that turns tracing on is an `Enable`, and `RouteToEnable`
  says which listener and method lead there.
* `SortedFacts`: sorting loses no key, adds none and has the order of the source;
  with two keys it is a case for each set of them.

`RewriteProofs` assumes `FilesAssumption` and nothing else: any number of
declarations, directives, imports and splices.

* The operators first. `LocalNameIs` and `ContextParamIs` say what the least index of
  a usable import or parameter yields; that there is a least one (`MinIs`) comes from
  the well-foundedness of `<`, not from an induction over lists. `InsertAtIs` says
  where the tokens of a sequence are after an insertion.
* `Invariant`: `Taken` and `Warned` say which groups were taken and warned about by
  what has been scanned, `Made` that the splices are a gate for each declaration
  that fits and the import, no others. `Placed` is about the text: after the splices
  done so far (`Laid`), token k has moved by the number of splices before it, each
  splice is just behind the token it belongs to, and the splices left are all in
  front of those done.
* `OneSplice` keeps `Laid`: as the new splice is in front of all done, it moves
  every one of them by one and finds its own offset unmoved. This is why `apply`
  goes from the last offset to the first.
* `SplicedHolds`, `ResolvesHolds`, `FirstAnsweredHolds` follow; `DoneIs` says which
  gates are in the result.

Only model-checked: liveness, that is `CallsReturn` of `Switch` and of `Registry`, and
`EndsWhenSerial`. Their proofs need ENABLED of the actions under fairness, which
tlapm 1.4.5 does not handle. Every other property of the passing runs is proved.
The four runs that find a violation have no theorem; for `gate_rebind` and
`toolexec_unreadable` the theorem about the same property names the hypothesis they
violate.

## Not modelled, and the plan

`Control` over several activations of `Switch` instead of its abstraction, with the
audit log's `enabled_until`.

Left out for good: the command line, which passes its first argument on to the
toolexec driver; the panics of `Register` on arguments no caller should pass; the
difference between an answer for a wrong path and one for a wrong method, neither
of which does anything; how a line, an attribute or an id is formatted; tracestate,
which the samplers pass on unread.
