---------------------------- MODULE ServiceProofs -----------------------------
(***************************************************************************)
(* What holds of Service for any programs, clients, headers and Configs,   *)
(* with proofs checked by TLAPS.                                           *)
(*                                                                         *)
(* IInv says what main has done by the time it gets to a listener (Setup), *)
(* and what the call of each client owes to what it has lived to see       *)
(* (OfClient).                                                             *)
(***************************************************************************)
EXTENDS Service, SequenceTheorems, TLAPS

\* main is past step s.
Passed(s) == \E i \in 1..Len(Main) : i < stage /\ Main[i] = s

\* main does what it does in its order, and a listener comes after it.
Setup ==
    /\ \A f \in Field : Passed(f) => f \in DOMAIN registry
    /\ \A f \in DOMAIN registry : registry[f] = KeyOf(f)
    /\ Passed("emitter") => emitter # Nil
    /\ \A l \in waiting \cup open : Passed(l)

\* What can be in force asks for fields that main registers.
Aimed(a) == a # Nil => a.matchAll \/ DOMAIN a.match \subseteq Field

\* The headers of c that were not empty.
GivenBy(c) == {f \in Field : request[c].header[f] # Nil}

\* The fields of an event of c.
OwnFields(c, fields) ==
    /\ DOMAIN fields = {KeyOf(f) : f \in GivenBy(c)}
    /\ \A f \in GivenBy(c) : fields[KeyOf(f)] = request[c].header[f]

\* Somebody asked for c while its request ran.
Wanted(c) == \E a \in seen[c].on : Asked(a, request[c].header)

\* What may leave c without a line.
Excused(c) ==
    \/ \E a \in seen[c].on : ~Asked(a, request[c].header)
    \/ seen[c].muted
    \/ prog.backend = "zap" /\ prog.logger = "global" /\ "initial" \in seen[c].logger

\* The loggers that a line of c may be in.
Allowed(c) == IF prog.logger = "own" THEN {"own"} ELSE seen[c].logger

\* c's request is in progress: it has seen what is in place.
Watching(c) ==
    InProgress(c) =>
        /\ "app" \in open /\ request[c].body
        /\ current \in seen[c].on /\ global \in seen[c].logger
        /\ muted => seen[c].muted

\* How far the call of c is.
Call(c) ==
    /\ \A a \in seen[c].on : Aimed(a)
    /\ pc[c] \in {"on", "match", "emit", "write"} => line[c] = Nil
    /\ pc[c] \in {"emit", "write"} =>
         event[c] \in Events /\ Wanted(c) /\ OwnFields(c, event[c])
    /\ pc[c] = "write" => logger[c] \in Allowed(c)
    /\ pc[c] \in {"body", "created"} /\ line[c] = Nil => Excused(c)

\* The line of c is true: TrueLine, for one client.
TrueFor(c) ==
    line[c] # Nil =>
        /\ request[c].body
        /\ Wanted(c)
        /\ OwnFields(c, line[c].fields)
        /\ line[c].keys \in {<<>>, <<"project.id">>, <<"user.id">>,
                              <<"project.id", "user.id">>}
        /\ {line[c].keys[i] : i \in DOMAIN line[c].keys} = DOMAIN line[c].fields
        /\ line[c].logger \in Allowed(c)

OfClient(c) == Watching(c) /\ Call(c) /\ TrueFor(c)

IInv ==
    /\ TypeOK
    /\ Setup
    /\ Aimed(current)
    /\ Ready
    /\ \A c \in Client : OfClient(c)

-------------------------------------------------------------------------------
(* The operators.                                                          *)

\* In each program the fields and the emitter come before the listeners, and
\* only the examples have an admin listener.
LEMMA MainFacts ==
    ASSUME prog \in Program
    PROVE  /\ Len(Main) \in Nat
           /\ \A i \in 1..Len(Main) :
                /\ Main[i] = "admin" => prog.main # "wrapped"
                /\ Main[i] \in {"admin", "app"} =>
                     \A s \in {"projectID", "userID", "emitter"} :
                        \E j \in 1..Len(Main) : j < i /\ Main[j] = s
<1>1. prog.main \in {"go-log", "go-log-zap", "go-otel", "wrapped"}
  BY ProgramAssumption
<1>2. CASE prog.main = "go-log"
  <2>1. Main = <<"projectID", "userID", "emitter", "admin", "app">>
    BY <1>2 DEF Main, GoLog
  <2>2. QED
    BY <1>2, <2>1
<1>3. CASE prog.main = "go-log-zap"
  <2>1. Main = <<"projectID", "userID", "logger", "emitter", "admin", "app">>
    BY <1>3 DEF Main, GoLogZap
  <2>2. QED
    BY <1>3, <2>1
<1>4. CASE prog.main = "go-otel"
  <2>1. Main = <<"projectID", "userID", "exporter", "trace", "emitter", "admin", "app">>
    BY <1>4 DEF Main, GoOtel
  <2>2. QED
    BY <1>4, <2>1
<1>5. CASE prog.main = "wrapped"
  <2>1. Main = <<"projectID", "userID", "emitter", "app">>
    BY <1>5 DEF Main, Wrapped
  <2>2. QED
    BY <1>5, <2>1
<1>6. QED
  BY <1>1, <1>2, <1>3, <1>4, <1>5

\* When a listener is open, or about to be, main has set everything up.
LEMMA SetUp ==
    ASSUME TypeOK, Setup, NEW l \in waiting \cup open
    PROVE  /\ DOMAIN registry = Field
           /\ \A f \in Field : registry[f] = KeyOf(f)
           /\ emitter # Nil
           /\ l = "admin" => prog.main # "wrapped"
<1>1. prog \in Program /\ stage \in Nat /\ l \in {"admin", "app"}
  BY MainFacts DEF TypeOK
<1>2. PICK i \in 1..Len(Main) : i < stage /\ Main[i] = l
  BY DEF Setup, Passed
<1>3. \A s \in {"projectID", "userID", "emitter"} : Passed(s)
  <2> SUFFICES ASSUME NEW s \in {"projectID", "userID", "emitter"} PROVE Passed(s)
    OBVIOUS
  <2>1. PICK j \in 1..Len(Main) : j < i /\ Main[j] = s
    BY <1>1, <1>2, MainFacts
  <2>2. j < stage
    BY <1>1, <1>2, <2>1, MainFacts
  <2>3. QED
    BY <2>1, <2>2 DEF Passed
<1>4. Field \subseteq DOMAIN registry
  BY <1>3 DEF Setup, Field
<1>5. DOMAIN registry \subseteq Field
  BY DEF TypeOK, PartialMap
<1>6. l = "admin" => prog.main # "wrapped"
  BY <1>1, <1>2, MainFacts
<1>7. QED
  BY <1>3, <1>4, <1>5, <1>6 DEF Setup

\* A request reaches enable by one way only.
LEMMA RouteToEnable ==
    ASSUME NEW l, NEW m, NEW p, Serves(l, m, p) = "enable"
    PROVE  m = "POST" /\ (l # "admin" => prog.main = "wrapped")
<1>1. Handler(m, p) = "enable" => m = "POST"
  BY DEF Handler, Routed
<1>2. Router(m, p) # "enable"
  BY DEF Router
<1>3. QED
  BY <1>1, <1>2 DEF Serves, Mount, Wrap

\* The context carries the headers that were not empty.
LEMMA IdentityFacts ==
    ASSUME NEW header \in [Field -> Value \cup {Nil}]
    PROVE  /\ DOMAIN Identity(header) = {f \in Field : header[f] # Nil}
           /\ \A f \in DOMAIN Identity(header) : Identity(header)[f] = header[f]
BY DEF Identity

\* What matches a context is what asks for its headers.
LEMMA MatchesFacts ==
    ASSUME NEW header \in [Field -> Value \cup {Nil}], DOMAIN registry = Field,
           NEW a \in Config \cup {Nil}, Aimed(a)
    PROVE  Matches(a, Identity(header)) <=> Asked(a, header)
<1> DEFINE ctx == Identity(header)
<1>1. DOMAIN ctx = {f \in Field : header[f] # Nil}
      /\ \A f \in DOMAIN ctx : ctx[f] = header[f]
  BY IdentityFacts
<1>2. CASE a = Nil \/ a.matchAll
  BY <1>2 DEF Matches, Asked
<1>3. CASE a # Nil /\ ~a.matchAll
  <2>1. DOMAIN a.match \subseteq Field
    BY <1>3 DEF Aimed
  <2>2. \A f \in DOMAIN a.match : a.match[f] \in Value /\ a.match[f] # Nil
    BY <1>3, ConfigAssumption, NilAssumption
  <2>3. \A f \in DOMAIN a.match :
          (f \in DOMAIN registry \cap DOMAIN ctx /\ ctx[f] = a.match[f])
          <=> header[f] = a.match[f]
    BY <1>1, <2>1, <2>2
  <2>4. Matches(a, ctx) <=>
          \A f \in DOMAIN a.match :
            f \in DOMAIN registry \cap DOMAIN ctx /\ ctx[f] = a.match[f]
    BY <1>3 DEF Matches
  <2>5. Asked(a, header) <=> \A f \in DOMAIN a.match : header[f] = a.match[f]
    BY <1>3 DEF Asked
  <2>6. QED
    BY <2>3, <2>4, <2>5
<1>4. QED
  BY <1>2, <1>3

\* Each field has its own key.
LEMMA KeyFacts ==
    /\ \A f \in Field : KeyOf(f) \in {"project.id", "user.id"}
    /\ \A f, g \in Field : KeyOf(f) = KeyOf(g) => f = g
BY DEF KeyOf, Field

\* An event has the headers that were not empty, under their keys.
LEMMA ExtractedFacts ==
    ASSUME NEW header \in [Field -> Value \cup {Nil}], DOMAIN registry = Field,
           \A f \in Field : registry[f] = KeyOf(f)
    PROVE  LET fields == Extracted(Identity(header))
               given  == {f \in Field : header[f] # Nil}
           IN  /\ DOMAIN fields = {KeyOf(f) : f \in given}
               /\ \A f \in given : fields[KeyOf(f)] = header[f]
               /\ fields \in Events
<1> DEFINE ctx == Identity(header)
           given == {f \in Field : header[f] # Nil}
           found == DOMAIN ctx \cap DOMAIN registry
           fields == Extracted(ctx)
<1>1. DOMAIN ctx = given /\ \A f \in given : ctx[f] = header[f]
  BY IdentityFacts
<1>2. fields = [k \in {registry[f] : f \in found} |->
                  ctx[CHOOSE f \in found : registry[f] = k]]
  BY DEF Extracted
<1>3. found = given /\ {registry[f] : f \in found} = {KeyOf(f) : f \in given}
  BY <1>1
<1> HIDE DEF found, fields
<1>4. ASSUME NEW f \in given
      PROVE  fields[KeyOf(f)] = header[f]
  <2>1. KeyOf(f) \in {registry[g] : g \in found} /\ registry[f] = KeyOf(f)
    BY <1>3
  <2>2. f \in found /\ \A g \in found : registry[g] = KeyOf(f) => g = f
    BY <1>3, <2>1, KeyFacts
  <2>3. (CHOOSE g \in found : registry[g] = KeyOf(f)) = f
    BY <2>1, <2>2
  <2>4. fields[KeyOf(f)] = ctx[CHOOSE g \in found : registry[g] = KeyOf(f)]
    BY <1>2, <2>1
  <2>5. QED
    BY <1>1, <2>3, <2>4
<1>5. DOMAIN fields = {KeyOf(f) : f \in given}
  BY <1>2, <1>3
<1>6. fields \in [DOMAIN fields -> Value]
  <2>1. \A k \in DOMAIN fields : fields[k] \in Value
    BY <1>4, <1>5
  <2>2. fields = [k \in DOMAIN fields |-> fields[k]]
    BY <1>2
  <2>3. QED
    BY <2>1, <2>2
<1>7. DOMAIN fields \in SUBSET {"project.id", "user.id"}
  BY <1>5, KeyFacts
<1>8. fields \in Events
  BY <1>6, <1>7 DEF Events, PartialMap
<1>9. QED
  BY <1>4, <1>5, <1>8 DEF fields

\* The keys of an event in sorted order.
LEMMA SortedFacts ==
    ASSUME NEW fields, DOMAIN fields \subseteq {"project.id", "user.id"}
    PROVE  /\ Sorted(fields) \in {<<>>, <<"project.id">>, <<"user.id">>,
                                  <<"project.id", "user.id">>}
           /\ Sorted(fields) \in Seq({"project.id", "user.id"})
           /\ {Sorted(fields)[i] : i \in DOMAIN Sorted(fields)} = DOMAIN fields
<1> DEFINE p == IF "project.id" \in DOMAIN fields THEN <<"project.id">> ELSE <<>>
           u == IF "user.id" \in DOMAIN fields THEN <<"user.id">> ELSE <<>>
<1>1. Sorted(fields) = p \o u
  BY DEF Sorted
<1>2. CASE "project.id" \in DOMAIN fields /\ "user.id" \in DOMAIN fields
  <2>1. Sorted(fields) = <<"project.id", "user.id">>
    <3>1. /\ p \in Seq({"project.id", "user.id"}) /\ u \in Seq({"project.id", "user.id"})
          /\ Len(p) = 1 /\ p[1] = "project.id" /\ Len(u) = 1 /\ u[1] = "user.id"
      BY <1>2
    <3> DEFINE pu == <<"project.id", "user.id">>
    <3>2. pu \in Seq({"project.id", "user.id"})
          /\ Len(pu) = 2 /\ pu[1] = "project.id" /\ pu[2] = "user.id"
      OBVIOUS
    <3> HIDE DEF p, u, pu
    <3>3. /\ p \o u \in Seq({"project.id", "user.id"})
          /\ Len(p \o u) = 2
          /\ (p \o u)[1] = "project.id" /\ (p \o u)[2] = "user.id"
      BY <3>1, ConcatProperties
    <3>4. p \o u = pu
      <4>1. \A i \in 1..Len(pu) : i = 1 \/ i = 2
        BY <3>2
      <4>2. QED
        BY <3>2, <3>3, <4>1, SeqEqual
    <3>5. QED
      BY <1>1, <3>4 DEF pu
  <2>2. DOMAIN fields = {"project.id", "user.id"}
    BY <1>2
  <2>3. QED
    BY <2>1, <2>2
<1>3. CASE "project.id" \in DOMAIN fields /\ "user.id" \notin DOMAIN fields
  <2>1. Sorted(fields) = <<"project.id">>
    BY <1>1, <1>3
  <2>2. DOMAIN fields = {"project.id"}
    BY <1>3
  <2>3. QED
    BY <2>1, <2>2
<1>4. CASE "project.id" \notin DOMAIN fields /\ "user.id" \in DOMAIN fields
  <2>1. Sorted(fields) = <<"user.id">>
    BY <1>1, <1>4
  <2>2. DOMAIN fields = {"user.id"}
    BY <1>4
  <2>3. QED
    BY <2>1, <2>2
<1>5. CASE "project.id" \notin DOMAIN fields /\ "user.id" \notin DOMAIN fields
  <2>1. Sorted(fields) = <<>>
    BY <1>1, <1>5
  <2>2. DOMAIN fields = {}
    BY <1>5
  <2>3. QED
    BY <2>1, <2>2
<1>6. QED
  BY <1>2, <1>3, <1>4, <1>5

-------------------------------------------------------------------------------
(* The parts of IInv, and what leaves each of them alone.                  *)

OfProcess ==
    /\ prog \in Program
    /\ stage \in 0..(Len(Main) + 1)
    /\ registry \in PartialMap(Field, {"project.id", "user.id"})
    /\ emitter \in {"slog", "zap", Nil}
    /\ waiting \cup open \subseteq {"admin", "app"}
    /\ Setup

OfWorld ==
    /\ current \in Config \cup {Nil} /\ Aimed(current)
    /\ global \in {"initial", "replaced"}
    /\ muted \in BOOLEAN

OfOrder == order \in Orders \cup {Nil} /\ Ready

CallType ==
    /\ pc \in [Client -> PC]
    /\ request \in [Client -> [body : BOOLEAN, header : [Field -> Value \cup {Nil}]]]
    /\ event \in [Client -> Events \cup {Nil}]
    /\ logger \in [Client -> {"own", "initial", "replaced", Nil}]
    /\ line \in [Client -> Lines \cup {Nil}]

SeenType ==
    seen \in [Client -> [on : SUBSET (Config \cup {Nil}),
                         logger : SUBSET {"initial", "replaced"}, muted : BOOLEAN]]

\* IInv is its parts.
LEMMA Parts ==
    IInv <=> /\ OfProcess /\ OfWorld /\ OfOrder /\ CallType /\ SeenType
             /\ \A c \in Client : OfClient(c)
BY DEF IInv, TypeOK, OfProcess, OfWorld, OfOrder, CallType, SeenType

\* The same of the next state.
LEMMA PartsNext ==
    IInv' <=> /\ OfProcess' /\ OfWorld' /\ OfOrder' /\ CallType' /\ SeenType'
              /\ \A c \in Client : OfClient(c)'
BY DEF IInv, TypeOK, OfProcess, OfWorld, OfOrder, CallType, SeenType

\* What is set up stays so while the process does not move.
LEMMA SameProcess ==
    ASSUME OfProcess, UNCHANGED <<prog, process>>
    PROVE  OfProcess'
BY DEF OfProcess, Setup, Passed, Main, process

\* What is in force stays well aimed while nobody moves it.
LEMMA SameWorld ==
    ASSUME OfWorld, UNCHANGED world
    PROVE  OfWorld'
BY DEF OfWorld, Aimed, world

\* The last request to enable stays as it was.
LEMMA SameOrder ==
    ASSUME OfOrder, UNCHANGED order
    PROVE  OfOrder'
BY DEF OfOrder, Ready

\* The types of calls that nothing changes stay.
LEMMA SameCallType ==
    ASSUME CallType, UNCHANGED calls
    PROVE  CallType'
BY DEF CallType, calls

\* The types of the history that nothing changes stay.
LEMMA SameSeenType ==
    ASSUME SeenType, UNCHANGED seen
    PROVE  SeenType'
BY DEF SeenType

\* What c has in its hands is as it was.
SameCall(c) ==
    /\ pc'[c] = pc[c] /\ request'[c] = request[c] /\ event'[c] = event[c]
    /\ logger'[c] = logger[c] /\ line'[c] = line[c]

\* A step of others, which closes nothing and leaves the world alone.
LEMMA SameClient ==
    ASSUME NEW c \in Client, OfClient(c), SameCall(c), seen'[c] = seen[c],
           prog' = prog, UNCHANGED world, open \subseteq open'
    PROVE  OfClient(c)'
<1>1. Watching(c)'
  BY DEF OfClient, Watching, InProgress, SameCall, world
<1>2. /\ Wanted(c)' = Wanted(c) /\ Excused(c)' = Excused(c)
      /\ Allowed(c)' = Allowed(c) /\ GivenBy(c)' = GivenBy(c)
  BY DEF Wanted, Excused, Allowed, GivenBy, Asked, SameCall
<1>3. Call(c)'
  BY <1>2 DEF OfClient, Call, OwnFields, Aimed, SameCall
<1>4. TrueFor(c)'
  BY <1>2 DEF OfClient, TrueFor, OwnFields, SameCall
<1>5. QED
  BY <1>1, <1>3, <1>4 DEF OfClient

\* A step that changes the world, and is watched.
LEMMA Watched ==
    ASSUME NEW c \in Client, OfClient(c), UNCHANGED <<prog, open, calls>>,
           SeenType, Watch, Aimed(current')
    PROVE  OfClient(c)'
<1>1. CASE ~InProgress(c)
  <2>1. seen'[c] = seen[c]
    BY <1>1 DEF Watch
  <2>2. Watching(c)'
    BY <1>1 DEF Watching, InProgress, calls
  <2>3. /\ Wanted(c)' = Wanted(c) /\ Excused(c)' = Excused(c)
        /\ Allowed(c)' = Allowed(c) /\ GivenBy(c)' = GivenBy(c)
    BY <2>1 DEF Wanted, Excused, Allowed, GivenBy, Asked, calls
  <2>4. Call(c)' /\ TrueFor(c)'
    BY <2>1, <2>3 DEF OfClient, Call, TrueFor, OwnFields, Aimed, calls
  <2>5. QED
    BY <2>2, <2>4 DEF OfClient
<1>2. CASE InProgress(c)
  <2>1. /\ seen'[c].on = seen[c].on \cup {current'}
        /\ seen'[c].logger = seen[c].logger \cup {global'}
        /\ seen'[c].muted = (seen[c].muted \/ muted')
    BY <1>2 DEF Watch
  <2>2. Watching(c)'
    BY <1>2, <2>1 DEF OfClient, Watching, InProgress, calls
  <2>3. /\ Wanted(c) => Wanted(c)'
        /\ Excused(c) => Excused(c)'
        /\ Allowed(c) \subseteq Allowed(c)' /\ GivenBy(c)' = GivenBy(c)
    BY <2>1 DEF Wanted, Excused, Allowed, GivenBy, Asked, calls
  <2>4. Call(c)' /\ TrueFor(c)'
    BY <2>1, <2>3 DEF OfClient, Call, TrueFor, OwnFields, Aimed, calls
  <2>5. QED
    BY <2>2, <2>4 DEF OfClient
<1>3. QED
  BY <1>1, <1>2

-------------------------------------------------------------------------------
(* The process.                                                            *)

\* A step of main is passed when it has been made, and no other is.
LEMMA PassedAfter ==
    ASSUME OfProcess, NEW s, At(s)
    PROVE  /\ stage' \in 0..(Len(Main') + 1)
           /\ \A t : Passed(t)' <=> Passed(t) \/ t = s
           /\ UNCHANGED <<prog, open, world, calls, seen, order>>
<1>1. /\ stage \in 1..Len(Main) /\ Main[stage] = s /\ stage' = stage + 1
      /\ UNCHANGED <<prog, open, world, calls, seen, order>>
  BY DEF At
<1>2. Main' = Main /\ Len(Main) \in Nat
  BY <1>1, MainFacts DEF Main, OfProcess
<1>3. stage' \in 0..(Len(Main') + 1)
  BY <1>1, <1>2
<1>4. \A i \in 1..Len(Main) : i < stage' <=> i < stage \/ i = stage
  BY <1>1, <1>2
<1>5. \A t : Passed(t)' <=> Passed(t) \/ t = s
  BY <1>1, <1>2, <1>4 DEF Passed
<1>6. QED
  BY <1>1, <1>3, <1>5

\* A step of main, or of its listeners, is seen by nobody else.
LEMMA MainStep ==
    ASSUME IInv, UNCHANGED <<prog, world, calls, seen, order>>,
           open \subseteq open', OfProcess'
    PROVE  IInv'
<1>1. \A c \in Client : OfClient(c)'
  BY Parts, SameClient DEF SameCall, calls
<1>2. QED
  BY <1>1, Parts, PartsNext, SameWorld, SameOrder, SameCallType, SameSeenType

\* A process that starts has passed no step of main.
LEMMA LaunchStep ==
    ASSUME IInv, Launch
    PROVE  IInv'
<1>1. /\ stage = 0 /\ stage' = 1
      /\ UNCHANGED <<prog, registry, emitter, waiting, open, world, calls, seen, order>>
  BY DEF Launch
<1>2. OfProcess
  BY Parts
<1>3. Main' = Main /\ Len(Main) \in Nat
  BY <1>1, <1>2, MainFacts DEF Main, OfProcess
<1>4. \A t : ~Passed(t) /\ ~Passed(t)'
  BY <1>1, <1>3 DEF Passed
<1>5. OfProcess'
  BY <1>1, <1>2, <1>3, <1>4 DEF OfProcess, Setup
<1>6. QED
  BY <1>1, <1>5, MainStep

\* Registering a field of main gives it the key of its field.
LEMMA RegisterStep ==
    ASSUME IInv, NEW f \in Field, Register(f)
    PROVE  IInv'
<1>1. OfProcess
  BY Parts
<1>2. /\ At(f) /\ UNCHANGED <<emitter, waiting>>
      /\ registry' = [g \in DOMAIN registry \cup {f} |-> KeyOf(g)]
  BY DEF Register
<1>3. /\ stage' \in 0..(Len(Main') + 1)
      /\ \A t : Passed(t)' <=> Passed(t) \/ t = f
      /\ UNCHANGED <<prog, open, world, calls, seen, order>>
  BY <1>1, <1>2, PassedAfter
<1>4. registry' \in PartialMap(Field, {"project.id", "user.id"})
  <2>1. DOMAIN registry \subseteq Field
    BY <1>1 DEF OfProcess, PartialMap
  <2>2. DOMAIN registry \cup {f} \in SUBSET Field
    BY <2>1
  <2>3. registry' \in [DOMAIN registry \cup {f} -> {"project.id", "user.id"}]
    BY <1>2, <2>2, KeyFacts
  <2>4. QED
    BY <2>2, <2>3 DEF PartialMap
<1>5. Setup'
  <2>1. f # "emitter"
    BY DEF Field
  <2>2. QED
    BY <1>1, <1>2, <1>3, <2>1 DEF OfProcess, Setup
<1>6. OfProcess'
  BY <1>1, <1>2, <1>3, <1>4, <1>5 DEF OfProcess
<1>7. QED
  BY <1>3, <1>6, MainStep

\* What only main sees leaves what the requests rest on.
LEMMA PrepareStep ==
    ASSUME IInv, Prepare
    PROVE  IInv'
<1>1. OfProcess
  BY Parts
<1>2. PICK s \in {"logger", "exporter", "trace"} :
        At(s) /\ UNCHANGED <<registry, emitter, waiting>>
  BY DEF Prepare
<1>3. /\ stage' \in 0..(Len(Main') + 1)
      /\ \A t : Passed(t)' <=> Passed(t) \/ t = s
      /\ UNCHANGED <<prog, open, world, calls, seen, order>>
  BY <1>1, <1>2, PassedAfter
<1>4. Setup'
  <2>1. s # "emitter" /\ s \notin Field
    BY DEF Field
  <2>2. QED
    BY <1>1, <1>2, <1>3, <2>1 DEF OfProcess, Setup
<1>5. OfProcess'
  BY <1>1, <1>2, <1>3, <1>4 DEF OfProcess
<1>6. QED
  BY <1>3, <1>5, MainStep

\* Installing an emitter is the step after which there is one.
LEMMA SetEmitterStep ==
    ASSUME IInv, SetSlog \/ SetZap
    PROVE  IInv'
<1>1. OfProcess
  BY Parts
<1>2. /\ At("emitter") /\ UNCHANGED <<registry, waiting>>
      /\ emitter' \in {"slog", "zap"}
  BY DEF SetSlog, SetZap
<1>3. /\ stage' \in 0..(Len(Main') + 1)
      /\ \A t : Passed(t)' <=> Passed(t) \/ t = "emitter"
      /\ UNCHANGED <<prog, open, world, calls, seen, order>>
  BY <1>1, <1>2, PassedAfter
<1>4. Setup'
  <2>1. "emitter" \notin Field /\ emitter' # Nil
    BY <1>2, NilAssumption DEF Field
  <2>2. QED
    BY <1>1, <1>2, <1>3, <2>1 DEF OfProcess, Setup
<1>5. OfProcess'
  BY <1>1, <1>2, <1>3, <1>4 DEF OfProcess
<1>6. QED
  BY <1>3, <1>5, MainStep

\* A listener that is asked for has its step of main passed.
LEMMA ListenStep ==
    ASSUME IInv, NEW l \in {"admin", "app"}, Listen(l)
    PROVE  IInv'
<1>1. OfProcess
  BY Parts
<1>2. /\ At(l) /\ UNCHANGED <<registry, emitter>>
      /\ waiting' = waiting \cup {l}
  BY DEF Listen
<1>3. /\ stage' \in 0..(Len(Main') + 1)
      /\ \A t : Passed(t)' <=> Passed(t) \/ t = l
      /\ UNCHANGED <<prog, open, world, calls, seen, order>>
  BY <1>1, <1>2, PassedAfter
<1>4. Setup'
  <2>1. l # "emitter" /\ l \notin Field
    BY DEF Field
  <2>2. QED
    BY <1>1, <1>2, <1>3, <2>1 DEF OfProcess, Setup
<1>5. OfProcess'
  BY <1>1, <1>2, <1>3, <1>4 DEF OfProcess
<1>6. QED
  BY <1>3, <1>5, MainStep

\* A listener accepts after main has asked for it.
LEMMA BindStep ==
    ASSUME IInv, NEW l, Bind(l)
    PROVE  IInv'
<1>1. OfProcess
  BY Parts
<1>2. /\ l \in waiting /\ waiting' = waiting \ {l} /\ open' = open \cup {l}
      /\ UNCHANGED <<prog, stage, registry, emitter, world, calls, seen, order>>
  BY DEF Bind
<1>3. \A t : Passed(t)' <=> Passed(t)
  BY <1>2 DEF Passed, Main
<1>4. OfProcess'
  <2>1. waiting' \cup open' = waiting \cup open
    BY <1>2
  <2>2. Main' = Main
    BY <1>2 DEF Main
  <2>3. QED
    BY <1>1, <1>2, <1>3, <2>1, <2>2 DEF OfProcess, Setup
<1>5. QED
  BY <1>2, <1>4, MainStep

\* Nothing of the process is left, and its requests are lost.
LEMMA ExitStep ==
    ASSUME IInv, Exit
    PROVE  IInv'
<1>1. /\ OfProcess /\ CallType /\ SeenType
      /\ \A c \in Client : OfClient(c)
  BY Parts
<1>2. OfProcess'
  <2>1. Main' = Main /\ Len(Main) \in Nat
    BY <1>1, MainFacts DEF Exit, Main, OfProcess
  <2>2. \A t : ~Passed(t)'
    BY <2>1 DEF Exit, Passed
  <2>3. registry' \in [{} -> {"project.id", "user.id"}] /\ {} \in SUBSET Field
    BY DEF Exit
  <2>4. registry' \in PartialMap(Field, {"project.id", "user.id"})
    BY <2>3 DEF PartialMap
  <2>5. Setup'
    BY <2>2 DEF Exit, Setup
  <2>6. QED
    BY <1>1, <2>1, <2>4, <2>5 DEF Exit, OfProcess
<1>3. OfWorld' /\ OfOrder'
  BY DEF Exit, OfWorld, Aimed, OfOrder, Ready
<1>4. CallType' /\ SeenType'
  BY <1>1 DEF Exit, CallType, SeenType, PC
<1>5. ASSUME NEW c \in Client
      PROVE  OfClient(c)'
  <2>1. /\ pc'[c] = IF InProgress(c) THEN "lost" ELSE pc[c]
        /\ UNCHANGED <<prog, request, event, logger, line, seen>>
    BY DEF Exit
  <2>2. Watching(c)'
    BY <2>1 DEF Watching, InProgress
  <2>3. /\ Wanted(c)' = Wanted(c) /\ Excused(c)' = Excused(c)
        /\ Allowed(c)' = Allowed(c) /\ GivenBy(c)' = GivenBy(c)
    BY <2>1 DEF Wanted, Excused, Allowed, GivenBy, Asked
  <2>4. Call(c)' /\ TrueFor(c)'
    BY <1>1, <2>1, <2>3
    DEF OfClient, Call, TrueFor, OwnFields, Aimed, InProgress
  <2>5. QED
    BY <2>2, <2>4 DEF OfClient
<1>6. QED
  BY <1>2, <1>3, <1>4, <1>5, PartsNext

-------------------------------------------------------------------------------
(* Operators, and the service itself.                                      *)

\* What calls in progress have seen keeps its type when the world moves.
LEMMA WatchType ==
    ASSUME SeenType, OfWorld', Watch
    PROVE  SeenType'
<1>1. ASSUME NEW c \in Client
      PROVE  seen'[c] \in [on : SUBSET (Config \cup {Nil}),
                           logger : SUBSET {"initial", "replaced"}, muted : BOOLEAN]
  <2>1. seen[c] \in [on : SUBSET (Config \cup {Nil}),
                     logger : SUBSET {"initial", "replaced"}, muted : BOOLEAN]
    BY DEF SeenType
  <2>2. current' \in Config \cup {Nil} /\ global' \in {"initial", "replaced"}
        /\ muted' \in BOOLEAN
    BY DEF OfWorld
  <2>3. (seen[c].muted \/ muted') \in BOOLEAN
    OBVIOUS
  <2>4. seen'[c] = IF ~InProgress(c) THEN seen[c]
                   ELSE [on     |-> seen[c].on \cup {current'},
                         logger |-> seen[c].logger \cup {global'},
                         muted  |-> seen[c].muted \/ muted']
    BY DEF Watch
  <2>5. QED
    BY <2>1, <2>2, <2>3, <2>4
<1>2. seen' = [c \in Client |-> seen'[c]]
  BY DEF Watch
<1>3. QED
  BY <1>1, <1>2 DEF SeenType

\* A step that changes the world is watched by everybody.
LEMMA WorldStep ==
    ASSUME IInv, UNCHANGED <<prog, process, calls>>, Watch, OfWorld', OfOrder'
    PROVE  IInv'
<1>1. \A c \in Client : OfClient(c)'
  BY Parts, Watched DEF OfWorld, process
<1>2. SeenType'
  BY Parts, WatchType
<1>3. QED
  BY <1>1, <1>2, Parts, PartsNext, SameProcess, SameCallType

\* Enable is reached on a listener, so with every field registered: it refuses
\* no field of main, and what it puts in force asks for those only.
LEMMA EnableStep ==
    ASSUME IInv, NEW l \in {"admin", "app"}, NEW m \in {"GET", "POST"}, NEW p,
           NEW cfg \in Config, Enable(l, m, p, cfg)
    PROVE  IInv'
<1>1. OfProcess /\ OfWorld
  BY Parts
<1>2. DOMAIN registry = Field
  BY SetUp DEF IInv, Enable
<1>3. OfWorld'
  <2>1. Accepts(cfg, DOMAIN registry) => Aimed(cfg)
    BY <1>2 DEF Accepts, Known, Aimed
  <2>2. current' = cfg \/ current' = current
    BY DEF Enable
  <2>3. Aimed(current')
    BY <1>1, <2>1 DEF Enable, OfWorld
  <2>4. QED
    BY <1>1, <2>2, <2>3 DEF Enable, OfWorld, Aimed
<1>4. OfOrder'
  <2>1. order' = [listener |-> l, method |-> m, cfg |-> cfg,
                  unregistered |-> ~Known(cfg, DOMAIN registry)]
    BY DEF Enable
  <2>2. order' \in Orders
    BY <2>1 DEF Orders, Known
  <2>3. Ready'
    BY <1>2, <2>1 DEF Ready, Known
  <2>4. QED
    BY <2>2, <2>3 DEF OfOrder
<1>5. QED
  BY <1>3, <1>4, WorldStep DEF Enable

\* Turning off, expiry, and the service's own settings of its loggers leave
\* the calls as they are, and every call in progress sees them.
LEMMA WorldSteps ==
    ASSUME IInv,
           \/ \E l, m, p : Disable(l, m, p)
           \/ Expire
           \/ Configure
    PROVE  IInv'
<1>1. OfWorld /\ OfOrder
  BY Parts
<1>2. /\ UNCHANGED <<prog, process, calls, order>> /\ Watch
      /\ current' \in {current, Nil}
      /\ global' \in {global, "replaced"} /\ muted' \in BOOLEAN
  BY <1>1 DEF Disable, Expire, Configure, OfWorld
<1>3. OfWorld'
  BY <1>1, <1>2 DEF OfWorld, Aimed
<1>4. QED
  BY <1>1, <1>2, <1>3, WorldStep, SameOrder

-------------------------------------------------------------------------------
(* Requests to the app.                                                    *)

\* A step of the call of c is seen by c alone.
LEMMA OneCall ==
    ASSUME IInv, NEW c \in Client, UNCHANGED <<prog, process, world, order>>,
           CallType', SeenType', OfClient(c)',
           \A d \in Client \ {c} : SameCall(d) /\ seen'[d] = seen[d]
    PROVE  IInv'
<1>1. \A d \in Client : OfClient(d)'
  <2> SUFFICES ASSUME NEW d \in Client PROVE OfClient(d)'
    OBVIOUS
  <2>1. CASE d = c
    BY <2>1
  <2>2. CASE d # c
    BY <2>2, Parts, SameClient DEF process
  <2>3. QED
    BY <2>1, <2>2
<1>2. QED
  BY <1>1, Parts, PartsNext, SameProcess, SameWorld, SameOrder

\* c goes on: what it has seen stays, and so does what it was sent with.
LEMMA GoesOn ==
    ASSUME NEW c \in Client, OfClient(c), InProgress(c),
           UNCHANGED <<prog, process, world, request, seen>>
    PROVE  /\ Watching(c)'
           /\ Wanted(c)' = Wanted(c) /\ Excused(c)' = Excused(c)
           /\ Allowed(c)' = Allowed(c) /\ GivenBy(c)' = GivenBy(c)
           /\ \A a \in seen'[c].on : Aimed(a)'
<1>1. Watching(c)'
  BY DEF OfClient, Watching, process, world
<1>2. /\ Wanted(c)' = Wanted(c) /\ Excused(c)' = Excused(c)
      /\ Allowed(c)' = Allowed(c) /\ GivenBy(c)' = GivenBy(c)
  BY DEF Wanted, Excused, Allowed, GivenBy, Asked
<1>3. \A a \in seen'[c].on : Aimed(a)'
  BY DEF OfClient, Call, Aimed
<1>4. QED
  BY <1>1, <1>2, <1>3

\* A request arrives at an open listener, and sees what is in place.
LEMMA ArriveStep ==
    ASSUME IInv, NEW c \in Client, NEW m, NEW p, NEW body \in BOOLEAN,
           NEW header \in Header, Arrive(c, m, p, body, header)
    PROVE  IInv'
<1>1. OfWorld /\ CallType /\ SeenType
  BY Parts
<1>2. /\ "app" \in open
      /\ pc' = [pc EXCEPT ![c] =
                IF Serves("app", m, p) = "none" THEN "notFound"
                ELSE IF body THEN "on" ELSE "badRequest"]
      /\ request' = [request EXCEPT ![c] = [body |-> body, header |-> header]]
      /\ event' = [event EXCEPT ![c] = Nil]
      /\ logger' = [logger EXCEPT ![c] = Nil]
      /\ line' = [line EXCEPT ![c] = Nil]
      /\ seen' = [seen EXCEPT ![c] =
                  [on |-> {current}, logger |-> {global}, muted |-> muted]]
      /\ UNCHANGED <<prog, process, world, order>>
  BY DEF Arrive
<1>3. \A d \in Client \ {c} : SameCall(d) /\ seen'[d] = seen[d]
  BY <1>1, <1>2 DEF SameCall, CallType, SeenType
<1>4. header \in [Field -> Value \cup {Nil}]
  BY HeaderAssumption
<1>5. CallType'
  <2>1. pc' \in [Client -> PC]
    BY <1>1, <1>2 DEF CallType, PC
  <2>2. [body |-> body, header |-> header]
          \in [body : BOOLEAN, header : [Field -> Value \cup {Nil}]]
    BY <1>4
  <2>3. request' \in [Client -> [body : BOOLEAN, header : [Field -> Value \cup {Nil}]]]
    BY <1>1, <1>2, <2>2 DEF CallType
  <2>4. /\ event' \in [Client -> Events \cup {Nil}]
        /\ logger' \in [Client -> {"own", "initial", "replaced", Nil}]
        /\ line' \in [Client -> Lines \cup {Nil}]
    BY <1>1, <1>2 DEF CallType
  <2>5. QED
    BY <2>1, <2>3, <2>4 DEF CallType
<1>6. SeenType'
  <2>1. [on |-> {current}, logger |-> {global}, muted |-> muted]
          \in [on : SUBSET (Config \cup {Nil}),
               logger : SUBSET {"initial", "replaced"}, muted : BOOLEAN]
    BY <1>1 DEF OfWorld
  <2>2. QED
    BY <1>1, <1>2, <2>1 DEF SeenType
<1>7. OfClient(c)'
  <2>1. /\ line'[c] = Nil
        /\ pc'[c] \in {"notFound", "on", "badRequest"}
        /\ pc'[c] = "on" => body
        /\ request'[c].body = body
        /\ seen'[c].on = {current} /\ seen'[c].logger = {global}
        /\ seen'[c].muted = muted
    BY <1>1, <1>2 DEF CallType, SeenType
  <2>2. Watching(c)'
    BY <1>2, <2>1 DEF Watching, InProgress, process, world
  <2>3. Call(c)'
    BY <1>1, <1>2, <2>1 DEF Call, OfWorld, Aimed, world
  <2>4. TrueFor(c)'
    BY <2>1 DEF TrueFor
  <2>5. QED
    BY <2>2, <2>3, <2>4 DEF OfClient
<1>8. QED
  BY <1>2, <1>3, <1>5, <1>6, <1>7, OneCall

\* The gate lets a call through, or ends it because the switch was off.
LEMMA OnStep ==
    ASSUME IInv, NEW c \in Client, On(c)
    PROVE  IInv'
<1>1. CallType /\ SeenType /\ OfClient(c)
  BY Parts
<1>2. /\ pc[c] = "on"
      /\ pc' = [pc EXCEPT ![c] = IF current = Nil THEN "body" ELSE "match"]
      /\ UNCHANGED <<prog, process, world, request, event, logger, line, seen, order>>
  BY DEF On
<1>3. \A d \in Client \ {c} : SameCall(d) /\ seen'[d] = seen[d]
  BY <1>1, <1>2 DEF SameCall, CallType
<1>4. CallType' /\ SeenType'
  BY <1>1, <1>2 DEF CallType, SeenType, PC
<1>5. InProgress(c)
  BY <1>2 DEF InProgress
<1>6. /\ Watching(c)'
      /\ Excused(c)' = Excused(c)
      /\ \A a \in seen'[c].on : Aimed(a)'
  BY <1>1, <1>2, <1>5, GoesOn
<1>7. pc'[c] = IF current = Nil THEN "body" ELSE "match"
  BY <1>1, <1>2 DEF CallType
<1>8. line[c] = Nil
  BY <1>1, <1>2 DEF OfClient, Call
<1>9. current = Nil => Excused(c)
  BY <1>1, <1>5 DEF OfClient, Watching, Excused, Asked
<1>10. Call(c)' /\ TrueFor(c)'
  BY <1>2, <1>6, <1>7, <1>8, <1>9 DEF Call, TrueFor
<1>11. QED
  BY <1>2, <1>3, <1>4, <1>6, <1>10, OneCall DEF OfClient

\* What is emitted was asked for; what is not, was not asked for.
LEMMA MatchStep ==
    ASSUME IInv, NEW c \in Client, Match(c)
    PROVE  IInv'
<1> DEFINE header == request[c].header
           ctx == Identity(header)
           out == Matches(current, ctx) /\ emitter # Nil
<1>1. CallType /\ SeenType /\ OfClient(c) /\ OfWorld /\ TypeOK /\ Setup
  BY Parts DEF IInv
<1>2. /\ pc[c] = "match"
      /\ pc' = [pc EXCEPT ![c] = IF out THEN "emit" ELSE "body"]
      /\ event' = [event EXCEPT ![c] = IF out THEN Extracted(ctx) ELSE Nil]
      /\ UNCHANGED <<prog, process, world, request, logger, line, seen, order>>
  BY DEF Match
<1>3. InProgress(c)
  BY <1>2 DEF InProgress
<1>4. "app" \in open /\ current \in seen[c].on
  BY <1>1, <1>3 DEF OfClient, Watching
<1>5. /\ DOMAIN registry = Field /\ emitter # Nil
      /\ \A f \in Field : registry[f] = KeyOf(f)
  BY <1>1, <1>4, SetUp
<1>6. header \in [Field -> Value \cup {Nil}]
  BY <1>1 DEF CallType
<1>7. out <=> Asked(current, header)
  BY <1>1, <1>5, <1>6, MatchesFacts DEF OfWorld
<1>8. /\ Extracted(ctx) \in Events
      /\ OwnFields(c, Extracted(ctx))
  BY <1>5, <1>6, ExtractedFacts DEF OwnFields, GivenBy
<1>9. \A d \in Client \ {c} : SameCall(d) /\ seen'[d] = seen[d]
  BY <1>1, <1>2 DEF SameCall, CallType
<1>10. CallType' /\ SeenType'
  <2>1. pc' \in [Client -> PC]
    BY <1>1, <1>2 DEF CallType, PC
  <2>2. event' \in [Client -> Events \cup {Nil}]
    BY <1>1, <1>2, <1>8 DEF CallType
  <2>3. QED
    BY <1>1, <1>2, <2>1, <2>2 DEF CallType, SeenType
<1>11. /\ Watching(c)'
       /\ Wanted(c)' = Wanted(c) /\ Excused(c)' = Excused(c)
       /\ GivenBy(c)' = GivenBy(c)
       /\ \A a \in seen'[c].on : Aimed(a)'
  BY <1>1, <1>2, <1>3, GoesOn
<1>12. /\ pc'[c] = IF out THEN "emit" ELSE "body"
       /\ event'[c] = IF out THEN Extracted(ctx) ELSE Nil
  BY <1>1, <1>2 DEF CallType
<1>13. line'[c] = Nil
  BY <1>1, <1>2 DEF OfClient, Call
<1>14. out => Wanted(c)
  BY <1>4, <1>7 DEF Wanted
<1>15. ~out => Excused(c)
  BY <1>4, <1>7 DEF Excused
<1>16. Call(c)'
  <2>1. CASE out
    <3>1. pc'[c] = "emit" /\ event'[c] = Extracted(ctx)
      BY <1>12, <2>1
    <3>2. OwnFields(c, event[c])'
      BY <1>2, <1>8, <1>11, <3>1 DEF OwnFields
    <3>3. QED
      BY <1>8, <1>11, <1>13, <1>14, <2>1, <3>1, <3>2 DEF Call
  <2>2. CASE ~out
    BY <1>11, <1>12, <1>13, <1>15, <2>2 DEF Call
  <2>3. QED
    BY <2>1, <2>2
<1>17. TrueFor(c)'
  BY <1>13 DEF TrueFor
<1>18. QED
  BY <1>2, <1>9, <1>10, <1>11, <1>16, <1>17, OneCall DEF OfClient

\* The backend takes a logger that is the program's, or global right now.
LEMMA EmitStep ==
    ASSUME IInv, NEW c \in Client, EmitSlog(c) \/ EmitZap(c)
    PROVE  IInv'
<1> DEFINE chosen == IF prog.logger = "own" THEN "own" ELSE global
<1>1. CallType /\ SeenType /\ OfClient(c) /\ OfWorld /\ OfProcess
  BY Parts
<1>2. /\ pc[c] = "emit"
      /\ logger' = [logger EXCEPT ![c] = chosen]
      /\ UNCHANGED <<prog, process, world, request, event, line, seen, order>>
  BY DEF EmitSlog, EmitZap, SlogLogger, ZapLogger
<1>3. \E after \in {"write", "body"} :
        /\ pc' = [pc EXCEPT ![c] = after]
        /\ after = "body" => ~Enabled(chosen)
  BY DEF EmitSlog, EmitZap, ZapLogger
<1>4. PICK after \in {"write", "body"} :
        /\ pc' = [pc EXCEPT ![c] = after]
        /\ after = "body" => ~Enabled(chosen)
  BY <1>3
<1>5. InProgress(c)
  BY <1>2 DEF InProgress
<1>6. global \in seen[c].logger /\ (muted => seen[c].muted)
  BY <1>1, <1>5 DEF OfClient, Watching
<1>7. chosen \in Allowed(c) /\ chosen \in {"own", "initial", "replaced"}
  BY <1>1, <1>6 DEF Allowed, OfWorld
<1>8. ~Enabled(chosen) => Excused(c)
  <2>1. prog.logger \in {"own", "global"}
    BY <1>1, ProgramAssumption DEF OfProcess
  <2>2. QED
    BY <1>6, <2>1 DEF Enabled, Excused
<1>9. \A d \in Client \ {c} : SameCall(d) /\ seen'[d] = seen[d]
  BY <1>1, <1>2, <1>4 DEF SameCall, CallType
<1>10. CallType' /\ SeenType'
  <2>1. pc' \in [Client -> PC]
    BY <1>1, <1>4 DEF CallType, PC
  <2>2. logger' \in [Client -> {"own", "initial", "replaced", Nil}]
    BY <1>1, <1>2, <1>7 DEF CallType
  <2>3. QED
    BY <1>1, <1>2, <2>1, <2>2 DEF CallType, SeenType
<1>11. /\ Watching(c)'
       /\ Wanted(c)' = Wanted(c) /\ Excused(c)' = Excused(c)
       /\ Allowed(c)' = Allowed(c) /\ GivenBy(c)' = GivenBy(c)
       /\ \A a \in seen'[c].on : Aimed(a)'
  BY <1>1, <1>2, <1>5, GoesOn
<1>12. pc'[c] = after /\ logger'[c] = chosen
  BY <1>1, <1>2, <1>4 DEF CallType
<1>13. line'[c] = Nil
  BY <1>1, <1>2 DEF OfClient, Call
<1>14. Call(c)'
  <2>1. logger'[c] \in Allowed(c)'
    BY <1>7, <1>11, <1>12
  <2>2. pc'[c] = "body" => Excused(c)'
    <3> SUFFICES ASSUME pc'[c] = "body" PROVE Excused(c)'
      OBVIOUS
    <3>1. ~Enabled(chosen)
      BY <1>4, <1>12
    <3>2. Excused(c)
      BY <1>8, <3>1
    <3>3. QED
      BY <1>11, <3>2
  <2>3. pc'[c] \in {"write", "body"}
    BY <1>12
  <2>4. event'[c] \in Events /\ Wanted(c)'
    BY <1>1, <1>2, <1>11 DEF OfClient, Call
  <2>5. OwnFields(c, event[c])'
    BY <1>1, <1>2, <1>11 DEF OfClient, Call, OwnFields
  <2>6. QED
    BY <1>11, <1>13, <2>1, <2>2, <2>3, <2>4, <2>5 DEF Call
<1>15. TrueFor(c)'
  BY <1>13 DEF TrueFor
<1>16. QED
  BY <1>2, <1>9, <1>10, <1>11, <1>14, <1>15, OneCall DEF OfClient

\* A line that is written is the event of its call, in the logger it chose;
\* one that is not has been muted, or had no logger.
LEMMA WriteStep ==
    ASSUME IInv, NEW c \in Client, Write(c)
    PROVE  IInv'
<1> DEFINE written == [fields |-> event[c], keys |-> Sorted(event[c]),
                       logger |-> logger[c]]
<1>1. CallType /\ SeenType /\ OfClient(c) /\ OfProcess
  BY Parts
<1>2. /\ pc[c] = "write"
      /\ line' = [line EXCEPT ![c] = IF Enabled(logger[c]) THEN written ELSE Nil]
      /\ pc' = [pc EXCEPT ![c] = "body"]
      /\ UNCHANGED <<prog, process, world, request, event, logger, seen, order>>
  BY DEF Write
<1>3. InProgress(c)
  BY <1>2 DEF InProgress
<1>4. /\ global \in seen[c].logger /\ (muted => seen[c].muted)
      /\ request[c].body
  BY <1>1, <1>3 DEF OfClient, Watching
<1>5. /\ event[c] \in Events /\ Wanted(c) /\ OwnFields(c, event[c])
      /\ logger[c] \in Allowed(c)
  BY <1>1, <1>2 DEF OfClient, Call
<1>6. DOMAIN event[c] \subseteq {"project.id", "user.id"}
  BY <1>5 DEF Events, PartialMap
<1>7. logger[c] \in {"own", "initial", "replaced"}
  BY <1>1, <1>5 DEF Allowed, SeenType
<1>8. /\ written.fields = event[c] /\ written.keys = Sorted(event[c])
      /\ written.logger = logger[c]
  OBVIOUS
<1>9. written \in Lines
  BY <1>5, <1>6, <1>7, SortedFacts DEF Lines
<1> HIDE DEF written
<1>10. ~Enabled(logger[c]) => Excused(c)
  <2>1. prog.logger \in {"own", "global"}
    BY <1>1, ProgramAssumption DEF OfProcess
  <2>2. QED
    BY <1>4, <1>5, <2>1 DEF Enabled, Excused, Allowed
<1>11. \A d \in Client \ {c} : SameCall(d) /\ seen'[d] = seen[d]
  BY <1>1, <1>2 DEF SameCall, CallType
<1>12. CallType' /\ SeenType'
  <2>1. pc' \in [Client -> PC]
    BY <1>1, <1>2 DEF CallType, PC
  <2>2. line' \in [Client -> Lines \cup {Nil}]
    BY <1>1, <1>2, <1>9 DEF CallType
  <2>3. QED
    BY <1>1, <1>2, <2>1, <2>2 DEF CallType, SeenType
<1>13. /\ Watching(c)'
       /\ Wanted(c)' = Wanted(c) /\ Excused(c)' = Excused(c)
       /\ Allowed(c)' = Allowed(c) /\ GivenBy(c)' = GivenBy(c)
       /\ \A a \in seen'[c].on : Aimed(a)'
  BY <1>1, <1>2, <1>3, GoesOn
<1>14. pc'[c] = "body" /\ line'[c] = IF Enabled(logger[c]) THEN written ELSE Nil
  BY <1>1, <1>2 DEF CallType
<1>15. Call(c)'
  <2>1. line'[c] = Nil => ~Enabled(logger[c])
    BY <1>9, <1>14, NilAssumption
  <2>2. QED
    BY <1>10, <1>13, <1>14, <2>1 DEF Call
<1>16. TrueFor(c)'
  <2> SUFFICES ASSUME line'[c] # Nil PROVE TrueFor(c)'
    BY DEF TrueFor
  <2>1. line'[c] = written
    BY <1>14
  <2>2. OwnFields(c, event[c])'
    BY <1>2, <1>5, <1>13 DEF OwnFields
  <2>3. OwnFields(c, line[c].fields)'
    BY <1>2, <1>8, <2>1, <2>2 DEF OwnFields
  <2>4. /\ line'[c].keys \in {<<>>, <<"project.id">>, <<"user.id">>,
                              <<"project.id", "user.id">>}
        /\ {line'[c].keys[i] : i \in DOMAIN line'[c].keys} = DOMAIN line'[c].fields
    <3> DEFINE Elements(keys) == {keys[i] : i \in DOMAIN keys}
    <3>1. /\ Sorted(event[c]) \in {<<>>, <<"project.id">>, <<"user.id">>,
                                   <<"project.id", "user.id">>}
          /\ Elements(Sorted(event[c])) = DOMAIN event[c]
      BY <1>6, SortedFacts
    <3> HIDE DEF Elements
    <3>2. /\ line'[c].keys \in {<<>>, <<"project.id">>, <<"user.id">>,
                                <<"project.id", "user.id">>}
          /\ Elements(line'[c].keys) = DOMAIN line'[c].fields
      BY <1>8, <2>1, <3>1
    <3>3. QED
      BY <3>2 DEF Elements
  <2>5. QED
    BY <1>2, <1>4, <1>5, <1>8, <1>13, <2>1, <2>3, <2>4 DEF TrueFor
<1>17. QED
  BY <1>2, <1>11, <1>12, <1>13, <1>15, <1>16, OneCall DEF OfClient

\* The answer leaves the line as it was.
LEMMA AnswerStep ==
    ASSUME IInv, NEW c \in Client, Answer(c)
    PROVE  IInv'
<1>1. CallType /\ SeenType /\ OfClient(c)
  BY Parts
<1>2. /\ pc[c] = "body" /\ pc' = [pc EXCEPT ![c] = "created"]
      /\ UNCHANGED <<prog, process, world, request, event, logger, line, seen, order>>
  BY DEF Answer
<1>3. \A d \in Client \ {c} : SameCall(d) /\ seen'[d] = seen[d]
  BY <1>1, <1>2 DEF SameCall, CallType
<1>4. CallType' /\ SeenType'
  BY <1>1, <1>2 DEF CallType, SeenType, PC
<1>5. InProgress(c) /\ pc'[c] = "created"
  BY <1>1, <1>2 DEF InProgress, CallType
<1>6. /\ Watching(c)'
      /\ Wanted(c)' = Wanted(c) /\ Excused(c)' = Excused(c)
      /\ Allowed(c)' = Allowed(c) /\ GivenBy(c)' = GivenBy(c)
      /\ \A a \in seen'[c].on : Aimed(a)'
  BY <1>1, <1>2, <1>5, GoesOn
<1>7. Call(c)'
  BY <1>1, <1>2, <1>5, <1>6 DEF OfClient, Call
<1>8. TrueFor(c)'
  BY <1>1, <1>2, <1>6 DEF OfClient, TrueFor, OwnFields
<1>9. QED
  BY <1>2, <1>3, <1>4, <1>6, <1>7, <1>8, OneCall DEF OfClient

-------------------------------------------------------------------------------
\* Before the first start nothing is set up and nothing in progress.
LEMMA InitIInv == Init => IInv
<1> SUFFICES ASSUME Init PROVE IInv
  OBVIOUS
<1>1. OfProcess
  <2>1. Len(Main) \in Nat
    BY MainFacts DEF Init
  <2>2. \A t : ~Passed(t)
    BY <2>1 DEF Init, Passed
  <2>3. registry \in [{} -> {"project.id", "user.id"}] /\ {} \in SUBSET Field
    BY DEF Init
  <2>4. registry \in PartialMap(Field, {"project.id", "user.id"})
    BY <2>3 DEF PartialMap
  <2>5. QED
    BY <2>1, <2>2, <2>4 DEF Init, OfProcess, Setup
<1>2. OfWorld /\ OfOrder
  BY DEF Init, OfWorld, Aimed, OfOrder, Ready
<1>3. CallType /\ SeenType
  BY DEF Init, CallType, SeenType, PC, NoRequest
<1>4. \A c \in Client : OfClient(c)
  BY DEF Init, OfClient, Watching, InProgress, Call, TrueFor
<1>5. QED
  BY <1>1, <1>2, <1>3, <1>4, Parts

\* A step that changes nothing keeps the invariant.
LEMMA StutterStep ==
    ASSUME IInv, UNCHANGED vars
    PROVE  IInv'
<1>1. UNCHANGED <<prog, process, world, calls, seen, order>>
  BY DEF vars
<1>2. OfProcess'
  BY <1>1, Parts, SameProcess
<1>3. QED
  BY <1>1, <1>2, MainStep DEF process

\* Every step keeps the invariant.
LEMMA StepIInv == IInv /\ [Next]_vars => IInv'
<1> SUFFICES ASSUME IInv, [Next]_vars PROVE IInv'
  OBVIOUS
<1>1. CASE Launch \/ Prepare \/ SetSlog \/ SetZap \/ Exit
  BY <1>1, LaunchStep, PrepareStep, SetEmitterStep, ExitStep
<1>2. CASE \E f \in Field : Register(f)
  BY <1>2, RegisterStep
<1>3. CASE \E l \in {"admin", "app"} : Listen(l) \/ Bind(l)
  BY <1>3, ListenStep, BindStep
<1>4. CASE \E l \in {"admin", "app"}, m \in {"GET", "POST"}, p \in Path :
            (\E cfg \in Config : Enable(l, m, p, cfg)) \/ Disable(l, m, p)
  BY <1>4, EnableStep, WorldSteps
<1>5. CASE Expire \/ Configure
  BY <1>5, WorldSteps
<1>6. ASSUME NEW c \in Client,
             \/ \E m \in {"GET", "POST"}, p \in Path, body \in BOOLEAN, h \in Header :
                    Arrive(c, m, p, body, h)
             \/ On(c) \/ Match(c) \/ EmitSlog(c) \/ EmitZap(c) \/ Write(c) \/ Answer(c)
      PROVE  IInv'
  BY <1>6, ArriveStep, OnStep, MatchStep, EmitStep, WriteStep, AnswerStep
<1>7. CASE UNCHANGED vars
  BY <1>7, StutterStep
<1>8. QED
  BY <1>1, <1>2, <1>3, <1>4, <1>5, <1>6, <1>7 DEF Next

\* IInv holds in every state, for any programs, clients, headers and Configs.
THEOREM Invariant == Spec => []IInv
BY InitIInv, StepIInv, PTL DEF Spec

\* The variables keep their types: an event and a line have the keys that
\* main registers, and values of the identity headers.
THEOREM TypeCorrect == Spec => []TypeOK
<1>1. IInv => TypeOK
  BY DEF IInv
<1>2. QED
  BY <1>1, Invariant, PTL

\* A listener opens only when every field is registered: no Enable of one of
\* them is refused, right after a start or a restart.
THEOREM ReadyHolds == Spec => []Ready
<1>1. IInv => Ready
  BY DEF IInv
<1>2. QED
  BY <1>1, Invariant, PTL

\* A targeted request leaves a line, or one of the three excuses holds of
\* what was in place while it ran.
THEOREM EveryTargetedLineHolds == Spec => []EveryTargetedLine
<1>1. IInv => EveryTargetedLine
  BY DEF IInv, OfClient, Call, Excused, EveryTargetedLine
<1>2. QED
  BY <1>1, Invariant, PTL

\* A line carries the identity of its own request and nothing else, was
\* asked for while the request ran, and is in a logger that was the
\* program's then.
THEOREM TrueLineHolds == Spec => []TrueLine
<1>1. IInv => TrueLine
  BY DEF IInv, OfClient, TrueFor, Wanted, OwnFields, GivenBy, Allowed, TrueLine
<1>2. QED
  BY <1>1, Invariant, PTL

\* The switch is turned on, or aimed at somebody else, by a POST to the
\* enable route on the listener that serves it, and by nothing else.
THEOREM ConfinedHolds == Spec => Confined
<1> DEFINE ByEnable ==
        current' \notin {current, Nil} =>
            /\ order' # Nil
            /\ order'.cfg = current'
            /\ order'.method = "POST"
            /\ order'.listener = IF prog.main = "wrapped" THEN "app" ELSE "admin"
<1>1. ASSUME IInv, NEW l \in {"admin", "app"}, NEW m \in {"GET", "POST"}, NEW p,
             NEW cfg \in Config, Enable(l, m, p, cfg)
      PROVE  ByEnable
  <2>1. /\ l \in open /\ Serves(l, m, p) = "enable"
        /\ current' \in {cfg, current}
        /\ order' = [listener |-> l, method |-> m, cfg |-> cfg,
                     unregistered |-> ~Known(cfg, DOMAIN registry)]
    BY <1>1 DEF Enable
  <2>2. order' \in Orders
    BY <2>1 DEF Orders, Known
  <2>3. m = "POST" /\ (l # "admin" => prog.main = "wrapped")
    BY <2>1, RouteToEnable
  <2>4. l = "admin" => prog.main # "wrapped"
    BY <1>1, <2>1, SetUp DEF IInv
  <2>5. QED
    BY <2>1, <2>2, <2>3, <2>4, NilAssumption
<1>2. ASSUME IInv, Next
      PROVE  ByEnable
  <2>1. CASE \E l \in {"admin", "app"}, m \in {"GET", "POST"}, p \in Path :
                \E cfg \in Config : Enable(l, m, p, cfg)
    BY <1>1, <1>2, <2>1
  <2>2. CASE ~ \E l \in {"admin", "app"}, m \in {"GET", "POST"}, p \in Path :
                \E cfg \in Config : Enable(l, m, p, cfg)
    <3>1. current' \in {current, Nil}
      BY <1>2, <2>2
      DEF Next, Launch, Prepare, SetSlog, SetZap, Exit, Register, Listen, At,
          Bind, Disable, Expire, Configure, Arrive, On, Match, EmitSlog,
          EmitZap, Write, Answer, world
    <3>2. QED
      BY <3>1
  <2>3. QED
    BY <2>1, <2>2
<1>3. IInv /\ [Next]_vars => [ByEnable]_vars
  BY <1>2
<1>4. QED
  BY <1>3, Invariant, PTL DEF Spec, Confined

===============================================================================
