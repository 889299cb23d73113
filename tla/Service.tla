-------------------------------- MODULE Service --------------------------------
(***************************************************************************)
(* A whole service: main of the examples from start to exit and again, its *)
(* two listeners, the routes of control.Handler on one of them and gin's   *)
(* on the other, the identity middleware, the tagged method behind it, and *)
(* the slog or zap backend that writes the line.                           *)
(*                                                                         *)
(* What the parts do inside is in the other modules: here an Enable is one *)
(* step (Switch!Promise), and so is the part of Emit from the load of      *)
(* `current` to the event (GateProofs: fields are registered once).  What  *)
(* is left is what goes wrong between them: what is served before main has *)
(* set it up, where control requests can get in, whose identity a context  *)
(* carries, and which logger a line ends up in.                            *)
(***************************************************************************)
EXTENDS Targeting, Sequences

CONSTANTS Program,  \* programs: records [main, backend, logger]
          Client,   \* clients of the app, each with a request at a time
          Value,    \* values of the identity headers
          Header,   \* identity headers: Nil for one that is absent or empty
          Config,   \* Configs that operators ask for
          Nil

ASSUME ConfigAssumption ==
    \A cfg \in Config : \A f \in DOMAIN cfg.match : cfg.match[f] \in Value

\* backend is "slog" or "zap"; logger is "own" for one that was passed in, or
\* "global" for a nil one, which stands for slog.Default() or zap.L().
ASSUME ProgramAssumption ==
    \A p \in Program :
        /\ p.main \in {"go-log", "go-log-zap", "go-otel", "wrapped"}
        /\ p.backend \in {"slog", "zap"}
        /\ p.logger \in {"own", "global"}

VARIABLES prog,     \* the program: chosen once
          stage,    \* the step of main that is next, 0 when no process runs
          registry, \* field name -> attribute key
          emitter,  \* the installed backend, or Nil
          waiting,  \* listeners that ListenAndServe has not bound yet
          open,     \* listeners that accept requests
          current,  \* the activation in force, or Nil
          global,   \* the global logger: "initial", or "replaced" by the service
          muted,    \* does the logger discard the emitter's level?
          pc,       \* pc[c]: where c's request is
          request,  \* request[c]: [body, header], the request of c
          event,    \* event[c]: the fields of its event, or Nil
          logger,   \* logger[c]: the logger the backend chose, or Nil
          line      \* line[c]: the line it left in the log, or Nil

\* History, which no action reads.
VARIABLES seen,   \* seen[c]: what was in place at some time during c's request
          order   \* the last request that got to enable

process == <<stage, registry, emitter, waiting, open>>
world   == <<current, global, muted>>
calls   == <<pc, request, event, logger, line>>
vars    == <<prog, process, world, calls, seen, order>>

-------------------------------------------------------------------------------
(* main, as the steps that matter to others.  "logger" and "exporter" end  *)
(* the process if they fail.  The routes of control/auto are in place      *)
(* before main runs.                                                       *)

GoLog_adminFirstBug == <<"admin", "projectID", "userID", "emitter", "app">>
GoLog_emitterLastBug == <<"projectID", "userID", "admin", "app", "emitter">>
GoLog == <<"projectID", "userID", "emitter", "admin", "app">>

GoLogZap == <<"projectID", "userID", "logger", "emitter", "admin", "app">>

GoOtel ==
    <<"projectID", "userID", "exporter", "trace", "emitter", "admin", "app">>

\* A service that puts control.Wrap around its router instead.
Wrapped == <<"projectID", "userID", "emitter", "app">>

Main == CASE prog.main = "go-log"     -> GoLog
          [] prog.main = "go-log-zap" -> GoLogZap
          [] prog.main = "go-otel"    -> GoOtel
          [] prog.main = "wrapped"    -> Wrapped

\* limelight.As("project.id"), limelight.As("user.id")
KeyOf_nameBug(f) == f
KeyOf(f) == IF f = "projectID" THEN "project.id" ELSE "user.id"

\* The fields of the directive.
Field == {"projectID", "userID"}

ASSUME HeaderAssumption == Header \subseteq [Field -> Value \cup {Nil}]

-------------------------------------------------------------------------------
(* Routes.  Of the paths under control.Prefix, "missing" has no route.     *)

Prefix == {"enable", "disable", "status", "missing"}
Path   == Prefix \cup {"things", "other"}

Routed_anyMethodBug(m, p) == p # "missing"
Routed(m, p) ==
    <<m, p>> \in {<<"POST", "enable">>, <<"POST", "disable">>, <<"GET", "status">>}

\* control.Handler
Handler(m, p) == IF Routed(m, p) THEN p ELSE "none"

\* The router of the app.
Router(m, p) == IF m = "POST" /\ p = "things" THEN "things" ELSE "none"

\* control.Wrap(next)
Wrap(m, p) == IF p \in Prefix THEN Handler(m, p) ELSE Router(m, p)

\* http.DefaultServeMux, on which auto has called control.Mount.
Mount(m, p) == IF p \in Prefix THEN Handler(m, p) ELSE "none"

Serves(l, m, p) ==
    IF l = "admin" THEN Mount(m, p)
    ELSE IF prog.main = "wrapped" THEN Wrap(m, p) ELSE Router(m, p)

-------------------------------------------------------------------------------
(* Requests to the app.                                                    *)

\* identity(): the fields that the context carries.
Identity_emptyBug(header) == header
Identity(header) == [f \in {g \in Field : header[g] # Nil} |-> header[f]]

\* matches(a, ctx)
Matches(a, ctx) ==
    /\ a # Nil
    /\ a.matchAll \/ \A f \in DOMAIN a.match :
                        f \in DOMAIN registry \cap DOMAIN ctx /\ ctx[f] = a.match[f]

\* The fields of the event, by attribute key.
Extracted(ctx) ==
    LET found == DOMAIN ctx \cap DOMAIN registry
    IN  [k \in {registry[f] : f \in found} |->
            ctx[CHOOSE f \in found : registry[f] = k]]

\* The logger of an emitter, at emit time.
SlogLogger == IF prog.logger = "own" THEN "own" ELSE global
ZapLogger  == IF prog.logger = "own" THEN "own" ELSE global

\* logger.Core().Enabled(level): zap.L() is a no-op until ReplaceGlobals.
Enabled(lg) == ~muted /\ ~(prog.backend = "zap" /\ lg = "initial")

\* sort.Strings(keys), of the keys that the event has.
Sorted(fields) ==
    LET present(k) == IF k \in DOMAIN fields THEN <<k>> ELSE <<>>
    IN  present("project.id") \o present("user.id")

InProgress(c) == pc[c] \in {"on", "match", "emit", "write", "body"}

\* What requests in progress live to see, when a step changes the world.
Watch ==
    seen' = [c \in Client |->
        IF ~InProgress(c) THEN seen[c]
        ELSE [on     |-> seen[c].on \cup {current'},
              logger |-> seen[c].logger \cup {global'},
              muted  |-> seen[c].muted \/ muted']]

-------------------------------------------------------------------------------
NoRequest == [body |-> FALSE, header |-> [f \in Field |-> Nil]]

Init ==
    /\ prog \in Program
    /\ stage = 0
    /\ registry = [f \in {} |-> f]
    /\ emitter = Nil
    /\ waiting = {}
    /\ open = {}
    /\ current = Nil
    /\ global = "initial"
    /\ muted = FALSE
    /\ pc = [c \in Client |-> "idle"]
    /\ request = [c \in Client |-> NoRequest]
    /\ event = [c \in Client |-> Nil]
    /\ logger = [c \in Client |-> Nil]
    /\ line = [c \in Client |-> Nil]
    /\ seen = [c \in Client |-> [on |-> {}, logger |-> {}, muted |-> FALSE]]
    /\ order = Nil

-------------------------------------------------------------------------------
(* The process.                                                            *)

Launch ==
    /\ stage = 0
    /\ stage' = 1
    /\ UNCHANGED <<prog, registry, emitter, waiting, open, world, calls, seen, order>>

\* main comes to step s; from r.Run it does not come back.
At(s) ==
    /\ stage \in 1..Len(Main)
    /\ "app" \notin waiting \cup open
    /\ Main[stage] = s
    /\ stage' = stage + 1
    /\ UNCHANGED <<prog, open, world, calls, seen, order>>

Register(f) ==
    /\ At(f)
    /\ registry' = [g \in DOMAIN registry \cup {f} |-> KeyOf(g)]
    /\ UNCHANGED <<emitter, waiting>>

\* A step that only main itself depends on.
Prepare ==
    /\ \E s \in {"logger", "exporter", "trace"} : At(s)
    /\ UNCHANGED <<registry, emitter, waiting>>

\* SetEmitter(NewLogEmitter(...))
SetSlog ==
    /\ At("emitter")
    /\ prog.backend = "slog"
    /\ emitter' = "slog"
    /\ UNCHANGED <<registry, waiting>>

\* SetEmitter(limelightzap.New(logger))
SetZap ==
    /\ At("emitter")
    /\ prog.backend = "zap"
    /\ emitter' = "zap"
    /\ UNCHANGED <<registry, waiting>>

\* go func() { log.Fatal(http.ListenAndServe(adminAddr, nil)) }(), or
\* log.Fatal(r.Run(appAddr)).
Listen(l) ==
    /\ At(l)
    /\ waiting' = waiting \cup {l}
    /\ UNCHANGED <<registry, emitter>>

Bind(l) ==
    /\ l \in waiting
    /\ waiting' = waiting \ {l}
    /\ open' = open \cup {l}
    /\ UNCHANGED <<prog, stage, registry, emitter, world, calls, seen, order>>

\* The process ends: a log.Fatal, because a listener, zap.NewProduction or
\* stdouttrace.New failed, or a signal.  Requests are cut off, and everything
\* limelight knew is gone; the log stays.
Exit ==
    /\ stage # 0
    /\ stage' = 0
    /\ registry' = [f \in {} |-> f]
    /\ emitter' = Nil
    /\ waiting' = {}
    /\ open' = {}
    /\ current' = Nil
    /\ global' = "initial"
    /\ muted' = FALSE
    /\ pc' = [c \in Client |-> IF InProgress(c) THEN "lost" ELSE pc[c]]
    /\ order' = Nil
    /\ UNCHANGED <<prog, request, event, logger, line, seen>>

-------------------------------------------------------------------------------
(* Requests of operators, to any listener with any method and path.        *)

Enable(l, m, p, cfg) ==
    LET ok == Accepts(cfg, DOMAIN registry) IN
    /\ l \in open
    /\ Serves(l, m, p) = "enable"
    /\ current' = IF ok THEN cfg ELSE current
    /\ order' = [listener |-> l, method |-> m, cfg |-> cfg,
                 unregistered |-> ~Known(cfg, DOMAIN registry)]
    /\ UNCHANGED <<prog, process, global, muted, calls>>
    /\ Watch

Disable(l, m, p) ==
    /\ l \in open
    /\ Serves(l, m, p) = "disable"
    /\ current' = Nil
    /\ UNCHANGED <<prog, process, global, muted, calls, order>>
    /\ Watch

\* The TTL is over.
Expire ==
    /\ current # Nil
    /\ current' = Nil
    /\ UNCHANGED <<prog, process, global, muted, calls, order>>
    /\ Watch

\* The service calls slog.SetDefault or zap.ReplaceGlobals, or changes the
\* level of its logger, while it runs.
Configure ==
    /\ stage # 0
    /\ \/ global' = "replaced" /\ UNCHANGED muted
       \/ muted' = ~muted /\ UNCHANGED global
    /\ UNCHANGED <<prog, process, current, calls, order>>
    /\ Watch

-------------------------------------------------------------------------------
(* A request to the app.                                                   *)

\* The middleware, the route and the JSON body: to the tagged method, or to
\* an answer without it.
Arrive(c, m, p, body, header) ==
    /\ "app" \in open
    /\ Serves("app", m, p) \in {"things", "none"}
    /\ ~InProgress(c)
    /\ pc' = [pc EXCEPT ![c] =
                IF Serves("app", m, p) = "none" THEN "notFound"
                ELSE IF body THEN "on" ELSE "badRequest"]
    /\ request' = [request EXCEPT ![c] = [body |-> body, header |-> header]]
    /\ event' = [event EXCEPT ![c] = Nil]
    /\ logger' = [logger EXCEPT ![c] = Nil]
    /\ line' = [line EXCEPT ![c] = Nil]
    /\ seen' = [seen EXCEPT ![c] =
                [on |-> {current}, logger |-> {global}, muted |-> muted]]
    /\ UNCHANGED <<prog, process, world, order>>

\* if limelight.On() { ...
On(c) ==
    /\ pc[c] = "on"
    /\ pc' = [pc EXCEPT ![c] = IF current = Nil THEN "body" ELSE "match"]
    /\ UNCHANGED <<prog, process, world, request, event, logger, line, seen, order>>

\* Emit, up to the call of the backend.
Match(c) ==
    LET ctx == Identity(request[c].header)
        out == Matches(current, ctx) /\ emitter # Nil
    IN  /\ pc[c] = "match"
        /\ pc' = [pc EXCEPT ![c] = IF out THEN "emit" ELSE "body"]
        /\ event' = [event EXCEPT ![c] = IF out THEN Extracted(ctx) ELSE Nil]
        /\ UNCHANGED <<prog, process, world, request, logger, line, seen, order>>

\* The slog backend chooses its logger.
EmitSlog(c) ==
    /\ pc[c] = "emit"
    /\ emitter = "slog"
    /\ logger' = [logger EXCEPT ![c] = SlogLogger]
    /\ pc' = [pc EXCEPT ![c] = "write"]
    /\ UNCHANGED <<prog, process, world, request, event, line, seen, order>>

\* The zap backend does, and asks at once whether it has to go on.
EmitZap(c) ==
    /\ pc[c] = "emit"
    /\ emitter = "zap"
    /\ logger' = [logger EXCEPT ![c] = ZapLogger]
    /\ pc' = [pc EXCEPT ![c] = IF Enabled(ZapLogger) THEN "write" ELSE "body"]
    /\ UNCHANGED <<prog, process, world, request, event, line, seen, order>>

\* LogAttrs or Log, which looks at the level once more.
Write(c) ==
    /\ pc[c] = "write"
    /\ line' = [line EXCEPT ![c] =
                IF Enabled(logger[c])
                THEN [fields |-> event[c], keys |-> Sorted(event[c]),
                      logger |-> logger[c]]
                ELSE Nil]
    /\ pc' = [pc EXCEPT ![c] = "body"]
    /\ UNCHANGED <<prog, process, world, request, event, logger, seen, order>>

\* The body of the tagged method, and the answer.
Answer(c) ==
    /\ pc[c] = "body"
    /\ pc' = [pc EXCEPT ![c] = "created"]
    /\ UNCHANGED <<prog, process, world, request, event, logger, line, seen, order>>

-------------------------------------------------------------------------------
Next ==
    \/ Launch
    \/ \E f \in Field : Register(f)
    \/ Prepare
    \/ SetSlog
    \/ SetZap
    \/ \E l \in {"admin", "app"} : Listen(l) \/ Bind(l)
    \/ Exit
    \/ \E l \in {"admin", "app"}, m \in {"GET", "POST"}, p \in Path :
        (\E cfg \in Config : Enable(l, m, p, cfg)) \/ Disable(l, m, p)
    \/ Expire
    \/ Configure
    \/ \E c \in Client :
        \/ \E m \in {"GET", "POST"}, p \in Path, body \in BOOLEAN, h \in Header :
                Arrive(c, m, p, body, h)
        \/ On(c) \/ Match(c) \/ EmitSlog(c) \/ EmitZap(c) \/ Write(c) \/ Answer(c)

Spec == Init /\ [][Next]_vars

-------------------------------------------------------------------------------
PC == {"idle", "on", "match", "emit", "write", "body", "created", "badRequest",
       "notFound", "lost"}

Events == PartialMap({"project.id", "user.id"}, Value)

Lines == [fields : Events, keys : Seq({"project.id", "user.id"}),
          logger : {"own", "initial", "replaced"}]

Orders == [listener : {"admin", "app"}, method : {"GET", "POST"},
           cfg : Config, unregistered : BOOLEAN]

\* Nil is none of the things that it stands for the absence of.
ASSUME NilAssumption ==
    /\ Nil \notin Value /\ Nil \notin Config /\ Nil \notin {"slog", "zap"}
    /\ Nil \notin Lines /\ Nil \notin Orders

TypeOK ==
    /\ prog \in Program
    /\ stage \in 0..(Len(Main) + 1)
    /\ registry \in PartialMap(Field, {"project.id", "user.id"})
    /\ emitter \in {"slog", "zap", Nil}
    /\ waiting \cup open \subseteq {"admin", "app"}
    /\ current \in Config \cup {Nil}
    /\ global \in {"initial", "replaced"}
    /\ muted \in BOOLEAN
    /\ pc \in [Client -> PC]
    /\ request \in [Client -> [body : BOOLEAN, header : [Field -> Value \cup {Nil}]]]
    /\ event \in [Client -> Events \cup {Nil}]
    /\ logger \in [Client -> {"own", "initial", "replaced", Nil}]
    /\ line \in [Client -> Lines \cup {Nil}]
    /\ seen \in [Client -> [on : SUBSET (Config \cup {Nil}),
                            logger : SUBSET {"initial", "replaced"}, muted : BOOLEAN]]
    /\ order \in Orders \cup {Nil}

\* A Config asks for the identity in the headers of a request.
Asked(a, header) ==
    a # Nil /\ (a.matchAll \/ \A f \in DOMAIN a.match : header[f] = a.match[f])

\* The service is ready before anybody can ask: no Enable of a field that
\* main registers is refused as unregistered, however early it comes, and
\* however often the process is started again.
Ready ==
    order # Nil /\ order.unregistered => ~(DOMAIN order.cfg.match \subseteq Field)

\* A request of somebody who is being watched from its arrival to its answer
\* leaves a line.  Only three things excuse its absence: the switch moved
\* away, the service turned the level off, or it gave zap no logger and had
\* not replaced the global one.  A nil logger follows the global one.
EveryTargetedLine ==
    \A c \in Client :
        pc[c] = "created" /\ line[c] = Nil =>
            \/ \E a \in seen[c].on : ~Asked(a, request[c].header)
            \/ seen[c].muted
            \/ /\ prog.backend = "zap" /\ prog.logger = "global"
               /\ "initial" \in seen[c].logger

\* A line tells the truth: its request got to the tagged method, an
\* activation asked for the identity in its headers while it ran, its fields
\* are the headers that were not empty and nothing else, in sorted order, and
\* it is in the logger of the program, or in one that was global meanwhile.
TrueLine ==
    \A c \in Client :
        line[c] # Nil =>
            /\ request[c].body
            /\ \E a \in seen[c].on : Asked(a, request[c].header)
            /\ LET given == {f \in Field : request[c].header[f] # Nil}
               IN  /\ DOMAIN line[c].fields = {KeyOf(f) : f \in given}
                   /\ \A f \in given :
                        line[c].fields[KeyOf(f)] = request[c].header[f]
            /\ line[c].keys \in {<<>>, <<"project.id">>, <<"user.id">>,
                                  <<"project.id", "user.id">>}
            /\ {line[c].keys[i] : i \in DOMAIN line[c].keys} = DOMAIN line[c].fields
            /\ line[c].logger \in
                IF prog.logger = "own" THEN {"own"} ELSE seen[c].logger

\* Nothing but a POST to the enable route, on the listener that the service
\* chose for it, ever turns the switch on or aims it at somebody else: not a
\* GET, not a request to the other listener, not a restart.
Confined ==
    [][current' \notin {current, Nil} =>
        /\ order' # Nil
        /\ order'.cfg = current'
        /\ order'.method = "POST"
        /\ order'.listener = IF prog.main = "wrapped" THEN "app" ELSE "admin"]_vars

===============================================================================
