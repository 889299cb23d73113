------------------------------- MODULE Control -------------------------------
(***************************************************************************)
(* The control endpoint (control/control.go) of a service that runs as     *)
(* several pods behind a load balancer.                                    *)
(*                                                                         *)
(* A request reaches one pod, of the balancer's choice.  The pod's handler *)
(* runs the checks of the enable protocol in their order, calls Enable,    *)
(* Disable or Current, and writes what that call returned; net/http runs   *)
(* the handlers of one pod concurrently, so the switch may have moved on   *)
(* between the two.  A client that tries again sends another request,      *)
(* which may reach another pod.                                            *)
(*                                                                         *)
(* A pod's switch appears as TtlSwitch promises it: on, from the request   *)
(* that turned it on last, until it is turned off or expires.              *)
(***************************************************************************)
EXTENDS Targeting, Sequences

CONSTANTS Pod,              \* the replicas of the service
          Request,          \* requests that may be sent (a bound)
          Body,             \* bodies of enable requests, see Bodies
          Registered,       \* field names the service registered
          ProtocolVersion,
          MaxTTL,           \* the cap on a targeted activation, in ticks
          MaxMatchAllTTL,   \* the cap on a firehose
          Horizon,          \* the clock bound
          Nil

ASSUME CapAssumption ==
    /\ MaxTTL \in Nat
    /\ MaxMatchAllTTL \in Nat
    /\ MaxMatchAllTTL < MaxTTL

\* What may be in force on a pod: whom it is for, the request that it is
\* from, and when it was turned on and is due.
Activation ==
    [from : Request, matchAll : BOOLEAN, match : {b.match : b \in Body},
     since : Nat, until : Nat]

ASSUME NilAssumption == Nil \notin Body \cup Activation /\ ProtocolVersion # Nil

ASSUME BodyAssumption ==
    \A b \in Body :
        /\ {b.readable, b.json, b.unknown, b.typed, b.methods, b.matchAll}
             \subseteq BOOLEAN
        /\ b.ttl # Nil => b.ttl \in Int

VARIABLES now,     \* the clock
          on,      \* on[p]: the activation in force on pod p, or Nil
          stage,   \* stage[r]: where request r is
          op,      \* op[r]: "enable", "disable" or "status"
          body,    \* body[r]: what an enable request carries
          pod,     \* pod[r]: the pod r was routed to
          reply    \* reply[r]: what r is answered, or Nil

requestVars == <<stage, op, body, pod>>
vars        == <<now, on, requestVars, reply>>

(* Where a request is:                                                     *)
(*   unsent    not sent                                                    *)
(*   routed    at the handler of its pod                                   *)
(*   replying  its switch call has returned, or it has been refused        *)
(*   answered  the answer has been written                                 *)
Stage == {"unsent", "routed", "replying", "answered"}

Op == {"enable", "disable", "status"}

-------------------------------------------------------------------------------
(* A body, as far as the handler tells bodies apart:                       *)
(*   readable   it arrives, within the size limit                          *)
(*   json       it is JSON, of an object whose `version` is an integer, or *)
(*              null, or absent: what the lenient probe needs              *)
(*   version    the version, or Nil                                        *)
(*   unknown    it has a field that this version does not know             *)
(*   typed      every field it has is of the type this version gives it    *)
(*   methods    `methods` is not empty                                     *)
(*   ttl        the TTL, or Nil when it is no duration                     *)
(*   match, matchAll   the targeting                                       *)

ConfigOf(b) == [ttl |-> b.ttl, match |-> b.match, matchAll |-> b.matchAll]

\* maxTTL: the cap by kind of targeting.
Cap_oneCapBug(b) == MaxTTL
Cap(b) == IF b.matchAll THEN MaxMatchAllTTL ELSE MaxTTL

\* The checks of the handler, in its order: the lenient probe, which looks at
\* the version only, comes before the strict decoding of the whole.  The last
\* check is Enable's own.
Checks_strictFirstBug ==
    <<"unreadable", "probe", "decode", "no version", "version",
      "methods", "ttl", "cap", "refused">>
Checks_noMethodsBug ==
    <<"unreadable", "probe", "no version", "version", "decode",
      "ttl", "cap", "refused">>
Checks ==
    <<"unreadable", "probe", "no version", "version", "decode",
      "methods", "ttl", "cap", "refused">>

\* Does b fail a check that it comes to?
Fails(b, check) ==
    \/ check = "unreadable" /\ ~b.readable
    \/ check = "probe"      /\ ~b.json
    \/ check = "no version" /\ b.version = Nil
    \/ check = "version"    /\ b.version # ProtocolVersion
    \/ check = "decode"     /\ (b.unknown \/ ~b.typed)
    \/ check = "methods"    /\ b.methods
    \/ check = "ttl"        /\ b.ttl = Nil
    \/ check = "cap"        /\ b.ttl # Nil /\ b.ttl > Cap(b)
    \/ check = "refused"    /\ b.ttl # Nil /\ ~Accepts(ConfigOf(b), Registered)

\* The check that b fails first, or "ok".
Verdict(b) ==
    LET failed == {i \in DOMAIN Checks : Fails(b, Checks[i])}
    IN  IF failed = {} THEN "ok"
        ELSE Checks[CHOOSE i \in failed : \A j \in failed : i <= j]

\* The status code of a refusal.
Code_defaultBug(v) ==
    IF v = "methods" THEN 501 ELSE IF v = "refused" THEN 500 ELSE 400
Code(v) == IF v = "methods" THEN 501 ELSE 400

\* State, as Current reports it for a pod, and as Enable and Disable return
\* it for the activation they put in force.
Off(p) == [code |-> 200, why |-> "ok", instance |-> p, enabled |-> FALSE]

StateOf(p, act) ==
    IF act = Nil THEN Off(p)
    ELSE [code |-> 200, why |-> "ok", instance |-> p, enabled |-> TRUE,
          targeting |-> Label(act.matchAll), until |-> act.until]

Refusal(p, v) == [code |-> Code(v), why |-> v, instance |-> p, enabled |-> FALSE]

\* What writeJSON writes for r.
Written_rereadBug(r) ==
    IF op[r] = "enable" /\ reply[r].code = 200
      THEN StateOf(pod[r], on[pod[r]]) ELSE reply[r]
Written(r) == reply[r]

-------------------------------------------------------------------------------
Init ==
    /\ now = 0
    /\ on = [p \in Pod |-> Nil]
    /\ stage = [r \in Request |-> "unsent"]
    /\ op = [r \in Request |-> "status"]
    /\ body = [r \in Request |-> Nil]
    /\ pod = [r \in Request |-> Nil]
    /\ reply = [r \in Request |-> Nil]

\* A client sends r; the load balancer picks the pod.
Send(r, o, b, p) ==
    /\ stage[r] = "unsent"
    /\ stage' = [stage EXCEPT ![r] = "routed"]
    /\ op' = [op EXCEPT ![r] = o]
    /\ body' = [body EXCEPT ![r] = b]
    /\ pod' = [pod EXCEPT ![r] = p]
    /\ UNCHANGED <<now, on, reply>>

\* enable, when a check fails.
Refuse(r) ==
    LET v == Verdict(body[r]) IN
    /\ stage[r] = "routed"
    /\ op[r] = "enable"
    /\ v # "ok"
    /\ reply' = [reply EXCEPT ![r] = Refusal(pod[r], v)]
    /\ stage' = [stage EXCEPT ![r] = "replying"]
    /\ UNCHANGED <<now, on, op, body, pod>>

\* enable, through limelight.Enable.
Enable(r) ==
    LET b   == body[r]
        act == [from |-> r, matchAll |-> b.matchAll, match |-> b.match,
                since |-> now, until |-> now + b.ttl]
    IN  /\ stage[r] = "routed"
        /\ op[r] = "enable"
        /\ Verdict(b) = "ok"
        /\ now <= Horizon
        /\ on' = [on EXCEPT ![pod[r]] = act]
        /\ reply' = [reply EXCEPT ![r] = StateOf(pod[r], act)]
        /\ stage' = [stage EXCEPT ![r] = "replying"]
        /\ UNCHANGED <<now, op, body, pod>>

\* disable, through limelight.Disable.
Disable(r) ==
    /\ stage[r] = "routed"
    /\ op[r] = "disable"
    /\ on' = [on EXCEPT ![pod[r]] = Nil]
    /\ reply' = [reply EXCEPT ![r] = Off(pod[r])]
    /\ stage' = [stage EXCEPT ![r] = "replying"]
    /\ UNCHANGED <<now, op, body, pod>>

\* status, through limelight.Current.
Status(r) ==
    /\ stage[r] = "routed"
    /\ op[r] = "status"
    /\ reply' = [reply EXCEPT ![r] = StateOf(pod[r], on[pod[r]])]
    /\ stage' = [stage EXCEPT ![r] = "replying"]
    /\ UNCHANGED <<now, on, op, body, pod>>

\* writeJSON and writeError.
Write(r) ==
    /\ stage[r] = "replying"
    /\ reply' = [reply EXCEPT ![r] = Written(r)]
    /\ stage' = [stage EXCEPT ![r] = "answered"]
    /\ UNCHANGED <<now, on, op, body, pod>>

\* The activation of pod p expires (TtlSwitch!Expire).
Expire(p) ==
    /\ on[p] # Nil
    /\ now >= on[p].until
    /\ on' = [on EXCEPT ![p] = Nil]
    /\ UNCHANGED <<now, requestVars, reply>>

Tick ==
    /\ \/ now < Horizon
       \/ \E p \in Pod : on[p] # Nil /\ on[p].until > now
    /\ now' = now + 1
    /\ UNCHANGED <<on, requestVars, reply>>

Next ==
    \/ \E r \in Request :
        \/ \E b \in Body, p \in Pod : Send(r, "enable", b, p)
        \/ \E o \in {"disable", "status"}, p \in Pod : Send(r, o, Nil, p)
        \/ Refuse(r)
        \/ Enable(r)
        \/ Disable(r)
        \/ Status(r)
        \/ Write(r)
    \/ \E p \in Pod : Expire(p)
    \/ Tick

Spec == Init /\ [][Next]_vars

-------------------------------------------------------------------------------
TypeOK ==
    /\ now \in Nat
    /\ on \in [Pod -> Activation \cup {Nil}]
    /\ stage \in [Request -> Stage]
    /\ op \in [Request -> Op]
    /\ body \in [Request -> Body \cup {Nil}]
    /\ pod \in [Request -> Pod \cup {Nil}]
    /\ \A r \in Request : reply[r] # Nil => reply[r].code \in {200, 400, 501}

\* Whatever requests arrive, in whatever order, no activation of any pod is
\* longer than the cap for its kind: an hour when it targets somebody, a
\* minute when it is a firehose; and none is empty or over before it began.
BoundedExposure ==
    \A p \in Pod : on[p] # Nil =>
        /\ on[p].until > on[p].since
        /\ on[p].until - on[p].since <= MaxTTL
        /\ on[p].matchAll => on[p].until - on[p].since <= MaxMatchAllTTL

\* What is in force on a pod is never wider than what its request asked for:
\* a firehose only when match_all was typed, never from a body whose match
\* was dropped on the way, and never in place of a request that was limited
\* to some methods.
NeverWider ==
    \A p \in Pod : on[p] # Nil =>
        LET b == body[on[p].from] IN
        /\ on[p].matchAll = b.matchAll
        /\ ~b.matchAll => DOMAIN b.match # {} /\ on[p].match = b.match
        /\ ~b.methods

\* "A client speaking a later version sends fields this build has never heard
\* of": one whose body is JSON with an integer `version` other than this is
\* told about versions, although it has unknown fields, or fields whose type
\* is another now, or `methods`, or a TTL or a match that would be refused.
VersionFirst ==
    \A r \in Request :
        /\ reply[r] # Nil /\ op[r] = "enable"
        /\ body[r].readable /\ body[r].json
        /\ body[r].version \notin {Nil, ProtocolVersion}
        => reply[r].why = "version"

\* The audit log can be trusted: an accepted enable is answered with the
\* pod, the targeting and the deadline of its own activation, even when
\* another request has replaced it or turned it off before the answer is
\* written.
OwnAnswer ==
    \A r \in Request :
        reply[r] # Nil /\ op[r] = "enable" /\ reply[r].code = 200 =>
            /\ reply[r].enabled
            /\ reply[r].instance = pod[r]
            /\ reply[r].targeting = Label(body[r].matchAll)
            /\ \A p \in Pod : on[p] # Nil /\ on[p].from = r =>
                p = pod[r] /\ reply[r].until = on[p].until

===============================================================================
