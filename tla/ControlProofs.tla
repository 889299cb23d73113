---------------------------- MODULE ControlProofs -----------------------------
(***************************************************************************)
(* What holds of Control for any pods, requests, bodies, caps and clock    *)
(* bound, with proofs checked by TLAPS.                                    *)
(*                                                                         *)
(* The lemmas about Verdict say what a body has passed when the handler    *)
(* calls Enable.  IInv ties every activation in force to the request that  *)
(* made it, whose body has passed, and whose answer has been fixed.        *)
(***************************************************************************)
EXTENDS Control, TLAPS

\* The requests whose answer is fixed.
Done == {"replying", "answered"}

\* A request carries what it was sent with.
Carried ==
    \A r \in Request :
        stage[r] # "unsent" =>
            pod[r] \in Pod /\ (op[r] = "enable" => body[r] \in Body)

\* What is in force on a pod is what an enable routed to that pod asked for.
InForceOn(p) ==
    LET r == on[p].from IN
    /\ r \in Request /\ stage[r] \in Done /\ op[r] = "enable" /\ pod[r] = p
    /\ Verdict(body[r]) = "ok"
    /\ on[p].matchAll = body[r].matchAll /\ on[p].match = body[r].match
    /\ on[p].since \in Nat /\ on[p].until = on[p].since + body[r].ttl
    /\ reply[r].until = on[p].until

InForce == DOMAIN on = Pod /\ \A p \in Pod : on[p] # Nil => InForceOn(p)

\* An enable is answered as it deserves, and not before its time.
Replied ==
    /\ DOMAIN reply = Request
    /\ \A r \in Request :
        /\ stage[r] \notin Done => reply[r] = Nil
        /\ stage[r] \in Done /\ op[r] = "enable" =>
            IF Verdict(body[r]) = "ok"
            THEN /\ reply[r].code = 200
                 /\ reply[r].enabled
                 /\ reply[r].instance = pod[r]
                 /\ reply[r].targeting = Label(body[r].matchAll)
            ELSE /\ reply[r].code \in {400, 501}
                 /\ reply[r].why = Verdict(body[r])
        /\ stage[r] \in Done => reply[r].code \in {200, 400, 501}

IInv == TypeOK /\ Carried /\ InForce /\ Replied

-------------------------------------------------------------------------------
\* Among the checks that a body fails there is a first.
LEMMA FirstFailed ==
    ASSUME NEW S \in SUBSET (1..9), S # {}
    PROVE  \E i \in S : \A j \in S : i <= j
<1>1. PICK k \in 1..9 : k \in S
  OBVIOUS
<1>2. CASE 1 \in S
  BY <1>2
<1>3. CASE 1 \notin S /\ 2 \in S
  BY <1>3
<1>4. CASE 1 \notin S /\ 2 \notin S /\ 3 \in S
  BY <1>4
<1>5. CASE {1, 2, 3} \cap S = {} /\ 4 \in S
  BY <1>5
<1>6. CASE {1, 2, 3, 4} \cap S = {} /\ 5 \in S
  BY <1>6
<1>7. CASE {1, 2, 3, 4, 5} \cap S = {} /\ 6 \in S
  BY <1>7
<1>8. CASE {1, 2, 3, 4, 5, 6} \cap S = {} /\ 7 \in S
  BY <1>8
<1>9. CASE {1, 2, 3, 4, 5, 6, 7} \cap S = {}
  BY <1>9, <1>1
<1>10. QED
  BY <1>2, <1>3, <1>4, <1>5, <1>6, <1>7, <1>8, <1>9

\* The verdict is the first check that a body fails, or that it fails none.
LEMMA VerdictIs ==
    ASSUME NEW b \in Body
    PROVE  \/ Verdict(b) = "ok" /\ \A i \in 1..9 : ~Fails(b, Checks[i])
           \/ \E i \in 1..9 : /\ Verdict(b) = Checks[i]
                             /\ Fails(b, Checks[i])
                             /\ \A j \in 1..9 : Fails(b, Checks[j]) => i <= j
<1> DEFINE failed == {i \in DOMAIN Checks : Fails(b, Checks[i])}
<1>1. DOMAIN Checks = 1..9
  BY DEF Checks
<1>2. CASE failed = {}
  BY <1>1, <1>2 DEF Verdict
<1>3. CASE failed # {}
  <2>1. \E i \in failed : \A j \in failed : i <= j
    BY <1>1, <1>3, FirstFailed
  <2> DEFINE first == CHOOSE i \in failed : \A j \in failed : i <= j
  <2>2. Verdict(b) = Checks[first]
    BY <1>3 DEF Verdict
  <2>3. first \in failed /\ \A j \in failed : first <= j
    BY <2>1
  <2> HIDE DEF first
  <2>4. QED
    BY <1>1, <2>2, <2>3
<1>4. QED
  BY <1>2, <1>3

\* What a body has passed when every check is behind it: its TTL is positive
\* and within the cap of its kind, it targets somebody or, explicitly,
\* everybody, and it asks for no methods.
LEMMA Passed ==
    ASSUME NEW b \in Body, Verdict(b) = "ok"
    PROVE  /\ b.ttl \in Int /\ b.ttl > 0 /\ b.ttl <= Cap(b)
           /\ b.matchAll <=> DOMAIN b.match = {}
           /\ ~b.methods
<1>0. \A i \in 1..9 : Checks[i] # "ok"
  <2>1. \A i \in 1..9 : i \in {1, 2, 3, 4, 5, 6, 7, 8, 9}
    OBVIOUS
  <2>2. /\ Checks[1] # "ok" /\ Checks[2] # "ok" /\ Checks[3] # "ok"
        /\ Checks[4] # "ok" /\ Checks[5] # "ok" /\ Checks[6] # "ok"
        /\ Checks[7] # "ok" /\ Checks[8] # "ok" /\ Checks[9] # "ok"
    BY DEF Checks
  <2>3. QED
    BY <2>1, <2>2
<1>1. \A i \in 1..9 : ~Fails(b, Checks[i])
  BY <1>0, VerdictIs
<1>2. /\ ~Fails(b, "methods") /\ ~Fails(b, "ttl")
      /\ ~Fails(b, "cap") /\ ~Fails(b, "refused")
  <2>1. /\ Checks[6] = "methods" /\ Checks[7] = "ttl"
        /\ Checks[8] = "cap" /\ Checks[9] = "refused"
    BY DEF Checks
  <2>2. QED
    BY <1>1, <2>1
<1>3. /\ ~b.methods /\ b.ttl # Nil /\ ~(b.ttl > Cap(b))
      /\ Accepts(ConfigOf(b), Registered)
  BY <1>2 DEF Fails
<1>4. b.ttl \in Int /\ Cap(b) \in Int
  BY <1>3, BodyAssumption, CapAssumption DEF Cap
<1>5. /\ b.ttl > 0
      /\ b.matchAll <=> DOMAIN b.match = {}
  BY <1>3 DEF Accepts, Bounded, OneTarget, ConfigOf
<1>6. QED
  BY <1>3, <1>4, <1>5

\* A body that can be read and probed, of another version, fails no check
\* before that of its version, whatever the types of its other fields.
LEMMA OtherVersion ==
    ASSUME NEW b \in Body, b.readable, b.json,
           b.version \notin {Nil, ProtocolVersion}
    PROVE  Verdict(b) = "version"
<1>1. /\ Checks[1] = "unreadable" /\ Checks[2] = "probe"
      /\ Checks[3] = "no version" /\ Checks[4] = "version"
  BY DEF Checks
<1>2. /\ ~Fails(b, "unreadable") /\ ~Fails(b, "probe")
      /\ ~Fails(b, "no version") /\ Fails(b, "version")
  BY DEF Fails
<1>3. /\ ~Fails(b, Checks[1]) /\ ~Fails(b, Checks[2]) /\ ~Fails(b, Checks[3])
      /\ Fails(b, Checks[4])
  BY <1>1, <1>2, Zenon
<1>4. PICK i \in 1..9 : /\ Verdict(b) = Checks[i]
                        /\ Fails(b, Checks[i])
                        /\ \A j \in 1..9 : Fails(b, Checks[j]) => i <= j
  <2>1. 4 \in 1..9
    OBVIOUS
  <2>2. QED
    BY <1>3, <2>1, VerdictIs, Zenon
<1>5. i <= 4 /\ i # 1 /\ i # 2 /\ i # 3
  BY <1>3, <1>4
<1>6. i = 4
  BY <1>5
<1>7. QED
  BY <1>1, <1>4, <1>6

-------------------------------------------------------------------------------
\* At the start every pod is off and no request has been sent.
LEMMA InitInvariant == Init => IInv
<1> SUFFICES ASSUME Init PROVE IInv
  OBVIOUS
<1> USE DEF Init
<1>1. TypeOK
  BY DEF TypeOK, Stage, Op
<1>2. Carried /\ InForce /\ Replied
  BY DEF Carried, InForce, Replied, Done
<1>3. QED
  BY <1>1, <1>2 DEF IInv

\* Sending a request touches nothing that is in force or answered.
LEMMA SendStep ==
    ASSUME IInv, NEW r \in Request, NEW o \in Op, NEW b, NEW p \in Pod,
           o = "enable" => b \in Body, b \in Body \cup {Nil}, Send(r, o, b, p)
    PROVE  IInv'
<1> USE DEF Send
<1>0. TypeOK /\ Carried /\ InForce /\ Replied
  BY DEF IInv
<1>1. TypeOK'
  BY <1>0 DEF TypeOK, Stage, Op
<1>2. Carried'
  BY <1>0 DEF TypeOK, Carried
<1>3. InForce'
  BY <1>0 DEF TypeOK, InForce, InForceOn, Done
<1>4. Replied'
  BY <1>0 DEF TypeOK, Replied, Done
<1>5. QED
  BY <1>1, <1>2, <1>3, <1>4 DEF IInv

\* A refusal says which check failed, and turns nothing on.
LEMMA RefuseStep ==
    ASSUME IInv, NEW r \in Request, Refuse(r) PROVE IInv'
<1> DEFINE v == Verdict(body[r])
<1>0. TypeOK /\ Carried /\ InForce /\ Replied
  BY DEF IInv
<1>1. /\ stage[r] = "routed" /\ op[r] = "enable" /\ v # "ok"
      /\ reply' = [reply EXCEPT ![r] = Refusal(pod[r], v)]
      /\ stage' = [stage EXCEPT ![r] = "replying"]
      /\ UNCHANGED <<now, on, op, body, pod>>
  BY DEF Refuse
<1>2. Refusal(pod[r], v).code \in {400, 501} /\ Refusal(pod[r], v).why = v
  BY DEF Refusal, Code
<1> HIDE DEF v
<1>3. reply'[r] # Nil => reply'[r].code \in {200, 400, 501}
  BY <1>0, <1>1, <1>2 DEF Replied
<1>4. TypeOK'
  BY <1>0, <1>1, <1>3 DEF TypeOK, Stage, Replied
<1>5. Carried'
  BY <1>0, <1>1 DEF TypeOK, Carried
<1>6. InForce'
  BY <1>0, <1>1 DEF TypeOK, InForce, InForceOn, Done, Replied
<1>7. Replied'
  BY <1>0, <1>1, <1>2 DEF TypeOK, Replied, Done, v
<1>8. QED
  BY <1>4, <1>5, <1>6, <1>7 DEF IInv

\* An enable puts in force what its body asks for, which has passed.
LEMMA EnableStep ==
    ASSUME IInv, NEW r \in Request, Enable(r) PROVE IInv'
<1> DEFINE b == body[r]
           act == [from |-> r, matchAll |-> b.matchAll, match |-> b.match,
                   since |-> now, until |-> now + b.ttl]
           answer == StateOf(pod[r], act)
<1>0. TypeOK /\ Carried /\ InForce /\ Replied
  BY DEF IInv
<1>1. /\ stage[r] = "routed" /\ op[r] = "enable" /\ Verdict(b) = "ok"
      /\ on' = [on EXCEPT ![pod[r]] = act]
      /\ reply' = [reply EXCEPT ![r] = answer]
      /\ stage' = [stage EXCEPT ![r] = "replying"]
      /\ UNCHANGED <<now, op, body, pod>>
  BY DEF Enable
<1>2. b \in Body /\ pod[r] \in Pod
  BY <1>0, <1>1 DEF Carried
<1>3. b.ttl \in Int /\ b.ttl > 0
  BY <1>1, <1>2, Passed
<1>4. now + b.ttl \in Nat /\ now \in Nat
  BY <1>0, <1>3 DEF TypeOK
<1>5. act \in Activation /\ act # Nil
  <2>1. b.matchAll \in BOOLEAN
    BY <1>2, BodyAssumption
  <2>2. QED
    BY <1>2, <1>4, <2>1, NilAssumption DEF Activation
<1>6. /\ act.from = r /\ act.matchAll = b.matchAll /\ act.match = b.match
      /\ act.since = now /\ act.until = now + b.ttl
  OBVIOUS
<1> HIDE DEF act
<1>7. /\ answer.code = 200 /\ answer.enabled /\ answer.instance = pod[r]
      /\ answer.targeting = Label(b.matchAll) /\ answer.until = act.until
  BY <1>5, <1>6 DEF StateOf
<1> HIDE DEF answer, b
<1>8. TypeOK'
  <2>1. \A q \in Request : q # r => reply'[q] = reply[q]
    BY <1>0, <1>1 DEF Replied
  <2>2. reply'[r].code = 200
    BY <1>0, <1>1, <1>7 DEF Replied
  <2>3. \A q \in Request : reply'[q] # Nil => reply'[q].code \in {200, 400, 501}
    BY <1>0, <2>1, <2>2 DEF TypeOK
  <2>4. on' \in [Pod -> Activation \cup {Nil}]
    BY <1>0, <1>1, <1>5 DEF TypeOK
  <2>5. stage' \in [Request -> Stage]
    BY <1>0, <1>1 DEF TypeOK, Stage
  <2>6. QED
    BY <1>0, <1>1, <2>3, <2>4, <2>5 DEF TypeOK
<1>9. Carried'
  BY <1>0, <1>1 DEF TypeOK, Carried
<1>10. InForce'
  <2> SUFFICES ASSUME NEW p \in Pod, on'[p] # Nil
               PROVE  InForceOn(p)'
    BY <1>0, <1>1 DEF InForce
  <2>1. CASE p = pod[r]
    <3>1. on'[p] = act
      BY <1>0, <1>1, <2>1 DEF TypeOK
    <3>2. stage'[r] \in Done /\ reply'[r] = answer
      BY <1>0, <1>1 DEF TypeOK, Replied, Done
    <3>3. QED
      BY <1>0, <1>1, <1>4, <1>6, <1>7, <2>1, <3>1, <3>2 DEF InForceOn, b
  <2>2. CASE p # pod[r]
    <3>1. on'[p] = on[p]
      BY <1>0, <1>1, <2>2 DEF TypeOK
    <3>2. on[p].from # r
      BY <1>0, <1>1, <3>1 DEF InForce, InForceOn, Done
    <3>3. QED
      BY <1>0, <1>1, <3>1, <3>2 DEF TypeOK, InForce, InForceOn, Done, Replied
  <2>3. QED
    BY <2>1, <2>2
<1>11. Replied'
  BY <1>0, <1>1, <1>7 DEF TypeOK, Replied, Done, b
<1>12. QED
  BY <1>8, <1>9, <1>10, <1>11 DEF IInv

\* Turning a pod off and reporting on it keep what is known of the others.
LEMMA DisableStatusStep ==
    ASSUME IInv, NEW r \in Request, Disable(r) \/ Status(r) PROVE IInv'
<1>0. TypeOK /\ Carried /\ InForce /\ Replied
  BY DEF IInv
<1>1. PICK a : /\ stage[r] = "routed" /\ op[r] \in {"disable", "status"}
               /\ a.code = 200
               /\ reply' = [reply EXCEPT ![r] = a]
               /\ stage' = [stage EXCEPT ![r] = "replying"]
               /\ on' = on \/ on' = [on EXCEPT ![pod[r]] = Nil]
               /\ UNCHANGED <<now, op, body, pod>>
  <2>1. CASE Disable(r)
    <3>1. Off(pod[r]).code = 200
      BY DEF Off
    <3>2. QED
      BY <2>1, <3>1 DEF Disable
  <2>2. CASE Status(r)
    <3>1. StateOf(pod[r], on[pod[r]]).code = 200
      BY DEF StateOf, Off
    <3>2. QED
      BY <2>2, <3>1 DEF Status
  <2>3. QED
    BY <2>1, <2>2
<1>2. \A p \in Pod : on'[p] # Nil => on'[p] = on[p]
  BY <1>0, <1>1 DEF TypeOK
<1>3. TypeOK'
  <2>1. \A q \in Request : reply'[q] = IF q = r THEN a ELSE reply[q]
    BY <1>0, <1>1 DEF Replied
  <2>2. QED
    BY <1>0, <1>1, <2>1 DEF TypeOK, Stage
<1>4. Carried'
  BY <1>0, <1>1 DEF TypeOK, Carried
<1>5. InForce'
  <2>1. DOMAIN on' = Pod
    BY <1>0, <1>1 DEF InForce
  <2> SUFFICES ASSUME NEW p \in Pod, on'[p] # Nil PROVE InForceOn(p)'
    BY <2>1 DEF InForce
  <2>2. on'[p] = on[p] /\ InForceOn(p) /\ on[p].from # r
    BY <1>0, <1>1, <1>2 DEF InForce, InForceOn, Done
  <2>3. QED
    BY <1>0, <1>1, <2>2 DEF TypeOK, InForceOn, Done, Replied
<1>6. Replied'
  BY <1>0, <1>1 DEF TypeOK, Replied, Done
<1>7. QED
  BY <1>3, <1>4, <1>5, <1>6 DEF IInv

\* Answers are written as they were fixed; activations expire; time passes.
LEMMA OtherStep ==
    ASSUME IInv, (\E r \in Request : Write(r)) \/ (\E p \in Pod : Expire(p))
                    \/ Tick \/ UNCHANGED vars
    PROVE  IInv'
<1>0. TypeOK /\ Carried /\ InForce /\ Replied
  BY DEF IInv
<1>1. ASSUME NEW r \in Request, Write(r) PROVE IInv'
  <2>1. /\ stage[r] = "replying"
        /\ stage' = [stage EXCEPT ![r] = "answered"]
        /\ UNCHANGED <<now, on, op, body, pod>>
    BY <1>1 DEF Write
  <2>2. DOMAIN reply' = Request /\ \A q \in Request : reply'[q] = reply[q]
    BY <1>0, <1>1 DEF Write, Written, Replied
  <2>3. TypeOK' /\ Carried'
    BY <1>0, <2>1, <2>2 DEF TypeOK, Stage, Carried
  <2>4. InForce'
    BY <1>0, <2>1, <2>2 DEF TypeOK, InForce, InForceOn, Done
  <2>5. Replied'
    BY <1>0, <2>1, <2>2 DEF TypeOK, Replied, Done
  <2>6. QED
    BY <2>3, <2>4, <2>5 DEF IInv
<1>2. ASSUME NEW p \in Pod, Expire(p) PROVE IInv'
  <2> USE <1>2 DEF Expire, requestVars
  <2>1. TypeOK' /\ Carried' /\ Replied'
    BY <1>0 DEF TypeOK, Carried, Replied
  <2>2. InForce'
    BY <1>0 DEF TypeOK, InForce, InForceOn
  <2>3. QED
    BY <2>1, <2>2 DEF IInv
<1>3. CASE Tick
  BY <1>0, <1>3 DEF Tick, requestVars, IInv, TypeOK, Carried, InForce, InForceOn, Replied
<1>4. CASE UNCHANGED vars
  BY <1>0, <1>4 DEF vars, requestVars, IInv, TypeOK, Carried, InForce, InForceOn, Replied
<1>5. QED
  BY <1>1, <1>2, <1>3, <1>4

\* The inductive invariant holds in every behaviour.
THEOREM Invariant == Spec => []IInv
<1>1. IInv /\ [Next]_vars => IInv'
  <2> SUFFICES ASSUME IInv, [Next]_vars PROVE IInv'
    OBVIOUS
  <2>1. CASE \E r \in Request, b \in Body, p \in Pod : Send(r, "enable", b, p)
    BY <2>1, SendStep DEF Op
  <2>2. CASE \E r \in Request, o \in {"disable", "status"}, p \in Pod : Send(r, o, Nil, p)
    BY <2>2, SendStep DEF Op
  <2>3. CASE \E r \in Request : Refuse(r) \/ Enable(r) \/ Disable(r) \/ Status(r)
    BY <2>3, RefuseStep, EnableStep, DisableStatusStep
  <2>4. CASE \/ \E r \in Request : Write(r)
             \/ \E p \in Pod : Expire(p)
             \/ Tick \/ UNCHANGED vars
    BY <2>4, OtherStep
  <2>5. QED
    BY <2>1, <2>2, <2>3, <2>4 DEF Next
<1>2. QED
  BY <1>1, InitInvariant, PTL DEF Spec

-------------------------------------------------------------------------------
\* The variables of Control keep their types.
THEOREM TypeCorrect == Spec => []TypeOK
<1>1. IInv => TypeOK
  BY DEF IInv
<1>2. QED
  BY <1>1, Invariant, PTL

\* No request to the endpoint, and no sequence of requests, puts in force an
\* activation that is longer than the cap of its kind, for any caps.
THEOREM BoundedExposureHolds == Spec => []BoundedExposure
<1>1. IInv => BoundedExposure
  <2> SUFFICES ASSUME IInv, NEW p \in Pod, on[p] # Nil
               PROVE  /\ on[p].until > on[p].since
                      /\ on[p].until - on[p].since <= MaxTTL
                      /\ on[p].matchAll => on[p].until - on[p].since <= MaxMatchAllTTL
    BY DEF BoundedExposure
  <2> DEFINE b == body[on[p].from]
  <2>1. /\ b \in Body /\ Verdict(b) = "ok" /\ on[p].matchAll = b.matchAll
        /\ on[p].since \in Nat /\ on[p].until = on[p].since + b.ttl
    BY DEF IInv, InForce, InForceOn, Carried, Done
  <2>2. b.ttl \in Int /\ b.ttl > 0 /\ b.ttl <= Cap(b)
    BY <2>1, Passed
  <2> HIDE DEF b
  <2>3. b.ttl <= MaxTTL /\ (b.matchAll => b.ttl <= MaxMatchAllTTL)
    BY <2>2, CapAssumption DEF Cap
  <2>4. QED
    BY <2>1, <2>2, <2>3, CapAssumption
<1>2. QED
  BY <1>1, Invariant, PTL

\* Nothing in force is wider than what its request asked for, for any bodies.
THEOREM NeverWiderHolds == Spec => []NeverWider
<1>1. IInv => NeverWider
  <2> SUFFICES ASSUME IInv, NEW p \in Pod, on[p] # Nil
               PROVE  LET b == body[on[p].from] IN
                      /\ on[p].matchAll = b.matchAll
                      /\ ~b.matchAll => DOMAIN b.match # {} /\ on[p].match = b.match
                      /\ ~b.methods
    BY DEF NeverWider
  <2> DEFINE b == body[on[p].from]
  <2>1. /\ b \in Body /\ Verdict(b) = "ok"
        /\ on[p].matchAll = b.matchAll /\ on[p].match = b.match
    BY DEF IInv, InForce, InForceOn, Carried, Done
  <2>2. (b.matchAll <=> DOMAIN b.match = {}) /\ ~b.methods
    BY <2>1, Passed
  <2>3. QED
    BY <2>1, <2>2
<1>2. QED
  BY <1>1, Invariant, PTL

\* A client of another version is told about versions, for any bodies: with
\* unknown fields, or with fields of any types.
THEOREM VersionFirstHolds == Spec => []VersionFirst
<1>1. IInv => VersionFirst
  <2> SUFFICES ASSUME IInv, NEW r \in Request,
                      reply[r] # Nil, op[r] = "enable",
                      body[r].readable, body[r].json,
                      body[r].version \notin {Nil, ProtocolVersion}
               PROVE  reply[r].why = "version"
    BY DEF VersionFirst
  <2>1. stage[r] \in Done
    BY DEF IInv, Replied
  <2>2. body[r] \in Body
    BY <2>1 DEF IInv, Carried, Done
  <2>3. Verdict(body[r]) = "version"
    BY <2>2, OtherVersion
  <2>4. QED
    BY <2>1, <2>3 DEF IInv, Replied
<1>2. QED
  BY <1>1, Invariant, PTL

\* An accepted enable is answered with its own activation, whatever other
\* requests do before the answer is written.
THEOREM OwnAnswerHolds == Spec => []OwnAnswer
<1>1. IInv => OwnAnswer
  <2> SUFFICES ASSUME IInv, NEW r \in Request,
                      reply[r] # Nil, op[r] = "enable", reply[r].code = 200
               PROVE  /\ reply[r].enabled
                      /\ reply[r].instance = pod[r]
                      /\ reply[r].targeting = Label(body[r].matchAll)
                      /\ \A p \in Pod : on[p] # Nil /\ on[p].from = r =>
                            p = pod[r] /\ reply[r].until = on[p].until
    BY DEF OwnAnswer
  <2>1. stage[r] \in Done
    BY DEF IInv, Replied
  <2>2. Verdict(body[r]) = "ok"
    BY <2>1 DEF IInv, Replied
  <2>3. \A p \in Pod : on[p] # Nil /\ on[p].from = r =>
            p = pod[r] /\ reply[r].until = on[p].until
    BY DEF IInv, InForce, InForceOn
  <2>4. QED
    BY <2>1, <2>2, <2>3 DEF IInv, Replied
<1>2. QED
  BY <1>1, Invariant, PTL

===============================================================================
