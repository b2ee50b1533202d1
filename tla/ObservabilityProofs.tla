------------------------ MODULE ObservabilityProofs ------------------------
(***************************************************************************)
(* Proofs about the two models of app/observability.                       *)
(*                                                                         *)
(* Health and Lifespan: the readiness flag is up only while everything is  *)
(* in place, and a 200 of /readyz was true at a moment for the flag and    *)
(* for each dependency, whatever happened meanwhile.                       *)
(*                                                                         *)
(* RequestPipeline: every response carries the id of its request, and all  *)
(* but that of an unhandled exception are logged and secured.  The two     *)
(* models share no state.                                                  *)
(***************************************************************************)
EXTENDS Health, RequestPipeline, TLAPS

\* The flag is up in one phase only.
ReadyServes == ready => phase = "serving"

\* What a request that is probing has seen.
RequestOK(r) ==
    pc[r] = "probing" =>
        /\ up \subseteq seenUp[r]
        /\ endpoint[r] = "readyz" =>
              /\ seenReady[r]
              /\ Dep \ (pending[r] \cup failed[r]) \subseteq seenUp[r]

HInv ==
    /\ TypeOK
    /\ ReadyServes
    /\ ReadyMeansWired
    /\ \A r \in Request : RequestOK(r)

-----------------------------------------------------------------------------
(* The steps of lifespan().                                                *)

LEMMA LifespanInitOK == LifespanInit => LifespanTypeOK /\ ~ready
BY DEF LifespanInit, LifespanTypeOK, Phases

LEMMA RunHooksTyped ==
    ASSUME LifespanTypeOK, NEW n \in 0..7, RunHooks(n)
    PROVE  /\ wired' \subseteq {Hooks[i] : i \in DOMAIN Hooks}
           /\ client' \in [Dep -> {"none", "open", "closed"}]
           /\ wired' = {Hooks[i] : i \in 1..n}
<1>1. DOMAIN Hooks = 1..7
    BY DEF Hooks
<1> HIDE DEF Hooks
<1> QED
    BY <1>1 DEF RunHooks, LifespanTypeOK

LEMMA LifespanStep ==
    ASSUME LifespanTypeOK, ReadyServes, ReadyMeansWired, LifespanNext
    PROVE  LifespanTypeOK' /\ ReadyServes' /\ ReadyMeansWired'
<1>1. CASE Start
  <2>1. Len(Hooks) = 7 /\ DOMAIN Hooks = 1..7
      BY DEF Hooks
  <2>2. Hooks[1] = "db" /\ Hooks[6] = "redis"
      BY DEF Hooks
  <2>3. RunHooks(7)
      BY <1>1, <2>1 DEF Start
  <2>4. /\ wired' = {Hooks[i] : i \in DOMAIN Hooks}
        /\ client' \in [Dep -> {"none", "open", "closed"}]
      BY <2>1, <2>3, RunHooksTyped
  <2>5. "db" \in wired' /\ "redis" \in wired'
      BY <2>1, <2>2, <2>4
  <2>6. \A d \in Dep : client'[d] = "open"
      BY <2>3, <2>5 DEF RunHooks, Dep
  <2> QED
      BY <1>1, <2>4, <2>6
         DEF Start, LifespanTypeOK, Phases, ReadyServes, ReadyMeansWired
<1>2. CASE StartFails
  <2>1. PICK n \in 0..5 : RunHooks(n) /\ probes' = wired' \cap {"db"}
      BY <1>2 DEF StartFails
  <2>2. n \in 0..7
      OBVIOUS
  <2> QED
      BY <1>2, <2>1, <2>2, RunHooksTyped
         DEF StartFails, LifespanTypeOK, Phases, ReadyServes, ReadyMeansWired, Dep
<1>3. CASE StartFailsLate
  <2>1. 6 \in 0..7
      OBVIOUS
  <2> QED
      BY <1>3, <2>1, RunHooksTyped
         DEF StartFailsLate, LifespanTypeOK, Phases, ReadyServes, ReadyMeansWired, Dep
<1>4. CASE Stop
    BY <1>4 DEF Stop, LifespanTypeOK, Phases, ReadyServes, ReadyMeansWired
<1>5. CASE DisposeEngine
    BY <1>5 DEF DisposeEngine, LifespanTypeOK, Phases, ReadyServes,
                ReadyMeansWired
<1>6. CASE CloseRedis
    BY <1>6 DEF CloseRedis, LifespanTypeOK, Phases, ReadyServes,
                ReadyMeansWired
<1> QED
    BY <1>1, <1>2, <1>3, <1>4, <1>5, <1>6 DEF LifespanNext

LEMMA LifespanFrame ==
    ASSUME LifespanTypeOK, ReadyServes, ReadyMeansWired, UNCHANGED lifespanVars
    PROVE  LifespanTypeOK' /\ ReadyServes' /\ ReadyMeansWired'
BY DEF lifespanVars, LifespanTypeOK, ReadyServes, ReadyMeansWired

-----------------------------------------------------------------------------
(* The steps of a request.                                                 *)

LEMMA ArriveStep ==
    ASSUME HInv, NEW r \in Request, NEW e \in Endpoint, Arrive(r, e)
    PROVE  HInv'
<1>1. LifespanTypeOK' /\ ReadyServes' /\ ReadyMeansWired'
    BY LifespanFrame DEF HInv, TypeOK, Arrive
<1>2. TypeOK'
    BY <1>1 DEF HInv, TypeOK, LifespanTypeOK, Arrive
<1>3. ASSUME NEW o \in Request PROVE RequestOK(o)'
  <2>1. ready /\ o = r => pending'[o] \subseteq Dep /\ (pc[r] = "idle")
      BY <1>2 DEF TypeOK, Arrive
  <2>2. CASE o = r /\ RunsProbes(e)
      BY <2>2 DEF HInv, TypeOK, Arrive, RequestOK, RunsProbes, ReadyMeansWired
  <2>3. CASE ~(o = r /\ RunsProbes(e))
      BY <2>3 DEF HInv, TypeOK, Arrive, RequestOK
  <2> QED
      BY <2>2, <2>3
<1> QED
    BY <1>1, <1>2, <1>3 DEF HInv

LEMMA CheckStep ==
    ASSUME HInv, NEW r \in Request, NEW d \in Dep,
           CheckOk(r, d) \/ CheckFails(r, d)
    PROVE  HInv'
<1>1. LifespanTypeOK' /\ ReadyServes' /\ ReadyMeansWired'
  <2>1. CASE CheckOk(r, d)
      BY <2>1 DEF HInv, TypeOK, LifespanTypeOK, ReadyServes, ReadyMeansWired,
                  CheckOk, Connect
  <2>2. CASE CheckFails(r, d)
      BY <2>2, LifespanFrame DEF HInv, TypeOK, CheckFails
  <2> QED
      BY <2>1, <2>2
<1>2. TypeOK'
    BY <1>1 DEF HInv, TypeOK, CheckOk, CheckFails
<1>3. ASSUME NEW o \in Request PROVE RequestOK(o)'
    BY DEF HInv, TypeOK, CheckOk, CheckFails, RequestOK
<1> QED
    BY <1>1, <1>2, <1>3 DEF HInv

LEMMA ReplyStep ==
    ASSUME HInv, NEW r \in Request, Answer(r) \/ CutOff(r)
    PROVE  HInv'
<1>1. LifespanTypeOK' /\ ReadyServes' /\ ReadyMeansWired'
    BY LifespanFrame DEF HInv, TypeOK, Answer, CutOff, Reply
<1>2. TypeOK'
  <2>1. CASE Answer(r)
    <3>1. Verdict(r) \in {0, 200, 503}
        BY DEF Verdict
    <3> HIDE DEF Verdict
    <3> QED
        BY <1>1, <2>1, <3>1 DEF HInv, TypeOK, Answer, Reply, Endpoint
  <2>2. CASE CutOff(r)
      BY <1>1, <2>2 DEF HInv, TypeOK, CutOff, Reply, Endpoint
  <2> QED
      BY <2>1, <2>2
<1>3. ASSUME NEW o \in Request PROVE RequestOK(o)'
    BY DEF HInv, TypeOK, Answer, CutOff, Reply, RequestOK
<1> QED
    BY <1>1, <1>2, <1>3 DEF HInv

-----------------------------------------------------------------------------
(* The theorems.                                                           *)

LEMMA InvariantInit == Init => HInv
BY LifespanInitOK DEF Init, HInv, TypeOK, Endpoint, ReadyServes,
                      ReadyMeansWired, RequestOK

LEMMA InvariantStep == HInv /\ [Next]_vars => HInv'
<1> SUFFICES ASSUME HInv, [Next]_vars PROVE HInv'
    OBVIOUS
<1>1. CASE Live
  <2>1. LifespanTypeOK' /\ ReadyServes' /\ ReadyMeansWired'
      BY <1>1, LifespanStep DEF HInv, TypeOK, Live
  <2>2. ready' \in BOOLEAN
      BY <2>1 DEF LifespanTypeOK
  <2>3. TypeOK'
      BY <1>1, <2>1, <2>2 DEF HInv, TypeOK, Live
  <2>4. ASSUME NEW r \in Request PROVE RequestOK(r)'
      BY <1>1 DEF HInv, TypeOK, Live, RequestOK
  <2> QED
      BY <2>1, <2>3, <2>4 DEF HInv
<1>2. ASSUME NEW d \in Dep, Turn(d) PROVE HInv'
  <2>1. LifespanTypeOK' /\ ReadyServes' /\ ReadyMeansWired'
      BY <1>2, LifespanFrame DEF HInv, TypeOK, Turn
  <2>2. TypeOK'
      BY <1>2, <2>1 DEF HInv, TypeOK, Turn
  <2>3. ASSUME NEW r \in Request PROVE RequestOK(r)'
      BY <1>2 DEF HInv, TypeOK, Turn, RequestOK
  <2> QED
      BY <2>1, <2>2, <2>3 DEF HInv
<1>3. ASSUME NEW r \in Request, Step(r) PROVE HInv'
    BY <1>3, CheckStep, ReplyStep DEF Step
<1>4. ASSUME NEW r \in Request, NEW e \in Endpoint, Arrive(r, e) PROVE HInv'
    BY <1>4, ArriveStep
<1>5. CASE UNCHANGED vars
  <2>1. UNCHANGED lifespanVars /\ UNCHANGED healthVars
      BY <1>5 DEF vars
  <2>2. LifespanTypeOK' /\ ReadyServes' /\ ReadyMeansWired'
      BY <2>1, LifespanFrame DEF HInv, TypeOK
  <2> QED
      BY <2>1, <2>2 DEF HInv, TypeOK, healthVars, RequestOK
<1> QED
    BY <1>1, <1>2, <1>3, <1>4, <1>5 DEF Next

\* The invariant holds in every reachable state.
THEOREM HealthInvariant == Spec => []HInv
BY InvariantInit, InvariantStep, PTL DEF Spec

\* Every variable keeps its type, and an answered request waits for nothing,
\* for any number of requests.
THEOREM HealthTyped == Spec => []TypeOK
<1>1. HInv => TypeOK
    BY DEF HInv
<1> QED
    BY <1>1, HealthInvariant, PTL

\* The flag never announces a service that a failed start left half wired or
\* whose clients a shutdown has begun to close.
THEOREM ReadyIsWired == Spec => []ReadyMeansWired
<1>1. HInv => ReadyMeansWired
    BY DEF HInv
<1> QED
    BY <1>1, HealthInvariant, PTL

\* With any number of requests probing at once, a 200 of /readyz was true of
\* the flag and of every dependency since the request arrived.
THEOREM ReadyzTellsTheTruth == Spec => ReadyzHonest
<1>1. HInv /\ [Next]_vars => [\A r \in Request : AnswersHonestly(r)]_vars
  <2> SUFFICES ASSUME HInv, [Next]_vars, NEW r \in Request,
                      pc[r] = "probing", pc'[r] = "idle", answer'[r] = 200,
                      endpoint[r] = "readyz"
               PROVE  seenReady[r] /\ seenUp[r] = Dep
      BY DEF AnswersHonestly
  <2>1. ASSUME NEW o \in Request, Answer(o)
        PROVE  o = r /\ pending[r] = {} /\ failed[r] = {}
      BY <2>1 DEF HInv, TypeOK, Answer, Reply, Verdict
  <2>2. ASSUME NEW o \in Request, CutOff(o) PROVE FALSE
      BY <2>2 DEF HInv, TypeOK, CutOff, Reply
  <2>3. ASSUME NEW o \in Request, NEW e \in Endpoint, Arrive(o, e) PROVE FALSE
      BY <2>3 DEF HInv, TypeOK, Arrive
  <2>4. PICK o \in Request : Answer(o)
      BY <2>2, <2>3 DEF Next, Step, Live, Turn, CheckOk, CheckFails, vars,
                        healthVars
  <2>5. pending[r] = {} /\ failed[r] = {}
      BY <2>1, <2>4
  <2>6. seenReady[r] /\ Dep \ (pending[r] \cup failed[r]) \subseteq seenUp[r]
      BY DEF HInv, RequestOK
  <2>7. Dep \subseteq seenUp[r]
      BY <2>5, <2>6
  <2>8. seenUp[r] \subseteq Dep
      BY DEF HInv, TypeOK
  <2> QED
      BY <2>6, <2>7, <2>8
<1> QED
    BY <1>1, HealthInvariant, PTL DEF Spec, ReadyzHonest
-----------------------------------------------------------------------------
(* The invariant of RequestPipeline.                                       *)

\* The id CorrelationMiddleware has chosen for r.
Identified(r) ==
    /\ state[r] \in Id
    /\ inbound[r] # NoId => state[r] = inbound[r]

\* Before r has an answer, nothing has been noted about one.
Unanswered(r) == response[r] = NoResponse /\ logged[r] = <<>>

IdleOK(r) ==
    way[r] = "idle" =>
        /\ layer[r] = 0
        /\ inbound[r] = NoId /\ state[r] = NoId /\ var[r] = NoId
        /\ Unanswered(r)

DownOK(r) ==
    way[r] = "down" =>
        /\ Unanswered(r)
        /\ layer[r] = 0 => state[r] = NoId /\ var[r] = NoId
        /\ layer[r] > 0 => Identified(r) /\ var[r] = state[r]

\* On its way out as an exception: the reset of the context variable does
\* not reach the copy of the id that the fallback handler will use.
RaisingOK(r) ==
    way[r] = "raising" =>
        /\ Unanswered(r)
        /\ Identified(r)
        /\ var[r] = IF layer[r] > 0 THEN state[r] ELSE NoId

\* What a response says of its request once written by a handler.
BodyOK(r) ==
    /\ response[r].body \in {NoId, state[r]}
    /\ response[r].status \in {401, 422, 500} => response[r].body # NoId

\* On its way back: what each middleware it has left has done, what no
\* middleware it is still inside of has done, and, outside of all of them,
\* either that or the answer of the fallback handler.
UpOK(r) ==
    way[r] = "up" =>
        /\ response[r] \in Response
        /\ Identified(r)
        /\ BodyOK(r)
        /\ var[r] = IF layer[r] > 0 THEN state[r] ELSE NoId
        /\ layer[r] > 0 => response[r].status # 500
        /\ layer[r] = 0 => response[r].header = state[r]
        /\ IF layer[r] <= 2 /\ response[r].status # 500
           THEN response[r].secured ELSE ~response[r].secured
        /\ logged[r] =
              IF layer[r] <= 1 /\ response[r].status # 500
              THEN <<[status |-> response[r].status, id |-> state[r]]>>
              ELSE <<>>

RequestInv(r) == IdleOK(r) /\ DownOK(r) /\ RaisingOK(r) /\ UpOK(r)

PipelineInv ==
    /\ PipelineTypeOK
    /\ \A r \in Task : RequestInv(r)

-----------------------------------------------------------------------------
(* The steps of a request through the pipeline.                            *)

LEMMA StackShape ==
    /\ Len(Stack) = 4
    /\ Stack[1] = "correlation" /\ Stack[2] = "access_log"
    /\ Stack[3] = "security_headers" /\ Stack[4] = "cors"
BY DEF Stack

\* Nothing of what r's part of the invariant speaks about has changed.
Untouched(r) ==
    /\ way'[r] = way[r] /\ layer'[r] = layer[r] /\ inbound'[r] = inbound[r]
    /\ state'[r] = state[r] /\ var'[r] = var[r]
    /\ response'[r] = response[r] /\ logged'[r] = logged[r]

LEMMA UntouchedStays ==
    ASSUME NEW r \in Task, RequestInv(r), Untouched(r)
    PROVE  RequestInv(r)'
BY DEF Untouched, RequestInv, IdleOK, DownOK, RaisingOK, UpOK, Unanswered,
       Identified, BodyOK

\* A step of t touches no other request, so t's own part is what is left.
LEMMA OwnPartSuffices ==
    ASSUME PipelineInv, NEW t \in Task, PipelineTypeOK', RequestInv(t)',
           \A r \in Task \ {t} : Untouched(r)
    PROVE  PipelineInv'
BY UntouchedStays DEF PipelineInv


\* How deep a request is tells which middleware it is about to leave, and
\* which it is about to enter.
LEMMA Positions ==
    ASSUME NEW n \in 0..Len(Stack)
    PROVE  /\ n \in 0..4 /\ Len(Stack) = 4
           /\ n > 0 => /\ Stack[n] = "correlation" <=> n = 1
                       /\ Stack[n] = "access_log" <=> n = 2
                       /\ Stack[n] = "security_headers" <=> n = 3
                       /\ Stack[n] = "cors" <=> n = 4
           /\ n < 4 => /\ Stack[n + 1] = "correlation" <=> n = 0
                       /\ Stack[n + 1] = "cors" <=> n = 3
<1>1. n \in 0..4 /\ Len(Stack) = 4
    BY StackShape
<1>2. CASE n = 0
    BY <1>2, StackShape
<1>3. CASE n = 1
    BY <1>3, StackShape
<1>4. CASE n = 2
    BY <1>4, StackShape
<1>5. CASE n = 3
    BY <1>5, StackShape
<1>6. CASE n = 4
    BY <1>6, StackShape
<1> QED
    BY <1>1, <1>2, <1>3, <1>4, <1>5, <1>6

LEMMA LayerTyped ==
    ASSUME PipelineInv, NEW t \in Task
    PROVE  layer[t] \in 0..Len(Stack)
BY DEF PipelineInv, PipelineTypeOK

\* What the middlewares do to a response changes one field of it.
LEMMA SecuredResponse ==
    ASSUME NEW x \in Response, NEW y, y = [x EXCEPT !.secured = TRUE]
    PROVE  /\ y \in Response
           /\ y.status = x.status /\ y.header = x.header /\ y.body = x.body
           /\ y.secured = TRUE
BY DEF Response

LEMMA IdentifiedResponse ==
    ASSUME NEW x \in Response, NEW i \in Id, NEW y,
           y = [x EXCEPT !.header = i]
    PROVE  /\ y \in Response
           /\ y.status = x.status /\ y.header = i /\ y.body = x.body
           /\ y.secured = x.secured
BY DEF Response

\* A handler's answer, whose header and body have the id i.
LEMMA HandlersResponse ==
    ASSUME NEW t \in Task, NEW s \in Status, NEW i \in Id \cup {NoId},
           response \in [Task -> Response \cup {NoResponse}],
           way \in [Task -> {"idle", "down", "up", "raising"}],
           Respond(t, s, i)
    PROVE  /\ response' \in [Task -> Response \cup {NoResponse}]
           /\ way' \in [Task -> {"idle", "down", "up", "raising"}]
           /\ way'[t] = "up"
           /\ response'[t] \in Response
           /\ response'[t].status = s /\ response'[t].secured = FALSE
           /\ response'[t].header = i /\ response'[t].body = i
           /\ \A r \in Task \ {t} : way'[r] = way[r] /\ response'[r] = response[r]
<1> DEFINE x == [status |-> s, header |-> i, body |-> i, secured |-> FALSE]
<1>1. /\ x \in Response
      /\ x.status = s /\ x.header = i /\ x.body = i /\ x.secured = FALSE
    BY DEF Response
<1>2. response' = [response EXCEPT ![t] = x] /\ way' = [way EXCEPT ![t] = "up"]
    BY DEF Respond
<1> HIDE DEF x
<1> QED
    BY <1>1, <1>2

LEMMA ComeInStep ==
    ASSUME PipelineInv, NEW t \in Task, ComeIn(t)
    PROVE  PipelineInv'
<1> USE DEF PipelineInv, PipelineTypeOK, ComeIn
<1>1. \A r \in Task \ {t} : Untouched(r)
    BY DEF Untouched
<1>2. PipelineTypeOK'
    BY DEF RequestInv, IdleOK
<1>3. RequestInv(t)'
    BY DEF RequestInv, IdleOK, DownOK, RaisingOK, UpOK, Unanswered
<1> QED
    BY <1>1, <1>2, <1>3, OwnPartSuffices

LEMMA EnterStep ==
    ASSUME PipelineInv, NEW t \in Task, EnterCorrelation(t) \/ EnterOther(t)
    PROVE  PipelineInv'
<1> USE DEF PipelineInv, PipelineTypeOK
<1>1. CASE EnterCorrelation(t)
  <2>1. layer[t] = 0 /\ Len(Stack) = 4 /\ way[t] = "down"
      BY <1>1, Positions DEF EnterCorrelation, Before
  <2>2. PICK i \in Id :
           /\ state' = [state EXCEPT ![t] = i] /\ var' = [var EXCEPT ![t] = i]
           /\ inbound[t] # NoId => i = inbound[t]
      BY <1>1 DEF EnterCorrelation, FreshIds
  <2>3. /\ layer' = [layer EXCEPT ![t] = 1]
        /\ UNCHANGED <<way, inbound, response, logged>>
      BY <1>1, <2>1 DEF EnterCorrelation, Deeper
  <2>4. PipelineTypeOK'
      BY <2>1, <2>2, <2>3
  <2>5. RequestInv(t)'
      BY <2>1, <2>2, <2>3, NullsAssumption
         DEF RequestInv, IdleOK, DownOK, RaisingOK, UpOK, Unanswered, Identified
  <2> QED
      BY <2>2, <2>3, <2>4, <2>5, OwnPartSuffices DEF Untouched
<1>2. CASE EnterOther(t)
  <2>1. layer[t] \in 1..3 /\ Len(Stack) = 4 /\ way[t] = "down"
      BY <1>2, Positions DEF EnterOther, Before
  <2>2. /\ layer' = [layer EXCEPT ![t] = layer[t] + 1]
        /\ UNCHANGED <<way, inbound, state, var, response, logged>>
      BY <1>2 DEF EnterOther, Deeper
  <2>3. PipelineTypeOK'
      BY <2>1, <2>2
  <2>4. RequestInv(t)'
      BY <2>1, <2>2
         DEF RequestInv, IdleOK, DownOK, RaisingOK, UpOK, Unanswered, Identified
  <2> QED
      BY <2>2, <2>3, <2>4, OwnPartSuffices DEF Untouched
<1> QED
    BY <1>1, <1>2

LEMMA AnswerStep ==
    ASSUME PipelineInv, NEW t \in Task,
           Preflight(t) \/ Return(t) \/ RaiseMapped(t)
    PROVE  PipelineInv'
<1>0. /\ response \in [Task -> Response \cup {NoResponse}]
      /\ way \in [Task -> {"idle", "down", "up", "raising"}]
    BY DEF PipelineInv, PipelineTypeOK
<1> USE DEF PipelineInv, PipelineTypeOK
<1>1. /\ layer[t] \in 3..4 /\ way[t] = "down"
      /\ UNCHANGED <<layer, inbound, state, var, logged>>
    BY LayerTyped, Positions DEF Preflight, Return, RaiseMapped, Handling, Before
<1>2. Identified(t) /\ var[t] = state[t] /\ logged[t] = <<>>
    BY <1>1 DEF RequestInv, DownOK, Unanswered
<1>3. PICK s \in Status \ {500}, i \in {NoId, state[t]} :
         Respond(t, s, i) /\ (s \in {401, 422} => i # NoId)
  <2>1. CASE Preflight(t)
      BY <2>1 DEF Preflight, Status
  <2>2. CASE Return(t)
      BY <2>2 DEF Return, Status
  <2>3. CASE RaiseMapped(t)
    <3>1. Resolve(t) = {state[t]} /\ state[t] # NoId
        BY <1>2, NullsAssumption DEF Resolve, Identified
    <3> QED
        BY <2>3, <3>1 DEF RaiseMapped, Status
  <2> QED
      BY <2>1, <2>2, <2>3
<1>4. i \in Id \cup {NoId} /\ s \in Status /\ Respond(t, s, i)
    BY <1>3
<1>5. /\ response' \in [Task -> Response \cup {NoResponse}]
      /\ way' \in [Task -> {"idle", "down", "up", "raising"}]
      /\ way'[t] = "up"
      /\ response'[t] \in Response
      /\ response'[t].status = s /\ response'[t].secured = FALSE
      /\ response'[t].header = i /\ response'[t].body = i
      /\ \A r \in Task \ {t} : way'[r] = way[r] /\ response'[r] = response[r]
    BY <1>0, <1>4, HandlersResponse
<1>6. PipelineTypeOK'
    BY <1>1, <1>5
<1>7. BodyOK(t)'
    BY <1>1, <1>3, <1>5 DEF BodyOK
<1>8. RequestInv(t)'
    BY <1>1, <1>2, <1>3, <1>5, <1>7
       DEF RequestInv, IdleOK, DownOK, RaisingOK, UpOK, Identified
<1>9. \A r \in Task \ {t} : Untouched(r)
    BY <1>1, <1>5 DEF Untouched
<1> QED
    BY <1>6, <1>8, <1>9, OwnPartSuffices

LEMMA RaiseStep ==
    ASSUME PipelineInv, NEW t \in Task, Raise(t)
    PROVE  PipelineInv'
<1> USE DEF PipelineInv, PipelineTypeOK, Raise
<1>1. layer[t] = 4 /\ way[t] = "down"
    BY Positions DEF Handling
<1>2. PipelineTypeOK'
    OBVIOUS
<1>3. RequestInv(t)'
    BY <1>1 DEF RequestInv, IdleOK, DownOK, RaisingOK, UpOK, Unanswered, Identified
<1> QED
    BY <1>2, <1>3, OwnPartSuffices DEF Untouched

LEMMA LeaveCorsStep ==
    ASSUME PipelineInv, NEW t \in Task, LeaveCors(t)
    PROVE  PipelineInv'
<1> USE DEF PipelineInv, PipelineTypeOK
<1>0. layer[t] = 4 /\ Len(Stack) = 4
    BY LayerTyped, Positions DEF LeaveCors, Inside
<1>1. /\ way[t] = "up"
      /\ layer' = [layer EXCEPT ![t] = 3]
      /\ UNCHANGED <<way, inbound, state, var, response, logged>>
    BY <1>0 DEF LeaveCors, Outwards
<1>2. PipelineTypeOK'
    BY <1>0, <1>1
<1>3. RequestInv(t)'
    BY <1>0, <1>1 DEF RequestInv, IdleOK, DownOK, RaisingOK, UpOK, Identified, BodyOK
<1> QED
    BY <1>0, <1>1, <1>2, <1>3, OwnPartSuffices DEF Untouched

LEMMA SecureStep ==
    ASSUME PipelineInv, NEW t \in Task, LeaveSecurityHeaders(t)
    PROVE  PipelineInv'
<1> DEFINE y == [response[t] EXCEPT !.secured = TRUE]
<1> USE DEF PipelineInv, PipelineTypeOK
<1>0. Inside(t, "security_headers") /\ way[t] = "up" /\ Outwards(t)
    BY DEF LeaveSecurityHeaders
<1>1. /\ layer[t] = 3 /\ Len(Stack) = 4 /\ way[t] = "up"
      /\ layer' = [layer EXCEPT ![t] = 2]
      /\ response' = [response EXCEPT ![t] = y]
      /\ UNCHANGED <<way, inbound, state, var, logged>>
  <2>1. layer[t] = 3 /\ Len(Stack) = 4
      BY <1>0, LayerTyped, Positions DEF Inside
  <2>2. /\ response' = [response EXCEPT ![t] = y]
        /\ UNCHANGED <<way, inbound, state, var, logged>>
      BY DEF LeaveSecurityHeaders
  <2> QED
      BY <1>0, <2>1, <2>2 DEF Outwards
<1>2. response[t] \in Response
    BY <1>1 DEF RequestInv, UpOK
<1>3. /\ y \in Response
      /\ y.status = response[t].status /\ y.header = response[t].header
      /\ y.body = response[t].body /\ y.secured = TRUE
    BY <1>2, SecuredResponse
<1> HIDE DEF y
<1>4. response'[t] = y
    BY <1>1
<1>5. PipelineTypeOK'
    BY <1>1, <1>3
<1>6. RequestInv(t)'
    BY <1>1, <1>3, <1>4
       DEF RequestInv, IdleOK, DownOK, RaisingOK, UpOK, Identified, BodyOK
<1> QED
    BY <1>1, <1>5, <1>6, OwnPartSuffices DEF Untouched

LEMMA LogStep ==
    ASSUME PipelineInv, NEW t \in Task, LeaveAccessLog(t)
    PROVE  PipelineInv'
<1> DEFINE line == [status |-> response[t].status, id |-> var[t]]
<1> USE DEF PipelineInv, PipelineTypeOK
<1>0. Inside(t, "access_log") /\ way[t] = "up" /\ Outwards(t)
    BY DEF LeaveAccessLog
<1>1. /\ layer[t] = 2 /\ Len(Stack) = 4 /\ way[t] = "up"
      /\ layer' = [layer EXCEPT ![t] = 1]
      /\ logged' = [logged EXCEPT ![t] = Append(logged[t], line)]
      /\ UNCHANGED <<way, inbound, state, var, response>>
  <2>1. layer[t] = 2 /\ Len(Stack) = 4
      BY <1>0, LayerTyped, Positions DEF Inside
  <2>2. /\ logged' = [logged EXCEPT ![t] = Append(logged[t], line)]
        /\ UNCHANGED <<way, inbound, state, var, response>>
      BY DEF LeaveAccessLog
  <2> QED
      BY <1>0, <2>1, <2>2 DEF Outwards
<1>2. UpOK(t) /\ logged[t] = <<>> /\ response[t].status # 500 /\ var[t] = state[t]
    BY <1>1 DEF RequestInv, UpOK
<1>3. line \in LogLine
    BY <1>1, <1>2 DEF LogLine, UpOK, Response
<1>4. logged'[t] = <<line>> /\ <<line>> \in Seq(LogLine)
    BY <1>1, <1>2, <1>3
<1>5. PipelineTypeOK'
    BY <1>1, <1>3
<1>6. RequestInv(t)'
    BY <1>1, <1>2, <1>4
       DEF RequestInv, IdleOK, DownOK, RaisingOK, UpOK, Identified, BodyOK
<1> QED
    BY <1>1, <1>5, <1>6, OwnPartSuffices DEF Untouched

LEMMA IdentifyStep ==
    ASSUME PipelineInv, NEW t \in Task, LeaveCorrelation(t)
    PROVE  PipelineInv'
<1> DEFINE y == [response[t] EXCEPT !.header = state[t]]
<1> USE DEF PipelineInv, PipelineTypeOK
<1>0. Inside(t, "correlation") /\ way[t] = "up" /\ Outwards(t)
    BY DEF LeaveCorrelation
<1>1. /\ layer[t] = 1 /\ Len(Stack) = 4 /\ way[t] = "up"
      /\ layer' = [layer EXCEPT ![t] = 0]
      /\ response' = [response EXCEPT ![t] = y]
      /\ var' = [var EXCEPT ![t] = NoId]
      /\ UNCHANGED <<way, inbound, state, logged>>
  <2>1. layer[t] = 1 /\ Len(Stack) = 4
      BY <1>0, LayerTyped, Positions DEF Inside
  <2>2. /\ response' = [response EXCEPT ![t] = y]
        /\ var' = [var EXCEPT ![t] = NoId]
        /\ UNCHANGED <<way, inbound, state, logged>>
      BY DEF LeaveCorrelation
  <2> QED
      BY <1>0, <2>1, <2>2 DEF Outwards
<1>2. response[t] \in Response /\ state[t] \in Id
    BY <1>1 DEF RequestInv, UpOK, Identified
<1>3. /\ y \in Response
      /\ y.status = response[t].status /\ y.header = state[t]
      /\ y.body = response[t].body /\ y.secured = response[t].secured
    BY <1>2, IdentifiedResponse
<1> HIDE DEF y
<1>4. response'[t] = y
    BY <1>1
<1>5. PipelineTypeOK'
    BY <1>1, <1>3
<1>6. RequestInv(t)'
    BY <1>1, <1>3, <1>4
       DEF RequestInv, IdleOK, DownOK, RaisingOK, UpOK, Identified, BodyOK
<1> QED
    BY <1>1, <1>5, <1>6, OwnPartSuffices DEF Untouched

LEMMA UnwindStep ==
    ASSUME PipelineInv, NEW t \in Task, Unwind(t)
    PROVE  PipelineInv'
<1> USE DEF PipelineInv, PipelineTypeOK
<1>1. /\ layer[t] \in 1..4 /\ Len(Stack) = 4 /\ way[t] = "raising"
      /\ layer' = [layer EXCEPT ![t] = layer[t] - 1]
      /\ var' = IF layer[t] = 1 THEN [var EXCEPT ![t] = NoId] ELSE var
      /\ UNCHANGED <<way, inbound, state, response, logged>>
    BY Positions DEF Unwind, Inside, Outwards
<1>2. PipelineTypeOK'
    BY <1>1
<1>3. RequestInv(t)'
    BY <1>1 DEF RequestInv, IdleOK, DownOK, RaisingOK, UpOK, Unanswered, Identified
<1> QED
    BY <1>1, <1>2, <1>3, OwnPartSuffices DEF Untouched

\* Outside of every middleware the variable has been reset, and the handler
\* finds the id in the request's state.
LEMMA UnhandledStep ==
    ASSUME PipelineInv, NEW t \in Task, Unhandled(t)
    PROVE  PipelineInv'
<1>0. /\ response \in [Task -> Response \cup {NoResponse}]
      /\ way \in [Task -> {"idle", "down", "up", "raising"}]
    BY DEF PipelineInv, PipelineTypeOK
<1> USE DEF PipelineInv, PipelineTypeOK
<1>1. /\ layer[t] = 0 /\ way[t] = "raising"
      /\ UNCHANGED <<layer, inbound, state, var, logged>>
    BY DEF Unhandled
<1>2. Identified(t) /\ var[t] = NoId /\ logged[t] = <<>>
    BY <1>1 DEF RequestInv, RaisingOK, Unanswered
<1>3. Resolve(t) = {state[t]} /\ state[t] \in Id /\ state[t] # NoId
    BY <1>2, NullsAssumption DEF Resolve, Identified
<1>4. Respond(t, 500, state[t]) /\ 500 \in Status
    BY <1>3 DEF Unhandled, Status
<1>5. /\ response' \in [Task -> Response \cup {NoResponse}]
      /\ way' \in [Task -> {"idle", "down", "up", "raising"}]
      /\ way'[t] = "up"
      /\ response'[t] \in Response
      /\ response'[t].status = 500 /\ response'[t].secured = FALSE
      /\ response'[t].header = state[t] /\ response'[t].body = state[t]
      /\ \A r \in Task \ {t} : way'[r] = way[r] /\ response'[r] = response[r]
    BY <1>0, <1>3, <1>4, HandlersResponse
<1>6. PipelineTypeOK'
    BY <1>1, <1>5
<1>7. RequestInv(t)'
    BY <1>1, <1>2, <1>3, <1>5
       DEF RequestInv, IdleOK, DownOK, RaisingOK, UpOK, Identified, BodyOK
<1>8. \A r \in Task \ {t} : Untouched(r)
    BY <1>1, <1>5 DEF Untouched
<1> QED
    BY <1>6, <1>7, <1>8, OwnPartSuffices

LEMMA SendStep ==
    ASSUME PipelineInv, NEW t \in Task, Send(t)
    PROVE  PipelineInv'
<1> USE DEF PipelineInv, PipelineTypeOK, Send, Leaving
<1>1. var[t] = NoId
    BY DEF RequestInv, UpOK
<1>2. PipelineTypeOK'
    BY <1>1
<1>3. RequestInv(t)'
    BY <1>1 DEF RequestInv, IdleOK, DownOK, RaisingOK, UpOK, Unanswered
<1> QED
    BY <1>2, <1>3, OwnPartSuffices DEF Untouched

LEMMA PipelineInvInit == PipelineInit => PipelineInv
BY StackShape
   DEF PipelineInit, PipelineInv, PipelineTypeOK, RequestInv, IdleOK, DownOK,
       RaisingOK, UpOK, Unanswered

LEMMA PipelineInvStep == PipelineInv /\ [PipelineNext]_pipelineVars => PipelineInv'
<1> SUFFICES ASSUME PipelineInv, [PipelineNext]_pipelineVars PROVE PipelineInv'
    OBVIOUS
<1>1. ASSUME NEW t \in Task, ComeIn(t) \/ PipelineStep(t) PROVE PipelineInv'
    BY <1>1, ComeInStep, EnterStep, AnswerStep, RaiseStep, LeaveCorsStep,
       SecureStep, LogStep, IdentifyStep, UnwindStep, UnhandledStep, SendStep
       DEF PipelineStep
<1>2. CASE UNCHANGED pipelineVars
  <2>1. \A r \in Task : Untouched(r)
      BY <1>2 DEF pipelineVars, Untouched
  <2>2. PipelineTypeOK'
      BY <1>2 DEF pipelineVars, PipelineInv, PipelineTypeOK
  <2> QED
      BY <2>1, <2>2, UntouchedStays DEF PipelineInv
<1> QED
    BY <1>1, <1>2 DEF PipelineNext

-----------------------------------------------------------------------------
(* The theorems about RequestPipeline.                                     *)

\* Whatever other requests do, what each middleware has noted of a request
\* is what the request's place in the stack says.
THEOREM PipelineInvariant == PipelineSpec => []PipelineInv
BY PipelineInvInit, PipelineInvStep, PTL DEF PipelineSpec

\* Every variable keeps its type, and no context variable outlives its
\* request, for any number of tasks.
THEOREM PipelineTyped == PipelineSpec => []PipelineTypeOK
<1>1. PipelineInv => PipelineTypeOK
    BY DEF PipelineInv
<1> QED
    BY <1>1, PipelineInvariant, PTL

\* Every response leaves under the id of its own request, from whichever of
\* the handlers it comes.
THEOREM ResponsesCarryTheirIds == PipelineSpec => []ResponsesIdentified
<1>1. PipelineInv => ResponsesIdentified
  <2> SUFFICES ASSUME PipelineInv, NEW r \in Task, way[r] = "up", layer[r] = 0
               PROVE  /\ response[r].header \in Id
                      /\ response[r].header = state[r]
                      /\ inbound[r] # NoId => response[r].header = inbound[r]
                      /\ response[r].body \in {NoId, response[r].header}
                      /\ response[r].status \in {401, 422, 500}
                            => response[r].body # NoId
      BY DEF ResponsesIdentified, Leaving
  <2>1. UpOK(r)
      BY DEF PipelineInv, RequestInv
  <2> QED
      BY <2>1 DEF UpOK, Identified, BodyOK
<1> QED
    BY <1>1, PipelineInvariant, PTL

\* All that leaves unlogged and unsecured is the 500 of an exception that no
\* handler inside the middlewares takes.
THEOREM OnlyTheUnhandledSlipPast == PipelineSpec => []OnlyExceptionsSlipPast
<1>1. PipelineInv => OnlyExceptionsSlipPast
  <2> SUFFICES ASSUME PipelineInv, NEW r \in Task, way[r] = "up", layer[r] = 0,
                      response[r].status # 500
               PROVE  /\ logged[r] = <<[status |-> response[r].status,
                                        id |-> response[r].header]>>
                      /\ response[r].secured
      BY DEF OnlyExceptionsSlipPast, Leaving
  <2>1. UpOK(r)
      BY DEF PipelineInv, RequestInv
  <2> QED
      BY <2>1 DEF UpOK
<1> QED
    BY <1>1, PipelineInvariant, PTL
=============================================================================
