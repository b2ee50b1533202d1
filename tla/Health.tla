------------------------------- MODULE Health -------------------------------
(***************************************************************************)
(* The health endpoints of app/observability/health.py over the life of    *)
(* the process: requests to /healthz and /readyz, each running the         *)
(* registered probes concurrently under a timeout, while dependencies fail *)
(* and recover and the process starts and stops.  /livez looks at nothing. *)
(*                                                                         *)
(* The ASGI server is not part of the repository.  Nothing is assumed of   *)
(* it but that no request arrives once the process has ended: requests may *)
(* come before startup and be running during shutdown.                     *)
(***************************************************************************)
EXTENDS Lifespan

CONSTANTS Request   \* slots for concurrent requests

VARIABLES
    up,        \* the dependencies that answer; others refuse, or hang
    pc,        \* what a request is doing
    endpoint,  \* the endpoint it is for
    pending,   \* the probes it is waiting for
    failed,    \* the probes that reported an error
    answer,    \* the status the last one was answered with
    seenReady, \* the flag was up at some moment since it arrived
    seenUp     \* dependencies that answered at some moment since it arrived

healthVars ==
    <<up, pc, endpoint, pending, failed, answer, seenReady, seenUp>>

vars == <<lifespanVars, healthVars>>

Endpoint == {"healthz", "readyz"}

Init ==
    /\ LifespanInit
    /\ up = Dep
    /\ pc = [r \in Request |-> "idle"]
    /\ endpoint = [r \in Request |-> "healthz"]
    /\ pending = [r \in Request |-> {}]
    /\ failed = [r \in Request |-> {}]
    /\ answer = [r \in Request |-> 0]
    /\ seenReady = [r \in Request |-> FALSE]
    /\ seenUp = [r \in Request |-> {}]

Alive == phase \notin {"stopped", "failed"}

-----------------------------------------------------------------------------
(* The requests.                                                           *)

\* Whether the request goes on to run the probes.
RunsProbes(e) == ~(e = "readyz" /\ ~ready)

\* A request arrives: /readyz is answered 503 at once while the flag is down;
\* else run_all begins a check of every probe registered by now.
Arrive(r, e) ==
    /\ pc[r] = "idle"
    /\ Alive
    /\ \/ /\ RunsProbes(e)
          /\ pc' = [pc EXCEPT ![r] = "probing"]
          /\ endpoint' = [endpoint EXCEPT ![r] = e]
          /\ pending' = [pending EXCEPT ![r] = probes]
          /\ seenReady' = [seenReady EXCEPT ![r] = ready]
          /\ seenUp' = [seenUp EXCEPT ![r] = up]
          /\ answer' = [answer EXCEPT ![r] = 0]
       \/ /\ ~RunsProbes(e)
          /\ answer' = [answer EXCEPT ![r] = 503]
          /\ UNCHANGED <<pc, endpoint, pending, seenReady, seenUp>>
    /\ UNCHANGED <<lifespanVars, up, failed>>

\* A client that is used connects, even one that has been closed.
Connect(d) == client' = [client EXCEPT ![d] = "open"]

\* The check of d by r reports ok.
CheckOk(r, d) ==
    /\ d \in pending[r]
    /\ d \in up
    /\ Connect(d)
    /\ pending' = [pending EXCEPT ![r] = @ \ {d}]
    /\ UNCHANGED <<phase, ready, wired, probes, up, pc, endpoint, failed,
                   answer, seenReady, seenUp>>

\* Mutant: a failing check is reported as ok.
CheckSwallowed(r, d) ==
    /\ d \in pending[r]
    /\ d \notin up
    /\ pending' = [pending EXCEPT ![r] = @ \ {d}]
    /\ UNCHANGED <<lifespanVars, up, pc, endpoint, failed, answer,
                   seenReady, seenUp>>

\* Mutant: _safe_check applies no timeout, and a dependency that does not
\* answer hangs.
CheckNoTimeout(r, d) ==
    /\ d \in pending[r]
    /\ d \in up
    /\ pending' = [pending EXCEPT ![r] = @ \ {d}]
    /\ failed' = [failed EXCEPT ![r] = @ \cup {d}]
    /\ UNCHANGED <<lifespanVars, up, pc, endpoint, answer, seenReady,
                   seenUp>>

\* The check of d by r raises, whatever the state of d, or runs into the
\* timeout: _safe_check reports an error.
CheckFails(r, d) ==
    /\ d \in pending[r]
    /\ pending' = [pending EXCEPT ![r] = @ \ {d}]
    /\ failed' = [failed EXCEPT ![r] = @ \cup {d}]
    /\ UNCHANGED <<lifespanVars, up, pc, endpoint, answer, seenReady,
                   seenUp>>

\* r ends with the given status, 0 for none.
Reply(r, status) ==
    /\ answer' = [answer EXCEPT ![r] = status]
    /\ pc' = [pc EXCEPT ![r] = "idle"]
    /\ endpoint' = [endpoint EXCEPT ![r] = "healthz"]
    /\ failed' = [failed EXCEPT ![r] = {}]
    /\ seenReady' = [seenReady EXCEPT ![r] = FALSE]
    /\ seenUp' = [seenUp EXCEPT ![r] = {}]
    /\ UNCHANGED <<lifespanVars, up>>

\* 200 if no probe has reported an error.
Verdict(r) == IF failed[r] = {} THEN 200 ELSE 503

\* Mutant: the results of the probes are not awaited.
AnswerAtOnce(r) ==
    /\ pc[r] = "probing"
    /\ Reply(r, Verdict(r))
    /\ UNCHANGED pending

\* Every probe has reported.
Answer(r) ==
    /\ pc[r] = "probing"
    /\ pending[r] = {}
    /\ Reply(r, Verdict(r))
    /\ UNCHANGED pending

\* The process has ended, and the request with it.
CutOff(r) ==
    /\ pc[r] = "probing"
    /\ ~Alive
    /\ Reply(r, 0)
    /\ pending' = [pending EXCEPT ![r] = {}]

-----------------------------------------------------------------------------
(* The rest.                                                               *)

\* A dependency stops answering, or answers again.
Turn(d) ==
    /\ up' = (up \ {d}) \cup ({d} \ up)
    /\ seenUp' = [r \in Request |->
                     IF pc[r] = "probing" THEN seenUp[r] \cup up' ELSE seenUp[r]]
    /\ UNCHANGED <<lifespanVars, pc, endpoint, pending, failed, answer,
                   seenReady>>

\* A step of lifespan(), as the requests see it.
Live ==
    /\ LifespanNext
    /\ seenReady' = [r \in Request |->
                        seenReady[r] \/ (pc[r] = "probing" /\ ready')]
    /\ UNCHANGED <<up, pc, endpoint, pending, failed, answer, seenUp>>

Step(r) ==
    \/ \E d \in Dep : CheckOk(r, d) \/ CheckFails(r, d)
    \/ Answer(r) \/ CutOff(r)

Next ==
    \/ Live
    \/ \E d \in Dep : Turn(d)
    \/ \E r \in Request : Step(r) \/ \E e \in Endpoint : Arrive(r, e)

Spec == Init /\ [][Next]_vars

\* The event loop runs every request on, and fires its timeouts.
FairSpec == Spec /\ \A r \in Request : WF_vars(Step(r))

-----------------------------------------------------------------------------
(* Properties.                                                             *)

\* Besides types: a request that has been answered waits for no probe.
TypeOK ==
    /\ LifespanTypeOK
    /\ up \subseteq Dep
    /\ pc \in [Request -> {"idle", "probing"}]
    /\ endpoint \in [Request -> Endpoint]
    /\ pending \in [Request -> SUBSET Dep]
    /\ failed \in [Request -> SUBSET Dep]
    /\ answer \in [Request -> {0, 200, 503}]
    /\ seenReady \in [Request -> BOOLEAN]
    /\ seenUp \in [Request -> SUBSET Dep]
    /\ \A r \in Request : pc[r] = "idle" => pending[r] = {}

AnswersHonestly(r) ==
    (pc[r] = "probing" /\ pc'[r] = "idle" /\ answer'[r] = 200
        /\ endpoint[r] = "readyz")
            => seenReady[r] /\ seenUp[r] = Dep

\* What /readyz says is so: a 200 means that since the request arrived the
\* service was ready and every dependency answered, however startup, shutdown
\* and the failures of dependencies fall between its steps.
ReadyzHonest == [][\A r \in Request : AnswersHonestly(r)]_vars

\* A health request ends, also when a dependency hangs.
HealthAnswers == \A r \in Request : pc[r] = "probing" ~> pc[r] = "idle"
=============================================================================
