----------------------------- MODULE HttpClient -----------------------------
(***************************************************************************)
(* request_json of app/infrastructure/http/client.py: an outbound HTTP     *)
(* call with tenacity's retries, against a server that cannot be asked     *)
(* what it has done with a request whose answer never came.                *)
(*                                                                         *)
(* A step of a call is one outcome of client.request with the code that    *)
(* handles it up to the next await.  A request that was sent stays on the  *)
(* wire until the server handles it or it is dropped, whether or not the   *)
(* client still waits: a timeout takes nothing back.  Of a response only   *)
(* the class of its status is kept, of an exception only what request_json *)
(* tells apart.                                                            *)
(***************************************************************************)
EXTENDS Integers, FiniteSets

CONSTANTS
    Call,        \* calls of request_json
    MaxAttempts, \* settings.retry_max_attempts
    None         \* no answer yet, no outcome yet

ASSUME AttemptsAssumption == MaxAttempts \in Nat \ {0}

\* 2xx; below 500 but no success, a redirect included, which the client does
\* not follow; 5xx.
Status == {"ok", "refused", "error"}

\* A value is returned, one of three UpstreamProviderErrors is raised, or the
\* cancellation goes through.
Outcome == {"returned", "http_error", "connection_error", "unexpected",
            "cancelled"}

ASSUME NoneAssumption == None \notin Status \cup Outcome

VARIABLES
    pc,        \* what a call is doing
    method,    \* [verb, optIn]: its method and retry_non_idempotent
    attempt,   \* tenacity's attempt_number
    answer,    \* status of the response that is arriving
    outcome,   \* how the call ended
    wire,      \* requests sent, not handled by the server
    executed   \* attempts whose request the server has carried out

vars == <<pc, method, attempt, answer, outcome, wire, executed>>

Attempt == 1..MaxAttempts

Method == [verb : {"idempotent", "post_or_patch"}, optIn : BOOLEAN]

Init ==
    /\ pc = [c \in Call |-> "idle"]
    /\ method \in [Call -> Method]
    /\ attempt = [c \in Call |-> 1]
    /\ answer = [c \in Call |-> None]
    /\ outcome = [c \in Call |-> None]
    /\ wire = {}
    /\ executed = [c \in Call |-> {}]

Goto(c, label) == pc' = [pc EXCEPT ![c] = label]

Finish(c, how) ==
    /\ Goto(c, "done")
    /\ outcome' = [outcome EXCEPT ![c] = how]

-----------------------------------------------------------------------------
(* What request_json does with an exception.                               *)

\* Methods that may be sent again.
Repeatable(c) == ~(method[c].verb = "post_or_patch" /\ ~method[c].optIn)

\* Mutant: the method is not looked at.
RetryAnyMethod(c, exc) ==
    exc \in {"ConnectError", "ReadTimeout", "error"}

\* should_retry: of the exceptions, a status counts if it is a 5xx.
ShouldRetry(c, exc) ==
    /\ exc \in {"ConnectError", "ReadTimeout", "error"}
    /\ Repeatable(c)

\* The UpstreamProviderError an exception is wrapped in.
Wrapped(exc) ==
    CASE exc \in {"refused", "error"}            -> "http_error"
      [] exc \in {"ConnectError", "ReadTimeout"} -> "connection_error"
      [] OTHER                                   -> "unexpected"

\* Mutant: stop_after_attempt(retry_max_attempts - 1).
RaisedStopEarly(c, exc) ==
    IF ShouldRetry(c, exc) /\ attempt[c] + 1 < MaxAttempts
    THEN Goto(c, "backoff") /\ UNCHANGED outcome
    ELSE Finish(c, Wrapped(exc))

\* Mutant: retry_max_attempts retries after the first attempt.
RaisedOnceMore(c, exc) ==
    IF ShouldRetry(c, exc) /\ attempt[c] <= MaxAttempts
    THEN Goto(c, "backoff") /\ UNCHANGED outcome
    ELSE Finish(c, Wrapped(exc))

\* client.request or raise_for_status raises: AsyncRetrying waits for the
\* next attempt, or, after the last, raises the exception itself (reraise).
Raised(c, exc) ==
    IF ShouldRetry(c, exc) /\ attempt[c] < MaxAttempts
    THEN Goto(c, "backoff") /\ UNCHANGED outcome
    ELSE Finish(c, Wrapped(exc))

-----------------------------------------------------------------------------
(* The calls.                                                              *)

Start(c) ==
    /\ pc[c] = "idle"
    /\ Goto(c, "connect")
    /\ UNCHANGED <<method, attempt, answer, outcome, wire, executed>>

\* No connection: refused (ConnectError), or none in time, from the network
\* or from the pool (ConnectTimeout, PoolTimeout), which is no ConnectError.
ConnectFails(c) ==
    /\ pc[c] = "connect"
    /\ \E exc \in {"ConnectError", "ConnectTimeout"} : Raised(c, exc)
    /\ UNCHANGED <<method, attempt, answer, wire, executed>>

Send(c) ==
    /\ pc[c] = "connect"
    /\ wire' = wire \cup {[call |-> c, attempt |-> attempt[c]]}
    /\ Goto(c, "await")
    /\ UNCHANGED <<method, attempt, answer, outcome, executed>>

\* Nothing has arrived for read_timeout_s, or the connection breaks
\* (WriteTimeout, ReadError, RemoteProtocolError).
Lost(c) ==
    /\ pc[c] \in {"await", "body"}
    /\ \E exc \in {"ReadTimeout", "ReadError"} : Raised(c, exc)
    /\ UNCHANGED <<method, attempt, answer, wire, executed>>

\* Mutant: raise_for_status is left out.
ReceiveAny(c) ==
    /\ pc[c] = "body"
    /\ \E how \in {"returned", "unexpected"} : Finish(c, how)
    /\ UNCHANGED <<method, attempt, answer, wire, executed>>

\* The response is complete: raise_for_status, then response.json(), which
\* raises if the body is no JSON.
Receive(c) ==
    /\ pc[c] = "body"
    /\ \/ /\ answer[c] = "ok"
          /\ \E how \in {"returned", "unexpected"} : Finish(c, how)
       \/ /\ answer[c] # "ok"
          /\ Raised(c, answer[c])
    /\ UNCHANGED <<method, attempt, answer, wire, executed>>

\* Mutant: attempts are not counted.
RetryUncounted(c) ==
    /\ pc[c] = "backoff"
    /\ answer' = [answer EXCEPT ![c] = None]
    /\ Goto(c, "connect")
    /\ UNCHANGED <<method, attempt, outcome, wire, executed>>

\* wait_exponential_jitter is over.
Retry(c) ==
    /\ pc[c] = "backoff"
    /\ attempt' = [attempt EXCEPT ![c] = @ + 1]
    /\ answer' = [answer EXCEPT ![c] = None]
    /\ Goto(c, "connect")
    /\ UNCHANGED <<method, outcome, wire, executed>>

\* The task that made the call is cancelled: CancelledError is no Exception,
\* is not retried and is not wrapped.
Cancel(c) ==
    /\ pc[c] \notin {"idle", "done"}
    /\ Finish(c, "cancelled")
    /\ UNCHANGED <<method, attempt, answer, wire, executed>>

-----------------------------------------------------------------------------
(* The server and the network.                                             *)

\* A response reaches the call if that still waits for this attempt.
Respond(m, status) ==
    \/ /\ pc[m.call] = "await"
       /\ attempt[m.call] = m.attempt
       /\ answer' = [answer EXCEPT ![m.call] = status]
       /\ Goto(m.call, "body")
    \/ UNCHANGED <<pc, answer>>

Execute(m) == executed' = [executed EXCEPT ![m.call] = @ \cup {m.attempt}]

\* The server handles a request, however late, and answers it.  Only a success
\* tells that it has carried it out: a redirect, a refusal or a 5xx may come
\* with the effect or without it.
Serve(m) ==
    /\ wire' = wire \ {m}
    /\ \E status \in Status :
          /\ Respond(m, status)
          /\ \/ Execute(m)
             \/ status # "ok" /\ UNCHANGED executed
    /\ UNCHANGED <<method, attempt, outcome>>

\* The request never reaches the server.
Drop(m) ==
    /\ wire' = wire \ {m}
    /\ UNCHANGED <<pc, method, attempt, answer, outcome, executed>>

-----------------------------------------------------------------------------

\* What the timeouts and the event loop see to.
Step(c) ==
    \/ ConnectFails(c) \/ Send(c)
    \/ pc[c] = "await" /\ Lost(c)
    \/ Retry(c)

Next ==
    \/ \E c \in Call : Start(c) \/ ConnectFails(c) \/ Send(c) \/ Lost(c)
                       \/ Receive(c) \/ Retry(c) \/ Cancel(c)
    \/ \E m \in wire : Serve(m) \/ Drop(m)

Spec == Init /\ [][Next]_vars

\* The connect and read timeouts are httpx's; nothing obliges a server that
\* has begun to answer to come to an end.
FairSpec == Spec /\ \A c \in Call : WF_vars(Step(c))

-----------------------------------------------------------------------------
(* Properties.                                                             *)

TypeOK ==
    /\ pc \in [Call -> {"idle", "connect", "await", "body", "backoff", "done"}]
    /\ method \in [Call -> Method]
    /\ attempt \in [Call -> Attempt]
    /\ answer \in [Call -> Status \cup {None}]
    /\ outcome \in [Call -> Outcome \cup {None}]
    /\ wire \subseteq [call : Call, attempt : Attempt]
    /\ executed \in [Call -> SUBSET Attempt]

\* A POST or PATCH whose caller has not opted in takes effect at most once,
\* whatever is lost or late.  And a call that has been answered is settled up
\* to the attempts it had given up on: no request of its last attempt is left
\* that could take effect behind the caller's back.
SingleExecution ==
    \A c \in Call :
        /\ ~Repeatable(c) => Cardinality(executed[c]) <= 1
        /\ outcome[c] \in {"returned", "http_error"} =>
              \A m \in wire : m.call = c => m.attempt < attempt[c]

\* What the caller is told is true: a value is the answer to a request that
\* was carried out, that of the last attempt and none before; a call that may
\* be repeated is reported as failing for a passing reason, a 5xx among them,
\* only when the last attempt it is allowed has failed.
OutcomesAreTrue ==
    \A c \in Call :
        /\ outcome[c] = "returned" => attempt[c] \in executed[c]
        /\ Repeatable(c) /\ \/ outcome[c] = "connection_error"
                            \/ outcome[c] = "http_error" /\ answer[c] = "error"
              => attempt[c] = MaxAttempts

\* Every call ends, however often it is retried, unless a response begins
\* and never comes to its end: no timeout is set on a call as a whole.
CallsEnd ==
    \A c \in Call : \/ pc[c] = "connect" ~> pc[c] = "done"
                    \/ <>[](pc[c] = "body")
=============================================================================
