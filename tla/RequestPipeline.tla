-------------------------- MODULE RequestPipeline --------------------------
(***************************************************************************)
(* The way of a request through the application create_app builds: down    *)
(* the middlewares, to a handler that returns or raises, and back up with  *)
(* a response, or as an exception that no handler inside the middlewares   *)
(* takes and Starlette's ServerErrorMiddleware, outside of all of them,    *)
(* gives to the fallback handler of app/api/errors.py.                     *)
(*                                                                         *)
(* A step is one middleware, on the way down or up.  Every request runs in *)
(* a task of its own, and so has a request_id_var of its own.  A response  *)
(* is its status, the ids in its X-Request-ID header and in its Problem    *)
(* Details body, and whether it has the security headers.                  *)
(***************************************************************************)
EXTENDS Integers, Sequences

CONSTANTS
    Task,       \* tasks, each serving one request at a time
    Id,         \* UUIDs
    NoId,       \* no id, or a header that is no UUID
    NoResponse

\* 200: any success; 400: a preflight refused; 401: any AppError; 404: any
\* HTTPException; 422: invalid input; 500: anything else.
Status == {200, 400, 401, 404, 422, 500}

Response == [status  : Status,
             header  : Id \cup {NoId},
             body    : Id \cup {NoId},
             secured : BOOLEAN]

LogLine == [status : Status, id : Id \cup {NoId}]

ASSUME NullsAssumption == NoId \notin Id /\ NoResponse \notin Response

VARIABLES
    way,        \* which way a request is going
    layer,      \* how many middlewares it is inside of
    inbound,    \* its X-Request-ID header, if that is a UUID
    state,      \* request.state.request_id
    var,        \* request_id_var in its task
    response,   \* the response on its way up
    logged      \* the access-log lines it has produced

pipelineVars == <<way, layer, inbound, state, var, response, logged>>

\* Mutant: CORS is added last; add_middleware wraps what is there, so it is
\* outermost.
StackCorsFirst == <<"cors", "correlation", "access_log", "security_headers">>

\* The middlewares, outermost first.
Stack == <<"correlation", "access_log", "security_headers", "cors">>

PipelineInit ==
    /\ way = [r \in Task |-> "idle"]
    /\ layer = [r \in Task |-> 0]
    /\ inbound = [r \in Task |-> NoId]
    /\ state = [r \in Task |-> NoId]
    /\ var = [r \in Task |-> NoId]
    /\ response = [r \in Task |-> NoResponse]
    /\ logged = [r \in Task |-> <<>>]

\* uuid4() returns an id that no request has.
FreshIds == {i \in Id : \A r \in Task : i \notin {inbound[r], state[r]}}

\* r is about to enter middleware m; r is about to leave it.
Before(r, m) == way[r] = "down" /\ layer[r] < Len(Stack) /\ Stack[layer[r] + 1] = m

Inside(r, m) == layer[r] > 0 /\ Stack[layer[r]] = m

Deeper(r) == layer' = [layer EXCEPT ![r] = @ + 1]

Outwards(r) == layer' = [layer EXCEPT ![r] = @ - 1]

\* The handler, or a middleware in its place, answers.
Respond(r, status, id) ==
    /\ response' = [response EXCEPT ![r] =
          [status |-> status, header |-> id, body |-> id, secured |-> FALSE]]
    /\ way' = [way EXCEPT ![r] = "up"]

-----------------------------------------------------------------------------
(* Down.                                                                   *)

\* A request comes in, with or without a header that is a UUID.
ComeIn(r) ==
    /\ way[r] = "idle"
    /\ way' = [way EXCEPT ![r] = "down"]
    /\ \E i \in Id \cup {NoId} : inbound' = [inbound EXCEPT ![r] = i]
    /\ UNCHANGED <<layer, state, var, response, logged>>

\* CorrelationMiddleware: the header's id, or a new one, is put in the
\* request's state and in the context variable.
EnterCorrelation(r) ==
    /\ Before(r, "correlation")
    /\ \E i \in IF inbound[r] # NoId THEN {inbound[r]} ELSE FreshIds :
          /\ state' = [state EXCEPT ![r] = i]
          /\ var' = [var EXCEPT ![r] = i]
    /\ Deeper(r)
    /\ UNCHANGED <<way, inbound, response, logged>>

\* The others do nothing to a request that goes on.
EnterOther(r) ==
    /\ \E m \in {"access_log", "security_headers", "cors"} : Before(r, m)
    /\ Deeper(r)
    /\ UNCHANGED <<way, inbound, state, var, response, logged>>

\* CORSMiddleware answers a preflight request itself.
Preflight(r) ==
    /\ Before(r, "cors")
    /\ \E status \in {200, 400} : Respond(r, status, NoId)
    /\ UNCHANGED <<layer, inbound, state, var, logged>>

-----------------------------------------------------------------------------
(* The handler.                                                            *)

Handling(r) == way[r] = "down" /\ layer[r] = Len(Stack)

\* Mutant: the id is taken from the context variable only.
ResolveFromContext(r) == IF var[r] # NoId THEN {var[r]} ELSE FreshIds

\* _resolve_request_id: the ids it may return.
Resolve(r) ==
    IF state[r] # NoId THEN {state[r]}
    ELSE IF var[r] # NoId THEN {var[r]}
    ELSE FreshIds

\* It returns a response, or raises an HTTPException, which FastAPI's own
\* handler turns into one without Problem Details.
Return(r) ==
    /\ Handling(r)
    /\ \E status \in {200, 404} : Respond(r, status, NoId)
    /\ UNCHANGED <<layer, inbound, state, var, logged>>

\* It raises an AppError, or its input is invalid: one of the two handlers
\* that run inside the middlewares.
RaiseMapped(r) ==
    /\ Handling(r)
    /\ \E status \in {401, 422}, i \in Resolve(r) : Respond(r, status, i)
    /\ UNCHANGED <<layer, inbound, state, var, logged>>

\* It raises anything else.
Raise(r) ==
    /\ Handling(r)
    /\ way' = [way EXCEPT ![r] = "raising"]
    /\ UNCHANGED <<layer, inbound, state, var, response, logged>>

-----------------------------------------------------------------------------
(* Up.                                                                     *)

\* CORSMiddleware only adds headers of its own.
LeaveCors(r) ==
    /\ way[r] = "up"
    /\ Inside(r, "cors")
    /\ Outwards(r)
    /\ UNCHANGED <<way, inbound, state, var, response, logged>>

\* SecurityHeadersMiddleware, which the settings enable.
LeaveSecurityHeaders(r) ==
    /\ way[r] = "up"
    /\ Inside(r, "security_headers")
    /\ response' = [response EXCEPT ![r].secured = TRUE]
    /\ Outwards(r)
    /\ UNCHANGED <<way, inbound, state, var, logged>>

\* AccessLogMiddleware: one line, with the id of the context variable.
LeaveAccessLog(r) ==
    /\ way[r] = "up"
    /\ Inside(r, "access_log")
    /\ logged' = [logged EXCEPT ![r] =
          Append(@, [status |-> response[r].status, id |-> var[r]])]
    /\ Outwards(r)
    /\ UNCHANGED <<way, inbound, state, var, response>>

\* CorrelationMiddleware sets the header to its id and resets the variable.
LeaveCorrelation(r) ==
    /\ way[r] = "up"
    /\ Inside(r, "correlation")
    /\ response' = [response EXCEPT ![r].header = state[r]]
    /\ var' = [var EXCEPT ![r] = NoId]
    /\ Outwards(r)
    /\ UNCHANGED <<way, inbound, state, logged>>

\* Mutant: CorrelationMiddleware resets the variable on return only.
UnwindNoReset(r) ==
    /\ way[r] = "raising"
    /\ layer[r] > 0
    /\ Outwards(r)
    /\ UNCHANGED <<way, inbound, state, var, response, logged>>

\* An exception passes a middleware: only CorrelationMiddleware has a
\* `finally'.
Unwind(r) ==
    /\ way[r] = "raising"
    /\ layer[r] > 0
    /\ var' = IF Inside(r, "correlation") THEN [var EXCEPT ![r] = NoId] ELSE var
    /\ Outwards(r)
    /\ UNCHANGED <<way, inbound, state, response, logged>>

\* unhandled_exception_handler, in ServerErrorMiddleware.
Unhandled(r) ==
    /\ way[r] = "raising"
    /\ layer[r] = 0
    /\ \E i \in Resolve(r) : Respond(r, 500, i)
    /\ UNCHANGED <<layer, inbound, state, var, logged>>

\* The response has left the application.
Leaving(r) == way[r] = "up" /\ layer[r] = 0

Send(r) ==
    /\ Leaving(r)
    /\ way' = [way EXCEPT ![r] = "idle"]
    /\ inbound' = [inbound EXCEPT ![r] = NoId]
    /\ state' = [state EXCEPT ![r] = NoId]
    /\ response' = [response EXCEPT ![r] = NoResponse]
    /\ logged' = [logged EXCEPT ![r] = <<>>]
    /\ UNCHANGED <<layer, var>>

PipelineStep(r) ==
    \/ EnterCorrelation(r) \/ EnterOther(r) \/ Preflight(r)
    \/ Return(r) \/ RaiseMapped(r) \/ Raise(r)
    \/ LeaveCors(r) \/ LeaveSecurityHeaders(r) \/ LeaveAccessLog(r)
    \/ LeaveCorrelation(r)
    \/ Unwind(r) \/ Unhandled(r) \/ Send(r)

PipelineNext == \E r \in Task : ComeIn(r) \/ PipelineStep(r)

PipelineSpec == PipelineInit /\ [][PipelineNext]_pipelineVars

-----------------------------------------------------------------------------
(* Properties.                                                             *)

\* Besides types: an idle task's context variable has been reset.
PipelineTypeOK ==
    /\ way \in [Task -> {"idle", "down", "up", "raising"}]
    /\ layer \in [Task -> 0..Len(Stack)]
    /\ inbound \in [Task -> Id \cup {NoId}]
    /\ state \in [Task -> Id \cup {NoId}]
    /\ var \in [Task -> Id \cup {NoId}]
    /\ response \in [Task -> Response \cup {NoResponse}]
    /\ logged \in [Task -> Seq(LogLine)]
    /\ \A r \in Task : way[r] = "idle" => var[r] = NoId

\* Every response carries X-Request-ID, that of its own request: the id the
\* client sent if it sent one, and the same as in the body of an error, also
\* if the handler of the error ran outside CorrelationMiddleware.
ResponsesIdentified ==
    \A r \in Task : Leaving(r) =>
        /\ response[r].header \in Id
        /\ response[r].header = state[r]
        /\ inbound[r] # NoId => response[r].header = inbound[r]
        /\ response[r].body \in {NoId, response[r].header}
        /\ response[r].status \in {401, 422, 500} => response[r].body # NoId

\* Only an unhandled exception gets past the middlewares: every response but
\* its 500, a preflight's answer and the error of a handler included, has been
\* logged once, with its own status and id, and carries the security headers.
OnlyExceptionsSlipPast ==
    \A r \in Task : (Leaving(r) /\ response[r].status # 500) =>
        /\ logged[r] = <<[status |-> response[r].status,
                          id |-> response[r].header]>>
        /\ response[r].secured

\* What the documents ask for: every response carries the security headers,
\* and every request produces one line of the access log.
EveryResponseCovered ==
    \A r \in Task : Leaving(r) => response[r].secured /\ Len(logged[r]) = 1
=============================================================================
