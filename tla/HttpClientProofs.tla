-------------------------- MODULE HttpClientProofs --------------------------
(***************************************************************************)
(* Proofs about HttpClient, for any calls and any limit on the attempts.   *)
(* What a call is told is true because the server is through with the      *)
(* attempt it answers (AnswersOK); a call that may not be repeated never   *)
(* leaves its first attempt (AttemptsOK), and only what has been sent can  *)
(* be carried out (SentOK).                                                *)
(***************************************************************************)
EXTENDS HttpClient, FiniteSetTheorems, TLAPS

\* Requests of call c that the server has not handled.
Pending(c, k) == [call |-> c, attempt |-> k] \in wire

\* A call that waits for its next attempt may be repeated and has one left;
\* one that may not be repeated is at its first.
AttemptsOK ==
    \A c \in Call :
        /\ pc[c] = "backoff" => Repeatable(c) /\ attempt[c] < MaxAttempts
        /\ ~Repeatable(c) => attempt[c] = 1

\* An attempt that has not been sent is not on the wire and has not been
\* carried out; one that has been carried out is off the wire.
SentOK ==
    \A c \in Call :
        /\ \A k \in Attempt :
              /\ Pending(c, k) \/ k \in executed[c] => k <= attempt[c]
              /\ ~(Pending(c, k) /\ k \in executed[c])
        /\ pc[c] \in {"idle", "connect"}
              => ~Pending(c, attempt[c]) /\ attempt[c] \notin executed[c]

\* What a call has been answered about its last attempt is so, and the server
\* is through with that attempt.
AnswersOK ==
    \A c \in Call :
        (pc[c] = "body" \/ outcome[c] \in {"returned", "http_error"}) =>
            /\ answer[c] \in Status
            /\ ~Pending(c, attempt[c])
            /\ answer[c] = "ok" => attempt[c] \in executed[c]

\* How a call has ended agrees with its answer and with its attempts.
OutcomesOK ==
    \A c \in Call :
        /\ outcome[c] # None => pc[c] = "done"
        /\ outcome[c] = "returned" => answer[c] = "ok"
        /\ Repeatable(c) /\ \/ outcome[c] = "connection_error"
                            \/ outcome[c] = "http_error" /\ answer[c] = "error"
              => attempt[c] = MaxAttempts

HInv == TypeOK /\ AttemptsOK /\ SentOK /\ AnswersOK /\ OutcomesOK

-----------------------------------------------------------------------------
LEMMA InvInit == Init => HInv
BY AttemptsAssumption, NoneAssumption
   DEF Init, HInv, TypeOK, Outcome, AttemptsOK, SentOK, AnswersOK, OutcomesOK, Attempt,
       Status, Method, Pending

LEMMA RaisedEnds ==
  ASSUME HInv, NEW c \in Call, pc[c] \notin {"idle", "done"},
         NEW exc \in {"ConnectError", "ConnectTimeout", "ReadTimeout",
                      "ReadError", "refused", "error"},
         exc \in {"refused", "error"} => pc[c] = "body" /\ answer[c] = exc,
         Raised(c, exc),
         UNCHANGED <<method, attempt, answer, wire, executed>>
  PROVE  HInv'
<1> USE AttemptsAssumption, NoneAssumption
    DEF HInv, Outcome, Status, Attempt, Pending, Repeatable
<1>1. CASE ShouldRetry(c, exc) /\ attempt[c] < MaxAttempts
  <2>1. pc' = [pc EXCEPT ![c] = "backoff"] /\ outcome' = outcome
    BY <1>1 DEF Raised, Goto
  <2>2. TypeOK'
    BY <2>1 DEF TypeOK
  <2>3. AttemptsOK' /\ SentOK'
    BY <1>1, <2>1 DEF TypeOK, AttemptsOK, SentOK, ShouldRetry
  <2>4. AnswersOK' /\ OutcomesOK'
    BY <2>1 DEF TypeOK, AnswersOK, OutcomesOK
  <2> QED
    BY <2>2, <2>3, <2>4
<1>2. CASE ~(ShouldRetry(c, exc) /\ attempt[c] < MaxAttempts)
  <2>1. /\ pc' = [pc EXCEPT ![c] = "done"]
        /\ outcome' = [outcome EXCEPT ![c] = Wrapped(exc)]
    BY <1>2 DEF Raised, Goto, Finish
  <2>2. Wrapped(exc) = IF exc \in {"refused", "error"} THEN "http_error"
                       ELSE IF exc \in {"ConnectError", "ReadTimeout"}
                       THEN "connection_error" ELSE "unexpected"
    BY DEF Wrapped
  <2>3. TypeOK'
    BY <2>1, <2>2 DEF TypeOK
  <2>4. AttemptsOK' /\ SentOK'
    BY <2>1 DEF TypeOK, AttemptsOK, SentOK
  <2>5. AnswersOK'
    BY <2>1, <2>2 DEF TypeOK, AnswersOK
  <2>6. OutcomesOK'
    BY <1>2, <2>1, <2>2 DEF TypeOK, OutcomesOK, ShouldRetry
  <2> QED
    BY <2>3, <2>4, <2>5, <2>6
<1> QED
  BY <1>1, <1>2

LEMMA StartKeeps == ASSUME HInv, NEW c \in Call, Start(c) PROVE HInv'
BY DEF HInv, TypeOK, AttemptsOK, SentOK, AnswersOK, OutcomesOK, Pending,
       Repeatable, Start, Goto

LEMMA ConnectFailsKeeps ==
  ASSUME HInv, NEW c \in Call, ConnectFails(c) PROVE HInv'
BY RaisedEnds DEF ConnectFails

LEMMA LostKeeps == ASSUME HInv, NEW c \in Call, Lost(c) PROVE HInv'
BY RaisedEnds DEF Lost

LEMMA FinishKeeps ==
  ASSUME HInv, NEW c \in Call, pc[c] \notin {"idle", "done"},
         NEW how \in {"returned", "unexpected", "cancelled"}, Finish(c, how),
         how = "returned" => pc[c] = "body" /\ answer[c] = "ok",
         UNCHANGED <<method, attempt, answer, wire, executed>>
  PROVE  HInv'
BY NoneAssumption
   DEF HInv, TypeOK, AttemptsOK, SentOK, AnswersOK, OutcomesOK, Pending,
       Repeatable, Finish, Goto, Outcome, Status

LEMMA ReceiveKeeps == ASSUME HInv, NEW c \in Call, Receive(c) PROVE HInv'
<1>1. CASE answer[c] = "ok"
  BY <1>1, FinishKeeps DEF Receive
<1>2. CASE answer[c] # "ok" /\ answer[c] \in Status
  <2> DEFINE exc == answer[c]
  <2>1. /\ pc[c] = "body"
        /\ exc \in {"refused", "error"}
        /\ Raised(c, exc)
        /\ UNCHANGED <<method, attempt, answer, wire, executed>>
    BY <1>2 DEF Receive, Status
  <2> HIDE DEF exc
  <2>2. exc = answer[c]
    BY DEF exc
  <2> QED
    BY <2>1, <2>2, RaisedEnds
<1>3. answer[c] \in Status
  BY NoneAssumption DEF HInv, TypeOK, AnswersOK, Receive
<1> QED
  BY <1>1, <1>2, <1>3

LEMMA CancelKeeps == ASSUME HInv, NEW c \in Call, Cancel(c) PROVE HInv'
BY FinishKeeps DEF Cancel

LEMMA SendKeeps == ASSUME HInv, NEW c \in Call, Send(c) PROVE HInv'
<1> USE NoneAssumption DEF HInv, Outcome, Send, Goto, Pending, Repeatable, Attempt
<1>1. TypeOK'
  BY DEF TypeOK
<1>2. AttemptsOK' /\ OutcomesOK'
  BY DEF TypeOK, AttemptsOK, OutcomesOK
<1>3. \A d \in Call, k \in Attempt :
        Pending(d, k)' <=> (Pending(d, k) \/ (d = c /\ k = attempt[c]))
  OBVIOUS
<1> HIDE DEF Pending
<1>4. SentOK'
  BY <1>3 DEF TypeOK, SentOK
<1>5. AnswersOK'
  BY <1>3 DEF TypeOK, AnswersOK, OutcomesOK
<1> QED
  BY <1>1, <1>2, <1>4, <1>5

LEMMA RetryKeeps == ASSUME HInv, NEW c \in Call, Retry(c) PROVE HInv'
<1> USE AttemptsAssumption, NoneAssumption DEF HInv, Outcome, Retry, Goto, Pending, Repeatable, Attempt
<1>1. /\ attempt[c] \in Nat /\ attempt[c] < MaxAttempts /\ Repeatable(c)
      /\ outcome[c] = None
  BY DEF TypeOK, AttemptsOK, OutcomesOK
<1>2. TypeOK'
  BY <1>1 DEF TypeOK
<1>3. AttemptsOK'
  BY <1>1 DEF TypeOK, AttemptsOK
<1>4. SentOK'
  <2> SUFFICES ASSUME NEW d \in Call
               PROVE  /\ \A k \in Attempt :
                            /\ Pending(d, k)' \/ k \in executed'[d]
                                  => k <= attempt'[d]
                            /\ ~(Pending(d, k)' /\ k \in executed'[d])
                      /\ pc'[d] \in {"idle", "connect"}
                            => ~Pending(d, attempt[d])' /\ attempt'[d] \notin executed'[d]
    BY DEF SentOK
  <2>1. CASE d = c
    <3>1. /\ attempt'[c] = attempt[c] + 1 /\ attempt'[c] \in Attempt
          /\ wire' = wire /\ executed' = executed
      BY <1>1 DEF TypeOK
    <3>2. \A k \in Attempt : /\ Pending(c, k) \/ k \in executed[c] => k <= attempt[c]
                             /\ ~(Pending(c, k) /\ k \in executed[c])
      BY DEF SentOK
    <3>3. ~Pending(c, attempt'[c]) /\ attempt'[c] \notin executed[c]
      BY <1>1, <3>1, <3>2
    <3> QED
      BY <1>1, <2>1, <3>1, <3>2, <3>3
  <2>2. CASE d # c
    BY <2>2 DEF TypeOK, SentOK
  <2> QED
    BY <2>1, <2>2
<1>5. AnswersOK' /\ OutcomesOK'
  BY <1>1, NoneAssumption DEF TypeOK, AnswersOK, OutcomesOK
<1> QED
  BY <1>2, <1>3, <1>4, <1>5

LEMMA ServeKeeps == ASSUME HInv, NEW m \in wire, Serve(m) PROVE HInv'
BY DEF HInv, TypeOK, AttemptsOK, SentOK, AnswersOK, OutcomesOK, Pending,
       Repeatable, Serve, Respond, Execute, Goto, Attempt, Status

LEMMA DropKeeps == ASSUME HInv, NEW m \in wire, Drop(m) PROVE HInv'
BY DEF HInv, TypeOK, AttemptsOK, SentOK, AnswersOK, OutcomesOK, Pending,
       Repeatable, Drop

-----------------------------------------------------------------------------
THEOREM CallInvariant == Spec => []HInv
<1>1. ASSUME HInv, [Next]_vars PROVE HInv'
  <2>1. ASSUME NEW c \in Call,
               Start(c) \/ ConnectFails(c) \/ Send(c) \/ Lost(c)
                 \/ Receive(c) \/ Retry(c) \/ Cancel(c)
        PROVE  HInv'
    BY <1>1, <2>1, StartKeeps, ConnectFailsKeeps, SendKeeps, LostKeeps,
       ReceiveKeeps, RetryKeeps, CancelKeeps
  <2>2. ASSUME NEW m \in wire, Serve(m) \/ Drop(m) PROVE HInv'
    BY <1>1, <2>2, ServeKeeps, DropKeeps
  <2>3. CASE UNCHANGED vars
    BY <1>1, <2>3 DEF vars, HInv, TypeOK, AttemptsOK, SentOK, AnswersOK,
                      OutcomesOK, Pending, Repeatable
  <2> QED
    BY <1>1, <2>1, <2>2, <2>3 DEF Next
<1> QED
  BY InvInit, <1>1, PTL DEF Spec

\* Every variable of a call and of the wire keeps its type; in particular no
\* call makes more than MaxAttempts attempts.
THEOREM CallsTyped == Spec => []TypeOK
BY CallInvariant, PTL DEF HInv

\* However requests are lost, carried out late or answered with errors, one
\* that is not to be repeated takes effect at most once, and an answered call
\* leaves no request of its last attempt behind.
THEOREM CallsTakeEffectOnce == Spec => []SingleExecution
<1>1. HInv => SingleExecution
  <2> SUFFICES ASSUME HInv, NEW c \in Call
               PROVE  /\ ~Repeatable(c) => Cardinality(executed[c]) <= 1
                      /\ outcome[c] \in {"returned", "http_error"} =>
                            \A m \in wire : m.call = c => m.attempt < attempt[c]
    BY DEF SingleExecution
  <2>1. ASSUME ~Repeatable(c) PROVE Cardinality(executed[c]) <= 1
    <3>1. executed[c] \subseteq {1}
      BY <2>1, AttemptsAssumption
         DEF HInv, TypeOK, AttemptsOK, SentOK, Attempt
    <3>2. IsFiniteSet({1}) /\ Cardinality({1}) = 1
      BY FS_Singleton
    <3>3. Cardinality(executed[c]) <= Cardinality({1})
      BY <3>1, <3>2, FS_Subset
    <3> QED
      BY <3>2, <3>3
  <2>2. ASSUME outcome[c] \in {"returned", "http_error"},
               NEW m \in wire, m.call = c
        PROVE  m.attempt < attempt[c]
    <3>1. m.attempt \in Attempt /\ m = [call |-> c, attempt |-> m.attempt]
      BY <2>2 DEF HInv, TypeOK
    <3>2. m.attempt <= attempt[c] /\ m.attempt # attempt[c]
      BY <2>2, <3>1 DEF HInv, SentOK, AnswersOK, Pending
    <3> QED
      BY <3>1, <3>2 DEF HInv, TypeOK, Attempt
  <2> QED
    BY <2>1, <2>2
<1> QED
  BY CallInvariant, <1>1, PTL

\* A call returns a value only for an attempt that has been carried out, and
\* one that may be repeated gives up on a passing failure only at its last.
THEOREM ReportsAreTrue == Spec => []OutcomesAreTrue
<1>1. HInv => OutcomesAreTrue
  BY DEF HInv, AnswersOK, OutcomesOK, OutcomesAreTrue
<1> QED
  BY CallInvariant, <1>1, PTL
=============================================================================
