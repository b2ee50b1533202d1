---------------------------- MODULE TokenBucket ----------------------------
(***************************************************************************)
(* What app/infrastructure/rate_limit/redis.py promises its callers: a     *)
(* bucket for each key that nobody stores, expires or computes on demand.  *)
(* It is full at first, time refills it as it passes, and a call takes one *)
(* token or is refused.  RateLimiter implements it.                        *)
(*                                                                         *)
(* Amounts are in 1/Window of a token, as in RateLimiter.                  *)
(***************************************************************************)
EXTENDS Integers

CONSTANTS
    Key,        \* rate-limit keys
    Quota,      \* Quota[k]: tokens refilled in a window, and the bucket's size
    Window,     \* Window[k]: length of the window
    NoDecision  \* "no call yet"

VARIABLES
    level,      \* what the bucket of each key holds
    steady,     \* the clock that refills the buckets has never been set back
    decision    \* what the last caller of each key was told

vars == <<level, steady, decision>>

Full(k) == Quota[k] * Window[k]

\* The bucket of k, v tokens fuller.
Refilled(k, v) == IF level[k] + v <= Full(k) THEN level[k] + v ELSE Full(k)

Init ==
    /\ level = [k \in Key |-> Full(k)]
    /\ steady = TRUE
    /\ decision = [k \in Key |-> NoDecision]

\* A unit of time refills every bucket by 1/Window of its quota.  Once the
\* clock has been set back it may refill less, until the clock has caught up.
Pass ==
    /\ level' \in [Key -> Nat]
    /\ \A k \in Key : /\ level[k] <= level'[k]
                      /\ level'[k] <= Refilled(k, Quota[k])
                      /\ steady => level'[k] = Refilled(k, Quota[k])
    /\ UNCHANGED <<steady, decision>>

\* A call: allowed exactly if there is a token, which it then takes.
Allow(k) ==
    /\ \/ /\ level[k] >= Window[k]
          /\ level' = [level EXCEPT ![k] = @ - Window[k]]
       \/ /\ level[k] < Window[k]
          /\ UNCHANGED level
    /\ decision' = [decision EXCEPT ![k] =
          [allowed |-> level[k] >= Window[k],
           remaining |-> level'[k] \div Window[k]]]
    /\ UNCHANGED steady

\* The clock is set back: buckets may lose what was refilled, and gain nothing.
SetBack ==
    /\ steady' = FALSE
    /\ level' \in [Key -> Nat]
    /\ \A k \in Key : level'[k] <= level[k]
    /\ UNCHANGED decision

Next == Pass \/ SetBack \/ \E k \in Key : Allow(k)

Spec == Init /\ [][Next]_vars
=============================================================================
