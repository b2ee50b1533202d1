---------------------------- MODULE RateLimiter ----------------------------
(***************************************************************************)
(* The token bucket of app/infrastructure/rate_limit/redis.py.  A bucket   *)
(* is one Redis hash, refilled lazily by the Lua script that each call of  *)
(* `allow' runs, and dropped by Redis when its time to live has passed.    *)
(* Redis runs a script alone, so one call is one step.                     *)
(*                                                                         *)
(* Time has two clocks: `clock' is what Redis answers to TIME, and may be  *)
(* set back by whoever keeps the host's time; `uptime' is the time that    *)
(* has really passed.  A unit of either is the resolution of the model.    *)
(* A key's quota and window are the same on every call for it.  Amounts of *)
(* tokens are counted in 1/Window of a token, which makes the refill of    *)
(* one unit of time the integer Quota; the script's rounding of doubles is *)
(* left out.                                                               *)
(***************************************************************************)
EXTENDS Integers

CONSTANTS
    Key,        \* rate-limit keys
    Quota,      \* Quota[k]: the quota passed with key k
    Window,     \* Window[k]: the window_s passed with key k
    NoBucket,   \* "no such key in Redis"
    NoDecision, \* "no call yet"
    MaxUptime,  \* bound on the time that passes
    MaxBacks    \* bound on how often the clock is set back

ASSUME LimitsAssumption ==
    /\ Quota \in [Key -> Nat \ {0}]
    /\ Window \in [Key -> Nat \ {0}]
    /\ MaxUptime \in Nat
    /\ MaxBacks \in Nat

Bucket == [tokens : Nat, ts : Nat, expires_at : Nat]

Decision == [allowed : BOOLEAN, remaining : Nat]

ASSUME NullsAssumption == NoBucket \notin Bucket /\ NoDecision \notin Decision

VARIABLES
    clock,      \* redis.call('TIME')
    uptime,     \* time that has passed
    backs,      \* how often the clock has been set back
    bucket,     \* the hash stored for each key
    decision,   \* the last RateLimitDecision for each key
    granted,    \* how many calls have been allowed for each key
    grantedAt   \* granted[k] as it was when uptime reached t

vars == <<clock, uptime, backs, bucket, decision, granted, grantedAt>>

Full(k) == Quota[k] * Window[k]

Smaller(a, b) == IF a <= b THEN a ELSE b

Init ==
    /\ clock = 0
    /\ uptime = 0
    /\ backs = 0
    /\ bucket = [k \in Key |-> NoBucket]
    /\ decision = [k \in Key |-> NoDecision]
    /\ granted = [k \in Key |-> 0]
    /\ grantedAt = [k \in Key |-> [t \in 0..MaxUptime |-> 0]]

-----------------------------------------------------------------------------
(* What the script reads.                                                  *)

\* Redis returns a key until its time to live has passed.
Live(k) == bucket[k] # NoBucket /\ clock <= bucket[k].expires_at

\* math.max(0, now - ts)
Elapsed(k) == IF clock >= bucket[k].ts THEN clock - bucket[k].ts ELSE 0

\* Mutant: the refill is not capped at the quota.
UncappedLevel(k) ==
    IF Live(k) THEN bucket[k].tokens + Elapsed(k) * Quota[k] ELSE Full(k)

\* Mutant: no math.max around now - ts.
UnclampedLevel(k) ==
    IF Live(k)
    THEN Smaller(Full(k), bucket[k].tokens + (clock - bucket[k].ts) * Quota[k])
    ELSE Full(k)

\* The tokens the script works with: a full bucket for a new key, else what
\* was stored and the refill since, up to the quota.
Level(k) ==
    IF Live(k)
    THEN Smaller(Full(k), bucket[k].tokens + Elapsed(k) * Quota[k])
    ELSE Full(k)

-----------------------------------------------------------------------------
(* The operations.                                                         *)

\* Mutant: a refused call costs a token too, as long as there is any.
Charge(k) == IF Level(k) >= Window[k] THEN Level(k) - Window[k] ELSE 0

\* Mutant: the token is taken before it is known to be there.
Overdraw(k) == Level(k) - Window[k]

\* The tokens left after the decision.
Left(k) == IF Level(k) >= Window[k] THEN Level(k) - Window[k] ELSE Level(k)

\* Mutant: what is left is rounded up.
RoundedUp(k) == (Left(k) + Window[k] - 1) \div Window[k]

\* math.floor(tokens)
Remaining(k) == Left(k) \div Window[k]

\* Mutant: a refused call stores the time, but not what was refilled.
AllowForgetsRefill(k) ==
    /\ bucket' = [bucket EXCEPT ![k] =
          [tokens |-> IF Level(k) >= Window[k] THEN Left(k) ELSE @.tokens,
           ts |-> clock, expires_at |-> clock + Window[k]]]
    /\ decision' = [decision EXCEPT ![k] =
          [allowed |-> Level(k) >= Window[k], remaining |-> Remaining(k)]]
    /\ granted' = [granted EXCEPT ![k] =
          IF Level(k) >= Window[k] THEN granted[k] + 1 ELSE granted[k]]
    /\ UNCHANGED <<clock, uptime, backs, grantedAt>>

\* allow: one run of the script.
Allow(k) ==
    /\ bucket' = [bucket EXCEPT ![k] =
          [tokens |-> Left(k), ts |-> clock, expires_at |-> clock + Window[k]]]
    /\ decision' = [decision EXCEPT ![k] =
          [allowed |-> Level(k) >= Window[k], remaining |-> Remaining(k)]]
    /\ granted' = [granted EXCEPT ![k] =
          IF Level(k) >= Window[k] THEN granted[k] + 1 ELSE granted[k]]
    /\ UNCHANGED <<clock, uptime, backs, grantedAt>>

\* Redis deletes a key whose time to live has passed.
Expire(k) ==
    /\ bucket[k] # NoBucket
    /\ clock > bucket[k].expires_at
    /\ bucket' = [bucket EXCEPT ![k] = NoBucket]
    /\ UNCHANGED <<clock, uptime, backs, decision, granted, grantedAt>>

Tick ==
    /\ uptime < MaxUptime
    /\ uptime' = uptime + 1
    /\ clock' = clock + 1
    /\ grantedAt' = [k \in Key |->
          [t \in 0..MaxUptime |->
              IF t = uptime + 1 THEN granted[k] ELSE grantedAt[k][t]]]
    /\ UNCHANGED <<backs, bucket, decision, granted>>

\* The host's clock is set back.
StepBack ==
    /\ backs < MaxBacks
    /\ backs' = backs + 1
    /\ \E c \in 0..(clock - 1) : clock' = c
    /\ UNCHANGED <<uptime, bucket, decision, granted, grantedAt>>

Next ==
    \/ Tick
    \/ StepBack
    \/ \E k \in Key : Allow(k) \/ Expire(k)

Spec == Init /\ [][Next]_vars

-----------------------------------------------------------------------------
(* Properties.                                                             *)

TypeOK ==
    /\ clock \in Nat
    /\ uptime \in 0..MaxUptime
    /\ backs \in 0..MaxBacks
    /\ bucket \in [Key -> Bucket \cup {NoBucket}]
    /\ decision \in [Key -> Decision \cup {NoDecision}]
    /\ granted \in [Key -> Nat]
    /\ grantedAt \in [Key -> [0..MaxUptime -> Nat]]

\* Calls allowed for k since uptime a.
Since(k, a) == granted[k] - grantedAt[k][a]

\* Over any span of real time a key is allowed at most one full bucket and
\* the refill of that span, however calls, expiry of the hash and steps back
\* of the Redis clock interleave.
RateBound ==
    \A k \in Key : \A a \in 0..uptime :
        Since(k, a) * Window[k] <= Full(k) + (uptime - a) * Quota[k]

\* The first moment of the window that ends now.
WindowStart(k) == IF uptime >= Window[k] THEN uptime - Window[k] ELSE 0

\* As long as the clock has not been set back, a call is refused only if
\* Quota calls were allowed in the window that ends now: lazy refill and
\* expiry never cost a caller part of the quota.
QuotaServed ==
    backs = 0 =>
        \A k \in Key :
            Level(k) < Window[k] => Since(k, WindowStart(k)) >= Quota[k]

\* `remaining' can be relied on: until the next call for the key, neither
\* time, nor expiry, nor a step back of the clock makes it an overstatement.
RemainingIsHonest ==
    \A k \in Key :
        decision[k] # NoDecision
            => decision[k].remaining * Window[k] <= Level(k)

\* The script that refills when it is called, the hash that Redis drops and a
\* clock that may be set back are, to the callers, a bucket that refills by
\* itself: every decision is the one that bucket would give, expiry is no
\* step of it at all, and it refills exactly while the clock runs evenly.
Ideal == INSTANCE TokenBucket
            WITH level <- [k \in Key |-> Level(k)], steady <- (backs = 0)

ImplementsTokenBucket == Ideal!Spec
=============================================================================
