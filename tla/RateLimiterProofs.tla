------------------------- MODULE RateLimiterProofs -------------------------
(***************************************************************************)
(* Proofs about RateLimiter.  The bounds on what is allowed follow from a  *)
(* law of conservation: what a key has been allowed since any past moment, *)
(* together with what its bucket would hold if the script ran now, lies    *)
(* between the refill of that time and the refill plus a full bucket.      *)
(***************************************************************************)
EXTENDS RateLimiter, TLAPS

\* A stored bucket holds no more than the quota and lives one window.
BucketsOK ==
    \A k \in Key : bucket[k] # NoBucket =>
        /\ bucket[k].tokens <= Full(k)
        /\ bucket[k].expires_at = bucket[k].ts + Window[k]

\* What k has been allowed since a, and could still be allowed now.
Balance(k, a) == Since(k, a) * Window[k] + Level(k)

\* Nothing is granted that was not refilled, or there at the start.
NotOverdrawn ==
    \A k \in Key : \A a \in 0..uptime :
        Balance(k, a) <= Full(k) + (uptime - a) * Quota[k]

IInv == TypeOK /\ BucketsOK /\ NotOverdrawn

\* No bucket was written at a time that has yet to come.
OnTime == \A k \in Key : bucket[k] # NoBucket => bucket[k].ts <= clock

\* Counts of grants only grow.
GrantsGrow ==
    \A k \in Key : \A a \in 0..MaxUptime : grantedAt[k][a] <= granted[k]

\* What was refilled, and what was there at the start, has been granted, is
\* still in the bucket, or overflowed when the bucket was full.
NothingLost ==
    \A k \in Key :
        /\ grantedAt[k][0] = 0
        /\ Balance(k, 0) >= Full(k)
        /\ \A a \in 0..uptime :
              Balance(k, a) >= Smaller(Full(k), (uptime - a) * Quota[k])

SteadyInv == IInv /\ GrantsGrow /\ (backs = 0 => OnTime /\ NothingLost)

-----------------------------------------------------------------------------
(* Arithmetic.                                                             *)

\* Full(k) is a positive number of units.
LEMMA LimitsTyped ==
    ASSUME NEW k \in Key
    PROVE  /\ Quota[k] \in Nat /\ Quota[k] > 0
           /\ Window[k] \in Nat /\ Window[k] > 0
           /\ Full(k) \in Nat /\ Full(k) >= Window[k]
  BY LimitsAssumption, SMT DEF Full

LEMMA Distribute ==
    ASSUME NEW a \in Int, NEW b \in Int, NEW c \in Int
    PROVE  (a + b) * c = a * c + b * c
  BY SMT

LEMMA Monotone ==
    ASSUME NEW a \in Int, NEW b \in Int, NEW c \in Nat, a <= b
    PROVE  a * c <= b * c
  BY SMT

\* math.floor(tokens) in the units of the model.
LEMMA Floor ==
    ASSUME NEW a \in Nat, NEW b \in Nat, b > 0
    PROVE  (a \div b) \in Nat /\ (a \div b) * b <= a
  BY SMT

-----------------------------------------------------------------------------
(* What a call would find, before and after each step.                     *)

\* A bucket never holds less than nothing or more than the quota.
LEMMA LevelTyped ==
    ASSUME TypeOK, BucketsOK, NEW k \in Key
    PROVE  Level(k) \in Nat /\ Level(k) <= Full(k)
<1>1. Full(k) \in Nat /\ Quota[k] \in Nat
  BY LimitsTyped
<1>2. CASE ~Live(k)
  BY <1>1, <1>2 DEF Level
<1>3. CASE Live(k)
  <2>1. bucket[k] \in Bucket /\ clock \in Nat
    BY <1>3 DEF TypeOK, Live
  <2>2. bucket[k].tokens \in Nat /\ Elapsed(k) \in Nat
    BY <2>1, SMT DEF Bucket, Elapsed
  <2>3. Elapsed(k) * Quota[k] \in Nat
    BY <1>1, <2>2, SMT
  <2> QED
    BY <1>1, <1>3, <2>2, <2>3, SMT DEF Level, Smaller
<1> QED
  BY <1>2, <1>3

LEMMA LevelsTyped ==
    TypeOK /\ BucketsOK
        => \A k \in Key : Level(k) \in Nat /\ Level(k) <= Full(k)
  BY LevelTyped

\* One unit of time refills at most Quota units.
LEMMA LevelTick ==
    ASSUME TypeOK, BucketsOK, Tick, NEW k \in Key
    PROVE  Level(k)' <= Level(k) + Quota[k]
<1>1. /\ Full(k) \in Nat /\ Full(k)' = Full(k)
      /\ Quota[k] \in Nat /\ Window[k] \in Nat
      /\ Level(k) \in Nat
  BY LimitsTyped, LevelTyped DEF Full
<1>2. clock \in Nat /\ clock' = clock + 1 /\ bucket' = bucket
  BY DEF TypeOK, Tick
<1>3. CASE bucket[k] = NoBucket
  BY <1>1, <1>2, <1>3, SMT DEF Level, Live
<1>4. CASE bucket[k] # NoBucket
  <2>1. bucket[k] \in Bucket
    BY <1>4 DEF TypeOK
  <2>2. /\ bucket[k].tokens \in Nat /\ bucket[k].ts \in Nat
        /\ bucket[k].expires_at = bucket[k].ts + Window[k]
    BY <1>4, <2>1 DEF Bucket, BucketsOK
  <2>3. /\ Elapsed(k) \in Nat /\ Elapsed(k)' \in Nat
        /\ Elapsed(k)' <= Elapsed(k) + 1
    BY <1>2, <2>2, SMT DEF Elapsed
  <2>4. /\ Elapsed(k) * Quota[k] \in Nat
        /\ Elapsed(k)' * Quota[k] \in Nat
        /\ Elapsed(k)' * Quota[k] <= Elapsed(k) * Quota[k] + Quota[k]
    <3>1. Elapsed(k)' * Quota[k] <= (Elapsed(k) + 1) * Quota[k]
      BY <1>1, <2>3, Monotone
    <3>2. (Elapsed(k) + 1) * Quota[k] = Elapsed(k) * Quota[k] + 1 * Quota[k]
      BY <1>1, <2>3, Distribute
    <3> QED
      BY <1>1, <2>3, <3>1, <3>2, SMT
  <2>5. CASE ~Live(k)
    <3>1. Level(k) = Full(k)
      BY <2>5 DEF Level
    <3>2. ~Live(k)'
      BY <1>2, <2>2, <2>5, <1>1, SMT DEF Live
    <3> QED
      BY <1>1, <3>1, <3>2, SMT DEF Level
  <2>6. CASE Live(k) /\ Live(k)'
    <3>1. Level(k) = Smaller(Full(k), bucket[k].tokens + Elapsed(k) * Quota[k])
      BY <2>6 DEF Level
    <3>2. Level(k)' = Smaller(Full(k), bucket[k].tokens + Elapsed(k)' * Quota[k])
      BY <1>1, <1>2, <2>6 DEF Level, Smaller
    <3> QED
      BY <1>1, <2>2, <2>4, <3>1, <3>2, SMT DEF Smaller
  <2>7. CASE Live(k) /\ ~Live(k)'
    <3>1. clock = bucket[k].ts + Window[k]
      BY <1>1, <1>2, <2>2, <2>7, SMT DEF Live
    <3>2. Elapsed(k) = Window[k]
      BY <1>1, <2>2, <3>1, SMT DEF Elapsed
    <3>3. Elapsed(k) * Quota[k] = Full(k)
      BY <1>1, <3>2, SMT DEF Full
    <3>4. Level(k) = Smaller(Full(k), bucket[k].tokens + Elapsed(k) * Quota[k])
      BY <2>7 DEF Level
    <3>5. Level(k) = Full(k) /\ Level(k)' = Full(k)
      BY <1>1, <2>2, <2>7, <3>3, <3>4, SMT DEF Level, Smaller
    <3> QED
      BY <1>1, <3>5, SMT
  <2> QED
    BY <2>5, <2>6, <2>7
<1> QED
  BY <1>3, <1>4

\* Setting the clock back refills nothing.
LEMMA LevelStepBack ==
    ASSUME TypeOK, BucketsOK, StepBack, NEW k \in Key
    PROVE  Level(k)' <= Level(k)
<1>1. /\ Full(k) \in Nat /\ Full(k)' = Full(k)
      /\ Quota[k] \in Nat /\ Window[k] \in Nat
      /\ Level(k) \in Nat /\ Level(k) <= Full(k)
  BY LimitsTyped, LevelTyped DEF Full
<1>2. clock \in Nat /\ clock' \in Nat /\ clock' <= clock /\ bucket' = bucket
  BY SMT DEF TypeOK, StepBack
<1>3. CASE bucket[k] = NoBucket
  BY <1>1, <1>2, <1>3, SMT DEF Level, Live
<1>4. CASE bucket[k] # NoBucket
  <2>1. bucket[k] \in Bucket
    BY <1>4 DEF TypeOK
  <2>2. /\ bucket[k].tokens \in Nat /\ bucket[k].ts \in Nat
        /\ bucket[k].expires_at \in Nat
    BY <2>1 DEF Bucket
  <2>3. /\ Elapsed(k) \in Nat /\ Elapsed(k)' \in Nat
        /\ Elapsed(k)' <= Elapsed(k)
    BY <1>2, <2>2, SMT DEF Elapsed
  <2>4. Elapsed(k)' * Quota[k] <= Elapsed(k) * Quota[k]
    BY <1>1, <2>3, Monotone
  <2>5. Elapsed(k) * Quota[k] \in Nat /\ Elapsed(k)' * Quota[k] \in Nat
    BY <1>1, <2>3, SMT
  <2>6. CASE Live(k)
    <3>1. Live(k)'
      BY <1>2, <2>2, <2>6, SMT DEF Live
    <3>2. Level(k) = Smaller(Full(k), bucket[k].tokens + Elapsed(k) * Quota[k])
      BY <2>6 DEF Level
    <3>3. Level(k)' = Smaller(Full(k), bucket[k].tokens + Elapsed(k)' * Quota[k])
      BY <1>1, <1>2, <3>1 DEF Level, Smaller
    <3> QED
      BY <1>1, <2>2, <2>4, <2>5, <3>2, <3>3, SMT DEF Smaller
  <2>7. CASE ~Live(k)
    <3>1. Level(k) = Full(k)
      BY <2>7 DEF Level
    <3>2. CASE ~Live(k)'
      BY <1>1, <3>1, <3>2, SMT DEF Level
    <3>3. CASE Live(k)'
      BY <1>1, <1>2, <2>2, <2>5, <3>1, <3>3, SMT DEF Level, Smaller
    <3> QED
      BY <3>2, <3>3
  <2> QED
    BY <2>6, <2>7
<1> QED
  BY <1>3, <1>4

\* Deleting an expired bucket changes nothing: it would have been full.
LEMMA LevelExpire ==
    ASSUME TypeOK, NEW k \in Key, NEW j \in Key, Expire(k)
    PROVE  Level(j)' = Level(j)
<1>1. bucket' = [bucket EXCEPT ![k] = NoBucket] /\ clock' = clock
  BY DEF Expire
<1>2. bucket \in [Key -> Bucket \cup {NoBucket}]
  BY DEF TypeOK
<1>3. CASE j = k
  <2>1. bucket[k] \in Bucket /\ clock \in Nat
    BY <1>2 DEF Expire, TypeOK
  <2>2. ~Live(k) /\ ~Live(k)'
    BY <1>1, <1>2, <2>1, SMT DEF Live, Expire, Bucket
  <2> QED
    BY <1>3, <2>2 DEF Level, Full
<1>4. CASE j # k
  BY <1>1, <1>2, <1>4 DEF Level, Live, Elapsed, Full
<1> QED
  BY <1>3, <1>4

\* A call leaves what the decision left, and touches no other key.
LEMMA LevelAllow ==
    ASSUME TypeOK, BucketsOK, NEW k \in Key, NEW j \in Key, Allow(k)
    PROVE  Level(j)' = IF j = k THEN Left(k) ELSE Level(j)
<1> DEFINE stored == [tokens |-> Left(k), ts |-> clock,
                      expires_at |-> clock + Window[k]]
<1>1. bucket' = [bucket EXCEPT ![k] = stored] /\ clock' = clock
  BY DEF Allow
<1>2. bucket \in [Key -> Bucket \cup {NoBucket}] /\ clock \in Nat
  BY DEF TypeOK
<1>3. /\ Full(k) \in Nat /\ Quota[k] \in Nat /\ Window[k] \in Nat
      /\ Level(k) \in Nat /\ Level(k) <= Full(k)
  BY LimitsTyped, LevelTyped
<1>4. Left(k) \in Nat /\ Left(k) <= Full(k)
  BY <1>3, SMT DEF Left
<1>5. CASE j = k
  <2>1. bucket'[k] = stored
    BY <1>1, <1>2
  <2>2. stored \in Bucket
    BY <1>2, <1>3, <1>4, SMT DEF Bucket
  <2>3. stored # NoBucket
    BY <2>2, NullsAssumption
  <2>4. Live(k)'
    BY <1>1, <1>2, <1>3, <2>1, <2>3, SMT DEF Live
  <2>5. Elapsed(k)' = 0
    BY <1>1, <1>2, <2>1, SMT DEF Elapsed
  <2>6. Elapsed(k)' * Quota[k] = 0
    BY <1>3, <2>5, SMT
  <2>7. Level(k)' = Smaller(Full(k), Left(k) + Elapsed(k)' * Quota[k])
    BY <2>1, <2>4 DEF Level, Smaller, Full
  <2> QED
    BY <1>3, <1>4, <1>5, <2>6, <2>7, SMT DEF Smaller
<1>6. CASE j # k
  BY <1>1, <1>2, <1>6 DEF Level, Live, Elapsed, Full
<1> QED
  BY <1>5, <1>6

\* A token that leaves the bucket is a call allowed.
LEMMA AllowConserves ==
    ASSUME TypeOK, BucketsOK, NEW k \in Key, NEW j \in Key, Allow(k),
           NEW a \in 0..MaxUptime
    PROVE  Balance(j, a)' = Balance(j, a)
<1>1. /\ Window[j] \in Nat /\ Level(j) \in Nat
      /\ granted[j] \in Nat /\ grantedAt[j][a] \in Nat
  BY LimitsTyped, LevelTyped DEF TypeOK
<1>2. Since(j, a) \in Int
  BY <1>1, SMT DEF Since
<1>3. grantedAt' = grantedAt
  BY DEF Allow
<1>4. Level(j)' = IF j = k THEN Left(k) ELSE Level(j)
  BY LevelAllow
<1>5. CASE j = k /\ Level(k) >= Window[k]
  <2>1. granted'[j] = granted[j] + 1
    BY <1>5 DEF Allow, TypeOK
  <2>2. Since(j, a)' = (granted[j] + 1) - grantedAt[j][a]
    BY <1>3, <2>1 DEF Since
  <2>3. Since(j, a)' = Since(j, a) + 1
    BY <1>1, <2>2, SMT DEF Since
  <2>4. (Since(j, a) + 1) * Window[j] = Since(j, a) * Window[j] + 1 * Window[j]
    BY <1>1, <1>2, Distribute
  <2>5. Level(j)' = Level(j) - Window[j]
    BY <1>4, <1>5 DEF Left
  <2>6. Since(j, a) * Window[j] \in Int
    BY <1>1, <1>2, SMT
  <2> QED
    BY <1>1, <2>3, <2>4, <2>5, <2>6, SMT DEF Balance
<1>6. CASE ~(j = k /\ Level(k) >= Window[k])
  <2>1. granted'[j] = granted[j]
    BY <1>6 DEF Allow, TypeOK
  <2>2. Since(j, a)' = Since(j, a)
    BY <1>3, <2>1 DEF Since
  <2>3. Level(j)' = Level(j)
    BY <1>4, <1>6 DEF Left
  <2> QED
    BY <2>2, <2>3 DEF Balance
<1> QED
  BY <1>5, <1>6

\* With no step back behind it, a unit of time refills Quota units exactly.
LEMMA LevelTickExact ==
    ASSUME TypeOK, BucketsOK, OnTime, Tick, NEW k \in Key
    PROVE  Smaller(Full(k), Level(k) + Quota[k]) <= Level(k)'
<1>1. /\ Full(k) \in Nat /\ Full(k)' = Full(k)
      /\ Quota[k] \in Nat /\ Window[k] \in Nat
      /\ Level(k) \in Nat
  BY LimitsTyped, LevelTyped DEF Full
<1>2. clock \in Nat /\ clock' = clock + 1 /\ bucket' = bucket
  BY DEF TypeOK, Tick
<1>3. CASE ~Live(k)'
  <2>1. Level(k)' = Full(k)
    BY <1>1, <1>3 DEF Level
  <2> QED
    BY <1>1, <2>1, SMT DEF Smaller
<1>4. CASE Live(k)'
  <2>1. bucket[k] # NoBucket /\ bucket[k] \in Bucket
    BY <1>2, <1>4 DEF TypeOK, Live
  <2>2. /\ bucket[k].tokens \in Nat /\ bucket[k].ts \in Nat
        /\ bucket[k].expires_at \in Nat /\ bucket[k].ts <= clock
    BY <2>1 DEF Bucket, OnTime
  <2>3. Live(k)
    BY <1>2, <1>4, <2>1, <2>2, SMT DEF Live
  <2>4. /\ Elapsed(k) \in Nat /\ Elapsed(k)' \in Nat
        /\ Elapsed(k)' = Elapsed(k) + 1
    BY <1>2, <2>2, SMT DEF Elapsed
  <2>5. (Elapsed(k) + 1) * Quota[k] = Elapsed(k) * Quota[k] + 1 * Quota[k]
    <3>1. Elapsed(k) \in Int /\ 1 \in Int /\ Quota[k] \in Int
      BY <1>1, <2>4, SMT
    <3> QED
      BY <3>1, Distribute, Zenon
  <2>6. Elapsed(k) * Quota[k] \in Nat
    BY <1>1, <2>4, SMT
  <2>7. Elapsed(k)' * Quota[k] = Elapsed(k) * Quota[k] + Quota[k]
    BY <1>1, <2>4, <2>5, <2>6, SMT
  <2>8. Level(k) = Smaller(Full(k), bucket[k].tokens + Elapsed(k) * Quota[k])
    BY <2>3 DEF Level
  <2>9. Level(k)' = Smaller(Full(k), bucket[k].tokens + Elapsed(k)' * Quota[k])
    BY <1>1, <1>2, <1>4 DEF Level, Smaller
  <2> QED
    BY <1>1, <2>2, <2>6, <2>7, <2>8, <2>9, SMT DEF Smaller
<1> QED
  BY <1>3, <1>4

-----------------------------------------------------------------------------
(* The invariant.                                                          *)

LEMMA InitOK == Init => IInv
<1> SUFFICES ASSUME Init PROVE IInv
  OBVIOUS
<1>1. TypeOK
  BY LimitsAssumption DEF Init, TypeOK
<1>2. BucketsOK
  BY DEF Init, BucketsOK
<1>3. NotOverdrawn
  <2> SUFFICES ASSUME NEW k \in Key, NEW a \in 0..uptime
               PROVE  Since(k, a) * Window[k] + Level(k)
                        <= Full(k) + (uptime - a) * Quota[k]
    BY DEF NotOverdrawn, Balance
  <2>1. a = 0 /\ uptime = 0 /\ 0 \in 0..MaxUptime
    BY LimitsAssumption, SMT DEF Init
  <2>2. Since(k, a) = 0
    BY <2>1 DEF Since, Init
  <2>3. Level(k) = Full(k)
    BY DEF Level, Live, Init
  <2>4. Full(k) \in Nat /\ Window[k] \in Nat /\ Quota[k] \in Nat
    BY LimitsTyped
  <2> QED
    BY <2>1, <2>2, <2>3, <2>4, SMT
<1> QED
  BY <1>1, <1>2, <1>3 DEF IInv

LEMMA TypeStep == IInv /\ [Next]_vars => TypeOK'
<1> SUFFICES ASSUME TypeOK, BucketsOK, [Next]_vars PROVE TypeOK'
  BY DEF IInv
<1> USE LimitsAssumption
<1>1. CASE Tick
  BY <1>1, SMT DEF Tick, TypeOK
<1>2. CASE StepBack
  BY <1>2, SMT DEF StepBack, TypeOK
<1>3. ASSUME NEW k \in Key, Allow(k) PROVE TypeOK'
  <2>1. /\ Full(k) \in Nat /\ Quota[k] \in Nat
        /\ Window[k] \in Nat /\ Window[k] > 0
        /\ Level(k) \in Nat /\ Level(k) <= Full(k)
    BY LimitsTyped, LevelTyped
  <2>2. Left(k) \in Nat
    BY <2>1, SMT DEF Left
  <2>3. Remaining(k) \in Nat
    BY <2>1, <2>2, Floor DEF Remaining
  <2>4. [tokens |-> Left(k), ts |-> clock, expires_at |-> clock + Window[k]]
          \in Bucket
    BY <2>1, <2>2, SMT DEF Bucket, TypeOK
  <2>5. (Level(k) >= Window[k]) \in BOOLEAN
    OBVIOUS
  <2>6. [allowed |-> Level(k) >= Window[k], remaining |-> Remaining(k)]
          \in Decision
    BY <2>3, <2>5, Zenon DEF Decision
  <2>7. (IF Level(k) >= Window[k] THEN granted[k] + 1 ELSE granted[k]) \in Nat
    BY SMT DEF TypeOK
  <2>8. bucket' \in [Key -> Bucket \cup {NoBucket}]
    BY <1>3, <2>4, Zenon DEF Allow, TypeOK
  <2>9. decision' \in [Key -> Decision \cup {NoDecision}]
    BY <1>3, <2>6, Zenon DEF Allow, TypeOK
  <2>10. granted' \in [Key -> Nat]
    BY <1>3, <2>7, Zenon DEF Allow, TypeOK
  <2> QED
    BY <1>3, <2>8, <2>9, <2>10 DEF Allow, TypeOK
<1>4. ASSUME NEW k \in Key, Expire(k) PROVE TypeOK'
  BY <1>4 DEF Expire, TypeOK
<1>5. CASE UNCHANGED vars
  BY <1>5 DEF vars, TypeOK
<1> QED
  BY <1>1, <1>2, <1>3, <1>4, <1>5 DEF Next

LEMMA BucketsStep == IInv /\ [Next]_vars => BucketsOK'
<1> SUFFICES ASSUME TypeOK, BucketsOK, [Next]_vars, NEW j \in Key,
                    bucket'[j] # NoBucket
             PROVE  /\ bucket'[j].tokens <= Full(j)
                    /\ bucket'[j].expires_at = bucket'[j].ts + Window[j]
  BY DEF IInv, BucketsOK, Full
<1>0. bucket \in [Key -> Bucket \cup {NoBucket}]
  BY DEF TypeOK
<1>1. CASE bucket' = bucket
  BY <1>1 DEF BucketsOK
<1>2. ASSUME NEW k \in Key, Allow(k)
      PROVE  /\ bucket'[j].tokens <= Full(j)
             /\ bucket'[j].expires_at = bucket'[j].ts + Window[j]
  <2>1. CASE j = k
    <3>1. /\ Level(k) \in Nat /\ Level(k) <= Full(k)
          /\ Full(k) \in Nat /\ Window[k] \in Nat
      BY LimitsTyped, LevelTyped
    <3>2. Left(k) <= Full(k)
      BY <3>1, SMT DEF Left
    <3> QED
      BY <1>0, <1>2, <2>1, <3>2 DEF Allow
  <2>2. CASE j # k
    BY <1>0, <1>2, <2>2 DEF Allow, BucketsOK
  <2> QED
    BY <2>1, <2>2
<1>3. ASSUME NEW k \in Key, Expire(k)
      PROVE  /\ bucket'[j].tokens <= Full(j)
             /\ bucket'[j].expires_at = bucket'[j].ts + Window[j]
  BY <1>0, <1>3 DEF Expire, BucketsOK
<1> QED
  BY <1>1, <1>2, <1>3 DEF Next, Tick, StepBack, vars

\* The one law every step obeys, by cases on who moves.
LEMMA OverdraftStep == IInv /\ [Next]_vars => NotOverdrawn'
<1> SUFFICES ASSUME TypeOK, BucketsOK, NotOverdrawn, [Next]_vars,
                    NEW j \in Key, NEW a \in 0..uptime'
             PROVE  Since(j, a)' * Window[j] + Level(j)'
                      <= Full(j) + (uptime' - a) * Quota[j]
  BY DEF IInv, NotOverdrawn, Full, Balance
<1> USE LimitsAssumption
<1>1. /\ Full(j) \in Nat /\ Quota[j] \in Nat /\ Window[j] \in Nat
      /\ Level(j) \in Nat /\ Level(j) <= Full(j)
  BY LimitsTyped, LevelTyped
<1>2. /\ uptime \in Nat /\ uptime <= MaxUptime
      /\ granted \in [Key -> Nat]
      /\ grantedAt \in [Key -> [0..MaxUptime -> Nat]]
  BY SMT DEF TypeOK
<1>3. TypeOK' /\ BucketsOK'
  BY TypeStep, BucketsStep, NotOverdrawn DEF IInv
<1>4. Level(j)' \in Nat /\ Level(j)' <= Full(j)
  <2>1. Full(j)' = Full(j)
    BY DEF Full
  <2>2. (\A k \in Key : Level(k) \in Nat /\ Level(k) <= Full(k))'
    BY <1>3, LevelsTyped, PTL
  <2> QED
    BY <2>1, <2>2
<1>5. ASSUME a \in 0..uptime
      PROVE  /\ Since(j, a) \in Int
             /\ Since(j, a) * Window[j] \in Int
             /\ (uptime - a) * Quota[j] \in Int
             /\ Since(j, a) * Window[j] + Level(j)
                  <= Full(j) + (uptime - a) * Quota[j]
  <2>1. a \in 0..MaxUptime /\ a \in Int
    BY <1>2, <1>5, SMT
  <2>2. grantedAt[j][a] \in Nat /\ granted[j] \in Nat
    BY <1>2, <2>1
  <2>3. Since(j, a) \in Int
    BY <2>2, SMT DEF Since
  <2>4. Since(j, a) * Window[j] \in Int /\ (uptime - a) * Quota[j] \in Int
    BY <1>1, <1>2, <2>1, <2>3, SMT
  <2>5. Since(j, a) * Window[j] + Level(j) <= Full(j) + (uptime - a) * Quota[j]
    BY <1>5 DEF NotOverdrawn, Balance
  <2> QED
    BY <2>3, <2>4, <2>5
<1>6. CASE Tick
  <2>1. Level(j)' <= Level(j) + Quota[j]
    BY <1>6, LevelTick
  <2>2. uptime' = uptime + 1 /\ granted' = granted
    BY <1>6 DEF Tick
  <2>3. CASE a = uptime + 1
    <3>1. a \in 0..MaxUptime
      BY <1>2, <1>6, <2>3, SMT DEF Tick
    <3>2. grantedAt'[j][a] = granted[j]
      BY <1>6, <2>3, <3>1 DEF Tick
    <3>3. Since(j, a)' = 0
      BY <1>2, <2>2, <3>2, SMT DEF Since
    <3> QED
      BY <1>1, <1>2, <1>4, <2>2, <2>3, <3>3, SMT
  <2>4. CASE a \in 0..uptime
    <3>1. a \in 0..MaxUptime /\ a # uptime + 1
      BY <1>2, <2>4, SMT
    <3>2. grantedAt'[j][a] = grantedAt[j][a]
      BY <1>6, <3>1 DEF Tick
    <3>3. Since(j, a)' = Since(j, a)
      BY <2>2, <3>2 DEF Since
    <3>4. (uptime' - a) * Quota[j] = (uptime - a) * Quota[j] + Quota[j]
      <4>1. uptime - a \in Int /\ uptime' - a = (uptime - a) + 1
        BY <1>2, <2>2, <2>4, SMT
      <4>2. ((uptime - a) + 1) * Quota[j] = (uptime - a) * Quota[j] + 1 * Quota[j]
        BY <1>1, <4>1, Distribute
      <4> QED
        BY <1>1, <4>1, <4>2, SMT
    <3> QED
      BY <1>1, <1>4, <1>5, <2>1, <2>4, <3>3, <3>4, SMT
  <2> QED
    BY <1>2, <2>2, <2>3, <2>4, SMT
<1>7. CASE StepBack
  <2>1. Level(j)' <= Level(j)
    BY <1>7, LevelStepBack
  <2>2. uptime' = uptime /\ Since(j, a)' = Since(j, a)
    BY <1>7 DEF StepBack, Since
  <2> QED
    BY <1>1, <1>4, <1>5, <2>1, <2>2, SMT
<1>8. ASSUME NEW k \in Key, Expire(k)
      PROVE  Since(j, a)' * Window[j] + Level(j)'
               <= Full(j) + (uptime' - a) * Quota[j]
  <2>1. Level(j)' = Level(j)
    BY <1>8, LevelExpire
  <2>2. uptime' = uptime /\ Since(j, a)' = Since(j, a)
    BY <1>8 DEF Expire, Since
  <2> QED
    BY <1>5, <2>1, <2>2
<1>9. ASSUME NEW k \in Key, Allow(k)
      PROVE  Since(j, a)' * Window[j] + Level(j)'
               <= Full(j) + (uptime' - a) * Quota[j]
  <2>1. uptime' = uptime /\ a \in 0..MaxUptime
    BY <1>2, <1>9, SMT DEF Allow
  <2>2. Since(j, a)' * Window[j] + Level(j)' = Since(j, a) * Window[j] + Level(j)
    BY <1>9, <2>1, AllowConserves DEF Balance
  <2> QED
    BY <1>5, <2>1, <2>2
<1>10. CASE UNCHANGED vars
  <2>1. /\ uptime' = uptime /\ Since(j, a)' = Since(j, a)
        /\ Level(j)' = Level(j)
    BY <1>10 DEF vars, Since, Level, Live, Elapsed, Full
  <2> QED
    BY <1>5, <2>1
<1> QED
  BY <1>6, <1>7, <1>8, <1>9, <1>10 DEF Next

\* The conservation law and what it needs hold in every reachable state.
THEOREM InvariantHolds == Spec => []IInv
<1>1. Init => IInv
  BY InitOK
<1>2. IInv /\ [Next]_vars => IInv'
  BY TypeStep, BucketsStep, OverdraftStep DEF IInv
<1> QED
  BY <1>1, <1>2, PTL DEF Spec

\* Every variable of the limiter keeps its type.
THEOREM LimiterTyped == Spec => []TypeOK
<1>1. IInv => TypeOK
  BY DEF IInv
<1> QED
  BY <1>1, InvariantHolds, PTL

\* For any quotas and windows, any number of keys and any steps back of the
\* clock, no span of time sees more calls allowed than a full bucket and its
\* refill.
THEOREM LimiterBoundsRate == Spec => []RateBound
<1>1. IInv => RateBound
  <2> SUFFICES ASSUME IInv, NEW k \in Key, NEW a \in 0..uptime
               PROVE  Since(k, a) * Window[k] <= Full(k) + (uptime - a) * Quota[k]
    BY DEF RateBound
  <2>1. /\ Full(k) \in Nat /\ Quota[k] \in Nat /\ Window[k] \in Nat
        /\ Level(k) \in Nat
    BY LimitsTyped, LevelTyped DEF IInv
  <2>2. uptime \in Nat /\ a \in 0..MaxUptime
    BY LimitsAssumption, SMT DEF IInv, TypeOK
  <2>3. Since(k, a) \in Int
    <3>1. granted[k] \in Nat /\ grantedAt[k][a] \in Nat
      BY <2>2 DEF IInv, TypeOK
    <3> QED
      BY <3>1, SMT DEF Since
  <2>4. Since(k, a) * Window[k] \in Int /\ (uptime - a) * Quota[k] \in Int
    BY <2>1, <2>2, <2>3, SMT
  <2> QED
    BY <2>1, <2>4, SMT DEF IInv, NotOverdrawn, Balance
<1> QED
  BY <1>1, InvariantHolds, PTL

-----------------------------------------------------------------------------
(* A clock that is never set back.                                         *)

LEMMA SteadyInit == Init => SteadyInv
<1> SUFFICES ASSUME Init PROVE SteadyInv
  OBVIOUS
<1>1. IInv
  BY InitOK
<1>2. OnTime
  BY DEF Init, OnTime
<1>3. GrantsGrow
  BY SMT DEF Init, GrantsGrow
<1>4. NothingLost
  <2> SUFFICES ASSUME NEW k \in Key
               PROVE  /\ grantedAt[k][0] = 0
                      /\ Balance(k, 0) >= Full(k)
                      /\ \A a \in 0..uptime :
                            Balance(k, a) >= Smaller(Full(k), (uptime - a) * Quota[k])
    BY DEF NothingLost
  <2>1. 0 \in 0..MaxUptime /\ uptime = 0
    BY LimitsAssumption, SMT DEF Init
  <2>2. grantedAt[k][0] = 0 /\ granted[k] = 0
    BY <2>1 DEF Init
  <2>3. Since(k, 0) = 0
    BY <2>2, SMT DEF Since
  <2>4. Level(k) = Full(k)
    BY DEF Level, Live, Init
  <2>5. Full(k) \in Nat /\ Window[k] \in Nat /\ Quota[k] \in Nat
    BY LimitsTyped
  <2>6. Balance(k, 0) = Full(k)
    BY <2>3, <2>4, <2>5, SMT DEF Balance
  <2>7. \A a \in 0..uptime : a = 0
    BY <2>1, SMT
  <2>8. Smaller(Full(k), (uptime - 0) * Quota[k]) <= Full(k)
    BY <2>1, <2>5, SMT DEF Smaller
  <2> QED
    BY <2>2, <2>5, <2>6, <2>7, <2>8, SMT
<1> QED
  BY <1>1, <1>2, <1>3, <1>4 DEF SteadyInv

LEMMA OnTimeStep == TypeOK /\ OnTime /\ [Next]_vars /\ backs' = 0 => OnTime'
<1> SUFFICES ASSUME backs' = 0, TypeOK, OnTime, [Next]_vars,
                    NEW j \in Key, bucket'[j] # NoBucket
             PROVE  bucket'[j].ts <= clock'
  BY DEF OnTime
<1>0. clock \in Nat /\ bucket \in [Key -> Bucket \cup {NoBucket}]
  BY DEF TypeOK
<1>1. CASE Tick
  <2>1. bucket[j].ts \in Nat
    BY <1>0, <1>1 DEF Tick, Bucket
  <2> QED
    BY <1>0, <1>1, <2>1, SMT DEF Tick, OnTime
<1>2. CASE StepBack
  BY <1>2, SMT DEF StepBack, TypeOK
<1>3. ASSUME NEW k \in Key, Allow(k) PROVE bucket'[j].ts <= clock'
  <2>1. CASE j = k
    BY <1>0, <1>3, <2>1, SMT DEF Allow
  <2>2. CASE j # k
    BY <1>0, <1>3, <2>2 DEF Allow, OnTime
  <2> QED
    BY <2>1, <2>2
<1>4. ASSUME NEW k \in Key, Expire(k) PROVE bucket'[j].ts <= clock'
  BY <1>0, <1>4 DEF Expire, OnTime
<1>5. CASE UNCHANGED vars
  BY <1>5 DEF vars, OnTime
<1> QED
  BY <1>1, <1>2, <1>3, <1>4, <1>5 DEF Next

LEMMA GrantsStep == IInv /\ GrantsGrow /\ [Next]_vars => GrantsGrow'
<1> SUFFICES ASSUME TypeOK, GrantsGrow, [Next]_vars,
                    NEW j \in Key, NEW a \in 0..MaxUptime
             PROVE  grantedAt'[j][a] <= granted'[j]
  BY DEF IInv, GrantsGrow
<1>1. /\ granted \in [Key -> Nat] /\ granted[j] \in Nat
      /\ grantedAt[j][a] \in Nat /\ grantedAt[j][a] <= granted[j]
  BY DEF TypeOK, GrantsGrow
<1>2. CASE Tick
  <2>1. /\ grantedAt'[j][a] = IF a = uptime + 1 THEN granted[j] ELSE grantedAt[j][a]
        /\ granted' = granted
    BY <1>2 DEF Tick
  <2> QED
    BY <1>1, <2>1, SMT
<1>3. ASSUME NEW k \in Key, Allow(k) PROVE grantedAt'[j][a] <= granted'[j]
  <2>1. grantedAt' = grantedAt
    BY <1>3 DEF Allow
  <2>2. granted'[j] = granted[j] \/ granted'[j] = granted[j] + 1
    BY <1>1, <1>3, Zenon DEF Allow
  <2> QED
    BY <1>1, <2>1, <2>2, SMT
<1>4. CASE UNCHANGED <<granted, grantedAt>>
  BY <1>1, <1>4
<1> QED
  BY <1>2, <1>3, <1>4 DEF Next, StepBack, Expire, vars

LEMMA LossStep ==
    /\ IInv /\ OnTime /\ GrantsGrow /\ NothingLost
    /\ [Next]_vars
    /\ backs' = 0
    => NothingLost'
<1> SUFFICES ASSUME backs' = 0, TypeOK, BucketsOK, OnTime, GrantsGrow,
                    NothingLost, IInv, [Next]_vars, NEW j \in Key
             PROVE  /\ grantedAt'[j][0] = 0
                    /\ Balance(j, 0)' >= Full(j)
                    /\ \A a \in 0..uptime' :
                          Balance(j, a)' >= Smaller(Full(j), (uptime' - a) * Quota[j])
  BY DEF IInv, NothingLost, Full
<1> USE LimitsAssumption
<1>1. /\ Full(j) \in Nat /\ Quota[j] \in Nat /\ Window[j] \in Nat
      /\ Level(j) \in Nat /\ Level(j) <= Full(j)
  BY LimitsTyped, LevelTyped
<1>2. /\ uptime \in Nat /\ uptime <= MaxUptime /\ 0 \in 0..uptime
      /\ granted \in [Key -> Nat]
      /\ grantedAt \in [Key -> [0..MaxUptime -> Nat]]
      /\ 0 \in 0..MaxUptime /\ 0..uptime \subseteq 0..MaxUptime
  BY SMT DEF TypeOK
<1>3. Level(j)' \in Nat
  <2>1. TypeOK' /\ BucketsOK'
    BY TypeStep, BucketsStep
  <2>2. (\A k \in Key : Level(k) \in Nat /\ Level(k) <= Full(k))'
    BY <2>1, LevelsTyped, PTL
  <2> QED
    BY <2>2
<1>4. /\ grantedAt[j][0] = 0
      /\ Balance(j, 0) >= Full(j)
      /\ \A a \in 0..uptime :
            Balance(j, a) >= Smaller(Full(j), (uptime - a) * Quota[j])
  BY DEF NothingLost
<1>5. ASSUME UNCHANGED uptime, grantedAt'[j][0] = grantedAt[j][0],
             \A a \in 0..MaxUptime : Balance(j, a)' = Balance(j, a)
      PROVE  /\ grantedAt'[j][0] = 0
             /\ Balance(j, 0)' >= Full(j)
             /\ \A a \in 0..uptime' :
                   Balance(j, a)' >= Smaller(Full(j), (uptime' - a) * Quota[j])
  BY <1>2, <1>4, <1>5
<1>6. CASE Tick
  <2>1. uptime' = uptime + 1 /\ granted' = granted /\ uptime + 1 <= MaxUptime
    BY <1>2, <1>6, SMT DEF Tick
  <2>2. \A a \in 0..MaxUptime : grantedAt'[j][a] =
            IF a = uptime + 1 THEN granted[j] ELSE grantedAt[j][a]
    BY <1>6 DEF Tick
  <2>3. ASSUME NEW a \in 0..uptime
        PROVE  /\ Balance(j, a) \in Int /\ Balance(j, a)' \in Int
               /\ Balance(j, a)' >= Smaller(Full(j), Balance(j, a) + Quota[j])
    <3>1. a \in 0..MaxUptime /\ a # uptime + 1
      BY <1>2, SMT
    <3>2. grantedAt'[j][a] = grantedAt[j][a]
      BY <2>2, <3>1
    <3>3. Since(j, a)' = Since(j, a)
      BY <2>1, <3>2 DEF Since
    <3>4. /\ granted[j] \in Nat /\ grantedAt[j][a] \in Nat
          /\ grantedAt[j][a] <= granted[j]
      BY <1>2, <3>1 DEF GrantsGrow
    <3>5. Since(j, a) \in Nat
      BY <3>4, SMT DEF Since
    <3>6. Since(j, a) * Window[j] \in Nat
      BY <1>1, <3>5, SMT
    <3>7. Smaller(Full(j), Level(j) + Quota[j]) <= Level(j)'
      BY <1>6, LevelTickExact
    <3> QED
      BY <1>1, <1>3, <3>3, <3>6, <3>7, SMT DEF Balance, Smaller
  <2>4. grantedAt'[j][0] = 0
    BY <1>2, <1>4, <2>2, SMT
  <2>5. Balance(j, 0)' >= Full(j)
    BY <1>1, <1>2, <1>4, <2>3, SMT DEF Smaller
  <2>6. ASSUME NEW a \in 0..uptime'
        PROVE  Balance(j, a)' >= Smaller(Full(j), (uptime' - a) * Quota[j])
    <3>1. CASE a = uptime + 1
      <4>1. a \in 0..MaxUptime
        BY <1>2, <2>1, <3>1, SMT
      <4>2. Since(j, a)' = 0
        BY <1>2, <2>1, <2>2, <3>1, <4>1, SMT DEF Since
      <4>3. Balance(j, a)' = Level(j)'
        BY <1>1, <1>3, <4>2, SMT DEF Balance
      <4> QED
        BY <1>1, <1>2, <1>3, <2>1, <3>1, <4>3, SMT DEF Smaller
    <3>2. CASE a \in 0..uptime
      <4>1. uptime - a \in Int /\ uptime' - a = (uptime - a) + 1
        BY <1>2, <2>1, <3>2, SMT
      <4>2. ((uptime - a) + 1) * Quota[j] = (uptime - a) * Quota[j] + 1 * Quota[j]
        BY <1>1, <4>1, Distribute
      <4>3. (uptime - a) * Quota[j] \in Int
        BY <1>1, <4>1, SMT
      <4>4. (uptime' - a) * Quota[j] = (uptime - a) * Quota[j] + Quota[j]
        BY <1>1, <4>1, <4>2, <4>3, SMT
      <4>5. /\ Balance(j, a) >= Smaller(Full(j), (uptime - a) * Quota[j])
            /\ Balance(j, a) \in Int /\ Balance(j, a)' \in Int
            /\ Balance(j, a)' >= Smaller(Full(j), Balance(j, a) + Quota[j])
        BY <1>4, <2>3, <3>2
      <4> QED
        BY <1>1, <4>3, <4>4, <4>5, SMT DEF Smaller
    <3> QED
      BY <1>2, <2>1, <3>1, <3>2, SMT
  <2> QED
    BY <2>4, <2>5, <2>6
<1>7. CASE StepBack
  BY <1>7, SMT DEF StepBack, TypeOK
<1>8. ASSUME NEW k \in Key, Expire(k)
      PROVE  \A a \in 0..MaxUptime : Balance(j, a)' = Balance(j, a)
  BY <1>8, LevelExpire DEF Balance, Since, Expire
<1>9. ASSUME NEW k \in Key, Allow(k)
      PROVE  \A a \in 0..MaxUptime : Balance(j, a)' = Balance(j, a)
  BY <1>9, AllowConserves
<1>10. CASE UNCHANGED vars
  <2>1. \A a \in 0..MaxUptime : Balance(j, a)' = Balance(j, a)
    BY <1>10 DEF vars, Balance, Since, Level, Live, Elapsed, Full
  <2> QED
    BY <1>5, <1>10, <2>1 DEF vars
<1> QED
  BY <1>5, <1>6, <1>7, <1>8, <1>9, <1>10 DEF Next, Allow, Expire

LEMMA SteadyStep == SteadyInv /\ [Next]_vars => SteadyInv'
<1> SUFFICES ASSUME SteadyInv, [Next]_vars PROVE SteadyInv'
  OBVIOUS
<1>1. IInv' /\ GrantsGrow'
  BY TypeStep, BucketsStep, OverdraftStep, GrantsStep DEF SteadyInv, IInv
<1>2. ASSUME backs' = 0 PROVE backs = 0
  <2>1. backs \in Nat
    BY LimitsAssumption, SMT DEF SteadyInv, IInv, TypeOK
  <2>2. backs' = backs \/ backs' = backs + 1
    BY DEF Next, Tick, StepBack, Allow, Expire, vars
  <2> QED
    BY <1>2, <2>1, <2>2, SMT
<1>3. ASSUME backs' = 0 PROVE OnTime' /\ NothingLost'
  BY <1>2, <1>3, OnTimeStep, LossStep DEF SteadyInv, IInv
<1> QED
  BY <1>1, <1>3 DEF SteadyInv

\* As long as the clock has not been set back, a call is refused only to a key
\* that was allowed its whole quota in the window that ends now.
THEOREM LimiterServesQuota == Spec => []QuotaServed
<1>1. SteadyInv => QuotaServed
  <2> SUFFICES ASSUME SteadyInv, OnTime, NothingLost,
                      NEW k \in Key, Level(k) < Window[k]
               PROVE  Since(k, WindowStart(k)) >= Quota[k]
    BY DEF QuotaServed, SteadyInv
  <2>1. /\ Full(k) \in Nat /\ Quota[k] \in Nat
        /\ Window[k] \in Nat /\ Window[k] > 0 /\ Level(k) \in Nat
    BY LimitsTyped, LevelTyped DEF SteadyInv, IInv
  <2>2. uptime \in 0..MaxUptime /\ uptime \in Nat /\ MaxUptime \in Nat
    BY LimitsAssumption, SMT DEF SteadyInv, IInv, TypeOK
  <2> DEFINE a == WindowStart(k)
  <2>3. a \in 0..uptime /\ a \in 0..MaxUptime
    BY <2>1, <2>2, SMT DEF WindowStart
  <2>4. Since(k, a) \in Int
    <3>1. granted[k] \in Nat /\ grantedAt[k][a] \in Nat
      BY <2>3 DEF SteadyInv, IInv, TypeOK
    <3> QED
      BY <3>1, SMT DEF Since
  <2>5. Balance(k, a) >= Full(k)
    <3>1. CASE uptime >= Window[k]
      <4>1. (uptime - a) * Quota[k] = Full(k)
        BY <2>1, <2>2, <3>1, SMT DEF WindowStart, Full
      <4>2. Balance(k, a) >= Smaller(Full(k), (uptime - a) * Quota[k])
        BY <2>3 DEF NothingLost
      <4> QED
        BY <4>1, <4>2 DEF Smaller
    <3>2. CASE ~(uptime >= Window[k])
      BY <3>2 DEF WindowStart, NothingLost
    <3> QED
      BY <3>1, <3>2
  <2>6. CASE Since(k, a) <= Quota[k] - 1
    <3>1. Since(k, a) * Window[k] <= (Quota[k] + (-1)) * Window[k]
      BY <2>1, <2>4, <2>6, Monotone
    <3>2. (Quota[k] + (-1)) * Window[k] = Quota[k] * Window[k] + (-1) * Window[k]
      BY <2>1, Distribute
    <3>3. Since(k, a) * Window[k] \in Int /\ Quota[k] * Window[k] = Full(k)
      BY <2>1, <2>4, SMT DEF Full
    <3>4. Since(k, a) * Window[k] <= Full(k) - Window[k]
      BY <2>1, <3>1, <3>2, <3>3, SMT
    <3> QED
      BY <2>1, <2>5, <3>3, <3>4, SMT DEF Balance
  <2> QED
    BY <2>1, <2>4, <2>6, SMT
<1> QED
  BY <1>1, SteadyInit, SteadyStep, PTL DEF Spec

-----------------------------------------------------------------------------
(* What `remaining' promises.                                              *)

\* No key was told of more than a bucket holds, or than its own still held
\* when it was last written.
PromisesKept ==
    \A k \in Key : decision[k] # NoDecision =>
        /\ decision[k].remaining * Window[k] <= Full(k)
        /\ bucket[k] # NoBucket =>
              decision[k].remaining * Window[k] <= bucket[k].tokens

LEMMA PromiseStep == IInv /\ PromisesKept /\ [Next]_vars => PromisesKept'
<1> SUFFICES ASSUME TypeOK, BucketsOK, PromisesKept, [Next]_vars,
                    NEW j \in Key, decision'[j] # NoDecision
             PROVE  /\ decision'[j].remaining * Window[j] <= Full(j)
                    /\ bucket'[j] # NoBucket =>
                          decision'[j].remaining * Window[j] <= bucket'[j].tokens
  BY DEF IInv, PromisesKept, Full
<1>0. /\ bucket \in [Key -> Bucket \cup {NoBucket}]
      /\ decision \in [Key -> Decision \cup {NoDecision}]
  BY DEF TypeOK
<1>1. CASE bucket'[j] \in {bucket[j], NoBucket} /\ decision'[j] = decision[j]
  BY <1>1 DEF PromisesKept
<1>2. CASE Allow(j)
  <2>1. /\ bucket'[j].tokens = Left(j)
        /\ decision'[j].remaining = Left(j) \div Window[j]
    BY <1>0, <1>2 DEF Allow, Remaining
  <2>2. /\ Full(j) \in Nat /\ Level(j) \in Nat /\ Level(j) <= Full(j)
        /\ Window[j] \in Nat /\ Window[j] > 0
    BY LimitsTyped, LevelTyped
  <2>3. Left(j) \in Nat /\ Left(j) <= Full(j)
    BY <2>2, SMT DEF Left
  <2>4. /\ (Left(j) \div Window[j]) \in Nat
        /\ (Left(j) \div Window[j]) * Window[j] <= Left(j)
    BY <2>2, <2>3, Floor
  <2> DEFINE promised == (Left(j) \div Window[j]) * Window[j]
  <2>5. promised \in Nat
    BY <2>2, <2>4, SMT
  <2> HIDE DEF promised
  <2>6. promised <= Left(j) /\ promised <= Full(j)
    <3>1. promised <= Left(j)
      BY <2>4 DEF promised
    <3> QED
      BY <2>2, <2>3, <2>5, <3>1, SMT
  <2> QED
    BY <2>1, <2>6 DEF promised
<1>3. ASSUME NEW k \in Key, Allow(k), j # k
      PROVE  bucket'[j] = bucket[j] /\ decision'[j] = decision[j]
  BY <1>0, <1>3 DEF Allow
<1>4. ASSUME NEW k \in Key, Expire(k)
      PROVE  bucket'[j] \in {bucket[j], NoBucket} /\ decision'[j] = decision[j]
  BY <1>0, <1>4 DEF Expire
<1>5. CASE Tick \/ StepBack \/ UNCHANGED vars
  BY <1>1, <1>5 DEF Tick, StepBack, vars
<1> QED
  BY <1>1, <1>2, <1>3, <1>4, <1>5 DEF Next

LEMMA PromisesHonest == IInv /\ PromisesKept => RemainingIsHonest
<1> SUFFICES ASSUME TypeOK, BucketsOK, PromisesKept,
                    NEW k \in Key, decision[k] # NoDecision
             PROVE  decision[k].remaining * Window[k] <= Level(k)
  BY DEF IInv, RemainingIsHonest
<1>1. Full(k) \in Nat /\ Quota[k] \in Nat /\ Window[k] \in Nat
  BY LimitsTyped
<1> DEFINE promised == decision[k].remaining * Window[k]
<1>2. promised \in Nat
  <2>1. decision[k].remaining \in Nat
    BY DEF TypeOK, Decision
  <2> QED
    BY <1>1, <2>1, SMT
<1>3. promised <= Full(k)
  BY DEF PromisesKept
<1>4. CASE ~Live(k)
  BY <1>3, <1>4 DEF Level
<1>5. CASE Live(k)
  <2>1. bucket[k] \in Bucket /\ clock \in Nat
    BY <1>5 DEF TypeOK, Live
  <2>2. bucket[k].tokens \in Nat /\ Elapsed(k) \in Nat
    BY <2>1, SMT DEF Bucket, Elapsed
  <2>3. Elapsed(k) * Quota[k] \in Nat
    BY <1>1, <2>2, SMT
  <2>4. promised <= bucket[k].tokens
    BY <1>5 DEF PromisesKept, Live
  <2>5. Level(k) = Smaller(Full(k), bucket[k].tokens + Elapsed(k) * Quota[k])
    BY <1>5 DEF Level
  <2> DEFINE refill == Elapsed(k) * Quota[k]
  <2> HIDE DEF promised, refill
  <2>6. promised <= bucket[k].tokens + refill
    BY <1>2, <2>2, <2>3, <2>4, SMT DEF refill
  <2> QED
    BY <1>3, <2>5, <2>6 DEF Smaller, refill, promised
<1> QED
  BY <1>4, <1>5

\* For any quotas and windows, what a caller was told remains is there at its
\* next call, whatever time, expiry and the clock do in between.
THEOREM LimiterIsHonest == Spec => []RemainingIsHonest
<1>1. Init => PromisesKept
  BY DEF Init, PromisesKept
<1>2. Spec => []PromisesKept
  BY <1>1, InvariantHolds, PromiseStep, PTL DEF Spec
<1> QED
  BY <1>2, InvariantHolds, PromisesHonest, PTL

-----------------------------------------------------------------------------
(* The ideal bucket.                                                       *)

\* Time takes nothing out of a bucket, whatever the clock says.
LEMMA LevelTickGrows ==
    ASSUME TypeOK, BucketsOK, Tick, NEW k \in Key
    PROVE  Level(k) <= Level(k)'
<1>1. /\ Full(k) \in Nat /\ Full(k)' = Full(k) /\ Quota[k] \in Nat
      /\ Window[k] \in Nat /\ Level(k) \in Nat /\ Level(k) <= Full(k)
  BY LimitsTyped, LevelTyped DEF Full
<1>2. clock \in Nat /\ clock' = clock + 1 /\ bucket' = bucket
  BY DEF TypeOK, Tick
<1>3. CASE ~Live(k)'
  BY <1>1, <1>3 DEF Level
<1>4. CASE Live(k)'
  <2>1. bucket[k] # NoBucket /\ bucket[k] \in Bucket
    BY <1>2, <1>4 DEF TypeOK, Live
  <2>2. /\ bucket[k].tokens \in Nat /\ bucket[k].ts \in Nat
        /\ bucket[k].expires_at \in Nat
    BY <2>1 DEF Bucket
  <2>3. Live(k)
    BY <1>2, <1>4, <2>1, <2>2, SMT DEF Live
  <2>4. /\ Elapsed(k) \in Nat /\ Elapsed(k)' \in Nat
        /\ Elapsed(k) <= Elapsed(k)'
    BY <1>2, <2>2, SMT DEF Elapsed
  <2>5. /\ Elapsed(k) * Quota[k] <= Elapsed(k)' * Quota[k]
        /\ Elapsed(k) * Quota[k] \in Nat /\ Elapsed(k)' * Quota[k] \in Nat
    BY <1>1, <2>4, Monotone, SMT
  <2>6. Level(k) = Smaller(Full(k), bucket[k].tokens + Elapsed(k) * Quota[k])
    BY <2>3 DEF Level
  <2>7. Level(k)' = Smaller(Full(k), bucket[k].tokens + Elapsed(k)' * Quota[k])
    BY <1>1, <1>2, <1>4 DEF Level, Smaller
  <2> QED
    BY <1>1, <2>2, <2>5, <2>6, <2>7, SMT DEF Smaller
<1> QED
  BY <1>3, <1>4

Levels == [k \in Key |-> Level(k)]

LEMMA LevelsNext ==
    ASSUME IInv, [Next]_vars
    PROVE  /\ Levels' = [k \in Key |-> Level(k)']
           /\ Levels' \in [Key -> Nat]
           /\ \A k \in Key : Level(k)' \in Nat /\ Level(k)' <= Full(k)
<1>1. TypeOK' /\ BucketsOK'
  BY TypeStep, BucketsStep
<1>2. (\A k \in Key : Level(k) \in Nat /\ Level(k) <= Full(k))'
  BY <1>1, LevelsTyped, PTL
<1>3. \A k \in Key : Full(k)' = Full(k)
  BY DEF Full
<1> QED
  BY <1>2, <1>3 DEF Levels

LEMMA IdealPass ==
    ASSUME SteadyInv, Tick
    PROVE  Ideal!Pass
<1>1. TypeOK /\ BucketsOK /\ [Next]_vars
  BY DEF SteadyInv, IInv, Next
<1>2. Levels' = [k \in Key |-> Level(k)'] /\ Levels' \in [Key -> Nat]
  BY <1>1, LevelsNext DEF SteadyInv
<1>3. UNCHANGED <<backs, decision>>
  BY DEF Tick
<1>4. ASSUME NEW k \in Key
      PROVE  /\ Levels[k] <= Levels'[k]
             /\ Levels'[k] <= Ideal!Refilled(k, Quota[k])
             /\ backs = 0 => Levels'[k] = Ideal!Refilled(k, Quota[k])
  <2>1. Levels[k] = Level(k) /\ Levels'[k] = Level(k)'
    BY <1>2 DEF Levels
  <2>2. /\ Level(k) \in Nat /\ Level(k) <= Full(k) /\ Full(k) \in Nat
        /\ Quota[k] \in Nat
    BY <1>1, LimitsTyped, LevelTyped
  <2>3. Level(k)' \in Nat /\ Level(k)' <= Full(k)
    BY <1>1, LevelsNext DEF SteadyInv
  <2>4. Level(k) <= Level(k)' /\ Level(k)' <= Level(k) + Quota[k]
    BY <1>1, LevelTick, LevelTickGrows
  <2>5. Ideal!Refilled(k, Quota[k]) = Smaller(Full(k), Level(k) + Quota[k])
    <3>1. Ideal!Refilled(k, Quota[k]) =
            IF Level(k) + Quota[k] <= Full(k) THEN Level(k) + Quota[k] ELSE Full(k)
      BY DEF Ideal!Refilled, Ideal!Full, Full
    <3> QED
      BY <2>2, <3>1, SMT DEF Smaller
  <2>6. backs = 0 => Smaller(Full(k), Level(k) + Quota[k]) <= Level(k)'
    BY <1>1, LevelTickExact DEF SteadyInv
  <2> QED
    BY <2>1, <2>2, <2>3, <2>4, <2>5, <2>6, SMT DEF Smaller
<1> QED
  BY <1>2, <1>3, <1>4 DEF Ideal!Pass, Levels

LEMMA IdealSetBack ==
    ASSUME IInv, StepBack
    PROVE  Ideal!SetBack
<1>1. TypeOK /\ BucketsOK /\ [Next]_vars
  BY DEF IInv, Next
<1>2. Levels' = [k \in Key |-> Level(k)'] /\ Levels' \in [Key -> Nat]
  BY <1>1, LevelsNext
<1>3. decision' = decision /\ (backs = 0)' = FALSE
  BY LimitsAssumption, <1>1, SMT DEF StepBack, TypeOK
<1>4. \A k \in Key : Levels'[k] <= Levels[k]
  BY <1>1, <1>2, LevelStepBack DEF Levels
<1> QED
  BY <1>2, <1>3, <1>4 DEF Ideal!SetBack, Levels

LEMMA IdealAllow ==
    ASSUME IInv, NEW k \in Key, Allow(k)
    PROVE  Ideal!Allow(k)
<1>1. TypeOK /\ BucketsOK /\ [Next]_vars
  BY DEF IInv, Next
<1>2. Levels' = [j \in Key |-> Level(j)']
  BY <1>1, LevelsNext
<1>3. Levels' = [Levels EXCEPT ![k] = Left(k)]
  <2>1. \A j \in Key : Level(j)' = IF j = k THEN Left(k) ELSE Level(j)
    BY <1>1, LevelAllow
  <2> QED
    BY <1>2, <2>1 DEF Levels
<1>4. Levels[k] = Level(k) /\ Levels'[k] = Left(k)
  BY <1>3 DEF Levels
<1>5. /\ decision' = [decision EXCEPT ![k] =
            [allowed |-> Levels[k] >= Window[k],
             remaining |-> Levels'[k] \div Window[k]]]
      /\ (backs = 0)' = (backs = 0)
  BY <1>4 DEF Allow, Remaining
<1>6. CASE Level(k) >= Window[k]
  <2>1. Levels' = [Levels EXCEPT ![k] = @ - Window[k]]
    BY <1>3, <1>4, <1>6 DEF Left
  <2> QED
    BY <1>4, <1>5, <1>6, <2>1 DEF Ideal!Allow, Levels
<1>7. CASE ~(Level(k) >= Window[k])
  <2>1. Level(k) < Window[k]
    BY <1>1, <1>7, LimitsTyped, LevelTyped, SMT
  <2>2. Levels' = Levels
    BY <1>3, <1>4, <1>7 DEF Left, Levels
  <2> QED
    BY <1>4, <1>5, <2>1, <2>2 DEF Ideal!Allow, Levels
<1> QED
  BY <1>6, <1>7

LEMMA IdealStep ==
    SteadyInv /\ [Next]_vars => [Ideal!Next]_(Ideal!vars)
<1> SUFFICES ASSUME SteadyInv, [Next]_vars PROVE [Ideal!Next]_(Ideal!vars)
  OBVIOUS
<1>1. IInv
  BY DEF SteadyInv
<1>2. CASE Tick
  BY <1>2, IdealPass DEF Ideal!Next
<1>3. CASE StepBack
  BY <1>1, <1>3, IdealSetBack DEF Ideal!Next
<1>4. ASSUME NEW k \in Key, Allow(k) PROVE Ideal!Next
  BY <1>1, <1>4, IdealAllow DEF Ideal!Next
<1>5. ASSUME NEW k \in Key, Expire(k) PROVE UNCHANGED Ideal!vars
  <2>1. Levels' = Levels
    BY <1>1, <1>5, LevelsNext, LevelExpire DEF IInv, Levels
  <2> QED
    BY <1>5, <2>1 DEF Expire, Ideal!vars, Levels
<1>6. CASE UNCHANGED vars
  BY <1>6 DEF vars, Ideal!vars, Level, Live, Elapsed
<1> QED
  BY <1>2, <1>3, <1>4, <1>5, <1>6 DEF Next

\* For any keys, quotas and windows, callers cannot tell the script, with its
\* lazy refill and its expiring hashes, from a bucket that refills by itself.
THEOREM LimiterIsATokenBucket == Spec => ImplementsTokenBucket
<1>1. Init => Ideal!Init
  BY DEF Init, Ideal!Init, Ideal!Full, Full, Level, Live
<1>2. Spec => []SteadyInv
  BY SteadyInit, SteadyStep, PTL DEF Spec
<1>3. Spec => Ideal!Init
  BY <1>1 DEF Spec
<1>4. Spec => [][Ideal!Next]_(Ideal!vars)
  BY <1>2, IdealStep, PTL DEF Spec
<1> QED
  BY <1>3, <1>4 DEF ImplementsTokenBucket, Ideal!Spec
=============================================================================
