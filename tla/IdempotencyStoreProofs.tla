----------------------- MODULE IdempotencyStoreProofs -----------------------
(***************************************************************************)
(* Proofs about IdempotencyStore.  That a key has one in-time run follows  *)
(* from what such a run knows of its key: it is still there, and what is   *)
(* left of its life is the time to live less the age of the run.           *)
(***************************************************************************)
EXTENDS IdempotencyStore, TLAPS

\* A key is in Redis as long as it has time to live.
LifetimesOK == \A k \in Key : entry[k] # NoKey <=> ttl[k] > 0

\* A caller that is doing something does it to a key.
KeysHeld == \A c \in Caller : pc[c] # "idle" => key[c] \in Key

\* The runs that are within their time to live.
InTime(c) == pc[c] = "run" /\ age[c] < Ttl

\* Such a run is as old as its key.
RunsOwnKeys == \A c \in Caller : InTime(c) => ttl[key[c]] = Ttl - age[c]

IInv == TypeOK /\ LifetimesOK /\ KeysHeld /\ RunsOwnKeys /\ OneRunner

-----------------------------------------------------------------------------
LEMMA InvInit == Init => IInv
<1> SUFFICES ASSUME Init PROVE IInv
  OBVIOUS
<1> USE TimesAssumption DEF Init
<1>1. TypeOK
  BY DEF TypeOK
<1>2. LifetimesOK /\ KeysHeld /\ RunsOwnKeys /\ OneRunner
  BY DEF LifetimesOK, KeysHeld, RunsOwnKeys, InTime, OneRunner, Running
<1> QED
  BY <1>1, <1>2 DEF IInv

\* begin takes a free key: no run for it was in time.
LEMMA BeginNewKeeps ==
  ASSUME IInv, NEW c \in Caller, NEW k \in Key, BeginNew(c, k)
  PROVE  IInv'
<1> USE TimesAssumption DEF IInv, BeginNew, SetKey, Become
<1>1. TypeOK'
  BY DEF TypeOK
<1>2. LifetimesOK' /\ KeysHeld'
  BY ValuesAssumption DEF TypeOK, LifetimesOK, KeysHeld
<1>3. \A d \in Caller \ {c} : InTime(d) => key[d] # k
  BY DEF TypeOK, LifetimesOK, KeysHeld, RunsOwnKeys, InTime
<1>4. \A d \in Caller \ {c} :
        /\ pc'[d] = pc[d] /\ key'[d] = key[d] /\ age'[d] = age[d]
        /\ key[d] # k => ttl'[key[d]] = ttl[key[d]]
  BY DEF TypeOK
<1>5. /\ pc'[c] = "run" /\ key'[c] = k /\ age'[c] = 0 /\ ttl'[k] = Ttl
  BY DEF TypeOK
<1>6. RunsOwnKeys'
  <2> SUFFICES ASSUME NEW d \in Caller, InTime(d)'
               PROVE  ttl'[key'[d]] = Ttl - age'[d]
    BY DEF RunsOwnKeys
  <2>1. CASE d = c
    BY <2>1, <1>5
  <2>2. CASE d # c
    <3>1. InTime(d)
      BY <2>2, <1>4 DEF InTime
    <3> QED
      BY <2>2, <3>1, <1>3, <1>4 DEF RunsOwnKeys
  <2> QED
    BY <2>1, <2>2
<1>7. OneRunner'
  BY <1>3, <1>4, <1>5 DEF OneRunner, Running, InTime
<1> QED
  BY <1>1, <1>2, <1>6, <1>7

\* A caller stops, whatever has become of the value of its key.
LEMMA StopKeeps ==
  ASSUME IInv, NEW c \in Caller, Stop(c),
         ttl' = ttl,
         entry' \in [Key -> Hash \cup {InFlight, NoKey}],
         \A k \in Key : entry'[k] = NoKey <=> entry[k] = NoKey
  PROVE  IInv'
<1> USE TimesAssumption DEF IInv, Stop, Become
<1>1. TypeOK'
  BY DEF TypeOK
<1>2. /\ pc'[c] = "idle"
      /\ \A d \in Caller \ {c} :
            pc'[d] = pc[d] /\ key'[d] = key[d] /\ age'[d] = age[d]
  BY DEF TypeOK
<1>3. LifetimesOK' /\ KeysHeld'
  BY <1>2 DEF LifetimesOK, KeysHeld
<1>4. RunsOwnKeys' /\ OneRunner'
  BY <1>2 DEF RunsOwnKeys, InTime, OneRunner, Running
<1> QED
  BY <1>1, <1>3, <1>4

LEMMA BeginExistsKeeps ==
  ASSUME IInv, NEW c \in Caller, NEW k \in Key, BeginExists(c, k)
  PROVE  IInv'
<1> USE TimesAssumption DEF IInv, BeginExists, Become
<1>1. TypeOK'
  BY DEF TypeOK
<1>2. /\ pc'[c] = "get" /\ key'[c] = k
      /\ \A d \in Caller \ {c} :
            pc'[d] = pc[d] /\ key'[d] = key[d] /\ age'[d] = age[d]
  BY DEF TypeOK
<1>3. LifetimesOK' /\ KeysHeld'
  BY <1>2 DEF LifetimesOK, KeysHeld
<1>4. RunsOwnKeys' /\ OneRunner'
  BY <1>2 DEF RunsOwnKeys, InTime, OneRunner, Running
<1> QED
  BY <1>1, <1>3, <1>4

\* complete never makes a key, nor drops one, nor changes its life.
LEMMA CompleteKeeps ==
  ASSUME IInv, NEW c \in Caller, NEW h \in Hash, Complete(c, h)
  PROVE  IInv'
<1>1. key[c] \in Key
  BY DEF IInv, KeysHeld, Complete
<1>2. /\ ttl' = ttl
      /\ entry' \in [Key -> Hash \cup {InFlight, NoKey}]
      /\ \A k \in Key : entry'[k] = NoKey <=> entry[k] = NoKey
  BY <1>1, ValuesAssumption DEF IInv, TypeOK, Complete, SetKey
<1>3. Stop(c)
  BY DEF Complete
<1> QED
  BY <1>2, <1>3, StopKeeps

\* Keys and runs age together.
LEMMA TickKeeps == ASSUME IInv, Tick PROVE IInv'
<1> USE TimesAssumption DEF IInv, Tick
<1>1. TypeOK'
  BY DEF TypeOK
<1>2. LifetimesOK'
  BY DEF TypeOK, LifetimesOK
<1>3. KeysHeld'
  BY DEF KeysHeld
<1>4. ASSUME NEW c \in Caller, InTime(c)'
      PROVE  InTime(c) /\ age'[c] = age[c] + 1
  BY <1>4 DEF TypeOK, InTime
<1>5. RunsOwnKeys'
  <2> SUFFICES ASSUME NEW c \in Caller, InTime(c)'
               PROVE  ttl'[key'[c]] = Ttl - age'[c]
    BY DEF RunsOwnKeys
  <2>1. InTime(c) /\ age'[c] = age[c] + 1
    BY <1>4
  <2>2. key[c] \in Key /\ age[c] \in Nat /\ age[c] < Ttl
    BY <2>1 DEF KeysHeld, InTime, TypeOK
  <2>3. ttl[key[c]] = Ttl - age[c]
    BY <2>1 DEF RunsOwnKeys
  <2>4. ttl'[key[c]] = ttl[key[c]] - 1
    BY <2>2, <2>3 DEF TypeOK
  <2> QED
    BY <2>1, <2>2, <2>3, <2>4
<1>6. OneRunner'
  BY <1>4 DEF OneRunner, Running, InTime
<1> QED
  BY <1>1, <1>2, <1>3, <1>5, <1>6

LEMMA InvStep == IInv /\ [Next]_vars => IInv'
<1> SUFFICES ASSUME IInv, [Next]_vars PROVE IInv'
  OBVIOUS
<1>1. CASE Tick
  BY <1>1, TickKeeps
<1>2. ASSUME NEW c \in Caller, NEW k \in Key, BeginNew(c, k) PROVE IInv'
  BY <1>2, BeginNewKeeps
<1>3. ASSUME NEW c \in Caller, NEW k \in Key, BeginExists(c, k) PROVE IInv'
  BY <1>3, BeginExistsKeeps
<1>4. ASSUME NEW c \in Caller, BeginGet(c) \/ Crash(c) PROVE IInv'
  BY <1>4, StopKeeps DEF BeginGet, Crash, IInv, TypeOK
<1>5. ASSUME NEW c \in Caller, NEW h \in Hash, Complete(c, h) PROVE IInv'
  BY <1>5, CompleteKeeps
<1>6. CASE UNCHANGED vars
  BY <1>6 DEF vars, IInv, TypeOK, LifetimesOK, KeysHeld, RunsOwnKeys, InTime,
              OneRunner, Running
<1> QED
  BY <1>1, <1>2, <1>3, <1>4, <1>5, <1>6 DEF Next, Proceed

\* The inductive invariant holds for any callers, keys and times.
THEOREM InvariantHolds == Spec => []IInv
  BY InvInit, InvStep, PTL DEF Spec

\* Every variable keeps its type: no key ever gets more than its time to live.
THEOREM StoreTyped == Spec => []TypeOK
<1>1. IInv => TypeOK
  BY DEF IInv
<1> QED
  BY <1>1, InvariantHolds, PTL

\* begin and complete of app/infrastructure/idempotency/redis.py: at most one
\* of the callers told `new' for a key is within its time to live.
THEOREM OneRunAtATime == Spec => []OneRunner
<1>1. IInv => OneRunner
  BY DEF IInv
<1> QED
  BY <1>1, InvariantHolds, PTL

-----------------------------------------------------------------------------
\* A step that gives key k a hash is the completion of a run for k.
LEMMA OnlyRunsComplete ==
  ASSUME IInv, [Next]_vars, NEW k \in Key,
         entry'[k] \in Hash, entry'[k] # entry[k]
  PROVE  entry[k] # NoKey /\ Running(k) # {}
<1>1. CASE Tick
  BY <1>1, ValuesAssumption DEF Tick, IInv, TypeOK
<1>2. ASSUME NEW c \in Caller, NEW j \in Key, BeginNew(c, j) PROVE FALSE
  BY <1>2, ValuesAssumption DEF BeginNew, SetKey, IInv, TypeOK
<1>3. ASSUME NEW c \in Caller, NEW h \in Hash, Complete(c, h)
      PROVE  entry[k] # NoKey /\ Running(k) # {}
  <2>1. key[c] \in Key
    BY <1>3 DEF IInv, KeysHeld, Complete
  <2>2. key[c] = k /\ entry[k] # NoKey
    BY <1>3, <2>1 DEF Complete, SetKey, IInv, TypeOK
  <2>3. c \in Running(k)
    BY <1>3, <2>2 DEF Complete, Running
  <2> QED
    BY <2>2, <2>3
<1> QED
  BY <1>1, <1>2, <1>3
     DEF Next, Proceed, BeginExists, BeginGet, Crash, vars

\* complete of app/infrastructure/idempotency/redis.py, with its XX: a lapsed
\* key is not brought back.
THEOREM LapsedKeysStayLapsed == Spec => NoRevival
<1>1. IInv /\ [Next]_vars
        => [\A k \in Key : entry[k] = NoKey => entry'[k] \notin Hash]_vars
  <2> SUFFICES ASSUME IInv, [Next]_vars, NEW k \in Key, entry[k] = NoKey
               PROVE  entry'[k] \notin Hash
    OBVIOUS
  <2> QED
    BY OnlyRunsComplete, ValuesAssumption
<1> QED
  BY <1>1, InvariantHolds, PTL DEF Spec, NoRevival

\* The same: a hash that no run is left to set again stands while its key does.
THEOREM ResultsStand == Spec => DoneIsFinal
<1>1. IInv /\ [Next]_vars
        => [\A k \in Key : (entry[k] \in Hash /\ Running(k) = {})
                => entry'[k] \in {entry[k], NoKey}]_vars
  <2> SUFFICES ASSUME IInv, [Next]_vars, NEW k \in Key,
                      entry[k] \in Hash, Running(k) = {}
               PROVE  entry'[k] \in {entry[k], NoKey}
    OBVIOUS
  <2>1. entry'[k] \notin Hash \/ entry'[k] = entry[k]
    BY OnlyRunsComplete
  <2>2. entry[k] # NoKey
    BY ValuesAssumption
  <2>3. entry'[k] # InFlight
    <3>1. CASE Tick
      BY <3>1, ValuesAssumption DEF Tick, IInv, TypeOK
    <3>2. ASSUME NEW c \in Caller, NEW j \in Key, BeginNew(c, j)
          PROVE  entry'[k] = entry[k]
      BY <3>2, <2>2 DEF BeginNew, SetKey, IInv, TypeOK
    <3>3. ASSUME NEW c \in Caller, NEW h \in Hash, Complete(c, h)
          PROVE  entry'[k] # InFlight
      BY <3>3, ValuesAssumption DEF Complete, SetKey, IInv, TypeOK
    <3> QED
      BY <3>1, <3>2, <3>3, ValuesAssumption
         DEF Next, Proceed, BeginExists, BeginGet, Crash, vars
  <2>4. IInv'
    BY InvStep
  <2> QED
    BY <2>1, <2>3, <2>4 DEF IInv, TypeOK
<1> QED
  BY <1>1, InvariantHolds, PTL DEF Spec, DoneIsFinal
=============================================================================
