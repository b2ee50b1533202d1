-------------------------- MODULE IdempotencyStore --------------------------
(***************************************************************************)
(* The idempotency keys of app/infrastructure/idempotency/redis.py, and    *)
(* the callers their port is made for: a request begins its key, is        *)
(* processed if it is told `new', and completes the key with the hash of   *)
(* its response; told `done' it replays that response, told `in_flight'    *)
(* it gives up.                                                            *)
(*                                                                         *)
(* A step is one Redis command.  `begin' is two when its SET NX finds the  *)
(* key: the GET comes later, and the key may have lapsed or changed hands  *)
(* in between.  Time is counted down per key, as Redis does, so the model  *)
(* needs no bound on it.                                                   *)
(***************************************************************************)
EXTENDS Integers

CONSTANTS
    Caller,     \* requests being processed
    Key,        \* idempotency keys
    Hash,       \* response hashes
    NoKey,      \* "no such key in Redis"; a caller that has none
    InFlight,   \* the value "in_flight"
    Ttl,        \* ttl_s, in units of time
    MaxRun      \* longest time between a begin and its complete

ASSUME TimesAssumption == Ttl \in Nat \ {0} /\ MaxRun \in Nat

ASSUME ValuesAssumption ==
    /\ NoKey \notin Hash \cup {InFlight} \cup Key
    /\ InFlight \notin Hash

VARIABLES
    entry,      \* value of idem:<key>: InFlight, or the hash after "done:"
    ttl,        \* what TTL idem:<key> would say, 0 if there is no key
    pc,         \* what a caller is doing
    key,        \* the key it works on
    age         \* time since its begin returned `new'

vars == <<entry, ttl, pc, key, age>>

\* Redis' answer to TTL for a key that never expires.
Persistent == -1

Init ==
    /\ entry = [k \in Key |-> NoKey]
    /\ ttl = [k \in Key |-> 0]
    /\ pc = [c \in Caller |-> "idle"]
    /\ key = [c \in Caller |-> NoKey]
    /\ age = [c \in Caller |-> 0]

Become(c, label, k) ==
    /\ pc' = [pc EXCEPT ![c] = label]
    /\ key' = [key EXCEPT ![c] = k]
    /\ age' = [age EXCEPT ![c] = 0]

Stop(c) == Become(c, "idle", NoKey)

SetKey(k, value, seconds) ==
    /\ entry' = [entry EXCEPT ![k] = value]
    /\ ttl' = [ttl EXCEPT ![k] = seconds]

-----------------------------------------------------------------------------
(* begin                                                                   *)

\* Mutant: SET without NX.
BeginAlways(c, k) ==
    /\ pc[c] = "idle"
    /\ SetKey(k, InFlight, Ttl)
    /\ Become(c, "run", k)

\* Mutant: SET NX without EX.
BeginForEver(c, k) ==
    /\ pc[c] = "idle"
    /\ entry[k] = NoKey
    /\ SetKey(k, InFlight, Persistent)
    /\ Become(c, "run", k)

\* Mutant: the key is taken unless its value is "in_flight".
BeginUnlessInFlight(c, k) ==
    /\ pc[c] = "idle"
    /\ entry[k] # InFlight
    /\ SetKey(k, InFlight, Ttl)
    /\ Become(c, "run", k)

\* SET NX EX finds no key: `new'.
BeginNew(c, k) ==
    /\ pc[c] = "idle"
    /\ entry[k] = NoKey
    /\ SetKey(k, InFlight, Ttl)
    /\ Become(c, "run", k)

\* SET NX EX finds the key.
BeginExists(c, k) ==
    /\ pc[c] = "idle"
    /\ entry[k] # NoKey
    /\ Become(c, "get", k)
    /\ UNCHANGED <<entry, ttl>>

\* The GET of begin, answered `done', `in_flight' or, for a key that has
\* lapsed since, `in_flight' again: in no case is the caller to process.
BeginGet(c) ==
    /\ pc[c] = "get"
    /\ Stop(c)
    /\ UNCHANGED <<entry, ttl>>

-----------------------------------------------------------------------------
(* complete                                                                *)

\* Mutant: SET without KEEPTTL.
CompleteForEver(c, h) ==
    /\ pc[c] = "run"
    /\ \/ entry[key[c]] # NoKey /\ SetKey(key[c], h, Persistent)
       \/ entry[key[c]] = NoKey /\ UNCHANGED <<entry, ttl>>
    /\ Stop(c)

\* Mutant: SET without XX, with the time to live of begin.
CompleteAnyway(c, h) ==
    /\ pc[c] = "run"
    /\ SetKey(key[c], h, Ttl)
    /\ Stop(c)

\* SET XX KEEPTTL, whoever the key belongs to by now.
Complete(c, h) ==
    /\ pc[c] = "run"
    /\ \/ entry[key[c]] # NoKey /\ SetKey(key[c], h, ttl[key[c]])
       \/ entry[key[c]] = NoKey /\ UNCHANGED <<entry, ttl>>
    /\ Stop(c)

-----------------------------------------------------------------------------
(* The environment.                                                        *)

\* The caller crashes, or loses the answer to begin.
Crash(c) ==
    /\ pc[c] # "idle"
    /\ Stop(c)
    /\ UNCHANGED <<entry, ttl>>

\* A unit of time passes, in which no run outlives its limit.
Tick ==
    /\ \A c \in Caller : pc[c] = "run" => age[c] < MaxRun
    /\ age' = [c \in Caller |-> IF pc[c] = "run" THEN age[c] + 1 ELSE age[c]]
    /\ ttl' = [k \in Key |-> IF ttl[k] > 0 THEN ttl[k] - 1 ELSE ttl[k]]
    /\ entry' = [k \in Key |-> IF ttl[k] = 1 THEN NoKey ELSE entry[k]]
    /\ UNCHANGED <<pc, key>>

Proceed(c) == BeginGet(c) \/ \E h \in Hash : Complete(c, h)

Next ==
    \/ Tick
    \/ \E c \in Caller :
          \/ \E k \in Key : BeginNew(c, k) \/ BeginExists(c, k)
          \/ Proceed(c)
          \/ Crash(c)

Spec == Init /\ [][Next]_vars

\* Time passes, and a request that has begun is carried on by the event loop.
FairSpec == Spec /\ WF_vars(Tick) /\ \A c \in Caller : WF_vars(Proceed(c))

-----------------------------------------------------------------------------
(* Properties.                                                             *)

TypeOK ==
    /\ entry \in [Key -> Hash \cup {InFlight, NoKey}]
    /\ ttl \in [Key -> 0..Ttl]
    /\ pc \in [Caller -> {"idle", "get", "run"}]
    /\ key \in [Caller -> Key \cup {NoKey}]
    /\ age \in [Caller -> 0..MaxRun]

\* Runs for k.
Running(k) == {c \in Caller : pc[c] = "run" /\ key[c] = k}

\* A request is processed once at a time: of the callers told `new', one at
\* most is within its time to live, however begins, lapses, crashes and
\* completions interleave.  A second one is always a run that is overdue.
OneRunner ==
    \A k \in Key : \A c, d \in Running(k) :
        (age[c] < Ttl /\ age[d] < Ttl) => c = d

\* Everybody who asks in a key's lifetime is given the same response: once
\* set, and no run for it left that could set it again, the hash stands until
\* the key lapses.
DoneIsFinal ==
    [][\A k \in Key :
          (entry[k] \in Hash /\ Running(k) = {})
              => entry'[k] \in {entry[k], NoKey}]_vars

\* A run that outlives its key does not bring the key back: a key that has
\* lapsed is next seen in flight.
NoRevival == [][\A k \in Key : entry[k] = NoKey => entry'[k] \notin Hash]_vars

\* A key never stays: whatever its owner does, or if it crashes, the request
\* can be begun afresh in the end.
KeysLapse == \A k \in Key : entry[k] # NoKey ~> entry[k] = NoKey
=============================================================================
