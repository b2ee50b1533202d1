------------------------------ MODULE Lifespan ------------------------------
(***************************************************************************)
(* The life of the process as app/core/lifespan.py runs it: the startup    *)
(* hooks fill the container and register a readiness probe for each        *)
(* dependency, the readiness flag goes up last, and shutdown lowers it     *)
(* before it closes the two clients.                                       *)
(*                                                                         *)
(* The startup hooks contain no await that waits, so startup is one step   *)
(* for everybody else, whether it succeeds or one of the hooks raises.     *)
(* Each of the two awaits of shutdown is a step of its own.                *)
(***************************************************************************)
EXTENDS Integers, Sequences

VARIABLES
    phase,   \* where lifespan() is
    ready,   \* app.state.ready
    wired,   \* the startup hooks whose result the process holds
    probes,  \* dependencies with a probe in container.probe_registry
    client   \* client[d]: the engine, or Redis client, for dependency d

lifespanVars == <<phase, ready, wired, probes, client>>

\* The dependencies a client and a probe are made for.
Dep == {"db", "redis"}

\* What startup sets up, in order: setup_db, setup_storage, setup_password_hasher,
\* setup_token_signer, wire_clock, setup_redis_client and setup_cache.
Hooks == <<"db", "storage", "hasher", "signer", "clock", "redis", "cache">>

Phases == {"created", "serving", "disposing", "closing", "stopped", "failed"}

LifespanInit ==
    /\ phase = "created"
    /\ ready = FALSE
    /\ wired = {}
    /\ probes = {}
    /\ client = [d \in Dep |-> "none"]

\* The first n hooks return.  The clients connect when they are first used.
RunHooks(n) ==
    /\ wired' = {Hooks[i] : i \in 1..n}
    /\ client' = [d \in Dep |-> IF d \in wired' THEN "open" ELSE client[d]]

\* Mutant: the flag goes up before Redis is set up, and stays up if that fails.
StartFailsReady ==
    /\ phase = "created"
    /\ RunHooks(5)
    /\ probes' = {"db"}
    /\ ready' = TRUE
    /\ phase' = "failed"

Start ==
    /\ phase = "created"
    /\ RunHooks(Len(Hooks))
    /\ probes' = Dep
    /\ ready' = TRUE
    /\ phase' = "serving"

\* A hook up to setup_redis_client raises: the exception leaves lifespan(),
\* and nothing that has been set up is taken down.
StartFails ==
    /\ phase = "created"
    /\ \E n \in 0..5 :
          /\ RunHooks(n)
          /\ probes' = wired' \cap {"db"}
    /\ ready' = FALSE
    /\ phase' = "failed"

\* setup_cache raises, within the `try': its `finally' runs.
StartFailsLate ==
    /\ phase = "created"
    /\ RunHooks(6)
    /\ probes' = {"db"}
    /\ ready' = FALSE
    /\ phase' = "disposing"

\* The server ends lifespan(): its `finally' begins.
Stop ==
    /\ phase = "serving"
    /\ ready' = FALSE
    /\ phase' = "disposing"
    /\ UNCHANGED <<wired, probes, client>>

\* await engine.dispose(); if it raises, shutdown_redis is not reached.
DisposeEngine ==
    /\ phase = "disposing"
    /\ \/ /\ client' = [client EXCEPT !["db"] = "closed"]
          /\ phase' = "closing"
       \/ /\ phase' = "stopped"
          /\ UNCHANGED client
    /\ UNCHANGED <<ready, wired, probes>>

\* await client.aclose(), which may raise as well.
CloseRedis ==
    /\ phase = "closing"
    /\ \/ client' = [client EXCEPT !["redis"] = "closed"]
       \/ UNCHANGED client
    /\ phase' = "stopped"
    /\ UNCHANGED <<ready, wired, probes>>

LifespanNext ==
    \/ Start \/ StartFails \/ StartFailsLate
    \/ Stop \/ DisposeEngine \/ CloseRedis

LifespanTypeOK ==
    /\ phase \in Phases
    /\ ready \in BOOLEAN
    /\ wired \subseteq {Hooks[i] : i \in DOMAIN Hooks}
    /\ probes \subseteq Dep
    /\ client \in [Dep -> {"none", "open", "closed"}]

\* The flag is up only while everything is there: every hook has run, both
\* probes are registered, and neither client has been closed.  What a start
\* that fails half-way, or a shutdown, leaves behind is never called ready.
ReadyMeansWired ==
    ready =>
        /\ wired = {Hooks[i] : i \in DOMAIN Hooks}
        /\ probes = Dep
        /\ \A d \in Dep : client[d] = "open"
=============================================================================
