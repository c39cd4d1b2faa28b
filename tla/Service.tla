--------------------------------- MODULE Service ---------------------------------
(***************************************************************************)
(* From a configuration file to a proxy that selects backends: logging is  *)
(* started, the file is read and validated, the pool is built from it, the *)
(* proxy binds its address with the strategy the file names, and then      *)
(* serves while backends leave and enter rotation.  main.rs does no more   *)
(* than start logging today; the later steps are the constructors of       *)
(* config.rs, backend.rs and proxy.rs, each taking what the one before it  *)
(* returns.                                                                *)
(***************************************************************************)
EXTENDS Configuration, Strategies

CONSTANTS
    Files,          \* what may be in the configuration file
    Environments    \* the values of RUST_LOG

\* A file of the right types lists its backends and names an algorithm there is.
ASSUME ServiceAssumption ==
    \A file \in Files : file.toml =>
        /\ Len(file.backends) \in Nat /\ DOMAIN file.backends = 1..Len(file.backends)
        /\ "algorithm" \in DOMAIN file.settings => file.settings.algorithm \in Algorithms

VARIABLES
    stage,          \* how far the service has come
    error,          \* why it did not come further, or "none"
    logger,         \* the filter of the installed subscriber, or "none"
    config,         \* the backends of the configuration, until the proxy serves
    pool            \* the backends of the pool

vars == <<stage, error, logger, config, pool, strategyVars>>

Stages == {"start", "logging", "configured", "pooled", "serving", "failed"}

Init ==
    /\ stage = "start"
    /\ error = "none"
    /\ logger = "none"
    /\ config = <<>>
    /\ pool = <<>>
    /\ algorithm = "round_robin"
    /\ counter = 0
    /\ rotation = {}
    /\ slice = [c \in Clients |-> {}]
    /\ last = [c \in Clients |-> NoPick]
    /\ turns = NoTurns

\* A constructor has returned a result: go on to the next stage or fail.
Proceed(result, next) ==
    /\ stage' = IF result.ok THEN next ELSE "failed"
    /\ error' = IF result.ok THEN "none" ELSE result.reason

---------------------------------------------------------------------------------
\* A variant of Build that a plausible mistake would give, with the first index
\* off by one.  The specification does not use it.
BuildFromZero ==
    LET result == PoolFromConfig(config)
    IN  /\ stage = "configured"
        /\ Proceed(result, "pooled")
        /\ pool' = IF result.ok THEN result.value ELSE <<>>
        /\ rotation' = IF result.ok THEN 0..(Len(result.value) - 1) ELSE {}
        /\ UNCHANGED <<logger, config, algorithm, counter, slice, last, turns>>

---------------------------------------------------------------------------------
StartLogging(env) ==
    LET result == InitLogging(env, "info", logger)
    IN  /\ stage = "start"
        /\ Proceed(result, "logging")
        /\ logger' = IF result.ok THEN result.value ELSE logger
        /\ UNCHANGED <<config, pool, strategyVars>>

Load(file) ==
    LET result == FromFile(file)
    IN  /\ stage = "logging"
        /\ Proceed(result, "configured")
        /\ config' = IF result.ok THEN result.value.backends ELSE <<>>
        /\ algorithm' = IF result.ok THEN result.value.algorithm ELSE algorithm
        /\ UNCHANGED <<logger, pool, counter, rotation, slice, last, turns>>

\* Every backend starts healthy and in rotation.
Build ==
    LET result == PoolFromConfig(config)
    IN  /\ stage = "configured"
        /\ Proceed(result, "pooled")
        /\ pool' = IF result.ok THEN result.value ELSE <<>>
        /\ rotation' = IF result.ok THEN DOMAIN result.value ELSE {}
        /\ UNCHANGED <<logger, config, algorithm, counter, slice, last, turns>>

\* Proxy::new: nothing has looked at the listen address before, and nothing
\* needs the configuration afterwards.
Bind ==
    /\ stage = "pooled"
    /\ \E result \in {Ok("listener"), Err("Bind")} : Proceed(result, "serving")
    /\ CreateStrategy(algorithm)
    /\ config' = <<>>
    /\ UNCHANGED <<logger, pool, rotation>>

\* A request takes its snapshot, or selects from it.
Serve(c) ==
    /\ stage = "serving"
    /\ TakeSlice(c) \/ Select(c)
    /\ UNCHANGED <<stage, error, logger, config, pool>>

\* The health checker, by what module Rotation promises of it.
PoolChanges ==
    /\ stage = "serving"
    /\ \E i \in DOMAIN pool : rotation' \in {rotation \cup {i}, rotation \ {i}}
    /\ UNCHANGED <<stage, error, logger, config, pool, algorithm, counter, slice, last, turns>>

Next ==
    \/ \E env \in Environments : StartLogging(env)
    \/ \E file \in Files : Load(file)
    \/ Build
    \/ Bind
    \/ \E c \in Clients : Serve(c)
    \/ PoolChanges

Spec == Init /\ [][Next]_vars

---------------------------------------------------------------------------------
Errors == {"none", "RUST_LOG", "TryInit", "Io", "Parse", "ZeroBackends",
           "DuplicateBackendAddrs", "InvalidAddrs", "NoBackends", "AddrParseError", "Bind"}

TypeOK ==
    /\ stage \in Stages
    /\ error \in Errors
    /\ stage = "failed" <=> error # "none"
    /\ algorithm \in Algorithms
    /\ counter \in 0..(CounterSize - 1)
    /\ rotation \subseteq DOMAIN pool
    /\ slice \in [Clients -> SUBSET DOMAIN pool]
    /\ last \in [Clients -> [from : SUBSET DOMAIN pool, index : Nat]]
    /\ \A c \in Clients : last[c] = NoPick \/ last[c].index \in 1..Cardinality(last[c].from)
    /\ turns.from \subseteq DOMAIN pool
    /\ turns.indexes \in Seq(1..Cardinality(turns.from))

(***************************************************************************)
(* What Config::validate accepts never fails later: the pool is built from *)
(* every validated configuration, whatever the file left out.  The two     *)
(* functions test the addresses separately (config.rs, backend.rs).        *)
(***************************************************************************)
PoolAlwaysBuilds == error \notin {"NoBackends", "AddrParseError"}

(***************************************************************************)
(* Two backends of the pool share a socket address, so that the lookups by *)
(* address reach only the first, only if the file spells it differently:   *)
(* validation compares texts (config.rs, Config::validate).                *)
(***************************************************************************)
AliasesOnly ==
    stage = "pooled" =>
        \A i, j \in DOMAIN pool :
            i # j /\ pool[i].addr = pool[j].addr => config[i].addr # config[j].addr
=================================================================================
