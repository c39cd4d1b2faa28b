------------------------------ MODULE Configuration ------------------------------
(***************************************************************************)
(* The configuration of config.rs as operators: what a TOML file makes of  *)
(* the defaults, how the result is validated, the pool that backend.rs     *)
(* builds from it, and the log filter of logging.rs.  Addresses are text;  *)
(* two texts may be spellings of one socket address, such as [::1]:80 and  *)
(* [0:0:0:0:0:0:0:1]:80.                                                   *)
(*                                                                         *)
(* A file is a record: whether it can be read, whether it is TOML of the   *)
(* right types, the backends it lists and the settings it gives, of which  *)
(* any may be left out.                                                    *)
(***************************************************************************)
EXTENDS Naturals, Sequences, FiniteSets

CONSTANTS
    Text,           \* the texts given for backend addresses
    SocketAddr      \* SocketAddr[t]: the socket address that t spells, or "none"

ASSUME ConfigurationAssumption == DOMAIN SocketAddr = Text

Algorithms == {"round_robin", "weighted_round_robin", "least_connections", "ip_hash", "random"}

Ok(value) == [ok |-> TRUE, value |-> value]
Err(reason) == [ok |-> FALSE, reason |-> reason]

\* #[serde(default)]: fields that are not given take their default.
Fill(given, defaults) ==
    [k \in DOMAIN given \cup DOMAIN defaults |->
        IF k \in DOMAIN given THEN given[k] ELSE defaults[k]]

DefaultWeight == [weight |-> 1]
DefaultHealthCheck == [path |-> "/health", interval |-> 5, timeout |-> 3,
                       healthy_threshold |-> 3, unhealthy_threshold |-> 3]
DefaultTimeouts == [connect |-> 5, read |-> 30, write |-> 30]
DefaultConfig == [listen_addr |-> "0.0.0.0:8080", admin_addr |-> "0.0.0.0:9090",
                  backends |-> <<>>, algorithm |-> "round_robin",
                  health_check |-> DefaultHealthCheck, timeouts |-> DefaultTimeouts,
                  max_connections |-> 0, log_format |-> "pretty"]

Parses(text) == SocketAddr[text] # "none"

Addrs(backends) == [i \in DOMAIN backends |-> backends[i].addr]

---------------------------------------------------------------------------------
(***************************************************************************)
(* Variants of the definitions below that a plausible mistake would give;  *)
(* none is used by the specification.                                      *)
(***************************************************************************)
\* The syntax of addresses is left for the pool to find out.
ValidateWithoutParsing(config) ==
    LET addrs == Addrs(config.backends)
    IN  CASE Len(addrs) = 0 -> Err("ZeroBackends")
          [] \E i, j \in DOMAIN addrs : i # j /\ addrs[i] = addrs[j] ->
                Err("DuplicateBackendAddrs")
          [] OTHER -> Ok(config)

\* Duplicates are only looked for among neighbours, as Vec::dedup does.
ValidateNeighbours(config) ==
    LET addrs == Addrs(config.backends)
    IN  CASE Len(addrs) = 0 -> Err("ZeroBackends")
          [] \E i, j \in DOMAIN addrs : i + 1 = j /\ addrs[i] = addrs[j] ->
                Err("DuplicateBackendAddrs")
          [] \E i \in DOMAIN addrs : ~Parses(addrs[i]) -> Err("InvalidAddrs")
          [] OTHER -> Ok(config)

---------------------------------------------------------------------------------
\* toml::from_str.  Everything has a default but the address of a backend.
FromToml(file) ==
    LET given == [i \in DOMAIN file.backends |-> Fill(file.backends[i], DefaultWeight)]
        config == Fill(Fill([backends |-> given], file.settings), DefaultConfig)
    IN  IF ~file.toml \/ \E i \in DOMAIN given : "addr" \notin DOMAIN given[i]
        THEN Err("Parse")
        ELSE Ok([config EXCEPT !.health_check = Fill(@, DefaultHealthCheck),
                               !.timeouts = Fill(@, DefaultTimeouts)])

\* Config::validate: three tests, the first that fails decides.
Validate(config) ==
    LET addrs == Addrs(config.backends)
    IN  CASE Len(addrs) = 0 -> Err("ZeroBackends")
          [] Cardinality({addrs[i] : i \in DOMAIN addrs}) # Len(addrs) ->
                Err("DuplicateBackendAddrs")
          [] \E i \in DOMAIN addrs : ~Parses(addrs[i]) -> Err("InvalidAddrs")
          [] OTHER -> Ok(config)

FromFile(file) ==
    IF ~file.readable THEN Err("Io")
    ELSE LET parsed == FromToml(file)
         IN  IF parsed.ok THEN Validate(parsed.value) ELSE parsed

\* Backend::from_config
BackendFromConfig(backend) == [addr |-> SocketAddr[backend.addr], weight |-> backend.weight]

\* BackendPool::from_config: the first address that does not parse is its error.
PoolFromConfig(backends) ==
    CASE Len(backends) = 0 -> Err("NoBackends")
      [] \E i \in DOMAIN backends : ~Parses(backends[i].addr) -> Err("AddrParseError")
      [] OTHER -> Ok([i \in DOMAIN backends |-> BackendFromConfig(backends[i])])

---------------------------------------------------------------------------------
(***************************************************************************)
(* The filter comes from RUST_LOG, and only without RUST_LOG from the      *)
(* level the caller passes; a level that is no filter falls back to        *)
(* "debug".  "invalid" stands for text that is no filter.                  *)
(***************************************************************************)
BuildFilter(env, level) ==
    CASE env.set /\ env.filter # "invalid" -> Ok(env.filter)
      [] env.set /\ env.filter = "invalid" -> Err("RUST_LOG")
      [] ~env.set /\ level # "invalid" -> Ok(level)
      [] OTHER -> Ok("debug")

\* init_logging: a second subscriber cannot be installed.
InitLogging(env, level, installed) ==
    LET filter == BuildFilter(env, level)
    IN  IF filter.ok /\ installed # "none" THEN Err("TryInit") ELSE filter
=================================================================================
