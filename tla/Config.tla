------------------------------- MODULE Config -------------------------------
(***************************************************************************)
(* What the agent starts from: config.Load over the environment, and the   *)
(* values the rest of the agent computes from it (ticker intervals, TTLs,  *)
(* ports, the RAM budget), in integers of a fixed width.                   *)
(***************************************************************************)
EXTENDS NetPlan, Admission

CONSTANTS Second, Minute,  \* time.Second and time.Minute
          MaxPort          \* 65535

ASSUME ConfigAssumption == {Second, Minute, MaxPort} \subseteq 1 .. IntHalf - 1

\* An environment variable is unset or empty, not a number, or a number.
Empty == [kind |-> "empty", n |-> 0]
Junk == [kind |-> "junk", n |-> 0]
Number(n) == [kind |-> "number", n |-> n]

IntVars == {"HEARTBEAT_INTERVAL_SECONDS", "HOST_RESERVED_RAM_MB", "DEFAULT_TTL_MINUTES",
            "REAPER_INTERVAL_SECONDS", "DOCKER_PORT_BASE", "BANDWIDTH_CAP_MBIT"}

default ==
  [v \in IntVars |-> CASE v = "HEARTBEAT_INTERVAL_SECONDS" -> 20
                       [] v = "HOST_RESERVED_RAM_MB" -> 8192
                       [] v = "DEFAULT_TTL_MINUTES" -> 60
                       [] v = "REAPER_INTERVAL_SECONDS" -> 30
                       [] v = "DOCKER_PORT_BASE" -> 10000
                       [] v = "BANDWIDTH_CAP_MBIT" -> 200]

Failure == [ok |-> FALSE, n |-> 0]

\* An empty variable cannot be told from an unset one.
envOr(value, def) == IF value = "" THEN def ELSE value

intEnv(value, def) ==
  CASE value.kind = "empty" -> [ok |-> TRUE, n |-> def]
    [] value.kind = "junk" -> Failure
    [] value.kind = "number" -> [ok |-> TRUE, n |-> value.n]

\* missing: a required variable is unset, or TAP_IP_BASE is no IPv4 address.
Load(missing, ints) ==
  [ok |-> ~missing /\ \A v \in IntVars : intEnv(ints[v], default[v]).ok,
   cfg |-> [v \in IntVars |-> intEnv(ints[v], default[v]).n]]

\* time.Duration(n) * unit.
Duration(n, unit) == Wrap(n * unit)

heartbeatInterval(cfg) == Duration(cfg["HEARTBEAT_INTERVAL_SECONDS"], Second)

reaperInterval(cfg) == Duration(cfg["REAPER_INTERVAL_SECONDS"], Second)

\* Create: no TTL asked for means the default.
TTL(ttlMinutes, defMinutes) ==
  Duration(IF ttlMinutes <= 0 THEN defMinutes ELSE ttlMinutes, Minute)

(***************************************************************************)
(* What must hold of each.                                                 *)
(***************************************************************************)
Tickers == {"HEARTBEAT_INTERVAL_SECONDS", "REAPER_INTERVAL_SECONDS"}

\* What the agent computes from the configuration is an int64.
Representable(cfg) ==
  LET Int64 == -IntHalf .. IntHalf - 1 IN
  /\ \A v \in Tickers : cfg[v] * Second \in Int64
  /\ cfg["DEFAULT_TTL_MINUTES"] * Minute \in Int64
  /\ RAMTotalMb - cfg["HOST_RESERVED_RAM_MB"] \in Int64

InRange(cfg) ==
  /\ \A v \in Tickers \cup {"DEFAULT_TTL_MINUTES", "DOCKER_PORT_BASE"} : cfg[v] > 0
  /\ cfg["HOST_RESERVED_RAM_MB"] >= 0
  /\ cfg["DOCKER_PORT_BASE"] + CPUTotal <= MaxPort + 1

\* NewTicker does not panic, a VM that asks for no TTL is not created expired, every
\* slot has a port, the RAM budget is between nothing and all there is.
Usable(cfg) ==
  /\ heartbeatInterval(cfg) > 0 /\ reaperInterval(cfg) > 0
  /\ TTL(0, cfg["DEFAULT_TTL_MINUTES"]) > 0
  /\ \A s \in 0 .. CPUTotal - 1 : dockerPort(cfg["DOCKER_PORT_BASE"], s) \in 1 .. MaxPort
  /\ budgetRAMMb(RAMTotalMb, cfg["HOST_RESERVED_RAM_MB"]) \in 0 .. RAMTotalMb

\* Load checks no range.  Of the configurations it returns, the ones in range are
\* those the agent can run with, and it can run with no other, overflow apart.
UsableIffInRange(missing, ints) ==
  LET r == Load(missing, ints) IN
  (r.ok /\ Representable(r.cfg)) => (Usable(r.cfg) <=> InRange(r.cfg))
=============================================================================
