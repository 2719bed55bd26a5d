------------------------------ MODULE MCPlans ------------------------------
(***************************************************************************)
(* The sequential parts over small inputs: network plans in an address     *)
(* space of Blocks /30s, the admission test and the configuration in       *)
(* integers of a small width, the host's figures, the readiness wait.      *)
(***************************************************************************)
EXTENDS Config, HostReports, ReadinessWait

CONSTANT Edge   \* inputs are taken this close to both ends of their range

ASSUME EdgeAssumption == Edge \in 0 .. IntHalf - 1

VARIABLES base, s, t,                       \* a network and two slots
          reservedMb,                       \* HOST_RESERVED_RAM_MB
          usedCPU, vcpu, usedRAMMb, ramMb,  \* usage and a request
          missing, ints,                    \* an environment
          meminfo, answer, Hits, Misses     \* what the host reports

planVars == <<base, s, t>>
requestVars == <<reservedMb, usedCPU, vcpu, usedRAMMb, ramMb>>
configVars == <<missing, ints>>
reportVars == <<meminfo, answer, Hits, Misses>>
vars == <<planVars, requestVars, configVars, reportVars, waitVars>>

NoPlan == base = 0 /\ s = 0 /\ t = 0
NoRequest == reservedMb = 0 /\ usedCPU = 0 /\ vcpu = 1 /\ usedRAMMb = 0 /\ ramMb = 1
NoConfig == missing = FALSE /\ ints = [v \in IntVars |-> Empty]
NoReport == meminfo = <<>> /\ answer = "unreachable" /\ Hits = 0 /\ Misses = 0

\* A slot is below the number of blocks.
Plans ==
  /\ base \in 0 .. 4 * Blocks - 1 /\ s \in 0 .. Blocks - 1 /\ t \in 0 .. Blocks - 1
  /\ NoRequest /\ NoConfig /\ NoReport /\ NoWait

\* What VMs use is within what the host has; a request is any positive int64, and
\* what is reserved any int64 around nothing and around all the host has.
Admissions ==
  LET Positive == 1 .. Edge \cup IntHalf - Edge .. IntHalf - 1 IN
  /\ reservedMb \in {-1, 0, HostReservedRamMb, RAMTotalMb, RAMTotalMb + 1}
  /\ usedCPU \in 0 .. capacityCPU /\ vcpu \in Positive
  /\ usedRAMMb \in 0 .. capacityRAMMb \cup RAMTotalMb - Edge .. RAMTotalMb
  /\ ramMb \in Positive
  /\ NoPlan /\ NoConfig /\ NoReport /\ NoWait

\* Environments that set two of the integers, to values around their limits.
Configs ==
  LET Values == {Empty, Junk} \cup {Number(n) : n \in -1 .. 1 \cup
                  {60, IntHalf \div Minute, IntHalf \div Second, IntHalf \div Second + 1,
                   MaxPort - CPUTotal + 1, MaxPort - CPUTotal + 2, RAMTotalMb + 1}}
  IN /\ missing \in BOOLEAN
     /\ \E u, v \in IntVars, x, y \in Values :
          ints = [w \in IntVars |-> IF w = u THEN x ELSE IF w = v THEN y ELSE Empty]
     /\ NoPlan /\ NoRequest /\ NoReport /\ NoWait

Reports ==
  LET Lines == [key : {"MemTotal", "MemFree"}, number : BOOLEAN, kb : {0, 1023, 4096}] IN
  /\ meminfo \in {<<>>} \cup {<<a>> : a \in Lines} \cup {<<a, b>> : a, b \in Lines}
  /\ answer \in Answers /\ Hits \in 0 .. Counters - 1 /\ Misses \in 0 .. Counters - 1
  /\ NoPlan /\ NoRequest /\ NoConfig /\ NoWait

Waits == WaitInit /\ NoPlan /\ NoRequest /\ NoConfig /\ NoReport

Init == Plans \/ Admissions \/ Configs \/ Reports \/ Waits

Next ==
  /\ WaitNext \/ (~Waiting /\ UNCHANGED waitVars)
  /\ UNCHANGED <<planVars, requestVars, configVars, reportVars>>

Spec == Init /\ [][Next]_vars

(***************************************************************************)
(* Properties; those of the wait are in ReadinessWait.                     *)
(***************************************************************************)
\* deriveNetConfig gives two slots no address and no port in common.
SlotsDisjoint == PlansDisjoint(base, s, t)

\* deriveNetConfig puts each slot's link in a /30 of its own when the configured
\* base is on a block boundary.
LinksArePrivate == LinkIsPrivate(base, s, t)

\* Create's budget test, with the clamp of NewManager's RAM budget, is wrong about
\* what the host has left only where a sum overflows, and then by admitting.
AdmissionErrsByOverflowOnly ==
  ErrsByOverflowOnly(reservedMb, usedCPU, vcpu, usedRAMMb, ramMb)

\* The configurations config.Load lets through and the agent cannot run with (tickers
\* that panic, VMs created expired, slots without a port, a RAM budget beyond the
\* host's) are those with a value out of range.
ConfigIsUsable == UsableIffInRange(missing, ints)

\* A host whose memory detectRamTotalMb cannot find admits no VM.
UndetectedRamIsSafe == \A kept \in 0 .. 2 : UndetectedRefuses(meminfo, kept, ramMb)

\* Reports of the registry cache's counters never replace the scheduler's figures
\* by made-up ones, whether REGISTRY_METRICS_URL is set, empty or not set.
CacheFiguresAreReal ==
  \A set \in {"", "http"} :
    StoredIsReal([lookups |-> 7, hits |-> 7], envOr(set, "default"), answer, Hits, Misses)
=============================================================================
