---------------------------- MODULE HostReports ----------------------------
(***************************************************************************)
(* The figures the agent takes from its host: the memory /proc/meminfo     *)
(* reports, and the registry cache's counters behind its debug endpoint.   *)
(***************************************************************************)
EXTENDS Admission, Sequences

CONSTANT Counters   \* a counter is below Counters (2^64 for uint64)

ASSUME ReportsAssumption == Counters \in Nat \ {0}

\* A line of /proc/meminfo: its key, whether a number follows, and the number.
MemTotal(line) == line.key = "MemTotal"

detectRamTotalMbAnyLine(meminfo) ==
  IF meminfo = <<>> \/ ~Head(meminfo).number THEN 0 ELSE Head(meminfo).kb \div 1024

FirstMemTotal(meminfo, i) ==
  MemTotal(meminfo[i]) /\ \A j \in 1 .. i - 1 : ~MemTotal(meminfo[j])

\* The first MemTotal line decides; without one, or without the file, 0.
detectRamTotalMb(meminfo) ==
  LET found == {i \in DOMAIN meminfo : FirstMemTotal(meminfo, i) /\ meminfo[i].number}
  IN IF found = {} THEN 0 ELSE meminfo[CHOOSE i \in found : TRUE].kb \div 1024

\* What the debug endpoint answers: nothing, an error status, a body that is not
\* JSON, one without registry.proxy, or the proxy's counters.
Answers == {"unreachable", "status", "garbage", "noproxy", "stats"}

NoData == [ok |-> FALSE, total |-> 0, hits |-> 0]

parseWithoutPointers(answer, Hits, Misses) ==
  CASE answer = "garbage" -> NoData
    [] answer = "noproxy" -> [ok |-> TRUE, total |-> 0, hits |-> 0]
    [] OTHER -> [ok |-> TRUE, total |-> (Hits + Misses) % Counters, hits |-> Hits]

parse(answer, Hits, Misses) ==
  IF answer \in {"garbage", "noproxy"} THEN NoData
  ELSE [ok |-> TRUE, total |-> (Hits + Misses) % Counters, hits |-> Hits]

Scrape(url, answer, Hits, Misses) ==
  IF url = "" \/ answer \in {"unreachable", "status"} THEN NoData
  ELSE parse(answer, Hits, Misses)

\* What the scheduler has stored after a report: omitted fields leave it alone.
Stored(before, report) ==
  IF report.ok THEN [lookups |-> report.total, hits |-> report.hits] ELSE before

(***************************************************************************)
(* What must hold of each.                                                 *)
(***************************************************************************)
\* Memory that cannot be detected is "a loud and safe failure": with any reserve
\* of zero or more, no VM is admitted on such a host.
UndetectedRefuses(meminfo, reservedMb, ramMb) ==
  (\A i \in 1 .. Len(meminfo) : MemTotal(meminfo[i]) => ~meminfo[i].number) =>
    ~(ramMb <= budgetRAMMb(detectRamTotalMb(meminfo), reservedMb))

\* After a report the scheduler holds either what it held before, when the cache
\* gave no figures, or the cache's real ones, with hits among the lookups unless
\* their sum leaves uint64: never "a misleading zero".
StoredIsReal(before, url, answer, Hits, Misses) ==
  LET after == Stored(before, Scrape(url, answer, Hits, Misses)) IN
  IF answer = "stats" /\ url # ""
  THEN /\ after.hits = Hits
       /\ Hits + Misses < Counters => after.lookups = Hits + Misses /\ after.hits <= after.lookups
  ELSE after = before
=============================================================================
