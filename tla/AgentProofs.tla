----------------------------- MODULE AgentProofs -----------------------------
(***************************************************************************)
(* The agent outside its VM manager, for every value of the constants: its *)
(* configuration, its network plan, its budget test, the figures it takes  *)
(* from its host, the readiness wait, and the life cycle of its process.   *)
(***************************************************************************)
EXTENDS MCPlans, AgentLifecycle, TLAPS

Addresses == 0 .. 4 * Blocks - 1

(***************************************************************************)
(* Network plans.                                                          *)
(***************************************************************************)
\* Uint32 arithmetic on a sum of two addresses wraps at most once.
LEMMA AddressWraps ==
  ASSUME NEW n \in Nat, n < 8 * Blocks
  PROVE  Address(n) = IF n < 4 * Blocks THEN n ELSE n - 4 * Blocks
<1> DEFINE W == 4 * Blocks
<1>1. W \in Nat \ {0} /\ n < 2 * W
  BY NetPlanAssumption
<1> HIDE DEF W
<1>2. n % W = IF n < W THEN n ELSE n - W
  BY <1>1
<1> QED
  BY <1>2 DEF Address, W

\* The address at place k of a slot's block, counted from the base.
LEMMA PlanAddress ==
  ASSUME NEW bs \in Addresses, NEW p \in 0 .. Blocks - 1, NEW k \in 0 .. 3
  PROVE  Address(block(bs, p) + k) = IF bs + 4 * p + k < 4 * Blocks
                                       THEN bs + 4 * p + k
                                       ELSE bs + 4 * p + k - 4 * Blocks
<1> USE NetPlanAssumption DEF Addresses
<1>1. Address(p * 4) = 4 * p
  BY AddressWraps
<1>2. block(bs, p) = IF bs + 4 * p < 4 * Blocks THEN bs + 4 * p
                       ELSE bs + 4 * p - 4 * Blocks
  BY <1>1, AddressWraps DEF block
<1>3. PICK m \in Nat : m = block(bs, p) + k /\ m < 8 * Blocks
  <2>1. block(bs, p) + k \in Nat /\ block(bs, p) + k < 8 * Blocks
    BY <1>2
  <2> QED
    BY <2>1, Zenon
<1>4. Address(m) = IF m < 4 * Blocks THEN m ELSE m - 4 * Blocks
  BY <1>3, AddressWraps
<1>5. m = IF bs + 4 * p < 4 * Blocks THEN bs + 4 * p + k ELSE bs + 4 * p + k - 4 * Blocks
  BY <1>2, <1>3
<1>6. Address(block(bs, p) + k) = Address(m)
  BY <1>3
<1> QED
  BY <1>4, <1>5, <1>6

\* Distinct slots get distinct addresses and ports, for every base, also where
\* the uint32 sum wraps around: VMs on two slots cannot collide on the network.
LEMMA DistinctSlotsDisjoint ==
  ASSUME NEW bs \in Addresses, NEW p \in 0 .. Blocks - 1, NEW q \in 0 .. Blocks - 1
  PROVE  PlansDisjoint(bs, p, q)
<1> SUFFICES ASSUME p # q
             PROVE  /\ {deriveNetConfig(bs, p).HostIP, deriveNetConfig(bs, p).GuestIP}
                         \cap {deriveNetConfig(bs, q).HostIP, deriveNetConfig(bs, q).GuestIP} = {}
                    /\ deriveNetConfig(bs, p).DockerPort # deriveNetConfig(bs, q).DockerPort
  BY DEF PlansDisjoint
<1> DEFINE A(x, k) == Address(block(bs, x) + k)
<1>1. \A x \in 0 .. Blocks - 1, k \in 0 .. 3 :
        A(x, k) = IF bs + 4 * x + k < 4 * Blocks THEN bs + 4 * x + k
                  ELSE bs + 4 * x + k - 4 * Blocks
  <2> TAKE x \in 0 .. Blocks - 1, k \in 0 .. 3
  <2> QED
    BY PlanAddress
<1>2. \A k, l \in {1, 2} : A(p, k) # A(q, l)
  <2> HIDE DEF A
  <2> QED
    BY <1>1, NetPlanAssumption DEF Addresses
<1>3. DockerPortBase + p # DockerPortBase + q
  BY NetPlanAssumption
<1> QED
  BY <1>2, <1>3 DEF deriveNetConfig, dockerPort

\* With a base on a block boundary a slot's two addresses are the usable ones of
\* a /30 that no other slot has an address in.
LEMMA LinksPrivate ==
  ASSUME NEW bs \in Addresses, NEW p \in 0 .. Blocks - 1, NEW q \in 0 .. Blocks - 1
  PROVE  LinkIsPrivate(bs, p, q)
<1> SUFFICES ASSUME bs % 4 = 0
             PROVE  LET h == Address(block(bs, p) + 1)
                        g == Address(block(bs, p) + 2)
                    IN /\ Network(h) = Network(g)
                       /\ Place(h) = 1 /\ Place(g) = 2
                       /\ p # q => Network(Address(block(bs, q) + 2)) # Network(h)
  BY DEF LinkIsPrivate, deriveNetConfig
<1>1. PICK b \in 0 .. Blocks - 1 : bs = 4 * b
  <2>1. bs = 4 * (bs \div 4) /\ bs \div 4 \in 0 .. Blocks - 1
    BY NetPlanAssumption DEF Addresses
  <2> QED
    BY <2>1
<1> DEFINE N(x) == IF b + x < Blocks THEN b + x ELSE b + x - Blocks
<1>2. \A x \in 0 .. Blocks - 1, k \in {1, 2} :
        /\ N(x) \in Nat
        /\ Address(block(bs, x) + k) = 4 * N(x) + k
  <2> TAKE x \in 0 .. Blocks - 1, k \in {1, 2}
  <2>1. Address(block(bs, x) + k) = IF bs + 4 * x + k < 4 * Blocks
                                      THEN bs + 4 * x + k
                                      ELSE bs + 4 * x + k - 4 * Blocks
    BY PlanAddress
  <2> QED
    BY <1>1, <2>1, NetPlanAssumption
<1>3. \A x \in 0 .. Blocks - 1, k \in {1, 2} :
        /\ Network(Address(block(bs, x) + k)) = N(x)
        /\ Place(Address(block(bs, x) + k)) = k
  BY <1>2 DEF Network, Place
<1>4. p # q => N(p) # N(q)
  BY NetPlanAssumption
<1> QED
  BY <1>3, <1>4

(***************************************************************************)
(* Admission.                                                              *)
(***************************************************************************)
\* Wrap-around leaves a number in range alone.
LEMMA WrapInRange ==
  ASSUME NEW n \in Int, -IntHalf <= n, n < IntHalf
  PROVE  Wrap(n) = n
<1>1. n + IntHalf \in Nat /\ n + IntHalf < 2 * IntHalf
  BY AdmissionAssumption
<1>2. ASSUME NEW a \in Nat, NEW w \in Nat, a < w PROVE a % w = a
  BY <1>2
<1>3. (n + IntHalf) % (2 * IntHalf) = n + IntHalf
  BY <1>1, <1>2, AdmissionAssumption
<1> QED
  BY <1>3, AdmissionAssumption DEF Wrap

\* A sum of two int64s that is too large for one wraps once, to a negative number.
LEMMA WrapOver ==
  ASSUME NEW n \in Int, IntHalf <= n, n < 2 * IntHalf
  PROVE  Wrap(n) = n - 2 * IntHalf
<1> DEFINE a == n - IntHalf
<1>1. a \in Nat /\ a < 2 * IntHalf /\ n + IntHalf = a + 2 * IntHalf
  BY AdmissionAssumption
<1>2. ASSUME NEW b \in Nat, NEW w \in Nat, b < w PROVE (b + w) % w = b
  BY <1>2
<1> HIDE DEF a
<1>3. (n + IntHalf) % (2 * IntHalf) = a
  BY <1>1, <1>2, AdmissionAssumption
<1> QED
  BY <1>3, AdmissionAssumption DEF Wrap, a

LEMMA SumTest ==
  ASSUME NEW u \in 0 .. IntHalf - 1, NEW v \in 0 .. IntHalf - 1, NEW cap \in 0 .. IntHalf - 1
  PROVE  Wrap(u + v) <= cap <=> (u + v > cap => u + v >= IntHalf)
<1>1. CASE u + v < IntHalf
  BY <1>1, WrapInRange, AdmissionAssumption
<1>2. CASE u + v >= IntHalf
  <2>1. Wrap(u + v) = u + v - 2 * IntHalf
    BY <1>2, WrapOver, AdmissionAssumption
  <2> QED
    BY <1>2, <2>1, AdmissionAssumption
<1> QED
  BY <1>1, <1>2, AdmissionAssumption

\* For every host, every integer width, everything in use and every request and
\* reserve in that width: Create's budget test errs only where a sum overflows.
THEOREM AdmissionErrs ==
  ASSUME reservedMb \in -IntHalf .. IntHalf - 1,
         usedCPU \in 0 .. IntHalf - 1, vcpu \in 1 .. IntHalf - 1,
         usedRAMMb \in 0 .. IntHalf - 1, ramMb \in 1 .. IntHalf - 1
  PROVE  AdmissionErrsByOverflowOnly
<1> DEFINE left == RAMTotalMb - reservedMb
<1> DEFINE budget == budgetRAMMb(RAMTotalMb, reservedMb)
<1> SUFFICES ASSUME left < IntHalf
             PROVE  fits(budget, usedCPU, vcpu, usedRAMMb, ramMb) <=>
                      /\ usedCPU + vcpu > CPUTotal => usedCPU + vcpu >= IntHalf
                      /\ usedRAMMb + ramMb + reservedMb > RAMTotalMb => usedRAMMb + ramMb >= IntHalf
  BY Zenon DEF AdmissionErrsByOverflowOnly, ErrsByOverflowOnly
<1>1. Wrap(left) = left
  BY WrapInRange, AdmissionAssumption
<1>2. budget = IF left < 0 THEN 0 ELSE left
  BY <1>1 DEF budgetRAMMb
<1>3. budget \in 0 .. IntHalf - 1
  BY <1>2, AdmissionAssumption
<1>4. usedRAMMb + ramMb > budget <=> usedRAMMb + ramMb + reservedMb > RAMTotalMb
  BY <1>2, AdmissionAssumption
<1> HIDE DEF budget, left
<1>5. Wrap(usedRAMMb + ramMb) <= budget <=> (usedRAMMb + ramMb > budget => usedRAMMb + ramMb >= IntHalf)
  <2>1. ramMb \in 0 .. IntHalf - 1
    BY AdmissionAssumption
  <2> QED
    BY <1>3, <2>1, SumTest, Zenon
<1>6. Wrap(usedCPU + vcpu) <= CPUTotal <=> (usedCPU + vcpu > CPUTotal => usedCPU + vcpu >= IntHalf)
  BY SumTest, AdmissionAssumption
<1> QED
  BY <1>4, <1>5, <1>6, Zenon DEF fits, capacityCPU

Inputs ==
  /\ base \in Addresses /\ s \in 0 .. Blocks - 1 /\ t \in 0 .. Blocks - 1

LEMMA InputsTyped == Spec => []Inputs
<1>1. Init => Inputs
  <2>1. NoPlan => Inputs
    BY NetPlanAssumption DEF NoPlan, Inputs, Addresses
  <2>2. Plans => Inputs
    BY DEF Plans, Inputs, Addresses
  <2> QED
    BY <2>1, <2>2 DEF Init, Admissions, Configs, Reports, Waits
<1>2. Inputs /\ [Next]_vars => Inputs'
  BY DEF Inputs, Next, vars, planVars
<1> QED
  BY <1>1, <1>2, PTL DEF Spec

\* deriveNetConfig gives two slots no address and no port in common, for any
\* base, number of blocks and slots.
THEOREM SlotsAlwaysDisjoint == Spec => []SlotsDisjoint
<1>1. Inputs => SlotsDisjoint
  BY DistinctSlotsDisjoint DEF Inputs, SlotsDisjoint
<1> QED
  BY <1>1, InputsTyped, PTL

\* Each slot's link is in a /30 of its own, for any base on a block boundary.
THEOREM LinksAlwaysPrivate == Spec => []LinksArePrivate
<1>1. Inputs => LinksArePrivate
  BY LinksPrivate DEF Inputs, LinksArePrivate
<1> QED
  BY <1>1, InputsTyped, PTL

(***************************************************************************)
(* The readiness wait.                                                     *)
(***************************************************************************)
\* Inductive: besides the three properties, that a round begins before the
\* request's end and hardly after the deadline, and that after a failed dial
\* the guest was down one dial ago.
WaitInv ==
  /\ now \in Nat /\ start \in Nat /\ guestUp \in Nat /\ cancelAt \in Nat
  /\ wpc \in {"idle", "dial", "check", "select", "ready", "notReady", "cancelled"}
  /\ cancelAt = 900 \/ cancelAt \in Hangups
  /\ now <= start + 307
  /\ now <= start + 5 \/ now <= cancelAt + 5
  /\ wpc = "dial" => now = start \/ (now <= start + 302 /\ now <= cancelAt)
  /\ wpc \in {"check", "select", "notReady"} => now < guestUp + 5
  /\ wpc = "select" => now <= start + 300
  /\ wpc = "notReady" => now > start + 300
  /\ wpc = "cancelled" => cancelAt <= start + 302 /\ cancelAt < guestUp + 7

LEMMA WaitInvHolds == Spec => []WaitInv
<1> USE DEF dialTimeout, pause, timeout, requestTimeout, deadline
<1>1. Init => WaitInv
  <2>1. NoWait => WaitInv
    BY DEF NoWait, WaitInv
  <2>2. WaitInit => WaitInv
    BY WaitAssumption DEF WaitInit, WaitInv
  <2> QED
    BY <2>1, <2>2 DEF Init, Plans, Admissions, Configs, Reports, Waits
<1>2. WaitInv /\ [Next]_vars => WaitInv'
  <2> SUFFICES ASSUME WaitInv, [Next]_vars PROVE WaitInv'
    OBVIOUS
  <2>1. CASE DialTimeout
    BY <2>1 DEF DialTimeout, WaitInv
  <2>2. CASE Check
    BY <2>2 DEF Check, WaitInv
  <2>3. CASE Select
    BY <2>3 DEF Select, WaitInv
  <2>4. CASE UNCHANGED waitVars
    BY <2>4 DEF waitVars, WaitInv
  <2> QED
    BY <2>1, <2>2, <2>3, <2>4 DEF Next, WaitNext, vars
<1> QED
  BY <1>1, <1>2, PTL DEF Spec

\* The wait holds Boot up for little more than its timeout, whenever the guest
\* comes up, the setup ends and the client hangs up.
THEOREM WaitAlwaysBounded == Spec => []WaitIsBounded
<1>1. WaitInv => WaitIsBounded
  BY DEF WaitInv, WaitIsBounded, dialTimeout, pause, timeout, deadline
<1> QED
  BY <1>1, WaitInvHolds, PTL

\* No VM is given up whose guest accepted connections in time.
THEOREM UpInTimeAlwaysReady == Spec => []UpInTimeIsReady
<1>1. WaitInv => UpInTimeIsReady
  BY DEF WaitInv, UpInTimeIsReady, dialTimeout, pause, timeout, deadline
<1> QED
  BY <1>1, WaitInvHolds, PTL

\* Ninety seconds for the request leave the wait's own timeout first, unless the
\* setup took almost a minute.
THEOREM OwnTimeoutAlwaysFirst == Spec => []OwnTimeoutFirst
<1>1. WaitInv => OwnTimeoutFirst
  BY DEF WaitInv, OwnTimeoutFirst
<1> QED
  BY <1>1, WaitInvHolds, PTL

(***************************************************************************)
(* Configuration and reports.                                              *)
(***************************************************************************)
ReportInputs ==
  answer \in Answers /\ Hits \in 0 .. Counters - 1 /\ Misses \in 0 .. Counters - 1

LEMMA ReportInputsTyped == Spec => []ReportInputs
<1>1. Init => ReportInputs
  <2>1. NoReport => ReportInputs
    BY ReportsAssumption DEF NoReport, ReportInputs, Answers
  <2>2. Reports => ReportInputs
    BY DEF Reports, ReportInputs
  <2> QED
    BY <2>1, <2>2 DEF Init, Plans, Admissions, Configs, Waits
<1>2. ReportInputs /\ [Next]_vars => ReportInputs'
  BY DEF ReportInputs, Next, vars, reportVars
<1> QED
  BY <1>1, <1>2, PTL DEF Spec

\* A product that fits an int64 is that product as a Duration, of the same sign.
LEMMA DurationExact ==
  ASSUME NEW n \in Int, NEW unit \in 1 .. IntHalf - 1, n * unit \in -IntHalf .. IntHalf - 1
  PROVE  Duration(n, unit) > 0 <=> n > 0
<1>1. Duration(n, unit) = n * unit
  BY WrapInRange, AdmissionAssumption DEF Duration
<1>2. CASE n > 0
  <2>1. n * unit > 0
    BY <1>2, AdmissionAssumption
  <2> QED
    BY <1>1, <1>2, <2>1
<1>3. CASE n <= 0
  <2>1. n * unit <= 0
    BY <1>3, AdmissionAssumption
  <2> QED
    BY <1>1, <1>3, <2>1
<1> QED
  BY <1>2, <1>3

IntValues == {Empty, Junk} \cup {Number(n) : n \in Int}

\* For every host and every environment, whatever integers it sets: what Load
\* returns can be run with exactly if it is in range, products that overflow apart.
THEOREM ConfigUsable ==
  ASSUME missing \in BOOLEAN, ints \in [IntVars -> IntValues]
  PROVE  ConfigIsUsable
<1> DEFINE c == Load(missing, ints).cfg
<1> SUFFICES ASSUME Representable(c) PROVE Usable(c) <=> InRange(c)
  BY DEF ConfigIsUsable, UsableIffInRange
<1>1. \A v \in IntVars : c[v] \in Int
  <2> SUFFICES ASSUME NEW v \in IntVars PROVE intEnv(ints[v], default[v]).n \in Int
    BY DEF Load
  <2>1. default[v] \in Int
    BY DEF default, IntVars
  <2>2. ints[v] \in IntValues
    OBVIOUS
  <2> QED
    BY <2>1, <2>2 DEF IntValues, intEnv, Empty, Junk, Number, Failure
<1> HIDE DEF c
<1>2. /\ c["HEARTBEAT_INTERVAL_SECONDS"] \in Int /\ c["REAPER_INTERVAL_SECONDS"] \in Int
      /\ c["DEFAULT_TTL_MINUTES"] \in Int
      /\ c["DOCKER_PORT_BASE"] \in Int /\ c["HOST_RESERVED_RAM_MB"] \in Int
  BY <1>1 DEF IntVars
<1>3. \A v \in Tickers : Duration(c[v], Second) > 0 <=> c[v] > 0
  BY <1>2, DurationExact, ConfigAssumption DEF Representable, Tickers
<1>4. heartbeatInterval(c) > 0 /\ reaperInterval(c) > 0 <=> \A v \in Tickers : c[v] > 0
  BY <1>3 DEF heartbeatInterval, reaperInterval, Tickers
<1>5. TTL(0, c["DEFAULT_TTL_MINUTES"]) > 0 <=> c["DEFAULT_TTL_MINUTES"] > 0
  BY <1>2, DurationExact, ConfigAssumption DEF Representable, TTL
<1>6. (\A p \in 0 .. CPUTotal - 1 : dockerPort(c["DOCKER_PORT_BASE"], p) \in 1 .. MaxPort)
      <=> c["DOCKER_PORT_BASE"] > 0 /\ c["DOCKER_PORT_BASE"] + CPUTotal <= MaxPort + 1
  <2>1. 0 \in 0 .. CPUTotal - 1 /\ CPUTotal - 1 \in 0 .. CPUTotal - 1
    BY AdmissionAssumption
  <2> QED
    BY <1>2, <2>1, ConfigAssumption, AdmissionAssumption DEF dockerPort
<1>7. budgetRAMMb(RAMTotalMb, c["HOST_RESERVED_RAM_MB"]) \in 0 .. RAMTotalMb
      <=> c["HOST_RESERVED_RAM_MB"] >= 0
  <2>1. Wrap(RAMTotalMb - c["HOST_RESERVED_RAM_MB"]) = RAMTotalMb - c["HOST_RESERVED_RAM_MB"]
    BY <1>2, WrapInRange, AdmissionAssumption DEF Representable
  <2> QED
    BY <1>2, <2>1, AdmissionAssumption DEF budgetRAMMb
<1>8. InRange(c) <=>
        /\ \A v \in Tickers : c[v] > 0
        /\ c["DEFAULT_TTL_MINUTES"] > 0 /\ c["DOCKER_PORT_BASE"] > 0
        /\ c["HOST_RESERVED_RAM_MB"] >= 0
        /\ c["DOCKER_PORT_BASE"] + CPUTotal <= MaxPort + 1
  BY DEF InRange
<1> QED
  BY <1>4, <1>5, <1>6, <1>7, <1>8, Zenon DEF Usable

\* What the scheduler stores of the registry cache is what the cache counted, for
\* any counters.
THEOREM CacheFiguresAlwaysReal == Spec => []CacheFiguresAreReal
<1> DEFINE sum == Hits + Misses
<1>1. ReportInputs => (sum < Counters => sum % Counters = sum /\ Hits <= sum)
  <2> SUFFICES ASSUME ReportInputs, sum < Counters PROVE sum % Counters = sum /\ Hits <= sum
    OBVIOUS
  <2>1. Hits \in Nat /\ Misses \in Nat
    BY ReportsAssumption DEF ReportInputs
  <2>2. ASSUME NEW a \in Nat, NEW w \in Nat, a < w PROVE a % w = a
    BY <2>2
  <2> QED
    BY <2>1, <2>2, ReportsAssumption
<1> HIDE DEF sum
<1>2. ReportInputs => CacheFiguresAreReal
  <2> SUFFICES ASSUME ReportInputs, NEW url, NEW before
               PROVE  StoredIsReal(before, url, answer, Hits, Misses)
    BY DEF CacheFiguresAreReal
  <2>1. CASE answer = "stats" /\ url # ""
    <3> DEFINE report == [ok |-> TRUE, total |-> sum % Counters, hits |-> Hits]
    <3>1. Scrape(url, answer, Hits, Misses) = report
      BY <2>1 DEF Scrape, parse, sum
    <3>2. Stored(before, report) = [lookups |-> sum % Counters, hits |-> Hits]
      BY Zenon DEF Stored
    <3> DEFINE after == Stored(before, Scrape(url, answer, Hits, Misses))
    <3>3. after.hits = Hits /\ after.lookups = sum % Counters
      <4> HIDE DEF report
      <4>1. after = [lookups |-> sum % Counters, hits |-> Hits]
        BY <3>1, <3>2, Zenon
      <4> HIDE DEF after
      <4> QED
        BY <4>1, Zenon
    <3>4. sum < Counters => after.lookups = sum /\ after.hits <= after.lookups
      BY <1>1, <3>3
    <3> HIDE DEF after
    <3>5. sum = Hits + Misses
      BY DEF sum
    <3>6. StoredIsReal(before, url, answer, Hits, Misses) <=>
            /\ after.hits = Hits
            /\ Hits + Misses < Counters => after.lookups = Hits + Misses /\ after.hits <= after.lookups
      BY <2>1, Zenon DEF StoredIsReal, after
    <3> QED
      BY <3>3, <3>4, <3>5, <3>6, Zenon
  <2>2. CASE ~(answer = "stats" /\ url # "")
    BY <2>2 DEF ReportInputs, Answers, StoredIsReal, Stored, Scrape, parse, NoData
  <2> QED
    BY <2>1, <2>2
<1> QED
  BY <1>2, ReportInputsTyped, PTL

\* However many lines /proc/meminfo has: without a MemTotal line that gives a
\* number, the detected memory is zero and no request fits, whatever the reserve.
LEMMA UndetectedIsZero ==
  ASSUME NEW Line, NEW lines \in Seq(Line), NEW kept \in 0 .. IntHalf, NEW askedMb \in Nat \ {0}
  PROVE  UndetectedRefuses(lines, kept, askedMb)
<1> SUFFICES ASSUME \A i \in 1 .. Len(lines) : MemTotal(lines[i]) => ~lines[i].number
             PROVE  ~(askedMb <= budgetRAMMb(detectRamTotalMb(lines), kept))
  BY Zenon DEF UndetectedRefuses
<1> DEFINE found == {i \in DOMAIN lines : FirstMemTotal(lines, i) /\ lines[i].number}
<1>1. found = {}
  BY DEF FirstMemTotal
<1>2. detectRamTotalMb(lines) = 0
  BY <1>1, Zenon DEF detectRamTotalMb
<1>3. budgetRAMMb(0, kept) = 0
  <2>1. Wrap(0 - kept) = 0 - kept
    BY WrapInRange, AdmissionAssumption
  <2> QED
    BY <2>1, AdmissionAssumption DEF budgetRAMMb
<1> QED
  BY <1>2, <1>3

MemInputs == (\E Line : meminfo \in Seq(Line)) /\ ramMb \in Nat \ {0}

LEMMA MemInputsTyped == Spec => []MemInputs
<1>1. Init => MemInputs
  <2>1. NoRequest => ramMb \in Nat \ {0}
    BY DEF NoRequest
  <2>2. NoReport => \E Line : meminfo \in Seq(Line)
    <3>1. <<>> \in Seq({})
      OBVIOUS
    <3> QED
      BY <3>1 DEF NoReport
  <2>3. Admissions => MemInputs
    BY <2>2, EdgeAssumption, AdmissionAssumption DEF Admissions, MemInputs
  <2>4. Reports => MemInputs
    <3> DEFINE L == [key : {"MemTotal", "MemFree"}, number : BOOLEAN, kb : {0, 1023, 4096}]
    <3> SUFFICES ASSUME Reports PROVE meminfo \in Seq(L)
      BY <2>1 DEF Reports, MemInputs
    <3>1. \/ meminfo = <<>>
          \/ \E a \in L : meminfo = <<a>>
          \/ \E a, b \in L : meminfo = <<a, b>>
      BY DEF Reports
    <3> HIDE DEF L
    <3>2. <<>> \in Seq(L) /\ \A a, b \in L : <<a>> \in Seq(L) /\ <<a, b>> \in Seq(L)
      OBVIOUS
    <3> QED
      BY <3>1, <3>2, Zenon
  <2> QED
    BY <2>1, <2>2, <2>3, <2>4 DEF Init, Plans, Configs, Waits, MemInputs
<1>2. MemInputs /\ [Next]_vars => MemInputs'
  BY DEF MemInputs, Next, vars, requestVars, reportVars
<1> QED
  BY <1>1, <1>2, PTL DEF Spec

\* A host whose memory cannot be detected admits no VM.
THEOREM UndetectedRamAlwaysSafe == Spec => []UndetectedRamIsSafe
<1>1. MemInputs => UndetectedRamIsSafe
  <2>1. 0 .. 2 \subseteq 0 .. IntHalf
    BY AdmissionAssumption
  <2> QED
    BY <2>1, UndetectedIsZero, Zenon DEF MemInputs, UndetectedRamIsSafe
<1> QED
  BY <1>1, MemInputsTyped, PTL

(***************************************************************************)
(* The life cycle of the process.                                          *)
(***************************************************************************)
\* Only a set server flag makes told true, as no heartbeat built before the signal
\* says draining and none is sent after it; an exited agent has no request left.
LifecycleInv ==
  /\ phase \in {"serving", "signalled", "flagged", "draining", "shutdown", "exited"}
  /\ told \in BOOLEAN /\ beat \in BOOLEAN /\ late \subseteq Requests
  /\ req \in [Requests -> {"none", "arrived", "creating", "answered", "refused", "cut"}]
  /\ told => phase \in {"draining", "shutdown", "exited"}
  /\ (phase = "serving" /\ hb = "built") => ~beat
  /\ phase = "exited" => \A r \in Requests : ~InFlight(r)
  /\ late # {} => told
  /\ RefusedOnceReported

LEMMA LifecycleInvHolds == LifecycleSpec => []LifecycleInv
<1>1. LifecycleInit => LifecycleInv
  BY DEF LifecycleInit, LifecycleInv, RefusedOnceReported
<1>2. ASSUME LifecycleInv, [LifecycleNext]_lifecycleVars PROVE LifecycleInv'
  <2> USE DEF LifecycleInv, RefusedOnceReported, InFlight
  <2>1. CASE Signalled \/ main
    BY <1>2, <2>1 DEF Signalled, main, ShutdownSequence
  <2>2. CASE Shutdown \/ Fatal
    <3>1. Exit
      BY <2>2 DEF Shutdown, Fatal
    <3> QED
      BY <1>2, <3>1 DEF Exit
  <2>3. CASE Start
    BY <1>2, <2>3 DEF Start
  <2>4. ASSUME NEW r \in Requests, Arrive(r) PROVE LifecycleInv'
    BY <1>2, <2>4 DEF Arrive, Listening
  <2>5. ASSUME NEW r \in Requests, handleCreateVM(r) PROVE LifecycleInv'
    BY <1>2, <2>5 DEF handleCreateVM, serverDraining
  <2>6. CASE PollHealth \/ HeartbeatStops
    BY <1>2, <2>6 DEF PollHealth, HeartbeatStops
  <2>7. CASE handleHealth
    BY <1>2, <2>7 DEF handleHealth, serverDraining
  <2>8. CASE send
    <3>1. UNCHANGED <<phase, req, late>>
      BY <2>8 DEF send
    <3>2. CASE hb = "waiting" /\ hb' = "built" /\ beat' = mainDraining /\ UNCHANGED told
      <4>1. mainDraining \in BOOLEAN /\ (phase = "serving" => ~mainDraining)
        BY DEF mainDraining
      <4>2. beat' \in BOOLEAN /\ (phase = "serving" => ~beat')
        BY <3>2, <4>1, Zenon
      <4> QED
        BY <1>2, <3>1, <3>2, <4>2
    <3>3. CASE /\ hb = "built" /\ hb' = "waiting"
               /\ told' \in IF phase = "serving" THEN {told, told \/ beat} ELSE {told}
               /\ UNCHANGED beat
      <4>1. told' = told
        BY <1>2, <3>3, Zenon
      <4> QED
        BY <1>2, <3>1, <3>3, <4>1
    <3> QED
      BY <2>8, <3>2, <3>3, Zenon DEF send
  <2>9. CASE UNCHANGED lifecycleVars
    BY <1>2, <2>9 DEF lifecycleVars
  <2> QED
    BY <1>2, <2>1, <2>2, <2>3, <2>4, <2>5, <2>6, <2>7, <2>8, <2>9, Zenon DEF LifecycleNext
<1> QED
  BY <1>1, <1>2, PTL DEF LifecycleSpec

\* No create the scheduler sends after learning that the host drains is admitted.
THEOREM RefusalFollowsReport == LifecycleSpec => []RefusedOnceReported
BY LifecycleInvHolds, PTL DEF LifecycleInv
=============================================================================
