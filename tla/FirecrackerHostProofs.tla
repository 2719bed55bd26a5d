----------------------- MODULE FirecrackerHostProofs ------------------------
(***************************************************************************)
(* What Boot and Destroy leave on the host.  The slot's device and rules   *)
(* belong to the one VM that uses the slot, and how many of the rules are  *)
(* there follows from where that VM's call is.                             *)
(***************************************************************************)
EXTENDS FirecrackerBackendProofs

Exclusive == \A i, j \in VMs : (slot[i] = slot[j] /\ InUse(i) /\ InUse(j)) => i = j

Taps ==
  \A id \in VMs :
    /\ pc[id] \in {"idle", "tap", "err", "delCgroup", "delDir", "gone"} => tap[slot[id]] # id
    /\ pc[id] \in {"firewall", "bandwidth", "files", "machine", "cgroup", "wait",
                   "undoFirewall", "undoTap"} => tap[slot[id]] = id

\* Unless iptables failed.
RulesGone ==
  \A id \in VMs : slot[id] \notin dirty =>
    \A r \in Rules :
      (\/ pc[id] = "firewall" /\ r >= step[id]
       \/ pc[id] \in {"undoFirewall", "delFirewall"} /\ r < step[id]
       \/ pc[id] \in {"undoTap", "delTap"}) => rules[slot[id]][r] = 0

HostInv == Exclusive /\ Taps /\ RulesGone /\ RulesImplyTap /\ NoDuplicateRules

LEMMA HostInit == Init => HostInv
BY NoneIsNoVM DEF Init, HostInv, Exclusive, InUse, Taps, RulesGone, RulesImplyTap, NoDuplicateRules,
   B!BackendInit, NoRules, Rules, None, B!None

\* Restarting moves every call to a place where HostInv asks nothing of it.
LEMMA RestartPlaces ==
  ASSUME Types, Restart, NEW id \in VMs
  PROVE  \/ pc'[id] \in {"lost", "orphan"}
         \/ pc'[id] = "ok" /\ pc[id] \in {"ok", "delFirewall", "delTap", "delCgroup", "delDir"}
         \/ pc'[id] = pc[id] /\ pc[id] \in {"idle", "err", "leaked", "gone"}
<1>1. pc[id] \in Places
  BY DEF Types
<1>2. pc[id] \in {"tap", "firewall", "bandwidth", "files", "machine", "cgroup", "wait",
                 "undoFirewall", "undoTap"} => B!Booting(id)
  BY StageTable, <1>1 DEF B!Booting
<1>3. \/ pc'[id] = IF B!Booting(id) THEN "lost" ELSE IF InUse(id) THEN "ok" ELSE pc[id]
      \/ pc'[id] = "orphan"
  BY DEF Restart
<1> QED
  BY <1>1, <1>2, <1>3 DEF Places, InUse

LEMMA HostNext ==
  ASSUME Types, HostInv, [Next]_vars
  PROVE  HostInv'
<1> USE NoneIsNoVM DEF HostInv, Exclusive, InUse, Taps, RulesGone, RulesImplyTap, NoDuplicateRules
<1> DEFINE To(id, there) ==
      /\ pc'[id] = there /\ step'[id] = 1
      /\ \A j \in VMs : j # id => pc'[j] = pc[j] /\ step'[j] = step[j]
<1>a. ASSUME NEW id \in VMs, NEW there, there \in Places, Goto(id, there) PROVE To(id, there)
  BY <1>a, GotoTyped
<1>b. \A id \in VMs : slot[id] \in Slots /\ step[id] \in Rules
  BY DEF Types, Rules
<1>c. \A s \in Slots, r \in Rules : rules[s][r] \in Nat
  BY DEF Types
<1> HIDE DEF To
<1>1. ASSUME NEW id \in VMs, Call(id) PROVE HostInv'
  <2>1. To(id, "tap")
    BY <1>1, <1>a DEF Call, Places
  <2> QED
    BY <1>1, <2>1 DEF Call, To
<1>2. ASSUME NEW id \in VMs, setupTapDevice(id) PROVE HostInv'
  <2>1. CASE Goto(id, "err") /\ UNCHANGED tap
    <3>1. To(id, "err")
      BY <2>1, <1>a DEF Places
    <3> QED
      BY <1>2, <2>1, <3>1 DEF setupTapDevice, To
  <2>2. CASE tap[slot[id]] = None /\ tap' = [tap EXCEPT ![slot[id]] = id] /\ Goto(id, "firewall")
    <3>1. To(id, "firewall")
      BY <2>2, <1>a DEF Places
    <3>2. tap'[slot[id]] = id /\ \A s \in Slots : s # slot[id] => tap'[s] = tap[s]
      BY <2>2, <1>b DEF Types
    <3>3. UNCHANGED <<slot, rules, dirty>> /\ pc[id] = "tap"
      BY <1>2 DEF setupTapDevice
    <3>4. slot[id] \notin dirty => \A r \in Rules : rules[slot[id]][r] = 0
      BY <2>2, <1>b, <1>c
    <3>5. Exclusive'
      BY <3>1, <3>3 DEF To
    <3>6. Taps'
      BY <1>b, <3>1, <3>2, <3>3 DEF To
    <3>7. RulesGone'
      BY <3>1, <3>3, <3>4 DEF To
    <3>8. RulesImplyTap' /\ NoDuplicateRules'
      BY <3>2, <3>3
    <3> QED
      BY <3>5, <3>6, <3>7, <3>8
  <2> QED
    BY <1>2, <2>1, <2>2 DEF setupTapDevice
<1>3. ASSUME NEW id \in VMs, setupFirewall(id) PROVE HostInv'
  <2>1. UNCHANGED <<slot, tap>> /\ pc[id] = "firewall" /\ tap[slot[id]] # None
    BY <1>3 DEF setupFirewall
  <2>2. CASE iptablesFails(id) /\ Goto(id, "undoTap")
    <3>1. To(id, "undoTap")
      BY <2>2, <1>a DEF Places
    <3> QED
      BY <2>1, <2>2, <3>1 DEF iptablesFails, To
  <2>3. CASE /\ appendRule(id)
             /\ IF lastRule(id) THEN Goto(id, "bandwidth")
                ELSE step' = [step EXCEPT ![id] = @ + 1] /\ UNCHANGED pc
    <3>1. /\ rules'[slot[id]][step[id]] = rules[slot[id]][step[id]] + 1
          /\ \A s \in Slots, r \in Rules : (s # slot[id] \/ r # step[id]) => rules'[s][r] = rules[s][r]
      <4>1. rules[slot[id]][step[id]] + 1 \in Nat
        BY <1>b, <1>c
      <4> QED
        BY <2>3, <4>1, RuleSet DEF appendRule
    <3>2. \/ To(id, "bandwidth")
          \/ /\ pc' = pc /\ step'[id] = step[id] + 1
             /\ \A j \in VMs : j # id => step'[j] = step[j]
      BY <2>3, <1>a, NextRule DEF Places
    <3>3. Exclusive' /\ Taps'
      BY <2>1, <3>2 DEF To
    <3>4. dirty' = dirty
      BY <2>3 DEF appendRule
    <3>5. ASSUME NEW j \in VMs, j # id, InUse(j) PROVE slot[j] # slot[id]
      BY <2>1, <3>5
    <3>6. RulesGone'
      <4>1. \A j \in VMs : slot'[j] \notin dirty' =>
              \A r \in Rules :
                (\/ pc'[j] = "firewall" /\ r >= step'[j]
                 \/ pc'[j] \in {"undoFirewall", "delFirewall"} /\ r < step'[j]
                 \/ pc'[j] \in {"undoTap", "delTap"}) => rules'[slot'[j]][r] = 0
        <5> SUFFICES ASSUME NEW j \in VMs, slot[j] \notin dirty, NEW r \in Rules,
                            \/ pc'[j] = "firewall" /\ r >= step'[j]
                            \/ pc'[j] \in {"undoFirewall", "delFirewall"} /\ r < step'[j]
                            \/ pc'[j] \in {"undoTap", "delTap"}
                     PROVE  rules'[slot[j]][r] = 0
          BY <2>1, <3>4
        <5>1. CASE j = id
          <6>1. pc' = pc /\ step'[id] = step[id] + 1 /\ r >= step[id] + 1
            BY <2>1, <3>2, <5>1 DEF To
          <6>2. r # step[id] /\ r >= step[id]
            BY <6>1, <1>b DEF Rules
          <6> QED
            BY <1>b, <2>1, <3>1, <5>1, <6>2
        <5>2. CASE j # id
          <6>1. pc'[j] = pc[j] /\ step'[j] = step[j]
            BY <3>2, <5>2 DEF To
          <6> QED
            BY <1>b, <3>1, <3>5, <5>2, <6>1
        <5> QED
          BY <5>1, <5>2
      <4> QED
        BY <4>1
    <3>7. slot[id] \notin dirty => rules[slot[id]][step[id]] = 0
      <4>1. step[id] \in Rules /\ step[id] >= step[id]
        BY <1>b DEF Rules
      <4> QED
        BY <2>1, <4>1
    <3>8. RulesImplyTap' /\ NoDuplicateRules'
      BY <1>c, <2>1, <3>1, <3>4, <3>7
    <3> QED
      BY <3>3, <3>6, <3>8
  <2> QED
    BY <1>3, <2>2, <2>3 DEF setupFirewall
<1>4. ASSUME NEW id \in VMs, setupBandwidthCap(id) \/ Files(id) PROVE HostInv'
  <2>1. UNCHANGED <<slot, tap, rules, dirty>> /\ pc[id] \in {"bandwidth", "files"}
    BY <1>4 DEF setupBandwidthCap, Files
  <2>2. To(id, "files") \/ To(id, "undoFirewall") \/ To(id, "machine") \/ To(id, "leaked")
    BY <1>4, <1>a DEF setupBandwidthCap, Files, Places
  <2>3. Exclusive' /\ Taps' /\ RulesImplyTap' /\ NoDuplicateRules'
    BY <2>1, <2>2 DEF To
  <2>4. RulesGone'
    BY <2>1, <2>2 DEF To, Rules
  <2> QED
    BY <2>3, <2>4
<1>5. ASSUME NEW id \in VMs, StartMachine(id) \/ createCgroup(id) \/ waitForDockerReady(id) PROVE HostInv'
  <2>1. UNCHANGED <<slot, tap, rules, dirty>> /\ pc[id] \in {"machine", "cgroup", "wait"}
    BY <1>5 DEF StartMachine, createCgroup, waitForDockerReady
  <2>2. To(id, "cgroup") \/ To(id, "undoFirewall") \/ To(id, "wait") \/ To(id, "ok")
    BY <1>5, <1>a DEF StartMachine, createCgroup, waitForDockerReady, Places
  <2>3. Exclusive' /\ Taps' /\ RulesImplyTap' /\ NoDuplicateRules'
    BY <2>1, <2>2 DEF To
  <2>4. RulesGone'
    BY <2>1, <2>2 DEF To, Rules
  <2> QED
    BY <2>3, <2>4
<1>6. ASSUME NEW id \in VMs, NEW here, NEW next, DeleteRule(id, here, next),
             (here = "undoFirewall" /\ next = "undoTap") \/ (here = "delFirewall" /\ next = "delTap")
      PROVE  HostInv'
  <2>1. UNCHANGED <<slot, tap>> /\ pc[id] = here
    BY <1>6 DEF DeleteRule
  <2>2. \/ /\ lastRule(id) /\ To(id, next)
        \/ /\ pc' = pc /\ step'[id] = step[id] + 1
           /\ \A j \in VMs : j # id => step'[j] = step[j]
    BY <1>6, <1>a, NextRule DEF DeleteRule, Places
  <2>3. ASSUME NEW j \in VMs, j # id, InUse(j) PROVE slot[j] # slot[id]
    BY <1>6, <2>1, <2>3
  <2>4. Exclusive' /\ Taps'
    BY <1>6, <2>1, <2>2 DEF To
  <2>5. CASE iptablesFails(id)
    <3>1. RulesGone'
      BY <1>b, <1>6, <2>1, <2>2, <2>3, <2>5 DEF iptablesFails, To
    <3> QED
      BY <2>1, <2>4, <2>5, <3>1 DEF iptablesFails
  <2>6. CASE ~iptablesFails(id)
    <3> DEFINE n == rules[slot[id]][step[id]]
    <3> DEFINE m == IF n = 0 THEN 0 ELSE n - 1
    <3>1. /\ n \in Nat /\ m \in Nat /\ m <= n /\ (n <= 1 => m = 0)
          /\ rules' = [rules EXCEPT ![slot[id]][step[id]] = m] /\ dirty' = dirty
      <4>1. rules' = [rules EXCEPT ![slot[id]][step[id]] = m] /\ dirty' = dirty
        BY <1>6, <2>6 DEF DeleteRule
      <4>2. n \in Nat
        BY <1>b, <1>c
      <4> QED
        BY <4>1, <4>2
    <3> HIDE DEF m
    <3>2. /\ rules'[slot[id]][step[id]] = m
          /\ \A s \in Slots, r \in Rules : (s # slot[id] \/ r # step[id]) => rules'[s][r] = rules[s][r]
          /\ dirty' = dirty
      BY <3>1, RuleSet
    <3>3. \A s \in Slots, r \in Rules : rules'[s][r] <= rules[s][r] /\ rules'[s][r] \in Nat
      BY <1>b, <1>c, <3>1, <3>2
    <3>4. slot[id] \notin dirty => rules'[slot[id]][step[id]] = 0
      BY <1>b, <3>1, <3>2
    <3>5. RulesGone'
      <4> SUFFICES ASSUME NEW j \in VMs, slot[j] \notin dirty, NEW r \in Rules,
                          \/ pc'[j] = "firewall" /\ r >= step'[j]
                          \/ pc'[j] \in {"undoFirewall", "delFirewall"} /\ r < step'[j]
                          \/ pc'[j] \in {"undoTap", "delTap"}
                   PROVE  rules'[slot[j]][r] = 0
        BY <2>1, <3>2
      <4>1. CASE j = id
        <5>1. r < step[id] \/ r = step[id]
          BY <1>b, <1>6, <2>1, <2>2, <4>1 DEF To, lastRule, Rules
        <5>2. CASE r < step[id]
          BY <1>b, <1>c, <1>6, <2>1, <3>3, <4>1, <5>2
        <5> QED
          BY <3>4, <4>1, <5>1, <5>2
      <4>2. CASE j # id
        <5>1. pc'[j] = pc[j] /\ step'[j] = step[j]
          BY <2>2, <4>2 DEF To
        <5> QED
          BY <1>b, <2>3, <3>2, <4>2, <5>1
      <4> QED
        BY <4>1, <4>2
    <3>6. RulesImplyTap' /\ NoDuplicateRules'
      BY <1>c, <2>1, <3>2, <3>3
    <3> QED
      BY <2>4, <3>5, <3>6
  <2> QED
    BY <2>5, <2>6
<1>7. ASSUME NEW id \in VMs, NEW here, NEW next, DeleteTap(id, here, next),
             (here = "undoTap" /\ next = "err") \/ (here = "delTap" /\ next = "delCgroup")
      PROVE  HostInv'
  <2>1. UNCHANGED <<slot, rules, dirty>> /\ pc[id] = here /\ To(id, next)
    BY <1>7, <1>a DEF DeleteTap, Places
  <2>2. tap'[slot[id]] = None /\ \A s \in Slots : s # slot[id] => tap'[s] = tap[s]
    BY <1>7, <1>b DEF DeleteTap, Types
  <2>3. slot[id] \notin dirty => \A r \in Rules : rules[slot[id]][r] = 0
    BY <1>7, <2>1
  <2>4. ASSUME NEW j \in VMs, j # id, InUse(j) PROVE slot[j] # slot[id]
    BY <1>7, <2>1, <2>4
  <2>5. Exclusive' /\ RulesGone'
    BY <1>7, <2>1 DEF To
  <2>6. Taps'
    BY <1>b, <1>7, <2>1, <2>2, <2>4 DEF To
  <2>7. RulesImplyTap' /\ NoDuplicateRules'
    BY <1>b, <2>1, <2>2, <2>3
  <2> QED
    BY <2>5, <2>6, <2>7
<1>8. ASSUME NEW id \in VMs, Stop(id) \/ removeCgroup(id) \/ Unmap(id) PROVE HostInv'
  <2>1. UNCHANGED <<slot, tap, rules, dirty>> /\ pc[id] \in {"ok", "delCgroup", "delDir"}
    BY <1>8 DEF Stop, removeCgroup, Unmap
  <2>2. \/ To(id, "delFirewall")
        \/ pc[id] \in {"delCgroup", "delDir"} /\ (To(id, "delDir") \/ To(id, "gone"))
        \/ UNCHANGED <<pc, step>>
    BY <1>8, <1>a DEF Stop, removeCgroup, Unmap, Places
  <2>3. Exclusive' /\ Taps' /\ RulesImplyTap' /\ NoDuplicateRules'
    BY <2>1, <2>2 DEF To
  <2>4. RulesGone'
    BY <2>1, <2>2 DEF To, Rules
  <2> QED
    BY <2>3, <2>4
<1>9. CASE UNCHANGED <<slot, tap, rules, dirty, pc, step>>
  BY <1>9
<1>10. ASSUME Restart, UNCHANGED slot PROVE Exclusive' /\ RulesGone'
  BY <1>10, RestartPlaces
<1>11. CASE AgentExit
  <2>1. Taps'
    BY <1>11, RestartPlaces DEF AgentExit
  <2> QED
    BY <1>10, <1>11, <2>1 DEF AgentExit
<1>12. CASE HostReboot
  <2>1. Taps'
    BY <1>b, <1>12, RestartPlaces DEF HostReboot
  <2> QED
    BY <1>10, <1>12, <2>1 DEF HostReboot, NoRules
<1> QED
  <2>1. CASE (\E id \in VMs : VmmExit(id)) \/ UNCHANGED vars
    BY <1>9, <2>1 DEF VmmExit, vars
  <2> QED
    BY <1>1, <1>2, <1>3, <1>4, <1>5, <1>6, <1>7, <1>8, <1>11, <1>12, <2>1, Zenon
       DEF Next, Boot, Destroy, UndoFirewall, teardownFirewall, UndoTap, teardownTapDevice

\* Rules never outlive the device they are for, and none is ever there twice, on
\* every slot on which no iptables command has failed, wherever Boot fails, the
\* agent exits or the host reboots.
THEOREM RulesSafety == Spec => [](RulesImplyTap /\ NoDuplicateRules)
<1>1. StepInv /\ HostInv => RulesImplyTap /\ NoDuplicateRules
  BY DEF HostInv
<1>2. StepInv /\ HostInv /\ [Next]_vars => (StepInv /\ HostInv)'
  BY StepInvNext, HostNext DEF StepInv
<1> QED
  BY <1>1, <1>2, StepInvInit, HostInit, PTL DEF Spec

\* In particular the one -D per rule of teardownFirewall is enough to remove what
\* setupFirewall adds, however the slot's VMs come and go.
THEOREM RulesOnce == Spec => []NoDuplicateRules
BY RulesSafety, PTL

(***************************************************************************)
(* Running VMs.  A Destroy that finds neither a handle nor a PID goes on   *)
(* without stopping anything, so every PID must be known here.             *)
(***************************************************************************)
Set == {"bandwidth", "files", "machine", "cgroup", "wait"}
Ending == {"undoFirewall", "undoTap", "err", "delFirewall", "delTap", "delCgroup", "delDir", "gone"}

RunInv ==
  \A id \in VMs :
    /\ pc[id] \in Ending => vmm[id] # "running"
    /\ vmm[id] = "running" => pid[id] # None
    /\ (pc[id] = "ok" /\ vmm[id] = "running") => tap[slot[id]] = id
    /\ \A r \in Rules :
         (\/ pc[id] = "firewall" /\ r < step[id]
          \/ pc[id] \in Set
          \/ pc[id] = "ok" /\ vmm[id] = "running") => rules[slot[id]][r] > 0

LEMMA RunInit == Init => RunInv
BY DEF Init, RunInv, B!BackendInit, Ending, Set, Rules

LEMMA RunNext ==
  ASSUME StepInv, HostInv, RunInv, "pid" \notin Faults, [Next]_vars
  PROVE  RunInv'
<1> USE NoneIsNoVM DEF RunInv, Ending, Set
<1> DEFINE To(id, there) ==
      /\ pc'[id] = there /\ step'[id] = 1
      /\ \A j \in VMs : j # id => pc'[j] = pc[j] /\ step'[j] = step[j]
<1>a. ASSUME NEW id \in VMs, NEW there, there \in Places, Goto(id, there) PROVE To(id, there)
  BY <1>a, GotoTyped DEF StepInv
<1>b. \A id \in VMs : slot[id] \in Slots /\ step[id] \in Rules
  BY DEF StepInv, Types, Rules
<1>c. \A s \in Slots, r \in Rules : rules[s][r] \in Nat
  BY DEF StepInv, Types
<1>d. ASSUME NEW i \in VMs, NEW j \in VMs, i # j, InUse(i), InUse(j) PROVE slot[i] # slot[j]
  BY <1>d DEF HostInv, Exclusive
<1>e. Types /\ VmmFollowsBoot
  BY DEF StepInv
<1> HIDE DEF To
<1>1. ASSUME NEW id \in VMs, Call(id) PROVE RunInv'
  <2>1. To(id, "tap")
    BY <1>1, <1>a DEF Call, Places
  <2> QED
    BY <1>1, <2>1 DEF Call, To
<1>2. ASSUME NEW id \in VMs, setupTapDevice(id) PROVE RunInv'
  <2>1. pc[id] = "tap" /\ (To(id, "err") \/ To(id, "firewall"))
    BY <1>2, <1>a DEF setupTapDevice, Places
  <2>2. \A j \in VMs : j # id /\ InUse(j) => tap'[slot[j]] = tap[slot[j]]
    BY <1>2, <1>b, <1>d, <1>e, <2>1 DEF setupTapDevice, Types, InUse
  <2>3. UNCHANGED <<slot, vmm, pid, rules>> /\ vmm[id] = "none"
    BY <1>2, <1>e DEF setupTapDevice, VmmFollowsBoot
  <2> QED
    BY <2>1, <2>2, <2>3 DEF To, InUse, Rules
<1>3. ASSUME NEW id \in VMs, setupFirewall(id) PROVE RunInv'
  <2>1. UNCHANGED <<slot, tap, vmm, pid>> /\ pc[id] = "firewall" /\ vmm[id] = "none"
    BY <1>3, <1>e DEF setupFirewall, VmmFollowsBoot
  <2>2. CASE iptablesFails(id) /\ Goto(id, "undoTap")
    <3>1. To(id, "undoTap")
      BY <2>2, <1>a DEF Places
    <3> QED
      BY <2>1, <2>2, <3>1 DEF iptablesFails, To
  <2>3. CASE /\ appendRule(id)
             /\ IF lastRule(id) THEN Goto(id, "bandwidth")
                ELSE step' = [step EXCEPT ![id] = @ + 1] /\ UNCHANGED pc
    <3>1. /\ rules'[slot[id]][step[id]] = rules[slot[id]][step[id]] + 1
          /\ \A s \in Slots, r \in Rules : (s # slot[id] \/ r # step[id]) => rules'[s][r] = rules[s][r]
      <4>1. rules[slot[id]][step[id]] + 1 \in Nat
        BY <1>b, <1>c
      <4> QED
        BY <1>e, <2>3, <4>1, RuleSet DEF appendRule
    <3>2. \/ lastRule(id) /\ To(id, "bandwidth")
          \/ /\ pc' = pc /\ step'[id] = step[id] + 1
             /\ \A j \in VMs : j # id => step'[j] = step[j]
      BY <2>3, <1>a, <1>e, NextRule DEF Places
    <3>3. \A s \in Slots, r \in Rules : rules[s][r] > 0 => rules'[s][r] > 0
      BY <1>b, <1>c, <3>1
    <3>4. ASSUME NEW r \in Rules, \/ pc'[id] = "firewall" /\ r < step'[id]
                                  \/ pc'[id] = "bandwidth"
          PROVE  rules'[slot[id]][r] > 0
      <4>1. r < step[id] \/ r = step[id]
        BY <1>b, <2>1, <3>2, <3>4 DEF To, lastRule, Rules
      <4> QED
        BY <1>b, <1>c, <2>1, <3>1, <3>3, <4>1
    <3>5. ASSUME NEW j \in VMs, j # id PROVE pc'[j] = pc[j] /\ step'[j] = step[j]
      BY <3>2, <3>5 DEF To
    <3>6. pc'[id] \in {"firewall", "bandwidth"}
      BY <2>1, <3>2 DEF To
    <3> QED
      BY <1>b, <2>1, <3>3, <3>4, <3>5, <3>6
  <2> QED
    BY <1>3, <2>2, <2>3 DEF setupFirewall
<1>4. ASSUME NEW id \in VMs, setupBandwidthCap(id) \/ Files(id) PROVE RunInv'
  <2>1. UNCHANGED <<slot, tap, vmm, pid, rules>> /\ pc[id] \in {"bandwidth", "files"} /\ vmm[id] = "none"
    BY <1>4, <1>e DEF setupBandwidthCap, Files, VmmFollowsBoot
  <2>2. To(id, "files") \/ To(id, "undoFirewall") \/ To(id, "machine") \/ To(id, "leaked")
    BY <1>4, <1>a DEF setupBandwidthCap, Files, Places
  <2> QED
    BY <2>1, <2>2 DEF To
<1>5. ASSUME NEW id \in VMs, StartMachine(id) PROVE RunInv'
  <2>1. UNCHANGED <<slot, tap, rules>> /\ pc[id] = "machine" /\ vmm[id] = "none"
    BY <1>5, <1>e DEF StartMachine, VmmFollowsBoot
  <2>2. CASE UNCHANGED <<vmm, pid>> /\ Goto(id, "undoFirewall")
    <3>1. To(id, "undoFirewall")
      BY <2>2, <1>a DEF Places
    <3> QED
      BY <2>1, <2>2, <3>1 DEF To
  <2>3. CASE /\ vmm' = [vmm EXCEPT ![id] = "running"]
             /\ \E p \in B!PidChoices(id) : pid' = [pid EXCEPT ![id] = p]
             /\ Goto(id, "cgroup")
    <3>1. To(id, "cgroup")
      BY <2>3, <1>a DEF Places
    <3>2. pid'[id] # None /\ \A j \in VMs : j # id => pid'[j] = pid[j] /\ vmm'[j] = vmm[j]
      BY <1>e, <2>3 DEF Types, B!PidChoices, None, B!None
    <3> QED
      BY <2>1, <3>1, <3>2 DEF To
  <2> QED
    BY <1>5, <2>2, <2>3 DEF StartMachine
<1>6. ASSUME NEW id \in VMs, createCgroup(id) PROVE RunInv'
  <2>1. To(id, "wait")
    BY <1>6, <1>a DEF createCgroup, Places
  <2> QED
    BY <1>6, <2>1 DEF createCgroup, To
<1>7. ASSUME NEW id \in VMs, waitForDockerReady(id) PROVE RunInv'
  <2>1. UNCHANGED <<slot, tap, pid, rules>> /\ pc[id] = "wait" /\ tap[slot[id]] = id
    BY <1>7 DEF waitForDockerReady, HostInv, Taps
  <2>2. CASE Goto(id, "ok") /\ UNCHANGED vmm
    <3>1. To(id, "ok")
      BY <2>2, <1>a DEF Places
    <3> QED
      BY <2>1, <2>2, <3>1 DEF To
  <2>3. CASE vmm' = B!Signal({id}) /\ Goto(id, "undoFirewall")
    <3>1. To(id, "undoFirewall")
      BY <2>3, <1>a DEF Places
    <3>2. vmm'[id] # "running" /\ \A j \in VMs : j # id => vmm'[j] = vmm[j]
      BY <1>e, <2>3 DEF Types, B!Signal
    <3> QED
      BY <2>1, <3>1, <3>2 DEF To
  <2> QED
    BY <1>7, <2>2, <2>3 DEF waitForDockerReady
<1>8. ASSUME NEW id \in VMs, NEW here, NEW next, DeleteRule(id, here, next),
             (here = "undoFirewall" /\ next = "undoTap") \/ (here = "delFirewall" /\ next = "delTap")
      PROVE  RunInv'
  <2>1. UNCHANGED <<slot, tap, vmm, pid>> /\ pc[id] = here
    BY <1>8 DEF DeleteRule
  <2>2. /\ pc'[id] \in {here, next}
        /\ \A j \in VMs : j # id => pc'[j] = pc[j] /\ step'[j] = step[j]
    BY <1>8, <1>a, <1>e, NextRule DEF DeleteRule, To, Places
  <2>3. \A j \in VMs : j # id /\ InUse(j) => rules'[slot[j]] = rules[slot[j]]
    <3>1. \A s \in Slots : s # slot[id] => rules'[s] = rules[s]
      BY <1>8, <1>e DEF DeleteRule, iptablesFails, Types
    <3> QED
      BY <1>b, <1>d, <1>8, <2>1, <3>1 DEF InUse
  <2> QED
    BY <1>8, <2>1, <2>2, <2>3 DEF InUse
<1>9. ASSUME NEW id \in VMs, NEW here, NEW next, DeleteTap(id, here, next),
             (here = "undoTap" /\ next = "err") \/ (here = "delTap" /\ next = "delCgroup")
      PROVE  RunInv'
  <2>1. UNCHANGED <<slot, vmm, pid, rules>> /\ pc[id] = here /\ To(id, next)
    BY <1>9, <1>a DEF DeleteTap, Places
  <2>2. \A j \in VMs : j # id /\ InUse(j) => tap'[slot[j]] = tap[slot[j]]
    BY <1>b, <1>d, <1>e, <1>9, <2>1 DEF DeleteTap, Types, InUse
  <2> QED
    BY <1>9, <2>1, <2>2 DEF To, InUse
<1>10. ASSUME NEW id \in VMs, Stop(id) PROVE RunInv'
  <2>1. UNCHANGED <<slot, tap, pid, rules>> /\ pc[id] = "ok"
    BY <1>10 DEF Stop
  <2>2. \A j \in VMs : vmm'[j] = "running" => vmm[j] = "running"
    BY <1>10, <1>e DEF Stop, B!Signal, Types
  <2>3. UNCHANGED <<pc, step>> \/ (To(id, "delFirewall") /\ vmm'[id] # "running")
    BY <1>10, <1>a, <1>e DEF Stop, B!Signal, Types, Places
  <2> QED
    BY <2>1, <2>2, <2>3 DEF To
<1>11. ASSUME NEW id \in VMs, removeCgroup(id) \/ Unmap(id) PROVE RunInv'
  <2>1. pc[id] \in {"delCgroup", "delDir"} /\ (To(id, "delDir") \/ To(id, "gone"))
    BY <1>11, <1>a DEF removeCgroup, Unmap, Places
  <2> QED
    BY <1>11, <2>1 DEF removeCgroup, Unmap, To
<1>12. ASSUME NEW id \in VMs, VmmExit(id) PROVE RunInv'
  <2>1. \A j \in VMs : vmm'[j] = "running" => vmm[j] = "running"
    BY <1>12, <1>e DEF VmmExit, Types
  <2> QED
    BY <1>12, <2>1 DEF VmmExit
<1>13. CASE AgentExit
  BY <1>e, <1>13, RestartPlaces DEF AgentExit
<1>14. CASE HostReboot
  <2>1. \A j \in VMs : vmm'[j] # "running"
    BY <1>14 DEF HostReboot, B!Live
  <2> QED
    BY <1>e, <1>14, <2>1, RestartPlaces DEF HostReboot
<1>15. CASE UNCHANGED vars
  BY <1>15 DEF vars
<1> QED
  BY <1>1, <1>2, <1>3, <1>4, <1>5, <1>6, <1>7, <1>8, <1>9, <1>10, <1>11, <1>12, <1>13, <1>14, <1>15,
     Zenon DEF Next, Boot, Destroy, UndoFirewall, teardownFirewall, UndoTap, teardownTapDevice

\* A VM whose Boot has succeeded and that runs has its device and every rule, and
\* a Boot or Destroy that is over has left neither process nor device, if the PID
\* of every VMM is known.
THEOREM BootSafety ==
  ASSUME "pid" \notin Faults
  PROVE  Spec => [](ReadyIsReachable /\ ReturnsClean)
<1> DEFINE All == StepInv /\ HostInv /\ RunInv
<1>1. Init => All
  BY StepInvInit, HostInit, RunInit
<1>2. All /\ [Next]_vars => All'
  BY StepInvNext, HostNext, RunNext DEF StepInv
<1>3. All => ReadyIsReachable /\ ReturnsClean
  BY DEF RunInv, HostInv, Taps, Ending, ReadyIsReachable, ReturnsClean
<1> QED
  BY <1>1, <1>2, <1>3, PTL DEF Spec

\* In particular Boot's error paths and Destroy undo all they are meant to.
THEOREM CleanReturns ==
  ASSUME "pid" \notin Faults
  PROVE  Spec => []ReturnsClean
BY BootSafety, PTL
=============================================================================
