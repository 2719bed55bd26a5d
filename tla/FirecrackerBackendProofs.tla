---------------------- MODULE FirecrackerBackendProofs ----------------------
(***************************************************************************)
(* The step-by-step backend, for any number of VMs, slots, rules and       *)
(* restarts: its types, and that it implements Backend.                    *)
(***************************************************************************)
EXTENDS FirecrackerBackend, TLAPS

Types ==
  /\ slot \in [VMs -> Slots]
  /\ tap \in [Slots -> VMs \cup {None}]
  /\ vmm \in [VMs -> {"none", "running", "signalled", "exited"}]
  /\ pid \in [VMs -> VMs \cup {None}]
  /\ machines \subseteq VMs
  /\ rules \in [Slots -> [Rules -> Nat]]
  /\ dirty \subseteq Slots
  /\ cgroups \subseteq VMs
  /\ pc \in [VMs -> Places]
  /\ step \in [VMs -> 1 .. NRules]
  /\ restarts \in 0 .. MaxRestarts

\* A process exists from Start on, and not before.
VmmFollowsBoot ==
  \A id \in VMs :
    /\ pc[id] \in {"idle", "tap", "firewall", "bandwidth", "files", "machine"} => vmm[id] = "none"
    /\ pc[id] \in {"cgroup", "wait"} => vmm[id] # "none"

StepInv == Types /\ VmmFollowsBoot

LEMMA NoneIsNoVM == None \notin VMs
BY FirecrackerAssumption, SMTT(30) DEF None

LEMMA TypesGiveTypeOK == Types => TypeOK
<1> SUFFICES ASSUME Types PROVE TypeOK
  OBVIOUS
<1>1. \A id \in VMs : StageOf(pc[id], vmm[id]) \in
        {"idle", "called", "tapped", "started", "failing", "ok", "err", "lost", "gone"}
  BY DEF Types, Places, StageOf
<1> QED
  BY <1>1 DEF Types, TypeOK, B!BackendTypeOK, None, B!None

LEMMA PidTyped == ASSUME Types, NEW id \in VMs PROVE B!PidChoices(id) \subseteq VMs \cup {None}
BY DEF Types, B!PidChoices, B!FreePids, B!None, None

LEMMA StepInvInit == Init => StepInv
BY FirecrackerAssumption
   DEF Init, StepInv, Types, VmmFollowsBoot, B!BackendInit, NoRules, None, B!None, Rules, Places

LEMMA GotoTyped ==
  ASSUME Types, NEW id \in VMs, NEW there \in Places, Goto(id, there)
  PROVE  /\ pc' \in [VMs -> Places] /\ step' \in [VMs -> 1 .. NRules]
         /\ pc'[id] = there /\ step'[id] = 1
         /\ \A j \in VMs : j # id => pc'[j] = pc[j] /\ step'[j] = step[j]
BY FirecrackerAssumption DEF Types, Goto

\* The next rule of a loop over the rules.
LEMMA NextRule ==
  ASSUME Types, NEW id \in VMs, ~lastRule(id), step' = [step EXCEPT ![id] = @ + 1]
  PROVE  /\ step' \in [VMs -> 1 .. NRules] /\ step'[id] = step[id] + 1
         /\ \A j \in VMs : j # id => step'[j] = step[j]
<1>1. step[id] + 1 \in 1 .. NRules
  <2>1. step[id] \in 1 .. NRules /\ step[id] # NRules
    BY DEF Types, lastRule
  <2> QED
    BY <2>1, FirecrackerAssumption
<1> QED
  BY <1>1 DEF Types

\* One iptables command changes the count of one rule of one slot.
LEMMA RuleSet ==
  ASSUME Types, NEW id \in VMs, NEW n \in Nat, rules' = [rules EXCEPT ![slot[id]][step[id]] = n]
  PROVE  /\ rules' \in [Slots -> [Rules -> Nat]]
         /\ rules'[slot[id]][step[id]] = n
         /\ \A s \in Slots, r \in Rules :
              (s # slot[id] \/ r # step[id]) => rules'[s][r] = rules[s][r]
<1> DEFINE row == [rules[slot[id]] EXCEPT ![step[id]] = n]
<1>1. slot[id] \in Slots /\ step[id] \in Rules /\ rules[slot[id]] \in [Rules -> Nat]
  BY DEF Types, Rules
<1>2. row \in [Rules -> Nat] /\ row[step[id]] = n
      /\ \A r \in Rules : r # step[id] => row[r] = rules[slot[id]][r]
  BY <1>1
<1>3. rules' = [rules EXCEPT ![slot[id]] = row]
  OBVIOUS
<1> HIDE DEF row
<1>4. rules' \in [Slots -> [Rules -> Nat]] /\ rules'[slot[id]] = row
      /\ \A s \in Slots : s # slot[id] => rules'[s] = rules[s]
  BY <1>1, <1>2, <1>3 DEF Types
<1> QED
  BY <1>1, <1>2, <1>4

LEMMA StepInvNext ==
  ASSUME StepInv, [Next]_vars
  PROVE  StepInv'
<1> USE FirecrackerAssumption DEF StepInv, Types, VmmFollowsBoot
<1> DEFINE Moves(id, there) == /\ pc' \in [VMs -> Places] /\ step' \in [VMs -> 1 .. NRules]
                               /\ pc'[id] = there
                               /\ \A j \in VMs : j # id => pc'[j] = pc[j]
<1>a. ASSUME NEW id \in VMs, NEW there \in Places, Goto(id, there) PROVE Moves(id, there)
  BY <1>a, GotoTyped
<1>b. /\ {"tap", "firewall", "bandwidth", "files", "machine", "cgroup", "wait"} \subseteq Places
      /\ {"undoFirewall", "undoTap", "ok", "err", "leaked", "lost"} \subseteq Places
      /\ {"delFirewall", "delTap", "delCgroup", "delDir", "gone", "orphan"} \subseteq Places
  BY DEF Places
<1> HIDE DEF Moves
<1>1. ASSUME NEW id \in VMs, Call(id) PROVE StepInv'
  <2>1. Moves(id, "tap")
    BY <1>1, <1>a, <1>b DEF Call
  <2> QED
    BY <1>1, <2>1 DEF Call, Moves
<1>2. ASSUME NEW id \in VMs, setupTapDevice(id) PROVE StepInv'
  <2>1. Moves(id, "firewall") \/ Moves(id, "err")
    BY <1>2, <1>a, <1>b DEF setupTapDevice
  <2> QED
    BY <1>2, <2>1 DEF setupTapDevice, Moves
<1>3. ASSUME NEW id \in VMs, setupFirewall(id) PROVE StepInv'
  <2>1. /\ pc' \in [VMs -> Places] /\ step' \in [VMs -> 1 .. NRules]
        /\ pc'[id] \in {"firewall", "bandwidth", "undoTap"}
        /\ \A j \in VMs : j # id => pc'[j] = pc[j]
    BY <1>3, <1>a, <1>b, NextRule DEF setupFirewall, Moves
  <2>2. rules' \in [Slots -> [Rules -> Nat]] /\ dirty' \subseteq Slots
    <3>1. ASSUME appendRule(id) PROVE rules' \in [Slots -> [Rules -> Nat]]
      <4>1. rules[slot[id]][step[id]] + 1 \in Nat
        BY DEF Rules
      <4> QED
        BY <3>1, <4>1, RuleSet DEF appendRule
    <3> QED
      BY <1>3, <3>1 DEF setupFirewall, appendRule, iptablesFails
  <2> QED
    BY <1>3, <2>1, <2>2 DEF setupFirewall
<1>4. ASSUME NEW id \in VMs, setupBandwidthCap(id) \/ Files(id) PROVE StepInv'
  <2>1. Moves(id, "files") \/ Moves(id, "undoFirewall") \/ Moves(id, "machine") \/ Moves(id, "leaked")
    BY <1>4, <1>a, <1>b DEF setupBandwidthCap, Files
  <2>2. UNCHANGED <<slot, tap, vmm, pid, machines, rules, dirty, cgroups, restarts>>
        /\ pc[id] \in {"bandwidth", "files"}
    BY <1>4 DEF setupBandwidthCap, Files
  <2> QED
    BY <2>1, <2>2 DEF Moves
<1>5. ASSUME NEW id \in VMs, StartMachine(id) PROVE StepInv'
  <2>1. \/ Moves(id, "cgroup") /\ vmm' = [vmm EXCEPT ![id] = "running"]
        \/ Moves(id, "undoFirewall") /\ vmm' = vmm
    BY <1>5, <1>a, <1>b DEF StartMachine
  <2>2. pid' \in [VMs -> VMs \cup {None}]
    BY <1>5, PidTyped DEF StartMachine
  <2> QED
    BY <1>5, <2>1, <2>2 DEF StartMachine, Moves
<1>6. ASSUME NEW id \in VMs, createCgroup(id) PROVE StepInv'
  <2>1. Moves(id, "wait") /\ cgroups' \subseteq VMs
    BY <1>6, <1>a, <1>b DEF createCgroup
  <2> QED
    BY <1>6, <2>1 DEF createCgroup, Moves
<1>7. ASSUME NEW id \in VMs, waitForDockerReady(id) PROVE StepInv'
  <2>1. Moves(id, "ok") \/ Moves(id, "undoFirewall")
    BY <1>7, <1>a, <1>b DEF waitForDockerReady
  <2>2. /\ vmm' \in [VMs -> {"none", "running", "signalled", "exited"}] /\ machines' \subseteq VMs
        /\ \A j \in VMs : vmm'[j] = "none" <=> vmm[j] = "none"
    BY <1>7 DEF waitForDockerReady, B!Signal
  <2> QED
    BY <1>7, <2>1, <2>2 DEF waitForDockerReady, Moves
<1>8. ASSUME NEW id \in VMs, NEW here \in {"undoFirewall", "delFirewall"},
             NEW next \in {"undoTap", "delTap"}, DeleteRule(id, here, next)
      PROVE  StepInv'
  <2>1. /\ pc' \in [VMs -> Places] /\ step' \in [VMs -> 1 .. NRules]
        /\ pc'[id] \in {here, next}
        /\ \A j \in VMs : j # id => pc'[j] = pc[j]
    BY <1>8, <1>a, <1>b, NextRule DEF DeleteRule, Moves
  <2>2. rules' \in [Slots -> [Rules -> Nat]] /\ dirty' \subseteq Slots
    <3> DEFINE n == rules[slot[id]][step[id]]
    <3>1. (IF n = 0 THEN 0 ELSE n - 1) \in Nat
      BY DEF Rules
    <3>2. CASE iptablesFails(id)
      BY <3>2 DEF iptablesFails
    <3>3. CASE ~iptablesFails(id)
      BY <1>8, <3>1, <3>3, RuleSet DEF DeleteRule
    <3> QED
      BY <3>2, <3>3
  <2> QED
    BY <1>8, <2>1, <2>2 DEF DeleteRule
<1>9. ASSUME NEW id \in VMs, NEW here \in {"undoTap", "delTap"},
             NEW next \in {"err", "delCgroup"}, DeleteTap(id, here, next)
      PROVE  StepInv'
  <2>1. Moves(id, next)
    BY <1>9, <1>a, <1>b DEF DeleteTap
  <2> QED
    BY <1>9, <2>1 DEF DeleteTap, Moves, None
<1>10. ASSUME NEW id \in VMs, Stop(id) PROVE StepInv'
  <2>1. Moves(id, "delFirewall") \/ UNCHANGED <<pc, step>>
    BY <1>10, <1>a, <1>b DEF Stop
  <2>2. /\ vmm' \in [VMs -> {"none", "running", "signalled", "exited"}] /\ machines' \subseteq VMs
        /\ \A j \in VMs : vmm'[j] = "none" <=> vmm[j] = "none"
    BY <1>10 DEF Stop, B!Signal
  <2> QED
    BY <1>10, <2>1, <2>2 DEF Stop, Moves
<1>11. ASSUME NEW id \in VMs, removeCgroup(id) \/ Unmap(id) PROVE StepInv'
  <2>1. (Moves(id, "delDir") \/ Moves(id, "gone")) /\ cgroups' \subseteq VMs
    BY <1>11, <1>a, <1>b DEF removeCgroup, Unmap
  <2> QED
    BY <1>11, <2>1 DEF removeCgroup, Unmap, Moves
<1>12. ASSUME NEW id \in VMs, VmmExit(id) PROVE StepInv'
  BY <1>12 DEF VmmExit, B!Live
<1>13. CASE AgentExit \/ HostReboot
  <2>1. /\ pc' \in [VMs -> Places] /\ step' \in [VMs -> 1 .. NRules]
        /\ machines' = {} /\ restarts' \in 0 .. MaxRestarts
        /\ \A id \in VMs : pc'[id] \in {pc[id], "lost", "orphan", "ok"}
    <3>1. Restart
      BY <1>13 DEF AgentExit, HostReboot
    <3>2. \A id \in VMs : pc'[id] \in {pc[id], "lost", "orphan", "ok"}
      BY <3>1 DEF Restart
    <3>3. \A id \in VMs : pc'[id] \in Places
      BY <3>2, <1>b
    <3>4. pc' \in [VMs -> Places]
      BY <3>1, <3>3 DEF Restart
    <3>5. restarts' \in 0 .. MaxRestarts /\ step' \in [VMs -> 1 .. NRules]
      BY <3>1 DEF Restart
    <3> QED
      BY <3>1, <3>2, <3>4, <3>5 DEF Restart
  <2>2. ASSUME NEW id \in VMs,
               pc'[id] \in {"idle", "tap", "firewall", "bandwidth", "files", "machine", "cgroup", "wait"}
        PROVE  pc[id] = pc'[id] /\ ~B!Booting(id)
    BY <1>13, <2>1, <2>2 DEF AgentExit, HostReboot, Restart, InUse
  <2>3. ASSUME NEW id \in VMs,
               pc[id] \in {"tap", "firewall", "bandwidth", "files", "machine", "cgroup", "wait"}
        PROVE  B!Booting(id)
    BY <2>3 DEF B!Booting, StageOf
  <2>4. \A id \in VMs : pc'[id] \in {"idle", "tap", "firewall", "bandwidth", "files", "machine",
                                     "cgroup", "wait"} => pc'[id] = "idle" /\ pc[id] = "idle"
    BY <2>2, <2>3
  <2>5. CASE AgentExit
    BY <2>1, <2>4, <2>5 DEF AgentExit
  <2>6. CASE HostReboot
    BY <2>1, <2>4, <2>6 DEF HostReboot, NoRules, Rules, B!Live, None
  <2> QED
    BY <1>13, <2>5, <2>6
<1>14. CASE UNCHANGED vars
  BY <1>14 DEF vars
<1> QED
  BY <1>1, <1>2, <1>3, <1>4, <1>5, <1>6, <1>7, <1>8, <1>9, <1>10, <1>11, <1>12, <1>13, <1>14, Zenon
     DEF Next, Boot, Destroy, UndoFirewall, teardownFirewall, UndoTap, teardownTapDevice

\* Every state has its types, in Backend's terms as well.
THEOREM TypeCorrect == Spec => []TypeOK
<1>1. StepInv => TypeOK
  BY TypesGiveTypeOK DEF StepInv
<1> QED
  BY <1>1, StepInvInit, StepInvNext, PTL DEF Spec

(***************************************************************************)
(* Refinement of Backend.                                                  *)
(***************************************************************************)
Stage == [id \in VMs |-> StageOf(pc[id], vmm[id])]

LEMMA StageTable ==
  ASSUME NEW p \in Places, NEW v
  PROVE  /\ p = "tap" => StageOf(p, v) = "called"
         /\ p \in {"firewall", "bandwidth", "files", "machine"} => StageOf(p, v) = "tapped"
         /\ p \in {"undoFirewall", "undoTap"} => StageOf(p, v) = IF v = "none" THEN "tapped" ELSE "failing"
         /\ p \in {"cgroup", "wait"} => StageOf(p, v) = "started"
         /\ p \in {"idle", "err", "lost"} => StageOf(p, v) = p
         /\ p = "leaked" => StageOf(p, v) = "err"
         /\ p \in {"gone", "orphan"} => StageOf(p, v) = "gone"
         /\ p \in {"ok", "delFirewall", "delTap", "delCgroup", "delDir"} => StageOf(p, v) = "ok"
BY DEF StageOf, Places

\* A VM's stage changes only with its own place or the start of its process.
LEMMA StageMoves ==
  ASSUME NEW id \in VMs,
         \A j \in VMs \ {id} : pc'[j] = pc[j] /\ (vmm'[j] = "none" <=> vmm[j] = "none")
  PROVE  Stage' = [Stage EXCEPT ![id] = StageOf(pc'[id], vmm'[id])]
<1>1. \A j \in VMs \ {id} : StageOf(pc'[j], vmm'[j]) = StageOf(pc[j], vmm[j])
  BY Zenon DEF StageOf
<1> QED
  BY <1>1 DEF Stage

LEMMA StageStays ==
  ASSUME \A j \in VMs : StageOf(pc'[j], vmm'[j]) = StageOf(pc[j], vmm[j])
  PROVE  Stage' = Stage
BY DEF Stage

LEMMA RefineStep ==
  ASSUME StepInv, [Next]_vars
  PROVE  [B!BackendNext]_B!backendVars
<1> DEFINE Abstract(id) ==
      /\ \/ B!BackendStep(id)
         \/ B!BootStep(id)
         \/ Stage[id] = "ok" /\ (B!Stop(id) \/ B!StopFails(id) \/ B!Teardown(id) \/ B!Release(id))
         \/ B!VmmExit(id)
         \/ UNCHANGED B!backendVars
      /\ UNCHANGED slot
<1> DEFINE To(id, there) == there \in Places /\ pc'[id] = there /\ \A j \in VMs \ {id} : pc'[j] = pc[j]
<1> USE DEF StepInv
<1>a. ASSUME NEW id \in VMs, NEW there, there \in Places, Goto(id, there) PROVE To(id, there)
  BY <1>a, GotoTyped
<1>b. \A id \in VMs : pc[id] \in Places /\ Stage[id] = StageOf(pc[id], vmm[id])
  BY DEF Types, Stage
<1>c. \A id \in VMs : B!InUse(id) => InUse(id)
  <2> SUFFICES ASSUME NEW id \in VMs, ~InUse(id) PROVE ~B!InUse(id)
    OBVIOUS
  <2>1. pc[id] \in Places /\ StageOf(pc[id], vmm[id]) \in {"idle", "err", "lost", "gone"}
    BY <1>b, StageTable DEF InUse
  <2> QED
    BY <2>1 DEF B!InUse, B!Booting
<1> HIDE DEF To
<1>1. ASSUME NEW id \in VMs, Call(id) PROVE Abstract(id)
  <2>1. To(id, "tap")
    BY <1>1, <1>a DEF Call, Places
  <2>2. Stage' = [Stage EXCEPT ![id] = "called"]
    BY <1>1, <2>1, StageMoves, StageTable DEF Call, To
  <2>3. Stage[id] = "idle"
    BY <1>1, <1>b, StageTable DEF Call
  <2>4. B!BootCall(id)
    BY <1>1, <2>2, <2>3 DEF Call, B!BootCall, Stage
  <2>5. \A j \in VMs : slot[j] = slot[id] => ~B!InUse(j)
    BY <1>1, <1>c DEF Call
  <2> QED
    BY <1>1, <2>4, <2>5, Zenon DEF Call, B!BackendStep
<1>2. ASSUME NEW id \in VMs, setupTapDevice(id) PROVE Abstract(id)
  <2>1. Stage[id] = "called"
    BY <1>2, <1>b, StageTable DEF setupTapDevice
  <2>2. CASE Goto(id, "err") /\ UNCHANGED tap
    <3>1. Stage' = [Stage EXCEPT ![id] = "err"]
      <4>1. To(id, "err")
        BY <2>2, <1>a DEF Places
      <4> QED
        BY <1>2, <4>1, StageMoves, StageTable DEF setupTapDevice, To
    <3>2. B!BootRefused(id)
      BY <1>2, <2>1, <2>2, <3>1 DEF setupTapDevice, B!BootRefused, Stage
    <3> QED
      BY <1>2, <3>2 DEF setupTapDevice, B!BootStep
  <2>3. CASE tap[slot[id]] = None /\ tap' = [tap EXCEPT ![slot[id]] = id] /\ Goto(id, "firewall")
    <3>1. Stage' = [Stage EXCEPT ![id] = "tapped"]
      <4>1. To(id, "firewall")
        BY <2>3, <1>a DEF Places
      <4> QED
        BY <1>2, <4>1, StageMoves, StageTable DEF setupTapDevice, To
    <3>2. B!BootTap(id)
      BY <1>2, <2>1, <2>3, <3>1 DEF setupTapDevice, B!BootTap, Stage, None, B!None
    <3> QED
      BY <1>2, <3>2 DEF setupTapDevice, B!BootStep
  <2> QED
    BY <1>2, <2>2, <2>3 DEF setupTapDevice
<1>3. ASSUME NEW id \in VMs, setupFirewall(id) \/ setupBandwidthCap(id) PROVE Abstract(id)
  <2>1. UNCHANGED <<slot, tap, vmm, pid, machines>> /\ pc[id] \in {"firewall", "bandwidth"}
    BY <1>3 DEF setupFirewall, setupBandwidthCap
  <2>2. To(id, "bandwidth") \/ To(id, "files") \/ To(id, "undoTap") \/ To(id, "undoFirewall") \/ pc' = pc
    BY <1>3, <1>a DEF setupFirewall, setupBandwidthCap, Places
  <2>3. vmm[id] = "none"
    BY <2>1 DEF VmmFollowsBoot
  <2>4. \A j \in VMs : StageOf(pc'[j], vmm'[j]) = StageOf(pc[j], vmm[j])
    BY <1>b, <2>1, <2>2, <2>3, StageTable DEF To
  <2>5. Stage' = Stage
    BY <2>4, StageStays
  <2> QED
    BY <2>1, <2>5 DEF B!backendVars, Stage
<1>4. ASSUME NEW id \in VMs, Files(id) PROVE Abstract(id)
  <2>1. UNCHANGED <<slot, tap, vmm, pid, machines>> /\ pc[id] = "files" /\ Stage[id] = "tapped"
    BY <1>4, <1>b, StageTable DEF Files
  <2>2. CASE Goto(id, "machine")
    <3>1. \A j \in VMs : StageOf(pc'[j], vmm'[j]) = StageOf(pc[j], vmm[j])
      <4>1. To(id, "machine")
        BY <2>2, <1>a DEF Places
      <4> QED
        BY <1>b, <2>1, <4>1, StageTable DEF To
    <3>2. Stage' = Stage
      BY <3>1, StageStays
    <3> QED
      BY <2>1, <3>2 DEF B!backendVars, Stage
  <2>3. CASE "leak" \in Faults /\ Goto(id, "leaked")
    <3>1. Stage' = [Stage EXCEPT ![id] = "err"]
      <4>1. To(id, "leaked")
        BY <2>3, <1>a DEF Places
      <4> QED
        BY <2>1, <4>1, StageMoves, StageTable DEF To
    <3>2. B!BootAbortLeak(id)
      BY <2>1, <2>3, <3>1 DEF B!BootAbortLeak, Stage
    <3> QED
      BY <2>1, <3>2 DEF B!BootStep
  <2> QED
    BY <1>4, <2>2, <2>3 DEF Files
<1>5. ASSUME NEW id \in VMs, StartMachine(id) PROVE Abstract(id)
  <2>1. UNCHANGED <<slot, tap, machines>> /\ pc[id] = "machine" /\ Stage[id] = "tapped" /\ vmm[id] = "none"
    BY <1>5, <1>b, StageTable DEF StartMachine, VmmFollowsBoot
  <2>2. CASE UNCHANGED <<vmm, pid>> /\ Goto(id, "undoFirewall")
    <3>1. \A j \in VMs : StageOf(pc'[j], vmm'[j]) = StageOf(pc[j], vmm[j])
      <4>1. To(id, "undoFirewall")
        BY <2>2, <1>a DEF Places
      <4> QED
        BY <1>b, <2>1, <2>2, <4>1, StageTable DEF To
    <3>2. Stage' = Stage
      BY <3>1, StageStays
    <3> QED
      BY <2>1, <2>2, <3>2 DEF B!backendVars, Stage
  <2>3. CASE /\ vmm' = [vmm EXCEPT ![id] = "running"]
             /\ \E p \in B!PidChoices(id) : pid' = [pid EXCEPT ![id] = p]
             /\ Goto(id, "cgroup")
    <3>1. Stage' = [Stage EXCEPT ![id] = "started"]
      <4>1. To(id, "cgroup")
        BY <2>3, <1>a DEF Places
      <4>2. \A j \in VMs \ {id} : vmm'[j] = vmm[j]
        BY <2>3 DEF Types
      <4> QED
        BY <2>1, <4>1, <4>2, StageMoves, StageTable DEF To
    <3>2. B!BootStart(id)
      BY <2>1, <2>3, <3>1, Zenon DEF B!BootStart, Stage
    <3> QED
      BY <2>1, <3>2 DEF B!BootStep
  <2> QED
    BY <1>5, <2>2, <2>3 DEF StartMachine
<1>6. ASSUME NEW id \in VMs,
             createCgroup(id) \/ removeCgroup(id) \/ UndoFirewall(id) \/ teardownFirewall(id)
      PROVE  Abstract(id)
  <2>1. UNCHANGED <<slot, tap, vmm, pid, machines>>
    BY <1>6 DEF createCgroup, removeCgroup, UndoFirewall, teardownFirewall, DeleteRule
  <2>2. \/ pc[id] = "cgroup" /\ To(id, "wait")
        \/ pc[id] = "delCgroup" /\ To(id, "delDir")
        \/ pc[id] = "undoFirewall" /\ To(id, "undoTap")
        \/ pc[id] = "delFirewall" /\ To(id, "delTap")
        \/ pc' = pc
    BY <1>6, <1>a DEF createCgroup, removeCgroup, UndoFirewall, teardownFirewall, DeleteRule, Places
  <2>3. \A j \in VMs : StageOf(pc'[j], vmm'[j]) = StageOf(pc[j], vmm[j])
    BY <1>b, <2>1, <2>2, StageTable DEF To
  <2>4. Stage' = Stage
    BY <2>3, StageStays
  <2> QED
    BY <2>1, <2>4 DEF B!backendVars, Stage
<1>7. ASSUME NEW id \in VMs, waitForDockerReady(id) PROVE Abstract(id)
  <2>1. UNCHANGED <<slot, tap, pid>> /\ pc[id] = "wait" /\ Stage[id] = "started" /\ vmm[id] # "none"
    BY <1>7, <1>b, StageTable DEF waitForDockerReady, VmmFollowsBoot
  <2>2. CASE /\ tap[slot[id]] # None /\ B!Live(tap[slot[id]])
             /\ machines' = machines \cup {id} /\ Goto(id, "ok") /\ UNCHANGED vmm
    <3>1. Stage' = [Stage EXCEPT ![id] = "ok"]
      <4>1. To(id, "ok")
        BY <2>2, <1>a DEF Places
      <4> QED
        BY <2>2, <4>1, StageMoves, StageTable DEF To
    <3>2. B!BootReady(id)
      BY <2>1, <2>2, <3>1 DEF B!BootReady, Stage, None, B!None
    <3> QED
      BY <2>1, <3>2 DEF B!BootStep
  <2>3. CASE vmm' = B!Signal({id}) /\ Goto(id, "undoFirewall") /\ UNCHANGED machines
    <3>1. Stage' = [Stage EXCEPT ![id] = "failing"]
      <4>1. To(id, "undoFirewall")
        BY <2>3, <1>a DEF Places
      <4>2. vmm'[id] # "none" /\ \A j \in VMs \ {id} : vmm'[j] = vmm[j]
        BY <2>1, <2>3 DEF Types, B!Signal
      <4> QED
        BY <4>1, <4>2, StageMoves, StageTable DEF To
    <3>2. B!BootNotReady(id)
      BY <2>1, <2>3, <3>1 DEF B!BootNotReady, Stage
    <3> QED
      BY <2>1, <3>2 DEF B!BootStep
  <2> QED
    BY <1>7, <2>2, <2>3 DEF waitForDockerReady
<1>8. ASSUME NEW id \in VMs, UndoTap(id) PROVE Abstract(id)
  <2>1. To(id, "err")
    BY <1>8, <1>a DEF UndoTap, DeleteTap, Places
  <2>2. Stage' = [Stage EXCEPT ![id] = "err"] /\ Stage[id] \in {"tapped", "failing"}
    BY <1>8, <1>b, <2>1, StageMoves, StageTable DEF UndoTap, DeleteTap, To
  <2>3. B!BootAbort(id)
    BY <1>8, <2>2 DEF UndoTap, DeleteTap, B!BootAbort, Stage, None, B!None
  <2> QED
    BY <1>8, <2>3 DEF UndoTap, DeleteTap, B!BootStep
<1>9. ASSUME NEW id \in VMs, teardownTapDevice(id) PROVE Abstract(id)
  <2>1. To(id, "delCgroup")
    BY <1>9, <1>a DEF teardownTapDevice, DeleteTap, Places
  <2>2. \A j \in VMs : StageOf(pc'[j], vmm'[j]) = StageOf(pc[j], vmm[j])
    BY <1>9, <1>b, <2>1, StageTable DEF teardownTapDevice, DeleteTap, To
  <2>3. Stage' = Stage /\ Stage[id] = "ok"
    BY <1>9, <1>b, <2>2, StageStays, StageTable DEF teardownTapDevice, DeleteTap
  <2> QED
    BY <1>9, <2>3 DEF teardownTapDevice, DeleteTap, B!Teardown, Stage, None, B!None
<1>10. ASSUME NEW id \in VMs, Stop(id) PROVE Abstract(id)
  <2>1. UNCHANGED <<slot, tap, pid>> /\ pc[id] = "ok"
        /\ (To(id, "delFirewall") \/ pc' = pc)
    BY <1>10, <1>a DEF Stop, Places
  <2>2. \A j \in VMs : vmm'[j] = "none" <=> vmm[j] = "none"
    BY <1>10 DEF Stop, B!Signal, Types
  <2>3. \A j \in VMs : StageOf(pc'[j], vmm'[j]) = StageOf(pc[j], vmm[j])
    <3>1. StageOf(pc'[id], vmm'[id]) = StageOf(pc[id], vmm[id])
      BY <1>b, <2>1, StageTable DEF To, Places
    <3>2. \A j \in VMs \ {id} : StageOf(pc'[j], vmm'[j]) = StageOf(pc[j], vmm[j])
      <4>1. \A j \in VMs \ {id} : pc'[j] = pc[j]
        BY <2>1 DEF To
      <4> QED
        BY <2>2, <4>1, Zenon DEF StageOf
    <3> QED
      BY <3>1, <3>2
  <2>4. Stage' = Stage /\ Stage[id] = "ok"
    BY <1>b, <2>1, <2>3, StageStays, StageTable
  <2> QED
    BY <1>10, <2>1, <2>4
       DEF Stop, B!Stop, B!StopHandle, B!StopPid, B!StopFails, Stage, None, B!None
<1>11. ASSUME NEW id \in VMs, VmmExit(id) PROVE Abstract(id)
  <2>1. \A j \in VMs : pc'[j] = pc[j] /\ (vmm'[j] = "none" <=> vmm[j] = "none")
    BY <1>11 DEF VmmExit, B!Live, Types
  <2>2. \A j \in VMs : StageOf(pc'[j], vmm'[j]) = StageOf(pc[j], vmm[j])
    BY <2>1, Zenon DEF StageOf
  <2>3. Stage' = Stage
    BY <2>2, StageStays
  <2> QED
    BY <1>11, <2>3 DEF VmmExit, B!VmmExit, Stage
<1>d. ASSUME NEW id \in VMs, Unmap(id) PROVE Abstract(id)
  <2>1. To(id, "gone")
    BY <1>d, <1>a DEF Unmap, Places
  <2>2. Stage' = [Stage EXCEPT ![id] = "gone"] /\ Stage[id] = "ok"
    BY <1>d, <1>b, <2>1, StageMoves, StageTable DEF Unmap, To
  <2> QED
    BY <1>d, <2>2 DEF Unmap, B!Release, Stage
<1>12. ASSUME Restart, \A j \in VMs : vmm'[j] = "none" <=> vmm[j] = "none"
       PROVE  \E forgotten \in SUBSET {id \in VMs : Stage[id] = "ok"} : B!Forget(forgotten)
  <2>1. PICK orphans \in SUBSET {id \in VMs : InUse(id) /\ ~B!Booting(id)} :
          pc' = [id \in VMs |-> IF B!Booting(id) THEN "lost"
                                ELSE IF id \in orphans THEN "orphan"
                                ELSE IF InUse(id) THEN "ok" ELSE pc[id]]
    BY <1>12, Zenon DEF Restart
  <2>2. ASSUME NEW j \in VMs, InUse(j), ~B!Booting(j) PROVE StageOf(pc[j], vmm[j]) = "ok"
    <3>1. pc[j] \in {"ok", "delFirewall", "delTap", "delCgroup", "delDir"}
      <4>1. StageOf(pc[j], vmm[j]) \notin {"called", "tapped", "started", "failing"}
        BY <2>2 DEF B!Booting
      <4> QED
        BY <1>b, <2>2, <4>1, StageTable DEF InUse, Places
    <3> QED
      BY <1>b, <3>1, StageTable
  <2>3. orphans \in SUBSET {id \in VMs : Stage[id] = "ok"}
    BY <1>b, <2>2
  <2>4. ASSUME NEW j \in VMs
        PROVE  StageOf(pc'[j], vmm'[j]) = IF B!Booting(j) THEN "lost"
                                          ELSE IF j \in orphans THEN "gone" ELSE StageOf(pc[j], vmm[j])
    <3>1. CASE B!Booting(j)
      <4>1. pc'[j] = "lost"
        BY <2>1, <3>1
      <4> QED
        BY <3>1, <4>1, StageTable DEF Places
    <3>2. CASE ~B!Booting(j) /\ j \in orphans
      <4>1. pc'[j] = "orphan"
        BY <2>1, <3>2
      <4> QED
        BY <3>2, <4>1, StageTable DEF Places
    <3>3. CASE ~B!Booting(j) /\ j \notin orphans /\ InUse(j)
      <4>1. pc'[j] = "ok"
        BY <2>1, <3>3
      <4> QED
        BY <2>2, <3>3, <4>1, StageTable DEF Places
    <3>4. CASE ~B!Booting(j) /\ j \notin orphans /\ ~InUse(j)
      <4>1. pc'[j] = pc[j]
        BY <2>1, <3>4
      <4>2. StageOf(pc'[j], vmm'[j]) = StageOf(pc[j], vmm[j])
        BY <1>12, <4>1, Zenon DEF StageOf
      <4> QED
        BY <3>4, <4>2
    <3> QED
      BY <3>1, <3>2, <3>3, <3>4
  <2>5. B!Forget(orphans)
    BY <1>12, <2>4 DEF Restart, B!Forget
  <2> QED
    BY <2>3, <2>5
<1>13. CASE AgentExit
  <2>1. PICK forgotten \in SUBSET {id \in VMs : Stage[id] = "ok"} : B!Forget(forgotten)
    BY <1>12, <1>13 DEF AgentExit
  <2>2. B!AgentExit(forgotten) /\ UNCHANGED slot
    BY <1>13, <2>1 DEF AgentExit, B!AgentExit
  <2> QED
    BY <2>2, Zenon DEF B!BackendNext, Stage
<1>14. CASE HostReboot
  <2>1. \A j \in VMs : vmm'[j] = "none" <=> vmm[j] = "none"
    BY <1>14 DEF HostReboot, B!Live
  <2>2. PICK forgotten \in SUBSET {id \in VMs : Stage[id] = "ok"} : B!Forget(forgotten)
    BY <1>12, <1>14, <2>1 DEF HostReboot
  <2>3. B!HostReboot(forgotten) /\ UNCHANGED slot
    BY <1>14, <2>2 DEF HostReboot, B!HostReboot, None, B!None
  <2> QED
    BY <2>3, Zenon DEF B!BackendNext, Stage
<1>15. CASE UNCHANGED vars
  <2>1. UNCHANGED <<slot, tap, vmm, pid, machines, pc>>
    BY <1>15 DEF vars
  <2> QED
    BY <2>1 DEF B!backendVars
<1>16. ASSUME NEW id \in VMs, Abstract(id) PROVE [B!BackendNext]_B!backendVars
  BY <1>16, Zenon DEF B!BackendNext, B!BackendStep, Stage
<1> HIDE DEF Abstract
<1> QED
  BY <1>1, <1>2, <1>3, <1>4, <1>5, <1>6, <1>7, <1>8, <1>9, <1>10, <1>11, <1>d, <1>13, <1>14, <1>15, <1>16,
     Zenon DEF Next, Boot, Destroy

\* Boot, Stop and teardown, taken step by step with every error path, agent exits
\* and reboots, do nothing that the contract VMManager is verified against does
\* not allow: an invariant proved of Backend's steps holds of the code's.
THEOREM Refinement == Spec => ImplementsBackend
<1>1. Init => slot \in [VMs -> Slots] /\ B!BackendInit
  BY DEF Init
<1> QED
  BY <1>1, StepInvInit, StepInvNext, RefineStep, PTL DEF Spec, ImplementsBackend, B!BackendSpec
=============================================================================
