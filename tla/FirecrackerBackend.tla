------------------------- MODULE FirecrackerBackend -------------------------
(***************************************************************************)
(* Boot, Stop and the host-side teardown of a VM, step by step: the tap    *)
(* device, the iptables rules one at a time, the VMM, its cgroup, and the  *)
(* order in which each error path undoes them.  The manager's side is its  *)
(* promise: one VM at a time on a slot, Destroy only after a successful    *)
(* Boot.  The module implements Backend.                                   *)
(***************************************************************************)
EXTENDS Naturals

CONSTANTS VMs, Slots, Faults,
  NRules,       \* rules setupFirewall appends
  MaxRestarts   \* bound on agent exits and host reboots

ASSUME FirecrackerAssumption ==
  NRules \in Nat \ {0} /\ MaxRestarts \in Nat /\ VMs \subseteq Nat \ {0}

VARIABLES slot, tap, vmm, pid, machines,
  rules,    \* per slot and rule, how many copies iptables holds
  dirty,    \* slots on which an iptables command has failed (history)
  cgroups,  \* VMs with a cgroup leaf
  pc,       \* where Boot, and later Destroy, of each VM is
  step,     \* the iptables step it is at
  restarts

vars == <<slot, tap, vmm, pid, machines, rules, dirty, cgroups, pc, step, restarts>>

None == 0
Rules == 1 .. NRules

Places == {"idle", "tap", "firewall", "bandwidth", "files", "machine", "cgroup", "wait",
           "undoFirewall", "undoTap", "ok", "err", "leaked", "lost",
           "delFirewall", "delTap", "delCgroup", "delDir", "gone", "orphan"}

\* How far Boot has got in the terms of Backend.
StageOf(p, v) ==
  CASE p = "tap" -> "called"
    [] p \in {"firewall", "bandwidth", "files", "machine"} -> "tapped"
    [] p \in {"undoFirewall", "undoTap"} -> IF v = "none" THEN "tapped" ELSE "failing"
    [] p \in {"cgroup", "wait"} -> "started"
    [] p \in {"idle", "err", "lost"} -> p
    [] p = "leaked" -> "err"
    [] p \in {"gone", "orphan"} -> "gone"
    [] OTHER -> "ok"

B == INSTANCE Backend WITH bpc <- [id \in VMs |-> StageOf(pc[id], vmm[id])]

\* The manager has given the VM its slot.
InUse(id) == pc[id] \notin {"idle", "err", "leaked", "lost", "gone", "orphan"}

TypeOK ==
  /\ B!BackendTypeOK
  /\ rules \in [Slots -> [Rules -> Nat]]
  /\ dirty \subseteq Slots
  /\ cgroups \subseteq VMs
  /\ pc \in [VMs -> Places]
  /\ step \in [VMs -> 1 .. NRules]
  /\ restarts \in 0 .. MaxRestarts

NoRules == [s \in Slots |-> [r \in Rules |-> 0]]

Init ==
  /\ slot \in [VMs -> Slots]
  /\ pc = [id \in VMs |-> "idle"]
  /\ B!BackendInit
  /\ rules = NoRules
  /\ dirty = {}
  /\ cgroups = {}
  /\ step = [id \in VMs |-> 1]
  /\ restarts = 0

Goto(id, there) == pc' = [pc EXCEPT ![id] = there] /\ step' = [step EXCEPT ![id] = 1]

(***************************************************************************)
(* Boot.                                                                   *)
(***************************************************************************)
Call(id) ==
  /\ pc[id] = "idle"
  /\ \A j \in VMs : slot[j] = slot[id] => ~InUse(j)
  /\ Goto(id, "tap")
  /\ UNCHANGED <<slot, tap, vmm, pid, machines, rules, dirty, cgroups, restarts>>

setupTapDeviceReusing(id) ==
  /\ pc[id] = "tap"
  /\ tap' = [tap EXCEPT ![slot[id]] = id]
  /\ Goto(id, "firewall")
  /\ UNCHANGED <<slot, vmm, pid, machines, rules, dirty, cgroups, restarts>>

\* LinkAdd, AddrAdd, LinkSetUp; a device that cannot be set up is deleted again.
setupTapDevice(id) ==
  /\ pc[id] = "tap"
  /\ \/ /\ tap[slot[id]] = None
        /\ tap' = [tap EXCEPT ![slot[id]] = id]
        /\ Goto(id, "firewall")
     \/ UNCHANGED tap /\ Goto(id, "err")
  /\ UNCHANGED <<slot, vmm, pid, machines, rules, dirty, cgroups, restarts>>

iptablesFails(id) ==
  /\ "iptables" \in Faults
  /\ dirty' = dirty \cup {slot[id]}
  /\ UNCHANGED rules

appendRule(id) == rules' = [rules EXCEPT ![slot[id]][step[id]] = @ + 1] /\ UNCHANGED dirty

lastRuleLate(id) == step[id] > NRules

lastRuleEarly(id) == step[id] >= NRules - 1

lastRule(id) == step[id] = NRules

\* One rule appended; at the first error Boot removes the tap and gives up,
\* and the rules already appended stay.
setupFirewall(id) ==
  /\ pc[id] = "firewall"
  /\ \/ /\ appendRule(id)
        /\ IF lastRule(id)
           THEN Goto(id, "bandwidth")
           ELSE step' = [step EXCEPT ![id] = @ + 1] /\ UNCHANGED pc
     \/ iptablesFails(id) /\ Goto(id, "undoTap")
  /\ UNCHANGED <<slot, tap, vmm, pid, machines, cgroups, restarts>>

setupBandwidthCapUndoingTapOnly(id) ==
  /\ pc[id] = "bandwidth"
  /\ Goto(id, "files") \/ Goto(id, "undoTap")
  /\ UNCHANGED <<slot, tap, vmm, pid, machines, rules, dirty, cgroups, restarts>>

setupBandwidthCap(id) ==
  /\ pc[id] = "bandwidth"
  /\ Goto(id, "files") \/ Goto(id, "undoFirewall")
  /\ UNCHANGED <<slot, tap, vmm, pid, machines, rules, dirty, cgroups, restarts>>

\* MkdirAll, pty.Open, the console log: their errors return at once.
Files(id) ==
  /\ pc[id] = "files"
  /\ Goto(id, "machine") \/ ("leak" \in Faults /\ Goto(id, "leaked"))
  /\ UNCHANGED <<slot, tap, vmm, pid, machines, rules, dirty, cgroups, restarts>>

\* NewMachine and Start.
StartMachine(id) ==
  /\ pc[id] = "machine"
  /\ \/ /\ vmm' = [vmm EXCEPT ![id] = "running"]
        /\ \E p \in B!PidChoices(id) : pid' = [pid EXCEPT ![id] = p]
        /\ Goto(id, "cgroup")
     \/ UNCHANGED <<vmm, pid>> /\ Goto(id, "undoFirewall")
  /\ UNCHANGED <<slot, tap, machines, rules, dirty, cgroups, restarts>>

\* Skipped without a PID; any failure is only logged, the leaf may exist or not.
createCgroup(id) ==
  /\ pc[id] = "cgroup"
  /\ cgroups' \in IF pid[id] = None THEN {cgroups} ELSE {cgroups, cgroups \cup {id}}
  /\ Goto(id, "wait")
  /\ UNCHANGED <<slot, tap, vmm, pid, machines, rules, dirty, restarts>>

waitForDockerReadyWithoutStop(id) ==
  /\ pc[id] = "wait"
  /\ Goto(id, "undoFirewall")
  /\ UNCHANGED <<slot, tap, vmm, pid, machines, rules, dirty, cgroups, restarts>>

\* The guest address answers and the handle is published, or the wait ends and
\* the VMM is told to stop.
waitForDockerReady(id) ==
  /\ pc[id] = "wait"
  /\ \/ /\ tap[slot[id]] # None /\ B!Live(tap[slot[id]])
        /\ machines' = machines \cup {id}
        /\ Goto(id, "ok")
        /\ UNCHANGED vmm
     \/ /\ vmm' = B!Signal({id})
        /\ Goto(id, "undoFirewall")
        /\ UNCHANGED machines
  /\ UNCHANGED <<slot, tap, pid, rules, dirty, cgroups, restarts>>

\* One rule deleted; a rule that is not there, or an error, does not stop it.
DeleteRule(id, here, next) ==
  /\ pc[id] = here
  /\ \/ /\ rules' = [rules EXCEPT ![slot[id]][step[id]] = IF @ = 0 THEN 0 ELSE @ - 1]
        /\ UNCHANGED dirty
     \/ iptablesFails(id)
  /\ IF lastRule(id)
     THEN Goto(id, next)
     ELSE step' = [step EXCEPT ![id] = @ + 1] /\ UNCHANGED pc
  /\ UNCHANGED <<slot, tap, vmm, pid, machines, cgroups, restarts>>

\* Deletes the device by name, whoever created it.
DeleteTap(id, here, next) ==
  /\ pc[id] = here
  /\ tap' = [tap EXCEPT ![slot[id]] = None]
  /\ Goto(id, next)
  /\ UNCHANGED <<slot, vmm, pid, machines, rules, dirty, cgroups, restarts>>

UndoFirewall(id) == DeleteRule(id, "undoFirewall", "undoTap")
UndoTap(id) == DeleteTap(id, "undoTap", "err")

Boot(id) ==
  \/ setupTapDevice(id) \/ setupFirewall(id) \/ setupBandwidthCap(id) \/ Files(id)
  \/ StartMachine(id) \/ createCgroup(id) \/ waitForDockerReady(id)
  \/ UndoFirewall(id) \/ UndoTap(id)

(***************************************************************************)
(* Stop and the teardown Destroy runs after it.                            *)
(***************************************************************************)
StopKeepingHandle(id) ==
  /\ pc[id] = "ok"
  /\ id \in machines
  /\ vmm' = B!Signal({id})
  /\ Goto(id, "delFirewall")
  /\ UNCHANGED <<slot, tap, pid, machines, rules, dirty, cgroups, restarts>>

Stop(id) ==
  /\ pc[id] = "ok"
  /\ \/ /\ id \in machines
        /\ vmm' = B!Signal({id})
        /\ machines' = machines \ {id}
        /\ Goto(id, "delFirewall")
     \/ /\ id \notin machines
        /\ vmm' = IF pid[id] = None THEN vmm ELSE B!Signal({j \in VMs : pid[j] = pid[id]})
        /\ UNCHANGED machines
        /\ Goto(id, "delFirewall")
     \/ "stop" \in Faults /\ UNCHANGED <<vmm, machines, pc, step>>
  /\ UNCHANGED <<slot, tap, pid, rules, dirty, cgroups, restarts>>

teardownFirewall(id) == DeleteRule(id, "delFirewall", "delTap")
teardownTapDevice(id) == DeleteTap(id, "delTap", "delCgroup")

\* rmdir of the leaf fails as long as a process is in it; the error is ignored.
removeCgroup(id) ==
  /\ pc[id] = "delCgroup"
  /\ cgroups' = IF B!Live(id) THEN cgroups ELSE cgroups \ {id}
  /\ Goto(id, "delDir")
  /\ UNCHANGED <<slot, tap, vmm, pid, machines, rules, dirty, restarts>>

\* Destroy removes the VM's directory, then the VM and its slot from the manager.
Unmap(id) ==
  /\ pc[id] = "delDir"
  /\ Goto(id, "gone")
  /\ UNCHANGED <<slot, tap, vmm, pid, machines, rules, dirty, cgroups, restarts>>

Destroy(id) ==
  Stop(id) \/ teardownFirewall(id) \/ teardownTapDevice(id) \/ removeCgroup(id) \/ Unmap(id)

(***************************************************************************)
(* Processes end, the agent exits, the host reboots.  A Destroy that was   *)
(* cut off is repeated from the start, as meta.json is removed last.  A VM *)
(* without meta.json (Create was cut off before it, or writing it failed,  *)
(* or Destroy had just removed it) is an orphan: the next agent gives its  *)
(* slot away.                                                              *)
(***************************************************************************)
VmmExit(id) ==
  /\ B!Live(id)
  /\ vmm' = [vmm EXCEPT ![id] = "exited"]
  /\ UNCHANGED <<slot, tap, pid, machines, rules, dirty, cgroups, pc, step, restarts>>

Restart ==
  /\ restarts < MaxRestarts
  /\ restarts' = restarts + 1
  /\ machines' = {}
  /\ \E orphans \in SUBSET {id \in VMs : InUse(id) /\ ~B!Booting(id)} :
       pc' = [id \in VMs |-> IF B!Booting(id) THEN "lost"
                             ELSE IF id \in orphans THEN "orphan"
                             ELSE IF InUse(id) THEN "ok" ELSE pc[id]]
  /\ step' = [id \in VMs |-> 1]

AgentExit == Restart /\ UNCHANGED <<slot, tap, vmm, pid, rules, dirty, cgroups>>

HostReboot ==
  /\ Restart
  /\ tap' = [s \in Slots |-> None]
  /\ rules' = NoRules
  /\ dirty' = {}
  /\ cgroups' = {}
  /\ vmm' = [id \in VMs |-> IF B!Live(id) THEN "exited" ELSE vmm[id]]
  /\ UNCHANGED <<slot, pid>>

Next ==
  \/ \E id \in VMs : Call(id) \/ Boot(id) \/ Destroy(id) \/ VmmExit(id)
  \/ AgentExit
  \/ HostReboot

Spec == Init /\ [][Next]_vars

(***************************************************************************)
(* Properties.                                                             *)
(***************************************************************************)
\* Boot and Stop of FirecrackerBackend keep the contract the manager is verified
\* against: every step is a step of Backend or leaves Backend's state alone.
ImplementsBackend == B!BackendSpec

\* iptables rules of a slot never outlive its tap device: Boot adds them after
\* the device, every teardown deletes them before it, also when an agent exit
\* cuts it off.  So LinkAdd, which refuses an existing name, keeps a second Boot
\* on the slot from adding rules on top of leftovers, unless iptables failed.
RulesImplyTap ==
  \A s \in Slots \ dirty : (\E r \in Rules : rules[s][r] > 0) => tap[s] # None

\* Unless iptables failed, no rule is ever there twice, which one -D per rule
\* could not undo.
NoDuplicateRules == \A s \in Slots \ dirty, r \in Rules : rules[s][r] <= 1

\* A VM whose Boot returned success and that runs has its tap device and every
\* firewall rule of its slot: "assigned" means reachable, until it is stopped.
ReadyIsReachable ==
  \A id \in VMs : (pc[id] = "ok" /\ vmm[id] = "running") =>
    tap[slot[id]] = id /\ \A r \in Rules : rules[slot[id]][r] > 0

\* A Boot that returned an error, other than those of the files it opens, and a
\* finished Destroy leave no running VMM behind and no tap device of theirs.
ReturnsClean ==
  \A id \in VMs : pc[id] \in {"err", "gone"} => vmm[id] # "running" /\ tap[slot[id]] # id
=============================================================================
