----------------------------- MODULE VMManager -----------------------------
(***************************************************************************)
(* The VM manager: Create, Destroy, the reaper's ReapExpired, and what an  *)
(* agent restart reconciles from disk.  Creates, deletes and the reaper    *)
(* run concurrently; the manager's mutex covers only the steps that read   *)
(* or change vms and slots, so every stretch between two of them is an     *)
(* action of its own here.                                                 *)
(***************************************************************************)
EXTENDS Admission, Backend, FiniteSets

CONSTANTS
  Deleters,    \* concurrent DELETE /vms/{id} requests
  Reaper,      \* the reaper's goroutine
  Sizes,       \* the plan sizes requests carry
  MaxCreates,  \* the most Creates that hold a reservation at once
  Overlap,     \* {"destroy"} if Destroys of one VM may overlap, or {}
  MaxCrashes   \* bound on agent crashes and host reboots together

Destroyers == Deleters \cup {Reaper}

ASSUME ManagerAssumption ==
  /\ Slots = 0 .. CPUTotal - 1
  /\ Reaper \notin Deleters
  /\ Sizes \subseteq [vcpu : Int, ramMb : Int]
  /\ MaxCreates \in Nat \ {0}
  /\ Overlap \subseteq {"destroy"}
  /\ MaxCrashes \in Nat

VARIABLES
  vms,      \* m.vms: the registered VMs
  slots,    \* m.slots: slot -> VM id
  vcpu,     \* VM.Vcpu
  ramMb,    \* VM.RamMb
  cpc,      \* where each VM's Create is
  disk,     \* each VM's directory: absent, without or with a readable meta.json
  dpc,      \* where each Destroy call is
  dvm,      \* the VM it works on
  expired,  \* ids ReapExpired has collected and not yet destroyed
  overdue,  \* VMs whose ExpiresAt has passed
  up,       \* the agent is running
  crashes

createVars == <<vcpu, ramMb, cpc>>
destroyVars == <<dpc, dvm, expired, overdue>>
agentVars == <<up, crashes>>
managerVars == <<vms, slots, createVars, disk, destroyVars, agentVars>>
vars == <<backendVars, managerVars>>

Creating(id) == cpc[id] \in {"rootfs", "boot", "register", "rmdir"}

TypeOK ==
  /\ BackendTypeOK
  /\ vms \subseteq VMs
  /\ slots \in [Slots -> VMs \cup {None}]
  /\ vcpu \in [VMs -> Int]
  /\ ramMb \in [VMs -> Int]
  /\ cpc \in [VMs -> {"none", "rootfs", "boot", "register", "rmdir",
                      "done", "failed", "lost"}]
  /\ disk \in [VMs -> {"none", "dir", "meta"}]
  /\ dpc \in [Destroyers -> {"idle", "stop", "teardown", "rmdir", "unmap"}]
  /\ dvm \in [Destroyers -> VMs \cup {None}]
  /\ expired \subseteq VMs
  /\ overdue \subseteq VMs
  /\ up \in BOOLEAN
  /\ crashes \in 0 .. MaxCrashes

Init ==
  /\ BackendInit
  /\ slot = [id \in VMs |-> 0]
  /\ vms = {}
  /\ slots = [s \in Slots |-> None]
  /\ vcpu = [id \in VMs |-> 0]
  /\ ramMb = [id \in VMs |-> 0]
  /\ cpc = [id \in VMs |-> "none"]
  /\ disk = [id \in VMs |-> "none"]
  /\ dpc = [d \in Destroyers |-> "idle"]
  /\ dvm = [d \in Destroyers |-> None]
  /\ expired = {}
  /\ overdue = {}
  /\ up = TRUE
  /\ crashes = 0

(***************************************************************************)
(* Create.                                                                 *)
(***************************************************************************)
freeSlotIgnoringReservations(s) == \A id \in vms : slot[id] # s

freeSlot(s) == slots[s] = None /\ \A t \in Slots : t < s => slots[t] # None

newVMID(id) == cpc[id] = "none" /\ \A j \in VMs : j < id => cpc[j] # "none"

admits(size) == fits(capacityRAMMb, used(vcpu, vms), size.vcpu, used(ramMb, vms), size.ramMb)

reserveLater(id, s) == slot' = [slot EXCEPT ![id] = s] /\ UNCHANGED slots

reserve(id, s) ==
  /\ slot' = [slot EXCEPT ![id] = s]
  /\ slots' = [slots EXCEPT ![s] = id]

\* The Creates that have a slot reserved and are not registered yet.
Pending == {id \in VMs : cpc[id] \in {"rootfs", "boot", "register"}}

\* Up to the unlock: size check, budget, slot, reservation.  The error returns
\* before it change nothing.
CreateAdmit(id, size) ==
  /\ up
  /\ newVMID(id)
  /\ Cardinality(Pending) < MaxCreates
  /\ size.vcpu > 0 /\ size.ramMb > 0
  /\ admits(size)
  /\ \E s \in Slots : freeSlot(s) /\ reserve(id, s)
  /\ vcpu' = [vcpu EXCEPT ![id] = size.vcpu]
  /\ ramMb' = [ramMb EXCEPT ![id] = size.ramMb]
  /\ cpc' = [cpc EXCEPT ![id] = "rootfs"]
  /\ UNCHANGED <<tap, vmm, pid, machines, bpc, vms, disk, destroyVars, agentVars>>

PrepareRootfs(id) ==
  /\ cpc[id] = "rootfs"
  /\ BootCall(id)
  /\ disk' = [disk EXCEPT ![id] = "dir"]
  /\ cpc' = [cpc EXCEPT ![id] = "boot"]
  /\ UNCHANGED <<slot, vms, slots, vcpu, ramMb, destroyVars, agentVars>>

releaseNothing(id) == UNCHANGED slots

releaseSlot(id) == slots' = [slots EXCEPT ![slot[id]] = None]

\* cp failed; the directory stays.
PrepareRootfsFails(id) ==
  /\ cpc[id] = "rootfs"
  /\ disk' = [disk EXCEPT ![id] = "dir"]
  /\ releaseSlot(id)
  /\ cpc' = [cpc EXCEPT ![id] = "failed"]
  /\ UNCHANGED <<backendVars, vms, vcpu, ramMb, destroyVars, agentVars>>

Boot(id) ==
  /\ cpc[id] = "boot"
  /\ BootStep(id)
  /\ UNCHANGED <<slot, managerVars>>

BootFailed(id) ==
  /\ cpc[id] = "boot" /\ bpc[id] = "err"
  /\ releaseSlot(id)
  /\ cpc' = [cpc EXCEPT ![id] = "rmdir"]
  /\ UNCHANGED <<backendVars, vms, vcpu, ramMb, disk, destroyVars, agentVars>>

removeRootfsOnly(id) == UNCHANGED disk

\* os.RemoveAll; its error is ignored everywhere.
removeVMDir(id) ==
  \/ disk' = [disk EXCEPT ![id] = "none"]
  \/ "rmdir" \in Faults /\ UNCHANGED disk

CreateRmDir(id) ==
  /\ cpc[id] = "rmdir"
  /\ removeVMDir(id)
  /\ cpc' = [cpc EXCEPT ![id] = "failed"]
  /\ UNCHANGED <<backendVars, vms, slots, vcpu, ramMb, destroyVars, agentVars>>

persistUnrenamed(id) == disk' = [disk EXCEPT ![id] = "tmp"]

persistNothing(id) == UNCHANGED disk

persist(id) ==
  \/ disk' = [disk EXCEPT ![id] = "meta"]
  \/ "persist" \in Faults /\ UNCHANGED disk

\* A failed write is logged and Create goes on.
Persist(id) ==
  /\ cpc[id] = "boot" /\ bpc[id] = "ok"
  /\ persist(id)
  /\ cpc' = [cpc EXCEPT ![id] = "register"]
  /\ UNCHANGED <<backendVars, vms, slots, vcpu, ramMb, destroyVars, agentVars>>

Register(id) ==
  /\ cpc[id] = "register"
  /\ vms' = vms \cup {id}
  /\ cpc' = [cpc EXCEPT ![id] = "done"]
  /\ UNCHANGED <<backendVars, slots, vcpu, ramMb, disk, destroyVars, agentVars>>

CreateStep(id) ==
  \/ PrepareRootfs(id)
  \/ PrepareRootfsFails(id)
  \/ Boot(id)
  \/ BootFailed(id)
  \/ CreateRmDir(id)
  \/ Persist(id)
  \/ Register(id)

(***************************************************************************)
(* Destroy, called by DELETE requests and by the reaper.                   *)
(***************************************************************************)
\* The lookup; an unknown id returns ErrNotFound and changes nothing.
Lookup(d, id) ==
  /\ dpc[d] = "idle"
  /\ id \in vms
  /\ "destroy" \in Overlap \/ \A e \in Destroyers : dvm[e] # id
  /\ dpc' = [dpc EXCEPT ![d] = "stop"]
  /\ dvm' = [dvm EXCEPT ![d] = id]
  /\ UNCHANGED <<backendVars, vms, slots, createVars, disk, overdue, agentVars>>

Delete(d, id) == d \in Deleters /\ Lookup(d, id) /\ UNCHANGED expired

return(d) ==
  /\ dpc' = [dpc EXCEPT ![d] = "idle"]
  /\ dvm' = [dvm EXCEPT ![d] = None]

DestroyStopIgnoringErrors(d) ==
  /\ dpc[d] = "stop"
  /\ Stop(dvm[d]) \/ StopFails(dvm[d])
  /\ dpc' = [dpc EXCEPT ![d] = "teardown"]
  /\ UNCHANGED <<slot, vms, slots, createVars, disk, dvm, expired, overdue, agentVars>>

DestroyStop(d) ==
  /\ dpc[d] = "stop"
  /\ \/ Stop(dvm[d]) /\ dpc' = [dpc EXCEPT ![d] = "teardown"] /\ UNCHANGED dvm
     \/ StopFails(dvm[d]) /\ return(d)
  /\ UNCHANGED <<slot, vms, slots, createVars, disk, expired, overdue, agentVars>>

DestroyTeardownFreeing(d) ==
  /\ dpc[d] = "teardown"
  /\ Teardown(dvm[d])
  /\ releaseSlot(dvm[d])
  /\ dpc' = [dpc EXCEPT ![d] = "rmdir"]
  /\ UNCHANGED <<slot, vms, createVars, disk, dvm, expired, overdue, agentVars>>

DestroyTeardown(d) ==
  /\ dpc[d] = "teardown"
  /\ Teardown(dvm[d])
  /\ dpc' = [dpc EXCEPT ![d] = "rmdir"]
  /\ UNCHANGED <<slot, vms, slots, createVars, disk, dvm, expired, overdue, agentVars>>

DestroyRmDir(d) ==
  /\ dpc[d] = "rmdir"
  /\ removeVMDir(dvm[d])
  /\ dpc' = [dpc EXCEPT ![d] = "unmap"]
  /\ UNCHANGED <<backendVars, vms, slots, createVars, dvm, expired, overdue, agentVars>>

DestroyUnmap(d) ==
  /\ dpc[d] = "unmap"
  /\ vms' = vms \ {dvm[d]}
  /\ releaseSlot(dvm[d])
  /\ return(d)
  /\ UNCHANGED <<backendVars, createVars, disk, expired, overdue, agentVars>>

DestroyStep(d) ==
  \/ DestroyStop(d)
  \/ DestroyTeardown(d)
  \/ DestroyRmDir(d)
  \/ DestroyUnmap(d)

(***************************************************************************)
(* The reaper: a snapshot of the overdue VMs, then one Destroy at a time,  *)
(* in map order.  An error or an id that is gone by then is skipped.       *)
(***************************************************************************)
Expire(id) ==
  /\ up /\ id \in vms \ overdue
  /\ overdue' = overdue \cup {id}
  /\ UNCHANGED <<backendVars, vms, slots, createVars, disk, dpc, dvm, expired, agentVars>>

ReapExpired ==
  /\ dpc[Reaper] = "idle" /\ expired = {}
  /\ vms \cap overdue # {}
  /\ expired' = vms \cap overdue
  /\ UNCHANGED <<backendVars, vms, slots, createVars, disk, dpc, dvm, overdue, agentVars>>

ReapNext(id) ==
  /\ dpc[Reaper] = "idle" /\ id \in expired
  /\ \/ Lookup(Reaper, id)
     \/ /\ id \notin vms
        /\ UNCHANGED <<backendVars, vms, slots, createVars, disk, dpc, dvm, overdue, agentVars>>
  /\ expired' = expired \ {id}

(***************************************************************************)
(* The agent stops (crash, upgrade, or shutdown with calls in flight) or   *)
(* the host reboots; New and reconcile bring the manager back.             *)
(***************************************************************************)
Down ==
  /\ up /\ crashes < MaxCrashes
  /\ AgentExit({}) \/ HostReboot({})
  /\ vms' = {}
  /\ slots' = [s \in Slots |-> None]
  /\ cpc' = [id \in VMs |-> IF Creating(id) THEN "lost" ELSE cpc[id]]
  /\ dpc' = [d \in Destroyers |-> "idle"]
  /\ dvm' = [d \in Destroyers |-> None]
  /\ expired' = {}
  /\ up' = FALSE
  /\ crashes' = crashes + 1
  /\ UNCHANGED <<slot, vcpu, ramMb, disk, overdue>>

restoredNone == {}

restored == {id \in VMs : disk[id] = "meta"}

onDisk(s) == {id \in VMs : disk[id] = "meta" /\ slot[id] = s}

\* Directories are read in name order, so of two with one slot the later wins.
lastRead(s, id) ==
  IF onDisk(s) = {} THEN id = None
  ELSE id \in onDisk(s) /\ \A j \in onDisk(s) : j <= id

reconcile ==
  /\ ~up
  /\ vms' = restored
  /\ slots' \in {f \in [Slots -> VMs \cup {None}] : \A s \in Slots : lastRead(s, f[s])}
  /\ up' = TRUE
  /\ UNCHANGED <<backendVars, createVars, disk, destroyVars, crashes>>

Exits(id) == VmmExit(id) /\ UNCHANGED <<slot, managerVars>>

Next ==
  \/ \E id \in VMs, size \in Sizes : CreateAdmit(id, size)
  \/ \E id \in VMs : CreateStep(id) \/ Exits(id) \/ Expire(id) \/ ReapNext(id)
  \/ \E d \in Deleters, id \in VMs : Delete(d, id)
  \/ \E d \in Destroyers : DestroyStep(d)
  \/ ReapExpired
  \/ Down
  \/ reconcile

Spec == Init /\ [][Next]_vars

(***************************************************************************)
(* Properties.                                                             *)
(***************************************************************************)
\* The VM occupies its slot: its Create has reserved it, or it is registered.
Holder(id) == id \in vms \/ cpc[id] \in {"rootfs", "boot", "register"}

Held == {id \in VMs : Holder(id)}

\* m.slots names every VM that occupies a slot as that slot's holder, so no two
\* VMs ever have one slot: the reservation Create makes before the slow boot
\* ("so a concurrent Create can't also pick it"), kept across releaseSlot,
\* Destroy's deletes by slot number, and reconcile.
SlotsExclusive == \A id \in VMs : Holder(id) => slots[slot[id]] = id

\* The host never holds more VMs than it has CPUs, counting those still booting,
\* whatever admission decided: freeSlot's ceiling is "a safe upper bound".
CountBounded == Cardinality(Held) <= capacityCPU

\* A registered VM that runs and that nobody is destroying owns the tap device
\* of its slot: no other VM's failed Boot or Destroy, which delete the device by
\* name, took it away, and no restart gave its slot to another VM.
OwnNetwork ==
  \A id \in vms :
    (vmm[id] = "running" /\ \A d \in Destroyers : dvm[d] # id) => tap[slot[id]] = id

\* A slot the manager hands out has no tap device left over, on which LinkAdd in
\* the next Boot would fail, except one of a Create that an agent exit cut off:
\* every return of Create and Destroy, and a restart in the middle of a Destroy,
\* leaves the slot either clean or taken.
FreeSlotsClean ==
  up => \A s \in Slots :
          (slots[s] = None /\ tap[s] # None) => cpc[tap[s]] = "lost"

\* The metadata on disk and the manager agree: a meta.json belongs to a VM that
\* is registered or about to be, so no restart brings back a destroyed VM.
DiskTracksMemory ==
  up => \A id \in VMs : disk[id] = "meta" => (id \in vms \/ cpc[id] = "register")

\* A VM whose creation was acknowledged and that still runs is known to the
\* manager, also after restarts: it stays reachable for DELETE and the reaper.
AckedRemembered ==
  up => \A id \in VMs : (cpc[id] = "done" /\ vmm[id] = "running") => id \in vms

\* Stop, whether through a handle or by the PID read from disk, signals the
\* process of the VM being destroyed and no other.
StopHitsOwnVM ==
  [][\A id \in VMs : (vmm[id] = "running" /\ vmm'[id] = "signalled") =>
       (bpc'[id] = "failing" \/ \E d \in Destroyers : dvm[d] = id)]_vars

\* The CPU and RAM that the VMs holding a slot need are at most n times the host's.
HeldWithin(n) ==
  /\ MapThenSumSet(LAMBDA id : vcpu[id], Held) <= n * capacityCPU
  /\ MapThenSumSet(LAMBDA id : ramMb[id], Held) <= n * capacityRAMMb

\* The VMs that hold a slot fit the host: the sum of their sizes never exceeds
\* what admission budgets for CPU and RAM.
BudgetRespected == HeldWithin(1)

\* A host is overcommitted at most as many times as Creates ran at once, however
\* many VMs come and go and across restarts: admission counts registered VMs
\* only, and what it misses never adds up beyond that.
OvercommitBounded == HeldWithin(MaxCreates)

\* A VM that runs is known to the running agent, or is being created: an agent
\* restart does not "forget" VMs that are still running.
RunningKnown == up => \A id \in VMs : vmm[id] = "running" => Holder(id)

\* Every step of a call in progress is taken: goroutines are scheduled and each
\* host operation returns (the readiness wait has a deadline).  The reaper ticks,
\* systemd restarts the agent, and a signalled VMM ends.  A Stop that is tried
\* again and again does not fail forever.
Fairness ==
  /\ \A id \in VMs : /\ WF_vars(CreateStep(id))
                     /\ WF_vars(ReapNext(id))
                     /\ WF_vars(vmm[id] = "signalled" /\ Exits(id))
                     /\ SF_vars(\E d \in Destroyers : dvm[d] = id /\ DestroyStop(d) /\ dpc'[d] = "teardown")
  /\ \A d \in Destroyers : WF_vars(DestroyStep(d))
  /\ WF_vars(ReapExpired)
  /\ WF_vars(reconcile)

LiveSpec == Spec /\ Fairness

\* The server-side backstop: an acknowledged VM past its TTL ends, its process
\* and its tap device gone, whatever clients do and across agent restarts.
ReaperBackstop ==
  \A id \in VMs : (cpc[id] = "done" /\ id \in overdue)
                    ~> (~Live(id) /\ tap[slot[id]] # id /\ disk[id] = "none")

\* A slot reserved by a Create does not stay reserved for nothing: the VM gets
\* registered or the reservation is gone, whichever step of Create fails.
ReservationSettles ==
  \A id \in VMs : (slots[slot[id]] = id /\ id \notin vms)
                    ~> (id \in vms \/ slots[slot[id]] # id)
=============================================================================
