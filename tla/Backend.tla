------------------------------ MODULE Backend ------------------------------
(***************************************************************************)
(* What the VM manager relies on when it calls its Backend: the contract   *)
(* of Boot and Stop, at the level of the host resources two VMs can        *)
(* compete for.  A slot has one tap device (its name is a function of the  *)
(* slot), a VM has one VMM process, and the backend keeps a live handle    *)
(* for the VMs this agent process booted.  BackendSpec is the contract     *)
(* between the two sides: what the manager may call when, and what a call  *)
(* may do.  FirecrackerBackend implements it step by step; ManagerContract *)
(* shows that VMManager, which calls it, keeps to it.                      *)
(***************************************************************************)
EXTENDS Naturals

CONSTANTS
  VMs,      \* VM ids: numbers, in the order newVMID issues them
  Slots,    \* slot indices
  Faults    \* the failures the environment may inject, a subset of FaultKinds

None == 0   \* no VM, no process: the zero value of an id or a PID

FaultKinds ==
  { "iptables", \* a rule cannot be added or deleted
    "leak",     \* Boot fails between network setup and NewMachine
    "stop",     \* StopVMM, or kill, returns an error
    "pid",      \* machine.PID() fails, so the VM keeps Pid = 0
    "recycle",  \* the kernel hands an exited process's PID to a new one
    "persist",  \* meta.json cannot be written
    "rmdir" }   \* Destroy cannot remove the VM's directory

ASSUME BackendAssumption ==
  /\ VMs \subseteq Nat \ {None}
  /\ Slots \subseteq Nat
  /\ Faults \subseteq FaultKinds

VARIABLES
  slot,      \* the slot each VM was given
  tap,       \* per slot, the VM whose Boot created the tap device (None: no device)
  vmm,       \* the state of each VM's Firecracker process
  pid,       \* the PID machine.PID() reported, None when unknown
  machines,  \* VMs this agent process holds a live handle for
  bpc        \* how far each VM's Boot has got ("gone": given up by the manager)

backendVars == <<slot, tap, vmm, pid, machines, bpc>>

Live(id) == vmm[id] \in {"running", "signalled"}
Booting(id) == bpc[id] \in {"called", "tapped", "started", "failing"}

BackendTypeOK ==
  /\ slot \in [VMs -> Slots]
  /\ tap \in [Slots -> VMs \cup {None}]
  /\ vmm \in [VMs -> {"none", "running", "signalled", "exited"}]
  /\ pid \in [VMs -> VMs \cup {None}]
  /\ machines \subseteq VMs
  /\ bpc \in [VMs -> {"idle", "called", "tapped", "started", "failing",
                      "ok", "err", "lost", "gone"}]

BackendInit ==
  /\ tap = [s \in Slots |-> None]
  /\ vmm = [id \in VMs |-> "none"]
  /\ pid = [id \in VMs |-> None]
  /\ machines = {}
  /\ bpc = [id \in VMs |-> "idle"]

(***************************************************************************)
(* Boot.                                                                   *)
(***************************************************************************)
BootCall(id) ==
  /\ bpc[id] = "idle"
  /\ bpc' = [bpc EXCEPT ![id] = "called"]
  /\ UNCHANGED <<tap, vmm, pid, machines>>

\* LinkAdd creates the device only if no device has that name.
BootTap(id) ==
  /\ bpc[id] = "called"
  /\ tap[slot[id]] = None
  /\ tap' = [tap EXCEPT ![slot[id]] = id]
  /\ bpc' = [bpc EXCEPT ![id] = "tapped"]
  /\ UNCHANGED <<vmm, pid, machines>>

\* The name is taken, or the address or the link could not be set (and the
\* new device was deleted again).  A device that was there before stays.
BootRefused(id) ==
  /\ bpc[id] = "called"
  /\ bpc' = [bpc EXCEPT ![id] = "err"]
  /\ UNCHANGED <<tap, vmm, pid, machines>>

BootAbortKeepingTap(id) ==
  /\ bpc[id] \in {"tapped", "failing"}
  /\ bpc' = [bpc EXCEPT ![id] = "err"]
  /\ UNCHANGED <<tap, vmm, pid, machines>>

\* The failure paths that tear the network down before returning.
BootAbort(id) ==
  /\ bpc[id] \in {"tapped", "failing"}
  /\ tap' = [tap EXCEPT ![slot[id]] = None]
  /\ bpc' = [bpc EXCEPT ![id] = "err"]
  /\ UNCHANGED <<vmm, pid, machines>>

\* The failure paths that return without doing so: state directory, pty, console log.
BootAbortLeak(id) ==
  /\ "leak" \in Faults
  /\ bpc[id] = "tapped"
  /\ bpc' = [bpc EXCEPT ![id] = "err"]
  /\ UNCHANGED <<tap, vmm, pid, machines>>

\* PIDs are named after the VM whose process had them first.
FreePids == {pid[j] : j \in {k \in VMs : vmm[k] = "exited"}}
              \ {pid[j] : j \in {k \in VMs : Live(k)}}

PidChoices(id) ==
  {id} \cup (IF "pid" \in Faults THEN {None} ELSE {})
       \cup (IF "recycle" \in Faults THEN FreePids \ {None} ELSE {})

BootStart(id) ==
  /\ bpc[id] = "tapped"
  /\ vmm' = [vmm EXCEPT ![id] = "running"]
  /\ \E p \in PidChoices(id) : pid' = [pid EXCEPT ![id] = p]
  /\ bpc' = [bpc EXCEPT ![id] = "started"]
  /\ UNCHANGED <<tap, machines>>

\* A TCP connection to the slot's guest address was accepted: by whatever
\* guest is behind the slot's tap.
BootReady(id) ==
  /\ bpc[id] = "started"
  /\ tap[slot[id]] # None
  /\ Live(tap[slot[id]])
  /\ machines' = machines \cup {id}
  /\ bpc' = [bpc EXCEPT ![id] = "ok"]
  /\ UNCHANGED <<tap, vmm, pid>>

\* StopVMM sends SIGTERM and does not wait for the process to end.
Signal(P) == [id \in VMs |-> IF id \in P /\ vmm[id] = "running" THEN "signalled" ELSE vmm[id]]

\* The readiness wait ended in a timeout or a cancelled request.
BootNotReady(id) ==
  /\ bpc[id] = "started"
  /\ vmm' = Signal({id})
  /\ bpc' = [bpc EXCEPT ![id] = "failing"]
  /\ UNCHANGED <<tap, pid, machines>>

BootStep(id) ==
  \/ BootTap(id)
  \/ BootRefused(id)
  \/ BootAbort(id)
  \/ BootAbortLeak(id)
  \/ BootStart(id)
  \/ BootReady(id)
  \/ BootNotReady(id)

(***************************************************************************)
(* Stop, with and without a live handle.                                   *)
(***************************************************************************)
StopHandle(id) ==
  /\ id \in machines
  /\ vmm' = Signal({id})
  /\ machines' = machines \ {id}
  /\ UNCHANGED <<tap, pid, bpc>>

StopAll(id) ==
  /\ id \notin machines
  /\ vmm' = Signal(VMs)
  /\ UNCHANGED <<tap, pid, machines, bpc>>

\* kill(vm.Pid, SIGKILL): whatever process has that PID now; ESRCH is fine.
StopPid(id) ==
  /\ id \notin machines
  /\ vmm' = IF pid[id] = None THEN vmm ELSE Signal({j \in VMs : pid[j] = pid[id]})
  /\ UNCHANGED <<tap, pid, machines, bpc>>

Stop(id) == StopHandle(id) \/ StopPid(id)

StopFails(id) ==
  /\ "stop" \in Faults
  /\ UNCHANGED <<tap, vmm, pid, machines, bpc>>

\* teardownFirewall and teardownTapDevice: by name, whoever created the device.
Teardown(id) ==
  /\ tap' = [tap EXCEPT ![slot[id]] = None]
  /\ UNCHANGED <<vmm, pid, machines, bpc>>

(***************************************************************************)
(* What happens to the processes and devices without the backend's doing.  *)
(***************************************************************************)
VmmExit(id) ==
  /\ Live(id)
  /\ vmm' = [vmm EXCEPT ![id] = "exited"]
  /\ UNCHANGED <<tap, pid, machines, bpc>>

\* The agent's process ends: handles and running calls are gone, VMMs stay.
\* The VMs in forgotten are those the next agent will not find on disk.
Forget(forgotten) ==
  /\ machines' = {}
  /\ bpc' = [id \in VMs |-> IF Booting(id) THEN "lost"
                           ELSE IF id \in forgotten THEN "gone" ELSE bpc[id]]

AgentExit(forgotten) == Forget(forgotten) /\ UNCHANGED <<tap, vmm, pid>>

\* The host goes down: no process and no device survives.
HostReboot(forgotten) ==
  /\ Forget(forgotten)
  /\ tap' = [s \in Slots |-> None]
  /\ vmm' = [id \in VMs |-> IF Live(id) THEN "exited" ELSE vmm[id]]
  /\ UNCHANGED pid

(***************************************************************************)
(* The contract.  The manager gives a VM its slot before it calls Boot,    *)
(* calls Boot only on a slot on which no other VM is booting or booted,    *)
(* and stops, tears down and gives up only VMs whose Boot succeeded.       *)
(***************************************************************************)
InUse(id) == Booting(id) \/ bpc[id] = "ok"

Assign(id, s) ==
  /\ bpc[id] = "idle"
  /\ slot' = [slot EXCEPT ![id] = s]
  /\ UNCHANGED <<tap, vmm, pid, machines, bpc>>

Release(id) ==
  /\ bpc' = [bpc EXCEPT ![id] = "gone"]
  /\ UNCHANGED <<tap, vmm, pid, machines>>

BackendStep(id) ==
  \/ BootCall(id) /\ \A j \in VMs : slot[j] = slot[id] => ~InUse(j)
  \/ BootStep(id)
  \/ bpc[id] = "ok" /\ (Stop(id) \/ StopFails(id) \/ Teardown(id) \/ Release(id))
  \/ VmmExit(id)

BackendNext ==
  \/ \E id \in VMs : BackendStep(id) /\ UNCHANGED slot
  \/ \E id \in VMs, s \in Slots : Assign(id, s)
  \/ \E forgotten \in SUBSET {id \in VMs : bpc[id] = "ok"} :
       (AgentExit(forgotten) \/ HostReboot(forgotten)) /\ UNCHANGED slot

BackendSpec ==
  /\ slot \in [VMs -> Slots]
  /\ BackendInit
  /\ [][BackendNext]_backendVars
=============================================================================
