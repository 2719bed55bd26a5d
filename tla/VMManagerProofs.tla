-------------------------- MODULE VMManagerProofs --------------------------
(***************************************************************************)
(* Proofs about VMManager, for every number of VMs, slots, requests and    *)
(* restarts: types, slots, whom Stop signals, and which calls of Boot are  *)
(* open.  NetworkProofs, VMManagerResourceProofs and BudgetProofs build on *)
(* them.                                                                   *)
(***************************************************************************)
EXTENDS VMManager, TLAPS

(***************************************************************************)
(* Types.                                                                  *)
(***************************************************************************)
LEMMA ZeroIsASlot == 0 \in Slots
BY AdmissionAssumption, ManagerAssumption

LEMMA BackendTypes ==
  ASSUME TypeOK, NEW id \in VMs,
         \/ BootCall(id) \/ BootStep(id) \/ Stop(id) \/ StopFails(id)
         \/ Teardown(id) \/ VmmExit(id) \/ AgentExit({}) \/ HostReboot({}),
         UNCHANGED slot
  PROVE  BackendTypeOK'
<1> USE DEF TypeOK, BackendTypeOK, Signal, None
<1>1. CASE BootCall(id)
  BY <1>1 DEF BootCall
<1>2. CASE BootStep(id)
  <2>1. CASE BootTap(id)
    BY <2>1 DEF BootTap
  <2>2. CASE BootRefused(id)
    BY <2>2 DEF BootRefused
  <2>3. CASE BootAbort(id)
    BY <2>3 DEF BootAbort
  <2>4. CASE BootAbortLeak(id)
    BY <2>4 DEF BootAbortLeak
  <2>5. CASE BootStart(id)
    <3>1. PidChoices(id) \subseteq VMs \cup {None}
      BY DEF PidChoices, FreePids
    <3> QED
      BY <2>5, <3>1 DEF BootStart
  <2>6. CASE BootReady(id)
    BY <2>6 DEF BootReady
  <2>7. CASE BootNotReady(id)
    BY <2>7 DEF BootNotReady
  <2> QED
    BY <1>2, <2>1, <2>2, <2>3, <2>4, <2>5, <2>6, <2>7 DEF BootStep
<1>3. CASE Stop(id)
  BY <1>3 DEF Stop, StopHandle, StopPid
<1>4. CASE StopFails(id)
  BY <1>4 DEF StopFails
<1>5. CASE Teardown(id)
  BY <1>5 DEF Teardown
<1>6. CASE VmmExit(id)
  BY <1>6 DEF VmmExit
<1>7. CASE AgentExit({})
  BY <1>7 DEF AgentExit, Forget
<1>8. CASE HostReboot({})
  BY <1>8 DEF HostReboot, Forget
<1> QED
  BY <1>1, <1>2, <1>3, <1>4, <1>5, <1>6, <1>7, <1>8

\* A Destroy call in progress has a VM.
BusyHasVM == \A d \in Destroyers : dpc[d] # "idle" => dvm[d] \in VMs

TypeInv == TypeOK /\ BusyHasVM

LEMMA TypeInit == Init => TypeInv
BY ZeroIsASlot, ManagerAssumption, SMTT(30)
   DEF Init, BackendInit, TypeInv, TypeOK, BackendTypeOK, BusyHasVM, None

LEMMA TypeStep == TypeInv /\ [Next]_vars => TypeInv'
<1> SUFFICES ASSUME TypeInv, [Next]_vars PROVE TypeInv'
  OBVIOUS
<1> USE DEF TypeInv, TypeOK, BusyHasVM
<1>1. ASSUME NEW id \in VMs, NEW size \in Sizes, CreateAdmit(id, size) PROVE TypeInv'
  <2>1. size.vcpu \in Int /\ size.ramMb \in Int
    BY ManagerAssumption
  <2> QED
    BY <1>1, <2>1 DEF CreateAdmit, reserve, BackendTypeOK, destroyVars, agentVars
<1>2. ASSUME NEW id \in VMs, CreateStep(id) PROVE TypeInv'
  <2>1. CASE PrepareRootfs(id)
    BY <2>1, BackendTypes DEF PrepareRootfs, destroyVars, agentVars
  <2>2. CASE PrepareRootfsFails(id)
    BY <2>2 DEF PrepareRootfsFails, releaseSlot, BackendTypeOK, backendVars, destroyVars, agentVars
  <2>3. CASE Boot(id)
    BY <2>3, BackendTypes DEF Boot, managerVars, createVars, destroyVars, agentVars
  <2>4. CASE BootFailed(id)
    BY <2>4 DEF BootFailed, releaseSlot, BackendTypeOK, backendVars, destroyVars, agentVars
  <2>5. CASE CreateRmDir(id)
    BY <2>5 DEF CreateRmDir, removeVMDir, BackendTypeOK, backendVars, destroyVars, agentVars
  <2>6. CASE Persist(id)
    BY <2>6 DEF Persist, persist, BackendTypeOK, backendVars, destroyVars, agentVars
  <2>7. CASE Register(id)
    BY <2>7 DEF Register, BackendTypeOK, backendVars, destroyVars, agentVars
  <2> QED
    BY <1>2, <2>1, <2>2, <2>3, <2>4, <2>5, <2>6, <2>7 DEF CreateStep
<1>3. ASSUME NEW d \in Destroyers, NEW id \in VMs, Lookup(d, id), expired' \subseteq expired
      PROVE  TypeInv'
  BY <1>3 DEF Lookup, BackendTypeOK, backendVars, createVars, agentVars
<1>4. ASSUME NEW d \in Destroyers, DestroyStep(d) PROVE TypeInv'
  <2>1. CASE DestroyStop(d)
    BY <2>1, BackendTypes DEF DestroyStop, return, createVars, agentVars, None
  <2>2. CASE DestroyTeardown(d)
    BY <2>2, BackendTypes DEF DestroyTeardown, createVars, agentVars
  <2>3. CASE DestroyRmDir(d)
    BY <2>3 DEF DestroyRmDir, removeVMDir, BackendTypeOK, backendVars, createVars, agentVars
  <2>4. CASE DestroyUnmap(d)
    BY <2>4 DEF DestroyUnmap, releaseSlot, return, BackendTypeOK, backendVars, createVars, agentVars
  <2> QED
    BY <1>4, <2>1, <2>2, <2>3, <2>4 DEF DestroyStep
<1>5. ASSUME NEW id \in VMs, Expire(id) PROVE TypeInv'
  BY <1>5 DEF Expire, BackendTypeOK, backendVars, createVars, agentVars
<1>6. ASSUME NEW id \in VMs, ReapNext(id) PROVE TypeInv'
  <2>1. CASE Lookup(Reaper, id)
    BY <1>3, <1>6, <2>1, SMTT(30) DEF ReapNext, Destroyers
  <2>2. CASE UNCHANGED <<backendVars, vms, slots, createVars, disk, dpc, dvm, overdue, agentVars>>
    BY <1>6, <2>2 DEF ReapNext, BackendTypeOK, backendVars, createVars, agentVars
  <2> QED
    BY <1>6, <2>1, <2>2 DEF ReapNext
<1>7. CASE ReapExpired
  BY <1>7 DEF ReapExpired, BackendTypeOK, backendVars, createVars, agentVars
<1>8. CASE Down
  <2>1. BackendTypeOK'
    BY <1>8 DEF Down, AgentExit, HostReboot, Forget, BackendTypeOK
  <2>2. crashes' \in 0 .. MaxCrashes
    BY <1>8, ManagerAssumption DEF Down
  <2>3. cpc' \in [VMs -> {"none", "rootfs", "boot", "register", "rmdir", "done", "failed", "lost"}]
    BY <1>8 DEF Down
  <2> QED
    BY <1>8, <2>1, <2>2, <2>3, Zenon DEF Down
<1>9. CASE reconcile
  BY <1>9 DEF reconcile, restored, BackendTypeOK, backendVars, createVars, destroyVars
<1>10. ASSUME NEW id \in VMs, Exits(id) PROVE TypeInv'
  BY <1>10, BackendTypes DEF Exits, managerVars, createVars, destroyVars, agentVars
<1>11. CASE UNCHANGED vars
  BY <1>11 DEF vars, backendVars, managerVars, createVars, destroyVars, agentVars, BackendTypeOK
<1>12. ASSUME NEW d \in Deleters, NEW id \in VMs, Delete(d, id) PROVE TypeInv'
  BY <1>3, <1>12 DEF Delete, Destroyers
<1> QED
  BY <1>1, <1>2, <1>4, <1>5, <1>6, <1>7, <1>8, <1>9, <1>10, <1>11, <1>12, Zenon DEF Next

\* Every reachable state is well typed, for any sets of VMs, slots and requests.
THEOREM TypeCorrect == Spec => []TypeOK
<1>1. TypeInv => TypeOK
  BY DEF TypeInv
<1> QED
  BY <1>1, TypeInit, TypeStep, PTL DEF Spec

(***************************************************************************)
(* Slots.  SlotsExclusive alone is not inductive: Destroy deletes by slot  *)
(* number, so its target must still be registered when it does, and        *)
(* reconcile trusts the disk, so two meta.json files must never name one   *)
(* slot.                                                                   *)
(***************************************************************************)
DestroyTargets ==
  \A d \in Destroyers : IF dpc[d] = "idle" THEN dvm[d] = None ELSE dvm[d] \in vms

DestroysDistinct ==
  \A d, e \in Destroyers : (dvm[d] = dvm[e] /\ dvm[d] # None) => d = e

RemovedFirst ==
  \A d \in Destroyers : dpc[d] = "unmap" => disk[dvm[d]] # "meta"

DiskExclusive ==
  ~up => \A i, j \in VMs :
           (disk[i] = "meta" /\ disk[j] = "meta" /\ slot[i] = slot[j]) => i = j

DownIsEmpty ==
  ~up => /\ vms = {}
         /\ \A id \in VMs : ~Creating(id)
         /\ \A d \in Destroyers : dpc[d] = "idle"

Phases ==
  \A id \in VMs : /\ id \in vms => cpc[id] \in {"done", "lost"}
                  /\ disk[id] = "meta" => cpc[id] \in {"register", "done", "lost"}

SlotInv ==
  /\ SlotsExclusive
  /\ DestroyTargets
  /\ DestroysDistinct
  /\ RemovedFirst
  /\ DiskTracksMemory
  /\ DiskExclusive
  /\ DownIsEmpty
  /\ Phases

\* What the slot theorems assume of the environment: Destroys of one VM do not
\* overlap, and a destroyed VM's directory is really removed.
SerialDestroys == "destroy" \notin Overlap /\ "rmdir" \notin Faults

LEMMA SlotInit == Init => SlotInv
BY DEF Init, BackendInit, SlotInv, SlotsExclusive, Holder, DestroyTargets, DestroysDistinct,
       RemovedFirst, DiskTracksMemory, DiskExclusive, DownIsEmpty, Phases, None

LEMMA NoneIsNoVM == None \notin VMs
BY BackendAssumption, SMTT(30) DEF None

LEMMA SlotCreate ==
  ASSUME TypeInv, SlotInv, SerialDestroys, NEW id \in VMs,
         (\E size \in Sizes : CreateAdmit(id, size)) \/ CreateStep(id)
  PROVE  SlotInv'
<1> USE NoneIsNoVM DEF TypeInv, TypeOK, BackendTypeOK, SlotInv, SlotsExclusive, Holder,
        DestroyTargets, DestroysDistinct, RemovedFirst, DiskTracksMemory, DiskExclusive, DownIsEmpty,
        Phases, Creating
<1>1. ASSUME NEW size \in Sizes, CreateAdmit(id, size) PROVE SlotInv'
  <2>1. PICK s \in Slots : /\ slots[s] = None
                           /\ slot' = [slot EXCEPT ![id] = s]
                           /\ slots' = [slots EXCEPT ![s] = id]
    BY <1>1, Zenon DEF CreateAdmit, freeSlot, reserve
  <2>2. cpc[id] = "none"
    BY <1>1 DEF CreateAdmit, newVMID
  <2> QED
    BY <1>1, <2>1, <2>2 DEF CreateAdmit, destroyVars, agentVars
<1>2. CASE PrepareRootfs(id)
  BY <1>2 DEF PrepareRootfs, destroyVars, agentVars
<1>3. CASE PrepareRootfsFails(id)
  BY <1>3 DEF PrepareRootfsFails, releaseSlot, backendVars, destroyVars, agentVars
<1>4. CASE Boot(id)
  BY <1>4 DEF Boot, managerVars, createVars, destroyVars, agentVars
<1>5. CASE BootFailed(id)
  BY <1>5 DEF BootFailed, releaseSlot, backendVars, destroyVars, agentVars
<1>6. CASE CreateRmDir(id)
  BY <1>6 DEF CreateRmDir, removeVMDir, backendVars, destroyVars, agentVars
<1>7. CASE Persist(id)
  BY <1>7 DEF Persist, persist, backendVars, destroyVars, agentVars
<1>8. CASE Register(id)
  BY <1>8, SMTT(30) DEF Register, backendVars, destroyVars, agentVars
<1> QED
  BY <1>1, <1>2, <1>3, <1>4, <1>5, <1>6, <1>7, <1>8, Zenon DEF CreateStep

LEMMA SlotDestroy ==
  ASSUME TypeInv, SlotInv, SerialDestroys, NEW d \in Destroyers,
         (\E id \in VMs : Lookup(d, id)) \/ DestroyStep(d)
  PROVE  SlotInv'
<1> USE NoneIsNoVM DEF TypeInv, TypeOK, BackendTypeOK, SlotInv, SlotsExclusive, Holder,
        DestroyTargets, DestroysDistinct, RemovedFirst, DiskTracksMemory, DiskExclusive, DownIsEmpty,
        Phases, Creating
<1>1. ASSUME NEW id \in VMs, Lookup(d, id) PROVE SlotInv'
  BY <1>1 DEF Lookup, SerialDestroys, backendVars, createVars, agentVars
<1>2. CASE DestroyStop(d)
  BY <1>2 DEF DestroyStop, return, createVars, agentVars
<1>3. CASE DestroyTeardown(d)
  BY <1>3 DEF DestroyTeardown, createVars, agentVars
<1>4. CASE DestroyRmDir(d)
  BY <1>4 DEF DestroyRmDir, removeVMDir, SerialDestroys, backendVars, createVars, agentVars
<1>5. CASE DestroyUnmap(d)
  BY <1>5, SMTT(30) DEF DestroyUnmap, releaseSlot, return, backendVars, createVars, agentVars
<1> QED
  BY <1>1, <1>2, <1>3, <1>4, <1>5, Zenon DEF DestroyStep

LEMMA SlotOther ==
  ASSUME TypeInv, SlotInv,
         \/ \E id \in VMs : Expire(id) \/ Exits(id)
         \/ ReapExpired \/ Down \/ reconcile \/ UNCHANGED vars
         \/ UNCHANGED <<backendVars, vms, slots, createVars, disk, dpc, dvm, overdue, agentVars>>
  PROVE  SlotInv'
<1> USE NoneIsNoVM DEF TypeInv, TypeOK, BackendTypeOK, SlotInv, SlotsExclusive, Holder,
        DestroyTargets, DestroysDistinct, RemovedFirst, DiskTracksMemory, DiskExclusive,
        DownIsEmpty, Phases, Creating
<1>1. CASE \/ \E id \in VMs : Expire(id) \/ Exits(id)
           \/ ReapExpired \/ UNCHANGED vars
           \/ UNCHANGED <<backendVars, vms, slots, createVars, disk, dpc, dvm, overdue, agentVars>>
  <2>1. UNCHANGED <<slot, vms, slots, cpc, disk, dpc, dvm, up>>
    BY <1>1, Zenon DEF Expire, Exits, ReapExpired, vars, backendVars, managerVars, createVars,
                destroyVars, agentVars
  <2> QED
    BY <2>1, SMTT(30)
<1>2. CASE Down
  <2>1. /\ DiskExclusive'
        /\ \A id \in VMs : ~Holder(id)'
    BY <1>2 DEF Down
  <2> QED
    BY <1>2, <2>1 DEF Down
<1>3. CASE reconcile
  <2>1. ASSUME NEW id \in VMs, Holder(id)' PROVE (slots[slot[id]] = id)'
    <3>1. disk[id] = "meta" /\ slot' = slot
      BY <1>3, <2>1 DEF reconcile, restored, createVars, backendVars
    <3>2. id \in onDisk(slot[id]) /\ lastRead(slot[id], slots'[slot[id]])
      BY <1>3, <3>1, SMTT(30) DEF reconcile, restored, onDisk
    <3>3. slots'[slot[id]] \in onDisk(slot[id])
      BY <3>2, Zenon DEF lastRead
    <3> QED
      BY <1>3, <3>1, <3>3, SMTT(30) DEF reconcile, restored, onDisk
  <2> QED
    BY <1>3, <2>1 DEF reconcile, restored, createVars, destroyVars, backendVars
<1> QED
  BY <1>1, <1>2, <1>3, Zenon

LEMMA SlotStep == TypeInv /\ SlotInv /\ SerialDestroys /\ [Next]_vars => SlotInv'
<1> SUFFICES ASSUME TypeInv, SlotInv, SerialDestroys, [Next]_vars PROVE SlotInv'
  OBVIOUS
<1>1. ASSUME NEW id \in VMs, NEW size \in Sizes, CreateAdmit(id, size) PROVE SlotInv'
  BY <1>1, SlotCreate
<1>2. ASSUME NEW id \in VMs, CreateStep(id) PROVE SlotInv'
  BY <1>2, SlotCreate
<1>3. ASSUME NEW d \in Deleters, NEW id \in VMs, Delete(d, id) PROVE SlotInv'
  BY <1>3, SlotDestroy DEF Delete, Destroyers
<1>4. ASSUME NEW d \in Destroyers, DestroyStep(d) PROVE SlotInv'
  BY <1>4, SlotDestroy
<1>5. ASSUME NEW id \in VMs, ReapNext(id) PROVE SlotInv'
  BY <1>5, SlotDestroy, SlotOther DEF ReapNext, Destroyers
<1>6. ASSUME NEW id \in VMs, Expire(id) \/ Exits(id) PROVE SlotInv'
  BY <1>6, SlotOther
<1>7. CASE ReapExpired \/ Down \/ reconcile \/ UNCHANGED vars
  BY <1>7, SlotOther
<1> QED
  BY <1>1, <1>2, <1>3, <1>4, <1>5, <1>6, <1>7 DEF Next

\* However Creates, deletes, the reaper, failures, crashes and restarts
\* interleave, no two VMs hold one slot and no meta.json outlives its VM,
\* provided Destroys of one VM do not overlap and removeVMDir works.
THEOREM SlotSafety ==
  ASSUME SerialDestroys
  PROVE  Spec => [](SlotsExclusive /\ DiskTracksMemory)
<1>1. Init => TypeInv /\ SlotInv
  BY TypeInit, SlotInit
<1>2. TypeInv /\ SlotInv /\ [Next]_vars => (TypeInv /\ SlotInv)'
  BY TypeStep, SlotStep
<1>3. SlotInv => SlotsExclusive /\ DiskTracksMemory
  BY DEF SlotInv
<1> QED
  BY <1>1, <1>2, <1>3, PTL DEF Spec

(***************************************************************************)
(* Stop.                                                                   *)
(***************************************************************************)
PidIsOwn == \A id \in VMs : pid[id] \in {id, None}

\* As long as the kernel recycles no PID, Stop signals only the VM being
\* destroyed, overlapping Destroys, restarts and reboots included.
THEOREM StopSafety ==
  ASSUME "recycle" \notin Faults
  PROVE  Spec => StopHitsOwnVM
<1> DEFINE A == \A id \in VMs : (vmm[id] = "running" /\ vmm'[id] = "signalled") =>
                  (bpc'[id] = "failing" \/ \E d \in Destroyers : dvm[d] = id)
<1>1. Init => PidIsOwn
  BY SMTT(30) DEF Init, BackendInit, PidIsOwn
<1>2. TypeInv /\ PidIsOwn /\ [Next]_vars => PidIsOwn' /\ A
  <2> SUFFICES ASSUME TypeInv, PidIsOwn, [Next]_vars PROVE PidIsOwn' /\ A
    OBVIOUS
  <2> USE DEF TypeInv, TypeOK, BackendTypeOK, PidIsOwn
  <2>1. CASE UNCHANGED <<vmm, pid>>
    BY <2>1
  <2>2. ASSUME NEW id \in VMs, Boot(id) PROVE PidIsOwn' /\ A
    <3>1. PidChoices(id) \subseteq {id, None}
      BY DEF PidChoices
    <3> QED
      BY <2>1, <2>2, <3>1 DEF Boot, BootStep, BootTap, BootRefused, BootAbort, BootAbortLeak,
            BootStart, BootReady, BootNotReady, Signal
  <2>3. ASSUME NEW d \in Destroyers, DestroyStop(d) PROVE PidIsOwn' /\ A
    <3>1. dvm[d] \in VMs /\ pid' = pid
      BY <2>3 DEF DestroyStop, Stop, StopHandle, StopPid, StopFails, BusyHasVM
    <3>2. \A id \in VMs : (vmm[id] = "running" /\ vmm'[id] = "signalled") => id = dvm[d]
      BY <2>3, <3>1 DEF DestroyStop, Stop, StopHandle, StopPid, StopFails, Signal
    <3> QED
      BY <3>1, <3>2
  <2>4. ASSUME NEW id \in VMs, Exits(id) PROVE PidIsOwn' /\ A
    BY <2>4 DEF Exits, VmmExit
  <2>5. CASE Down
    BY <2>5 DEF Down, AgentExit, HostReboot
  <2> QED
    BY <2>1, <2>2, <2>3, <2>4, <2>5, Zenon
       DEF Next, CreateAdmit, CreateStep, PrepareRootfs, BootCall, PrepareRootfsFails, BootFailed,
           CreateRmDir, Persist, Register, Delete, Lookup, DestroyStep, DestroyTeardown, Teardown,
           DestroyRmDir, DestroyUnmap, Expire, ReapExpired, ReapNext, reconcile, vars, backendVars
<1>3. Spec => [][A]_vars
  BY <1>1, <1>2, TypeInit, TypeStep, PTL DEF Spec
<1> QED
  BY <1>3 DEF StopHitsOwnVM

(***************************************************************************)
(* Calls of Boot.  Which are open, or succeeded, follows from where each   *)
(* Create is and from what is registered or on disk.                       *)
(***************************************************************************)
CallPhases ==
  \A id \in VMs :
    /\ cpc[id] \in {"none", "rootfs"} => bpc[id] = "idle"
    /\ Booting(id) => cpc[id] = "boot"
    /\ (cpc[id] = "register" \/ id \in vms \/ disk[id] = "meta") => bpc[id] = "ok"

LEMMA CallInit == Init => CallPhases
BY DEF Init, BackendInit, CallPhases, Booting

LEMMA BootMoves ==
  ASSUME TypeInv, NEW id \in VMs, Boot(id)
  PROVE  /\ cpc[id] = "boot" /\ UNCHANGED <<slot, managerVars>>
         /\ bpc' = [bpc EXCEPT ![id] = bpc'[id]]
         /\ Booting(id)
<1> USE DEF TypeInv, TypeOK, BackendTypeOK
<1>1. cpc[id] = "boot" /\ UNCHANGED <<slot, managerVars>> /\ BootStep(id)
  BY DEF Boot
<1>2. (\E b : bpc' = [bpc EXCEPT ![id] = b]) /\ Booting(id)
  BY <1>1, Zenon DEF BootStep, BootTap, BootRefused, BootAbort, BootAbortLeak, BootStart, BootReady,
     BootNotReady, Booting
<1> QED
  BY <1>1, <1>2

LEMMA DownEffect ==
  ASSUME Down
  PROVE  /\ \A id \in VMs : /\ bpc'[id] = IF Booting(id) THEN "lost" ELSE bpc[id]
                            /\ cpc'[id] = IF Creating(id) THEN "lost" ELSE cpc[id]
         /\ machines' = {} /\ up /\ ~up' /\ disk' = disk /\ vms' = {} /\ slot' = slot
<1>1. /\ Forget({}) /\ up /\ up' = FALSE /\ disk' = disk /\ vms' = {} /\ slot' = slot
      /\ cpc' = [id \in VMs |-> IF Creating(id) THEN "lost" ELSE cpc[id]]
  BY Zenon DEF Down, AgentExit, HostReboot
<1> QED
  BY <1>1, Zenon DEF Forget

LEMMA CallStep ==
  ASSUME TypeInv, SlotInv, CallPhases, [Next]_vars
  PROVE  CallPhases'
<1> USE DEF TypeInv, TypeOK, BackendTypeOK, CallPhases, Booting
<1>1. ASSUME NEW id \in VMs, NEW size \in Sizes, CreateAdmit(id, size) PROVE CallPhases'
  BY <1>1 DEF CreateAdmit, newVMID
<1>2. ASSUME NEW id \in VMs, PrepareRootfs(id) PROVE CallPhases'
  BY <1>2 DEF PrepareRootfs, BootCall, SlotInv, Phases
<1>3. ASSUME NEW id \in VMs, PrepareRootfsFails(id) PROVE CallPhases'
  BY <1>3 DEF PrepareRootfsFails, backendVars
<1>4. ASSUME NEW id \in VMs, Boot(id) PROVE CallPhases'
  <2>1. UNCHANGED <<cpc, vms, disk>> /\ cpc[id] = "boot"
    BY <1>4 DEF Boot, managerVars, createVars
  <2>2. \A j \in VMs \ {id} : bpc'[j] = bpc[j]
    BY <1>4, BootMoves
  <2>3. id \notin vms /\ disk[id] # "meta"
    BY <2>1 DEF SlotInv, Phases
  <2> QED
    BY <2>1, <2>2, <2>3
<1>5. ASSUME NEW id \in VMs, BootFailed(id) \/ CreateRmDir(id) PROVE CallPhases'
  BY <1>5 DEF BootFailed, CreateRmDir, removeVMDir, backendVars
<1>6. ASSUME NEW id \in VMs, Persist(id) \/ Register(id) PROVE CallPhases'
  BY <1>6 DEF Persist, persist, Register, backendVars
<1>7. ASSUME NEW d \in Destroyers, DestroyStep(d) PROVE CallPhases'
  <2>1. UNCHANGED <<bpc, cpc>> /\ vms' \subseteq vms
    BY <1>7, Zenon DEF DestroyStep, DestroyStop, Stop, StopHandle, StopPid, StopFails, DestroyTeardown,
       Teardown, DestroyRmDir, DestroyUnmap, backendVars, createVars
  <2>2. disk' = disk \/ \E id : disk' = [disk EXCEPT ![id] = "none"]
    BY <1>7, Zenon DEF DestroyStep, DestroyStop, DestroyTeardown, DestroyRmDir, DestroyUnmap, removeVMDir
  <2> QED
    BY <2>1, <2>2
<1>8. CASE Down
  <2>1. \A id \in VMs : /\ bpc'[id] = IF Booting(id) THEN "lost" ELSE bpc[id]
                        /\ cpc'[id] = IF Creating(id) THEN "lost" ELSE cpc[id]
                        /\ disk'[id] = disk[id] /\ id \notin vms'
    BY <1>8, DownEffect, Zenon
  <2> QED
    BY <2>1 DEF Creating
<1>9. CASE reconcile
  BY <1>9 DEF reconcile, restored, backendVars, createVars
<1>10. CASE UNCHANGED <<bpc, cpc, vms, disk>>
  BY <1>10
<1> QED
  BY <1>1, <1>2, <1>3, <1>4, <1>5, <1>6, <1>7, <1>8, <1>9, <1>10, Zenon
     DEF Next, CreateStep, Delete, Lookup, Expire, ReapExpired, ReapNext, Exits, VmmExit, vars,
         backendVars, managerVars, createVars
=============================================================================
