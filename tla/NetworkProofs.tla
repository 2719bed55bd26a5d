--------------------------- MODULE NetworkProofs ----------------------------
(***************************************************************************)
(* The networks of the VMs and the tunnels into them, for every number of  *)
(* VMs, slots, requests, tunnels and restarts.                             *)
(***************************************************************************)
EXTENDS AgentTunnels, VMManagerProofs

\* What the steps below need of the types and of SlotInv.
Used ==
  /\ slot \in [VMs -> Slots]
  /\ tap \in [Slots -> VMs \cup {None}]
  /\ vmm \in [VMs -> {"none", "running", "signalled", "exited"}]
  /\ pid \in [VMs -> VMs \cup {None}]
  /\ bpc \in [VMs -> {"idle", "called", "tapped", "started", "failing", "ok", "err", "lost", "gone"}]
  /\ cpc \in [VMs -> {"none", "rootfs", "boot", "register", "rmdir", "done", "failed", "lost"}]
  /\ disk \in [VMs -> {"none", "dir", "meta"}]
  /\ dpc \in [Destroyers -> {"idle", "stop", "teardown", "rmdir", "unmap"}]
  /\ dvm \in [Destroyers -> VMs \cup {None}]
  /\ vms \subseteq VMs
  /\ up \in BOOLEAN
  /\ DestroyTargets /\ DestroysDistinct /\ Phases /\ DownIsEmpty
  /\ SlotsExclusive /\ DiskTracksMemory

LEMMA UsedHolds == TypeInv /\ SlotInv => Used
BY DEF TypeInv, TypeOK, BackendTypeOK, SlotInv, Used

(***************************************************************************)
(* Networks.  A tap device is deleted by name, so a VM keeps its own only  *)
(* if whoever deletes it is that VM's Boot, or a Destroy of the VM that    *)
(* holds the slot.  A Destroy must have stopped the VMM by then.           *)
(***************************************************************************)
BootPhases ==
  \A id \in VMs :
    /\ cpc[id] \in {"none", "rootfs"} => bpc[id] = "idle"
    /\ Booting(id) => cpc[id] = "boot"
    /\ cpc[id] \in {"register", "done"} => bpc[id] = "ok"
    /\ cpc[id] = "boot" => bpc[id] \notin {"idle", "lost"}
    /\ bpc[id] \in {"idle", "called", "tapped", "failing", "err"} => vmm[id] # "running"

BootOwnsTap ==
  \A id \in VMs : bpc[id] \in {"tapped", "started", "failing"} => tap[slot[id]] = id

RunsOnOwnTap ==
  \A id \in VMs : ((Holder(id) \/ disk[id] = "meta") /\ vmm[id] = "running")
                    => tap[slot[id]] = id

StoppedFirst ==
  \A d \in Destroyers : dpc[d] \in {"teardown", "rmdir", "unmap"} => vmm[dvm[d]] # "running"

RunningHasPid == \A id \in VMs : vmm[id] = "running" => pid[id] # None

NetInv ==
  /\ BootPhases
  /\ BootOwnsTap
  /\ RunsOnOwnTap
  /\ StoppedFirst
  /\ RunningHasPid

\* Besides, every VMM's PID is known.
PidsKnown == SerialDestroys /\ "pid" \notin Faults

LEMMA NetInit == Init => NetInv
BY DEF Init, BackendInit, NetInv, BootPhases, Booting, BootOwnsTap, RunsOnOwnTap,
       StoppedFirst, RunningHasPid, None

LEMMA NetCreate ==
  ASSUME Used, NetInv, PidsKnown, NEW id \in VMs,
         (\E size \in Sizes : CreateAdmit(id, size)) \/ CreateStep(id)
  PROVE  NetInv'
<1> USE NoneIsNoVM DEF Used, NetInv, BootPhases, Booting,
        BootOwnsTap, RunsOnOwnTap, StoppedFirst, RunningHasPid, Holder
<1> USE DEF DestroyTargets, Phases
<1>1. ASSUME NEW size \in Sizes, CreateAdmit(id, size) PROVE NetInv'
  <2>1. PICK s \in Slots : slot' = [slot EXCEPT ![id] = s]
    BY <1>1, Zenon DEF CreateAdmit, reserve
  <2>2. cpc[id] = "none"
    BY <1>1 DEF CreateAdmit, newVMID
  <2> QED
    BY <1>1, <2>1, <2>2 DEF CreateAdmit, destroyVars, agentVars
<1>2. CASE PrepareRootfs(id)
  BY <1>2 DEF PrepareRootfs, BootCall, destroyVars, agentVars
<1>3. CASE PrepareRootfsFails(id)
  BY <1>3, SMTT(30) DEF PrepareRootfsFails, backendVars, destroyVars, agentVars
<1>4. CASE Boot(id)
  <2>1. UNCHANGED <<slot, vms, cpc, disk, dpc, dvm>>
    BY <1>4 DEF Boot, managerVars, createVars, destroyVars
  <2>2. cpc[id] = "boot" /\ id \notin vms /\ disk[id] # "meta"
    BY <1>4 DEF Boot
  <2>3. CASE BootTap(id)
    BY <2>1, <2>2, <2>3 DEF BootTap
  <2>4. CASE BootRefused(id)
    BY <2>1, <2>2, <2>4 DEF BootRefused
  <2>5. CASE BootAbort(id)
    BY <2>1, <2>2, <2>5 DEF BootAbort
  <2>6. CASE BootAbortLeak(id)
    BY <2>1, <2>2, <2>6 DEF BootAbortLeak
  <2>7. CASE BootStart(id)
    <3>1. PICK p \in PidChoices(id) : pid' = [pid EXCEPT ![id] = p]
      BY <2>7, Zenon DEF BootStart
    <3>2. p # None
      BY <3>1 DEF PidChoices, PidsKnown
    <3> QED
      BY <2>1, <2>2, <2>7, <3>1, <3>2 DEF BootStart
  <2>8. CASE BootReady(id)
    BY <2>1, <2>2, <2>8 DEF BootReady
  <2>9. CASE BootNotReady(id)
    BY <2>1, <2>2, <2>9 DEF BootNotReady, Signal
  <2> QED
    BY <1>4, <2>3, <2>4, <2>5, <2>6, <2>7, <2>8, <2>9, Zenon DEF Boot, BootStep
<1>5. CASE BootFailed(id)
  BY <1>5 DEF BootFailed, backendVars, destroyVars, agentVars
<1>6. CASE CreateRmDir(id)
  BY <1>6 DEF CreateRmDir, removeVMDir, backendVars, destroyVars, agentVars
<1>7. CASE Persist(id)
  BY <1>7 DEF Persist, persist, backendVars, destroyVars, agentVars
<1>8. CASE Register(id)
  BY <1>8, SMTT(30) DEF Register, backendVars, destroyVars, agentVars
<1> QED
  BY <1>1, <1>2, <1>3, <1>4, <1>5, <1>6, <1>7, <1>8, Zenon DEF CreateStep

LEMMA NetDestroy ==
  ASSUME Used, NetInv, NEW d \in Destroyers,
         (\E id \in VMs : Lookup(d, id)) \/ DestroyStep(d)
  PROVE  NetInv'
<1> USE NoneIsNoVM DEF Used, NetInv, BootPhases, Booting,
        BootOwnsTap, RunsOnOwnTap, StoppedFirst, RunningHasPid, Holder,
        DestroyTargets, DestroysDistinct, Phases, DownIsEmpty
<1>1. ASSUME NEW id \in VMs, Lookup(d, id) PROVE NetInv'
  BY <1>1, SMTT(30) DEF Lookup, backendVars, createVars, agentVars
<1>2. CASE DestroyStop(d)
  <2>1. CASE StopHandle(dvm[d])
    BY <1>2, <2>1 DEF DestroyStop, return, StopHandle, Signal, createVars, agentVars
  <2>2. CASE StopPid(dvm[d])
    BY <1>2, <2>2 DEF DestroyStop, return, StopPid, Signal, createVars, agentVars
  <2>3. CASE StopFails(dvm[d])
    BY <1>2, <2>3 DEF DestroyStop, return, StopFails, Stop, StopHandle, StopPid, Signal,
                      createVars, agentVars
  <2> QED
    BY <1>2, <2>1, <2>2, <2>3, Zenon DEF DestroyStop, Stop
<1>3. CASE DestroyTeardown(d)
  <2> DEFINE v == dvm[d]
  <2>1. v \in vms /\ vmm[v] # "running" /\ up
    BY <1>3 DEF DestroyTeardown
  <2>2. ASSUME NEW id \in VMs, id # v, Holder(id) \/ disk[id] = "meta" PROVE slot[id] # slot[v]
    BY <2>1, <2>2 DEF SlotsExclusive, DiskTracksMemory
  <2>3. ASSUME NEW id \in VMs, bpc[id] \in {"tapped", "started", "failing"}
        PROVE  id # v /\ Holder(id)
    BY <2>1, <2>3
  <2> QED
    BY <1>3, <2>1, <2>2, <2>3 DEF DestroyTeardown, Teardown, createVars, agentVars
<1>4. CASE DestroyRmDir(d)
  BY <1>4 DEF DestroyRmDir, removeVMDir, backendVars, createVars, agentVars
<1>5. CASE DestroyUnmap(d)
  BY <1>5, SMTT(30) DEF DestroyUnmap, return, backendVars, createVars, agentVars
<1> QED
  BY <1>1, <1>2, <1>3, <1>4, <1>5, Zenon DEF DestroyStep

LEMMA NetOther ==
  ASSUME Used, NetInv,
         \/ \E id \in VMs : Expire(id) \/ Exits(id)
         \/ ReapExpired \/ Down \/ reconcile \/ UNCHANGED vars
         \/ UNCHANGED <<backendVars, vms, slots, createVars, disk, dpc, dvm, overdue, agentVars>>
  PROVE  NetInv'
<1> USE NoneIsNoVM DEF Used, NetInv, BootPhases, Booting,
        BootOwnsTap, RunsOnOwnTap, StoppedFirst, RunningHasPid, Holder,
        DestroyTargets, DownIsEmpty, Phases
<1>1. CASE \/ \E id \in VMs : Expire(id)
           \/ ReapExpired \/ UNCHANGED vars
           \/ UNCHANGED <<backendVars, vms, slots, createVars, disk, dpc, dvm, overdue, agentVars>>
  <2>1. UNCHANGED <<slot, tap, vmm, pid, bpc, vms, cpc, disk, dpc, dvm>>
    BY <1>1, Zenon DEF Expire, ReapExpired, vars, backendVars, managerVars, createVars, destroyVars
  <2> QED
    BY <2>1, SMTT(30)
<1>2. ASSUME NEW id \in VMs, Exits(id) PROVE NetInv'
  BY <1>2, SMTT(30) DEF Exits, VmmExit, managerVars, createVars, destroyVars, agentVars
<1>3. CASE Down
  <2>1. \A id \in VMs : (disk[id] = "meta" /\ vmm'[id] = "running") => (tap[slot[id]])' = id
    BY <1>3 DEF Down, AgentExit, HostReboot, Forget, Live
  <2>2. BootPhases'
    BY <1>3 DEF Down, AgentExit, HostReboot, Forget, Live, Creating
  <2>3. BootOwnsTap'
    BY <1>3 DEF Down, AgentExit, HostReboot, Forget
  <2>4. RunsOnOwnTap'
    BY <1>3, <2>1 DEF Down, Creating
  <2>5. StoppedFirst'
    BY <1>3 DEF Down
  <2>6. RunningHasPid'
    BY <1>3 DEF Down, AgentExit, HostReboot, Live
  <2> QED
    BY <2>2, <2>3, <2>4, <2>5, <2>6, Zenon
<1>4. CASE reconcile
  BY <1>4 DEF reconcile, restored, backendVars, createVars, destroyVars
<1> QED
  BY <1>1, <1>2, <1>3, <1>4, Zenon

LEMMA NetStep == TypeInv /\ SlotInv /\ NetInv /\ PidsKnown /\ [Next]_vars => NetInv'
<1> SUFFICES ASSUME TypeInv, SlotInv, NetInv, PidsKnown, [Next]_vars PROVE NetInv'
  OBVIOUS
<1>0. Used
  BY UsedHolds
<1>1. ASSUME NEW id \in VMs, NEW size \in Sizes, CreateAdmit(id, size) PROVE NetInv'
  BY <1>0, <1>1, NetCreate
<1>2. ASSUME NEW id \in VMs, CreateStep(id) PROVE NetInv'
  BY <1>0, <1>2, NetCreate
<1>3. ASSUME NEW d \in Deleters, NEW id \in VMs, Delete(d, id) PROVE NetInv'
  BY <1>0, <1>3, NetDestroy DEF Delete, Destroyers
<1>4. ASSUME NEW d \in Destroyers, DestroyStep(d) PROVE NetInv'
  BY <1>0, <1>4, NetDestroy
<1>5. ASSUME NEW id \in VMs, ReapNext(id) PROVE NetInv'
  BY <1>0, <1>5, NetDestroy, NetOther DEF ReapNext, Destroyers
<1>6. ASSUME NEW id \in VMs, Expire(id) \/ Exits(id) PROVE NetInv'
  BY <1>0, <1>6, NetOther
<1>7. CASE ReapExpired \/ Down \/ reconcile \/ UNCHANGED vars
  BY <1>0, <1>7, NetOther
<1> QED
  BY <1>1, <1>2, <1>3, <1>4, <1>5, <1>6, <1>7 DEF Next

\* A registered VM that runs keeps its tap device until its own Destroy, whatever
\* other Creates fail and other VMs are destroyed, across restarts; this needs
\* serial Destroys, directories that are removed, and known PIDs.
THEOREM NetworkSafety ==
  ASSUME PidsKnown
  PROVE  Spec => []OwnNetwork
<1>1. Init => TypeInv /\ SlotInv /\ NetInv
  BY TypeInit, SlotInit, NetInit
<1>2. TypeInv /\ SlotInv /\ NetInv /\ [Next]_vars => (TypeInv /\ SlotInv /\ NetInv)'
  BY TypeStep, SlotStep, NetStep DEF PidsKnown
<1>3. TypeInv /\ NetInv => OwnNetwork
  BY DEF TypeInv, TypeOK, NetInv, RunsOnOwnTap, Holder, OwnNetwork
<1> QED
  BY <1>1, <1>2, <1>3, PTL DEF Spec

(***************************************************************************)
(* Tunnels.  A port tunnel dials an address it looked up earlier.  It      *)
(* still reaches the VM it names because a VM keeps its slot for life, and *)
(* because the device of a slot is the slot holder's or nobody's: a Boot   *)
(* that finds a device already there never succeeds.                       *)
(***************************************************************************)
Stages ==
  \A id \in VMs : /\ cpc[id] \in {"none", "rootfs"} => bpc[id] = "idle"
                  /\ Booting(id) => cpc[id] = "boot"

BootHasTap ==
  \A id \in VMs : bpc[id] \in {"tapped", "started", "failing"} => tap[slot[id]] = id

\* The VM's Boot has succeeded and its slot is not given back.
Settled(id) ==
  id \in vms \/ cpc[id] = "register" \/ (cpc[id] = "boot" /\ bpc[id] = "ok") \/ disk[id] = "meta"

LinkIsOwn == \A id \in VMs : Settled(id) => tap[slot[id]] \in {id, None}

TapInv == Stages /\ BootHasTap /\ LinkIsOwn

LEMMA TapInit == Init => TapInv
BY DEF Init, BackendInit, TapInv, Stages, Booting, BootHasTap, LinkIsOwn, Settled

\* Two VMs that have reached their Boot, or whose meta.json is there, have
\* different slots while the agent runs.
LEMMA SlotsDiffer ==
  ASSUME TypeInv, SlotInv, up, NEW i \in VMs, NEW j \in VMs, i # j,
         Holder(i), Holder(j) \/ disk[j] = "meta"
  PROVE  slot[i] # slot[j]
BY DEF SlotInv, SlotsExclusive, DiskTracksMemory, Holder

LEMMA TapCreate ==
  ASSUME TypeInv, SlotInv, TapInv, NEW id \in VMs,
         (\E size \in Sizes : CreateAdmit(id, size)) \/ CreateStep(id)
  PROVE  TapInv'
<1> USE NoneIsNoVM DEF TypeInv, TypeOK, BackendTypeOK, TapInv, Stages, Booting, BootHasTap,
        LinkIsOwn, Settled
<1>1. ASSUME NEW size \in Sizes, CreateAdmit(id, size) PROVE TapInv'
  <2>1. PICK s \in Slots : slot' = [slot EXCEPT ![id] = s]
    BY <1>1, Zenon DEF CreateAdmit, reserve
  <2>2. cpc[id] = "none" /\ id \notin vms /\ disk[id] # "meta"
    BY <1>1 DEF CreateAdmit, newVMID, SlotInv, Phases
  <2> QED
    BY <1>1, <2>1, <2>2 DEF CreateAdmit
<1>2. CASE PrepareRootfs(id)
  BY <1>2 DEF PrepareRootfs, BootCall
<1>3. CASE PrepareRootfsFails(id)
  BY <1>3, SMTT(30) DEF PrepareRootfsFails, backendVars
<1>4. CASE Boot(id)
  <2>1. UNCHANGED <<slot, vms, cpc, disk>>
    BY <1>4 DEF Boot, managerVars, createVars
  <2>2. cpc[id] = "boot" /\ id \notin vms /\ disk[id] # "meta" /\ up
    BY <1>4 DEF Boot, SlotInv, Phases, DownIsEmpty, Creating
  <2>3. \A j \in VMs : (j # id /\ (Settled(j) \/ Booting(j))) => slot[j] # slot[id]
    <3> SUFFICES ASSUME NEW j \in VMs, j # id, Settled(j) \/ Booting(j) PROVE slot[j] # slot[id]
      OBVIOUS
    <3>1. Holder(id) /\ (Holder(j) \/ disk[j] = "meta")
      BY <2>2 DEF Holder
    <3> QED
      BY <2>2, <3>1, SlotsDiffer
  <2>4. CASE BootTap(id)
    BY <2>1, <2>2, <2>3, <2>4 DEF BootTap
  <2>5. CASE BootRefused(id)
    BY <2>1, <2>2, <2>5 DEF BootRefused
  <2>6. CASE BootAbort(id)
    BY <2>1, <2>2, <2>3, <2>6 DEF BootAbort
  <2>7. CASE BootAbortLeak(id)
    BY <2>1, <2>2, <2>7 DEF BootAbortLeak
  <2>8. CASE BootStart(id)
    BY <2>1, <2>2, <2>8 DEF BootStart
  <2>9. CASE BootReady(id)
    BY <2>1, <2>2, <2>9 DEF BootReady
  <2>10. CASE BootNotReady(id)
    BY <2>1, <2>2, <2>10 DEF BootNotReady
  <2> QED
    BY <1>4, <2>4, <2>5, <2>6, <2>7, <2>8, <2>9, <2>10, Zenon DEF Boot, BootStep
<1>5. CASE BootFailed(id)
  BY <1>5 DEF BootFailed, backendVars
<1>6. CASE CreateRmDir(id)
  BY <1>6 DEF CreateRmDir, removeVMDir, backendVars
<1>7. CASE Persist(id)
  BY <1>7 DEF Persist, persist, backendVars
<1>8. CASE Register(id)
  BY <1>8, SMTT(30) DEF Register, backendVars
<1> QED
  BY <1>1, <1>2, <1>3, <1>4, <1>5, <1>6, <1>7, <1>8, Zenon DEF CreateStep

LEMMA TapStep ==
  ASSUME TypeInv, SlotInv, TapInv, [Next]_vars
  PROVE  TapInv'
<1>1. ASSUME NEW id \in VMs, NEW size \in Sizes, CreateAdmit(id, size) PROVE TapInv'
  BY <1>1, TapCreate
<1>2. ASSUME NEW id \in VMs, CreateStep(id) PROVE TapInv'
  BY <1>2, TapCreate
<1> USE NoneIsNoVM DEF TypeInv, TypeOK, BackendTypeOK, TapInv, Stages, Booting, BootHasTap,
        LinkIsOwn, Settled
<1>3. ASSUME NEW d \in Destroyers, DestroyTeardown(d) PROVE TapInv'
  <2> DEFINE v == dvm[d]
  <2>1. v \in vms /\ v \in VMs /\ cpc[v] # "boot" /\ up
    BY <1>3 DEF DestroyTeardown, SlotInv, DestroyTargets, Phases, DownIsEmpty
  <2>2. \A j \in VMs : Booting(j) => slot[j] # slot[v]
    BY <2>1, SlotsDiffer DEF Holder
  <2> QED
    BY <1>3, <2>1, <2>2 DEF DestroyTeardown, Teardown, createVars
<1>4. ASSUME NEW d \in Destroyers, DestroyRmDir(d) PROVE TapInv'
  BY <1>4 DEF DestroyRmDir, removeVMDir, backendVars, createVars
<1>5. ASSUME NEW d \in Destroyers, DestroyUnmap(d) PROVE TapInv'
  BY <1>5, SMTT(30) DEF DestroyUnmap, backendVars, createVars
<1>6. CASE \/ \E id \in VMs : Expire(id) \/ Exits(id) \/ ReapNext(id)
           \/ \E d \in Deleters, id \in VMs : Delete(d, id)
           \/ \E d \in Destroyers : DestroyStop(d)
           \/ ReapExpired \/ UNCHANGED vars
  <2>1. UNCHANGED <<slot, tap, bpc, vms, cpc, disk>>
    BY <1>6, Zenon DEF Expire, Exits, VmmExit, ReapNext, Lookup, Delete, DestroyStop, Stop,
       StopHandle, StopPid, StopFails, ReapExpired, vars, backendVars, managerVars, createVars
  <2> QED
    BY <2>1, SMTT(30)
<1>7. CASE Down
  BY <1>7 DEF Down, AgentExit, HostReboot, Forget, Creating
<1>8. CASE reconcile
  BY <1>8 DEF reconcile, restored, backendVars, createVars
<1> QED
  BY <1>1, <1>2, <1>3, <1>4, <1>5, <1>6, <1>7, <1>8, Zenon DEF Next, DestroyStep

(***************************************************************************)
(* The tunnel's own state.                                                 *)
(***************************************************************************)
LookupKept == tpc = "found" => tvm \in VMs /\ cpc[tvm] # "none" /\ taddr = slot[tvm]

\* A VM's slot is fixed once its Create has begun.
LEMMA SlotForLife ==
  ASSUME TypeInv, [Next]_vars, NEW id \in VMs, cpc[id] # "none"
  PROVE  cpc'[id] # "none" /\ slot'[id] = slot[id]
<1> USE DEF TypeInv, TypeOK, BackendTypeOK
<1>1. ASSUME NEW j \in VMs, NEW size \in Sizes, CreateAdmit(j, size)
      PROVE  cpc'[id] # "none" /\ slot'[id] = slot[id]
  BY <1>1 DEF CreateAdmit, newVMID, reserve
<1>2. ASSUME NEW j \in VMs, CreateStep(j) PROVE cpc'[id] # "none" /\ slot'[id] = slot[id]
  BY <1>2 DEF CreateStep, PrepareRootfs, PrepareRootfsFails, Boot, BootFailed, CreateRmDir,
              Persist, Register, backendVars, managerVars, createVars
<1>3. CASE \/ \E j \in VMs : Expire(j) \/ Exits(j) \/ ReapNext(j)
           \/ \E d \in Deleters, j \in VMs : Delete(d, j)
           \/ \E d \in Destroyers : DestroyStep(d)
           \/ ReapExpired \/ reconcile \/ UNCHANGED vars
  <2>1. UNCHANGED <<slot, cpc>>
    BY <1>3, Zenon DEF Expire, Exits, ReapNext, Lookup, Delete, DestroyStep, DestroyStop,
       DestroyTeardown, DestroyRmDir, DestroyUnmap, ReapExpired, reconcile, vars, backendVars,
       managerVars, createVars
  <2> QED
    BY <2>1
<1>4. CASE Down
  BY <1>4 DEF Down, Creating
<1> QED
  BY <1>1, <1>2, <1>3, <1>4, Zenon DEF Next

LEMMA LookupStep ==
  ASSUME TypeInv, SlotInv, LookupKept, [AgentNext]_allVars
  PROVE  [Next]_vars /\ LookupKept'
<1>1. CASE ManagerStep
  <2>1. CASE tpc' = "found"
    <3>1. UNCHANGED <<tpc, tvm, taddr>>
      BY <1>1, <2>1 DEF ManagerStep, tunnelVars
    <3> QED
      BY <1>1, <2>1, <3>1, SlotForLife DEF ManagerStep, LookupKept
  <2>2. CASE tpc' # "found"
    BY <1>1, <2>2 DEF ManagerStep, LookupKept
  <2> QED
    BY <2>1, <2>2
<1>2. ASSUME NEW id \in VMs, GuestAddr(id) PROVE [Next]_vars /\ LookupKept'
  <2>1. UNCHANGED vars /\ UNCHANGED <<cpc, slot>>
    BY <1>2, Zenon DEF GuestAddr, vars, backendVars, managerVars, createVars
  <2>2. cpc[id] # "none"
    BY <1>2 DEF GuestAddr, SlotInv, Phases
  <2> QED
    BY <1>2, <2>1, <2>2 DEF GuestAddr, T!GuestAddr, LookupKept
<1>3. CASE DialGuest \/ TunnelEnds
  <2>1. UNCHANGED vars /\ tpc' # "found"
    BY <1>3 DEF DialGuest, TunnelEnds, T!DialGuest, T!DialFails, T!TunnelClose
  <2> QED
    BY <2>1 DEF LookupKept
<1>4. CASE UNCHANGED allVars
  <2>1. UNCHANGED vars /\ UNCHANGED <<cpc, slot, tpc, tvm, taddr>>
    BY <1>4, Zenon DEF allVars, tunnelVars, vars, backendVars, managerVars, createVars
  <2> QED
    BY <2>1 DEF LookupKept
<1> QED
  BY <1>1, <1>2, <1>3, <1>4, Zenon DEF AgentNext

\* The guest a tunnel is connected to is the one the request names, or that VM is
\* no longer registered, for any number of VMs, slots, deletes and crashes; as
\* elsewhere this needs Destroys of one VM that do not overlap.
THEOREM TunnelSafety ==
  ASSUME SerialDestroys
  PROVE  AgentSpec => TunnelReachesItsVM
<1> DEFINE All == TypeInv /\ SlotInv /\ TapInv /\ LookupKept
<1> DEFINE Reaches == (tpc = "found" /\ tpc' = "open") => (tpeer' = tvm \/ tvm \notin vms)
<1>1. AgentInit => All
  BY TypeInit, SlotInit, TapInit DEF AgentInit, LookupKept
<1>2. All /\ [AgentNext]_allVars => All'
  BY LookupStep, TypeStep, SlotStep, TapStep
<1>3. All /\ [AgentNext]_allVars => [Reaches]_allVars
  <2> SUFFICES ASSUME All, [AgentNext]_allVars, tpc = "found", tpc' = "open", tvm \in vms
               PROVE  tpeer' = tvm
    OBVIOUS
  <2>1. DialGuest
    BY DEF AgentNext, ManagerStep, GuestAddr, TunnelEnds, T!GuestAddr, T!DialFails, T!TunnelClose,
           allVars, tunnelVars
  <2>2. tpeer' = tap[slot[tvm]] /\ tap[slot[tvm]] # None
    BY <2>1 DEF DialGuest, LookupKept
  <2>3. tap[slot[tvm]] \in {tvm, None}
    BY DEF TapInv, LinkIsOwn, Settled, LookupKept
  <2> QED
    BY <2>2, <2>3
<1> QED
  BY <1>1, <1>2, <1>3, PTL DEF AgentSpec, TunnelReachesItsVM

(***************************************************************************)
(* Manager and tunnel beside each other are each what they are alone.  So  *)
(* what is proved of Spec holds in the composition, and the tunnel in it   *)
(* is the one PortProxy implements.                                        *)
(***************************************************************************)
TunnelTypes == tpc \in {"idle", "found", "open"}

LEMMA TunnelMoves ==
  ASSUME TypeInv, TunnelTypes, [AgentNext]_allVars
  PROVE  [T!TunnelNext]_(T!tunnelVars) /\ TunnelTypes'
<1>1. CASE ManagerStep
  <2>1. UNCHANGED <<tpc, taddr>> \/ (tpc' = "idle" /\ UNCHANGED taddr)
    BY <1>1 DEF ManagerStep, tunnelVars
  <2> QED
    BY <2>1 DEF TunnelTypes, T!TunnelNext, T!DialFails, T!TunnelClose, T!tunnelVars
<1>2. ASSUME NEW id \in VMs, GuestAddr(id) PROVE [T!TunnelNext]_(T!tunnelVars) /\ TunnelTypes'
  <2>1. slot[id] \in Slots /\ T!GuestAddr(slot[id])
    BY <1>2 DEF GuestAddr, TypeInv, TypeOK, BackendTypeOK
  <2> QED
    BY <2>1 DEF TunnelTypes, T!TunnelNext, T!GuestAddr
<1>3. CASE DialGuest
  BY <1>3 DEF DialGuest, TunnelTypes, T!TunnelNext, T!DialGuest
<1>4. CASE TunnelEnds
  BY <1>4 DEF TunnelEnds, TunnelTypes, T!TunnelNext, T!DialFails, T!TunnelClose
<1>5. CASE UNCHANGED allVars
  BY <1>5 DEF allVars, tunnelVars, TunnelTypes, T!tunnelVars
<1> QED
  BY <1>1, <1>2, <1>3, <1>4, <1>5, Zenon DEF AgentNext

LEMMA ManagerMoves ==
  ASSUME [AgentNext]_allVars
  PROVE  [Next]_vars
<1>1. AgentNext => [Next]_vars
  BY Zenon DEF AgentNext, ManagerStep, GuestAddr, DialGuest, TunnelEnds
<1>2. UNCHANGED allVars => UNCHANGED vars
  BY DEF allVars
<1> QED
  BY <1>1, <1>2

\* A tunnel only reads the manager's state, and a manager's step does to a tunnel
\* at most what a closed connection does: running beside each other, Manager and
\* handleProxyPort behave as VMManager and Tunnel say.  So every theorem about
\* Spec also holds with tunnels, under every fault.
THEOREM Composition == AgentSpec => Spec /\ T!TunnelSpec
<1>1. AgentInit => Init /\ T!TunnelInit /\ TypeInv /\ TunnelTypes
  BY TypeInit, ManagerAssumption, AdmissionAssumption DEF AgentInit, TunnelTypes, T!TunnelInit
<1>2. TypeInv /\ TunnelTypes /\ [AgentNext]_allVars => TypeInv' /\ TunnelTypes'
  BY ManagerMoves, TunnelMoves, TypeStep
<1>3. TypeInv /\ TunnelTypes /\ [AgentNext]_allVars => [Next]_vars /\ [T!TunnelNext]_(T!tunnelVars)
  BY ManagerMoves, TunnelMoves
<1> QED
  BY <1>1, <1>2, <1>3, PTL DEF AgentSpec, Spec, T!TunnelSpec
=============================================================================
