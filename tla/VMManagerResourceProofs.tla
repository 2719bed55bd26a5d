---------------------- MODULE VMManagerResourceProofs -----------------------
(***************************************************************************)
(* What VMs leave on the host, for every number of VMs, slots, requests    *)
(* and restarts: nothing the manager does not know of.  And that the       *)
(* manager keeps to the contract of the backend that puts it there.        *)
(***************************************************************************)
EXTENDS ManagerContract, NetworkProofs

(***************************************************************************)
(* Nothing left behind.  When Boot cleans up after itself and metadata is  *)
(* written, every tap device has an owner the manager knows, or one whose  *)
(* Create an agent exit cut off; and every acknowledged VM that runs is    *)
(* registered, or on disk while the agent is down.                         *)
(***************************************************************************)
TapHasOwner ==
  \A s \in Slots : tap[s] # None =>
    /\ slot[tap[s]] = s
    /\ bpc[tap[s]] \notin {"idle", "called", "err"}
    /\ \/ cpc[tap[s]] = "lost"
       \/ Holder(tap[s])
       \/ ~up /\ disk[tap[s]] = "meta"

TornDownFirst ==
  \A d \in Destroyers : dpc[d] \in {"rmdir", "unmap"} => tap[slot[dvm[d]]] # dvm[d]

OnDisk ==
  \A id \in VMs :
    /\ cpc[id] = "register" => disk[id] = "meta"
    /\ (id \in vms /\ (tap[slot[id]] = id \/ vmm[id] = "running")) => disk[id] = "meta"
    /\ (cpc[id] = "done" /\ vmm[id] = "running") =>
         IF up THEN id \in vms ELSE disk[id] = "meta"

CleanInv == TapHasOwner /\ TornDownFirst /\ OnDisk

NothingLost == PidsKnown /\ Faults \cap {"leak", "persist"} = {}

LEMMA CleanInit == Init => CleanInv
BY SMTT(30) DEF Init, BackendInit, CleanInv, TapHasOwner, TornDownFirst, OnDisk, None

LEMMA CleanCreate ==
  ASSUME Used, NetInv, CleanInv, NothingLost, NEW id \in VMs,
         (\E size \in Sizes : CreateAdmit(id, size)) \/ CreateStep(id)
  PROVE  CleanInv'
<1> USE NoneIsNoVM DEF Used, CleanInv, TapHasOwner, TornDownFirst,
        OnDisk, Holder, DestroyTargets, Phases, NetInv, BootPhases, Booting,
        DownIsEmpty, Creating
<1>1. ASSUME NEW size \in Sizes, CreateAdmit(id, size) PROVE CleanInv'
  <2>1. PICK s \in Slots : slot' = [slot EXCEPT ![id] = s]
    BY <1>1, Zenon DEF CreateAdmit, reserve
  <2>2. cpc[id] = "none"
    BY <1>1 DEF CreateAdmit, newVMID
  <2>3. \A s2 \in Slots : tap[s2] # id
    BY <2>2
  <2> QED
    BY <1>1, <2>1, <2>2, <2>3 DEF CreateAdmit, destroyVars, agentVars
<1>2. CASE PrepareRootfs(id)
  BY <1>2 DEF PrepareRootfs, BootCall, destroyVars, agentVars
<1>3. CASE PrepareRootfsFails(id)
  BY <1>3, SMTT(30) DEF PrepareRootfsFails, backendVars, destroyVars, agentVars
<1>4. CASE Boot(id)
  <2>1. UNCHANGED <<slot, vms, cpc, disk, dpc, dvm, up>>
    BY <1>4 DEF Boot, managerVars, createVars, destroyVars, agentVars
  <2>2. cpc[id] = "boot" /\ id \notin vms /\ disk[id] # "meta"
    BY <1>4 DEF Boot
  <2>3. CASE BootTap(id)
    BY <2>1, <2>2, <2>3 DEF BootTap
  <2>4. CASE BootRefused(id)
    BY <2>1, <2>2, <2>4 DEF BootRefused
  <2>5. CASE BootAbort(id)
    <3>1. \A s \in Slots : tap'[s] # id
      BY <2>5 DEF BootAbort, BootOwnsTap
    <3> QED
      BY <2>1, <2>2, <2>5, <3>1 DEF BootAbort
  <2>6. CASE BootAbortLeak(id)
    BY <2>6 DEF BootAbortLeak, NothingLost
  <2>7. CASE BootStart(id)
    BY <2>1, <2>2, <2>7 DEF BootStart
  <2>8. CASE BootReady(id)
    BY <2>1, <2>2, <2>8 DEF BootReady
  <2>9. CASE BootNotReady(id)
    BY <2>1, <2>2, <2>9 DEF BootNotReady, Signal
  <2> QED
    BY <1>4, <2>3, <2>4, <2>5, <2>6, <2>7, <2>8, <2>9, Zenon DEF Boot, BootStep
<1>5. CASE BootFailed(id)
  BY <1>5 DEF BootFailed, backendVars, destroyVars, agentVars
<1>6. CASE CreateRmDir(id)
  BY <1>6 DEF CreateRmDir, removeVMDir, backendVars, destroyVars, agentVars
<1>7. CASE Persist(id)
  BY <1>7 DEF Persist, persist, NothingLost, backendVars, destroyVars, agentVars
<1>8. CASE Register(id)
  BY <1>8, SMTT(30) DEF Register, backendVars, destroyVars, agentVars
<1> QED
  BY <1>1, <1>2, <1>3, <1>4, <1>5, <1>6, <1>7, <1>8, Zenon DEF CreateStep

LEMMA CleanDestroy ==
  ASSUME Used, NetInv, CleanInv, NEW d \in Destroyers,
         (\E id \in VMs : Lookup(d, id)) \/ DestroyStep(d)
  PROVE  CleanInv'
<1> USE NoneIsNoVM DEF Used, CleanInv, TapHasOwner, TornDownFirst,
        OnDisk, Holder, DestroyTargets, DestroysDistinct, Phases, NetInv,
        StoppedFirst, DownIsEmpty
<1>1. ASSUME NEW id \in VMs, Lookup(d, id) PROVE CleanInv'
  BY <1>1, SMTT(30) DEF Lookup, backendVars, createVars, agentVars
<1>2. CASE DestroyStop(d)
  <2>1. UNCHANGED <<tap, bpc, slot, vms, cpc, disk, up>>
    BY <1>2, SMTT(30) DEF DestroyStop, Stop, StopHandle, StopPid, StopFails, createVars, agentVars
  <2>2. \A id \in VMs : vmm'[id] = "running" => vmm[id] = "running"
    BY <1>2 DEF DestroyStop, Stop, StopHandle, StopPid, StopFails, Signal
  <2>3. \A e \in Destroyers : dpc'[e] \in {"rmdir", "unmap"} => dpc'[e] = dpc[e] /\ dvm'[e] = dvm[e]
    BY <1>2, SMTT(30) DEF DestroyStop, return
  <2> QED
    BY <2>1, <2>2, <2>3, SMTT(30)
<1>3. CASE DestroyTeardown(d)
  BY <1>3, SMTT(30) DEF DestroyTeardown, Teardown, createVars, agentVars
<1>4. CASE DestroyRmDir(d)
  BY <1>4 DEF DestroyRmDir, removeVMDir, backendVars, createVars, agentVars
<1>5. CASE DestroyUnmap(d)
  BY <1>5, SMTT(30) DEF DestroyUnmap, return, backendVars, createVars, agentVars
<1> QED
  BY <1>1, <1>2, <1>3, <1>4, <1>5, Zenon DEF DestroyStep

LEMMA CleanOther ==
  ASSUME Used, NetInv, CleanInv,
         \/ \E id \in VMs : Expire(id) \/ Exits(id)
         \/ ReapExpired \/ Down \/ reconcile \/ UNCHANGED vars
         \/ UNCHANGED <<backendVars, vms, slots, createVars, disk, dpc, dvm, overdue, agentVars>>
  PROVE  CleanInv'
<1> USE NoneIsNoVM DEF Used, CleanInv, TapHasOwner, TornDownFirst,
        OnDisk, Holder, DownIsEmpty, Creating
<1>1. CASE \/ \E id \in VMs : Expire(id)
           \/ ReapExpired \/ UNCHANGED vars
           \/ UNCHANGED <<backendVars, vms, slots, createVars, disk, dpc, dvm, overdue, agentVars>>
  <2>1. UNCHANGED <<slot, tap, vmm, bpc, vms, cpc, disk, dpc, dvm, up>>
    BY <1>1, Zenon DEF Expire, ReapExpired, vars, backendVars, managerVars, createVars, destroyVars,
                agentVars
  <2> QED
    BY <2>1, SMTT(30)
<1>2. ASSUME NEW id \in VMs, Exits(id) PROVE CleanInv'
  BY <1>2, SMTT(30) DEF Exits, VmmExit, managerVars, createVars, destroyVars, agentVars
<1>3. CASE Down
  <2>1. UNCHANGED <<slot, disk>> /\ up /\ ~up' /\ vms' = {}
    BY <1>3, SMTT(30) DEF Down
  <2>2. \A s \in Slots : tap'[s] # None => tap'[s] = tap[s]
    BY <1>3, SMTT(30) DEF Down, AgentExit, HostReboot
  <2>3. \A id \in VMs : vmm'[id] = "running" => vmm[id] = "running"
    BY <1>3 DEF Down, AgentExit, HostReboot
  <2>4. \A id \in VMs : cpc'[id] = IF Creating(id) THEN "lost" ELSE cpc[id]
    BY <1>3, SMTT(30) DEF Down
  <2>5. \A id \in VMs : bpc'[id] = IF Booting(id) THEN "lost" ELSE bpc[id]
    BY <1>3, SMTT(30) DEF Down, AgentExit, HostReboot, Forget
  <2>6. TapHasOwner'
    BY <2>1, <2>2, <2>4, <2>5, SMTT(30) DEF Booting
  <2>7. OnDisk'
    BY <2>1, <2>3, <2>4, SMTT(30)
  <2>8. TornDownFirst'
    BY <1>3, SMTT(30) DEF Down
  <2> QED
    BY <2>6, <2>7, <2>8, Zenon
<1>4. CASE reconcile
  BY <1>4 DEF reconcile, restored, backendVars, createVars, destroyVars
<1> QED
  BY <1>1, <1>2, <1>3, <1>4, Zenon

LEMMA CleanStep ==
  TypeInv /\ SlotInv /\ NetInv /\ CleanInv /\ NothingLost /\ [Next]_vars => CleanInv'
<1> SUFFICES ASSUME TypeInv, SlotInv, NetInv, CleanInv, NothingLost, [Next]_vars PROVE CleanInv'
  OBVIOUS
<1>0. Used
  BY UsedHolds
<1>1. ASSUME NEW id \in VMs, NEW size \in Sizes, CreateAdmit(id, size) PROVE CleanInv'
  BY <1>0, <1>1, CleanCreate
<1>2. ASSUME NEW id \in VMs, CreateStep(id) PROVE CleanInv'
  BY <1>0, <1>2, CleanCreate
<1>3. ASSUME NEW d \in Deleters, NEW id \in VMs, Delete(d, id) PROVE CleanInv'
  BY <1>0, <1>3, CleanDestroy DEF Delete, Destroyers
<1>4. ASSUME NEW d \in Destroyers, DestroyStep(d) PROVE CleanInv'
  BY <1>0, <1>4, CleanDestroy
<1>5. ASSUME NEW id \in VMs, ReapNext(id) PROVE CleanInv'
  BY <1>0, <1>5, CleanDestroy, CleanOther DEF ReapNext, Destroyers
<1>6. ASSUME NEW id \in VMs, Expire(id) \/ Exits(id) PROVE CleanInv'
  BY <1>0, <1>6, CleanOther
<1>7. CASE ReapExpired \/ Down \/ reconcile \/ UNCHANGED vars
  BY <1>0, <1>7, CleanOther
<1> QED
  BY <1>1, <1>2, <1>3, <1>4, <1>5, <1>6, <1>7 DEF Next

\* A slot the manager considers free has no tap device but that of a Create an
\* agent exit cut off, and no acknowledged VM that runs is ever forgotten, when
\* moreover Boot cleans up on its error paths and meta.json gets written.
THEOREM NothingLeftBehind ==
  ASSUME NothingLost
  PROVE  Spec => [](FreeSlotsClean /\ AckedRemembered)
<1> DEFINE Inv == TypeInv /\ SlotInv /\ NetInv /\ CleanInv
<1>1. Init => Inv
  BY TypeInit, SlotInit, NetInit, CleanInit
<1>2. Inv /\ [Next]_vars => Inv'
  BY TypeStep, SlotStep, NetStep, CleanStep DEF NothingLost, PidsKnown
<1>3. Inv => FreeSlotsClean /\ AckedRemembered
  <2>1. Inv => AckedRemembered
    BY DEF CleanInv, OnDisk, AckedRemembered
  <2>2. Inv => FreeSlotsClean
    BY NoneIsNoVM DEF TypeInv, TypeOK, BackendTypeOK, CleanInv, TapHasOwner, SlotInv, SlotsExclusive,
           FreeSlotsClean
  <2> QED
    BY <2>1, <2>2
<1> QED
  BY <1>1, <1>2, <1>3, PTL DEF Spec

\* In particular a VM whose Create was answered with success and that still runs
\* is known to the manager whenever the agent is up, restarts included.
THEOREM AckSafety ==
  ASSUME NothingLost
  PROVE  Spec => []AckedRemembered
BY NothingLeftBehind, PTL

(***************************************************************************)
(* The backend's contract.  CallPhases says which calls of Boot are open   *)
(* or succeeded, SlotsExclusive that at most one of them is on a slot.     *)
(***************************************************************************)
LEMMA StageIs ==
  ASSUME NEW id \in VMs
  PROVE  Stage[id] = IF bpc[id] = "ok" /\ ~Kept(id) THEN "gone" ELSE bpc[id]
BY Zenon DEF Stage

LEMMA StageMoves ==
  ASSUME NEW id \in VMs, NEW v, Stage'[id] = v, \A j \in VMs \ {id} : Stage'[j] = Stage[j]
  PROVE  Stage' = [Stage EXCEPT ![id] = v]
<1>1. Stage = [j \in VMs |-> Stage[j]] /\ Stage' = [j \in VMs |-> Stage'[j]]
  BY Zenon DEF Stage
<1> QED
  BY <1>1

\* A step that changes neither bpc nor whom the manager counts on is not seen.
LEMMA StageStays ==
  ASSUME bpc' = bpc, \A id \in VMs : bpc[id] = "ok" => (Kept(id)' <=> Kept(id))
  PROVE  Stage' = Stage
BY DEF Stage

\* Steps of Create and Destroy that do not call the backend, and restarting.
LEMMA ContractSilent ==
  ASSUME TypeInv, SlotInv, CallPhases,
         \/ \E id \in VMs : \/ PrepareRootfsFails(id) \/ BootFailed(id) \/ CreateRmDir(id)
                            \/ Persist(id) \/ Register(id) \/ Expire(id) \/ ReapNext(id)
         \/ \E d \in Destroyers, id \in VMs : Lookup(d, id)
         \/ \E d \in Destroyers : DestroyRmDir(d)
         \/ ReapExpired \/ reconcile \/ UNCHANGED vars
  PROVE  UNCHANGED C!backendVars
<1> USE DEF TypeInv, TypeOK, BackendTypeOK, CallPhases, Kept, Holder
<1>0. UNCHANGED backendVars
  BY Zenon DEF PrepareRootfsFails, BootFailed, CreateRmDir, Persist, Register, Expire, ReapNext, Lookup,
     DestroyRmDir, ReapExpired, reconcile, vars
<1> DEFINE Same == \A id \in VMs : bpc[id] = "ok" => (Kept(id)' <=> Kept(id))
<1>1. ASSUME NEW id \in VMs, PrepareRootfsFails(id) PROVE Same
  BY <1>1 DEF PrepareRootfsFails, agentVars, SlotInv, DownIsEmpty, Creating
<1>2. ASSUME NEW id \in VMs, BootFailed(id) PROVE Same
  BY <1>2 DEF BootFailed, agentVars
<1>3. ASSUME NEW id \in VMs, CreateRmDir(id) PROVE Same
  BY <1>3 DEF CreateRmDir, agentVars, SlotInv, DownIsEmpty, Creating
<1>4. ASSUME NEW id \in VMs, Persist(id) \/ Register(id) PROVE Same
  BY <1>4 DEF Persist, Register, persist, agentVars, SlotInv, DownIsEmpty, Creating
<1>5. ASSUME NEW d \in Destroyers, DestroyRmDir(d) PROVE Same
  BY <1>5 DEF DestroyRmDir, createVars, agentVars, SlotInv, DownIsEmpty
<1>6. ASSUME reconcile PROVE Same
  BY <1>6 DEF reconcile, restored, createVars, SlotInv, DownIsEmpty, Creating
<1>7. ASSUME UNCHANGED <<vms, cpc, disk, up>> PROVE Same
  BY <1>7, Zenon
<1>8. Same
  <2> HIDE DEF Same
  <2> QED BY <1>1, <1>2, <1>3, <1>4, <1>5, <1>6, <1>7, Zenon
     DEF Lookup, Expire, ReapNext, ReapExpired, vars, managerVars, createVars, agentVars
<1>9. Stage' = Stage
  BY <1>0, <1>8, StageStays, Zenon DEF backendVars
<1> QED
  BY <1>0, <1>9, Zenon DEF backendVars, C!backendVars

\* Boot is called on a slot of which the VM is the only holder.
LEMMA ContractCall ==
  ASSUME TypeInv, SlotInv, CallPhases, NEW id \in VMs,
         (\E size \in Sizes : CreateAdmit(id, size)) \/ PrepareRootfs(id)
  PROVE  C!BackendNext
<1> USE DEF TypeInv, TypeOK, BackendTypeOK
<1>1. ASSUME NEW size \in Sizes, CreateAdmit(id, size) PROVE C!BackendNext
  <2>1. PICK s \in Slots : slot' = [slot EXCEPT ![id] = s]
    BY <1>1, Zenon DEF CreateAdmit, reserve
  <2>2. bpc[id] = "idle" /\ Stage[id] = "idle"
    BY <1>1, StageIs DEF CreateAdmit, newVMID, CallPhases
  <2>3. Stage' = Stage
    <3>1. \A j \in VMs : bpc[j] = "ok" => (Kept(j)' <=> Kept(j))
      BY <1>1, <2>2 DEF CreateAdmit, agentVars, Kept, Holder
    <3> QED
      BY <1>1, <3>1, StageStays DEF CreateAdmit
  <2>4. C!Assign(id, s)
    BY <1>1, <2>1, <2>2, <2>3, Zenon DEF CreateAdmit, C!Assign
  <2> QED
    BY <2>4, Zenon DEF C!BackendNext
<1>2. CASE PrepareRootfs(id)
  <2>1. /\ bpc[id] = "idle" /\ bpc' = [bpc EXCEPT ![id] = "called"] /\ cpc[id] = "rootfs"
        /\ cpc' = [cpc EXCEPT ![id] = "boot"]
        /\ UNCHANGED <<slot, tap, vmm, pid, machines, vms, up>>
    BY <1>2 DEF PrepareRootfs, BootCall, agentVars
  <2>2. \A j \in VMs \ {id} : Kept(j)' <=> Kept(j)
    BY <1>2 DEF PrepareRootfs, agentVars, Kept, Holder
  <2>3. Stage'[id] = "called" /\ Stage[id] = "idle" /\ \A j \in VMs \ {id} : Stage'[j] = Stage[j]
    <3>1. bpc'[id] = "called" /\ \A j \in VMs \ {id} : bpc'[j] = bpc[j]
      BY <2>1
    <3> QED
      BY <2>1, <2>2, <3>1, Zenon DEF Stage
  <2>4. C!BootCall(id)
    BY <2>1, <2>3, StageMoves, Zenon DEF C!BootCall
  <2>5. ASSUME NEW j \in VMs, slot[j] = slot[id], C!InUse(j) PROVE FALSE
    <3>1. up
      BY <2>1 DEF SlotInv, DownIsEmpty, Creating
    <3>2. Holder(j)
      BY <2>5, <3>1, StageIs DEF C!InUse, C!Booting, Booting, CallPhases, Kept, Holder
    <3>3. j = id
      BY <2>1, <2>5, <3>2 DEF SlotInv, SlotsExclusive, Holder
    <3> QED
      BY <2>3, <2>5, <3>3 DEF C!InUse, C!Booting
  <2>6. C!BackendStep(id)
    BY <2>4, <2>5, Zenon DEF C!BackendStep
  <2> QED
    BY <2>1, <2>6, Zenon DEF C!BackendNext
<1> QED
  BY <1>1, <1>2

LEMMA ContractBoot ==
  ASSUME TypeInv, SlotInv, NEW id \in VMs, Boot(id)
  PROVE  C!BackendNext
<1>1. /\ cpc[id] = "boot" /\ UNCHANGED <<slot, cpc, vms, disk, up>>
      /\ bpc' = [bpc EXCEPT ![id] = bpc'[id]] /\ BootStep(id)
  BY BootMoves DEF Boot, managerVars, createVars, agentVars
<1>2. bpc \in [VMs -> {"idle", "called", "tapped", "started", "failing", "ok", "err", "lost", "gone"}]
  BY DEF TypeInv, TypeOK, BackendTypeOK
<1>3. Stage[id] = bpc[id]
  <2>1. Kept(id)
    BY <1>1, Zenon DEF Kept, Holder
  <2> QED
    BY <2>1, StageIs
<1>4. ASSUME NEW b, bpc' = [bpc EXCEPT ![id] = b] PROVE Stage' = [Stage EXCEPT ![id] = b]
  <2>1. \A j \in VMs : Kept(j)' <=> Kept(j)
    BY <1>1, Zenon DEF Kept, Holder
  <2>2. Kept(id)'
    BY <1>1, Zenon DEF Kept, Holder
  <2>3. Stage' = [j \in VMs |-> IF bpc'[j] = "ok" /\ ~Kept(j) THEN "gone" ELSE bpc'[j]]
    BY <2>1, Zenon DEF Stage
  <2> HIDE DEF Kept
  <2> QED
    BY <1>2, <1>4, <2>1, <2>2, <2>3 DEF Stage
<1>5. ASSUME BootTap(id) PROVE C!BootStep(id)
  BY <1>3, <1>4, <1>5, Zenon DEF BootTap, C!BootStep, C!BootTap, None, C!None
<1>6. ASSUME BootRefused(id) PROVE C!BootStep(id)
  BY <1>3, <1>4, <1>6, Zenon DEF BootRefused, C!BootStep, C!BootRefused
<1>7. ASSUME BootAbort(id) PROVE C!BootStep(id)
  BY <1>3, <1>4, <1>7, Zenon DEF BootAbort, C!BootStep, C!BootAbort, None, C!None
<1>8. ASSUME BootAbortLeak(id) PROVE C!BootStep(id)
  BY <1>3, <1>4, <1>8, Zenon DEF BootAbortLeak, C!BootStep, C!BootAbortLeak
<1>9. ASSUME BootStart(id) PROVE C!BootStep(id)
  <2>1. C!PidChoices(id) = PidChoices(id)
    BY Zenon DEF C!PidChoices, PidChoices, C!FreePids, FreePids, C!Live, Live, C!None, None
  <2>2. C!BootStart(id)
    BY <1>3, <1>4, <1>9, <2>1, Zenon DEF BootStart, C!BootStart
  <2> QED
    BY <2>2, Zenon DEF C!BootStep
<1>10. ASSUME BootReady(id) PROVE C!BootStep(id)
  BY <1>3, <1>4, <1>10, Zenon DEF BootReady, C!BootStep, C!BootReady, Live, C!Live, None, C!None
<1>11. ASSUME BootNotReady(id) PROVE C!BootStep(id)
  BY <1>3, <1>4, <1>11, Zenon DEF BootNotReady, C!BootStep, C!BootNotReady, Signal, C!Signal
<1>12. C!BootStep(id)
  BY <1>1, <1>5, <1>6, <1>7, <1>8, <1>9, <1>10, <1>11, Zenon DEF BootStep
<1> QED
  BY <1>1, <1>12, Zenon DEF C!BackendNext, C!BackendStep

\* Destroy works on a registered VM, whose Boot succeeded, until it unmaps it.
LEMMA ContractDestroy ==
  ASSUME TypeInv, SlotInv, CallPhases, NEW d \in Destroyers,
         DestroyStop(d) \/ DestroyTeardown(d) \/ DestroyUnmap(d)
  PROVE  C!BackendNext
<1>0. dpc[d] \in {"stop", "teardown", "unmap"}
  BY Zenon DEF DestroyStop, DestroyTeardown, DestroyUnmap
<1>1. PICK id \in VMs : id = dvm[d] /\ id \in vms /\ up
  BY <1>0 DEF SlotInv, DestroyTargets, DownIsEmpty, TypeInv, TypeOK
<1>2. bpc[id] = "ok" /\ Stage[id] = "ok" /\ cpc[id] \in {"done", "lost"}
  BY <1>1, StageIs DEF CallPhases, Kept, Holder, SlotInv, Phases
<1>3. ASSUME UNCHANGED <<bpc, vms, cpc, disk, up>> PROVE Stage' = Stage
  <2>1. \A j \in VMs : Kept(j)' <=> Kept(j)
    BY <1>3, Zenon DEF Kept, Holder
  <2> QED
    BY <1>3, <2>1, StageStays
<1>4. CASE DestroyStop(d)
  <2>1. Stop(id) \/ StopFails(id)
    BY <1>1, <1>4, Zenon DEF DestroyStop
  <2>2. UNCHANGED <<slot, bpc, vms, cpc, disk, up>>
    BY <1>4, <2>1, Zenon DEF DestroyStop, createVars, agentVars, Stop, StopHandle, StopPid, StopFails
  <2>3. C!Stop(id) \/ C!StopFails(id)
    BY <1>3, <2>1, <2>2, Zenon DEF Stop, StopHandle, StopPid, StopFails, Signal, None,
       C!Stop, C!StopHandle, C!StopPid, C!StopFails, C!Signal, C!None
  <2> QED
    BY <1>1, <1>2, <2>2, <2>3, Zenon DEF C!BackendNext, C!BackendStep
<1>5. CASE DestroyTeardown(d)
  <2>1. Teardown(id) /\ UNCHANGED <<slot, bpc, vms, cpc, disk, up>>
    BY <1>1, <1>5, Zenon DEF DestroyTeardown, Teardown, createVars, agentVars
  <2>2. C!Teardown(id)
    BY <1>3, <2>1, Zenon DEF Teardown, C!Teardown, None, C!None
  <2> QED
    BY <1>1, <1>2, <2>1, <2>2, Zenon DEF C!BackendNext, C!BackendStep
<1>6. CASE DestroyUnmap(d)
  <2>1. vms' = vms \ {id} /\ UNCHANGED <<slot, tap, vmm, pid, machines, bpc, cpc, disk, up>>
    BY <1>1, <1>6, Zenon DEF DestroyUnmap, releaseSlot, backendVars, createVars, agentVars
  <2>2. ~Kept(id)' /\ \A j \in VMs \ {id} : Kept(j)' <=> Kept(j)
    BY <1>1, <1>2, <2>1, Zenon DEF Kept, Holder
  <2>3. Stage'[id] = "gone" /\ \A j \in VMs \ {id} : Stage'[j] = Stage[j]
    BY <1>1, <1>2, <2>1, <2>2, Zenon DEF Stage
  <2>4. C!Release(id)
    BY <2>1, <2>3, StageMoves, Zenon DEF C!Release
  <2> QED
    BY <1>1, <1>2, <2>1, <2>4, Zenon DEF C!BackendNext, C!BackendStep
<1> QED
  BY <1>4, <1>5, <1>6

\* An agent that ends gives up the booted VMs that have no meta.json.
LEMMA ContractDown ==
  ASSUME TypeInv, SlotInv, CallPhases, Down
  PROVE  C!BackendNext
<1> DEFINE forgotten == {id \in VMs : Stage[id] = "ok" /\ disk[id] # "meta"}
<1>1. /\ \A id \in VMs : bpc'[id] = IF Booting(id) THEN "lost" ELSE bpc[id]
      /\ machines' = {} /\ up /\ ~up' /\ disk' = disk /\ vms' = {} /\ slot' = slot
      /\ \A id \in VMs : cpc'[id] = IF Creating(id) THEN "lost" ELSE cpc[id]
  BY DownEffect, Zenon
<1>2. ASSUME NEW id \in VMs
      PROVE  Stage'[id] = IF C!Booting(id) THEN "lost" ELSE IF id \in forgotten THEN "gone" ELSE Stage[id]
  <2>1. Kept(id)' <=> disk[id] = "meta"
    BY <1>1 DEF Kept, Holder, Creating
  <2>2. disk[id] = "meta" => Kept(id) /\ bpc[id] = "ok"
    BY <1>1, Zenon DEF SlotInv, DiskTracksMemory, CallPhases, Kept, Holder
  <2>3. C!Booting(id) <=> Booting(id)
    BY StageIs DEF C!Booting, Booting
  <2>4. Stage'[id] = IF bpc'[id] = "ok" /\ ~Kept(id)' THEN "gone" ELSE bpc'[id]
    BY Zenon DEF Stage
  <2>5. Stage[id] = IF bpc[id] = "ok" /\ ~Kept(id) THEN "gone" ELSE bpc[id]
    BY StageIs
  <2>6. bpc'[id] = IF Booting(id) THEN "lost" ELSE bpc[id]
    BY <1>1
  <2>7. CASE Booting(id)
    BY <2>3, <2>4, <2>6, <2>7
  <2>8. CASE ~Booting(id) /\ disk[id] = "meta"
    BY <2>1, <2>2, <2>3, <2>4, <2>5, <2>6, <2>8
  <2>9. CASE ~Booting(id) /\ disk[id] # "meta"
    BY <2>1, <2>3, <2>4, <2>5, <2>6, <2>9
  <2> QED
    BY <2>7, <2>8, <2>9
<1>3. Stage' = [id \in VMs |-> IF C!Booting(id) THEN "lost"
                               ELSE IF id \in forgotten THEN "gone" ELSE Stage[id]]
  <2>1. Stage' = [id \in VMs |-> Stage'[id]]
    BY DEF Stage
  <2> HIDE DEF forgotten
  <2> QED
    BY <1>2, <2>1
<1>4. forgotten \in SUBSET {id \in VMs : Stage[id] = "ok"}
  OBVIOUS
<1> HIDE DEF forgotten
<1>5. C!Forget(forgotten)
  BY <1>1, <1>3 DEF C!Forget
<1>6. C!AgentExit(forgotten) \/ C!HostReboot(forgotten)
  BY <1>5, Zenon DEF Down, AgentExit, HostReboot, C!AgentExit, C!HostReboot, None, C!None, Live, C!Live
<1> QED
  BY <1>1, <1>4, <1>6, Zenon DEF C!BackendNext

\* However Creates, deletes, the reaper, failures, crashes and restarts
\* interleave, the manager calls Boot, Stop and teardown only as the contract
\* that FirecrackerBackend implements allows, provided Destroys of one VM do not
\* overlap and removeVMDir works.
THEOREM ManagerKeepsContract ==
  ASSUME SerialDestroys
  PROVE  Spec => KeepsContract
<1> DEFINE All == TypeInv /\ SlotInv /\ CallPhases
<1>1. Init => All /\ slot \in [VMs -> Slots] /\ C!BackendInit
  <2> SUFFICES ASSUME Init PROVE All /\ slot \in [VMs -> Slots] /\ C!BackendInit
    OBVIOUS
  <2>1. All /\ slot \in [VMs -> Slots]
    BY TypeInit, SlotInit, CallInit DEF TypeInv, TypeOK, BackendTypeOK
  <2>2. Stage = [id \in VMs |-> "idle"]
    BY DEF Init, BackendInit, Stage
  <2> QED
    BY <2>1, <2>2 DEF Init, BackendInit, C!BackendInit, None, C!None
<1>2. All /\ [Next]_vars => All'
  BY TypeStep, SlotStep, CallStep
<1>3. All /\ [Next]_vars => [C!BackendNext]_(C!backendVars)
  <2> SUFFICES ASSUME All, [Next]_vars PROVE C!BackendNext \/ UNCHANGED C!backendVars
    OBVIOUS
  <2>1. ASSUME NEW id \in VMs, Exits(id) PROVE C!BackendNext
    <3>1. UNCHANGED <<slot, bpc, vms, cpc, disk, up>> /\ VmmExit(id)
      BY <2>1, Zenon DEF Exits, VmmExit, managerVars, createVars, agentVars
    <3>2. \A j \in VMs : Kept(j)' <=> Kept(j)
      BY <3>1, Zenon DEF Kept, Holder
    <3>3. Stage' = Stage
      BY <3>1, <3>2, StageStays
    <3>4. C!VmmExit(id)
      BY <3>1, <3>3 DEF VmmExit, C!VmmExit, Live, C!Live
    <3> QED
      BY <3>1, <3>4, Zenon DEF C!BackendNext, C!BackendStep
  <2>2. ASSUME NEW d \in Deleters, NEW id \in VMs, Delete(d, id)
        PROVE  \E e \in Destroyers, j \in VMs : Lookup(e, j)
    BY <2>2, Zenon DEF Delete, Destroyers
  <2> QED
    BY <2>1, <2>2, ContractSilent, ContractCall, ContractBoot, ContractDestroy, ContractDown, Zenon
       DEF Next, CreateStep, DestroyStep
<1> QED
  BY <1>1, <1>2, <1>3, PTL DEF Spec, KeepsContract, C!BackendSpec
=============================================================================
