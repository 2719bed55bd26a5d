-------------------------- MODULE ManagerContract --------------------------
(***************************************************************************)
(* The manager's side of Backend: VMManager calls Boot, Stop and teardown  *)
(* only when BackendSpec lets it.  FirecrackerBackend, which implements    *)
(* BackendSpec, relies on it: a Boot has its slot to itself, and only VMs  *)
(* whose Boot succeeded are destroyed.                                     *)
(***************************************************************************)
EXTENDS VMManager

\* The manager counts on the VM: it holds its slot, or will be read from disk.
Kept(id) == Holder(id) \/ (~up /\ disk[id] = "meta")

\* A booted VM is given up once the manager no longer counts on it.
Stage == [id \in VMs |-> IF bpc[id] = "ok" /\ ~Kept(id) THEN "gone" ELSE bpc[id]]

C == INSTANCE Backend WITH bpc <- Stage

\* The manager keeps to the contract of its backend: it never boots a VM on a
\* slot where another one is booting, runs, or is being destroyed, never gives a
\* VM another slot once Boot was called, and stops or tears down only VMs whose
\* Boot succeeded and that it has not given up since, across Creates and
\* Destroys that overlap, failed steps and restarts.
KeepsContract == C!BackendSpec
=============================================================================
