---------------------------- MODULE MCVMManager ----------------------------
(***************************************************************************)
(* Small instances of VMManager: plan sizes as records, and a bound on the *)
(* VMs ever created (VMs is finite).                                       *)
(***************************************************************************)
EXTENDS ManagerContract

MCVMs == 1 .. 3
MCTwoVMs == 1 .. 2
MCSlots == 0 .. CPUTotal - 1
MCSizes == {[vcpu |-> 1, ramMb |-> 1]}

\* With room for two in both: a VM that takes all CPUs, and one that takes all RAM.
MCUnevenSizes == MCSizes \cup {[vcpu |-> 2, ramMb |-> 1], [vcpu |-> 1, ramMb |-> 2]}
=============================================================================
