------------------------------ MODULE MCAgent ------------------------------
(***************************************************************************)
(* Small instances of the manager with a tunnel beside it.                 *)
(***************************************************************************)
EXTENDS AgentTunnels, MCVMManager
=============================================================================
