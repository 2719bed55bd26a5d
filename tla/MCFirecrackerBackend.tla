------------------------ MODULE MCFirecrackerBackend ------------------------
(***************************************************************************)
(* A small instance of FirecrackerBackend.                                 *)
(***************************************************************************)
EXTENDS FirecrackerBackend

MCVMs == 1 .. 2
MCSlots == 0 .. 1
=============================================================================
