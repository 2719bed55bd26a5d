------------------------------- MODULE Tunnel -------------------------------
(***************************************************************************)
(* What a port tunnel is to the rest of the agent: an address looked up    *)
(* once, a guest connection made to that address some time later, and kept *)
(* until the handler closes it.  PortProxy implements it; AgentTunnels     *)
(* runs it beside the manager.                                             *)
(***************************************************************************)
EXTENDS Naturals

CONSTANT Slots   \* a guest address is a function of the VM's slot, so the slot stands for it

VARIABLES
  tpc,     \* idle, found (address looked up), open (guest connection held)
  taddr    \* the slot whose guest address was looked up

tunnelVars == <<tpc, taddr>>

TunnelInit == tpc = "idle" /\ taddr \in Slots

GuestAddr(s) ==
  /\ tpc = "idle"
  /\ tpc' = "found"
  /\ taddr' = s

DialGuest ==
  /\ tpc = "found"
  /\ tpc' = "open"
  /\ UNCHANGED taddr

DialFails ==
  /\ tpc = "found"
  /\ tpc' = "idle"
  /\ UNCHANGED taddr

TunnelClose ==
  /\ tpc = "open"
  /\ tpc' = "idle"
  /\ UNCHANGED taddr

TunnelNext == (\E s \in Slots : GuestAddr(s)) \/ DialGuest \/ DialFails \/ TunnelClose

TunnelSpec == TunnelInit /\ [][TunnelNext]_tunnelVars
=============================================================================
