---------------------------- MODULE AgentTunnels ----------------------------
(***************************************************************************)
(* The manager and a port tunnel running beside each other: the handler    *)
(* reads the VM's slot under the mutex and dials the guest address later,  *)
(* when creates, destroys, the reaper and failures have gone on.  Tunnels  *)
(* share nothing with each other, so one stands for any; it is used again  *)
(* and again.                                                              *)
(***************************************************************************)
EXTENDS VMManager

VARIABLES
  tpc, taddr,  \* the tunnel's state and dial target, as in Tunnel
  tvm,         \* the VM the request names
  tpeer        \* the VM whose guest answered the dial

T == INSTANCE Tunnel

tunnelVars == <<tpc, taddr, tvm, tpeer>>
allVars == <<vars, tunnelVars>>

AgentInit ==
  /\ Init
  /\ tpc = "idle" /\ taddr = 0 /\ tvm = None /\ tpeer = None

\* Manager.GuestAddr, under the mutex; an unknown id is answered 404.
GuestAddr(id) ==
  /\ up /\ id \in vms
  /\ T!GuestAddr(slot[id])
  /\ tvm' = id
  /\ UNCHANGED <<vars, tpeer>>

\* The connection is accepted by whatever guest runs behind the slot's tap.
DialGuest ==
  /\ tap[taddr] # None /\ Live(tap[taddr])
  /\ T!DialGuest
  /\ tpeer' = tap[taddr]
  /\ UNCHANGED <<vars, tvm>>

\* Nobody accepts within ten seconds, or the tunnel ends.
TunnelEnds ==
  /\ T!DialFails \/ T!TunnelClose
  /\ tvm' = None /\ tpeer' = None
  /\ UNCHANGED vars

\* The manager goes on; tunnels end with the agent's process.
ManagerStep ==
  /\ Next
  /\ IF up' THEN UNCHANGED tunnelVars ELSE tpc' = "idle" /\ tvm' = None /\ tpeer' = None /\ UNCHANGED taddr

AgentNext == ManagerStep \/ (\E id \in VMs : GuestAddr(id)) \/ DialGuest \/ TunnelEnds

AgentSpec == AgentInit /\ [][AgentNext]_allVars

AgentLiveSpec == AgentSpec /\ Fairness

(***************************************************************************)
(* Properties.                                                             *)
(***************************************************************************)
\* "The dial target is derived strictly from the VM's own slot": although slots
\* are reused and the address is dialled some time after it was looked up, the
\* guest that answers is the one the request names, as long as that VM is still
\* registered when it is dialled.
TunnelReachesItsVM ==
  [][(tpc = "found" /\ tpc' = "open") => (tpeer' = tvm \/ tvm \notin vms)]_allVars

\* "A caller can pick a port but never another VM": the guest that answers a
\* tunnel's dial is the one the request names, whatever happened to that VM
\* between the lookup and the dial.
TunnelNeverStrays ==
  [][(tpc = "found" /\ tpc' = "open") => tpeer' = tvm]_allVars
=============================================================================
