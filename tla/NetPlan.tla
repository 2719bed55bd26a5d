------------------------------ MODULE NetPlan ------------------------------
(***************************************************************************)
(* The network plan of a slot, a pure function of the host's address base  *)
(* and the slot index: a block of four addresses, the tap device's name    *)
(* (one per slot index, so the index stands for it) and the host port.     *)
(***************************************************************************)
EXTENDS Integers

CONSTANTS
  Blocks,           \* the address space holds Blocks blocks of four (2^30 for IPv4)
  DockerPortBase    \* DOCKER_PORT_BASE

ASSUME NetPlanAssumption == Blocks \in Nat \ {0} /\ DockerPortBase \in Nat

\* Addresses are uint32 in the code: arithmetic is modulo the address space.
Address(n) == n % (4 * Blocks)

blockUnscaled(base, slot) == Address(base + slot)

blockAtHost(base, slot) == Address(base + Address(slot * 4) + 1)

block(base, slot) == Address(base + Address(slot * 4))

dockerPort(portBase, slot) == portBase + slot

deriveNetConfig(base, slot) ==
  [ Slot       |-> slot,
    HostIP     |-> Address(block(base, slot) + 1),
    GuestIP    |-> Address(block(base, slot) + 2),
    DockerPort |-> dockerPort(DockerPortBase, slot) ]

\* The /30 network an address belongs to, and its place in it (0 is the network
\* address, 3 the broadcast address): Mask is CIDRMask(30, 32).
Network(a) == a \div 4
Place(a) == a % 4

\* Two slots never meet: their host addresses, guest addresses and ports are
\* four and two different ones, wherever the base lies.
PlansDisjoint(base, s, t) ==
  LET p == deriveNetConfig(base, s)
      q == deriveNetConfig(base, t)
  IN s # t => /\ {p.HostIP, p.GuestIP} \cap {q.HostIP, q.GuestIP} = {}
              /\ p.DockerPort # q.DockerPort

\* With a base on a block boundary, host and guest are the two usable addresses
\* of one /30, and no other slot's addresses are in it: the tap link's route
\* covers its own guest only.
LinkIsPrivate(base, s, t) ==
  LET p == deriveNetConfig(base, s)
      q == deriveNetConfig(base, t)
  IN base % 4 = 0 =>
       /\ Network(p.HostIP) = Network(p.GuestIP)
       /\ Place(p.HostIP) = 1 /\ Place(p.GuestIP) = 2
       /\ s # t => Network(q.GuestIP) # Network(p.HostIP)
=============================================================================
