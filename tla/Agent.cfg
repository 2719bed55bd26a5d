SPECIFICATION AgentLiveSpec
CONSTANTS
  VMs <- MCTwoVMs
  Slots <- MCSlots
  Sizes <- MCUnevenSizes
  Faults = {"stop","leak","recycle"}
  MaxCreates = 1
  Overlap = {}
  Deleters = {d1}
  Reaper = reaper
  MaxCrashes = 1
  CPUTotal = 2
  RAMTotalMb = 4
  HostReservedRamMb = 2
  IntHalf = 64
INVARIANTS
  OvercommitBounded
PROPERTIES
  TunnelReachesItsVM
  ReaperBackstop
  ReservationSettles
CHECK_DEADLOCK FALSE
