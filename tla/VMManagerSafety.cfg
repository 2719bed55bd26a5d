SPECIFICATION Spec
CONSTANTS
  VMs <- MCVMs
  Slots <- MCSlots
  Sizes <- MCSizes
  Faults = {"stop"}
  MaxCreates = 2
  Overlap = {}
  Deleters = {d1}
  Reaper = reaper
  MaxCrashes = 1
  CPUTotal = 2
  RAMTotalMb = 4
  HostReservedRamMb = 2
  IntHalf = 64
INVARIANTS
  TypeOK
  SlotsExclusive
  CountBounded
  OwnNetwork
  FreeSlotsClean
  DiskTracksMemory
  AckedRemembered
PROPERTIES
  StopHitsOwnVM
  KeepsContract
CHECK_DEADLOCK FALSE
