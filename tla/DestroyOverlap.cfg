SPECIFICATION Spec
CONSTANTS
  VMs <- MCVMs
  Slots <- MCSlots
  Sizes <- MCSizes
  Faults = {}
  MaxCreates = 2
  Overlap = {"destroy"}
  Deleters = {d1}
  Reaper = reaper
  MaxCrashes = 0
  CPUTotal = 2
  RAMTotalMb = 4
  HostReservedRamMb = 2
  IntHalf = 64
INVARIANTS
  SlotsExclusive
CHECK_DEADLOCK FALSE
