SPECIFICATION Spec
CONSTANTS
  VMs <- MCVMs
  Slots <- MCSlots
  Sizes <- MCSizes
  Faults = {"recycle"}
  MaxCreates = 1
  Overlap = {}
  Deleters = {d1}
  Reaper = reaper
  MaxCrashes = 1
  CPUTotal = 2
  RAMTotalMb = 4
  HostReservedRamMb = 2
  IntHalf = 64
PROPERTIES
  StopHitsOwnVM
CHECK_DEADLOCK FALSE
