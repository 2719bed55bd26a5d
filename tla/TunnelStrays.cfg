SPECIFICATION AgentSpec
CONSTANTS
  VMs <- MCTwoVMs
  Slots <- MCSlots
  Sizes <- MCSizes
  Faults = {}
  MaxCreates = 1
  Overlap = {}
  Deleters = {d1}
  Reaper = reaper
  MaxCrashes = 0
  CPUTotal = 2
  RAMTotalMb = 4
  HostReservedRamMb = 2
  IntHalf = 64
PROPERTIES
  TunnelNeverStrays
CHECK_DEADLOCK FALSE
