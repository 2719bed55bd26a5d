SPECIFICATION Spec
CONSTANTS
  Blocks = 8
  DockerPortBase = 10000
  CPUTotal = 3
  RAMTotalMb = 8200
  HostReservedRamMb = 8195
  IntHalf = 1048576
  Second = 10
  Minute = 600
  MaxPort = 65535
  Counters = 4
  Edge = 7
  Starts = {0, 100, 300, 590, 597, 598, 600, 880, 950}
  UpTimes = {0, 250, 294, 296, 299, 300, 610, 890, 897, 901, 2000}
  Hangups = {0, 200, 305}
INVARIANTS
  SlotsDisjoint
  LinksArePrivate
  AdmissionErrsByOverflowOnly
  ConfigIsUsable
  UndetectedRamIsSafe
  
  WaitIsBounded
  UpInTimeIsReady
  OwnTimeoutFirst
