SPECIFICATION Spec
CONSTANTS
  VMs <- MCVMs
  Slots <- MCSlots
  Faults = {"iptables", "leak", "stop"}
  NRules = 2
  MaxRestarts = 2
INVARIANTS
  TypeOK
  RulesImplyTap
  NoDuplicateRules
  ReadyIsReachable
  ReturnsClean
PROPERTY ImplementsBackend
CHECK_DEADLOCK FALSE
