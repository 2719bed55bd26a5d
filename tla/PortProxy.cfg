SPECIFICATION LiveSpec
CONSTANTS
  Slots = {0, 1}
  MaxBytes = 2
  Window = 2
INVARIANTS
  StreamsIntact
  ReturnsClosed
PROPERTIES
  FinisherForwarded
  GoroutinesEnd
  GoneSideEndsPipe
  ImplementsTunnel
CHECK_DEADLOCK FALSE
