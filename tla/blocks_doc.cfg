CONSTANTS
  Hour = 2
  Dur = 4
  MaxTs = 6
  MaxEntries = 3
SPECIFICATION Spec
INVARIANT WithinHalfOpen
CHECK_DEADLOCK FALSE
