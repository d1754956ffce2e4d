CONSTANTS
  Tools = {read_file}
  Unknown = made_up
  MaxSteps = 2
  MaxCalls = 1
  MaxSpills = 1
SPECIFICATION Spec
INVARIANT ClosedOutIsReadable
CHECK_DEADLOCK FALSE
