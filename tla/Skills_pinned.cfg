\* A curator and a pin.
CONSTANTS
  Learned = {a, b}
  Handwritten = {u}
  Free = {c}
  MaxReports = 1
  MaxRunning = 2
  MaxCommands = 3
SPECIFICATION Spec
PROPERTY PinnedNeverTransitioned
CHECK_DEADLOCK FALSE
