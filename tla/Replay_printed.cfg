\* The command line, with and without the delegate tool.
CONSTANTS
  Fronts = {"cli"}
  RunSteps = {1, 2}
  DefaultSteps = 2
  MaxCalls = 1
SPECIFICATION Spec
INVARIANT PrintedReplayReproduces
CHECK_DEADLOCK FALSE
