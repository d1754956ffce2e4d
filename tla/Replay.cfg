\* Both front ends; turns of up to two steps and two calls a reply.
CONSTANTS
  Fronts = {"cli", "library"}
  RunSteps = {1, 2}
  DefaultSteps = 2
  MaxCalls = 2
SPECIFICATION FairSpec
INVARIANTS
  TypeOK
  ServesOnlyItsOwnQuestion
  FinishedTurnsReplay
  OnlyWholeTurnsVerify
  ChangedWorkspaceIsSeen
PROPERTIES
  ReplayConcludes
CHECK_DEADLOCK FALSE
