\* A turn of two steps, two calls a reply and one large payload.
CONSTANTS
  Tools = {read_file}
  Unknown = made_up
  MaxSteps = 2
  MaxCalls = 2
  MaxSpills = 1
SPECIFICATION FairSpec
INVARIANTS
  TypeOK
  SpilledIsStored
  ModelSeesTheJournal
  FinishedFileHidesNothing
  SuccessIsDurable
PROPERTIES
  KeepsRecord
  TurnEnds
CHECK_DEADLOCK FALSE
