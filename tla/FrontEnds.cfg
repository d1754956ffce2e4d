SPECIFICATION Spec
CONSTANTS
  Prompts = {p1, p2}
  Sessions = {s1, s2}
  NoPrompt = NoPrompt
  MaxRequests = 4
  Clients = {c1}
  MaxConcurrentTurns = 2
  RateLimit = 2
  RateWindow = 2
  MaxTime = 3
  Users = {ann, bob}
  Owners = {ann}
  MaxUpdates = 2
  MaxLapses = 1
  MaxCodes = 2
CHECK_DEADLOCK FALSE
INVARIANTS
  TypeOK
  EditorCanCancel
  RateHolds
  SlotsComeBack
  UpdatesAreHandled
  PairedByLiveCode
