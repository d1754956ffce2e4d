\* A bot stopped in the middle of a batch.
SPECIFICATION Spec
CONSTANTS
  Prompts = {}
  Sessions = {s1}
  NoPrompt = NoPrompt
  MaxRequests = 0
  Clients = {c1}
  MaxConcurrentTurns = 2
  RateLimit = 2
  RateWindow = 2
  MaxTime = 0
  Users = {ann, bob}
  Owners = {ann}
  MaxUpdates = 2
  MaxLapses = 1
  MaxCodes = 2
CHECK_DEADLOCK FALSE
INVARIANT ForgottenWereProcessed
