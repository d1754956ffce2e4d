\* Two sessions and the operator on three memories; two reviewers; two curators.
CONSTANTS
  Words = {x, y}
  Sessions = {s, t}
  RecallLimit = 1
  Known = 2
  MaxMemories = 3
  MaxTurns = 2
  MaxOrders = 2
  Reviewers = {r, q}
  Shapes = {e, f, g}
  LedgerSize = 2
  MaxRecorded = 5
  Curators = {c, d}
  MinInterval = 2
  MaxTime = 2
  MaxPauses = 2
SPECIFICATION Spec
INVARIANTS
  TypeOK
  AskedOnceWhileRemembered
PROPERTIES
  PromptsKeepTheOperatorsWord
  CuratesWhenItMay
SYMMETRY Symmetry
CHECK_DEADLOCK FALSE
