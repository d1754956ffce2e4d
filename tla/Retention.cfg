CONSTANTS
  Turns <- MCTurns
  Recorded <- MCRecorded
  Prompts <- MCPrompts
  Answers <- MCAnswers
  Indexers = {i1}
  Janitors = {j1, j2}
  MaxCommands = 2
SYMMETRY MCSymmetry
SPECIFICATION Spec
INVARIANTS
  TypeOK
  PayloadsKept
  IndexHoldsNothingElse
  
  AlteredIsMarked
CHECK_DEADLOCK FALSE
