\* Two learned skills, one written by hand, one free name; three commands, two at a time.
CONSTANTS
  Learned = {a, b}
  Handwritten = {u}
  Free = {c}
  MaxReports = 1
  MaxRunning = 2
  MaxCommands = 3
SPECIFICATION Spec
INVARIANTS
  TypeOK
  ActiveOnEvidence
  ReplacementExists
PROPERTIES
  PersonsSkillsLeftAlone
  OnlyTheGatePromotes
  PinnedStaysPut
SYMMETRY LearnedSymmetry
CHECK_DEADLOCK FALSE
