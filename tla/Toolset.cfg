SPECIFICATION Spec
CONSTANTS
  Callers = {c1, c2}
  Starter = c1
  MaxCalls = 3
  Threads = {t1, t2}
  DenyLists <- MCDenyLists
  Numbers <- MCNumbers
  OwnArch = x86_64
  Archs = {x86_64, i386}
CHECK_DEADLOCK FALSE
INVARIANTS
  TypeOK
  OwnReplyOnly
  ToolsRunAsRecorded
  FilterDecides
PROPERTIES
  KeepsPromise
  Settles
