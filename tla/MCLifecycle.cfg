CONSTANTS
  None = None
  NoClient = NoClient
  A = A
  B = B
  D = D
  E = E
  C1 = C1
  C2 = C2
  Dirs = {A, B, D, E}
  Clients = {C1, C2}
  Config <- MCConfig
  Disks <- MCDisks
  Lower <- MCLower
  Scripts <- MCScripts
  AppsMax = 2
  ExtmapMax = 3
  KillPolls = 1
  MaxPids = 2
  MaxSwaps = 1
  HelperCap = 2
  Earlier <- MCEarlier
  PrtsCap = 1
SPECIFICATION MCSpec
INVARIANTS TableIsTrue AnswersInOrder
PROPERTIES EndsAreReached
CHECK_DEADLOCK FALSE
