\* Every kind of input, four of them.
CONSTANTS
  None = None
  A = A
  B = B
  LateTicks = {"engine", "ark"}
  Ops <- MCOps
  Tables <- MCTables
  HasIntro <- MCHasIntro
  TransitionIn <- MCTransitionIn
  TransitionLoop <- MCTransitionLoop
  Opinfo <- MCOpinfo
  QueueCap = 2
  Kinds = {"set", "reload", "auto", "move", "lost", "ipc"}
  MaxInputs = 4
  GoOn = FALSE
SPECIFICATION FairSpec
INVARIANTS SwitchIsTrue
PROPERTIES RequestsSettle
CHECK_DEADLOCK FALSE
