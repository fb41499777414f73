\* Without a pacer: two sessions, faults, and stops that give up waiting and leave
\* their items to the next session.
CONSTANTS
  NSlots = 3
  MaxRef = 1
  Reorder = 0
  Smooth = 0
  DisplayCap = 2
  FreeCap = 7
  MaxGen = 2
  Faults = TRUE
  Impatient = TRUE
  NoItem = NoItem
SPECIFICATION Spec
INVARIANTS FramesAccounted
\* Nobody need play another session.
CHECK_DEADLOCK FALSE
