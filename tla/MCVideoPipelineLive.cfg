\* Two sessions after an earlier one, a pacer, fewer slots than the code takes; a free
\* queue with room for them and the frame left over.
CONSTANTS
  NSlots = 4
  MaxRef = 1
  Reorder = 0
  Smooth = 1
  DisplayCap = 2
  FreeCap = 5
  MaxGen = 3
  Faults = FALSE
  Impatient = FALSE
  NoItem = NoItem
SPECIFICATION FairSpecShown
INVARIANTS ScreenKept
PROPERTIES FramesKeepComing StopTerminates
\* Nobody need play another session.
CHECK_DEADLOCK FALSE
