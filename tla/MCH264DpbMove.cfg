\* Three references, so that the one in the middle can be moved to the front.
CONSTANTS
  MaxRef = 3
  Reorder = 0
  MaxFrameNum = 4
  MaxLong = 0
  MaxMods = 1
  MaxPoc = 4
  MaxMmco = 0
  MaxShown = 2
SPECIFICATION Spec
INVARIANTS DropsDuplicate
CHECK_DEADLOCK FALSE
