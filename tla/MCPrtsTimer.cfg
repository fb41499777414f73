\* Two timers and two slots, callbacks that keep to their interval or not.  A slot is
\* reused while threads of its earlier use are on their way; generations and
\* their tags wrap (mod 4).
CONSTANTS
  Uses = {u1, u2}
  None = None
  Failed = Failed
  TimerMax = 2
  GenMod = 4
  TagMod = 4
  FireCounts <- OnceTwiceForever
  MaxInFlight = 2
  MaxFires = 3
  Punctual = {TRUE, FALSE}
SPECIFICATION FairSpec
INVARIANTS SlotPartition StaysArmed FireBudget CallbacksTrue
PROPERTIES QuietAfterCancel TimerCompletes
\* The callers may stop creating timers.
CHECK_DEADLOCK FALSE
