\* Two sessions with deadlines, which may never pass as far as safety goes; a low
\* battery warning, a press of the power key, a client that forces a screen once,
\* and queues that fill up.
CONSTANTS
  QueueCap = 2
  MaxSessions = 2
  MaxWarnings = 1
  MaxEndKeys = 1
  MaxForced = 1
  Warners = {"lvgl"}
  ForcedScreens = {"usb"}
  Timed = {TRUE}
  OutOfMemory = {FALSE}
SPECIFICATION FairSpec

PROPERTIES AnswerMatchesPopup PopupShown QuestionsEnd
\* The device may be switched off.
CHECK_DEADLOCK FALSE
