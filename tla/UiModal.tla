------------------------------ MODULE UiModal ------------------------------
(***************************************************************************)
(* The modal dialogs of the device and everybody who competes for the      *)
(* screen: sessions opened by an IPC client (ui/uix_session.c), the        *)
(* requests handed to the LVGL thread (ui/ipc_helper.c), the queues of     *)
(* warnings and of local questions (ui_services_device.c), the confirm and *)
(* the USB screens, and the keys of the user (screen_manager.c).           *)
(*                                                                         *)
(* Three threads act: the IPC thread, the LVGL thread, which alone touches *)
(* the screen, and a timer thread.  A callback of the LVGL thread takes at *)
(* most one lock that others compete for, so it is one step.  A push waits *)
(* for room: it is a step of its own, and its thread does nothing else     *)
(* until it is done.                                                       *)
(***************************************************************************)
EXTENDS Naturals, Sequences, SequencesExt

CONSTANTS
  QueueCap,       \* capacity of the three queues (10 in the code)
  MaxSessions,    \* sessions a client opens
  MaxWarnings,    \* warnings raised
  MaxEndKeys,     \* presses of the power key
  MaxForced,      \* screens a client switches to
  Warners,        \* threads that raise warnings
  ForcedScreens,  \* the screens it may switch to
  Timed,          \* may a session have a deadline: a subset of BOOLEAN
  OutOfMemory     \* may malloc fail in a handler: a subset of BOOLEAN

Screens == {"spinner", "menu", "confirm", "usb", "warning"}
Threads == {"ipc", "lvgl", "timer"}
Kinds   == {"confirm", "usb"}
Answers == {"confirmed", "denied"}

ASSUME ModalAssumption ==
  /\ QueueCap \in Nat \ {0}
  /\ MaxSessions \in Nat /\ MaxWarnings \in Nat /\ MaxEndKeys \in Nat
  /\ MaxForced \in Nat
  /\ Warners \subseteq Threads
  /\ ForcedScreens \subseteq Screens
  /\ Timed \subseteq BOOLEAN
  /\ OutOfMemory \subseteq BOOLEAN /\ FALSE \in OutOfMemory

VARIABLES
  sess,     \* the only session slot: [id, kind, state, timed]
  nextId,   \* the id of the next session
  due,      \* the deadline of the session has passed
  queue,    \* the three queues to the LVGL thread
  call,     \* the push each thread is in, or Idle
  screen,   \* s_current
  dialog,   \* the confirm screen: the session it shows, and its callbacks
  shown,    \* g_uix_shown_id
  picker,   \* the session of the USB screen
  rested,   \* the display time of the last warning is over
  budget,   \* what is left of the bounds on warnings, power keys and screens
  running   \* g_running

vars == <<sess, nextId, due, queue, call, screen, dialog, shown, picker,
          rested, budget, running>>
uiVars == <<screen, dialog, shown, picker>>

Idle == [q |-> "none", item |-> "none"]
SessionIds == 0 .. MaxSessions
Items == {"show", "dismiss", "plain", "log", "shutdown"} \cup ForcedScreens
Calls == {Idle} \cup [q : {"helper", "warn", "confirm"}, item : Items]

TypeOK ==
  /\ sess \in [id : SessionIds, kind : Kinds \cup {"none"}, timed : BOOLEAN,
               state : {"pending", "timeout", "cancelled"} \cup Answers]
  /\ nextId \in 1 .. MaxSessions + 1
  /\ due \in BOOLEAN /\ rested \in BOOLEAN /\ running \in BOOLEAN
  /\ DOMAIN queue = {"helper", "warn", "confirm"}
  /\ \A q \in DOMAIN queue :
       /\ Len(queue[q]) <= QueueCap
       /\ \A i \in DOMAIN queue[q] : queue[q][i] \in Items
  /\ call \in [Threads -> Calls]
  /\ screen \in Screens
  /\ dialog \in [id : SessionIds, cb : {"none", "uix", "quit", "log"}]
  /\ shown \in SessionIds /\ picker \in SessionIds
  /\ budget \in [warn : 0 .. MaxWarnings, end : 0 .. MaxEndKeys, force : 0 .. MaxForced]

Init ==
  /\ sess = [id |-> 0, kind |-> "none", timed |-> FALSE, state |-> "pending"]
  /\ nextId = 1
  /\ due = FALSE
  /\ queue = [q \in {"helper", "warn", "confirm"} |-> <<>>]
  /\ call = [t \in Threads |-> Idle]
  /\ screen = "spinner"
  /\ dialog = [id |-> 0, cb |-> "none"]
  /\ shown = 0 /\ picker = 0
  /\ rested = FALSE
  /\ budget = [warn |-> MaxWarnings, end |-> MaxEndKeys, force |-> MaxForced]
  /\ running = TRUE

----------------------------------------------------------------------------
\* Pushes, of any thread to any queue.

Free(t) == running /\ call[t] = Idle

Calling(t, q, item) == call' = [call EXCEPT ![t] = [q |-> q, item |-> item]]

\* Mutant: an off-by-one in the capacity.
HasRoomOffByOne(q) == Len(queue[q]) <= QueueCap

HasRoom(q) == Len(queue[q]) < QueueCap

Push(t) ==
  /\ running
  /\ call[t] # Idle
  /\ HasRoom(call[t].q)
  /\ queue' = [queue EXCEPT ![call[t].q] = Append(@, call[t].item)]
  /\ call' = [call EXCEPT ![t] = Idle]
  /\ UNCHANGED <<sess, nextId, due, uiVars, rested, budget, running>>

Pop(q) == queue' = [queue EXCEPT ![q] = Tail(@)]

----------------------------------------------------------------------------
\* The session slot, one operation under its mutex each.

Pending == sess.kind # "none" /\ sess.state = "pending"

Matches(i) == i # 0 /\ i = sess.id /\ sess.kind # "none"

Released == [sess EXCEPT !.kind = "none", !.id = 0]

\* Mutant: whatever session there is gets the answer.
FinishUnmatched(i, answer) ==
  sess' = IF sess.state = "pending" THEN [sess EXCEPT !.state = answer] ELSE sess

\* uix_session_finish: ignored when the session is gone or has its result.
Finish(i, answer) ==
  sess' = IF i # 0 /\ i = sess.id /\ sess.state = "pending"
          THEN [sess EXCEPT !.state = answer] ELSE sess

\* Mutant: a popup request lost when the session is opened.
SessionStartSilent(kind, timed, oom) ==
  /\ Free("ipc")
  /\ nextId <= MaxSessions
  /\ ~Pending
  /\ sess' = [id |-> nextId, kind |-> kind, timed |-> timed, state |-> "pending"]
  /\ nextId' = nextId + 1
  /\ due' = FALSE
  /\ UNCHANGED <<call, queue, uiVars, rested, budget, running>>

\* IPC_REQ_UIX_CONFIRM_START and _USB_SELECT_START.  The session is opened
\* first; the popup request may then fail for want of memory.
SessionStart(kind, timed, oom) ==
  /\ Free("ipc")
  /\ nextId <= MaxSessions
  /\ ~Pending
  /\ sess' = [id |-> nextId, kind |-> kind, timed |-> timed, state |-> "pending"]
  /\ nextId' = nextId + 1
  /\ due' = FALSE
  /\ IF oom THEN UNCHANGED call ELSE Calling("ipc", "helper", "show")
  /\ UNCHANGED <<queue, uiVars, rested, budget, running>>

\* IPC_REQ_UIX_SESSION_POLL of a session with a result.
SessionPoll(i) ==
  /\ Free("ipc")
  /\ Matches(i)
  /\ sess.state # "pending"
  /\ sess' = Released
  /\ UNCHANGED <<nextId, due, queue, call, uiVars, rested, budget, running>>

\* IPC_REQ_UIX_SESSION_CANCEL.
SessionCancel(i, oom) ==
  /\ Free("ipc")
  /\ Matches(i)
  /\ sess' = [Released EXCEPT !.state = IF @ = "pending" THEN "cancelled" ELSE @]
  /\ IF oom THEN UNCHANGED call ELSE Calling("ipc", "helper", "dismiss")
  /\ UNCHANGED <<nextId, due, queue, uiVars, rested, budget, running>>

\* IPC_REQ_UI_SET_CURRENT_SCREEN.
SetCurrentScreen(s) ==
  /\ Free("ipc")
  /\ budget.force > 0
  /\ Calling("ipc", "helper", s)
  /\ budget' = [budget EXCEPT !.force = @ - 1]
  /\ UNCHANGED <<sess, nextId, due, queue, uiVars, rested, running>>

\* ui_warning and ui_warning_custom.  "log" stands for a warning with a log
\* file some installed app opens; a client's warnings have none.
RaiseWarning(t, kind) ==
  /\ Free(t)
  /\ budget.warn > 0
  /\ t = "ipc" => kind = "plain"
  /\ Calling(t, "warn", kind)
  /\ budget' = [budget EXCEPT !.warn = @ - 1]
  /\ UNCHANGED <<sess, nextId, due, queue, uiVars, rested, running>>

----------------------------------------------------------------------------
\* The timers of the LVGL thread.

ShowDialog(i, cb) ==
  /\ dialog' = [id |-> i, cb |-> cb]
  /\ screen' = "confirm"

\* uix_show, of the session there is now: perhaps a later one.
UixShow ==
  IF Pending
  THEN /\ shown' = sess.id
       /\ IF sess.kind = "confirm"
          THEN ShowDialog(sess.id, "uix") /\ UNCHANGED picker
          ELSE screen' = "usb" /\ picker' = sess.id /\ UNCHANGED dialog
  ELSE UNCHANGED uiVars

\* uix_dismiss_ui: whatever the confirm screen is asking.
UixDismiss ==
  /\ screen' = IF screen \in {"confirm", "usb"} THEN "spinner" ELSE screen
  /\ shown' = 0
  /\ UNCHANGED <<dialog, picker>>

\* ui_ipc_helper_timer_cb: one request per tick.
HelperTimer ==
  /\ Free("lvgl")
  /\ queue.helper # <<>>
  /\ Pop("helper")
  /\ CASE Head(queue.helper) = "show"    -> UixShow
       [] Head(queue.helper) = "dismiss" -> UixDismiss
       [] OTHER -> screen' = Head(queue.helper) /\ UNCHANGED <<dialog, shown, picker>>
  /\ UNCHANGED <<sess, nextId, due, call, rested, budget, running>>

\* Mutant: the deadline only looked at while the popup is in front.
SessionTickInFront ==
  /\ Free("lvgl")
  /\ Pending /\ sess.timed /\ due /\ screen = sess.kind
  /\ sess' = [sess EXCEPT !.state = "timeout"]
  /\ UixDismiss
  /\ UNCHANGED <<nextId, due, queue, call, rested, budget, running>>

\* The end of every tick of that timer.
SessionTick ==
  /\ Free("lvgl")
  /\ Pending /\ sess.timed /\ due
  /\ sess' = [sess EXCEPT !.state = "timeout"]
  /\ UixDismiss
  /\ UNCHANGED <<nextId, due, queue, call, rested, budget, running>>

\* Mutant: only the session slot counts, and only until it is shown.
ModalBusySlot == Pending /\ shown = 0

ModalBusy == screen \in {"confirm", "usb"} \/ Pending

WarnTimer ==
  /\ Free("lvgl")
  /\ ~ModalBusy
  /\ queue.confirm = <<>>
  /\ rested
  /\ queue.warn # <<>>
  /\ Pop("warn")
  /\ IF Head(queue.warn) = "log"
     THEN ShowDialog(0, "log")
     ELSE screen' = "warning" /\ UNCHANGED dialog
  /\ rested' = FALSE
  /\ UNCHANGED <<sess, nextId, due, call, shown, picker, budget, running>>

\* Mutant: a question that lets the warnings go first, as they let it.
ConfirmTimerPolite ==
  /\ Free("lvgl")
  /\ ~ModalBusy
  /\ queue.confirm # <<>>
  /\ queue.warn = <<>>
  /\ Pop("confirm")
  /\ ShowDialog(0, "quit")
  /\ UNCHANGED <<sess, nextId, due, call, shown, picker, rested, budget, running>>

ConfirmTimer ==
  /\ Free("lvgl")
  /\ ~ModalBusy
  /\ queue.confirm # <<>>
  /\ Pop("confirm")
  /\ ShowDialog(0, "quit")
  /\ UNCHANGED <<sess, nextId, due, call, shown, picker, rested, budget, running>>

----------------------------------------------------------------------------
\* The user.

\* The power key asks for a shutdown, whatever is on screen.
EndKey ==
  /\ Free("lvgl")
  /\ budget.end > 0
  /\ Calling("lvgl", "confirm", "shutdown")
  /\ budget' = [budget EXCEPT !.end = @ - 1]
  /\ UNCHANGED <<sess, nextId, due, queue, uiVars, rested, running>>

\* A button of the confirm screen, or ESC there, which is "cancel".
Press(answer) ==
  /\ Free("lvgl")
  /\ screen = "confirm"
  /\ screen' = "spinner"
  /\ dialog' = [dialog EXCEPT !.cb = "none"]
  /\ IF dialog.cb = "uix"
     THEN Finish(shown, answer) /\ shown' = 0
     ELSE UNCHANGED <<sess, shown>>
  /\ running' = ~(dialog.cb = "quit" /\ answer = "confirmed")
  /\ UNCHANGED <<nextId, due, queue, call, picker, rested, budget>>

\* A button of the USB screen.
Pick ==
  /\ Free("lvgl")
  /\ screen = "usb"
  /\ screen' = "spinner"
  /\ picker' = 0
  /\ Finish(picker, "confirmed")
  /\ UNCHANGED <<nextId, due, queue, call, dialog, shown, rested, budget, running>>

\* ESC and the keys of the spinner: the other screens are one "menu", from
\* where the user also asks to format the disk.
Navigate ==
  /\ Free("lvgl")
  /\ \/ screen \in {"usb", "warning", "spinner"} /\ screen' = "menu" /\ UNCHANGED dialog
     \/ screen = "menu" /\ screen' = "spinner" /\ UNCHANGED dialog
     \/ screen = "menu" /\ ShowDialog(0, "quit")
  /\ UNCHANGED <<sess, nextId, due, queue, call, shown, picker, rested, budget, running>>

----------------------------------------------------------------------------
DeadlinePasses ==
  /\ running /\ Pending /\ sess.timed /\ ~due
  /\ due' = TRUE
  /\ UNCHANGED <<sess, nextId, queue, call, uiVars, rested, budget, running>>

WarningRests ==
  /\ running /\ ~rested
  /\ rested' = TRUE
  /\ UNCHANGED <<sess, nextId, due, queue, call, uiVars, budget, running>>

Next ==
  \/ \E kind \in Kinds, timed \in Timed, oom \in OutOfMemory : SessionStart(kind, timed, oom)
  \/ \E i \in 1 .. MaxSessions :
       SessionPoll(i) \/ \E oom \in OutOfMemory : SessionCancel(i, oom)
  \/ \E s \in ForcedScreens : SetCurrentScreen(s)
  \/ \E t \in Warners, kind \in {"plain", "log"} : RaiseWarning(t, kind)
  \/ \E t \in Threads : Push(t)
  \/ HelperTimer \/ SessionTick \/ WarnTimer \/ ConfirmTimer
  \/ EndKey \/ Pick \/ Navigate \/ \E answer \in Answers : Press(answer)
  \/ DeadlinePasses \/ WarningRests

Spec == Init /\ [][Next]_vars

\* Threads run, LVGL timers fire, time passes; clients and the user need not
\* do anything.
Fairness ==
  /\ \A t \in Threads : WF_vars(Push(t))
  /\ WF_vars(HelperTimer) /\ WF_vars(SessionTick)
  /\ WF_vars(WarnTimer) /\ WF_vars(ConfirmTimer)
  /\ WF_vars(DeadlinePasses) /\ WF_vars(WarningRests)

FairSpec == Spec /\ Fairness

----------------------------------------------------------------------------
\* The popup of the pending session is on screen and would answer for it.
PopupUp ==
  /\ Pending
  /\ screen = sess.kind
  /\ IF sess.kind = "confirm"
     THEN dialog = [id |-> sess.id, cb |-> "uix"] /\ shown = sess.id
     ELSE picker = sess.id

ShowInFlight ==
  \/ call["ipc"] = [q |-> "helper", item |-> "show"]
  \/ Contains(queue.helper, "show")

StillPending == Pending' /\ sess'.id = sess.id

\* An answer is given only by a user who is looking at the question: when a
\* session becomes confirmed or denied, its own popup was on screen.
AnswerMatchesPopup ==
  [][Pending /\ sess'.id = sess.id /\ sess'.state \in Answers => PopupUp]_vars

\* A selection is confirmed by selecting something (docs/ipc_reference.md,
\* UIX_CONFIRMED).  It does not hold when a client may show the confirm screen:
\* README, section 6.
ConfirmedByPicking ==
  [][Pending /\ sess.kind = "usb" /\ sess'.id = sess.id /\ sess'.state = "confirmed" =>
       screen = "usb"]_vars

\* What the popup of a pending session displaces it again: the user, a client
\* that switches the screen, a dialog the user opens; a dismissal that was
\* meant for an earlier session only while the popup is still to be raised
\* again.  Warnings and queued questions never do.
PopupUndisturbed ==
  [][PopupUp /\ StillPending /\ ~PopupUp' =>
       screen' \in {"menu"} \cup ForcedScreens \/ ShowInFlight']_vars

\* A pending session has been shown to the user, or is about to be: no request
\* to show it is consumed by an earlier, cancelled or expired one.
PendingIsAnnounced == Pending => shown = sess.id \/ ShowInFlight

\* A session with a deadline ends, whatever else happens to the screen.
DeadlineEnds ==
  \A i \in 1 .. MaxSessions :
    (Pending /\ sess.timed /\ sess.id = i) ~> (~(Pending /\ sess.id = i) \/ ~running)

\* Unless the user keeps opening dialogs, or sits for ever on one that has no
\* deadline, a press of the power key is followed by its question: sessions with
\* deadlines and a warning do not withhold it, not even together.
ShutdownIsAsked ==
  <>[](screen # "confirm" /\ (screen = "usb" => Pending)) =>
    [](queue.confirm # <<>> => <>(queue.confirm = <<>> \/ ~running))

\* A pending session is announced, and its popup stays until it is settled.
PopupShown == [](TypeOK /\ PendingIsAnnounced) /\ PopupUndisturbed

\* Neither a session nor the question of the power key waits for ever.
QuestionsEnd == DeadlineEnds /\ ShutdownIsAsked
=============================================================================
