--------------------------- MODULE UiModalProofs ---------------------------
(***************************************************************************)
(* Proofs about the modal dialogs, for queues of any capacity and any      *)
(* number of sessions, warnings and presses of keys: an answer is the one  *)
(* of a user who saw the question, and a popup is announced and stays.     *)
(***************************************************************************)
EXTENDS UiModal, TLAPS

Queues == {"helper", "warn", "confirm"}
States == {"pending", "timeout", "cancelled"} \cup Answers
Sessions == [id : SessionIds, kind : Kinds \cup {"none"}, timed : BOOLEAN, state : States]

\* TypeOK, with the queues as sequences.
Typed ==
  /\ sess \in Sessions
  /\ nextId \in 1 .. MaxSessions + 1
  /\ due \in BOOLEAN /\ rested \in BOOLEAN /\ running \in BOOLEAN
  /\ queue \in [Queues -> Seq(Items)]
  /\ \A q \in Queues : Len(queue[q]) <= QueueCap
  /\ call \in [Threads -> Calls]
  /\ screen \in Screens
  /\ dialog \in [id : SessionIds, cb : {"none", "uix", "quit", "log"}]
  /\ shown \in SessionIds /\ picker \in SessionIds
  /\ budget \in [warn : 0 .. MaxWarnings, end : 0 .. MaxEndKeys, force : 0 .. MaxForced]

----------------------------------------------------------------------------
\* Type correctness.

LEMMA InitTyped == Init => Typed
  <1> SUFFICES ASSUME Init PROVE Typed
    OBVIOUS
  <1> USE ModalAssumption DEF Init, Typed, SessionIds
  <1>1. sess \in Sessions
    BY DEF Sessions, Kinds, States
  <1>2. queue \in [Queues -> Seq(Items)] /\ \A q \in Queues : Len(queue[q]) <= QueueCap
    <2>1. <<>> \in Seq(Items) /\ Len(<<>>) = 0
      OBVIOUS
    <2> QED
      BY <2>1 DEF Queues
  <1>3. call \in [Threads -> Calls]
    BY DEF Calls
  <1>4. screen \in Screens
    BY DEF Screens
  <1>5. dialog \in [id : SessionIds, cb : {"none", "uix", "quit", "log"}]
    OBVIOUS
  <1>6. budget \in [warn : 0 .. MaxWarnings, end : 0 .. MaxEndKeys, force : 0 .. MaxForced]
    OBVIOUS
  <1>7. nextId \in 1 .. MaxSessions + 1 /\ shown \in SessionIds /\ picker \in SessionIds
    OBVIOUS
  <1>8. due \in BOOLEAN /\ rested \in BOOLEAN /\ running \in BOOLEAN
    BY DEF Init
  <1> HIDE DEF Init
  <1> QED
    BY <1>1, <1>2, <1>3, <1>4, <1>5, <1>6, <1>7, <1>8

\* What is pushed is an item, and there is room for it.
LEMMA PushTyped ==
  ASSUME Typed, NEW t \in Threads, Push(t)
  PROVE  Typed'
  <1> USE ModalAssumption DEF Typed
  <1> DEFINE q == call[t].q
             it == call[t].item
  <1>1. q \in Queues /\ it \in Items
    BY DEF Push, Calls, Idle, Queues
  <1>2. /\ queue' = [queue EXCEPT ![q] = Append(queue[q], it)]
        /\ call' = [call EXCEPT ![t] = Idle]
        /\ Len(queue[q]) < QueueCap
        /\ UNCHANGED <<sess, nextId, due, screen, dialog, shown, picker, rested, budget, running>>
    BY DEF Push, HasRoom, uiVars
  <1> HIDE DEF q, it
  <1>3. /\ Append(queue[q], it) \in Seq(Items)
        /\ Len(Append(queue[q], it)) <= QueueCap
    BY <1>1, <1>2
  <1>4. queue' \in [Queues -> Seq(Items)]
    BY <1>1, <1>2, <1>3
  <1>5. \A p \in Queues : Len(queue'[p]) <= QueueCap
    BY <1>1, <1>2, <1>3
  <1>6. call' \in [Threads -> Calls]
    BY <1>2 DEF Calls
  <1> QED
    BY <1>2, <1>4, <1>5, <1>6

\* A queue that is popped.
LEMMA PopTyped ==
  ASSUME Typed, NEW q \in Queues, queue[q] # <<>>, Pop(q)
  PROVE  /\ queue' \in [Queues -> Seq(Items)]
         /\ \A p \in Queues : Len(queue'[p]) <= QueueCap
         /\ Head(queue[q]) \in Items
  <1> USE ModalAssumption DEF Typed
  <1>1. queue[q] \in Seq(Items)
    OBVIOUS
  <1>2. /\ Tail(queue[q]) \in Seq(Items)
        /\ Head(queue[q]) \in Items
        /\ Len(Tail(queue[q])) <= QueueCap
    BY <1>1
  <1> QED
    BY <1>2 DEF Pop

LEMMA CallTyped ==
  ASSUME Typed, NEW t \in Threads, NEW q \in Queues, NEW it \in Items, Calling(t, q, it)
  PROVE  call' \in [Threads -> Calls]
  <1>1. [q |-> q, item |-> it] \in Calls
    BY DEF Calls, Queues
  <1> QED
    BY <1>1 DEF Calling, Typed

LEMMA FinishTyped ==
  ASSUME Typed, NEW i, NEW answer \in Answers, Finish(i, answer)
  PROVE  sess' \in Sessions
  BY DEF Typed, Finish, Sessions, States

LEMMA ReleasedTyped ==
  ASSUME sess \in Sessions
  PROVE  Released \in Sessions
  <1>1. 0 \in SessionIds
    BY ModalAssumption DEF SessionIds
  <1> QED
    BY <1>1 DEF Released, Sessions

LEMMA SlotTyped ==
  ASSUME Typed,
         \/ \E kind \in Kinds, timed \in Timed, oom \in OutOfMemory : SessionStart(kind, timed, oom)
         \/ \E i \in 1 .. MaxSessions :
              SessionPoll(i) \/ \E oom \in OutOfMemory : SessionCancel(i, oom)
         \/ DeadlinePasses
  PROVE  Typed'
  <1> USE ModalAssumption
  <1>0. "helper" \in Queues /\ {"show", "dismiss"} \subseteq Items /\ "ipc" \in Threads
    BY DEF Queues, Items, Threads
  <1>1. ASSUME NEW kind \in Kinds, NEW timed \in Timed, NEW oom \in OutOfMemory,
               SessionStart(kind, timed, oom)
        PROVE  Typed'
    <2>1. nextId' \in 1 .. MaxSessions + 1 /\ due' \in BOOLEAN
      <3>1. nextId' = nextId + 1 /\ due' = FALSE /\ nextId <= MaxSessions
        BY <1>1 DEF SessionStart
      <3>2. nextId \in 1 .. MaxSessions + 1 /\ MaxSessions \in Nat
        BY DEF Typed
      <3>3. nextId' \in 1 .. MaxSessions + 1
        BY <3>1, <3>2
      <3> QED
        BY <3>1, <3>3, Zenon
    <2>3. sess' \in Sessions
      <3>1. nextId \in SessionIds /\ timed \in BOOLEAN
        BY <1>1 DEF SessionStart, Typed, SessionIds
      <3> QED
        BY <1>1, <3>1 DEF SessionStart, Sessions, States
    <2>2. call' \in [Threads -> Calls]
      <3>1. CASE oom
        BY <1>1, <3>1 DEF SessionStart, Typed
      <3>2. CASE ~oom
        BY <1>0, <1>1, <3>2, CallTyped DEF SessionStart
      <3> QED
        BY <3>1, <3>2
    <2> QED
      BY <1>1, <2>1, <2>2, <2>3 DEF SessionStart, Typed, uiVars
  <1>2. ASSUME NEW i \in 1 .. MaxSessions, SessionPoll(i)
        PROVE  Typed'
    <2>1. sess' \in Sessions
      BY <1>2, ReleasedTyped DEF SessionPoll, Typed
    <2> QED
      BY <1>2, <2>1 DEF SessionPoll, Typed, uiVars
  <1>3. ASSUME NEW i \in 1 .. MaxSessions, NEW oom \in OutOfMemory, SessionCancel(i, oom)
        PROVE  Typed'
    <2>1. sess' \in Sessions
      BY <1>3, ReleasedTyped DEF SessionCancel, Typed, Sessions, States
    <2>2. call' \in [Threads -> Calls]
      <3>1. CASE ~oom
        BY <1>0, <1>3, <3>1, CallTyped DEF SessionCancel
      <3>2. CASE oom
        BY <1>3, <3>2 DEF SessionCancel, Typed
      <3> QED
        BY <3>1, <3>2
    <2> QED
      BY <1>3, <2>1, <2>2 DEF SessionCancel, Typed, uiVars
  <1>4. DeadlinePasses => Typed'
    BY DEF DeadlinePasses, Typed, uiVars
  <1> QED
    BY <1>1, <1>2, <1>3, <1>4

LEMMA CallerTyped ==
  ASSUME Typed,
         \/ \E s \in ForcedScreens : SetCurrentScreen(s)
         \/ \E t \in Warners, kind \in {"plain", "log"} : RaiseWarning(t, kind)
         \/ EndKey \/ WarningRests \/ UNCHANGED vars
  PROVE  Typed'
  <1> USE ModalAssumption
  <1>0. Queues = {"helper", "warn", "confirm"} /\ {"ipc", "lvgl"} \subseteq Threads
    BY DEF Queues, Threads
  <1>1. ASSUME NEW s \in ForcedScreens, SetCurrentScreen(s)
        PROVE  Typed'
    <2>1. call' \in [Threads -> Calls]
      BY <1>0, <1>1, CallTyped DEF SetCurrentScreen, Items
    <2>2. budget' \in [warn : 0 .. MaxWarnings, end : 0 .. MaxEndKeys, force : 0 .. MaxForced]
      BY <1>1, SMTT(30) DEF SetCurrentScreen, Typed
    <2> QED
      BY <1>1, <2>1, <2>2 DEF SetCurrentScreen, Typed, uiVars
  <1>2. ASSUME NEW t \in Warners, NEW kind \in {"plain", "log"}, RaiseWarning(t, kind)
        PROVE  Typed'
    <2>1. call' \in [Threads -> Calls]
      BY <1>0, <1>2, CallTyped DEF RaiseWarning, Items
    <2>2. budget' \in [warn : 0 .. MaxWarnings, end : 0 .. MaxEndKeys, force : 0 .. MaxForced]
      BY <1>2, SMTT(30) DEF RaiseWarning, Typed
    <2> QED
      BY <1>2, <2>1, <2>2 DEF RaiseWarning, Typed, uiVars
  <1>3. ASSUME EndKey
        PROVE  Typed'
    <2>1. call' \in [Threads -> Calls]
      BY <1>0, <1>3, CallTyped DEF EndKey, Items
    <2>2. budget' \in [warn : 0 .. MaxWarnings, end : 0 .. MaxEndKeys, force : 0 .. MaxForced]
      BY <1>3 DEF EndKey, Typed
    <2> QED
      BY <1>3, <2>1, <2>2 DEF EndKey, Typed, uiVars
  <1>4. WarningRests \/ UNCHANGED vars => Typed'
    BY DEF WarningRests, Typed, uiVars, vars
  <1> QED
    BY <1>1, <1>2, <1>3, <1>4

----------------------------------------------------------------------------
\* The requests to the LVGL thread, and what the timers and keys do to the screen.

HelperItems == {"show", "dismiss"} \cup ForcedScreens

\* Only the IPC thread asks, and for nothing else.
HelperOnly ==
  /\ queue.helper \in Seq(HelperItems)
  /\ \A t \in Threads :
       call[t].q = "helper" => t = "ipc" /\ call[t].item \in HelperItems

LEMMA PushHelper ==
  ASSUME Typed, NEW t \in Threads, Push(t)
  PROVE  /\ call' = [call EXCEPT ![t] = Idle]
         /\ call'[t].q = "none"
         /\ \A s \in Threads : s # t => call'[s] = call[s]
         /\ call[t].q = "helper" =>
              queue'.helper = Append(queue.helper, call[t].item)
         /\ call[t].q # "helper" => queue'.helper = queue.helper
  <1>1. /\ queue' = [queue EXCEPT ![call[t].q] = Append(@, call[t].item)]
        /\ call' = [call EXCEPT ![t] = Idle]
    BY DEF Push
  <1>2. queue \in [Queues -> Seq(Items)] /\ "helper" \in Queues /\ call \in [Threads -> Calls]
    BY DEF Typed, Queues
  <1> QED
    BY <1>1, <1>2 DEF Idle

\* The steps that open a call or none, and leave the queue alone.
LEMMA HelperKept ==
  ASSUME Typed, HelperOnly, queue'.helper = queue.helper,
         \A t \in Threads : call'[t].q = "helper" =>
           call'[t] = call[t] \/ (t = "ipc" /\ call'[t].item \in HelperItems)
  PROVE  HelperOnly'
  BY DEF HelperOnly, HelperItems

LEMMA OthersPop ==
  ASSUME Typed, NEW q \in {"warn", "confirm"}, Pop(q)
  PROVE  queue'.helper = queue.helper
  BY DEF Typed, Pop, Queues

LEMMA InitHelper == Init => HelperOnly
  <1> SUFFICES ASSUME Init PROVE HelperOnly
    OBVIOUS
  <1>1. queue.helper = <<>> /\ \A t \in Threads : call[t].q = "none"
    BY DEF Init, Idle
  <1>2. <<>> \in Seq(HelperItems)
    OBVIOUS
  <1> QED
    BY <1>1, <1>2 DEF HelperOnly

LEMMA HelperStep ==
  ASSUME Typed, HelperOnly, [Next]_vars
  PROVE  HelperOnly'
  <1>0. call \in [Threads -> Calls] /\ {"ipc", "lvgl"} \subseteq Threads
    BY DEF Typed, Threads
  <1>1. ASSUME NEW t \in Threads, NEW q \in Queues, NEW it, Calling(t, q, it),
               q = "helper" => t = "ipc" /\ it \in HelperItems,
               UNCHANGED queue
        PROVE  HelperOnly'
    BY <1>0, <1>1, HelperKept DEF Calling
  <1>2. ASSUME queue'.helper = queue.helper, UNCHANGED call
        PROVE  HelperOnly'
    BY <1>2, HelperKept
  <1>3. ASSUME NEW kind \in Kinds, NEW timed \in Timed, NEW oom \in OutOfMemory,
               SessionStart(kind, timed, oom)
        PROVE  HelperOnly'
    BY <1>0, <1>1, <1>2, <1>3 DEF SessionStart, Queues, HelperItems
  <1>4. ASSUME NEW i \in 1 .. MaxSessions, NEW oom \in OutOfMemory, SessionCancel(i, oom)
        PROVE  HelperOnly'
    BY <1>0, <1>1, <1>2, <1>4 DEF SessionCancel, Queues, HelperItems
  <1>5. ASSUME NEW s \in ForcedScreens, SetCurrentScreen(s)
        PROVE  HelperOnly'
    BY <1>0, <1>1, <1>5 DEF SetCurrentScreen, Queues, HelperItems
  <1>6. ASSUME NEW t \in Warners, NEW kind \in {"plain", "log"}, RaiseWarning(t, kind)
        PROVE  HelperOnly'
    BY <1>1, <1>6, ModalAssumption DEF RaiseWarning, Queues
  <1>7. EndKey => HelperOnly'
    BY <1>0, <1>1 DEF EndKey, Queues
  <1>8. ASSUME NEW t \in Threads, Push(t)
        PROVE  HelperOnly'
    <2>1. CASE call[t].q = "helper"
      <3>1. call[t].item \in HelperItems /\ queue.helper \in Seq(HelperItems)
        BY <2>1 DEF HelperOnly
      <3>2. queue'.helper \in Seq(HelperItems)
        BY <1>8, <2>1, <3>1, PushHelper
      <3> QED
        BY <1>8, <3>2, PushHelper DEF HelperOnly, HelperItems
    <2>2. CASE call[t].q # "helper"
      BY <1>8, <2>2, PushHelper, HelperKept
    <2> QED
      BY <2>1, <2>2
  <1>9. HelperTimer => HelperOnly'
    <2> SUFFICES ASSUME HelperTimer
                 PROVE  HelperOnly'
      OBVIOUS
    <2>1. queue'.helper = Tail(queue.helper) /\ UNCHANGED call /\ queue.helper # <<>>
      BY DEF HelperTimer, Pop, Typed, Queues
    <2>2. queue'.helper \in Seq(HelperItems)
      BY <2>1 DEF HelperOnly
    <2> QED
      BY <2>1, <2>2 DEF HelperOnly, HelperItems
  <1>10. WarnTimer \/ ConfirmTimer => HelperOnly'
    BY <1>2, OthersPop DEF WarnTimer, ConfirmTimer
  <1>11. ASSUME \/ \E i \in 1 .. MaxSessions : SessionPoll(i)
                \/ SessionTick \/ Pick \/ Navigate \/ \E answer \in Answers : Press(answer)
                \/ DeadlinePasses \/ WarningRests \/ UNCHANGED vars
         PROVE  HelperOnly'
    BY <1>2, <1>11
    DEF SessionPoll, SessionTick, Pick, Navigate, Press, DeadlinePasses, WarningRests, vars
  <1> QED
    BY <1>3, <1>4, <1>5, <1>6, <1>7, <1>8, <1>9, <1>10, <1>11 DEF Next

----------------------------------------------------------------------------
\* What the steps do to the screen.

\* One request of the queue.
HelperRequest(r) ==
  \/ r = "show" /\ UixShow
  \/ r = "dismiss" /\ UixDismiss
  \/ r \in ForcedScreens /\ screen' = r /\ UNCHANGED <<dialog, shown, picker>>

LEMMA HelperCases ==
  ASSUME Typed, HelperOnly, HelperTimer
  PROVE  /\ queue.helper # <<>>
         /\ queue'.helper = Tail(queue.helper)
         /\ queue.helper \in Seq(HelperItems)
         /\ HelperRequest(Head(queue.helper))
         /\ UNCHANGED <<sess, nextId, due, call, rested, budget, running>>
  <1>1. queue.helper \in Seq(HelperItems) /\ queue.helper # <<>>
    BY DEF HelperTimer, HelperOnly
  <1>2. Head(queue.helper) \in HelperItems
    BY <1>1
  <1>3. HelperRequest(Head(queue.helper))
    <2> DEFINE r == Head(queue.helper)
    <2>1. CASE r = "show"
      BY <2>1 DEF HelperTimer, HelperRequest
    <2>2. CASE r = "dismiss"
      BY <2>2 DEF HelperTimer, HelperRequest
    <2>3. CASE r \in ForcedScreens
      <3>1. r # "show" /\ r # "dismiss"
        BY <2>3, ModalAssumption DEF Screens
      <3> QED
        BY <2>3, <3>1 DEF HelperTimer, HelperRequest
    <2> QED
      BY <1>2, <2>1, <2>2, <2>3 DEF HelperItems
  <1>4. queue'.helper = Tail(queue.helper)
    BY DEF HelperTimer, Pop, Typed, Queues
  <1> QED
    BY <1>1, <1>3, <1>4 DEF HelperTimer

\* The other steps that touch the screen or the session.
Screened ==
  /\ screen' \in Screens
  /\ dialog' \in [id : SessionIds, cb : {"none", "uix", "quit", "log"}]
  /\ shown' \in SessionIds /\ picker' \in SessionIds

LEMMA ShowTyped ==
  ASSUME Typed, NEW i \in SessionIds, NEW cb \in {"none", "uix", "quit", "log"}, ShowDialog(i, cb)
  PROVE  screen' \in Screens /\ dialog' \in [id : SessionIds, cb : {"none", "uix", "quit", "log"}]
  BY DEF ShowDialog, Screens

LEMMA RequestTyped ==
  ASSUME Typed, NEW r \in HelperItems, HelperRequest(r)
  PROVE  Screened
  <1> USE DEF Typed
  <1>0. sess.id \in SessionIds /\ 0 \in SessionIds /\ {"spinner", "usb"} \subseteq Screens
    BY ModalAssumption DEF Sessions, SessionIds, Screens
  <1>1. CASE r = "show" /\ UixShow
    <2>1. CASE Pending /\ sess.kind = "confirm"
      BY <1>0, <1>1, <2>1, ShowTyped DEF UixShow, Screened
    <2>2. CASE Pending /\ sess.kind # "confirm"
      BY <1>0, <1>1, <2>2 DEF UixShow, Screened
    <2>3. CASE ~Pending
      BY <1>1, <2>3 DEF UixShow, Screened, uiVars
    <2> QED
      BY <2>1, <2>2, <2>3
  <1>2. CASE UixDismiss
    BY <1>0, <1>2 DEF UixDismiss, Screened
  <1>3. CASE r \in ForcedScreens /\ screen' = r /\ UNCHANGED <<dialog, shown, picker>>
    BY <1>3, ModalAssumption DEF Screened
  <1> QED
    BY <1>1, <1>2, <1>3 DEF HelperRequest

LEMMA TimerTyped ==
  ASSUME Typed, HelperOnly, HelperTimer \/ SessionTick \/ WarnTimer \/ ConfirmTimer
  PROVE  Typed'
  <1>0. Queues = {"helper", "warn", "confirm"} /\ 0 \in SessionIds
    BY ModalAssumption DEF Queues, SessionIds
  <1>1. ASSUME HelperTimer
        PROVE  Typed'
    <2>1. Head(queue.helper) \in HelperItems
      BY <1>1, HelperCases
    <2>2. Screened
      BY <1>1, <2>1, HelperCases, RequestTyped
    <2>3. queue' \in [Queues -> Seq(Items)] /\ \A p \in Queues : Len(queue'[p]) <= QueueCap
      BY <1>0, <1>1, PopTyped DEF HelperTimer
    <2> QED
      BY <1>1, <2>2, <2>3 DEF HelperTimer, Screened, Typed
  <1>2. ASSUME SessionTick
        PROVE  Typed'
    <2>1. sess' \in Sessions
      BY <1>2 DEF SessionTick, Typed, Sessions, States
    <2>2. screen' \in Screens /\ shown' \in SessionIds
      BY <1>0, <1>2 DEF SessionTick, UixDismiss, Typed, Screens
    <2> QED
      BY <1>2, <2>1, <2>2 DEF SessionTick, UixDismiss, Typed
  <1>3. ASSUME WarnTimer
        PROVE  Typed'
    <2>1. queue' \in [Queues -> Seq(Items)] /\ \A p \in Queues : Len(queue'[p]) <= QueueCap
      BY <1>0, <1>3, PopTyped DEF WarnTimer
    <2>2. screen' \in Screens /\ dialog' \in [id : SessionIds, cb : {"none", "uix", "quit", "log"}]
      <3>1. CASE Head(queue.warn) = "log"
        BY <1>0, <1>3, <3>1, ShowTyped DEF WarnTimer
      <3>2. CASE Head(queue.warn) # "log"
        BY <1>3, <3>2 DEF WarnTimer, Typed, Screens
      <3> QED
        BY <3>1, <3>2
    <2>3. rested' \in BOOLEAN
      BY <1>3, Zenon DEF WarnTimer
    <2> QED
      BY <1>3, <2>1, <2>2, <2>3 DEF WarnTimer, Typed
  <1>4. ASSUME ConfirmTimer
        PROVE  Typed'
    <2>1. queue' \in [Queues -> Seq(Items)] /\ \A p \in Queues : Len(queue'[p]) <= QueueCap
      BY <1>0, <1>4, PopTyped DEF ConfirmTimer
    <2>2. screen' \in Screens /\ dialog' \in [id : SessionIds, cb : {"none", "uix", "quit", "log"}]
      BY <1>0, <1>4, ShowTyped DEF ConfirmTimer
    <2> QED
      BY <1>4, <2>1, <2>2 DEF ConfirmTimer, Typed
  <1> QED
    BY <1>1, <1>2, <1>3, <1>4

LEMMA KeyTyped ==
  ASSUME Typed, Pick \/ Navigate \/ \E answer \in Answers : Press(answer)
  PROVE  Typed'
  <1>0. 0 \in SessionIds /\ {"spinner", "menu"} \subseteq Screens /\ "confirmed" \in Answers
    BY ModalAssumption DEF SessionIds, Screens, Answers
  <1>1. ASSUME Pick
        PROVE  Typed'
    <2>1. sess' \in Sessions
      BY <1>0, <1>1, FinishTyped DEF Pick
    <2> QED
      BY <1>0, <1>1, <2>1 DEF Pick, Typed
  <1>2. ASSUME Navigate
        PROVE  Typed'
    <2>1. screen' \in Screens /\ dialog' \in [id : SessionIds, cb : {"none", "uix", "quit", "log"}]
      <3>1. CASE ShowDialog(0, "quit")
        BY <1>0, <3>1, ShowTyped
      <3>2. CASE ~ShowDialog(0, "quit")
        BY <1>0, <1>2, <3>2 DEF Navigate, Typed
      <3> QED
        BY <3>1, <3>2
    <2> QED
      BY <1>2, <2>1 DEF Navigate, Typed
  <1>3. ASSUME NEW answer \in Answers, Press(answer)
        PROVE  Typed'
    <2>1. sess' \in Sessions /\ shown' \in SessionIds
      <3>1. CASE dialog.cb = "uix"
        BY <1>0, <1>3, <3>1, FinishTyped DEF Press
      <3>2. CASE dialog.cb # "uix"
        BY <1>3, <3>2 DEF Press, Typed
      <3> QED
        BY <3>1, <3>2
    <2>2. dialog' \in [id : SessionIds, cb : {"none", "uix", "quit", "log"}] /\ screen' \in Screens
      BY <1>0, <1>3 DEF Press, Typed
    <2>3. running' \in BOOLEAN
      BY <1>3, Zenon DEF Press
    <2> QED
      BY <1>3, <2>1, <2>2, <2>3 DEF Press, Typed
  <1> QED
    BY <1>1, <1>2, <1>3

LEMMA NextTyped ==
  ASSUME Typed, HelperOnly, [Next]_vars
  PROVE  Typed'
  BY SlotTyped, CallerTyped, PushTyped, TimerTyped, KeyTyped DEF Next

----------------------------------------------------------------------------
\* The session a screen was put up for is the session its buttons answer for.

\* Ids are not given twice.
IdsOld == sess.id < nextId /\ dialog.id < nextId /\ shown < nextId /\ picker < nextId

\* The confirm screen with the callbacks of a session shows g_uix_shown_id, which
\* is a question; the USB screen keeps the id of a selection.
ShownIsAsked ==
  /\ screen = "confirm" /\ dialog.cb = "uix" /\ shown # 0 => dialog.id = shown
  /\ dialog.cb = "uix" /\ dialog.id = sess.id /\ Pending => sess.kind = "confirm"
  /\ picker = sess.id /\ picker # 0 /\ Pending => sess.kind = "usb"

AInv == Typed /\ HelperOnly /\ IdsOld /\ ShownIsAsked

\* No client switches to the confirm screen, which then would have the callbacks
\* of whatever was asked there last.
NoForcedConfirm == "confirm" \notin ForcedScreens

LEMMA InitAInv == Init => AInv
  <1> SUFFICES ASSUME Init PROVE IdsOld /\ ShownIsAsked
    BY InitTyped, InitHelper DEF AInv
  <1> QED
    BY DEF Init, IdsOld, ShownIsAsked, Pending

\* The steps that change neither the screen nor the session, nor close it.
LEMMA AsksKept ==
  ASSUME Typed, IdsOld, ShownIsAsked, UNCHANGED <<nextId, screen, dialog, shown, picker>>,
         \/ UNCHANGED sess
         \/ ~Pending' /\ sess'.id \in {0, sess.id}
  PROVE  IdsOld' /\ ShownIsAsked'
  <1>1. nextId \in 1 .. MaxSessions + 1 /\ sess.id \in Nat /\ MaxSessions \in Nat
    BY ModalAssumption DEF Typed, Sessions, SessionIds
  <1>2. sess'.id < nextId
    BY <1>1 DEF IdsOld
  <1>3. Pending' => UNCHANGED sess
    OBVIOUS
  <1> QED
    BY <1>2, <1>3 DEF IdsOld, ShownIsAsked, Pending

LEMMA SlotAsks ==
  ASSUME AInv,
         \/ \E kind \in Kinds, timed \in Timed, oom \in OutOfMemory : SessionStart(kind, timed, oom)
         \/ \E i \in 1 .. MaxSessions :
              SessionPoll(i) \/ \E oom \in OutOfMemory : SessionCancel(i, oom)
         \/ DeadlinePasses
  PROVE  IdsOld' /\ ShownIsAsked'
  <1> USE DEF AInv
  <1>0. /\ nextId \in Nat /\ sess.id \in Nat /\ dialog.id \in Nat /\ shown \in Nat /\ picker \in Nat
        /\ sess \in Sessions
    BY ModalAssumption DEF Typed, Sessions, SessionIds
  <1>1. ASSUME NEW kind \in Kinds, NEW timed \in Timed, NEW oom \in OutOfMemory,
               SessionStart(kind, timed, oom)
        PROVE  IdsOld' /\ ShownIsAsked'
    <2>1. /\ sess'.id = nextId /\ nextId' = nextId + 1
          /\ UNCHANGED <<screen, dialog, shown, picker>>
      BY <1>1 DEF SessionStart, uiVars
    <2> QED
      BY <1>0, <2>1 DEF IdsOld, ShownIsAsked
  <1>2. ASSUME NEW i \in 1 .. MaxSessions,
               SessionPoll(i) \/ \E oom \in OutOfMemory : SessionCancel(i, oom)
        PROVE  IdsOld' /\ ShownIsAsked'
    <2>1. sess'.id = 0 /\ sess'.kind = "none"
      BY <1>0, <1>2 DEF SessionPoll, SessionCancel, Released, Sessions
    <2>2. UNCHANGED <<nextId, screen, dialog, shown, picker>>
      BY <1>2 DEF SessionPoll, SessionCancel, uiVars
    <2> QED
      BY <2>1, <2>2, AsksKept DEF Pending
  <1>3. DeadlinePasses => IdsOld' /\ ShownIsAsked'
    BY AsksKept DEF DeadlinePasses, uiVars
  <1> QED
    BY <1>1, <1>2, <1>3

LEMMA FinishEnds ==
  ASSUME Typed, NEW i, NEW answer \in Answers, Finish(i, answer)
  PROVE  /\ sess'.id = sess.id /\ sess'.kind = sess.kind
         /\ sess' # sess => i = sess.id /\ sess.state = "pending" /\ sess'.state = answer
  BY DEF Typed, Sessions, Finish

LEMMA TimerAsks ==
  ASSUME AInv, NoForcedConfirm, HelperTimer \/ SessionTick \/ WarnTimer \/ ConfirmTimer
  PROVE  IdsOld' /\ ShownIsAsked'
  <1> USE DEF AInv
  <1>0. /\ nextId \in Nat \ {0} /\ sess.id \in Nat /\ dialog.id \in Nat /\ shown \in Nat /\ picker \in Nat
        /\ sess \in Sessions
    BY ModalAssumption DEF Typed, Sessions, SessionIds
  <1>1. ASSUME HelperTimer
        PROVE  IdsOld' /\ ShownIsAsked'
    <2>1. UNCHANGED <<sess, nextId>> /\ HelperRequest(Head(queue.helper))
      BY <1>1, HelperCases
    <2>2. CASE UixShow
      <3>1. CASE Pending /\ sess.kind = "confirm"
        BY <1>0, <2>1, <2>2, <3>1 DEF UixShow, ShowDialog, IdsOld, ShownIsAsked, Pending
      <3>2. CASE Pending /\ sess.kind # "confirm"
        <4>1. sess.kind = "usb"
          BY <1>0, <3>2 DEF Pending, Sessions, Kinds
        <4> QED
          BY <1>0, <2>1, <2>2, <3>2, <4>1 DEF UixShow, IdsOld, ShownIsAsked, Pending
      <3>3. CASE ~Pending
        BY <2>1, <2>2, <3>3 DEF UixShow, uiVars, IdsOld, ShownIsAsked, Pending
      <3> QED
        BY <3>1, <3>2, <3>3
    <2>3. CASE UixDismiss
      BY <1>0, <2>1, <2>3 DEF UixDismiss, IdsOld, ShownIsAsked, Pending
    <2>4. CASE screen' \in ForcedScreens /\ UNCHANGED <<dialog, shown, picker>>
      BY <2>1, <2>4 DEF NoForcedConfirm, IdsOld, ShownIsAsked, Pending
    <2> QED
      BY <2>1, <2>2, <2>3, <2>4 DEF HelperRequest
  <1>2. ASSUME SessionTick
        PROVE  IdsOld' /\ ShownIsAsked'
    <2>1. sess'.id = sess.id /\ sess'.state = "timeout" /\ ~Pending'
      BY <1>0, <1>2 DEF SessionTick, Sessions, Pending
    <2>2. shown' = 0 /\ UNCHANGED <<nextId, dialog, picker>>
      BY <1>2 DEF SessionTick, UixDismiss
    <2> QED
      BY <1>0, <2>1, <2>2 DEF IdsOld, ShownIsAsked
  <1>3. ASSUME WarnTimer \/ ConfirmTimer
        PROVE  IdsOld' /\ ShownIsAsked'
    <2>1. UNCHANGED <<sess, nextId, shown, picker>>
      BY <1>3 DEF WarnTimer, ConfirmTimer
    <2>2. \/ dialog'.id = 0 /\ dialog'.cb # "uix"
          \/ UNCHANGED dialog /\ screen' = "warning"
      BY <1>3 DEF WarnTimer, ConfirmTimer, ShowDialog
    <2> QED
      BY <1>0, <2>1, <2>2 DEF IdsOld, ShownIsAsked, Pending
  <1> QED
    BY <1>1, <1>2, <1>3

LEMMA KeyAsks ==
  ASSUME AInv, Pick \/ Navigate \/ \E answer \in Answers : Press(answer)
  PROVE  IdsOld' /\ ShownIsAsked'
  <1> USE DEF AInv
  <1>0. /\ nextId \in Nat \ {0} /\ sess.id \in Nat /\ dialog.id \in Nat /\ shown \in Nat /\ picker \in Nat
        /\ sess \in Sessions
        /\ dialog \in [id : SessionIds, cb : {"none", "uix", "quit", "log"}]
    BY ModalAssumption DEF Typed, Sessions, SessionIds
  <1>1. ASSUME Pick
        PROVE  IdsOld' /\ ShownIsAsked'
    <2>1. sess'.id = sess.id /\ sess'.kind = sess.kind /\ (Pending' => Pending)
      <3>1. "confirmed" \in Answers /\ "pending" \notin Answers
        BY DEF Answers
      <3> QED
        BY <1>1, <3>1, FinishEnds DEF Pick, Pending
    <2>2. screen' = "spinner" /\ picker' = 0 /\ UNCHANGED <<dialog, shown, nextId>>
      BY <1>1 DEF Pick
    <2> QED
      BY <1>0, <2>1, <2>2 DEF IdsOld, ShownIsAsked
  <1>2. ASSUME Navigate
        PROVE  IdsOld' /\ ShownIsAsked'
    <2>1. UNCHANGED <<sess, nextId, shown, picker>>
      BY <1>2 DEF Navigate
    <2>2. \/ dialog'.id = 0 /\ dialog'.cb # "uix"
          \/ UNCHANGED dialog /\ screen' # "confirm"
      BY <1>2 DEF Navigate, ShowDialog
    <2> QED
      BY <1>0, <2>1, <2>2 DEF IdsOld, ShownIsAsked, Pending
  <1>3. ASSUME NEW answer \in Answers, Press(answer)
        PROVE  IdsOld' /\ ShownIsAsked'
    <2>1. sess'.id = sess.id /\ sess'.kind = sess.kind /\ (Pending' => Pending)
      <3>1. "pending" \notin Answers
        BY DEF Answers
      <3> QED
        BY <1>3, <3>1, FinishEnds DEF Press, Pending
    <2>2. /\ screen' = "spinner" /\ dialog'.cb = "none" /\ dialog'.id = dialog.id
          /\ UNCHANGED <<picker, nextId>> /\ shown' \in {0, shown}
      BY <1>0, <1>3 DEF Press
    <2> QED
      BY <1>0, <2>1, <2>2 DEF IdsOld, ShownIsAsked
  <1> QED
    BY <1>1, <1>2, <1>3

LEMMA OtherAsks ==
  ASSUME AInv,
         \/ \E s \in ForcedScreens : SetCurrentScreen(s)
         \/ \E t \in Warners, kind \in {"plain", "log"} : RaiseWarning(t, kind)
         \/ \E t \in Threads : Push(t)
         \/ EndKey \/ WarningRests \/ UNCHANGED vars
  PROVE  IdsOld' /\ ShownIsAsked'
  <1>1. UNCHANGED <<sess, nextId, screen, dialog, shown, picker>>
    BY DEF SetCurrentScreen, RaiseWarning, Push, EndKey, WarningRests, uiVars, vars
  <1> QED
    BY <1>1, AsksKept DEF AInv

LEMMA NextAInv ==
  ASSUME NoForcedConfirm, AInv, [Next]_vars
  PROVE  AInv'
  <1>1. IdsOld' /\ ShownIsAsked'
    BY SlotAsks, TimerAsks, KeyAsks, OtherAsks DEF Next
  <1> QED
    BY <1>1, NextTyped, HelperStep DEF AInv

\* Only the buttons answer.
LEMMA StepAnswers ==
  ASSUME AInv, [Next]_vars, Pending, sess'.id = sess.id, sess'.state \in Answers
  PROVE  PopupUp
  <1> USE DEF AInv
  <1>0. /\ sess \in Sessions
        /\ dialog \in [id : SessionIds, cb : {"none", "uix", "quit", "log"}]
        /\ sess.state = "pending" /\ "pending" \notin Answers
        /\ "cancelled" \notin Answers /\ "timeout" \notin Answers
    BY DEF Typed, Pending, Answers
  <1>1. sess' # sess
    BY <1>0
  <1>2. CASE Pick
    <2>1. picker = sess.id /\ picker # 0 /\ screen = "usb"
      BY <1>1, <1>2 DEF Pick, Finish
    <2>2. sess.kind = "usb"
      BY <2>1 DEF ShownIsAsked
    <2> QED
      BY <2>1, <2>2 DEF PopupUp
  <1>3. ASSUME NEW answer \in Answers, Press(answer)
        PROVE  PopupUp
    <2>1. screen = "confirm" /\ dialog.cb = "uix" /\ shown # 0 /\ shown = sess.id
      BY <1>1, <1>3 DEF Press, Finish
    <2>2. dialog.id = sess.id /\ sess.kind = "confirm"
      BY <2>1 DEF ShownIsAsked
    <2>3. dialog = [id |-> sess.id, cb |-> "uix"]
      BY <1>0, <2>1, <2>2
    <2> QED
      BY <2>1, <2>2, <2>3 DEF PopupUp
  <1>4. ASSUME \/ \E kind \in Kinds, timed \in Timed, oom \in OutOfMemory :
                    SessionStart(kind, timed, oom)
               \/ \E i \in 1 .. MaxSessions : SessionPoll(i)
        PROVE  FALSE
    BY <1>0, <1>4 DEF SessionStart, SessionPoll, Pending
  <1>5. ASSUME NEW i \in 1 .. MaxSessions, NEW oom \in OutOfMemory, SessionCancel(i, oom)
        PROVE  FALSE
    BY <1>0, <1>5 DEF SessionCancel, Released, Sessions
  <1>6. SessionTick => FALSE
    BY <1>0 DEF SessionTick, Sessions
  <1>7. ASSUME \/ \E s \in ForcedScreens : SetCurrentScreen(s)
               \/ \E t \in Warners, kind \in {"plain", "log"} : RaiseWarning(t, kind)
               \/ \E t \in Threads : Push(t)
               \/ HelperTimer \/ WarnTimer \/ ConfirmTimer \/ EndKey \/ Navigate
               \/ DeadlinePasses \/ WarningRests \/ UNCHANGED vars
        PROVE  FALSE
    BY <1>1, <1>7
    DEF SetCurrentScreen, RaiseWarning, Push, HelperTimer, WarnTimer, ConfirmTimer, EndKey,
        Navigate, DeadlinePasses, WarningRests, vars
  <1> QED
    BY <1>2, <1>3, <1>4, <1>5, <1>6, <1>7 DEF Next

\* A session is confirmed or denied only by a user who has its own popup in front,
\* unless a client switches to the confirm screen (g_uix_shown_id, ipc_helper.c).
THEOREM AnswerMatchesPopupCorrect ==
  ASSUME NoForcedConfirm
  PROVE  Spec => AnswerMatchesPopup
  <1>1. AInv /\ [Next]_vars => AInv'
    BY NextAInv
  <1>2. AInv /\ [Next]_vars =>
          [Pending /\ sess'.id = sess.id /\ sess'.state \in Answers => PopupUp]_vars
    BY StepAnswers
  <1> QED
    BY <1>1, <1>2, InitAInv, PTL DEF Spec, AnswerMatchesPopup

----------------------------------------------------------------------------
\* The popup of the pending session is announced.

\* Behind every request to dismiss a popup there is one to show that of the session
\* which is pending by now, and which has an id.
ShownAgain ==
  Pending =>
    /\ sess.id # 0
    /\ call["ipc"] # [q |-> "helper", item |-> "dismiss"]
    /\ \A i \in 1 .. Len(queue.helper) :
         queue.helper[i] = "dismiss" =>
           \/ call["ipc"] = [q |-> "helper", item |-> "show"]
           \/ \E j \in i + 1 .. Len(queue.helper) : queue.helper[j] = "show"

\* malloc does not fail in ipc_handler.c.
EnoughMemory == OutOfMemory = {FALSE}

PInv == Typed /\ HelperOnly /\ ShownAgain /\ PendingIsAnnounced

LEMMA InitPInv == Init => PInv
  <1> SUFFICES ASSUME Init PROVE ~Pending
    BY InitTyped, InitHelper DEF PInv, ShownAgain, PendingIsAnnounced
  <1> QED
    BY DEF Init, Pending

\* The steps that leave the queue to the LVGL thread alone.
LEMMA AnnounceKept ==
  ASSUME PInv, UNCHANGED shown, queue'.helper = queue.helper,
         Pending' => Pending /\ sess'.id = sess.id,
         Pending' => call'["ipc"] = call["ipc"] \/ (call["ipc"] = Idle /\ call'["ipc"].q # "helper")
                     \/ (call["ipc"] = Idle /\ call'["ipc"].item # "dismiss")
  PROVE  ShownAgain' /\ PendingIsAnnounced'
  <1> SUFFICES ASSUME Pending'
               PROVE  ShownAgain' /\ PendingIsAnnounced'
    BY DEF ShownAgain, PendingIsAnnounced
  <1>1. call["ipc"] = [q |-> "helper", item |-> "show"] => call'["ipc"] = call["ipc"]
    BY DEF Idle
  <1>2. call'["ipc"] # [q |-> "helper", item |-> "dismiss"]
    BY DEF PInv, ShownAgain
  <1> QED
    BY <1>1, <1>2 DEF PInv, ShownAgain, PendingIsAnnounced, ShowInFlight, Contains

LEMMA SlotAnnounces ==
  ASSUME EnoughMemory, PInv,
         \/ \E kind \in Kinds, timed \in Timed, oom \in OutOfMemory : SessionStart(kind, timed, oom)
         \/ \E i \in 1 .. MaxSessions :
              SessionPoll(i) \/ \E oom \in OutOfMemory : SessionCancel(i, oom)
         \/ SessionTick \/ DeadlinePasses
  PROVE  ShownAgain' /\ PendingIsAnnounced'
  <1>0. sess \in Sessions /\ call \in [Threads -> Calls] /\ "ipc" \in Threads
    BY DEF PInv, Typed, Threads
  <1>1. ASSUME NEW kind \in Kinds, NEW timed \in Timed, NEW oom \in OutOfMemory,
               SessionStart(kind, timed, oom)
        PROVE  ShownAgain' /\ PendingIsAnnounced'
    <2>1. oom = FALSE
      BY DEF EnoughMemory
    <2>2. call'["ipc"] = [q |-> "helper", item |-> "show"]
      BY <1>0, <1>1, <2>1 DEF SessionStart, Calling
    <2>3. sess'.id # 0
      BY <1>1 DEF SessionStart, PInv, Typed
    <2> QED
      BY <2>2, <2>3 DEF ShownAgain, PendingIsAnnounced, ShowInFlight
  <1>2. ASSUME \/ \E i \in 1 .. MaxSessions :
                    SessionPoll(i) \/ \E oom \in OutOfMemory : SessionCancel(i, oom)
               \/ SessionTick
        PROVE  ~Pending'
    BY <1>0, <1>2 DEF SessionPoll, SessionCancel, SessionTick, Released, Sessions, Pending
  <1>3. ASSUME ~Pending'
        PROVE  ShownAgain' /\ PendingIsAnnounced'
    BY <1>3 DEF ShownAgain, PendingIsAnnounced
  <1>4. DeadlinePasses => ShownAgain' /\ PendingIsAnnounced'
    BY AnnounceKept DEF DeadlinePasses, uiVars, Pending
  <1> QED
    BY <1>1, <1>2, <1>3, <1>4

LEMMA CallerAnnounces ==
  ASSUME PInv,
         \/ \E s \in ForcedScreens : SetCurrentScreen(s)
         \/ \E t \in Warners, kind \in {"plain", "log"} : RaiseWarning(t, kind)
         \/ EndKey \/ WarningRests \/ UNCHANGED vars
  PROVE  ShownAgain' /\ PendingIsAnnounced'
  <1>0. call \in [Threads -> Calls] /\ "ipc" \in Threads /\ "lvgl" \in Threads
    BY DEF PInv, Typed, Threads
  <1>1. UNCHANGED <<sess, queue, shown>>
    BY DEF SetCurrentScreen, RaiseWarning, EndKey, WarningRests, uiVars, vars
  <1>2. UNCHANGED Pending
    BY <1>1 DEF Pending
  <1>3. ASSUME NEW s \in ForcedScreens, SetCurrentScreen(s)
        PROVE  ShownAgain' /\ PendingIsAnnounced'
    <2>1. call["ipc"] = Idle /\ call'["ipc"].item = s
      BY <1>0, <1>3 DEF SetCurrentScreen, Calling, Free
    <2>2. s # "dismiss"
      BY ModalAssumption DEF Screens
    <2> QED
      BY <1>1, <1>2, <2>1, <2>2, AnnounceKept
  <1>4. ASSUME NEW t \in Warners, NEW kind \in {"plain", "log"}, RaiseWarning(t, kind)
        PROVE  ShownAgain' /\ PendingIsAnnounced'
    <2>1. call'["ipc"] = call["ipc"] \/ (call["ipc"] = Idle /\ call'["ipc"].q # "helper")
      BY <1>0, <1>4, ModalAssumption DEF RaiseWarning, Calling, Free
    <2> QED
      BY <1>1, <1>2, <2>1, AnnounceKept
  <1>5. EndKey => ShownAgain' /\ PendingIsAnnounced'
    <2> SUFFICES ASSUME EndKey
                 PROVE  ShownAgain' /\ PendingIsAnnounced'
      OBVIOUS
    <2>1. call'["ipc"] = call["ipc"]
      BY <1>0 DEF EndKey, Calling
    <2> QED
      BY <1>1, <1>2, <2>1, AnnounceKept
  <1>6. WarningRests \/ UNCHANGED vars => ShownAgain' /\ PendingIsAnnounced'
    BY <1>1, <1>2, AnnounceKept DEF WarningRests, vars
  <1> QED
    BY <1>3, <1>4, <1>5, <1>6

\* A push appends what its thread held.
LEMMA PushAnnounces ==
  ASSUME PInv, NEW t \in Threads, Push(t)
  PROVE  ShownAgain' /\ PendingIsAnnounced'
  <1> SUFFICES ASSUME Pending'
               PROVE  ShownAgain' /\ PendingIsAnnounced'
    BY DEF ShownAgain, PendingIsAnnounced
  <1> USE DEF PInv
  <1>1. UNCHANGED <<sess, shown>> /\ Pending
    BY DEF Push, uiVars, Pending
  <1>2. /\ call \in [Threads -> Calls] /\ "ipc" \in Threads
        /\ call'[t].q = "none"
        /\ \A s \in Threads : s # t => call'[s] = call[s]
    BY PushHelper DEF Typed, Threads
  <1>3. CASE call[t].q # "helper"
    <2>1. queue'.helper = queue.helper
      BY <1>3, PushHelper
    <2>2. call'["ipc"] = call["ipc"] \/ (t = "ipc" /\ call'["ipc"].q # "helper")
      BY <1>2
    <2>3. t = "ipc" => call["ipc"] # [q |-> "helper", item |-> "show"]
      BY <1>3
    <2>4. ShownAgain'
      BY <1>1, <2>1, <2>2, <2>3 DEF ShownAgain
    <2>5. ShowInFlight => ShowInFlight'
      BY <2>1, <2>2, <2>3 DEF ShowInFlight
    <2> QED
      BY <1>1, <2>4, <2>5 DEF PendingIsAnnounced
  <1>4. CASE call[t].q = "helper"
    <2> DEFINE it == call[t].item
               n == Len(queue.helper)
    <2>1. t = "ipc" /\ it \in HelperItems /\ queue.helper \in Seq(HelperItems)
      BY <1>4 DEF HelperOnly
    <2>2. call["ipc"] = [q |-> "helper", item |-> it]
      BY <1>2, <1>4, <2>1 DEF Calls, Idle
    <2>3. queue'.helper = Append(queue.helper, it)
      BY <1>4, PushHelper
    <2> HIDE DEF it
    <2>4. /\ Len(queue'.helper) = n + 1 /\ n \in Nat
          /\ queue'.helper[n + 1] = it
          /\ \A i \in 1 .. n : queue'.helper[i] = queue.helper[i]
      BY <2>1, <2>3
    <2> HIDE DEF n
    <2>5. it # "dismiss" /\ call'["ipc"].q = "none"
      BY <1>1, <1>2, <2>1, <2>2 DEF ShownAgain
    <2>6. CASE it = "show"
      <3>1. ShowInFlight'
        BY <2>4, <2>6 DEF ShowInFlight, Contains
      <3>2. \A i \in 1 .. n + 1 : queue'.helper[i] = "dismiss" =>
              \E j \in i + 1 .. n + 1 : queue'.helper[j] = "show"
        <4> SUFFICES ASSUME NEW i \in 1 .. n + 1, queue'.helper[i] = "dismiss"
                     PROVE  n + 1 \in i + 1 .. n + 1
          BY <2>4, <2>6
        <4>1. i # n + 1
          BY <2>4, <2>5
        <4> QED
          BY <2>4, <4>1
      <3>3. sess'.id # 0
        BY <1>1 DEF ShownAgain
      <3> QED
        BY <2>4, <2>5, <3>1, <3>2, <3>3 DEF ShownAgain, PendingIsAnnounced
    <2>7. CASE it # "show"
      <3>1. ShowInFlight => \E i \in 1 .. n : queue.helper[i] = "show"
        BY <2>2, <2>7 DEF ShowInFlight, Contains, n
      <3>2. ShowInFlight => ShowInFlight'
        BY <2>4, <3>1 DEF ShowInFlight, Contains
      <3>3. \A i \in 1 .. n : queue.helper[i] = "dismiss" =>
              \E j \in i + 1 .. n : queue.helper[j] = "show"
        BY <1>1, <2>2, <2>7 DEF ShownAgain, n
      <3>4. \A i \in 1 .. n + 1 : queue'.helper[i] = "dismiss" =>
              \E j \in i + 1 .. n + 1 : queue'.helper[j] = "show"
        <4> SUFFICES ASSUME NEW i \in 1 .. n + 1, queue'.helper[i] = "dismiss"
                     PROVE  \E j \in i + 1 .. n + 1 : queue'.helper[j] = "show"
          OBVIOUS
        <4>1. i # n + 1
          BY <2>4, <2>5
        <4>2. i \in 1 .. n /\ queue.helper[i] = "dismiss"
          BY <2>4, <4>1
        <4>3. PICK j \in i + 1 .. n : queue.helper[j] = "show"
          BY <3>3, <4>2
        <4>4. j \in 1 .. n /\ j \in i + 1 .. n + 1
          BY <2>4, <4>2, <4>3
        <4> QED
          BY <2>4, <4>3, <4>4
      <3> QED
        BY <1>1, <2>4, <2>5, <3>2, <3>4 DEF ShownAgain, PendingIsAnnounced
    <2> QED
      BY <2>6, <2>7
  <1> QED
    BY <1>3, <1>4

\* A request is taken from the front.
LEMMA HelperAnnounces ==
  ASSUME PInv, HelperTimer
  PROVE  ShownAgain' /\ PendingIsAnnounced'
  <1> SUFFICES ASSUME Pending'
               PROVE  ShownAgain' /\ PendingIsAnnounced'
    BY DEF ShownAgain, PendingIsAnnounced
  <1> USE DEF PInv
  <1> DEFINE s == queue.helper
             n == Len(s)
  <1>1. /\ s # <<>> /\ s \in Seq(HelperItems) /\ queue'.helper = Tail(s)
        /\ HelperRequest(Head(s)) /\ UNCHANGED <<sess, call>>
    BY HelperCases
  <1>2. Pending
    BY <1>1 DEF Pending
  <1>3. /\ n \in Nat \ {0} /\ Head(s) = s[1]
        /\ Len(queue'.helper) = n - 1
        /\ \A i \in 1 .. n - 1 : queue'.helper[i] = s[i + 1]
    BY <1>1
  <1>4. ShownAgain
    OBVIOUS
  <1>5. call["ipc"] # [q |-> "helper", item |-> "dismiss"]
    BY <1>2, <1>4 DEF ShownAgain
  <1>6. \A i \in 1 .. n : s[i] = "dismiss" =>
          \/ call["ipc"] = [q |-> "helper", item |-> "show"]
          \/ \E j \in i + 1 .. n : s[j] = "show"
    BY <1>2, <1>4 DEF ShownAgain
  <1>7. ShowInFlight <=> \/ call["ipc"] = [q |-> "helper", item |-> "show"]
                         \/ \E i \in 1 .. n : s[i] = "show"
    BY DEF ShowInFlight, Contains
  <1>8. ShowInFlight' <=> \/ call["ipc"] = [q |-> "helper", item |-> "show"]
                          \/ \E i \in 1 .. n - 1 : queue'.helper[i] = "show"
    BY <1>1, <1>3 DEF ShowInFlight, Contains
  <1> HIDE DEF s, n
  <1>9. \A j \in 2 .. n : j - 1 \in 1 .. n - 1 /\ queue'.helper[j - 1] = s[j]
    BY <1>3
  <1>10. ASSUME NEW j \in 2 .. n, s[j] = "show"
         PROVE  ShowInFlight'
    BY <1>8, <1>9, <1>10
  <1>11. ShownAgain'
    <2>0. sess'.id # 0
      BY <1>1, <1>2, <1>4 DEF ShownAgain
    <2> SUFFICES ASSUME NEW i \in 1 .. n - 1, queue'.helper[i] = "dismiss",
                        call["ipc"] # [q |-> "helper", item |-> "show"]
                 PROVE  \E j \in i + 1 .. n - 1 : queue'.helper[j] = "show"
      BY <1>1, <1>3, <1>5, <2>0 DEF ShownAgain
    <2>1. i + 1 \in 1 .. n /\ s[i + 1] = "dismiss"
      BY <1>3
    <2>2. PICK j \in i + 2 .. n : s[j] = "show"
      BY <1>6, <2>1
    <2>3. j \in 2 .. n /\ j - 1 \in i + 1 .. n - 1
      BY <1>3, <2>2
    <2> QED
      BY <1>9, <2>2, <2>3
  <1>12. PendingIsAnnounced'
    <2>1. CASE s[1] = "show"
      BY <1>1, <1>2, <1>3, <2>1, ModalAssumption
      DEF HelperRequest, UixShow, PendingIsAnnounced, UixDismiss, Screens
    <2>2. CASE s[1] = "dismiss"
      <3>1. 1 \in 1 .. n
        BY <1>3
      <3> QED
        BY <1>6, <1>8, <1>10, <2>2, <3>1 DEF PendingIsAnnounced
    <2>3. CASE s[1] \notin {"show", "dismiss"}
      <3>1. UNCHANGED <<sess, shown>>
        BY <1>1, <1>3, <2>3 DEF HelperRequest
      <3>2. shown = sess.id \/ ShowInFlight
        BY <1>2 DEF PendingIsAnnounced
      <3>3. ShowInFlight => ShowInFlight'
        <4>1. ASSUME NEW i \in 1 .. n, s[i] = "show"
              PROVE  i \in 2 .. n
          BY <1>3, <2>3, <4>1
        <4> QED
          BY <1>7, <1>8, <1>10, <4>1
      <3> QED
        BY <3>1, <3>2, <3>3 DEF PendingIsAnnounced
    <2> QED
      BY <2>1, <2>2, <2>3
  <1> QED
    BY <1>11, <1>12

LEMMA ScreenAnnounces ==
  ASSUME PInv, WarnTimer \/ ConfirmTimer \/ Pick \/ Navigate \/ \E answer \in Answers : Press(answer)
  PROVE  ShownAgain' /\ PendingIsAnnounced'
  <1> USE DEF PInv
  <1>0. "pending" \notin Answers /\ "confirmed" \in Answers
    BY DEF Answers
  <1>1. UNCHANGED call /\ queue'.helper = queue.helper
    BY OthersPop DEF WarnTimer, ConfirmTimer, Pick, Navigate, Press
  <1>2. ASSUME WarnTimer \/ ConfirmTimer \/ Navigate
        PROVE  ShownAgain' /\ PendingIsAnnounced'
    BY <1>1, <1>2, AnnounceKept DEF WarnTimer, ConfirmTimer, Navigate, Pending
  <1>3. Pick => ShownAgain' /\ PendingIsAnnounced'
    <2> SUFFICES ASSUME Pick
                 PROVE  ShownAgain' /\ PendingIsAnnounced'
      OBVIOUS
    <2>1. Pending' => Pending /\ sess'.id = sess.id
      BY <1>0, FinishEnds DEF Pick, Pending
    <2> QED
      BY <1>1, <2>1, AnnounceKept DEF Pick
  <1>4. ASSUME NEW answer \in Answers, Press(answer), Pending'
        PROVE  ShownAgain' /\ PendingIsAnnounced'
    <2>1. Pending /\ UNCHANGED sess
      BY <1>0, <1>4, FinishEnds DEF Press, Pending
    <2>2. CASE dialog.cb # "uix"
      BY <1>1, <1>4, <2>1, <2>2, AnnounceKept DEF Press
    <2>3. CASE dialog.cb = "uix"
      <3>1. shown # sess.id \/ shown = 0
        BY <1>0, <1>4, <2>1, <2>3 DEF Press, Finish, Pending, Typed, Sessions
      <3>2. ShowInFlight \/ (shown = 0 /\ sess.id = 0)
        BY <2>1, <3>1 DEF PendingIsAnnounced
      <3>3. ShowInFlight => ShowInFlight'
        BY <1>1 DEF ShowInFlight
      <3>4. shown' = 0
        BY <1>4, <2>3 DEF Press
      <3> QED
        BY <1>1, <2>1, <3>2, <3>3, <3>4 DEF PendingIsAnnounced, ShownAgain
    <2> QED
      BY <2>2, <2>3
  <1> QED
    BY <1>2, <1>3, <1>4 DEF ShownAgain, PendingIsAnnounced

LEMMA NextPInv ==
  ASSUME EnoughMemory, PInv, [Next]_vars
  PROVE  PInv'
  <1>1. ShownAgain' /\ PendingIsAnnounced'
    BY SlotAnnounces, CallerAnnounces, PushAnnounces, HelperAnnounces, ScreenAnnounces DEF Next
  <1> QED
    BY <1>1, NextTyped, HelperStep DEF PInv

----------------------------------------------------------------------------
\* What takes a popup away again.

LEMMA UpKept ==
  ASSUME PopupUp, UNCHANGED <<screen, dialog, shown, picker>>, Pending',
         sess'.id = sess.id, sess'.kind = sess.kind
  PROVE  PopupUp'
  BY DEF PopupUp

LEMMA HelperLeaves ==
  ASSUME PInv, PopupUp, HelperTimer
  PROVE  PopupUp' \/ screen' \in ForcedScreens \/ ShowInFlight'
  <1> USE DEF PInv
  <1>1. /\ HelperRequest(Head(queue.helper)) /\ UNCHANGED sess
        /\ queue.helper # <<>> /\ queue.helper \in Seq(HelperItems)
    BY HelperCases
  <1>2. Pending' /\ Pending /\ sess.kind \in {"confirm", "usb"}
    BY <1>1 DEF PopupUp, Pending, Typed, Sessions, Kinds
  <1>3. CASE UixShow
    BY <1>1, <1>2, <1>3 DEF UixShow, ShowDialog, PopupUp
  <1>4. CASE UixDismiss
    <2>1. PendingIsAnnounced'
      BY HelperAnnounces
    <2>2. shown' = 0 /\ sess.id # 0
      <3>1. sess.id # 0
        BY DEF PopupUp, ShownAgain
      <3> QED
        BY <1>4, <3>1 DEF UixDismiss
    <2> QED
      BY <1>1, <1>2, <2>1, <2>2 DEF PendingIsAnnounced
  <1>5. CASE screen' \in ForcedScreens
    BY <1>5
  <1> QED
    BY <1>1, <1>3, <1>4, <1>5 DEF HelperRequest

\* A popup that was up: the session it is of is the pending one.
LEMMA KeysLeave ==
  ASSUME PInv, PopupUp, StillPending, Pick \/ Navigate \/ \E answer \in Answers : Press(answer)
  PROVE  screen' = "menu"
  <1> USE DEF PInv
  <1>0. /\ "pending" \notin Answers /\ "confirmed" \in Answers /\ sess.id # 0
        /\ sess.state = "pending" /\ sess'.state = "pending" /\ sess \in Sessions
        /\ sess.kind \in {"confirm", "usb"}
    BY DEF Answers, PopupUp, StillPending, Pending, ShownAgain, Typed, Sessions, Kinds
  <1>1. ASSUME Pick
        PROVE  FALSE
    <2>1. picker = sess.id
      BY <1>0, <1>1 DEF Pick, PopupUp
    <2> QED
      BY <1>0, <1>1, <2>1 DEF Pick, Finish, Sessions
  <1>2. ASSUME NEW answer \in Answers, Press(answer)
        PROVE  FALSE
    <2>1. dialog.cb = "uix" /\ shown = sess.id
      BY <1>0, <1>2 DEF Press, PopupUp
    <2> QED
      BY <1>0, <1>2, <2>1 DEF Press, Finish, Sessions
  <1>3. Navigate => screen' = "menu"
    BY <1>0 DEF Navigate, PopupUp
  <1> QED
    BY <1>1, <1>2, <1>3

LEMMA StepDisturbs ==
  ASSUME PInv, [Next]_vars, PopupUp, StillPending, ~PopupUp'
  PROVE  screen' \in {"menu"} \cup ForcedScreens \/ ShowInFlight'
  <1>0. Pending /\ Pending' /\ sess'.id = sess.id
    BY DEF PopupUp, StillPending
  <1>1. ASSUME \/ \E s \in ForcedScreens : SetCurrentScreen(s)
               \/ \E t \in Warners, kind \in {"plain", "log"} : RaiseWarning(t, kind)
               \/ \E t \in Threads : Push(t)
               \/ EndKey \/ DeadlinePasses \/ WarningRests \/ UNCHANGED vars
        PROVE  FALSE
    <2>1. UNCHANGED <<sess, screen, dialog, shown, picker>>
      BY <1>1
      DEF SetCurrentScreen, RaiseWarning, Push, EndKey, DeadlinePasses, WarningRests, uiVars, vars
    <2> QED
      BY <1>0, <2>1, UpKept
  <1>2. ASSUME \/ \E kind \in Kinds, timed \in Timed, oom \in OutOfMemory :
                    SessionStart(kind, timed, oom)
               \/ \E i \in 1 .. MaxSessions :
                    SessionPoll(i) \/ \E oom \in OutOfMemory : SessionCancel(i, oom)
               \/ SessionTick
        PROVE  FALSE
    BY <1>0, <1>2
    DEF SessionStart, SessionPoll, SessionCancel, SessionTick, Released, Pending, PInv, Typed, Sessions
  <1>3. WarnTimer \/ ConfirmTimer => FALSE
    BY <1>0 DEF WarnTimer, ConfirmTimer, ModalBusy
  <1> QED
    BY <1>1, <1>2, <1>3, HelperLeaves, KeysLeave DEF Next

\* A request to show the popup is not consumed by an earlier session, and what takes
\* a popup away is the user, a client, or a dismissal behind which it is shown again:
\* never a warning or a queued question (modal_busy), as long as the handler of the
\* session has the memory for its request.
THEOREM PopupShownCorrect ==
  ASSUME EnoughMemory
  PROVE  Spec => PopupShown
  <1>1. PInv /\ [Next]_vars => PInv'
    BY NextPInv
  <1>2. PInv => TypeOK
    BY DEF PInv, Typed, TypeOK, Queues, Sessions, States
  <1>3. PInv => PendingIsAnnounced
    BY DEF PInv
  <1>4. PInv /\ [Next]_vars =>
          [PopupUp /\ StillPending /\ ~PopupUp' =>
             screen' \in {"menu"} \cup ForcedScreens \/ ShowInFlight']_vars
    BY StepDisturbs
  <1> QED
    BY <1>1, <1>2, <1>3, <1>4, InitPInv, PTL DEF Spec, PopupShown, PopupUndisturbed

\* Every variable has its type; in particular no queue grows over its capacity.
THEOREM TypeCorrect == Spec => []TypeOK
  <1>1. Typed /\ HelperOnly /\ [Next]_vars => Typed' /\ HelperOnly'
    BY NextTyped, HelperStep
  <1>2. Typed => TypeOK
    BY DEF Typed, TypeOK, Queues, Sessions, States
  <1> QED
    BY <1>1, <1>2, InitTyped, InitHelper, PTL DEF Spec

=============================================================================
