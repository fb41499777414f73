-------------------------------- MODULE Prts --------------------------------
(***************************************************************************)
(* prts/prts.c: which operator is shown, and the timeline of a switch:     *)
(*                                                                         *)
(*   switch_operator - 0.5 s - second stage: transition in - intro video - *)
(*   transition loop - loop video - opinfo                                 *)
(*                                                                         *)
(* Each arrow is a one-shot timer or the worker of the overlay.  The tick  *)
(* (one thread a second) takes the requests of the UI and of IPC, reloads  *)
(* the operators and starts switches; the UI thread moves operators in the *)
(* list; an IPC request starts a transition of its own (handler of         *)
(* IPC_REQ_OVERLAY_SCHEDULE_TRANSITION, fade and move).                    *)
(***************************************************************************)
EXTENDS Overlay

CONSTANTS
  Ops,            \* operators, by uuid
  Tables,         \* the operator tables a scan of the asset directories may find
  HasIntro,       \* operators with an intro video
  TransitionIn, TransitionLoop,   \* [Ops -> {"timed", "swipe", "none"}]
  Opinfo,         \* [Ops -> {"engine", "ark", None}]
  QueueCap,       \* capacity of req_queue
  Kinds,          \* bound: inputs that happen
  MaxInputs,      \* bound: how many of them
  GoOn            \* bound: do behaviours go on when a switch was disturbed

ASSUME PrtsAssumption ==
  /\ \A t \in Tables : t \in Seq(Ops) /\ t # <<>>
  /\ \E t \in Tables : \A u \in Tables : Len(u) <= Len(t)    \* PRTS_OPERATORS_MAX
  /\ HasIntro \subseteq Ops
  /\ TransitionIn \in [Ops -> {"timed", "swipe", "none"}]
  /\ TransitionLoop \in [Ops -> {"timed", "swipe", "none"}]
  /\ Opinfo \in [Ops -> {"engine", "ark", None}]
  /\ QueueCap \in Nat \ {0} /\ MaxInputs \in Nat /\ GoOn \in BOOLEAN

VARIABLES
  ops,        \* operators[0 .. operator_count - 1]
  cur,        \* operator_index
  st,         \* state
  first,      \* is_first_switch
  queue,      \* req_queue: the index of a SET_OPERATOR, 0 for RELOAD_ASSETS
  suspended,
  lost,       \* mediaplayer_source_lost
  playing,    \* what the media player plays
  timers,     \* the one-shot timers of switches, not yet expired
  tick,       \* prts_tick_cb: [pc, want, sw, back]
  boot,       \* threads inside prts_boot_anim_finish
  ipc,        \* the IPC handler: not there, waiting for the overlay, or going on
  inputs,     \* inputs so far
  disturbed   \* history: a switch was disturbed, see Disturb

tableVars == <<ops, cur>>
playVars == <<playing, lost>>
switchVars == <<tableVars, st, first, playVars, timers>>
vars == <<switchVars, queue, suspended, tick, boot, ipc, inputs, disturbed, overlayVars>>

Parts == {"intro", "loop"}
MaxLen == CHOOSE n \in {Len(t) : t \in Tables} : \A t \in Tables : Len(t) <= n
Slots == 1 .. MaxLen
Reload == 0
BootVideo == <<None, "boot">>

Timer(kind, slot, part) == [kind |-> kind, slot |-> slot, part |-> part, old |-> FALSE]

TypeOK ==
  /\ OverlayTypeOK(Slots, Parts)
  /\ ops \in Seq(Ops) /\ Len(ops) \in Slots /\ cur \in DOMAIN ops
  /\ st \in {"idle", "in", "intro", "loop", "pre", "boot"}
  /\ first \in BOOLEAN /\ suspended \in BOOLEAN /\ lost \in BOOLEAN
  /\ queue \in Seq({Reload} \cup Slots) /\ Len(queue) <= QueueCap
  /\ playing \in (Ops \X Parts) \cup {None, BootVideo}
  /\ timers \in Seq([kind : {"stage2", "mid", "end", "loop", "opinfo"},
                     slot : Slots, part : Parts, old : BOOLEAN])
  /\ tick \in [pc : {"idle", "drain", "abort", "rebuild", "reselect", "resume", "stage"},
               want : {0} \cup Slots, sw : {0} \cup Slots,
               back : {"idle", "drain", "resume"}]
  /\ boot \subseteq {"timer", "key"}
  /\ ipc \in {"no", "wait", "go"} /\ disturbed \in BOOLEAN
  /\ inputs \in 0 .. MaxInputs

\* prts_init: the boot animation, or the first switch at once.
Init ==
  /\ ops \in Tables
  /\ cur = 1
  /\ \/ st = "boot" /\ timers = <<>> /\ playing = BootVideo
     \/ st = "idle" /\ timers = <<Timer("stage2", 1, "loop")>> /\ playing = None
  /\ first = TRUE
  /\ queue = <<>> /\ suspended = FALSE /\ lost = FALSE
  /\ tick = [pc |-> "idle", want |-> 0, sw |-> 0, back |-> "idle"]
  /\ boot = {} /\ ipc = "no" /\ inputs = 0 /\ disturbed = FALSE
  /\ OverlayInit

StagePending == \E k \in DOMAIN timers : timers[k].kind = "stage2"

\* A switch is disturbed when another one, a reload or a suspension begins before
\* its second stage; when two threads are in overlay_abort; when the table is
\* rearranged meanwhile.
Disturb(b) == disturbed' = (disturbed \/ b)

----------------------------------------------------------------------------
\* Videos and transitions.

\* set_video_cb: stop, and play; it may fail to.
Play(slot, part) ==
  /\ playing' \in {<<ops[slot], part>>, None}
  /\ lost' = FALSE

\* Mutant: only a transition in is followed by something.
AfterDeaf(s, slot) ==
  IF s = "in" THEN {[st |-> "intro", add |-> <<Timer("loop", slot, "loop")>>]}
  ELSE {[st |-> s, add |-> <<>>]}

\* schedule_video_and_transitions_end_cb: the state a transition ends in, and
\* the timer set up.  The user may have turned opinfo off.
After(s, slot) ==
  CASE s = "in" -> {[st |-> "intro", add |-> <<Timer("loop", slot, "loop")>>]}
    [] s = "loop" /\ Opinfo[ops[slot]] # None ->
         {[st |-> "pre", add |-> <<Timer("opinfo", slot, "loop")>>],
          [st |-> "idle", add |-> <<>>]}
    [] OTHER -> {[st |-> "idle", add |-> <<>>]}

\* schedule_video_and_transitions in state s, with the other timers ts.
Launch(s, kind, slot, part, ts) ==
  CASE kind = "timed" ->
         /\ st' = s
         /\ timers' = Append(ts, Timer("mid", slot, part))
         /\ StartTimed
         /\ UNCHANGED playVars
    [] kind = "swipe" ->
         /\ st' = s
         /\ timers' = ts
         /\ StartSwipe(slot, part)
         /\ UNCHANGED playVars
    [] kind = "none" ->
         /\ Play(slot, part)
         /\ \E o \in After(s, slot) : st' = o.st /\ timers' = ts \o o.add
         /\ UNCHANGED overlayVars

\* A timer of the switch in hand expires.  An index beyond the table is only
\* looked for in the second stage.
Expires(k, kind) ==
  /\ timers[k].kind = kind
  /\ timers[k].slot \in DOMAIN ops

Others(k) == RemoveAt(timers, k)

\* switch_operator_secound_stage.  The tick that set the timer up, the callbacks of
\* the overlay's timer and those of the boot animation are done: each takes less
\* than 0.5 s.
Stage2(k) ==
  /\ timers[k].kind = "stage2"
  /\ boot = {} /\ tick.pc = "idle" /\ NoneLate
  /\ LET slot == timers[k].slot
     IN IF slot \notin DOMAIN ops
        THEN /\ timers' = Others(k)
             /\ UNCHANGED <<tableVars, st, first, playVars, overlayVars>>
        ELSE /\ \E intro \in {FALSE} \cup {ops[slot] \in HasIntro} :
                  Launch(IF intro THEN "in" ELSE "loop",
                         IF first THEN "timed" ELSE TransitionIn[ops[slot]],
                         slot, IF intro THEN "intro" ELSE "loop", Others(k))
             /\ cur' = slot
             /\ first' = FALSE
             /\ UNCHANGED ops
  /\ UNCHANGED <<queue, suspended, tick, boot, ipc, inputs, disturbed>>

\* The middle of a fade or move.
Middle(k) ==
  /\ Expires(k, "mid")
  /\ Play(timers[k].slot, timers[k].part)
  /\ timers' = [timers EXCEPT ![k].kind = "end"]
  /\ UNCHANGED <<tableVars, st, first, queue, suspended, tick, boot, ipc, inputs,
                 disturbed, overlayVars>>

\* Its end.
End(k) ==
  /\ Expires(k, "end")
  /\ \E o \in After(st, timers[k].slot) : st' = o.st /\ timers' = Others(k) \o o.add
  /\ UNCHANGED <<tableVars, first, playVars, queue, suspended, tick, boot, ipc, inputs,
                 disturbed, overlayVars>>

\* schedule_video_and_transitions_timer_cb: the intro video is over.
IntroOver(k) ==
  /\ Expires(k, "loop")
  /\ LET slot == timers[k].slot
     IN Launch("loop", TransitionLoop[ops[slot]], slot, "loop", Others(k))
  /\ UNCHANGED <<tableVars, first, queue, suspended, tick, boot, ipc, inputs, disturbed>>

\* schedule_opinfo_timer_cb.
ShowOpinfo(k) ==
  /\ Expires(k, "opinfo")
  /\ LET slot == timers[k].slot
     IN IF Opinfo[ops[slot]] = None THEN UNCHANGED overlayVars
        ELSE Show(Opinfo[ops[slot]], slot)
  /\ st' = "idle"
  /\ timers' = Others(k)
  /\ UNCHANGED <<tableVars, first, playVars, queue, suspended, tick, boot, ipc, inputs,
                 disturbed>>

Fire ==
  \E k \in DOMAIN timers :
    Stage2(k) \/ Middle(k) \/ End(k) \/ IntroOver(k) \/ ShowOpinfo(k)

\* The worker reaches the middle, and the end, of a swipe.
SwipeMiddle ==
  /\ SwipeHalf
  /\ fx["swipe"].slot \in DOMAIN ops
  /\ Play(fx["swipe"].slot, fx["swipe"].part)
  /\ UNCHANGED <<tableVars, st, first, timers, queue, suspended, tick, boot, ipc, inputs,
                 disturbed>>

SwipeEnd ==
  /\ SwipeLast
  /\ fx["swipe"].slot \in DOMAIN ops
  /\ \E o \in After(st, fx["swipe"].slot) : st' = o.st /\ timers' = timers \o o.add
  /\ UNCHANGED <<tableVars, first, playVars, queue, suspended, tick, boot, ipc, inputs,
                 disturbed>>

WorkerStep ==
  \/ /\ WorkerIgnore \/ WorkerAbort \/ WorkerDraw \/ WorkerDrawn
     /\ UNCHANGED <<switchVars, queue, suspended, tick, boot, ipc, inputs, disturbed>>
  \/ SwipeMiddle \/ SwipeEnd

EffectTick(e) ==
  /\ FxTick(e) \/ LateTick(e)
  /\ UNCHANGED <<switchVars, queue, suspended, tick, boot, ipc, inputs, disturbed>>

----------------------------------------------------------------------------
\* prts_tick_cb.

TickGoto(pc) == tick' = [tick EXCEPT !.pc = pc]

\* A tick takes less than half of its period, so that the second stage of a
\* switch comes before the next tick.
TickStart ==
  /\ tick.pc = "idle"
  /\ ~StagePending
  /\ tick' = [pc |-> "drain", want |-> 0, sw |-> 0, back |-> "idle"]
  /\ UNCHANGED <<switchVars, queue, suspended, boot, ipc, inputs, disturbed, overlayVars>>

PopSet ==
  /\ tick.pc = "drain"
  /\ queue # <<>> /\ Head(queue) # Reload
  /\ tick' = [tick EXCEPT !.want = Head(queue)]
  /\ queue' = Tail(queue)
  /\ UNCHANGED <<switchVars, suspended, boot, ipc, inputs, disturbed, overlayVars>>

MayReload == st = "idle"

\* Put back for a later tick; what was popped before is dropped.
PopReloadBusy ==
  /\ tick.pc = "drain"
  /\ queue # <<>> /\ Head(queue) = Reload
  /\ ~MayReload
  /\ queue' = Append(Tail(queue), Reload)
  /\ TickGoto("idle")
  /\ UNCHANGED <<switchVars, suspended, boot, ipc, inputs, disturbed, overlayVars>>

\* overlay_abort as the tick calls it, to go on at pc afterwards.
TickAbort(t, pc) ==
  /\ Disturb(StagePending \/ ipc # "no")
  /\ IF used
     THEN /\ AbortBegin
          /\ tick' = [t EXCEPT !.pc = "abort"]
     ELSE /\ tick' = [t EXCEPT !.pc = pc]
          /\ UNCHANGED overlayVars

PopReload ==
  /\ tick.pc = "drain"
  /\ queue # <<>> /\ Head(queue) = Reload
  /\ MayReload
  /\ queue' = Tail(queue)
  /\ TickAbort([tick EXCEPT !.sw = 0], "rebuild")
  /\ UNCHANGED <<switchVars, suspended, boot, ipc, inputs>>

AbortReturns ==
  /\ tick.pc = "abort"
  /\ Aborted
  /\ TickGoto(IF tick.sw = 0 THEN "rebuild" ELSE "stage")
  /\ UNCHANGED <<switchVars, queue, suspended, boot, ipc, inputs, disturbed, overlayVars>>

\* switch_operator, the other fields of tick being t.
Switch(slot, t) ==
  LET u == [t EXCEPT !.sw = slot]
  IN IF st # "idle"
     THEN tick' = [t EXCEPT !.pc = t.back] /\ UNCHANGED <<disturbed, overlayVars>>
     ELSE IF first
     THEN tick' = [u EXCEPT !.pc = "stage"] /\ Disturb(StagePending) /\ UNCHANGED overlayVars
     ELSE IF used
     THEN AbortBegin /\ tick' = [u EXCEPT !.pc = "abort"] /\ Disturb(StagePending \/ ipc # "no")
     ELSE tick' = [u EXCEPT !.pc = "stage"] /\ Disturb(StagePending \/ ipc # "no")
          /\ UNCHANGED overlayVars

\* The second stage is scheduled.
Stage ==
  /\ tick.pc = "stage"
  /\ timers' = Append(timers, Timer("stage2", tick.sw, "loop"))
  /\ tick' = [tick EXCEPT !.pc = tick.back, !.sw = 0]
  /\ UNCHANGED <<tableVars, st, first, playVars, queue, suspended, boot, ipc, inputs,
                 disturbed, overlayVars>>

\* Mutant: the index is kept as it is.
FoundAtAny(table) == {cur}

\* The operator shown before, by its uuid.
FoundAt(table) == {i \in DOMAIN table : table[i] = ops[cur]}

\* prts_reload_assets once the overlay is quiet: entries freed and read anew.
\* Timers before a middle callback or an intro's end point to videos in them.
Rebuild ==
  /\ tick.pc = "rebuild"
  /\ \E table \in Tables :
       /\ ops' = table
       /\ \/ /\ cur' \in FoundAt(table)
             /\ TickGoto("resume")
          \/ /\ FoundAt(table) = {}
             /\ cur' = 1
             /\ TickGoto("reselect")
  /\ fx' = [e \in Effects |-> [fx[e] EXCEPT !.live = FALSE]]
  /\ timers' = [k \in DOMAIN timers |->
                  [timers[k] EXCEPT !.old = timers[k].kind \in {"mid", "loop"}]]
  /\ UNCHANGED <<st, first, playVars, queue, suspended, boot, ipc, inputs, disturbed,
                 used, abortReq, handle, active, ticks, worker>>

\* It is no longer there: the first operator instead.
Reselect ==
  /\ tick.pc = "reselect"
  /\ Switch(1, [tick EXCEPT !.back = "resume"])
  /\ UNCHANGED <<switchVars, queue, suspended, boot, ipc, inputs>>

\* After a reload: shown again if it was suspended.
Resume ==
  /\ tick.pc = "resume"
  /\ suspended' = FALSE
  /\ IF suspended THEN Switch(cur, [tick EXCEPT !.back = "drain"])
     ELSE TickGoto("drain") /\ UNCHANGED <<disturbed, overlayVars>>
  /\ UNCHANGED <<switchVars, queue, boot, ipc, inputs>>

MustSuspend == ~suspended /\ st = "idle" /\ lost

Suspend ==
  /\ tick.pc = "drain" /\ queue = <<>>
  /\ MustSuspend
  /\ suspended' = TRUE
  /\ playing' = None
  /\ TickGoto("idle")
  /\ Disturb(StagePending)
  /\ UNCHANGED <<tableVars, st, first, lost, timers, queue, boot, ipc, inputs, overlayVars>>

\* The request obeyed is the last one; without any, the interval may be over.
Decide ==
  /\ tick.pc = "drain" /\ queue = <<>>
  /\ ~MustSuspend
  /\ \/ /\ suspended \/ tick.want = 0
        /\ TickGoto("idle")
        /\ UNCHANGED <<inputs, disturbed, overlayVars>>
     \/ /\ ~suspended /\ tick.want # 0
        /\ Switch(tick.want, [tick EXCEPT !.back = "idle"])
        /\ UNCHANGED inputs
     \/ /\ ~suspended /\ tick.want = 0
        /\ "auto" \in Kinds /\ inputs < MaxInputs
        /\ inputs' = inputs + 1
        /\ \E slot \in DOMAIN ops :
             /\ slot = cur => Len(ops) = 1
             /\ Switch(slot, [tick EXCEPT !.back = "idle"])
  /\ UNCHANGED <<switchVars, queue, suspended, boot, ipc>>

Tick ==
  \/ TickStart \/ PopSet \/ PopReloadBusy \/ PopReload \/ AbortReturns \/ Stage
  \/ Rebuild \/ Reselect \/ Resume \/ Suspend \/ Decide

----------------------------------------------------------------------------
\* prts_boot_anim_finish, by its timer or by a key: a look at the state, then
\* the rest.

BootEnter(who) ==
  /\ st = "boot" /\ who \notin boot
  /\ boot' = boot \cup {who}
  /\ UNCHANGED <<switchVars, queue, suspended, tick, ipc, inputs, disturbed, overlayVars>>

BootLeave(who) ==
  /\ who \in boot
  /\ boot' = boot \ {who}
  /\ st' = "idle"
  /\ playing' = None
  /\ timers' = Append(timers, Timer("stage2", 1, "loop"))
  /\ Disturb(StagePending \/ tick.pc # "idle")
  /\ UNCHANGED <<tableVars, first, lost, queue, suspended, tick, ipc, inputs, overlayVars>>

----------------------------------------------------------------------------
\* Inputs.

Input(kind) ==
  /\ kind \in Kinds
  /\ inputs < MaxInputs
  /\ inputs' = inputs + 1

\* prts_request_set_operator and prts_request_reload_assets.
Request(kind, r) ==
  /\ Input(kind)
  /\ Len(queue) < QueueCap
  /\ queue' = Append(queue, r)
  /\ UNCHANGED <<switchVars, suspended, tick, boot, ipc, disturbed, overlayVars>>

MoveTo(s, from, to) == InsertAt(RemoveAt(s, from), to, s[from])

\* Mutant: operator_index stays where it is.
FollowNot(from, to) == cur

\* The operator shown stays the current one.
Follow(from, to) ==
  CASE cur = from -> to
    [] from < cur /\ cur <= to -> cur - 1
    [] to <= cur /\ cur < from -> cur + 1
    [] OTHER -> cur

\* prts_move_operator, on the UI thread.
Move(from, to) ==
  /\ Input("move")
  /\ from # to
  /\ ops' = MoveTo(ops, from, to)
  /\ cur' = Follow(from, to)
  /\ Disturb(timers # <<>> \/ st # "idle" \/ tick.pc # "idle")
  /\ UNCHANGED <<st, first, playVars, timers, queue, suspended, tick, boot, ipc, overlayVars>>

\* The decoder finds its file gone.
SourceLost ==
  /\ Input("lost")
  /\ playing # None
  /\ playing' = None
  /\ lost' = TRUE
  /\ UNCHANGED <<tableVars, st, first, timers, queue, suspended, tick, boot, ipc,
                 disturbed, overlayVars>>

\* handle_overlay_schedule_transition: overlay_abort, ...
IpcAbort ==
  /\ Input("ipc")
  /\ ipc = "no"
  /\ ipc' = IF used THEN "wait" ELSE "go"
  /\ Disturb(tick.pc \in {"abort", "rebuild", "stage"})
  /\ IF used THEN AbortBegin ELSE UNCHANGED overlayVars
  /\ UNCHANGED <<switchVars, queue, suspended, tick, boot>>

\* ... then the image is loaded, and a fade or move started.  A late request for a
\* frame is over by then.
IpcStart ==
  /\ ipc = "go" \/ (ipc = "wait" /\ Aborted)
  /\ NoneLate
  /\ ipc' = "no"
  /\ StartTimed
  /\ UNCHANGED <<switchVars, queue, suspended, tick, boot, inputs, disturbed>>

Step ==
  \/ Fire \/ WorkerStep \/ Tick
  \/ \E e \in Effects : EffectTick(e)
  \/ \E who \in {"timer", "key"} : BootEnter(who) \/ BootLeave(who)
  \/ \E slot \in DOMAIN ops : Request("set", slot)
  \/ Request("reload", Reload)
  \/ \E from, to \in DOMAIN ops : Move(from, to)
  \/ SourceLost \/ IpcAbort \/ IpcStart

Next == (disturbed => GoOn) /\ Step

Spec == Init /\ [][Next]_vars

\* Timers expire; the threads of the tick, of IPC and of the worker run.
Fairness ==
  /\ WF_vars(Fire) /\ WF_vars(WorkerStep) /\ WF_vars(Tick) /\ WF_vars(IpcStart)
  /\ \A e \in Effects : WF_vars(EffectTick(e))
  /\ \A who \in {"timer", "key"} : WF_vars(BootLeave(who))
  /\ WF_vars(BootEnter("timer"))

FairSpec == Spec /\ Fairness

----------------------------------------------------------------------------
\* Properties.

\* A table that is rebuilt is used by nobody: no worker draws from an entry that
\* was freed, no timer holds a pointer to one (prts.c: "stop the overlay worker
\* that may still hold the old opinfo_params, or the free below is a use after
\* free").
\* It does not hold: README, section 6.
NoStaleEntry ==
  /\ worker.fx # None => fx[worker.fx].live
  /\ \A k \in DOMAIN timers : ~timers[k].old

\* The same, as long as no switch is disturbed.
NoStaleEntryInOrder == disturbed \/ NoStaleEntry

\* No switch is under way.
Settled ==
  /\ st = "idle" /\ timers = <<>> /\ ~first
  /\ tick.pc \in {"idle", "drain"}

\* When a switch is over, the loop video of the operator at operator_index is
\* playing (or none, when it cannot), whatever was moved, reloaded and asked for
\* meanwhile: the index of the second stage, of the timers of the transition and of
\* the list agree.
ShowsSelected ==
  Settled /\ ~disturbed => playing \in {None, <<ops[cur], "loop">>}

\* "Suspended" is: nothing plays until the assets are reloaded (prts_tick_cb).
\* It does not hold: README, section 6.
SuspendedIsSilent == suspended => playing = None

\* The chain of timers, worker and callbacks never breaks: every switch comes to
\* its end, in which alone requests are obeyed.
SettlesIdle == st # "idle" ~> (st = "idle" \/ disturbed)

\* A reload is put back while a switch runs, but not for ever; and the tick is
\* not caught in overlay_abort.
ReloadHonoured ==
  Reload \in Range(queue) ~> (tick.pc = "rebuild" \/ disturbed)

\* Switches, reloads and moves in order: no worker or timer uses an entry of an old
\* table, and what plays in the end is the operator at the index.
SwitchIsTrue == TypeOK /\ NoStaleEntryInOrder /\ ShowsSelected

\* And they all come to an end.
RequestsSettle == SettlesIdle /\ ReloadHonoured
=============================================================================
