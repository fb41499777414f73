------------------------------ MODULE Overlay ------------------------------
(***************************************************************************)
(* overlay/overlay.c and the effects that draw through its worker          *)
(* (overlay/opinfo.c, the swipe of overlay/transitions.c).  An endless     *)
(* timer of the effect asks the worker for a frame; only the worker ends   *)
(* the effect, and sets overlay_timer_handle to 0 when it has.             *)
(*                                                                         *)
(* What the effects draw is left out, except for the entry of the operator *)
(* table they hold a pointer to.                                           *)
(***************************************************************************)
EXTENDS Integers, Sequences, FiniteSets, SequencesExt

CONSTANTS
  None,
  LateTicks  \* effects whose timer callback may be overtaken by their end

Effects == {"engine", "ark", "swipe"}

ASSUME LateTicksAssumption == LateTicks \subseteq Effects
ASSUME NoneAssumption == None \notin Effects

VARIABLES
  used,      \* overlay_used
  abortReq,  \* request_abort
  handle,    \* overlay_timer_handle: the effect whose timer it is, or None
  active,    \* s_engine.active
  fx,        \* fx[e]: the static data of effect e
  ticks,     \* effects with a timer callback started and not yet at the worker
  worker     \* pending, and the effect it draws (in_progress) or None

overlayVars == <<used, abortReq, handle, active, fx, ticks, worker>>

\* slot: the entry pointed to; live: the effect has not ended and the entry is the
\* one it was given; mid: middle_cb_called.
FxData(Slots, Parts) ==
  [slot : Slots, part : Parts, mid : BOOLEAN, live : BOOLEAN]

NoData == [slot |-> 1, part |-> "loop", mid |-> FALSE, live |-> FALSE]

OverlayTypeOK(Slots, Parts) ==
  /\ used \in BOOLEAN /\ abortReq \in BOOLEAN /\ active \in BOOLEAN
  /\ handle \in Effects \cup {None}
  /\ fx \in [Effects -> FxData(Slots, Parts)]
  /\ ticks \subseteq Effects
  /\ worker \in [fx : Effects \cup {None}, pending : Effects \cup {None}]

OverlayInit ==
  /\ used = FALSE /\ abortReq = FALSE /\ active = FALSE
  /\ handle = None
  /\ fx = [e \in Effects |-> NoData]
  /\ ticks = {}
  /\ worker = [fx |-> None, pending |-> None]

----------------------------------------------------------------------------
\* Starting.

Data(slot, part) == [slot |-> slot, part |-> part, mid |-> FALSE, live |-> TRUE]

\* overlay_transition_fade and _move: everything else is done by one-shot timers.
StartTimed ==
  /\ abortReq' = FALSE
  /\ UNCHANGED <<used, handle, active, fx, ticks, worker>>

\* overlay_transition_swipe.  It does not set overlay_used.
StartSwipe(slot, part) ==
  /\ abortReq' = FALSE
  /\ handle' = "swipe"
  /\ fx' = [fx EXCEPT !["swipe"] = Data(slot, part)]
  /\ UNCHANGED <<used, active, ticks, worker>>

\* overlay_opinfo_show_elements refuses while the engine is active;
\* overlay_opinfo_show_arknights does not look.
Show(e, slot) ==
  IF e = "engine" /\ active
  THEN UNCHANGED overlayVars
  ELSE /\ abortReq' = FALSE /\ used' = TRUE
       /\ handle' = e
       /\ active' = (active \/ e = "engine")
       /\ fx' = [fx EXCEPT ![e] = Data(slot, "loop")]
       /\ UNCHANGED <<ticks, worker>>

----------------------------------------------------------------------------
\* overlay_abort: with overlay_used = 0 there is nothing to wait for; otherwise
\* the caller polls until Aborted.

AbortBegin ==
  /\ used' = FALSE
  /\ abortReq' = TRUE
  /\ UNCHANGED <<handle, active, fx, ticks, worker>>

Aborted == handle = None

----------------------------------------------------------------------------
\* The timer of an effect, and overlay_worker_schedule.

\* A busy worker drops the request.
Ask(e) ==
  worker' = IF worker.fx = None THEN [worker EXCEPT !.pending = e] ELSE worker

FxTick(e) ==
  /\ handle = e
  /\ IF e \in LateTicks
     THEN /\ e \notin ticks
          /\ ticks' = ticks \cup {e}
          /\ UNCHANGED worker
     ELSE /\ Ask(e)
          /\ UNCHANGED ticks
  /\ UNCHANGED <<used, abortReq, handle, active, fx>>

\* No request for a frame is left of an effect that has ended.
NoneLate == ticks \cup {worker.pending} \subseteq {handle, None}

LateTick(e) ==
  /\ e \in ticks
  /\ ticks' = ticks \ {e}
  /\ Ask(e)
  /\ UNCHANGED <<used, abortReq, handle, active, fx>>

----------------------------------------------------------------------------
\* overlay_worker_thread.

WorkerDone == worker' = [worker EXCEPT !.fx = None]

\* Mutant: the engine forgets to report its end.
CleanupSilent(e) ==
  /\ active' = (active /\ e # "engine")
  /\ fx' = [fx EXCEPT ![e] = NoData]
  /\ UNCHANGED handle

\* The timer is cancelled and its handle cleared (engine_cleanup, swipe_cleanup).
Cleanup(e) ==
  /\ handle' = None
  /\ active' = (active /\ e # "engine")
  /\ fx' = [fx EXCEPT ![e] = NoData]

\* Mutant: a late request finds the engine's data gone and uses it.
IgnoresNever(e) == FALSE

\* Only the engine tells a request that comes after its end.
Ignores(e) == e = "engine" /\ ~active

\* A request is taken.
WorkerTakes ==
  /\ worker.fx = None /\ worker.pending # None
  /\ UNCHANGED <<used, abortReq, ticks>>

WorkerIgnore ==
  /\ WorkerTakes
  /\ Ignores(worker.pending)
  /\ worker' = [worker EXCEPT !.pending = None]
  /\ UNCHANGED <<handle, active, fx>>

WorkerAbort ==
  /\ WorkerTakes
  /\ ~Ignores(worker.pending) /\ abortReq
  /\ worker' = [worker EXCEPT !.pending = None]
  /\ Cleanup(worker.pending)

WorkerDraw ==
  /\ WorkerTakes
  /\ ~Ignores(worker.pending) /\ ~abortReq
  /\ worker' = [fx |-> worker.pending, pending |-> None]
  /\ UNCHANGED <<handle, active, fx>>

\* A frame of an opinfo is drawn; the engine may have come to its end.
WorkerDrawn ==
  /\ worker.fx \in {"engine", "ark"}
  /\ WorkerDone
  /\ \/ UNCHANGED <<handle, active, fx>>
     \/ worker.fx = "engine" /\ Cleanup("engine")
  /\ UNCHANGED <<used, abortReq, ticks>>

\* The frame of a swipe with which its middle callback is due.
SwipeHalf ==
  /\ worker.fx = "swipe" /\ ~fx["swipe"].mid
  /\ fx' = [fx EXCEPT !["swipe"].mid = TRUE]
  /\ WorkerDone
  /\ UNCHANGED <<used, abortReq, handle, active, ticks>>

\* The last frame of a swipe.
SwipeLast ==
  /\ worker.fx = "swipe" /\ fx["swipe"].mid
  /\ Cleanup("swipe")
  /\ WorkerDone
  /\ UNCHANGED <<used, abortReq, ticks>>
=============================================================================
