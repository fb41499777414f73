----------------------------- MODULE Transitions -----------------------------
(* The transitions between operators (overlay/transitions.c) and the fades and
   moves of a plane they are made of (render/layer_animation.c): the plane with
   the colour and the picture comes over the video, middle_cb changes the video
   behind it, the plane goes, end_cb tells that it is over.

   fade and move set a timer for every step and every callback and are done;
   each timer runs its callback in a thread of its own, up to Late time units
   after it was due. swipe paints columns in the overlay's worker, which drops a
   request for a frame while it is busy.                                       *)
EXTENDS Integers, Sequences, FiniteSets

CONSTANTS
    Durations,        \* durations of a transition, in time units
    StepTime,         \* LAYER_ANIMATION_STEP_TIME
    FrameTime,        \* OVERLAY_ANIMATION_STEP_TIME
    CleanupDelay,     \* 500 ms after the end
    Late,             \* how late a timer may be
    Drops,            \* frames the worker may miss
    Columns,          \* UI_WIDTH
    ImageWidth        \* of a loaded picture

ASSUME TransitionAssumption ==
    /\ Durations \subseteq Nat
    /\ StepTime \in Nat \ {0} /\ FrameTime \in Nat \ {0}
    /\ CleanupDelay \in Nat /\ Late \in Nat /\ Drops \in Nat
    /\ Columns \in Nat /\ ImageWidth \in Nat

VARIABLES
    kind, duration, image,  \* params: type, duration, is there a picture
    now,
    timers,           \* those not fired yet: due, what
    plane,            \* alpha and x of the overlay layer
    cols,             \* column -> what the buffer shows there
    swipe,            \* swipe_worker_data: frame; -1 when it has been cleaned up
    dropped,
    called            \* how often middle_cb, end_cb and the free of the callback have run

trVars == <<kind, duration, image, now, timers, plane, cols, swipe, dropped, called>>

Kinds == {"fade", "move", "swipe"}
Col == 0 .. Columns - 1
Most(a, b) == IF a > b THEN a ELSE b
Least2(a, b) == IF a < b THEN a ELSE b

\* the picture is put in the middle of the screen
ImageStart == Columns \div 2 - ImageWidth \div 2
ImageEnd == Columns \div 2 + ImageWidth \div 2
Filled == [c \in Col |-> IF image /\ c >= ImageStart /\ c < ImageStart + ImageWidth THEN "image" ELSE "colour"]
Clear == [c \in Col |-> "clear"]

------------------------------------------------------------------------------
(* Fades and moves *)

Solid == 100      \* 255
Curve(i, n, from, to) == from + ((to - from) * i) \div n
\* the values of the steps; the last is the aim (layer_animation_fade_in, _fade_out, _cubic_bezier_move)
StepValuesOpen(n, from, to) == [i \in 0 .. n - 1 |-> Curve(i, n, from, to)]     \* mutant: the last one is computed as well
StepValues(n, from, to) == [i \in 0 .. n - 1 |-> IF i = n - 1 THEN to ELSE Curve(i, n, from, to)]

\* one periodic timer, written as the times it fires; without a step there is none
Animation(what, from, to, delay) ==
    LET n == duration \div StepTime
        values == StepValues(n, from, to)
    IN {[due |-> delay + i * StepTime, what |-> what, to |-> values[i]] : i \in 0 .. n - 1}

Once(what, due) == {[due |-> due, what |-> what, to |-> 0]}
TransitionCalls == Once("middle", duration) \cup Once("end", 3 * duration) \cup Once("cleanup", 3 * duration + CleanupDelay)

\* overlay_transition_fade
StartFade ==
    /\ plane = [alpha |-> 0, x |-> 0]
    /\ cols = Filled
    /\ timers = Animation("alpha", 0, Solid, 0) \cup Animation("alpha", Solid, 0, 2 * duration) \cup TransitionCalls

\* overlay_transition_move
StartMove ==
    /\ plane = [alpha |-> Solid, x |-> Columns]
    /\ cols = Filled
    /\ timers = Animation("x", Columns, 0, 0) \cup Animation("x", 0, -Columns, 2 * duration) \cup TransitionCalls

\* overlay_transition_swipe: the first frame comes when the duration has passed once
StartSwipeEffect ==
    /\ plane = [alpha |-> Solid, x |-> 0]
    /\ cols = Clear
    /\ timers = Once("frame", duration)

TrInit ==
    /\ kind \in Kinds /\ duration \in Durations /\ image \in BOOLEAN
    /\ now = 0
    /\ \/ kind = "fade" /\ StartFade
       \/ kind = "move" /\ StartMove
       \/ kind = "swipe" /\ StartSwipeEffect
    /\ swipe = IF kind = "swipe" THEN 0 ELSE -1
    /\ dropped = 0
    /\ called = [middle |-> 0, end |-> 0, freed |-> 0]

Wait ==
    /\ timers # {}
    /\ \A t \in timers : now < t.due + Late
    /\ now' = now + 1
    /\ UNCHANGED <<kind, duration, image, timers, plane, cols, swipe, dropped, called>>

\* a timer fires; of the steps of one animation the next is fired
Fire(what) == \E t \in timers :
    /\ t.what = what /\ t.due <= now
    /\ \A u \in timers : u.what = what => t.due <= u.due
    /\ timers' = timers \ {t}
    /\ plane' = CASE what = "alpha" -> [plane EXCEPT !.alpha = t.to]
                  [] what = "x" -> [plane EXCEPT !.x = t.to]
                  [] OTHER -> plane
    /\ called' = CASE what = "middle" -> [called EXCEPT !.middle = @ + 1]
                   [] what = "end" -> [called EXCEPT !.end = @ + 1]
                   [] what = "cleanup" -> [called EXCEPT !.freed = @ + 1]
                   [] OTHER -> called
    /\ UNCHANGED <<kind, duration, image, now, cols, swipe, dropped>>

FadeStep == Fire("alpha")      \* layer_animation_fade_cb
MoveStep == Fire("x")          \* layer_animation_move_cb
Middle == Fire("middle")
End == Fire("end")
FreeCallback == Fire("cleanup")

------------------------------------------------------------------------------
(* The swipe *)

Stage == duration \div FrameTime          \* frames_per_stage
Total == (3 * duration) \div FrameTime    \* total_frames
\* bezeir_values: as many as a stage has frames
Bezier == [i \in 0 .. Stage - 1 |-> (Columns * (3 * i * i * Stage - 2 * i * i * i)) \div (Stage * Stage * Stage)]

\* the columns a frame of a stage paints; the rounding of Total lets the last stage
\* have more frames than Bezier has values: it starts at whatever lies behind them
From(f) == IF f = 0 THEN {0} ELSE IF f \in DOMAIN Bezier THEN {Bezier[f]} ELSE {-1, Columns}
To(f) == IF f + 1 < Stage THEN Bezier[f + 1] ELSE Columns
Painted(from, to, part) == [c \in Col |-> IF c >= from /\ c < to THEN part[c] ELSE cols[c]]

\* of the picture, the part between the columns
PartOf(from, to) ==
    LET shown(c) == image /\ c >= Most(from, ImageStart) /\ c < Least2(to, ImageEnd)
    IN [c \in Col |-> IF shown(c) THEN "image" ELSE "colour"]

\* middle_cb is called in the first frame of the second stage
SwipeMiddle == [called EXCEPT !.middle = IF called.middle = 0 THEN 1 ELSE @]

\* what a frame leaves: [cols, called]
SwipeFrame ==
    CASE swipe < Stage -> {[cols |-> Painted(x, To(swipe), PartOf(x, To(swipe))), called |-> called] : x \in From(swipe)}
      [] swipe >= Stage /\ swipe < 2 * Stage -> {[cols |-> cols, called |-> SwipeMiddle]}
      [] OTHER -> LET f == swipe - 2 * Stage IN
                  {[cols |-> Painted(x, To(f), Clear), called |-> called] : x \in From(f)}

NextFrame == timers' = {[due |-> t.due + FrameTime, what |-> "frame", to |-> 0] : t \in timers}
FrameDue == \A t \in timers : t.what = "frame" /\ t.due <= now

\* swipe_worker; at the end the plane is parked first, and the timer goes with the data (swipe_cleanup)
\* The last frame parks the plane out of view (the code below the screen, here
\* beside it). A transition that is called off in its middle is in Overlay.
SwipeWork ==
    /\ swipe >= 0 /\ FrameDue
    /\ \E drawn \in SwipeFrame :
         /\ cols' = drawn.cols
         /\ IF swipe + 1 >= Total
            THEN /\ plane' = [plane EXCEPT !.x = Columns]
                 /\ called' = [drawn.called EXCEPT !.end = @ + 1, !.freed = @ + 1]
                 /\ swipe' = -1
                 /\ timers' = {}
            ELSE /\ called' = drawn.called
                 /\ swipe' = swipe + 1
                 /\ NextFrame
                 /\ UNCHANGED plane
    /\ UNCHANGED <<kind, duration, image, now, dropped>>

SwipeDrop ==
    /\ swipe >= 0 /\ FrameDue
    /\ dropped < Drops
    /\ dropped' = dropped + 1
    /\ NextFrame
    /\ UNCHANGED <<kind, duration, image, now, plane, cols, swipe, called>>

TrNext == Wait \/ FadeStep \/ MoveStep \/ Middle \/ End \/ FreeCallback \/ SwipeWork \/ SwipeDrop
TrSpec == TrInit /\ [][TrNext]_trVars

------------------------------------------------------------------------------
Covered == plane = [alpha |-> Solid, x |-> 0] /\ \A c \in Col : cols[c] # "clear"
OutOfView == plane.alpha = 0 \/ plane.x \in {Columns, -Columns} \/ cols = Clear

\* The video changes behind the curtain: middle_cb runs while the plane covers the
\* whole screen, with the picture in its middle and no column forgotten, and when
\* end_cb runs nothing of the plane is in view, whichever frames the worker misses and
\* for timers that are late, as long as none is by a step or more (Late < StepTime). (A
\* transition shorter than one step of its animation has no curtain.)
ChangesHidden == [][
    /\ called'.middle # called.middle => (duration >= StepTime => Covered /\ cols = Filled)
    /\ called'.end # called.end => (duration >= StepTime => OutOfView') /\ (duration >= FrameTime => called'.middle = 1)]_trVars

CalledOnce == called.middle <= 1 /\ called.end <= 1 /\ called.freed <= 1

\* Every transition comes to its end: end_cb is called once, middle_cb once, and the
\* callback is freed once (a swipe shorter than a frame never calls middle_cb).
TransitionEnds ==
    /\ []CalledOnce
    /\ (timers # {}) ~> (timers = {} /\ called.end = 1 /\ called.freed = 1
                         /\ called.middle = (IF kind = "swipe" /\ duration < FrameTime THEN 0 ELSE 1))
==============================================================================
