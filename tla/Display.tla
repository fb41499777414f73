-------------------------------- MODULE Display --------------------------------
(* The planes of the display (drm_warpper.c): the layers ask for coordinates, for an
   alpha and for frames through a queue each, and one thread makes a single commit of
   all it finds. A plane is mounted by a commit of its own, or, for the video, with
   its first frame; it is switched off by a commit of its own, too. The kernel takes
   a commit whole or refuses it whole.                                            *)
EXTENDS Integers, Sequences, FiniteSets

CONSTANTS
    Places,      \* where a plane may be asked to stand: 0 is the origin, 1 beside the screen
    Buffers,     \* frames of the video
    Opaque,      \* alpha 255
    QueueRoom,   \* of display_queue
    MaxWishes,   \* requests of each layer
    MaxRefused,  \* commits that the kernel refuses for reasons of its own
    MaxStops     \* how often the video is stopped

Video   == 0     \* DRM_WARPPER_LAYER_VIDEO, .._OVERLAY, .._UI
Overlay == 1
Ui      == 2
Layers == {Video, Overlay, Ui}
NoFrame == 0

\* -1 and 0 stand for "not asked" and "no frame" below.
ASSUME DisplayAssumption ==
    /\ -1 \notin Places /\ Opaque # -1
    /\ 0 \notin Buffers

VARIABLES
    device,   \* what drm_warpper_init holds
    bringup,  \* how far it is: a step, "running", "failed", "headless", "crashed", "over"
    used,     \* layers that are initialised
    dumb,     \* of a layer: what its buffer holds in the kernel
    planes,   \* what the kernel shows of each layer
    wishes,   \* display_queue of each layer
    drained,  \* what the display thread has taken and not committed: a request per layer
    remount,  \* needs_full_mount of the video
    playing,  \* does the decoder send frames
    free,     \* frames of the video that may be sent
    scanned,  \* curr_item
    wanted,   \* what each plane was asked to be last
    lost,     \* layers that lost a request with a commit that was refused
    budget    \* requests of each layer, refusals and stops so far

resources == <<device, bringup, used, dumb>>
displayVars == <<resources, planes, wishes, drained, remount, playing, free, scanned, wanted, lost, budget>>

Unasked == [at |-> -1, alpha |-> -1, frame |-> NoFrame, full |-> FALSE]
Idle == [l \in Layers |-> Unasked]
Off == [on |-> FALSE, at |-> 0, alpha |-> Opaque, z |-> -1, frame |-> NoFrame]

------------------------------------------------------------------------------
(* drm_warpper_init: each step takes something, and on failure what was taken is
   given back in the order the code lists it.                                    *)

InitSteps == <<"open", "atomic", "resources", "universal", "planes", "properties", "connector", "crtc", "thread">>
Takes == [open |-> {"fd"}, atomic |-> {}, resources |-> {"res"}, universal |-> {}, planes |-> {"planes"},
          properties |-> {}, connector |-> {"connector"}, crtc |-> {}, thread |-> {"thread"}]

GivesBack(step) ==
    CASE step = "open" -> {}
      [] step \in {"atomic", "resources"} -> {"fd"}
      [] step \in {"universal", "planes"} -> {"res", "fd"}
      [] step \in {"properties", "connector"} -> {"planes", "res", "fd"}
      [] step \in {"crtc", "thread"} -> {"connector", "planes", "res", "fd"}

After(step) == LET i == CHOOSE j \in DOMAIN InitSteps : InitSteps[j] = step
               IN  IF i = Len(InitSteps) THEN "running" ELSE InitSteps[i + 1]

\* The kernel lists its resources, but no CRTC or no connector among them: this ends
\* the bring-up like a list that could not be had, and leaves the list allocated.
NothingToDrive ==
    /\ bringup = "resources"
    /\ device' = (device \cup Takes[bringup]) \ GivesBack(bringup)
    /\ bringup' = "headless"

InitStep ==
    /\ bringup \in DOMAIN Takes
    /\ \/ device' = device \cup Takes[bringup] /\ bringup' = After(bringup)
       \/ device' = device \ GivesBack(bringup) /\ bringup' = "failed"
       \/ NothingToDrive
    /\ UNCHANGED <<used, dumb, planes, wishes, drained, remount, playing, free, scanned, wanted, lost, budget>>

NoBuffers == [l \in Layers |-> {}]

\* What drm_warpper_create_buffer_object may leave when it fails
HalfMade == {{}, {"handle"}, {"handle", "fb"}}

\* drm_warpper_mount_layer_rect: a commit of its own; alpha and frame stay
Mounted(l) == [planes[l] EXCEPT !.on = TRUE, !.at = 1, !.z = l]

\* overlay_init, and lvgl_drm_warp_init, which does the same: a buffer and a mount,
\* beside the display thread. A buffer that cannot be made is written all the same.
OverlayInit(l) ==
    \/ /\ \E made \in HalfMade : dumb' = [dumb EXCEPT ![l] = made]
       /\ bringup' = "crashed"
       /\ UNCHANGED <<planes, wanted>>
    \/ /\ dumb' = [dumb EXCEPT ![l] = {"handle", "fb", "map"}]
       /\ planes' = [planes EXCEPT ![l] = Mounted(l)]
       /\ wanted' = [wanted EXCEPT ![l].at = 1]
       /\ UNCHANGED bringup

\* drm_warpper_init_layer, and what the owner of the layer does then
StartLayer(l) ==
    /\ bringup = "running" /\ used = 0 .. l - 1
    /\ used' = used \cup {l}
    /\ IF l = Video THEN UNCHANGED <<bringup, dumb, planes, wanted>> ELSE OverlayInit(l)
    /\ UNCHANGED <<device, wishes, drained, remount, playing, free, scanned, lost, budget>>

\* overlay_destroy and lvgl_drm_warp_destroy give their buffers back; then
\* drm_warpper_destroy: the thread first, then the layers, then the device.
Destroy ==
    /\ bringup = "running" /\ drained = Idle /\ used = Layers
    /\ bringup' = "over"
    /\ dumb' = NoBuffers
    /\ device' = {} /\ used' = {}
    /\ UNCHANGED <<planes, wishes, drained, remount, playing, free, scanned, wanted, lost, budget>>

------------------------------------------------------------------------------
(* Requests *)

Push(l, w) ==
    /\ l \in used /\ Len(wishes[l]) < QueueRoom
    /\ wishes' = [wishes EXCEPT ![l] = Append(@, w)]

Asks(l) == budget.asked[l] < MaxWishes[l] /\ budget' = [budget EXCEPT !.asked[l] = @ + 1]

\* drm_warpper_set_layer_coord
SetCoord(l, to) ==
    /\ Asks(l) /\ Push(l, [type |-> "coord", to |-> to])
    /\ wanted' = [wanted EXCEPT ![l].at = to]
    /\ UNCHANGED <<resources, planes, drained, remount, playing, free, scanned, lost>>

\* Only the overlay may fade.
MayFade(l, to) == l = Overlay \/ to = Opaque

\* drm_warpper_set_layer_alpha
SetAlpha(l, to) ==
    /\ Asks(l)
    /\ IF MayFade(l, to)
       THEN Push(l, [type |-> "alpha", to |-> to]) /\ wanted' = [wanted EXCEPT ![l].alpha = to]
       ELSE UNCHANGED <<wishes, wanted>>
    /\ UNCHANGED <<resources, planes, drained, remount, playing, free, scanned, lost>>

\* drm_warpper_enqueue_display_item with a frame
Flip ==
    /\ playing /\ Asks(Video)
    /\ \E f \in free : Push(Video, [type |-> "flip", to |-> f]) /\ free' = free \ {f}
    /\ UNCHANGED <<resources, planes, drained, remount, playing, scanned, wanted, lost>>

\* drm_warpper_set_layer_geometry, when a video starts, and again by a transition
\* (mount_video_layer_callback): the plane is mounted with the next frame.
SetGeometry ==
    /\ bringup = "running" /\ Video \in used
    /\ playing' \in {playing, TRUE}
    /\ remount' = TRUE
    /\ UNCHANGED <<resources, planes, wishes, drained, free, scanned, wanted, lost, budget>>

------------------------------------------------------------------------------
(* The display thread *)

\* The requests of one type in a queue, the last of them, and what it asks for
OfType(q, t) == {i \in DOMAIN q : q[i].type = t}
Last(q, t) == CHOOSE i \in OfType(q, t) : \A j \in OfType(q, t) : j <= i
LastOf(q, t) == q[Last(q, t)].to

\* Mutant: the last of the coordinates that were queued is not the one that counts.
FirstCoord(q) == q[CHOOSE i \in OfType(q, "coord") : \A j \in OfType(q, "coord") : i <= j].to

LastCoord(q) == LastOf(q, "coord")

\* Of all that is queued, the last of each kind counts; a frame mounts a plane that is
\* to be mounted.
Collected(l) ==
    LET q == wishes[l]
    IN  [at    |-> IF OfType(q, "coord") = {} THEN -1 ELSE LastCoord(q),
         alpha |-> IF OfType(q, "alpha") = {} THEN -1 ELSE LastOf(q, "alpha"),
         frame |-> IF OfType(q, "flip") = {} THEN NoFrame ELSE LastOf(q, "flip"),
         full  |-> l = Video /\ remount /\ OfType(q, "flip") # {}]

\* Frames behind which another one is queued
Overtaken(q) == {q[i].to : i \in {i \in OfType(q, "flip") : \E j \in OfType(q, "flip") : i < j}}

\* The frames of an earlier one are given back with the commit; here at once, as
\* nobody scans them.
DisplayDrains ==
    /\ bringup = "running" /\ drained = Idle /\ \E l \in used : wishes[l] # <<>>
    /\ drained' = [l \in Layers |-> Collected(l)]
    /\ free' = free \cup Overtaken(wishes[Video])
    /\ wishes' = [l \in Layers |-> <<>>]
    /\ UNCHANGED <<resources, planes, remount, playing, scanned, wanted, lost, budget>>

\* The kernel: a frame for a plane that is off has to name the CRTC.
Valid(l) == drained[l].frame # NoFrame => planes[l].on \/ drained[l].full

\* z-order = layer_id
MountedZ(l) == l

Applied(l) ==
    LET r == drained[l]
        p == planes[l]
    IN  [on    |-> p.on \/ r.full,
         at    |-> IF r.full THEN 0 ELSE IF r.at = -1 THEN p.at ELSE r.at,
         alpha |-> IF r.alpha = -1 THEN p.alpha ELSE r.alpha,
         z     |-> IF r.full THEN MountedZ(l) ELSE p.z,
         frame |-> IF r.frame = NoFrame THEN p.frame ELSE r.frame]

Held(f) == IF f = NoFrame THEN {} ELSE {f}

Commit ==
    /\ drained # Idle
    /\ \A l \in Layers : Valid(l)
    /\ planes' = [l \in Layers |-> Applied(l)]
    /\ IF drained[Video].frame = NoFrame THEN UNCHANGED <<remount, free, scanned>>
       ELSE remount' = FALSE /\ free' = free \cup Held(scanned) /\ scanned' = drained[Video].frame
    /\ drained' = Idle
    /\ UNCHANGED <<resources, wishes, playing, wanted, lost, budget>>

\* A commit that is refused gives the frames back; what else it held is gone.
Refused ==
    /\ drained # Idle
    /\ \/ \E l \in Layers : ~Valid(l) /\ UNCHANGED budget
       \/ budget.refused < MaxRefused /\ budget' = [budget EXCEPT !.refused = @ + 1]
    /\ free' = free \cup Held(drained[Video].frame)
    /\ lost' = lost \cup {l \in Layers : drained[l] # Unasked}
    /\ drained' = Idle
    /\ UNCHANGED <<resources, planes, wishes, remount, playing, scanned, wanted>>

------------------------------------------------------------------------------
(* A commit of another thread, one at a time with the display thread's *)

\* drm_warpper_disable_layer_sync, when the video stops and its
\* decoder is joined: the plane is mounted anew with the next frame.
Disable ==
    /\ bringup = "running" /\ Video \in used /\ budget.stops < MaxStops
    /\ budget' = [budget EXCEPT !.stops = @ + 1]
    /\ planes' = [planes EXCEPT ![Video] = [@ EXCEPT !.on = FALSE, !.frame = NoFrame]]
    /\ remount' = TRUE /\ playing' = FALSE
    /\ UNCHANGED <<resources, wishes, drained, free, scanned, wanted, lost>>

------------------------------------------------------------------------------
DisplayInit ==
    /\ device = {} /\ bringup = "open" /\ used = {} /\ dumb = NoBuffers
    /\ planes = [l \in Layers |-> Off] /\ wishes = [l \in Layers |-> <<>>] /\ drained = Idle
    /\ remount = FALSE /\ playing = FALSE /\ free = Buffers /\ scanned = NoFrame
    /\ wanted = [l \in Layers |-> [at |-> 0, alpha |-> Opaque]] /\ lost = {}
    /\ budget = [asked |-> [l \in Layers |-> 0], refused |-> 0, stops |-> 0]

DisplayNext ==
    \/ InitStep \/ Destroy \/ Flip \/ SetGeometry \/ DisplayDrains \/ Commit \/ Refused \/ Disable
    \/ \E l \in Layers : StartLayer(l)
    \/ \E l \in {Overlay, Ui}, to \in Places : SetCoord(l, to)
    \/ \E l \in {Overlay, Ui}, to \in {0, Opaque} : SetAlpha(l, to)

DisplaySpec == DisplayInit /\ [][DisplayNext]_displayVars

------------------------------------------------------------------------------
Queued == {wishes[Video][i].to : i \in OfType(wishes[Video], "flip")}

\* However the requests of the threads fall into commits: the planes stand in the order
\* of the layers, only the overlay lets another plane show through (the hardware can
\* blend one), every frame is in one place, a plane whose requests are all done and of
\* which no commit was refused is where it was asked to be last; but for a video that
\* stops, no commit of the program's is one the kernel has to refuse; and a display
\* that was closed holds nothing, and one that could not be opened nothing but, where
\* no CRTC or connector was found, the list of resources they were looked for in.
PlanesAsAsked ==
    /\ \A l \in Layers : (planes[l].on => planes[l].z = l) /\ (planes[l].alpha # Opaque => l = Overlay)
    /\ \A f \in Buffers : Cardinality({p \in {<<"free", free>>, <<"queued", Queued>>,
                                             <<"drained", {drained[Video].frame}>>, <<"scanned", {scanned}>>} : f \in p[2]}) = 1
    /\ \A l \in used \ ({Video} \cup lost) :
          wishes[l] = <<>> /\ drained = Idle /\ bringup = "running" =>
              planes[l].at = wanted[l].at /\ planes[l].alpha = wanted[l].alpha
    /\ budget.refused = 0 /\ budget.stops = 0 => lost = {}
    /\ bringup \in {"failed", "headless", "over"} =>
          /\ device = IF bringup = "headless" THEN {"res"} ELSE {}
          /\ \A l \in Layers : dumb[l] = {}
==============================================================================
