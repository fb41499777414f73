--------------------------- MODULE VideoPipeline ---------------------------
(***************************************************************************)
(* The way of a video frame: decoded into a capture buffer ("slot"),       *)
(* reordered in the DPB, paced through a ring, queued for the display      *)
(* thread, committed to the plane, and recycled when it is off screen      *)
(* (render/mediaplayer.c, vdec/h264_dpb.c, driver/drm_warpper.c).          *)
(*                                                                         *)
(* Four threads act: the decoder, the pacer (only if Smooth > 0), the      *)
(* display thread, and the thread that plays and stops sessions.  Two      *)
(* sessions share the queues and the plane: what a stop leaves behind is   *)
(* met by the next one.                                                    *)
(***************************************************************************)
EXTENDS Integers, Sequences, FiniteSets, SequencesExt

CONSTANTS
  NSlots,       \* capture buffers of a session (cap_count)
  MaxRef,       \* max_num_ref_frames
  Reorder,      \* reorder_depth
  Smooth,       \* depth of the ring to the pacer, 0 without a pacer
  DisplayCap,   \* capacity of display_queue (16)
  FreeCap,      \* capacity of free_queue (28)
  MaxGen,       \* sessions played
  Faults,       \* may decoding, opening a session and a commit fail
  Impatient,    \* may stop give up after 40 rounds of 10 ms
  NoItem

ASSUME PipelineAssumption ==
  /\ NSlots \in Nat \ {0} /\ MaxRef \in Nat \ {0}
  /\ Reorder \in Nat /\ Smooth \in Nat
  /\ DisplayCap \in Nat \ {0} /\ FreeCap \in Nat \ {0}
  /\ MaxGen \in Nat
  /\ Faults \in BOOLEAN /\ Impatient \in BOOLEAN

VARIABLES
  gen,        \* session_gen
  open,       \* session_open: the buffers and framebuffers of gen exist
  stopReq,    \* requested_stop
  pic,        \* the flags of each slot in the DPB
  dec,        \* the decoder: [pc, slot, gop]
  ring,       \* smooth_q
  ringOpen,
  pacer,      \* the pacer: its program counter, or the item it holds
  dq, fq,     \* display_queue and free_queue of the video layer
  shot,       \* the display thread: [pc, batch, mount, ok]
  curr,       \* layer->curr_item
  mount,      \* layer->needs_full_mount
  plane,      \* the item whose framebuffer the hardware scans out
  inFlight,   \* items_in_flight
  ctl         \* the stop in progress

decVars  == <<pic, dec>>
ringVars == <<ring, ringOpen, pacer>>
dispVars == <<dq, shot, curr, plane>>
vars == <<gen, open, stopReq, decVars, ringVars, dispVars, fq, mount, inFlight, ctl>>

Slots == 0 .. NSlots - 1
Flags == {"ref", "wait", "out"}     \* in_dpb, needed_for_output, on_screen
Item == [gen : 1 .. MaxGen, slot : Slots]

ASSUME ItemAssumption == NoItem \notin Item

Frames(q) == {q[i] : i \in DOMAIN q}

TypeOK ==
  /\ gen \in 0 .. MaxGen
  /\ open \in BOOLEAN /\ stopReq \in BOOLEAN /\ ringOpen \in BOOLEAN
  /\ pic \in [Slots -> SUBSET Flags]
  /\ dec \in [pc : {"off", "top", "pick", "begin", "decode", "hand", "done", "error"},
              slot : Slots, gop : {"inside", "drain", "idr"}]
  /\ \A q \in {ring, dq, fq, shot.batch} : Frames(q) \subseteq Item
  /\ Len(ring) <= Smooth /\ Len(dq) <= DisplayCap /\ Len(fq) <= FreeCap
  /\ pacer \in Item \cup {NoItem}
  /\ shot.pc \in {"drain", "commit", "recycle"}
  /\ shot.mount \in BOOLEAN /\ shot.ok \in BOOLEAN /\ mount \in BOOLEAN
  /\ curr \in Item \cup {NoItem} /\ plane \in Item \cup {NoItem}
  /\ inFlight \in 0 .. MaxGen * NSlots
  /\ ctl \in {"idle", "join", "settle", "disable", "remount", "close"}

Init ==
  /\ gen = 0 /\ open = FALSE /\ stopReq = FALSE
  /\ pic = [s \in Slots |-> {}]
  /\ dec = [pc |-> "off", slot |-> 0, gop |-> "idr"]
  /\ ring = <<>> /\ ringOpen = FALSE /\ pacer = NoItem
  /\ dq = <<>> /\ fq = <<>>
  /\ shot = [pc |-> "drain", batch |-> <<>>, mount |-> FALSE, ok |-> FALSE]
  /\ curr = NoItem /\ mount = FALSE /\ plane = NoItem
  /\ inFlight = 0 /\ ctl = "idle"

\* The first session was stopped with a frame of it on screen: its item stays.
InitShown ==
  /\ gen = 1 /\ open = FALSE /\ stopReq = TRUE
  /\ pic = [s \in Slots |-> IF s = 0 THEN {"out"} ELSE {}]
  /\ dec = [pc |-> "off", slot |-> 0, gop |-> "inside"]
  /\ ring = <<>> /\ ringOpen = FALSE /\ pacer = NoItem
  /\ dq = <<>> /\ fq = <<>>
  /\ shot = [pc |-> "drain", batch |-> <<>>, mount |-> FALSE, ok |-> TRUE]
  /\ curr = [gen |-> 1, slot |-> 0] /\ mount = TRUE /\ plane = NoItem
  /\ inFlight = 1 /\ ctl = "idle"

----------------------------------------------------------------------------
\* The DPB: a slot is in use as long as one of its flags is set.

With(flag) == {s \in Slots : flag \in pic[s]}

\* Mutant: a frame on screen does not keep its slot.
SetOnScreenNever(p, s) == p

SetOnScreen(p, s) == [p EXCEPT ![s] = @ \cup {"out"}]

MarkDisplayed(p, s) == [p EXCEPT ![s] = @ \ {"wait"}]

\* Marking: the picture may become a reference, others cease to be one.
EndFrame(s, keep, ref) ==
  [t \in Slots |-> IF t = s THEN (IF ref THEN {"wait", "ref"} ELSE {"wait"})
                   ELSE IF t \in keep THEN pic[t]
                   ELSE pic[t] \ {"ref"}]

\* Mutant: the session an item belongs to is not looked at.
OffScreenAny(p, items) ==
  [s \in Slots |-> IF \E i \in items : i.slot = s THEN p[s] \ {"out"} ELSE p[s]]

\* What mp_reclaim_free_items does to the slots of the items that came back.
OffScreen(p, items) ==
  [s \in Slots |-> IF [gen |-> gen, slot |-> s] \in items THEN p[s] \ {"out"} ELSE p[s]]

\* Mutant: items of an earlier session are not counted.
ReclaimMine(p) ==
  /\ pic' = OffScreen(p, Frames(fq))
  /\ inFlight' = inFlight - Cardinality({i \in Frames(fq) : i.gen = gen})
  /\ fq' = <<>>

\* mp_reclaim_free_items: p is the DPB it finds.
Reclaim(p) ==
  /\ pic' = OffScreen(p, Frames(fq))
  /\ inFlight' = inFlight - Len(fq)
  /\ fq' = <<>>

----------------------------------------------------------------------------
\* The decoder.

DecGoto(pc) == dec' = [dec EXCEPT !.pc = pc]

\* The head of the loop.
DecoderTop ==
  /\ dec.pc = "top"
  /\ IF stopReq
     THEN DecGoto("done") /\ UNCHANGED <<pic, inFlight, fq>>
     ELSE Reclaim(pic) /\ DecGoto("pick")
  /\ UNCHANGED <<gen, open, stopReq, ringVars, dispVars, mount, ctl>>

\* h264_dpb_next_output: any waiting picture stands for the one with the
\* lowest POC.  At the end of a GOP everything that waits is put out.
Due == IF dec.gop = "drain" THEN With("wait") # {}
                            ELSE Cardinality(With("wait")) > Reorder

\* mp_make_frame_item.
DecoderEmit(s) ==
  /\ dec.pc = "pick"
  /\ Due /\ s \in With("wait")
  /\ pic' = MarkDisplayed(SetOnScreen(pic, s), s)
  /\ inFlight' = inFlight + 1
  /\ dec' = [dec EXCEPT !.pc = "hand", !.slot = s]
  /\ UNCHANGED <<gen, open, stopReq, ringVars, dispVars, fq, mount, ctl>>

\* Nothing to put out: feed the next sample, or, where the next one is an IDR,
\* drain the DPB first.
DecoderFeed ==
  /\ dec.pc = "pick"
  /\ ~Due
  /\ \/ dec.gop # "drain" /\ DecGoto("begin")
     \/ dec.gop = "inside" /\ dec' = [dec EXCEPT !.gop = "drain"]
     \/ dec.gop = "drain" /\ \E pc \in {"top", "begin"} :
                              dec' = [dec EXCEPT !.pc = pc, !.gop = "idr"]
  /\ UNCHANGED <<gen, open, stopReq, pic, ringVars, dispVars, fq, mount, inFlight, ctl>>

\* h264_dpb_begin_frame; without a free slot, wait and reclaim.  The IDR
\* empties the reference set even if it then finds no slot.
DecoderBegin ==
  /\ dec.pc = "begin"
  /\ LET cleared == IF dec.gop = "idr" THEN [s \in Slots |-> pic[s] \ {"ref"}] ELSE pic
         free == {s \in Slots : cleared[s] = {}}
     IN IF free = {}
        THEN Reclaim(cleared) /\ UNCHANGED dec
        ELSE LET s == CHOOSE x \in free : \A y \in free : x <= y
             IN /\ pic' = [cleared EXCEPT ![s] = {"wait"}]
                /\ dec' = [pc |-> "decode", slot |-> s, gop |-> "inside"]
                /\ UNCHANGED <<inFlight, fq>>
  /\ UNCHANGED <<gen, open, stopReq, ringVars, dispVars, mount, ctl>>

\* vdec_decode returned, h264_dpb_end_frame.
DecoderEnd(keep, ref) ==
  /\ dec.pc = "decode"
  /\ keep \subseteq With("ref")
  /\ Cardinality(keep) + (IF ref THEN 1 ELSE 0) <= MaxRef
  /\ pic' = EndFrame(dec.slot, keep, ref)
  /\ DecGoto("pick")
  /\ UNCHANGED <<gen, open, stopReq, ringVars, dispVars, fq, mount, inFlight, ctl>>

\* No item can be allocated, or a sample cannot be read, parsed or decoded; a
\* slot being decoded is freed.
DecoderFault ==
  /\ Faults
  /\ dec.pc \in {"pick", "begin", "decode"}
  /\ pic' = IF dec.pc = "decode" THEN [pic EXCEPT ![dec.slot] = {}] ELSE pic
  /\ DecGoto("error")
  /\ UNCHANGED <<gen, open, stopReq, ringVars, dispVars, fq, mount, inFlight, ctl>>

Hand == [gen |-> gen, slot |-> dec.slot]

\* Into the ring: it may be full, or closed by a stop.
DecoderToRing ==
  /\ Smooth > 0
  /\ dec.pc = "hand"
  /\ IF ringOpen
     THEN /\ Len(ring) < Smooth
          /\ ring' = Append(ring, Hand)
          /\ DecGoto("top")
          /\ UNCHANGED inFlight
     ELSE /\ inFlight' = inFlight - 1
          /\ DecGoto("done")
          /\ UNCHANGED ring
  /\ UNCHANGED <<gen, open, stopReq, pic, ringOpen, pacer, dispVars, fq, mount, ctl>>

\* Without a pacer: wait for the frame's time, reclaim, queue it.
DecoderToDisplay ==
  /\ Smooth = 0
  /\ dec.pc = "hand"
  /\ Len(dq) < DisplayCap
  /\ Reclaim(pic)
  /\ dq' = Append(dq, Hand)
  /\ DecGoto("top")
  /\ UNCHANGED <<gen, open, stopReq, ringVars, shot, curr, plane, mount, ctl>>

\* The pacer takes a frame, also from a closed ring, and queues it.
PacerTake ==
  /\ pacer = NoItem
  /\ ring # <<>>
  /\ pacer' = Head(ring)
  /\ ring' = Tail(ring)
  /\ UNCHANGED <<gen, open, stopReq, decVars, ringOpen, dispVars, fq, mount, inFlight, ctl>>

\* Mutant: a push that does not wait for room.
PacerSendUnbounded ==
  /\ pacer # NoItem
  /\ dq' = Append(dq, pacer)
  /\ pacer' = NoItem
  /\ UNCHANGED <<gen, open, stopReq, decVars, ring, ringOpen, shot, curr, plane,
                 fq, mount, inFlight, ctl>>

PacerSend ==
  /\ pacer # NoItem
  /\ Len(dq) < DisplayCap
  /\ dq' = Append(dq, pacer)
  /\ pacer' = NoItem
  /\ UNCHANGED <<gen, open, stopReq, decVars, ring, ringOpen, shot, curr, plane,
                 fq, mount, inFlight, ctl>>

----------------------------------------------------------------------------
\* The display thread.

\* Everything queued becomes one commit of its last frame.
DisplayDrain ==
  /\ shot.pc = "drain"
  /\ dq # <<>>
  /\ shot' = [pc |-> "commit", batch |-> dq, mount |-> mount, ok |-> FALSE]
  /\ dq' = <<>>
  /\ UNCHANGED <<gen, open, stopReq, decVars, ringVars, curr, plane, fq, mount,
                 inFlight, ctl>>

Newest == Last(shot.batch)

\* The kernel refuses a framebuffer that was removed, and one for a plane
\* that is off and is not mounted by the same commit.
Acceptable == open /\ Newest.gen = gen /\ (shot.mount \/ plane # NoItem)

DisplayCommit ==
  /\ shot.pc = "commit"
  /\ \E ok \in BOOLEAN :
       /\ ok => Acceptable
       /\ ~ok => ~Acceptable \/ Faults
       /\ plane' = IF ok THEN Newest ELSE plane
       /\ shot' = [shot EXCEPT !.pc = "recycle", !.ok = ok]
  /\ UNCHANGED <<gen, open, stopReq, decVars, ringVars, dq, curr, fq, mount,
                 inFlight, ctl>>

\* Mutant: the frame that left the screen is forgotten.
ReturnedSkipped == IF ~shot.ok THEN shot.batch ELSE Front(shot.batch)

\* Mutant: the frame just committed is recycled too.
ReturnedAll == shot.batch \o (IF curr = NoItem THEN <<>> ELSE <<curr>>)

\* What goes back: after a commit the skipped frames and the one that left the
\* screen, otherwise the whole batch.
Returned ==
  IF ~shot.ok THEN shot.batch
  ELSE Front(shot.batch) \o (IF curr = NoItem THEN <<>> ELSE <<curr>>)

DisplayRecycle ==
  /\ shot.pc = "recycle"
  /\ Len(fq) + Len(Returned) <= FreeCap
  /\ fq' = fq \o Returned
  /\ curr' = IF shot.ok THEN Newest ELSE curr
  /\ mount' = IF shot.ok THEN FALSE ELSE mount
  /\ shot' = [shot EXCEPT !.pc = "drain", !.batch = <<>>]
  /\ UNCHANGED <<gen, open, stopReq, decVars, ringVars, dq, plane, inFlight, ctl>>

----------------------------------------------------------------------------
\* mediaplayer_play_video and mediaplayer_stop.

\* mp_prepare_and_spawn: with a new generation, an empty DPB, and the plane to
\* be mounted by the first frame.
Play ==
  /\ ctl = "idle" /\ ~open /\ gen < MaxGen
  /\ gen' = gen + 1
  /\ open' = TRUE
  /\ stopReq' = FALSE
  /\ pic' = [s \in Slots |-> {}]
  /\ dec' = [pc |-> "top", slot |-> 0, gop |-> "idr"]
  /\ ring' = <<>> /\ ringOpen' = TRUE /\ pacer' = NoItem
  /\ mount' = TRUE
  /\ UNCHANGED <<dispVars, fq, inFlight, ctl>>

\* The file cannot be decoded after all.
PlayFails ==
  /\ Faults
  /\ ctl = "idle" /\ ~open /\ gen < MaxGen
  /\ gen' = gen + 1
  /\ stopReq' = FALSE
  /\ mount' \in {mount, TRUE}
  /\ UNCHANGED <<open, decVars, ringVars, dispVars, fq, inFlight, ctl>>

\* Mutant: the ring stays open.
StopRequestOpen ==
  /\ ctl = "idle" /\ open
  /\ stopReq' = TRUE
  /\ ctl' = "join"
  /\ UNCHANGED <<gen, open, decVars, ringVars, dispVars, fq, mount, inFlight>>

\* requested_stop, and the ring is closed for both its ends.
StopRequest ==
  /\ ctl = "idle" /\ open
  /\ stopReq' = TRUE
  /\ ringOpen' = FALSE
  /\ ctl' = "join"
  /\ UNCHANGED <<gen, open, decVars, ring, pacer, dispVars, fq, mount, inFlight>>

\* The decoder has ended, and the pacer has found its ring closed and empty.
StopJoin ==
  /\ ctl = "join"
  /\ dec.pc \in {"done", "error"}
  /\ Smooth > 0 => ~ringOpen /\ ring = <<>> /\ pacer = NoItem
  /\ ctl' = "settle"
  /\ UNCHANGED <<gen, open, stopReq, decVars, ringVars, dispVars, fq, mount, inFlight>>

\* Mutant: a stop that does not wait.
StopSettleNot ==
  /\ ctl = "settle"
  /\ ctl' = "disable"
  /\ UNCHANGED <<gen, open, stopReq, decVars, ringVars, dispVars, fq, mount, inFlight>>

\* Wait for the frames to come back, all but the one on screen.
StopSettle ==
  /\ ctl = "settle"
  /\ \/ inFlight > 1 /\ Reclaim(pic) /\ UNCHANGED ctl
     \/ /\ inFlight <= 1 \/ Impatient
        /\ ctl' = "disable"
        /\ UNCHANGED <<pic, inFlight, fq>>
  /\ UNCHANGED <<gen, open, stopReq, dec, ringVars, dispVars, mount>>

\* drm_warpper_disable_layer_sync: a commit, then, if it did not fail, a flag.
StopDisable ==
  /\ ctl = "disable"
  /\ \/ plane' = NoItem /\ ctl' = "remount"
     \/ Faults /\ ctl' = "close" /\ UNCHANGED plane
  /\ UNCHANGED <<gen, open, stopReq, decVars, ringVars, dq, shot, curr, fq, mount, inFlight>>

StopRemount ==
  /\ ctl = "remount"
  /\ mount' = TRUE
  /\ ctl' = "close"
  /\ UNCHANGED <<gen, open, stopReq, decVars, ringVars, dispVars, fq, inFlight>>

\* mp_close_session: removing the framebuffer on screen turns the plane off.
StopClose ==
  /\ ctl = "close"
  /\ open' = FALSE
  /\ plane' = NoItem
  /\ dec' = [dec EXCEPT !.pc = "off"]
  /\ ctl' = "idle"
  /\ UNCHANGED <<gen, stopReq, pic, ringVars, dq, shot, curr, fq, mount, inFlight>>

----------------------------------------------------------------------------
DecoderStep ==
  \/ DecoderTop \/ DecoderFeed \/ DecoderBegin \/ DecoderFault
  \/ DecoderToRing \/ DecoderToDisplay
  \/ \E s \in Slots : DecoderEmit(s)
  \/ \E keep \in SUBSET With("ref"), ref \in BOOLEAN : DecoderEnd(keep, ref)

PacerStep == PacerTake \/ PacerSend

DisplayStep == DisplayDrain \/ DisplayCommit \/ DisplayRecycle

StopStep == StopJoin \/ StopSettle \/ StopDisable \/ StopRemount \/ StopClose

Next == DecoderStep \/ PacerStep \/ DisplayStep \/ StopStep \/ Play \/ PlayFails \/ StopRequest

Spec == Init /\ [][Next]_vars

\* Threads run; a stop in progress goes on.  Nobody need play or stop.
Fairness ==
  /\ WF_vars(DecoderStep) /\ WF_vars(PacerStep)
  /\ WF_vars(DisplayStep) /\ WF_vars(StopStep)

FairSpec == Spec /\ Fairness

FairSpecShown == InitShown /\ [][Next]_vars /\ Fairness

----------------------------------------------------------------------------
\* The items that are on their way between the decoder and its free queue.
Travelling ==
  Frames(ring) \cup Frames(dq) \cup Frames(fq)
    \cup (IF dec.pc = "hand" THEN {Hand} ELSE {})
    \cup (IF pacer = NoItem THEN {} ELSE {pacer})
    \cup (IF curr = NoItem THEN {} ELSE {curr})
    \cup Frames(shot.batch)

\* The hardware never shows a buffer the decoder is writing: neither the frame
\* on the plane nor one queued for it lies in the slot being decoded.
NoTearing ==
  dec.pc = "decode" => \A i \in Travelling \cup {plane} :
                          i # NoItem /\ i.gen = gen => i.slot # dec.slot

\* A slot is held for the screen exactly as long as an item of this session
\* carries it: none is recycled early and none is lost, also when stopped
\* sessions leave items behind that carry the same slot numbers.
HeldWhileTravelling ==
  dec.pc \notin {"off", "done"} =>
    \A s \in Slots : "out" \in pic[s] <=> [gen |-> gen, slot |-> s] \in Travelling

\* items_in_flight counts the items that exist, over any number of sessions:
\* the wait in mediaplayer_stop relies on it.
CountsInFlight == inFlight = Cardinality(Travelling)

\* The display thread never waits for room in the free queue, which only the
\* decoder empties.
RecycleNeverBlocks ==
  shot.pc = "recycle" => Len(fq) + Len(Returned) <= FreeCap

\* mediaplayer.c: after the plane is disabled, "RmFB does not touch the fb on
\* screen".
\* It does not hold: README, section 6.
CloseOffScreen == ctl = "close" => plane = NoItem

\* While a session is played new frames keep coming to the screen: the decoder
\* does not starve for slots, and the queues do not block each other.
FramesKeepComing ==
  []<>(ctl # "idle" \/ ~open \/ dec.pc = "error" \/ (shot.pc = "recycle" /\ shot.ok))

\* A stop terminates, wherever it finds the threads.
StopTerminates == ctl = "join" ~> ctl = "idle"

\* Every frame is somewhere and counted, over stops that gave up waiting.
FramesAccounted == HeldWhileTravelling /\ CountsInFlight

\* Decoder, screen and display thread do not get into each other's way.
ScreenKept == TypeOK /\ NoTearing /\ RecycleNeverBlocks
=============================================================================
