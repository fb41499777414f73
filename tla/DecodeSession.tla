---------------------------- MODULE DecodeSession ----------------------------
(* What a playback session of mediaplayer.c owns, from mediaplayer_play_video to
   mp_close_session: the demuxer (mp4_demux.c), the decoder device (vdec_v4l2.c),
   the rotator of the devices that are mounted upside down (sdrot.c), the
   framebuffers, the ring and the two threads. Every step of opening may fail;
   what was opened so far is then given back.

   A context is what its structure says: got, the resources its fields name;
   zero, whether it is still as calloc made it, so that its descriptor fields
   hold 0. held is what the process really holds. The picture itself, its slot
   and its way to the screen are in VideoPipeline and H264Dpb.                 *)
EXTENDS Integers, Sequences, FiniteSets, SequencesExt

CONSTANTS
    Streams,      \* the streams that are played: [vui, dec, reorder, ref, large]
    Memories,     \* MemTotal in MB, 0 where it cannot be read
    LargeMemory, LargeReserve, SmallReserve,  \* MP_MEM_LARGE_THRESHOLD_KB, MP_SMOOTH_BUFS_*
    MaxGen,       \* sessions
    OutCount,     \* VDEC_OUTPUT_BUF_COUNT
    MaxCap,       \* VDEC_MAX_CAP_BUFS
    CapMin, CapLarge, CapSmall, ReorderDepth, Hold  \* VDEC_* and SDROT_DISPLAY_HOLD

ASSUME SessionAssumption ==
    /\ \A s \in Streams : {s.vui, s.large} \subseteq BOOLEAN /\ {s.dec, s.ref} \subseteq Nat
    /\ {LargeReserve, SmallReserve, OutCount, CapMin, CapLarge, CapSmall, ReorderDepth, Hold} \subseteq Nat
    /\ MaxCap \in Nat /\ CapLarge <= MaxCap /\ CapSmall <= MaxCap

VARIABLES
    pc,       \* what mp_prepare_and_spawn does next, "idle" outside of it
    mp,       \* mediaplayer_t: [path, open, running, gen, flags], and what is
              \* detected once: [inverted, smooth]
    demux, vdec, rot,   \* the contexts of the session
    fbs,      \* fb_ids that are not 0
    chosen,   \* yflip, smooth_bufs, cap_count, flip_count of the session
    ring,     \* smooth_q_ready
    pacer,    \* pacer_started
    decoder,  \* the decode thread: "none", "runs" or "over"
    requests, \* each media request: "idle", "dirty" or "queued"
    turn,     \* out_next
    kernel,   \* buffers the drivers own: <<"out", i>>, <<"cap", i>>, <<"rotin", i>>, <<"rotout", i>>
    busy,     \* flip_busy
    away,     \* <<gen, flip slot>> of the frames the display has
    held,     \* ghost: what the process holds
    wrong     \* ghost: descriptors that were closed and are not the session's

ownVars == <<demux, vdec, rot, fbs, ring, pacer>>
devVars == <<requests, turn, kernel, busy, away>>
sessionVars == <<pc, mp, chosen, decoder, held, wrong, ownVars, devVars>>

------------------------------------------------------------------------------
(* Ladders: the resources a function takes, in order. What has no resource of its
   own, but may fail, is a step too. A resource is [kind, index].             *)

Upto(ladder, k) == ToSet(SubSeq(ladder, 1, k))
Each(kinds, n) == [i \in 1 .. n * Len(kinds) |-> <<kinds[((i - 1) % Len(kinds)) + 1], (i - 1) \div Len(kinds)>>]
Once(kinds) == Each(kinds, 1)
Checks == {"setup", "stream"}

\* mp4_open; the mapping is given up when all the rest is there.
DemuxLadder == Once(<<"file", "map", "samples", "extradata", "sample_buf">>)

\* vdec_open: the device says what it can do and takes the formats;
SetupStep == Once(<<"setup">>)
\* the output buffers are made, and of each a mapping and a request;
OutSteps == Once(<<"outbufs">>) \o Each(<<"outmap", "request">>, OutCount)
\* the capture buffers, and of each a mapping and a descriptor to pass on;
CapSteps(caps) == Once(<<"capbufs">>) \o Each(<<"capmap", "dmabuf">>, caps)
\* and both queues are started.
StreamStep == Once(<<"stream">>)

VdecLadder(caps) ==
    Once(<<"video", "media">>) \o SetupStep \o OutSteps \o CapSteps(caps) \o StreamStep

\* sdrot_open: formats and angle, the pool, both queues
RotSetup == Once(<<"setup">>)
RotPool(flips) == Once(<<"rotbufs">>) \o Each(<<"rotmap", "rotdmabuf">>, flips)
RotLadder(flips) == Once(<<"rotfd">>) \o RotSetup \o RotPool(flips) \o StreamStep

\* An opened context; counted, the kinds of buffer whose count is stored
Context(got, counted) == [zero |-> FALSE, got |-> {r \in got : r[1] \notin Checks}, counted |-> counted]
Closed == Context({}, {})
Zero   == [zero |-> TRUE, got |-> {}, counted |-> {}]

\* Mutant: a count is stored when the loop over the buffers is through.
VdecAfterLate(ladder, k) ==
    LET got == Upto(ladder, k)
    IN  Context(got, (IF <<"capbufs", 0>> \in got THEN {"outmap", "request"} ELSE {})
                     \cup (IF k = Len(ladder) THEN {"capmap", "dmabuf"} ELSE {}))

\* vdec_open after k steps: the counts are stored before the loops.
VdecAfter(ladder, k) ==
    LET got == Upto(ladder, k)
    IN  Context(got, (IF <<"outbufs", 0>> \in got THEN {"outmap", "request"} ELSE {})
                     \cup (IF <<"capbufs", 0>> \in got THEN {"capmap", "dmabuf"} ELSE {}))

\* vdec_close gives back what is in the fields, up to the counts.
VdecReturns(v) == {r \in v.got : r[1] \in {"outmap", "request", "capmap", "dmabuf"} => r[1] \in v.counted}

\* sdrot_close; the count is stored before the loop.
RotReturns(s) == s.got

\* mp4_close: while the mapping is there, extradata points into it.
DemuxReturns(d) == IF <<"map", 0>> \in d.got THEN d.got \ {<<"extradata", 0>>} ELSE d.got

\* Closing a context that calloc made closes descriptor 0 for each of its fields.
Strays(ctx, n) == IF ctx.zero THEN n ELSE 0

------------------------------------------------------------------------------
(* The buffers of a session *)

AtMost(a, b)  == IF a < b THEN a ELSE b
AtLeast(a, b) == IF a > b THEN a ELSE b

\* mp_smooth_bufs: a machine that does not tell is a small one.
Reserve(memory) == IF memory >= LargeMemory THEN LargeReserve ELSE SmallReserve

\* The part of mp_prepare_and_spawn that counts: decoding, then the reserve of the
\* pacer on top of the clamp, then what the rotator's pool takes over.
Budget(s) ==
    LET want   == IF s.vui THEN s.dec + 4
                  ELSE s.ref + AtLeast(s.ref, ReorderDepth) + 3
        fit    == AtMost(AtLeast(want, CapMin), IF s.large THEN CapLarge ELSE CapSmall)
        smooth == AtMost(mp.smooth, MaxCap - fit)
        flips  == Hold + smooth
    IN  [yflip |-> mp.inverted, smooth |-> smooth,
         caps  |-> IF ~mp.inverted THEN fit + smooth
                   ELSE IF fit + smooth > flips + CapMin THEN fit + smooth - flips ELSE CapMin,
         flips |-> IF mp.inverted THEN flips ELSE 0]

NoBudget == [yflip |-> FALSE, smooth |-> 0, caps |-> 0, flips |-> 0]

------------------------------------------------------------------------------
(* mediaplayer_init: priv is calloc'd, so the contexts are zero. *)

SessionInit ==
    /\ pc = "idle"
    /\ mp \in [path : {FALSE}, open : {FALSE}, running : {FALSE}, gen : {0}, flags : {{}},
               inverted : BOOLEAN, smooth : {Reserve(m) : m \in Memories}]
    /\ demux = Zero /\ vdec = Zero /\ rot = Zero
    /\ fbs = {} /\ chosen = NoBudget /\ ring = FALSE /\ pacer = FALSE /\ decoder = "none"
    /\ requests = [i \in 0 .. OutCount - 1 |-> "idle"] /\ turn = 0
    /\ kernel = {} /\ busy = {} /\ away = {}
    /\ held = {} /\ wrong = 0

\* mediaplayer_set_video
SetVideo ==
    /\ pc = "idle" /\ ~mp.running /\ ~mp.path
    /\ mp' = [mp EXCEPT !.path = TRUE]
    /\ UNCHANGED <<pc, chosen, decoder, held, wrong, ownVars, devVars>>

\* The flags of the session before are cleared first.
Prepare ==
    /\ pc = "idle" /\ ~mp.running /\ mp.gen < MaxGen
    /\ pc' = "demux"
    /\ mp' = [mp EXCEPT !.flags = {}]
    /\ UNCHANGED <<chosen, decoder, held, wrong, ownVars, devVars>>

\* mediaplayer_play_video, and mediaplayer_start where a path is set
PlayVideo == Prepare
Start     == mp.path /\ Prepare

\* mp4_open fails after k resources: all but one path ends in mp4_close, and the
\* last malloc frees the copy of extradata itself. There is no session to close.
DemuxFails(k) ==
    LET got == Upto(DemuxLadder, k)
    IN  /\ pc = "demux"
        /\ demux' = Closed
        /\ held' = (held \cup got) \ (DemuxReturns(Context(got, {})) \cup {<<"extradata", 0>>})
        /\ pc' = "idle"
        /\ UNCHANGED <<mp, chosen, decoder, wrong, vdec, rot, fbs, ring, pacer, devVars>>

\* mp4_open succeeds: the session is open from here on.
DemuxOpens ==
    /\ pc = "demux"
    /\ demux' = Context(ToSet(DemuxLadder) \ {<<"map", 0>>}, {})
    /\ held' = held \cup demux'.got
    /\ mp' = [mp EXCEPT !.open = TRUE, !.gen = @ + 1]
    /\ pc' = "headers"
    /\ UNCHANGED <<chosen, decoder, wrong, vdec, rot, fbs, ring, pacer, devVars>>

\* Codec, size of the samples, avcC, SPS, interlacing, crop: any may refuse the
\* file, and the mount of the layer may too, when yflip is set already.
HeadersFail ==
    /\ pc = "headers"
    /\ pc' = "error"
    /\ chosen' \in {chosen, [chosen EXCEPT !.yflip = mp.inverted]}
    /\ UNCHANGED <<mp, decoder, held, wrong, ownVars, devVars>>

HeadersPass(s) ==
    /\ pc = "headers"
    /\ chosen' = Budget(s)
    /\ pc' = "ring"
    /\ UNCHANGED <<mp, decoder, held, wrong, ownVars, devVars>>

RingOpens ==
    /\ pc = "ring"
    /\ \/ chosen.smooth = 0 /\ pc' = "vdec" /\ UNCHANGED <<ring, held>>
       \/ chosen.smooth > 0 /\ pc' = "vdec" /\ ring' = TRUE /\ held' = held \cup {<<"ring", 0>>}
       \/ chosen.smooth > 0 /\ pc' = "error" /\ UNCHANGED <<ring, held>>
    /\ UNCHANGED <<mp, chosen, decoder, wrong, demux, vdec, rot, fbs, pacer, devVars>>

\* vdec_find_device: every device it looks at is closed again.
NoDecoder ==
    /\ pc = "vdec"
    /\ pc' = "error"
    /\ UNCHANGED <<mp, chosen, decoder, held, wrong, ownVars, devVars>>

\* vdec_open stops after k steps; its vdec_close follows.
VdecFails(k) ==
    LET v == VdecAfter(VdecLadder(chosen.caps), k)
    IN  /\ pc = "vdec"
        /\ vdec' = Closed
        /\ held' = held \cup (v.got \ VdecReturns(v))
        /\ pc' = "error"
        /\ UNCHANGED <<mp, chosen, decoder, wrong, demux, rot, fbs, ring, pacer, devVars>>

\* vdec_open: new buffers and requests, all of them in the process's hands
VdecOpens ==
    /\ pc = "vdec"
    /\ vdec' = VdecAfter(VdecLadder(chosen.caps), Len(VdecLadder(chosen.caps)))
    /\ held' = held \cup vdec'.got
    /\ requests' = [i \in DOMAIN requests |-> "idle"] /\ turn' = 0
    /\ pc' = IF chosen.yflip THEN "rot" ELSE "fbs"
    /\ UNCHANGED <<mp, chosen, decoder, wrong, demux, rot, fbs, ring, pacer, kernel, busy, away>>

\* sdrot_open after sdrot_find_device
RotFails(k) ==
    LET s == Context(Upto(RotLadder(chosen.flips), k), {})
    IN  /\ pc = "rot"
        /\ rot' = Closed
        /\ held' = held \cup (s.got \ RotReturns(s))
        /\ pc' = "error"
        /\ UNCHANGED <<mp, chosen, decoder, wrong, demux, vdec, fbs, ring, pacer, devVars>>

\* sdrot_find_device, when the context has been emptied
NoRotator ==
    /\ pc = "rot"
    /\ rot' = Closed
    /\ pc' = "error"
    /\ UNCHANGED <<mp, chosen, decoder, held, wrong, demux, vdec, fbs, ring, pacer, devVars>>

RotOpens ==
    /\ pc = "rot"
    /\ rot' = Context(ToSet(RotLadder(chosen.flips)), {})
    /\ held' = held \cup rot'.got
    /\ pc' = "fbs"
    /\ UNCHANGED <<mp, chosen, decoder, wrong, demux, vdec, fbs, ring, pacer, devVars>>

\* The buffers that are shown: the rotator's, or the decoder's
Shown == IF chosen.yflip THEN chosen.flips ELSE chosen.caps

\* drm_warpper_import_dmabuf_fb of one buffer after another: when one fails it
\* leaves nothing of its own, and those before it stay.
Imports(n) ==
    /\ pc = "fbs"
    /\ fbs' = 0 .. n - 1
    /\ held' = held \cup {<<"fb", i>> : i \in fbs'}
    /\ pc' = IF n = Shown THEN "threads" ELSE "error"
    /\ UNCHANGED <<mp, chosen, decoder, wrong, demux, vdec, rot, ring, pacer, devVars>>

\* running is set, and the threads are created: the pacer first.
Spawn ==
    /\ pc = "threads"
    /\ \/ pc' = "idle" /\ pacer' = (chosen.smooth > 0) /\ decoder' = "runs"
          /\ mp' = [mp EXCEPT !.running = TRUE]
       \/ pc' = "error" /\ pacer' = FALSE /\ UNCHANGED <<decoder, mp>>
       \/ pc' = "error" /\ pacer' = (chosen.smooth > 0) /\ UNCHANGED <<decoder, mp>>
    /\ held' = held \cup (IF pacer' THEN {<<"pacer", 0>>} ELSE {}) \cup (IF decoder' = "runs" THEN {<<"decoder", 0>>} ELSE {})
    /\ UNCHANGED <<chosen, wrong, demux, vdec, rot, fbs, ring, devVars>>

------------------------------------------------------------------------------
(* Closing *)

\* What mp_close_session gives back: framebuffers up to the count of the pool
\* they index, the rotator only where it is used, the decoder, the demuxer, the ring.
CloseReturns ==
    {<<"fb", i>> : i \in {j \in fbs : j < (IF chosen.yflip THEN chosen.flips
                                           ELSE IF <<"capbufs", 0>> \in vdec.got THEN chosen.caps ELSE 0)}}
    \cup (IF chosen.yflip THEN RotReturns(rot) ELSE {})
    \cup VdecReturns(vdec) \cup DemuxReturns(demux)
    \cup (IF ring THEN {<<"ring", 0>>} ELSE {})

\* mp_close_session; threads are joined before.
CloseSession(joined) ==
    /\ held' = held \ (CloseReturns \cup joined)
    /\ wrong' = wrong + Strays(vdec, 2) + (IF chosen.yflip THEN Strays(rot, 1) ELSE 0)
    /\ fbs' = {} /\ ring' = FALSE /\ pacer' = FALSE
    /\ vdec' = Closed /\ demux' = Closed
    /\ rot' = IF chosen.yflip THEN Closed ELSE rot
    /\ chosen' = NoBudget
    /\ kernel' = {} /\ busy' = IF chosen.yflip THEN {} ELSE busy
    /\ UNCHANGED <<requests, turn, away>>

\* The label error: the ring is closed so that the pacer ends, and it is joined.
GiveUp ==
    /\ pc = "error"
    /\ CloseSession(IF pacer THEN {<<"pacer", 0>>} ELSE {})
    /\ pc' = "idle"
    /\ mp' = [mp EXCEPT !.open = FALSE]
    /\ UNCHANGED decoder

\* mediaplayer_stop while a session runs: both threads are joined, the plane is
\* switched off. What the display still has is no longer waited for after a while.
Stop ==
    /\ pc = "idle" /\ mp.running
    /\ CloseSession({<<"decoder", 0>>} \cup (IF pacer THEN {<<"pacer", 0>>} ELSE {}))
    /\ decoder' = "none"
    /\ mp' = [mp EXCEPT !.running = FALSE, !.open = FALSE]
    /\ UNCHANGED pc

------------------------------------------------------------------------------
(* Decoding *)

\* Mutant: a picture that cannot be decoded is passed over.
GoesOnAfterBadOnes(outcome) == TRUE

\* mp_decode_thread goes on only after a success.
GoesOn(outcome) == outcome = "ok"

\* vdec_decode where it stops: the state of the request, and the buffers that stay
\* with the driver. set_frame_controls leaves the controls it set in the request;
ControlsFail == [req |-> "dirty", bufs |-> {}]
\* queue_buffer fails before anything is queued on its own, and REINIT takes the
\* output buffer out of the request;
QueueFails == [req |-> "idle", bufs |-> {}]
\* the capture buffer does not belong to the request;
RequestFails(slot) == [req |-> "idle", bufs |-> {<<"cap", slot>>}]
\* the device may still be at work after the 300 ms;
WaitFails(slot) == [req |-> "queued", bufs |-> {<<"out", turn>>, <<"cap", slot>>}]
\* dequeue_buffer of the output, then of the capture buffer.
DequeueFails(left) == [req |-> "dirty", bufs |-> left]

VdecLeaves(outcome, slot) ==
    CASE outcome \in {"refused", "ok", "picture"} -> [req |-> "idle", bufs |-> {}]
      [] outcome = "controls" -> ControlsFail
      [] outcome \in {"output", "capture"} -> QueueFails
      [] outcome = "request"  -> RequestFails(slot)
      [] outcome = "wait"     -> WaitFails(slot)
      [] outcome = "dqout"    -> DequeueFails({<<"out", turn>>, <<"cap", slot>>})
      [] outcome = "dqcap"    -> DequeueFails({<<"cap", slot>>})
      [] outcome = "reinit"   -> DequeueFails({})

VdecOutcomes == {"refused", "controls", "output", "capture", "request", "wait", "dqout", "dqcap",
                 "reinit", "picture", "ok"}

\* vdec_decode (in mp_decode_au); "picture" is an error the device reports.
Decode(slot, outcome) ==
    /\ decoder = "runs"
    /\ requests' = [requests EXCEPT ![turn] = VdecLeaves(outcome, slot).req]
    /\ kernel' = kernel \cup VdecLeaves(outcome, slot).bufs
    /\ turn' = IF outcome = "refused" THEN turn ELSE (turn + 1) % OutCount
    /\ decoder' = IF GoesOn(outcome) THEN "runs" ELSE "over"
    /\ mp' = IF GoesOn(outcome) THEN mp ELSE [mp EXCEPT !.flags = {"error"}]
    /\ UNCHANGED <<pc, chosen, held, wrong, ownVars, busy, away>>

\* sdrot_process where it stops
RotLeaves(outcome, slot, k) ==
    CASE outcome \in {"qin", "picture", "ok"} -> {}
      [] outcome = "qout"  -> {<<"rotin", slot>>}
      [] outcome = "dqcap" -> {<<"rotin", slot>>, <<"rotout", k>>}
      [] outcome = "dqout" -> {<<"rotin", slot>>}

\* mp_alloc_flip_slot takes the first that is free.
FreeFlip == CHOOSE k \in 0 .. chosen.flips - 1 : k \notin busy /\ \A j \in 0 .. k - 1 : j \in busy

\* mp_flip_output and mp_make_flip_item
FlipOutput(slot, outcome) ==
    /\ decoder = "runs" /\ chosen.yflip /\ busy # 0 .. chosen.flips - 1
    /\ kernel' = kernel \cup RotLeaves(outcome, slot, FreeFlip)
    /\ decoder' = IF GoesOn(outcome) THEN "runs" ELSE "over"
    /\ mp' = IF GoesOn(outcome) THEN mp ELSE [mp EXCEPT !.flags = {"error"}]
    /\ busy' = IF outcome = "ok" THEN busy \cup {FreeFlip} ELSE busy
    /\ away' = IF outcome = "ok" THEN away \cup {<<mp.gen, FreeFlip>>} ELSE away
    /\ UNCHANGED <<pc, chosen, held, wrong, ownVars, requests, turn>>

\* mp_alloc_flip_slot gives up after 100 rounds.
NoFlip ==
    /\ decoder = "runs" /\ chosen.yflip /\ busy = 0 .. chosen.flips - 1
    /\ decoder' = "over"
    /\ mp' = [mp EXCEPT !.flags = {"error"}]
    /\ UNCHANGED <<pc, chosen, held, wrong, ownVars, devVars>>

\* A frame comes back: mp_reclaim_free_items looks at the session it is of.
Reclaim(f) ==
    /\ decoder = "runs" /\ f \in away
    /\ away' = away \ {f}
    /\ busy' = IF chosen.yflip /\ f[1] = mp.gen THEN busy \ {f[2]} ELSE busy
    /\ UNCHANGED <<pc, mp, chosen, decoder, held, wrong, ownVars, requests, turn, kernel>>

\* mp4_read_sample fails: the source is lost, which is a decode error, too.
SourceLost ==
    /\ decoder = "runs"
    /\ decoder' = "over"
    /\ mp' = [mp EXCEPT !.flags = {"lost", "error"}]
    /\ UNCHANGED <<pc, chosen, held, wrong, ownVars, devVars>>

SessionNext ==
    \/ SetVideo \/ PlayVideo \/ Start \/ DemuxOpens \/ HeadersFail \/ RingOpens \/ NoDecoder \/ NoRotator
    \/ VdecOpens \/ RotOpens \/ Spawn \/ GiveUp \/ Stop \/ NoFlip \/ SourceLost
    \/ \E k \in 0 .. Len(DemuxLadder) - 1 : DemuxFails(k)
    \/ \E s \in Streams : HeadersPass(s)
    \/ pc = "vdec" /\ \E k \in 0 .. Len(VdecLadder(chosen.caps)) - 1 : VdecFails(k)
    \/ pc = "rot" /\ \E k \in 0 .. Len(RotLadder(chosen.flips)) - 1 : RotFails(k)
    \/ pc = "fbs" /\ \E n \in 0 .. Shown : Imports(n)
    \/ \E slot \in {0, 1}, o \in VdecOutcomes : Decode(slot, o)
    \/ \E slot \in {0, 1}, o \in {"qin", "qout", "dqcap", "dqout", "picture", "ok"} : FlipOutput(slot, o)
    \/ \E f \in away : Reclaim(f)

SessionSpec == SessionInit /\ [][SessionNext]_sessionVars

------------------------------------------------------------------------------
(* What a session promises *)

\* When no session is open, whatever failed and whatever ended on the way, the
\* process holds nothing of one: no descriptor, mapping, buffer, framebuffer or
\* thread (the error paths of mp4_open, vdec_open, sdrot_open and mp_close_session).
NothingLeaks == pc = "idle" /\ ~mp.open => held = {}

\* While a thread decodes, every request is clean, no buffer it may queue is still
\* with a driver, and no output buffer it may take is on its way to the screen: a
\* slot left dirty answers EBUSY (vdec_v4l2.c:632, mp_reclaim_free_items).
RequestsClean ==
    decoder = "runs" =>
        /\ \A i \in DOMAIN requests : requests[i] = "idle"
        /\ kernel = {}
        /\ \A f \in away : f[1] = mp.gen => f[2] \in busy

\* "demux is open; from here on everything goes through close_session"
\* (mediaplayer.c:738): closing a session closes what it opened, and no more.
\* It does not hold: README, section 6.
ClosesOnlyItsOwn == wrong = 0

\* A session leaves nothing behind, and nothing is used while somebody has it.
SessionClean == NothingLeaks /\ RequestsClean
==============================================================================
