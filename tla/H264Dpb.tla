------------------------------ MODULE H264Dpb ------------------------------
(***************************************************************************)
(* vdec/h264_dpb.c with the loop of the decoder thread that drives it      *)
(* (render/mediaplayer.c): the pictures of a stream are decoded into slots *)
(* and stay there while they are references, wait for output or are with   *)
(* the display.                                                            *)
(*                                                                         *)
(* The stream is any that keeps the rules of H.264 for frames without      *)
(* gaps in frame_num: the guards marked "stream" say which.  Every         *)
(* picture carries its true place among the references (n), which the code *)
(* does not know; the code knows frame_num, which wraps.                   *)
(***************************************************************************)
EXTENDS Integers, Sequences, FiniteSets, SequencesExt, FiniteSetsExt

CONSTANTS
  MaxRef,        \* max_num_ref_frames
  Reorder,       \* reorder_depth
  MaxFrameNum,   \* MaxFrameNum of the stream
  MaxLong,       \* the largest long_term_frame_idx
  MaxMods,       \* bound: modifications of the lists of one slice
  MaxMmco,       \* bound: operations of one picture on the references
  MaxShown,      \* bound: pictures with the display, the one on screen included
  MaxPoc         \* bound: pictures of one GOP after its IDR picture

ASSUME SizeAssumption ==
  /\ MaxRef \in Nat \ {0}
  /\ MaxShown \in Nat \ {0}
  /\ {Reorder, MaxLong, MaxMods, MaxMmco, MaxPoc} \subseteq Nat
  /\ MaxFrameNum \in Nat /\ MaxFrameNum > MaxRef

VARIABLES
  pic,       \* pic[s]: the picture in slot s
  inDpb,     \* slots with in_dpb: references
  waiting,   \* slots with needed_for_output
  shown,     \* slots with on_screen, in the order handed to the display
  cur,       \* the slot being decoded into, or NoSlot
  maxLong,   \* max_long_term_frame_idx
  running,   \* the decoder thread
  atIdr,     \* the next sample, or the one being decoded, is an IDR picture
  nRef,      \* references since the last IDR picture, it included
  sent,      \* POCs of the pictures of this GOP so far
  lastPoc    \* POC of the last picture output of this GOP

gopVars == <<nRef, sent>>
dpbVars == <<pic, inDpb, waiting, shown, cur, maxLong, running, atIdr,
          gopVars, lastPoc>>

\* The capture buffers mediaplayer.c asks for when the stream does not promise less.
Capacity == MaxRef + Reorder + 3
Slots == 0 .. Capacity - 1
NoSlot == -1
Short == -1

Pictures ==
  [n : 0 .. MaxPoc + 1, frameNum : 0 .. MaxFrameNum - 1, poc : 0 .. MaxPoc,
   isRef : BOOLEAN, long : Short .. MaxLong,
   old : BOOLEAN]  \* of a GOP before the current one

Blank == [n |-> 0, frameNum |-> 0, poc |-> 0, isRef |-> FALSE, long |-> Short,
          old |-> FALSE]

\* Slot s counts as used in the code exactly while one of its three flags is set.
Used == inDpb \cup waiting \cup ToSet(shown)

ShortTerm == {s \in inDpb : pic[s].long = Short}
LongTerm == {s \in inDpb : pic[s].long # Short}

TypeOK ==
  /\ pic \in [Slots -> Pictures]
  /\ inDpb \subseteq Slots /\ waiting \subseteq Slots
  /\ shown \in Seq(Slots)
  /\ cur \in Slots \cup {NoSlot}
  /\ maxLong \in Short .. MaxLong
  /\ running \in BOOLEAN /\ atIdr \in BOOLEAN
  /\ nRef \in 0 .. MaxPoc + 1
  /\ sent \subseteq 0 .. MaxPoc
  /\ lastPoc \in -1 .. MaxPoc

DpbInit ==
  /\ pic = [s \in Slots |-> Blank]
  /\ inDpb = {} /\ waiting = {} /\ shown = <<>>
  /\ cur = NoSlot /\ maxLong = Short
  /\ running = TRUE /\ atIdr = TRUE
  /\ nRef = 0 /\ sent = {} /\ lastPoc = -1

\* What a slot held is of no interest once it is only on screen.
Forget(p, live) == [s \in Slots |-> IF s \in live THEN p[s] ELSE Blank]

----------------------------------------------------------------------------
\* Mutant: no wrap.
PicNumFlat(s, frameNum) == pic[s].frameNum

\* compute_pic_nums, for a short-term reference: PicNum = FrameNumWrap.
PicNum(s, frameNum) ==
  IF pic[s].frameNum > frameNum THEN pic[s].frameNum - MaxFrameNum
                                ELSE pic[s].frameNum

\* find_short_by_picnum and find_long_by_ltpn: the first slot, or nothing.
FirstOf(S) == IF S = {} THEN {} ELSE {Min(S)}

ShortWith(refs, long, num, frameNum) ==
  FirstOf({s \in refs : long[s] = Short /\ PicNum(s, frameNum) = num})
LongWith(refs, long, idx) == FirstOf({s \in refs : long[s] = idx})

Longs == [s \in Slots |-> pic[s].long]

\* sort_list and sort_long_term: the slots of S by their keys, those with the same key as they
\* were collected.
InOrder(S, key) ==
  [i \in 1 .. Cardinality(S) |->
     CHOOSE s \in S :
       Cardinality({t \in S : key[t] < key[s] \/ (key[t] = key[s] /\ t < s)}) = i - 1]

LongsInOrder == InOrder(LongTerm, Longs)

\* build_list_p.
ListP(frameNum) ==
  InOrder(ShortTerm, [s \in Slots |-> -PicNum(s, frameNum)]) \o LongsInOrder

\* build_list_b, which = 0 and 1.
Past(poc) == InOrder({s \in ShortTerm : pic[s].poc < poc}, [s \in Slots |-> -pic[s].poc])
Future(poc) == InOrder({s \in ShortTerm : pic[s].poc >= poc}, [s \in Slots |-> pic[s].poc])

ListB0(poc) == Past(poc) \o Future(poc) \o LongsInOrder

\* With the swap of begin_frame when both lists are the same.
ListB1(poc) ==
  LET l == Future(poc) \o Past(poc) \o LongsInOrder
  IN  IF Len(l) > 1 /\ l = ListB0(poc)
      THEN <<l[2], l[1]>> \o SubSeq(l, 3, Len(l))
      ELSE l

\* One round of modify_list: target t comes to place k of a list of fixed length.
\* The entries after it move down, and the ones that are not t close up; the
\* places behind them keep what the shift left there.
MoveTo(list, k, t) ==
  LET shifted == [i \in DOMAIN list |->
                    IF i < k THEN list[i] ELSE IF i = k THEN t ELSE list[i - 1]]
      kept == SelectSeq(SubSeq(shifted, k + 1, Len(list)), LAMBDA s : s # t)
  IN  [i \in DOMAIN list |->
         IF i > k /\ i - k <= Len(kept) THEN kept[i - k] ELSE shifted[i]]

\* Mutant: the predictor is not brought back into the range of frame_num.
PredictedFlat(pred, m) == IF m.idc = 0 THEN pred - (m.val + 1) ELSE pred + (m.val + 1)

\* The number modification m names, before the wrap to the signed PicNum.
Predicted(pred, m) ==
  LET num == IF m.idc = 0 THEN pred - (m.val + 1) ELSE pred + (m.val + 1)
  IN  CASE num < 0 -> num + MaxFrameNum
        [] num >= MaxFrameNum -> num - MaxFrameNum
        [] OTHER -> num

\* modify_list: x is the list, the next place and the predictor.
ModifyOnce(x, m, frameNum) ==
  LET num == Predicted(x.pred, m)
      target == IF m.idc = 2 THEN LongWith(inDpb, Longs, m.val)
                ELSE ShortWith(inDpb, Longs,
                               IF num > frameNum THEN num - MaxFrameNum ELSE num, frameNum)
      pred == IF m.idc = 2 THEN x.pred ELSE num
  IN  IF target = {} \/ x.place > Len(x.list) THEN [x EXCEPT !.pred = pred]
      ELSE [list |-> MoveTo(x.list, x.place, CHOOSE t \in target : TRUE),
            place |-> x.place + 1, pred |-> pred]

\* modified_len and modify_list.
Modified(list, active, mods, frameNum) ==
  IF mods = <<>> \/ list = <<>> THEN list
  ELSE LET after[i \in 0 .. Len(mods)] ==
             IF i = 0
             THEN [list |-> [k \in 1 .. active |-> IF k <= Len(list) THEN list[k] ELSE NoSlot],
                   place |-> 1, pred |-> frameNum]
             ELSE ModifyOnce(after[i - 1], mods[i], frameNum)
       IN  after[Len(mods)].list

\* fill_ref_list: an entry without a reference becomes entry 0 of the DPB.
Filled(list, active) ==
  [i \in 1 .. active |->
     IF i <= Len(list) /\ list[i] \in inDpb THEN list[i] ELSE Min(inDpb)]

----------------------------------------------------------------------------
\* The encoder's side of a list modification (stream): moves name pictures, by slot,
\* and whether their number is sent as a decrease or an increase.
Moves == [slot : inDpb, up : BOOLEAN]

Encoded(moves, n) ==
  LET Before(i) == LET past == {j \in 1 .. i - 1 : moves[j].slot \in ShortTerm}
                   IN  IF past = {} THEN n ELSE pic[moves[Max(past)].slot].n
  IN  [i \in 1 .. Len(moves) |->
         LET p == pic[moves[i].slot]
         IN  IF p.long # Short THEN [idc |-> 2, val |-> p.long]
             ELSE IF moves[i].up THEN [idc |-> 1, val |-> (p.n - Before(i) - 1) % MaxFrameNum]
             ELSE [idc |-> 0, val |-> (Before(i) - p.n - 1) % MaxFrameNum]]

\* The lists h264_dpb_begin_frame hands to the hardware for the picture in cur: they
\* depend on the references alone, and the code keeps nothing of them.
RefList(initial, active, moves) ==
  Filled(Modified(initial, active, Encoded(moves, nRef), pic[cur].frameNum), active)

List0P(active, moves) == RefList(ListP(pic[cur].frameNum), active, moves)
List0B(active, moves) == RefList(ListB0(pic[cur].poc), active, moves)
List1B(active, moves) == RefList(ListB1(pic[cur].poc), active, moves)

\* h264_dpb_next_output without flush has something to show.
Ready == Cardinality(waiting) > Reorder

\* The slot h264_dpb_begin_frame takes for p, when the slots in used are taken and
\* hold what others says.
Allocate(used, others, p) ==
  LET slot == Min(Slots \ used)
  IN  /\ used # Slots
      /\ pic' = [others EXCEPT ![slot] = p]
      /\ waiting' = waiting \cup {slot}
      /\ cur' = slot

IdrPicture == [Blank EXCEPT !.isRef = TRUE]

\* Mutant: the pictures of the last GOP are not drained first.
DrainedAny == TRUE

\* Before an IDR sample, and at the end of the file, everything is output.
Drained == waiting = {}

\* Mutant: the references of the last GOP stay.
BeginIdrKeeps ==
  /\ running /\ cur = NoSlot /\ atIdr
  /\ Drained
  /\ Allocate(Used, pic, IdrPicture)
  /\ maxLong' = Short
  /\ nRef' = 0 /\ sent' = {0} /\ lastPoc' = -1
  /\ UNCHANGED <<inDpb, shown, running, atIdr>>

\* mp_decode_au with an IDR picture, up to the decoding; all references end first.
BeginIdr ==
  /\ running /\ cur = NoSlot /\ atIdr
  /\ Drained
  /\ Allocate(ToSet(shown) \cup waiting,
              [s \in Slots |-> IF s \in waiting THEN [pic[s] EXCEPT !.old = TRUE] ELSE Blank],
              IdrPicture)
  /\ inDpb' = {} /\ maxLong' = Short
  /\ nRef' = 0 /\ sent' = {0} /\ lastPoc' = -1
  /\ UNCHANGED <<shown, running, atIdr>>

\* The same with any other picture.  Stream: at most Reorder pictures decoded
\* before this one are shown after it; no short-term reference has its frame_num.
BeginFrame(isRef, poc) ==
  /\ running /\ cur = NoSlot /\ ~atIdr
  /\ ~Ready
  /\ poc \notin sent /\ Cardinality({p \in sent : p > poc}) <= Reorder
  /\ \A s \in ShortTerm : nRef - pic[s].n < MaxFrameNum
  /\ Allocate(Used, pic, [n |-> nRef, frameNum |-> nRef % MaxFrameNum, poc |-> poc,
                          isRef |-> isRef, long |-> Short, old |-> FALSE])
  /\ sent' = sent \cup {poc}
  /\ UNCHANGED <<inDpb, shown, maxLong, running, atIdr, nRef, lastPoc>>

----------------------------------------------------------------------------
\* Mutant: the lowest slot is taken for the oldest picture.
VictimFirst == FirstOf(ShortTerm)

\* The short-term reference the sliding window removes.
Victim ==
  FirstOf({s \in ShortTerm : \A t \in ShortTerm :
     PicNum(s, pic[cur].frameNum) <= PicNum(t, pic[cur].frameNum)})

\* sliding_window.  Stream: long-term references do not fill the window.
SlidingWindow ==
  /\ IF Cardinality(inDpb) < MaxRef
     THEN inDpb' = inDpb \cup {cur}
     ELSE ShortTerm # {} /\ inDpb' = (inDpb \ Victim) \cup {cur}
  /\ pic' = Forget(pic, inDpb' \cup waiting)
  /\ UNCHANGED maxLong

\* Mutant: operation 4 takes its argument for the largest index.
LargestIndexRaw(arg) == arg

LargestIndex(arg) == arg - 1

\* One operation of apply_mmco on m: the references, the long-term indices of the slots
\* and max_long_term_frame_idx.  m.legal: the stream may send it.  An index that
\* the current picture takes (operation 6) is one nobody holds.
ApplyMmco(m, o) ==
  LET frameNum == pic[cur].frameNum
      named == ShortWith(m.refs, m.long, frameNum - o.d, frameNum)
      holder == LongWith(m.refs, m.long, o.idx)
  IN  CASE o.op = 1 -> [m EXCEPT !.refs = @ \ named, !.legal = @ /\ named # {}]
        [] o.op = 2 -> [m EXCEPT !.refs = @ \ holder, !.legal = @ /\ holder # {}]
        [] o.op = 3 -> [m EXCEPT !.refs = @ \ holder,
                          !.long = [s \in Slots |-> IF s \in named THEN o.idx ELSE @[s]],
                          !.legal = @ /\ named # {} /\ o.idx <= m.maxLong]
        [] o.op = 4 -> [m EXCEPT !.maxLong = LargestIndex(o.idx),
                          !.refs = {s \in @ : m.long[s] <= LargestIndex(o.idx)}]
        [] o.op = 6 -> [m EXCEPT !.long[cur] = o.idx,
                          !.legal = @ /\ holder = {} /\ o.idx <= m.maxLong]

\* The references as RefMarking has them: by number, and by index.
ShortNumbers == {pic[s].n : s \in ShortTerm}
LongNumbers == [i \in {pic[s].long : s \in LongTerm} |->
                  pic[CHOOSE s \in LongTerm : pic[s].long = i].n]

Marking == INSTANCE RefMarking WITH
  LongIndices <- 0 .. MaxLong,
  Distances <- 1 .. MaxFrameNum,
  short <- ShortNumbers,
  long <- LongNumbers,
  next <- nRef

Unmarked == [refs |-> inDpb, long |-> Longs, maxLong |-> maxLong, legal |-> TRUE]

\* apply_mmco, all operations of a picture.
MarkedBy(ops) ==
  LET after[i \in 0 .. Len(ops)] ==
        IF i = 0 THEN Unmarked ELSE ApplyMmco(after[i - 1], ops[i])
  IN  after[Len(ops)]

\* Stream: no more than MaxRef references are left, this one included.
AdaptiveMarking(ops) ==
  LET m == MarkedBy(ops)
  IN  /\ m.legal
      /\ Cardinality(m.refs) < MaxRef
      /\ inDpb' = m.refs \cup {cur}
      /\ maxLong' = m.maxLong
      /\ pic' = Forget([s \in Slots |-> [pic[s] EXCEPT !.long = m.long[s]]],
                       inDpb' \cup waiting)

\* An IDR picture is a short-term reference, or the long-term one with index 0.
IdrMarking ==
  /\ inDpb' = inDpb \cup {cur}
  /\ \/ UNCHANGED <<pic, maxLong>>
     \/ /\ pic' = [pic EXCEPT ![cur].long = 0]
        /\ maxLong' = 0

\* h264_dpb_end_frame.
EndFrame ==
  /\ cur # NoSlot
  /\ IF ~pic[cur].isRef THEN UNCHANGED <<pic, inDpb, maxLong, nRef>>
     ELSE /\ IF atIdr THEN IdrMarking ELSE SlidingWindow \/ \E ops \in Marking!MmcoLists : AdaptiveMarking(ops)
          /\ nRef' = nRef + 1
  /\ cur' = NoSlot /\ atIdr' = FALSE
  /\ UNCHANGED <<waiting, shown, running, sent, lastPoc>>

\* h264_dpb_abort_frame: decoding failed, and the thread ends.
AbortFrame ==
  /\ cur # NoSlot
  /\ waiting' = waiting \ {cur}
  /\ pic' = Forget(pic, inDpb \cup waiting')
  /\ cur' = NoSlot /\ running' = FALSE
  /\ UNCHANGED <<inDpb, shown, maxLong, atIdr, gopVars, lastPoc>>

----------------------------------------------------------------------------
\* The next sample is an IDR picture, in the file or because the video starts again.
\* Stream: a GOP leaves no gap in its POCs.
ReachIdr ==
  /\ running /\ cur = NoSlot /\ ~atIdr /\ ~Ready
  /\ sent = 0 .. Max(sent)
  /\ atIdr' = TRUE
  /\ UNCHANGED <<pic, inDpb, waiting, shown, cur, maxLong, running, gopVars,
                 lastPoc>>

\* h264_dpb_next_output, of the lowest POC, and mp_make_frame_item, which hands the
\* picture to the display.  The display queues have room for three.
Output ==
  /\ running /\ cur = NoSlot
  /\ Ready \/ atIdr
  /\ Len(shown) < MaxShown
  /\ \E s \in waiting :
       /\ \A t \in waiting : pic[s].poc <= pic[t].poc
       /\ waiting' = waiting \ {s}
       /\ shown' = Append(shown, s)
       /\ pic' = Forget(pic, inDpb \cup waiting')
       /\ lastPoc' = pic[s].poc
  /\ UNCHANGED <<inDpb, cur, maxLong, running, atIdr, gopVars>>

\* A newer picture is on screen, and the slot of the one before comes back
\* (mp_reclaim_free_items).
OffScreen ==
  /\ running /\ cur = NoSlot
  /\ Len(shown) > 1
  /\ shown' = Tail(shown)
  /\ UNCHANGED <<pic, inDpb, waiting, cur, maxLong, running, atIdr, gopVars,
                 lastPoc>>

DpbNext ==
  \/ BeginIdr
  \/ \E isRef \in BOOLEAN, poc \in 1 .. MaxPoc :
       BeginFrame(isRef, poc)
  \/ EndFrame \/ AbortFrame
  \/ ReachIdr \/ Output \/ OffScreen

DpbSpec == DpbInit /\ [][DpbNext]_dpbVars

----------------------------------------------------------------------------
\* The capture buffers suffice: when the decoder wants to decode and the display
\* has nothing but the picture on screen and the next one, a slot is free.
AlwaysASlot ==
  running /\ cur = NoSlot /\ (atIdr => Drained) /\ ~Ready /\ Len(shown) <= 2 => Used # Slots

\* Pictures leave in the order in which they are to be seen: none still waiting, and
\* so none decoded later, belongs before one already output, nor to an earlier GOP.
OutputInOrder ==
  \A s \in waiting : ~pic[s].old /\ pic[s].poc > lastPoc

\* A picture that may refer to others is being decoded.
InterPicture == cur # NoSlot /\ inDpb # {}

AllEntries == Cardinality(inDpb)

\* Without modifications list 0 of a P slice is the references from the latest decoded
\* on, long-term ones last, by index, however often frame_num has wrapped; the
\* lists of a B slice begin with its neighbours in display order, and differ.
DefaultLists ==
  InterPicture =>
    LET p == List0P(AllEntries, <<>>)
        b0 == List0B(AllEntries, <<>>)
        b1 == List1B(AllEntries, <<>>)
        past == {pic[s].poc : s \in {t \in ShortTerm : pic[t].poc < pic[cur].poc}}
        future == {pic[s].poc : s \in {t \in ShortTerm : pic[t].poc > pic[cur].poc}}
    IN  /\ \A i, j \in DOMAIN p : i < j =>
             IF pic[p[j]].long = Short
             THEN pic[p[i]].long = Short /\ pic[p[i]].n > pic[p[j]].n
             ELSE pic[p[i]].long < pic[p[j]].long
        /\ past # {} => pic[b0[1]].poc = Max(past)
        /\ past # {} /\ future # {} => pic[b1[1]].poc = Min(future)
        /\ AllEntries > 1 => b0 # b1

\* The pictures the encoder moved come first, in its order: a number sent as a
\* difference modulo MaxFrameNum is taken for the picture the encoder meant.
MovedComeFirst ==
  InterPicture =>
    \A moves \in SeqOf(Moves, MaxMods) :
      LET l == List0P(MaxMods, moves)
      IN  \A i \in DOMAIN moves : l[i] = moves[i].slot

\* The references are always a marking RefMarking can reach: bounded by MaxRef, one
\* picture for a long-term index, none left from before an IDR picture.
ImplementsMarking == Marking!Spec

\* And the step is the one the stream asked for: the sliding window removes the
\* oldest reference, and each operation of a list the picture it means,
\* whatever slots they are in and however their numbers wrap.
MarkedAsAsked ==
  [][cur # NoSlot /\ cur' = NoSlot /\ nRef' = nRef + 1 /\ ~atIdr =>
       /\ SlidingWindow => Marking!Slide
       /\ \A ops \in Marking!MmcoLists : AdaptiveMarking(ops) => Marking!Adaptive(ops)]_dpbVars

\* modify_list (h264_dpb.c:230): shift down, insert the target, drop the later
\* duplicate.  When one picture was moved to the front, no picture is in the list
\* twice as long as every place can have one of its own.
DropsDuplicate ==
  InterPicture =>
    \A s \in inDpb : IsInjective(List0P(AllEntries, <<[slot |-> s, up |-> FALSE]>>))

\* There is a slot for each picture, and the screen is given them in display order.
PicturesInOrder == TypeOK /\ AlwaysASlot /\ OutputInOrder

\* The decoder is given lists that name the pictures the encoder meant.
RefListsRight == DefaultLists /\ MovedComeFirst

\* The references are always those H.264 asks for, step by step.
ReferencesRight == ImplementsMarking /\ MarkedAsAsked
=============================================================================
