----------------------------- MODULE RefMarking -----------------------------
(***************************************************************************)
(* What reference marking of vdec/h264_dpb.c promises (8.2.5 of H.264, for *)
(* frames), without slots and without numbers that wrap: reference         *)
(* pictures are numbered 0, 1, 2, ... from the last IDR on, a picture is   *)
(* named by how many references ago it was decoded, and a long-term index  *)
(* is held by one picture.                                                 *)
(***************************************************************************)
EXTENDS Integers, FiniteSets, SequencesExt, FiniteSetsExt

CONSTANTS
  MaxRef,       \* max_num_ref_frames
  LongIndices,  \* long_term_frame_idx
  Distances,    \* difference_of_pic_nums_minus1 + 1
  MaxMmco       \* bound: operations of one picture

VARIABLES
  short,   \* the numbers of the short-term references
  long,    \* long[i]: the number of the long-term reference with index i
  next     \* the number of the next reference

\* memory_management_control_operation 1 to 4 and 6; operation 5 is left out.
Mmco ==
  [op : {1}, d : Distances, idx : {0}] \cup [op : {2}, d : {0}, idx : LongIndices]
    \cup [op : {3}, d : Distances, idx : LongIndices]
    \cup [op : {4}, d : {0}, idx : LongIndices \cup {Max(LongIndices) + 1}]
    \cup [op : {6}, d : {0}, idx : LongIndices]

\* An operation on the picture being decoded ends a list.
MmcoLists ==
  {ops \in SeqOf(Mmco, MaxMmco) : \A i \in 1 .. Len(ops) - 1 : ops[i].op # 6}

Without(f, S) == [i \in DOMAIN f \ S |-> f[i]]
WithIndex(f, i, n) == [j \in DOMAIN f \cup {i} |-> IF j = i THEN n ELSE f[j]]

\* One operation on m, the marking; m.own is FALSE when the picture being decoded
\* has become a long-term reference itself.
Perform(m, o) ==
  CASE o.op = 1 -> [m EXCEPT !.short = @ \ {next - o.d}]
    [] o.op = 2 -> [m EXCEPT !.long = Without(@, {o.idx})]
    [] o.op = 3 -> [m EXCEPT !.short = @ \ {next - o.d},
                             !.long = WithIndex(@, o.idx, next - o.d)]
    [] o.op = 4 -> [m EXCEPT !.long = Without(@, {i \in DOMAIN @ : i >= o.idx})]
    [] o.op = 6 -> [m EXCEPT !.long = WithIndex(@, o.idx, next), !.own = FALSE]

Init == short = {} /\ long = <<>> /\ next = 0

\* An IDR picture ends all references, and is one itself.
Clear == short' = {} /\ long' = <<>> /\ next' = 0

First ==
  /\ next = 0
  /\ next' = 1
  /\ \/ short' = {0} /\ UNCHANGED long
     \/ long' = WithIndex(long, 0, 0) /\ UNCHANGED short

\* The sliding window: the oldest short-term reference makes room.
Slide ==
  /\ next > 0
  /\ IF Cardinality(short) + Cardinality(DOMAIN long) < MaxRef
     THEN short' = short \cup {next}
     ELSE short # {} /\ short' = (short \ {Min(short)}) \cup {next}
  /\ next' = next + 1
  /\ UNCHANGED long

Unmarked == [short |-> short, long |-> long, own |-> TRUE]
Performed(ops) ==
  LET after[i \in 0 .. Len(ops)] ==
        IF i = 0 THEN Unmarked ELSE Perform(after[i - 1], ops[i])
  IN  after[Len(ops)]

Adaptive(ops) ==
  /\ next > 0
  /\ next' = next + 1
  /\ LET m == Performed(ops)
     IN  /\ short' = IF m.own THEN m.short \cup {next} ELSE m.short
         /\ long' = m.long
  /\ Cardinality(short') + Cardinality(DOMAIN long') <= MaxRef

Next == Clear \/ First \/ Slide \/ \E ops \in MmcoLists : Adaptive(ops)

Spec == Init /\ [][Next]_<<short, long, next>>
=============================================================================
