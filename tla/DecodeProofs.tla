---------------------------- MODULE DecodeProofs ----------------------------
(***************************************************************************)
(* Proofs about decoding.                                                  *)
(* Of the pictures (H264Dpb), for any number of references, slots and      *)
(* pictures, any MaxFrameNum and any stream of legal operations: there is  *)
(* a slot for each picture, the screen gets them in display order, the     *)
(* references are those H.264 asks for, step by step (RefMarking), and the *)
(* lists of references are in its order and name the pictures the encoder  *)
(* meant, although slots are named by differences of a frame_num that      *)
(* wraps.                                                                  *)
(* Of what a session owns (DecodeSession), for any numbers of buffers: what*)
(* was opened is given back wherever opening stops, and nothing is used    *)
(* that a driver or the display still has.                                 *)
(***************************************************************************)
EXTENDS H264Dpb, DecodeSession, FiniteSetTheorems, SequenceTheorems, WellFoundedInduction, TLAPS

\* A set of numbers that is not empty has a least one.
LEMMA LeastNat ==
  ASSUME NEW S \in SUBSET Nat, S # {}
  PROVE  \E x \in S : \A y \in S : x <= y
  <1>1. PICK x \in S : \A y \in S : <<y, x>> \notin OpToRel(<, Nat)
    <2>1. IsWellFoundedOn(OpToRel(<, Nat), Nat)
      BY NatLessThanWellFounded
    <2> HIDE DEF IsWellFoundedOn
    <2> QED
      BY <2>1, WFMin, Zenon
  <1>2. \A y \in S : ~ (y < x)
    BY <1>1 DEF OpToRel
  <1> QED
    BY <1>2

\* The picture being decoded is held back for the screen, and is neither a reference yet nor shown.
Placed == cur # NoSlot => cur \in waiting \ (inDpb \cup ToSet(shown))
\* Pictures without a number come after an IDR picture only, which is a reference and finds no other;
\* and the one being decoded has its number, and a frame_num that no short-term reference is a whole turn behind.
Decoding ==
  /\ ~atIdr => nRef > 0
  /\ cur # NoSlot /\ atIdr => inDpb = {} /\ nRef = 0 /\ pic[cur].isRef
  /\ cur # NoSlot => /\ pic[cur].n = nRef /\ pic[cur].frameNum = nRef % MaxFrameNum /\ pic[cur].long = Short
                     /\ \A s \in ShortTerm : nRef - pic[s].n < MaxFrameNum
\* References are pictures before this one, each once, with an index of its own if long-term.
Referenced ==
  /\ \A s \in inDpb : pic[s].n < nRef /\ pic[s].frameNum = pic[s].n % MaxFrameNum
  /\ \A s, t \in inDpb : pic[s].n = pic[t].n => s = t
  /\ \A s, t \in LongTerm : pic[s].long = pic[t].long => s = t
  /\ Cardinality(inDpb) <= MaxRef
\* Each number given was for a picture of its own.
Counted == nRef + (IF cur # NoSlot THEN 1 ELSE 0) <= Cardinality(sent)
\* The pictures held back have places of their own in display order, after the last shown.
Held ==
  /\ \A s \in waiting : ~pic[s].old /\ pic[s].poc \in sent /\ pic[s].poc > lastPoc
  /\ \A s, t \in waiting : pic[s].poc = pic[t].poc => s = t
\* When a picture was shown, more than Reorder pictures were known that come no earlier: this is why
\* no picture that the encoder may still send belongs before it.
Behind ==
  ~atIdr \/ cur # NoSlot =>
    \/ lastPoc = -1
    \/ lastPoc \in sent /\ Cardinality({p \in sent : p >= lastPoc}) > Reorder
\* The inductive invariant.
DpbInv == TypeOK /\ Placed /\ Decoding /\ Referenced /\ Counted /\ Held /\ Behind

\* The operations of a picture are applied one after another.
LEMMA MarkedIs ==
  ASSUME NEW ops \in Seq(Marking!Mmco)
  PROVE  \E f : /\ f[0] = Unmarked
                /\ \A i \in 1 .. Len(ops) : f[i] = ApplyMmco(f[i - 1], ops[i])
                /\ MarkedBy(ops) = f[Len(ops)]
  <1> DEFINE F(k, f) == f = [i \in 0 .. k |-> IF i = 0 THEN Unmarked ELSE ApplyMmco(f[i - 1], ops[i])]
             after == CHOOSE f : F(Len(ops), f)
  <1>1. ASSUME NEW k \in Nat PROVE \E f : F(k, f)
    <2> DEFINE S == {m \in Nat : ~ \E f : F(m, f)}
    <2>1. ASSUME S # {} PROVE FALSE
      <3>1. PICK m \in S : \A j \in S : m <= j
        <4> HIDE DEF F
        <4>1. S \in SUBSET Nat
          OBVIOUS
        <4> HIDE DEF S
        <4> QED
          BY <2>1, <4>1, LeastNat
      <3>2. m \in Nat /\ ~ \E f : F(m, f)
        OBVIOUS
      <3>3. CASE m = 0
        <4>1. F(0, [i \in 0 .. 0 |-> Unmarked])
          OBVIOUS
        <4> QED
          BY <3>2, <3>3, <4>1, Zenon
      <3>4. CASE m # 0
        <4>1. m - 1 \in Nat /\ m - 1 \notin S
          <5> HIDE DEF S, F
          <5> QED
            BY <3>1, <3>2, <3>4
        <4>2. PICK f : F(m - 1, f)
          <5> HIDE DEF F
          <5> QED
            BY <4>1
        <4> DEFINE g == [i \in 0 .. m |-> IF i < m THEN f[i] ELSE ApplyMmco(f[m - 1], ops[m])]
        <4>3. ASSUME NEW i \in 0 .. m
              PROVE  g[i] = IF i = 0 THEN Unmarked ELSE ApplyMmco(g[i - 1], ops[i])
          <5>1. CASE i = 0
            BY <3>2, <3>4, <4>1, <4>2, <5>1
          <5>2. CASE i # 0 /\ i < m
            <6>1. i \in 0 .. m - 1 /\ i - 1 \in 0 .. m /\ i - 1 < m
              BY <3>2, <5>2
            <6>2. g[i] = f[i] /\ g[i - 1] = f[i - 1]
              BY <6>1, <5>2
            <6>3. f[i] = ApplyMmco(f[i - 1], ops[i])
              BY <4>2, <5>2, <6>1
            <6> QED
              BY <5>2, <6>2, <6>3
          <5>3. CASE i = m
            <6>1. m - 1 \in 0 .. m /\ m - 1 < m /\ ~ (m < m)
              BY <3>2, <4>1
            <6>2. g[m] = ApplyMmco(f[m - 1], ops[m]) /\ g[m - 1] = f[m - 1]
              BY <3>2, <6>1
            <6> QED
              BY <3>4, <5>3, <6>2
          <5> QED
            BY <3>2, <5>1, <5>2, <5>3
        <4>4. F(m, g)
          BY <4>3, Zenon
        <4> QED
          BY <3>2, <4>4
      <3> QED
        BY <3>3, <3>4
    <2> HIDE DEF F
    <2> QED
      BY <2>1
  <1>2. Len(ops) \in Nat
    OBVIOUS
  <1>3. F(Len(ops), after)
    <2> HIDE DEF F
    <2> QED
      BY <1>1, <1>2, Zenon
  <1>4. MarkedBy(ops) = after[Len(ops)]
    BY DEF MarkedBy
  <1> HIDE DEF after
  <1>5. after[0] = Unmarked /\ \A i \in 1 .. Len(ops) : after[i] = ApplyMmco(after[i - 1], ops[i])
    BY <1>2, <1>3
  <1> QED
    BY <1>4, <1>5, Zenon

----------------------------------------------------------------------------
(* Slots and pictures *)

\* The slots are numbers, finitely many.
LEMMA SlotsAre ==
  /\ Capacity \in Nat /\ Capacity = MaxRef + Reorder + 3 /\ IsFiniteSet(Slots) /\ Cardinality(Slots) = Capacity
  /\ NoSlot \notin Slots
  <1>1. Capacity \in Nat /\ Capacity = MaxRef + Reorder + 3
    BY SizeAssumption DEF Capacity
  <1>2. 0 \in Int /\ Capacity - 1 \in Int
    BY <1>1
  <1>3. IsFiniteSet(0 .. Capacity - 1) /\ Cardinality(0 .. Capacity - 1) = IF 0 > Capacity - 1 THEN 0 ELSE Capacity - 1 - 0 + 1
    BY <1>2, FS_Interval
  <1> QED
    BY <1>1, <1>3, SizeAssumption DEF Slots, NoSlot

\* A set of slots is finite.
LEMMA FiniteSlots ==
  ASSUME NEW S, S \subseteq Slots
  PROVE  IsFiniteSet(S) /\ Cardinality(S) \in Nat /\ Cardinality(S) <= Capacity
  BY SlotsAre, FS_Subset, FS_CardinalityType

\* The least of a set of numbers is one of it.
LEMMA LeastIs ==
  ASSUME NEW S, S \subseteq Nat, S # {}
  PROVE  Min(S) \in S /\ \A x \in S : Min(S) <= x
  BY LeastNat DEF Min

\* An empty slot, and an IDR picture.
LEMMA PicturesAre ==
  /\ Blank \in Pictures /\ IdrPicture \in Pictures
  /\ ~Blank.old /\ Blank.n = 0 /\ Blank.long = Short
  /\ IdrPicture.n = 0 /\ IdrPicture.frameNum = 0 /\ IdrPicture.poc = 0 /\ IdrPicture.isRef
  /\ IdrPicture.long = Short /\ ~IdrPicture.old
  <1>1. Blank \in Pictures
    BY SizeAssumption DEF Blank, Pictures, Short
  <1>2. ~Blank.old /\ Blank.n = 0 /\ Blank.long = Short /\ Blank.frameNum = 0 /\ Blank.poc = 0
    BY DEF Blank
  <1>3. IdrPicture \in Pictures
    BY <1>1 DEF IdrPicture, Pictures
  <1>4. /\ IdrPicture.n = Blank.n /\ IdrPicture.frameNum = Blank.frameNum /\ IdrPicture.poc = Blank.poc
        /\ IdrPicture.long = Blank.long /\ IdrPicture.old = Blank.old /\ IdrPicture.isRef
    BY DEF IdrPicture, Blank
  <1> QED
    BY <1>1, <1>2, <1>3, <1>4

\* The invariant holds at the start.
LEMMA DpbStart == DpbInit => DpbInv
  <1> SUFFICES ASSUME DpbInit PROVE DpbInv
    OBVIOUS
  <1>1. TypeOK
    BY PicturesAre, SizeAssumption DEF DpbInit, TypeOK, Short
  <1>2. Cardinality(inDpb) = 0 /\ Cardinality(sent) = 0
    BY FS_EmptySet DEF DpbInit
  <1> QED
    BY <1>1, <1>2, SizeAssumption
       DEF DpbInit, DpbInv, Placed, Decoding, Referenced, Counted, Held, Behind, ShortTerm, LongTerm

\* A picture that is kept is what it was.
LEMMA ForgetKeeps ==
  ASSUME NEW p \in [Slots -> Pictures], NEW live
  PROVE  Forget(p, live) \in [Slots -> Pictures] /\ \A s \in live \cap Slots : Forget(p, live)[s] = p[s]
  BY PicturesAre DEF Forget

\* A slot that is taken holds the new picture, and the others what they held.
LEMMA AllocatedIs ==
  ASSUME NEW used, NEW others \in [Slots -> Pictures], NEW p \in Pictures, used \subseteq Slots, Allocate(used, others, p)
  PROVE  \E slot \in Slots \ used :
           /\ cur' = slot /\ waiting' = waiting \cup {slot} /\ pic' \in [Slots -> Pictures]
           /\ pic'[slot] = p /\ \A t \in Slots \ {slot} : pic'[t] = others[t]
  <1> DEFINE slot == Min(Slots \ used)
  <1>1. Slots \ used \subseteq Nat /\ Slots \ used # {}
    <2>1. used # Slots
      BY DEF Allocate
    <2>2. Slots \subseteq Nat
      BY SlotsAre DEF Slots
    <2> QED
      BY <2>1, <2>2
  <1>2. slot \in Slots \ used
    BY <1>1, LeastIs
  <1>3. cur' = slot /\ waiting' = waiting \cup {slot} /\ pic' = [others EXCEPT ![slot] = p]
    BY DEF Allocate
  <1> HIDE DEF slot
  <1> QED
    BY <1>2, <1>3

\* Slots in use are slots.
LEMMA UsedSlots == TypeOK => Used \subseteq Slots /\ ToSet(shown) \subseteq Slots
  BY DEF TypeOK, Used, ToSet

\* There are no more pictures than places in display order.
LEMMA SentSize ==
  ASSUME TypeOK
  PROVE  /\ IsFiniteSet(sent) /\ Cardinality(sent) \in Nat /\ Cardinality(sent) <= MaxPoc + 1
         /\ \A S \in SUBSET sent : IsFiniteSet(S) /\ Cardinality(S) \in Nat /\ Cardinality(S) <= Cardinality(sent)
  <1>1. MaxPoc \in Nat
    BY SizeAssumption
  <1>2. IsFiniteSet(0 .. MaxPoc) /\ Cardinality(0 .. MaxPoc) = IF 0 > MaxPoc THEN 0 ELSE MaxPoc - 0 + 1
    BY <1>1, FS_Interval
  <1>3. IsFiniteSet(sent) /\ Cardinality(sent) <= Cardinality(0 .. MaxPoc)
    BY <1>2, FS_Subset DEF TypeOK
  <1> QED
    BY <1>1, <1>2, <1>3, FS_Subset, FS_CardinalityType

\* An IDR picture is begun.
LEMMA IdrTaken == DpbInv /\ BeginIdr => DpbInv'
  <1> SUFFICES ASSUME DpbInv, BeginIdr PROVE DpbInv'
    OBVIOUS
  <1> DEFINE others == [s \in Slots |-> IF s \in waiting THEN [pic[s] EXCEPT !.old = TRUE] ELSE Blank]
  <1>1. /\ running /\ cur = NoSlot /\ atIdr /\ waiting = {} /\ Allocate(ToSet(shown) \cup waiting, others, IdrPicture)
        /\ inDpb' = {} /\ maxLong' = Short /\ nRef' = 0 /\ sent' = {0} /\ lastPoc' = -1
        /\ UNCHANGED <<shown, running, atIdr>>
    BY DEF BeginIdr, Drained
  <1>2. others \in [Slots -> Pictures] /\ ToSet(shown) \cup waiting \subseteq Slots
    BY <1>1, PicturesAre, UsedSlots DEF DpbInv
  <1> HIDE DEF others
  <1>3. PICK slot \in Slots \ (ToSet(shown) \cup waiting) :
          /\ cur' = slot /\ waiting' = waiting \cup {slot} /\ pic' \in [Slots -> Pictures] /\ pic'[slot] = IdrPicture
    BY <1>1, <1>2, AllocatedIs, PicturesAre
  <1>4. waiting' = {slot} /\ slot # NoSlot /\ (cur # NoSlot)'
    BY <1>1, <1>3, SlotsAre
  <1>5. TypeOK'
    BY <1>1, <1>3, <1>4, SizeAssumption DEF DpbInv, TypeOK, Short
  <1>6. Placed' /\ Held'
    BY <1>1, <1>3, <1>4, PicturesAre DEF Placed, Held, ToSet
  <1>7. Cardinality(inDpb') = 0 /\ Cardinality(sent') = 1
    BY <1>1, FS_EmptySet, FS_Singleton
  <1>8. 0 % MaxFrameNum = 0
    BY SizeAssumption
  <1>9. Decoding'
    BY <1>1, <1>3, <1>4, <1>8, PicturesAre DEF Decoding, ShortTerm
  <1>10. Referenced' /\ Counted' /\ Behind'
    BY <1>1, <1>4, <1>7, SizeAssumption DEF Referenced, Counted, Behind, LongTerm
  <1> QED
    BY <1>5, <1>6, <1>9, <1>10 DEF DpbInv

\* Another picture is begun.
LEMMA FrameTaken ==
  ASSUME DpbInv, NEW isRef \in BOOLEAN, NEW poc \in 1 .. MaxPoc, BeginFrame(isRef, poc)
  PROVE  DpbInv'
  <1> DEFINE p == [n |-> nRef, frameNum |-> nRef % MaxFrameNum, poc |-> poc, isRef |-> isRef, long |-> Short, old |-> FALSE]
  <1>1. /\ running /\ cur = NoSlot /\ ~atIdr /\ ~Ready
        /\ poc \notin sent /\ Cardinality({q \in sent : q > poc}) <= Reorder
        /\ \A s \in ShortTerm : nRef - pic[s].n < MaxFrameNum
        /\ Allocate(Used, pic, p) /\ sent' = sent \cup {poc}
        /\ UNCHANGED <<inDpb, shown, maxLong, running, atIdr, nRef, lastPoc>>
    BY DEF BeginFrame
  <1>2. nRef \in 0 .. MaxPoc + 1 /\ pic \in [Slots -> Pictures] /\ TypeOK /\ MaxPoc \in Nat /\ nRef \in Nat
    <2>1. TypeOK
      BY DEF DpbInv
    <2>2. nRef \in 0 .. MaxPoc + 1 /\ pic \in [Slots -> Pictures]
      BY <2>1 DEF TypeOK
    <2>3. MaxPoc \in Nat
      BY SizeAssumption
    <2> QED
      BY <2>1, <2>2, <2>3
  <1>3. nRef % MaxFrameNum \in 0 .. MaxFrameNum - 1
    BY <1>2, SizeAssumption
  <1>4. p.n = nRef /\ p.frameNum = nRef % MaxFrameNum /\ p.poc = poc /\ p.long = Short /\ ~p.old
    OBVIOUS
  <1>5. p \in Pictures /\ p.n = nRef /\ p.frameNum = nRef % MaxFrameNum /\ p.poc = poc /\ p.long = Short /\ ~p.old
    BY <1>2, <1>3, <1>4, SizeAssumption DEF Pictures, Short
  <1> HIDE DEF p
  <1>6. PICK slot \in Slots \ Used :
          /\ cur' = slot /\ waiting' = waiting \cup {slot} /\ pic' \in [Slots -> Pictures]
          /\ pic'[slot] = p /\ \A t \in Slots \ {slot} : pic'[t] = pic[t]
    BY <1>1, <1>2, <1>5, AllocatedIs, UsedSlots
  <1>7. slot # NoSlot /\ cur' # NoSlot /\ slot \notin inDpb /\ slot \notin waiting /\ slot \notin ToSet(shown)
    BY <1>6, SlotsAre DEF Used
  <1>8. TypeOK'
    <2>1. pic' \in [Slots -> Pictures] /\ cur' \in Slots \cup {NoSlot}
      BY <1>6
    <2>2. waiting' \subseteq Slots /\ sent' \subseteq 0 .. MaxPoc
      BY <1>1, <1>2, <1>6 DEF TypeOK
    <2>3. UNCHANGED <<inDpb, shown, maxLong, running, atIdr, nRef, lastPoc>>
      BY <1>1
    <2> QED
      BY <1>2, <2>1, <2>2, <2>3 DEF TypeOK
  <1>9. \A s \in inDpb \cup waiting : pic'[s] = pic[s] /\ s \in Slots
    BY <1>2, <1>6, <1>7 DEF TypeOK
  <1>10. inDpb' = inDpb /\ ShortTerm' = ShortTerm /\ LongTerm' = LongTerm
    BY <1>1, <1>9 DEF ShortTerm, LongTerm
  <1>11. Placed'
    BY <1>1, <1>6, <1>7 DEF Placed, ToSet
  <1>12. Decoding'
    BY <1>1, <1>5, <1>6, <1>7, <1>9, <1>10 DEF DpbInv, Decoding, ShortTerm
  <1>13. Referenced'
    BY <1>1, <1>9, <1>10 DEF DpbInv, Referenced, LongTerm
  <1>14. Counted'
    <2>1. Cardinality(sent') = Cardinality(sent) + 1
      BY <1>1, <1>2, SentSize, FS_AddElement
    <2>2. nRef + 0 <= Cardinality(sent) /\ Cardinality(sent) \in Nat
      BY <1>1, <1>2, SentSize DEF DpbInv, Counted
    <2> QED
      BY <1>1, <1>2, <1>7, <2>1, <2>2 DEF Counted
  <1>15. lastPoc \in Int /\ (lastPoc = -1 \/ (lastPoc \in sent /\ Cardinality({q \in sent : q >= lastPoc}) > Reorder))
    BY <1>1, <1>2 DEF DpbInv, TypeOK, Behind
  <1>16. poc > lastPoc
    <2>1. CASE lastPoc # -1
      <3>1. ASSUME ~ (poc > lastPoc) PROVE FALSE
        <4> DEFINE A == {q \in sent : q >= lastPoc}
                   B == {q \in sent : q > poc}
        <4>1. sent \subseteq Int /\ lastPoc # poc
          BY <1>1, <1>2, <1>15, <2>1 DEF TypeOK
        <4>2. A \subseteq B
          <5>1. ASSUME NEW q \in sent, q >= lastPoc PROVE q > poc
            BY <1>2, <1>15, <3>1, <4>1, <5>1
          <5> QED
            BY <5>1
        <4>3. IsFiniteSet(B) /\ Cardinality(B) \in Nat
          BY <1>2, SentSize
        <4>4. Cardinality(A) <= Cardinality(B) /\ Cardinality(A) \in Nat
          <5> HIDE DEF A, B
          <5> QED
            BY <4>2, <4>3, FS_Subset, FS_CardinalityType
        <4>5. Cardinality(A) > Reorder /\ Cardinality(B) <= Reorder
          BY <1>1, <1>15, <2>1
        <4> HIDE DEF A, B
        <4> QED
          BY <4>3, <4>4, <4>5, SizeAssumption
      <3> QED
        BY <3>1
    <2> QED
      BY <2>1
  <1>17. Held'
    <2>1. \A s \in waiting : pic'[s] = pic[s] /\ pic[s].poc \in sent
      BY <1>9 DEF DpbInv, Held
    <2>2. \A s \in waiting' : ~pic'[s].old /\ pic'[s].poc \in sent' /\ pic'[s].poc > lastPoc
      BY <1>1, <1>5, <1>6, <1>16, <2>1 DEF DpbInv, Held
    <2>3. \A s \in waiting : pic'[s].poc # pic'[slot].poc
      BY <1>1, <1>5, <1>6, <2>1
    <2>4. \A s, t \in waiting' : pic'[s].poc = pic'[t].poc => s = t
      BY <1>6, <2>1, <2>3 DEF DpbInv, Held
    <2> QED
      BY <1>1, <2>2, <2>4 DEF Held
  <1>18. Behind'
    <2>1. CASE lastPoc # -1
      <3> DEFINE A == {q \in sent : q >= lastPoc}
                 B == {q \in sent' : q >= lastPoc}
      <3>1. A \subseteq B
        BY <1>1
      <3>2. IsFiniteSet(B) /\ Cardinality(B) \in Nat
        <4>1. IsFiniteSet(sent')
          BY <1>1, <1>2, SentSize, FS_AddElement
        <4>2. B \subseteq sent'
          OBVIOUS
        <4> HIDE DEF B
        <4> QED
          BY <4>1, <4>2, FS_Subset, FS_CardinalityType
      <3>3. Cardinality(A) <= Cardinality(B) /\ Cardinality(A) \in Nat
        <4> HIDE DEF A, B
        <4> QED
          BY <3>1, <3>2, FS_Subset, FS_CardinalityType
      <3>4. Cardinality(A) > Reorder
        BY <1>15, <2>1
      <3>5. Cardinality(B) > Reorder
        <4> HIDE DEF A, B
        <4> QED
          BY <3>2, <3>3, <3>4, SizeAssumption
      <3> QED
        BY <1>1, <1>15, <2>1, <3>5 DEF Behind
    <2> QED
      BY <1>1, <2>1 DEF Behind
  <1> QED
    BY <1>8, <1>11, <1>12, <1>13, <1>14, <1>17, <1>18 DEF DpbInv

\* As long as the references stay, so does what is known of them.
LEMMA ReferencesStay ==
  ASSUME DpbInv, UNCHANGED <<inDpb, nRef>>, \A s \in inDpb : pic'[s] = pic[s]
  PROVE  Referenced' /\ ShortTerm' = ShortTerm /\ LongTerm' = LongTerm
  <1>1. ShortTerm' = ShortTerm /\ LongTerm' = LongTerm
    BY DEF ShortTerm, LongTerm
  <1> QED
    BY <1>1 DEF DpbInv, Referenced, LongTerm

\* A picture is given up.
LEMMA FrameAborts == DpbInv /\ AbortFrame => DpbInv'
  <1> SUFFICES ASSUME DpbInv, AbortFrame PROVE DpbInv'
    OBVIOUS
  <1>1. /\ cur # NoSlot /\ waiting' = waiting \ {cur} /\ pic' = Forget(pic, inDpb \cup waiting')
        /\ cur' = NoSlot /\ running' = FALSE
        /\ UNCHANGED <<inDpb, shown, maxLong, atIdr, nRef, sent, lastPoc>>
    BY DEF AbortFrame, gopVars
  <1>2. TypeOK
    BY DEF DpbInv
  <1>3. pic' \in [Slots -> Pictures] /\ \A s \in inDpb \cup waiting' : pic'[s] = pic[s]
    <2>1. (inDpb \cup waiting') \subseteq Slots
      BY <1>1, <1>2 DEF TypeOK
    <2> QED
      BY <1>1, <1>2, <2>1, ForgetKeeps DEF TypeOK
  <1>4. TypeOK'
    BY <1>1, <1>2, <1>3 DEF TypeOK
  <1>5. Referenced' /\ ShortTerm' = ShortTerm
    BY <1>1, <1>3, ReferencesStay
  <1>6. Held'
    <2>1. \A s \in waiting' : s \in waiting /\ pic'[s] = pic[s]
      BY <1>1, <1>3
    <2>2. \A s \in waiting' : ~pic'[s].old /\ pic'[s].poc \in sent' /\ pic'[s].poc > lastPoc'
      BY <1>1, <2>1 DEF DpbInv, Held
    <2>3. \A s, t \in waiting' : pic'[s].poc = pic'[t].poc => s = t
      BY <2>1 DEF DpbInv, Held
    <2> QED
      BY <2>2, <2>3 DEF Held
  <1>7. Counted'
    <2>1. nRef + 1 <= Cardinality(sent) /\ Cardinality(sent) \in Nat /\ nRef \in Nat
      BY <1>1, <1>2, SentSize, SizeAssumption DEF DpbInv, Counted, TypeOK
    <2> QED
      BY <1>1, <2>1 DEF Counted
  <1>8. Placed' /\ Decoding' /\ Behind'
    BY <1>1 DEF DpbInv, Placed, Decoding, Behind
  <1> QED
    BY <1>4, <1>5, <1>6, <1>7, <1>8 DEF DpbInv

\* The stream comes to its next IDR picture.
LEMMA IdrReached == DpbInv /\ ReachIdr => DpbInv'
  <1> SUFFICES ASSUME DpbInv, ReachIdr PROVE DpbInv'
    OBVIOUS
  <1>1. /\ cur = NoSlot /\ atIdr' = TRUE
        /\ UNCHANGED <<pic, inDpb, waiting, shown, cur, maxLong, running, nRef, sent, lastPoc>>
    BY DEF ReachIdr, gopVars
  <1>2. TypeOK'
    BY <1>1 DEF DpbInv, TypeOK
  <1>3. Referenced' /\ ShortTerm' = ShortTerm
    BY <1>1, ReferencesStay
  <1>4. Placed' /\ Decoding' /\ Counted' /\ Held' /\ Behind'
    BY <1>1 DEF DpbInv, Placed, Decoding, Counted, Held, Behind
  <1> QED
    BY <1>2, <1>3, <1>4 DEF DpbInv

\* The pictures that wait are as many as their places in display order.
LEMMA PlacesOfWaiting ==
  ASSUME DpbInv, NEW P, P = {pic[s].poc : s \in waiting}
  PROVE  P \subseteq sent /\ Cardinality(P) = Cardinality(waiting)
  <1>1. P \subseteq sent
    BY DEF DpbInv, Held
  <1>2. IsFiniteSet(waiting)
    BY FiniteSlots DEF DpbInv, TypeOK
  <1> DEFINE f == [s \in waiting |-> pic[s].poc]
  <1>3. f \in Bijection(waiting, P)
    BY DEF DpbInv, Held, Bijection, Injection, Surjection, IsInjective
  <1>4. Cardinality(waiting) = Cardinality(P)
    <2> HIDE DEF f
    <2>1. ExistsBijection(waiting, P)
      BY <1>3 DEF ExistsBijection
    <2> QED
      BY <1>2, <2>1, FS_Bijection
  <1> QED
    BY <1>1, <1>4

\* The first picture in display order goes to the screen.
LEMMA PictureLeaves == DpbInv /\ Output => DpbInv'
  <1> SUFFICES ASSUME DpbInv, Output PROVE DpbInv'
    OBVIOUS
  <1>1. PICK s \in waiting :
          /\ \A t \in waiting : pic[s].poc <= pic[t].poc
          /\ waiting' = waiting \ {s} /\ shown' = Append(shown, s)
          /\ pic' = Forget(pic, inDpb \cup waiting') /\ lastPoc' = pic[s].poc
    BY DEF Output
  <1>2. /\ cur = NoSlot /\ (Ready \/ atIdr) /\ UNCHANGED <<inDpb, cur, maxLong, running, atIdr, nRef, sent>>
    BY DEF Output, gopVars
  <1>3. TypeOK
    BY DEF DpbInv
  <1>4. pic' \in [Slots -> Pictures] /\ \A x \in inDpb \cup waiting' : pic'[x] = pic[x]
    <2>1. (inDpb \cup waiting') \subseteq Slots
      BY <1>1, <1>3 DEF TypeOK
    <2> QED
      BY <1>1, <1>3, <2>1, ForgetKeeps DEF TypeOK
  <1>5. s \in Slots /\ pic[s].poc \in 0 .. MaxPoc /\ pic[s].poc \in sent
    BY <1>1, <1>3 DEF TypeOK, Pictures, DpbInv, Held
  <1>6. TypeOK'
    <2>1. shown' \in Seq(Slots)
      BY <1>1, <1>3, <1>5 DEF TypeOK
    <2>2. lastPoc' \in -1 .. MaxPoc
      BY <1>1, <1>5, SizeAssumption
    <2> QED
      BY <1>1, <1>2, <1>3, <1>4, <2>1, <2>2 DEF TypeOK
  <1>7. Referenced' /\ ShortTerm' = ShortTerm
    BY <1>2, <1>4, ReferencesStay
  <1>8. Placed' /\ Decoding' /\ Counted'
    BY <1>2 DEF DpbInv, Placed, Decoding, Counted
  <1>9. Held'
    <2>1. \A t \in waiting' : t \in waiting /\ pic'[t] = pic[t] /\ pic[t].poc # pic[s].poc /\ pic[t].poc \in 0 .. MaxPoc
      BY <1>1, <1>3, <1>4 DEF DpbInv, Held, TypeOK, Pictures
    <2>2. \A t \in waiting' : pic[t].poc > pic[s].poc
      BY <1>1, <1>5, <2>1
    <2>3. \A t \in waiting' : ~pic'[t].old /\ pic'[t].poc \in sent' /\ pic'[t].poc > lastPoc'
      BY <1>1, <1>2, <2>1, <2>2 DEF DpbInv, Held
    <2>4. \A t, x \in waiting' : pic'[t].poc = pic'[x].poc => t = x
      BY <2>1 DEF DpbInv, Held
    <2> QED
      BY <2>3, <2>4 DEF Held
  <1>10. Behind'
    <2>1. CASE atIdr
      BY <1>2, <2>1 DEF Behind
    <2>2. CASE ~atIdr
      <3>1. Cardinality(waiting) > Reorder
        BY <1>2, <2>2 DEF Ready
      <3> DEFINE P == {pic[t].poc : t \in waiting}
                 A == {p \in sent : p >= pic[s].poc}
      <3>2. P \subseteq A
        BY <1>1 DEF DpbInv, Held
      <3>3. IsFiniteSet(A) /\ Cardinality(A) \in Nat
        BY <1>3, SentSize
      <3>4. Cardinality(P) = Cardinality(waiting)
        BY PlacesOfWaiting
      <3>5. Cardinality(P) <= Cardinality(A) /\ Cardinality(P) \in Nat
        <4> HIDE DEF P, A
        <4> QED
          BY <3>2, <3>3, FS_Subset, FS_CardinalityType
      <3>6. Cardinality(A) > Reorder
        <4> HIDE DEF P, A
        <4> QED
          BY <3>1, <3>3, <3>4, <3>5, SizeAssumption
      <3> QED
        BY <1>1, <1>2, <1>5, <3>6 DEF Behind
    <2> QED
      BY <2>1, <2>2
  <1> QED
    BY <1>6, <1>7, <1>8, <1>9, <1>10 DEF DpbInv

\* The display gives a picture back.
LEMMA PictureReturns == DpbInv /\ OffScreen => DpbInv'
  <1> SUFFICES ASSUME DpbInv, OffScreen PROVE DpbInv'
    OBVIOUS
  <1>1. /\ cur = NoSlot /\ Len(shown) > 1 /\ shown' = Tail(shown)
        /\ UNCHANGED <<pic, inDpb, waiting, cur, maxLong, running, atIdr, nRef, sent, lastPoc>>
    BY DEF OffScreen, gopVars
  <1>2. TypeOK'
    <2>1. shown' \in Seq(Slots)
      BY <1>1 DEF DpbInv, TypeOK
    <2> QED
      BY <1>1, <2>1 DEF DpbInv, TypeOK
  <1>3. Referenced' /\ ShortTerm' = ShortTerm
    BY <1>1, ReferencesStay
  <1>4. Placed' /\ Decoding' /\ Counted' /\ Held' /\ Behind'
    BY <1>1 DEF DpbInv, Placed, Decoding, Counted, Held, Behind
  <1> QED
    BY <1>2, <1>3, <1>4 DEF DpbInv

\* Two pictures with the display, the references and those held back leave a slot.
LEMMA SlotRemains == DpbInv => PicturesInOrder
  <1> SUFFICES ASSUME DpbInv PROVE PicturesInOrder
    OBVIOUS
  <1>1. TypeOK /\ OutputInOrder
    BY DEF DpbInv, Held, OutputInOrder
  <1>2. ASSUME running, cur = NoSlot, atIdr => Drained, ~Ready, Len(shown) <= 2 PROVE Used # Slots
    <2>1. /\ IsFiniteSet(inDpb) /\ Cardinality(inDpb) \in Nat /\ Cardinality(inDpb) <= MaxRef
          /\ IsFiniteSet(waiting) /\ Cardinality(waiting) \in Nat /\ Cardinality(waiting) <= Reorder
      <3>1. inDpb \subseteq Slots /\ waiting \subseteq Slots
        BY <1>1 DEF TypeOK
      <3>2. IsFiniteSet(inDpb) /\ Cardinality(inDpb) \in Nat /\ IsFiniteSet(waiting) /\ Cardinality(waiting) \in Nat
        BY <3>1, FiniteSlots
      <3>3. Cardinality(inDpb) <= MaxRef
        BY DEF DpbInv, Referenced
      <3>4. ~ (Cardinality(waiting) > Reorder)
        BY <1>2 DEF Ready
      <3> QED
        BY <3>2, <3>3, <3>4, SizeAssumption
    <2>2. IsFiniteSet(ToSet(shown)) /\ Cardinality(ToSet(shown)) \in Nat /\ Cardinality(ToSet(shown)) <= 2
      <3>1. PICK a, b : ToSet(shown) \subseteq {a, b}
        <4>1. \A i \in DOMAIN shown : i = 1 \/ i = 2
          BY <1>1, <1>2 DEF TypeOK
        <4>2. ToSet(shown) \subseteq {shown[1], shown[2]}
          BY <4>1 DEF ToSet
        <4> QED
          BY <4>2
      <3>2. IsFiniteSet({a}) /\ Cardinality({a}) = 1
        BY FS_Singleton
      <3>3. IsFiniteSet({a} \cup {b}) /\ Cardinality({a} \cup {b}) <= 2
        BY <3>2, FS_AddElement
      <3>4. ToSet(shown) \subseteq {a} \cup {b}
        BY <3>1
      <3> QED
        BY <3>3, <3>4, FS_Subset, FS_CardinalityType
    <2>3. IsFiniteSet(inDpb \cup waiting) /\ Cardinality(inDpb \cup waiting) \in Nat
          /\ Cardinality(inDpb \cup waiting) <= MaxRef + Reorder
      <3>1. Cardinality(inDpb \cup waiting) = Cardinality(inDpb) + Cardinality(waiting) - Cardinality(inDpb \cap waiting)
        BY <2>1, FS_Union
      <3>2. Cardinality(inDpb \cap waiting) \in Nat
        BY <2>1, FS_Intersection, FS_CardinalityType
      <3>3. IsFiniteSet(inDpb \cup waiting)
        BY <2>1, FS_Union
      <3>4. Cardinality(inDpb \cup waiting) \in Nat
        BY <3>3, FS_CardinalityType
      <3> QED
        BY <2>1, <3>1, <3>2, <3>3, <3>4, SizeAssumption
    <2>4. Cardinality(Used) <= MaxRef + Reorder + 2 /\ Cardinality(Used) \in Nat
      <3>1. Cardinality((inDpb \cup waiting) \cup ToSet(shown)) =
              Cardinality(inDpb \cup waiting) + Cardinality(ToSet(shown)) - Cardinality((inDpb \cup waiting) \cap ToSet(shown))
        BY <2>2, <2>3, FS_Union
      <3>2. Cardinality((inDpb \cup waiting) \cap ToSet(shown)) \in Nat
        BY <2>2, <2>3, FS_Intersection, FS_CardinalityType
      <3>3. Used = (inDpb \cup waiting) \cup ToSet(shown)
        BY DEF Used
      <3>4. Cardinality(Used) \in Nat
        BY <1>1, FiniteSlots, UsedSlots
      <3> QED
        BY <2>2, <2>3, <3>1, <3>2, <3>3, <3>4, SizeAssumption
    <2> QED
      BY <2>4, SlotsAre, SizeAssumption
  <1> QED
    BY <1>1, <1>2 DEF PicturesInOrder, AlwaysASlot

----------------------------------------------------------------------------
(* Operations on the references *)

\* The marks that operations work on.
Marks == [refs : SUBSET inDpb, long : [Slots -> Short .. MaxLong], maxLong : Short .. MaxLong, legal : BOOLEAN]

\* What an operation of the stream may ask for.
LEMMA OperationsAre ==
  ASSUME NEW o \in Marking!Mmco
  PROVE  /\ o.op \in {1, 2, 3, 4, 6} /\ o.idx \in 0 .. MaxLong + 1 /\ (o.op # 4 => o.idx \in 0 .. MaxLong)
         /\ o.op \in {1, 3} => o.d \in 1 .. MaxFrameNum
  <1>1. MaxLong \in Nat
    BY SizeAssumption
  <1>2. Marking!Max(0 .. MaxLong) = MaxLong
    <2>1. \E x \in 0 .. MaxLong : \A y \in 0 .. MaxLong : x >= y
      BY <1>1
    <2>2. Marking!Max(0 .. MaxLong) \in 0 .. MaxLong /\ \A y \in 0 .. MaxLong : Marking!Max(0 .. MaxLong) >= y
      BY <2>1, Zenon DEF Marking!Max
    <2>3. PICK x : x = Marking!Max(0 .. MaxLong)
      OBVIOUS
    <2>4. x \in 0 .. MaxLong /\ x >= MaxLong
      BY <1>1, <2>2, <2>3
    <2> QED
      BY <1>1, <2>3, <2>4
  <1> QED
    <2> DEFINE L == 0 .. MaxLong
    <2>1. Marking!Mmco = [op : {1}, d : 1 .. MaxFrameNum, idx : {0}] \cup [op : {2}, d : {0}, idx : L]
                           \cup [op : {3}, d : 1 .. MaxFrameNum, idx : L]
                           \cup [op : {4}, d : {0}, idx : L \cup {MaxLong + 1}] \cup [op : {6}, d : {0}, idx : L]
      BY <1>2, Zenon DEF Marking!Mmco
    <2>2. 0 \in L /\ L \subseteq 0 .. MaxLong + 1 /\ MaxLong + 1 \in 0 .. MaxLong + 1
      BY <1>1
    <2> HIDE DEF L
    <2>3. /\ o.op \in {1, 2, 3, 4, 6} /\ o.idx \in L \cup {MaxLong + 1} /\ (o.op # 4 => o.idx \in L)
          /\ o.op \in {1, 3} => o.d \in 1 .. MaxFrameNum
      BY <2>1, <2>2
    <2> QED
      BY <2>2, <2>3 DEF L

\* The slot that o names by a difference, and the one it names by an index, as a set of one or none.
Named(m, o) == ShortWith(m.refs, m.long, pic[cur].frameNum - o.d, pic[cur].frameNum)
Holder(m, o) == LongWith(m.refs, m.long, o.idx)

\* The first of a set of slots.
LEMMA FirstIs ==
  ASSUME NEW S, S \subseteq Nat
  PROVE  /\ S = {} => FirstOf(S) = {}
         /\ S # {} => \E x \in S : FirstOf(S) = {x} /\ \A y \in S : x <= y
  BY LeastIs DEF FirstOf

\* Marks, by their parts.
Mark(a, b, c, d) == [refs |-> a, long |-> b, maxLong |-> c, legal |-> d]

\* Marks of which two parts are replaced.
LEMMA MarkFields ==
  ASSUME NEW m, m = Mark(m.refs, m.long, m.maxLong, m.legal)
  PROVE  /\ \A x, y : [m EXCEPT !.refs = x, !.legal = y] = Mark(x, m.long, m.maxLong, y)
         /\ \A x, z : [m EXCEPT !.maxLong = z, !.refs = x] = Mark(x, m.long, z, m.legal)
         /\ \A y, z : [m EXCEPT !.long = z, !.legal = y] = Mark(m.refs, z, m.maxLong, y)
  <1>0. PICK a, b, c, d : m = Mark(a, b, c, d) /\ m.refs = a /\ m.long = b /\ m.maxLong = c /\ m.legal = d
    BY Zenon
  <1>1. ASSUME NEW x, NEW y PROVE [m EXCEPT !.refs = x, !.legal = y] = Mark(x, m.long, m.maxLong, y)
    <2> DEFINE u == [m EXCEPT !.refs = x]
    <2>1. u = Mark(x, b, c, d)
      BY <1>0 DEF Mark
    <2> HIDE DEF u
    <2>2. [u EXCEPT !.legal = y] = Mark(x, b, c, y)
      BY <2>1 DEF Mark
    <2> QED
      BY <1>0, <2>2, Zenon DEF u
  <1>3. ASSUME NEW x, NEW z PROVE [m EXCEPT !.maxLong = z, !.refs = x] = Mark(x, m.long, z, m.legal)
    <2> DEFINE u == [m EXCEPT !.maxLong = z]
    <2>1. u = Mark(a, b, z, d)
      BY <1>0 DEF Mark
    <2> HIDE DEF u
    <2>2. [u EXCEPT !.refs = x] = Mark(x, b, z, d)
      BY <2>1 DEF Mark
    <2> QED
      BY <1>0, <2>2, Zenon DEF u
  <1>4. ASSUME NEW y, NEW z PROVE [m EXCEPT !.long = z, !.legal = y] = Mark(m.refs, z, m.maxLong, y)
    <2> DEFINE u == [m EXCEPT !.long = z]
    <2>1. u = Mark(a, z, c, d)
      BY <1>0 DEF Mark
    <2> HIDE DEF u
    <2>2. [u EXCEPT !.legal = y] = Mark(a, z, c, y)
      BY <2>1 DEF Mark
    <2> QED
      BY <1>0, <2>2, Zenon DEF u
  <1> QED
    BY <1>1, <1>3, <1>4, Zenon

\* What each operation does to the marks.
LEMMA Applied ==
  ASSUME NEW m \in Marks, NEW o \in Marking!Mmco, NEW r, r = ApplyMmco(m, o)
  PROVE  /\ o.op = 1 => r = Mark(m.refs \ Named(m, o), m.long, m.maxLong, m.legal /\ Named(m, o) # {})
         /\ o.op = 2 => r = Mark(m.refs \ Holder(m, o), m.long, m.maxLong, m.legal /\ Holder(m, o) # {})
         /\ o.op = 3 => r = Mark(m.refs \ Holder(m, o),
                                 [s \in Slots |-> IF s \in Named(m, o) THEN o.idx ELSE m.long[s]],
                                 m.maxLong, m.legal /\ Named(m, o) # {} /\ o.idx <= m.maxLong)
         /\ o.op = 4 => r = Mark({s \in m.refs : m.long[s] <= o.idx - 1}, m.long, o.idx - 1, m.legal)
         /\ o.op = 6 => r = Mark(m.refs, [m.long EXCEPT ![cur] = o.idx], m.maxLong,
                                 m.legal /\ Holder(m, o) = {} /\ o.idx <= m.maxLong)
  <1>1. m = Mark(m.refs, m.long, m.maxLong, m.legal)
    BY Zenon DEF Marks, Mark
  <1>2. o.op = 1 => r = [m EXCEPT !.refs = m.refs \ Named(m, o), !.legal = m.legal /\ Named(m, o) # {}]
    BY DEF ApplyMmco, Named
  <1>3. o.op = 2 => r = [m EXCEPT !.refs = m.refs \ Holder(m, o), !.legal = m.legal /\ Holder(m, o) # {}]
    BY DEF ApplyMmco, Holder
  <1>4. o.op = 3 => r = [m EXCEPT !.refs = m.refs \ Holder(m, o),
                                  !.long = [s \in Slots |-> IF s \in Named(m, o) THEN o.idx ELSE m.long[s]],
                                  !.legal = m.legal /\ Named(m, o) # {} /\ o.idx <= m.maxLong]
    BY DEF ApplyMmco, Holder, Named
  <1>5. o.op = 4 => r = [m EXCEPT !.maxLong = o.idx - 1, !.refs = {s \in m.refs : m.long[s] <= o.idx - 1}]
    BY DEF ApplyMmco, LargestIndex
  <1>6. o.op = 6 => r = [m EXCEPT !.long[cur] = o.idx,
                                  !.legal = m.legal /\ Holder(m, o) = {} /\ o.idx <= m.maxLong]
    BY DEF ApplyMmco, Holder
  <1> DEFINE long == [m.long EXCEPT ![cur] = o.idx]
             legal == m.legal /\ Holder(m, o) = {} /\ o.idx <= m.maxLong
             a == m.refs
             b == m.long
             c == m.maxLong
             d == m.legal
             renamed == [s \in Slots |-> IF s \in Named(m, o) THEN o.idx ELSE m.long[s]]
             known == m.legal /\ Named(m, o) # {} /\ o.idx <= m.maxLong
  <1>7. [m EXCEPT !.long[cur] = o.idx, !.legal = legal] = [m EXCEPT !.long = long, !.legal = legal]
    BY Zenon
  <1>8. /\ \A x, y : [m EXCEPT !.refs = x, !.legal = y] = Mark(x, b, c, y)
        /\ \A x, z : [m EXCEPT !.maxLong = z, !.refs = x] = Mark(x, b, z, d)
        /\ \A y, z : [m EXCEPT !.long = z, !.legal = y] = Mark(a, z, c, y)
    <2> HIDE DEF a, b, c, d
    <2> QED
      BY <1>1, MarkFields, Zenon DEF a, b, c, d
  <1>9. o.op = 1 => r = Mark(m.refs \ Named(m, o), b, c, m.legal /\ Named(m, o) # {})
    BY <1>2, <1>8, Zenon
  <1>10. o.op = 2 => r = Mark(m.refs \ Holder(m, o), b, c, m.legal /\ Holder(m, o) # {})
    BY <1>3, <1>8, Zenon
  <1>11. o.op = 3 => r = Mark(m.refs \ Holder(m, o), renamed, c, known)
    <2>1. o.op = 3 => r = [m EXCEPT !.refs = m.refs \ Holder(m, o), !.long = renamed, !.legal = known]
      BY <1>4
    <2> DEFINE R == m.refs \ Holder(m, o)
               u == [m EXCEPT !.refs = R]
               v == [u EXCEPT !.long = renamed]
    <2> HIDE DEF renamed, known, R
    <2>2. PICK e, f, g, h : m = Mark(e, f, g, h) /\ m.maxLong = g
      BY <1>1, Zenon
    <2>3. u = Mark(R, f, g, h)
      BY <2>2 DEF Mark
    <2> HIDE DEF u
    <2>4. v = Mark(R, renamed, g, h)
      BY <2>3 DEF Mark
    <2> HIDE DEF v
    <2>5. [v EXCEPT !.legal = known] = Mark(R, renamed, g, known)
      BY <2>4 DEF Mark
    <2> QED
      BY <2>1, <2>2, <2>5, Zenon DEF R, u, v
  <1>12. o.op = 4 => r = Mark({s \in m.refs : m.long[s] <= o.idx - 1}, b, o.idx - 1, d)
    BY <1>5, <1>8, Zenon
  <1>13. o.op = 6 => r = Mark(a, long, c, legal)
    BY <1>6, <1>7, <1>8, Zenon
  <1> QED
    BY <1>9, <1>10, <1>11, <1>12, <1>13, Zenon

\* A number less than MaxFrameNum behind is told from the wrapped one.
LEMMA Unwrapped ==
  ASSUME NEW n \in Nat, NEW k \in Nat, NEW M \in Nat, n < k, k - n < M
  PROVE  (k % M) - (k - n) = IF n % M > k % M THEN (n % M) - M ELSE n % M
  <1> DEFINE p == n \div M
             q == k \div M
             a == n % M
             b == k % M
  <1>1. p \in Int /\ q \in Int /\ n = p * M + a /\ k = q * M + b /\ a \in 0 .. M - 1 /\ b \in 0 .. M - 1
    OBVIOUS
  <1> HIDE DEF p, q, a, b
  <1> DEFINE pm == p * M
             qm == q * M
  <1>2. pm \in Int /\ qm \in Int
    BY <1>1
  <1>3. n = pm + a /\ k = qm + b
    BY <1>1
  <1>4. p > q => \E d \in Nat : pm = qm + M + d
    <2>1. ASSUME p > q PROVE \E d \in Nat : pm = qm + M + d
      <3>1. PICK e \in Nat : p = q + 1 + e
        <4>1. p - q - 1 \in Nat /\ p = q + 1 + (p - q - 1)
          BY <1>1, <2>1
        <4> QED
          BY <4>1
      <3>2. p * M = q * M + M + e * M /\ e * M \in Nat
        BY <1>1, <3>1
      <3> QED
        BY <3>2
    <2> QED
      BY <2>1
  <1>5. q > p + 1 => \E d \in Nat : qm = pm + M + M + d
    <2>1. ASSUME q > p + 1 PROVE \E d \in Nat : qm = pm + M + M + d
      <3>1. PICK e \in Nat : q = p + 1 + 1 + e
        <4>1. q - p - 2 \in Nat /\ q = p + 1 + 1 + (q - p - 2)
          BY <1>1, <2>1
        <4> QED
          BY <4>1
      <3>2. q * M = p * M + M + M + e * M /\ e * M \in Nat
        BY <1>1, <3>1
      <3> QED
        BY <3>2
    <2> QED
      BY <2>1
  <1>6. q = p + 1 => qm = pm + M
    BY <1>1
  <1>7. q = p => qm = pm
    OBVIOUS
  <1> HIDE DEF pm, qm
  <1>8. ~ (p > q) /\ ~ (q > p + 1)
    BY <1>1, <1>2, <1>3, <1>4, <1>5
  <1>9. qm = pm + M \/ qm = pm
    BY <1>1, <1>6, <1>7, <1>8
  <1>10. (b) - (k - n) = IF a > b THEN a - M ELSE a
    BY <1>1, <1>2, <1>3, <1>9
  <1> QED
    BY <1>10 DEF a, b

\* A picture with a reference is being decoded, and its frame_num tells the others apart.
Refers == DpbInv /\ cur # NoSlot /\ ~atIdr

\* A reference has a number below the current one.
LEMMA ReferenceIs ==
  ASSUME DpbInv, NEW s \in inDpb
  PROVE  /\ s \in Slots /\ pic[s].n \in Nat /\ pic[s].n < nRef /\ nRef \in Nat
         /\ pic[s].long \in Short .. MaxLong /\ pic[s].frameNum \in Int
  <1>1. s \in Slots /\ pic[s] \in Pictures /\ nRef \in 0 .. MaxPoc + 1 /\ pic[s].n < nRef /\ MaxPoc \in Nat
    BY SizeAssumption DEF DpbInv, TypeOK, Referenced
  <1>2. pic[s].n \in 0 .. MaxPoc + 1 /\ pic[s].long \in Short .. MaxLong /\ pic[s].frameNum \in 0 .. MaxFrameNum - 1
    BY <1>1 DEF Pictures
  <1> QED
    BY <1>1, <1>2, SizeAssumption

\* The PicNum of a short-term reference is as much behind frame_num as the picture is.
LEMMA PicNumIs ==
  ASSUME Refers, NEW s \in ShortTerm
  PROVE  PicNum(s, pic[cur].frameNum) = pic[cur].frameNum - (nRef - pic[s].n)
         /\ nRef - pic[s].n \in 1 .. MaxFrameNum - 1 /\ pic[cur].frameNum \in Int
  <1>1. s \in inDpb
    BY DEF ShortTerm
  <1>2. pic[s].frameNum = pic[s].n % MaxFrameNum /\ pic[cur].frameNum = nRef % MaxFrameNum /\ nRef - pic[s].n < MaxFrameNum
    BY <1>1 DEF Refers, DpbInv, Decoding, Referenced
  <1>3. pic[s].n \in Nat /\ nRef \in Nat /\ pic[s].n < nRef /\ MaxFrameNum \in Nat
    BY <1>1, ReferenceIs, SizeAssumption DEF Refers
  <1>4. (nRef % MaxFrameNum) - (nRef - pic[s].n) =
          IF pic[s].n % MaxFrameNum > nRef % MaxFrameNum THEN (pic[s].n % MaxFrameNum) - MaxFrameNum
                                                         ELSE pic[s].n % MaxFrameNum
    BY <1>2, <1>3, Unwrapped
  <1>5. nRef % MaxFrameNum \in Int
    BY <1>3, SizeAssumption
  <1> QED
    BY <1>2, <1>3, <1>4, <1>5 DEF PicNum

----------------------------------------------------------------------------
(* Marks of slots and marks of numbers *)

\* Short-term and long-term pictures of m, the one being decoded included.
ShortOf(m) == {s \in m.refs \cup {cur} : m.long[s] = Short}
LongOf(m) == {s \in m.refs \cup {cur} : m.long[s] # Short}

\* A marking that a stream may ask for.
Kept(m) ==
  /\ m \in Marks
  /\ \A s, t \in LongOf(m) : m.long[s] = m.long[t] => s = t
  /\ \A s \in m.refs : m.long[s] = Short => pic[s].long = Short

\* k says the same of numbers as m says of slots.
Same(m, k) ==
  /\ k = [short |-> k.short, long |-> k.long, own |-> k.own]
  /\ k.short = {pic[s].n : s \in ShortOf(m) \ {cur}}
  /\ k.long = [i \in {m.long[s] : s \in LongOf(m)} |-> k.long[i]]
  /\ \A s \in LongOf(m) : k.long[m.long[s]] = pic[s].n
  /\ k.own = (m.long[cur] = Short)

\* Marks are about references, which the picture being decoded is not.
LEMMA MarksAre ==
  ASSUME Refers, NEW m, Kept(m)
  PROVE  /\ m.refs \subseteq inDpb /\ m.long \in [Slots -> Short .. MaxLong] /\ m.maxLong \in Short .. MaxLong
         /\ m.legal \in BOOLEAN /\ inDpb \subseteq Slots /\ cur \in Slots /\ cur \notin inDpb /\ pic[cur].n = nRef
         /\ nRef \in Nat
  <1>1. m.refs \subseteq inDpb /\ m.long \in [Slots -> Short .. MaxLong] /\ m.maxLong \in Short .. MaxLong /\ m.legal \in BOOLEAN
    BY DEF Kept, Marks
  <1> QED
    BY <1>1, SizeAssumption DEF Refers, DpbInv, TypeOK, Placed, Decoding

\* The slot an operation names by a difference holds the picture that far back.
LEMMA NamedIs ==
  ASSUME Refers, NEW m, Kept(m), NEW o, o.d \in Nat
  PROVE  Named(m, o) = {s \in m.refs : m.long[s] = Short /\ pic[s].n = nRef - o.d}
  <1> DEFINE N == pic[cur].frameNum - o.d
             S == {s \in m.refs : m.long[s] = Short /\ PicNum(s, pic[cur].frameNum) = N}
             T == {s \in m.refs : m.long[s] = Short /\ pic[s].n = nRef - o.d}
  <1>1. S = T
    <2>1. ASSUME NEW s \in m.refs, m.long[s] = Short
          PROVE  PicNum(s, pic[cur].frameNum) = N <=> pic[s].n = nRef - o.d
      <3>1. s \in ShortTerm
        BY <2>1, MarksAre DEF Kept, ShortTerm
      <3>2. PicNum(s, pic[cur].frameNum) = pic[cur].frameNum - (nRef - pic[s].n) /\ pic[cur].frameNum \in Int
        BY <3>1, PicNumIs
      <3>3. pic[s].n \in Nat /\ nRef \in Nat
        BY <2>1, MarksAre, ReferenceIs DEF Refers
      <3> QED
        BY <3>2, <3>3
    <2> QED
      BY <2>1
  <1>2. \A s, t \in T : s = t
    <2>1. \A s, t \in inDpb : pic[s].n = pic[t].n => s = t
      BY DEF Refers, DpbInv, Referenced
    <2>2. T \subseteq inDpb /\ \A s \in T : pic[s].n = nRef - o.d
      BY MarksAre
    <2> HIDE DEF T
    <2> QED
      BY <2>1, <2>2
  <1>3. T \subseteq Nat
    BY MarksAre, SlotsAre DEF Slots
  <1>4. FirstOf(T) = T
    <2> HIDE DEF T
    <2>1. CASE T = {}
      BY <1>3, <2>1, FirstIs
    <2>2. CASE T # {}
      <3>1. PICK x \in T : FirstOf(T) = {x}
        BY <1>3, <2>2, FirstIs
      <3> QED
        BY <1>2, <3>1
    <2> QED
      BY <2>1, <2>2
  <1> QED
    BY <1>1, <1>4 DEF Named, ShortWith

\* An index has one holder at most.
LEMMA HolderIs ==
  ASSUME Refers, NEW m, Kept(m), NEW o, o.idx \in Nat
  PROVE  Holder(m, o) = {s \in m.refs : m.long[s] = o.idx}
  <1> DEFINE T == {s \in m.refs : m.long[s] = o.idx}
  <1>1. T \subseteq Nat
    BY MarksAre, SlotsAre DEF Slots
  <1>2. \A s, t \in T : s = t
    BY DEF Kept, LongOf, Short
  <1>3. FirstOf(T) = T
    <2> HIDE DEF T
    <2>1. CASE T = {}
      BY <1>1, <2>1, FirstIs
    <2>2. CASE T # {}
      <3>1. PICK x \in T : FirstOf(T) = {x}
        BY <1>1, <2>2, FirstIs
      <3> QED
        BY <1>2, <3>1
    <2> QED
      BY <2>1, <2>2
  <1> QED
    BY <1>3 DEF Holder, LongWith

\* What RefMarking keeps, by its parts.
Numbers(a, b, c) == [short |-> a, long |-> b, own |-> c]

\* The parts of legal marks.
LEMMA MarkIs ==
  ASSUME NEW a, NEW b, NEW c, NEW d \in BOOLEAN, NEW r, r = Mark(a, b, c, d), r.legal
  PROVE  r.refs = a /\ r.long = b /\ r.maxLong = c /\ d
  BY DEF Mark

\* The parts of what RefMarking keeps.
LEMMA NumbersIs ==
  ASSUME NEW a, NEW b, NEW c, NEW r, r = Numbers(a, b, c)
  PROVE  /\ r.short = a /\ r.long = b /\ r.own = c
         /\ r = [short |-> r.short, long |-> r.long, own |-> r.own]
  <1>1. r.short = a /\ r.long = b /\ r.own = c
    BY DEF Numbers
  <1> QED
    BY <1>1, Zenon DEF Numbers

\* Parts of what RefMarking keeps are replaced.
LEMMA NumbersFields ==
  ASSUME NEW k, k = Numbers(k.short, k.long, k.own)
  PROVE  /\ \A x : [k EXCEPT !.short = x] = Numbers(x, k.long, k.own)
         /\ \A y : [k EXCEPT !.long = y] = Numbers(k.short, y, k.own)
         /\ \A x, y : [k EXCEPT !.short = x, !.long = y] = Numbers(x, y, k.own)
         /\ \A y, z : [k EXCEPT !.long = y, !.own = z] = Numbers(k.short, y, z)
  <1>0. PICK a, b, c : k = Numbers(a, b, c) /\ k.short = a /\ k.long = b /\ k.own = c
    BY Zenon
  <1>1. ASSUME NEW x PROVE [k EXCEPT !.short = x] = Numbers(x, k.long, k.own)
    <2>1. [k EXCEPT !.short = x] = Numbers(x, b, c)
      BY <1>0 DEF Numbers
    <2> QED
      BY <1>0, <2>1, Zenon
  <1>2. ASSUME NEW y PROVE [k EXCEPT !.long = y] = Numbers(k.short, y, k.own)
    <2>1. [k EXCEPT !.long = y] = Numbers(a, y, c)
      BY <1>0 DEF Numbers
    <2> QED
      BY <1>0, <2>1, Zenon
  <1>3. ASSUME NEW x, NEW y PROVE [k EXCEPT !.short = x, !.long = y] = Numbers(x, y, k.own)
    <2> DEFINE u == [k EXCEPT !.short = x]
    <2>1. u = Numbers(x, b, c)
      BY <1>0 DEF Numbers
    <2> HIDE DEF u
    <2>2. [u EXCEPT !.long = y] = Numbers(x, y, c)
      BY <2>1 DEF Numbers
    <2> QED
      BY <1>0, <2>2, Zenon DEF u
  <1>4. ASSUME NEW y, NEW z PROVE [k EXCEPT !.long = y, !.own = z] = Numbers(k.short, y, z)
    <2> DEFINE u == [k EXCEPT !.long = y]
    <2>1. u = Numbers(a, y, c)
      BY <1>0 DEF Numbers
    <2> HIDE DEF u
    <2>2. [u EXCEPT !.own = z] = Numbers(a, y, z)
      BY <2>1 DEF Numbers
    <2> QED
      BY <1>0, <2>2, Zenon DEF u
  <1> QED
    BY <1>1, <1>2, <1>3, <1>4, Zenon

\* What each operation does to the numbers.
LEMMA PerformIs ==
  ASSUME NEW k, k = Numbers(k.short, k.long, k.own), NEW o, NEW r, r = Marking!Perform(k, o)
  PROVE  /\ o.op = 1 => r = Numbers(k.short \ {nRef - o.d}, k.long, k.own)
         /\ o.op = 2 => r = Numbers(k.short, Marking!Without(k.long, {o.idx}), k.own)
         /\ o.op = 3 => r = Numbers(k.short \ {nRef - o.d}, Marking!WithIndex(k.long, o.idx, nRef - o.d), k.own)
         /\ o.op = 4 => r = Numbers(k.short, Marking!Without(k.long, {i \in DOMAIN k.long : i >= o.idx}), k.own)
         /\ o.op = 6 => r = Numbers(k.short, Marking!WithIndex(k.long, o.idx, nRef), FALSE)
  <1>1. o.op = 1 => r = [k EXCEPT !.short = k.short \ {nRef - o.d}]
    BY DEF Marking!Perform
  <1>2. o.op = 2 => r = [k EXCEPT !.long = Marking!Without(k.long, {o.idx})]
    BY DEF Marking!Perform
  <1>3. o.op = 3 => r = [k EXCEPT !.short = k.short \ {nRef - o.d},
                                  !.long = Marking!WithIndex(k.long, o.idx, nRef - o.d)]
    BY DEF Marking!Perform
  <1>4. o.op = 4 => r = [k EXCEPT !.long = Marking!Without(k.long, {i \in DOMAIN k.long : i >= o.idx})]
    BY DEF Marking!Perform
  <1>5. o.op = 6 => r = [k EXCEPT !.long = Marking!WithIndex(k.long, o.idx, nRef), !.own = FALSE]
    BY DEF Marking!Perform
  <1>6. /\ \A x : [k EXCEPT !.short = x] = Numbers(x, k.long, k.own)
        /\ \A y : [k EXCEPT !.long = y] = Numbers(k.short, y, k.own)
        /\ \A x, y : [k EXCEPT !.short = x, !.long = y] = Numbers(x, y, k.own)
        /\ \A y, z : [k EXCEPT !.long = y, !.own = z] = Numbers(k.short, y, z)
    BY NumbersFields
  <1>7. o.op = 1 => r = Numbers(k.short \ {nRef - o.d}, k.long, k.own)
    BY <1>1, <1>6, Zenon
  <1>8. o.op = 2 => r = Numbers(k.short, Marking!Without(k.long, {o.idx}), k.own)
    BY <1>2, <1>6, Zenon
  <1>9. o.op = 3 => r = Numbers(k.short \ {nRef - o.d}, Marking!WithIndex(k.long, o.idx, nRef - o.d), k.own)
    <2> DEFINE S == k.short \ {nRef - o.d}
               L == Marking!WithIndex(k.long, o.idx, nRef - o.d)
    <2>1. o.op = 3 => r = [k EXCEPT !.short = S, !.long = L]
      BY <1>3
    <2> HIDE DEF S, L
    <2>2. o.op = 3 => r = Numbers(S, L, k.own)
      BY <1>6, <2>1, Zenon
    <2> QED
      BY <2>2 DEF S, L
  <1>10. o.op = 4 => r = Numbers(k.short, Marking!Without(k.long, {i \in DOMAIN k.long : i >= o.idx}), k.own)
    BY <1>4, <1>6, Zenon
  <1>11. o.op = 6 => r = Numbers(k.short, Marking!WithIndex(k.long, o.idx, nRef), FALSE)
    BY <1>5, <1>6, Zenon
  <1> QED
    BY <1>7, <1>8, <1>9, <1>10, <1>11, Zenon

\* What a legal operation has done.
SlotsDone(m, o, r) ==
  /\ m.legal
  /\ o.op = 1 => r.refs = m.refs \ Named(m, o) /\ r.long = m.long /\ r.maxLong = m.maxLong
  /\ o.op = 2 => r.refs = m.refs \ Holder(m, o) /\ r.long = m.long /\ r.maxLong = m.maxLong
  /\ o.op = 3 => /\ r.refs = m.refs \ Holder(m, o) /\ r.maxLong = m.maxLong /\ Named(m, o) # {}
                 /\ r.long = [s \in Slots |-> IF s \in Named(m, o) THEN o.idx ELSE m.long[s]]
  /\ o.op = 4 => r.refs = {s \in m.refs : m.long[s] <= o.idx - 1} /\ r.long = m.long /\ r.maxLong = o.idx - 1
  /\ o.op = 6 => /\ r.refs = m.refs /\ r.maxLong = m.maxLong /\ Holder(m, o) = {}
                 /\ r.long = [m.long EXCEPT ![cur] = o.idx]
  /\ r = Mark(r.refs, r.long, r.maxLong, TRUE)

\* Marks that are legal after an operation were so before, and it found what it names.
LEMMA LegalIs ==
  ASSUME NEW m \in Marks, NEW o \in Marking!Mmco, NEW r, r = ApplyMmco(m, o), r.legal
  PROVE  SlotsDone(m, o, r)
  <1> DEFINE C(a, b, c, d) == r = Mark(a, b, c, d)
  <1>0. m.legal \in BOOLEAN /\ o.op \in {1, 2, 3, 4, 6}
    BY OperationsAre DEF Marks
  <1>1. /\ o.op = 1 => C(m.refs \ Named(m, o), m.long, m.maxLong, m.legal /\ Named(m, o) # {})
        /\ o.op = 2 => C(m.refs \ Holder(m, o), m.long, m.maxLong, m.legal /\ Holder(m, o) # {})
        /\ o.op = 3 => C(m.refs \ Holder(m, o),
                         [s \in Slots |-> IF s \in Named(m, o) THEN o.idx ELSE m.long[s]],
                         m.maxLong, m.legal /\ Named(m, o) # {} /\ o.idx <= m.maxLong)
        /\ o.op = 4 => C({s \in m.refs : m.long[s] <= o.idx - 1}, m.long, o.idx - 1, m.legal)
        /\ o.op = 6 => C(m.refs, [m.long EXCEPT ![cur] = o.idx], m.maxLong,
                         m.legal /\ Holder(m, o) = {} /\ o.idx <= m.maxLong)
    BY Applied
  <1>2. ASSUME NEW a, NEW b, NEW c, NEW d \in BOOLEAN, C(a, b, c, d)
        PROVE  r.refs = a /\ r.long = b /\ r.maxLong = c /\ d /\ C(r.refs, r.long, r.maxLong, TRUE)
    <2>1. r.refs = a /\ r.long = b /\ r.maxLong = c /\ d
      BY <1>2, MarkIs
    <2>2. d = TRUE
      BY <1>2, <2>1
    <2> QED
      BY <1>2, <2>1, <2>2, Zenon
  <1> HIDE DEF C
  <1>3. o.op = 1 => /\ r.refs = m.refs \ Named(m, o) /\ r.long = m.long /\ r.maxLong = m.maxLong
                   /\ m.legal /\ Named(m, o) # {} /\ C(r.refs, r.long, r.maxLong, TRUE)
    <2>1. PICK a, b, c : a = m.refs \ Named(m, o) /\ b = m.long /\ c = m.maxLong
      BY Zenon
    <2>2. PICK d \in BOOLEAN : d = (m.legal /\ Named(m, o) # {})
      BY <1>0
    <2>3. o.op = 1 => C(a, b, c, d)
      BY <1>1, <2>1, <2>2, Zenon
    <2>4. o.op = 1 => r.refs = a /\ r.long = b /\ r.maxLong = c /\ d /\ C(r.refs, r.long, r.maxLong, TRUE)
      BY <1>2, <2>2, <2>3
    <2> QED
      BY <2>1, <2>2, <2>4, Zenon
  <1>4. o.op = 2 => /\ r.refs = m.refs \ Holder(m, o) /\ r.long = m.long /\ r.maxLong = m.maxLong
                   /\ m.legal /\ Holder(m, o) # {} /\ C(r.refs, r.long, r.maxLong, TRUE)
    <2>1. PICK a, b, c : a = m.refs \ Holder(m, o) /\ b = m.long /\ c = m.maxLong
      BY Zenon
    <2>2. PICK d \in BOOLEAN : d = (m.legal /\ Holder(m, o) # {})
      BY <1>0
    <2>3. o.op = 2 => C(a, b, c, d)
      BY <1>1, <2>1, <2>2, Zenon
    <2>4. o.op = 2 => r.refs = a /\ r.long = b /\ r.maxLong = c /\ d /\ C(r.refs, r.long, r.maxLong, TRUE)
      BY <1>2, <2>2, <2>3
    <2> QED
      BY <2>1, <2>2, <2>4, Zenon
  <1>5. o.op = 3 => /\ r.refs = m.refs \ Holder(m, o) /\ r.long = [s \in Slots |-> IF s \in Named(m, o) THEN o.idx ELSE m.long[s]] /\ r.maxLong = m.maxLong
                   /\ m.legal /\ Named(m, o) # {} /\ C(r.refs, r.long, r.maxLong, TRUE)
    <2>1. PICK a, b, c : a = m.refs \ Holder(m, o) /\ b = [s \in Slots |-> IF s \in Named(m, o) THEN o.idx ELSE m.long[s]] /\ c = m.maxLong
      BY Zenon
    <2>2. PICK d \in BOOLEAN : d = (m.legal /\ Named(m, o) # {} /\ o.idx <= m.maxLong)
      BY <1>0
    <2>3. o.op = 3 => C(a, b, c, d)
      BY <1>1, <2>1, <2>2, Zenon
    <2>4. o.op = 3 => r.refs = a /\ r.long = b /\ r.maxLong = c /\ d /\ C(r.refs, r.long, r.maxLong, TRUE)
      BY <1>2, <2>2, <2>3
    <2> QED
      BY <2>1, <2>2, <2>4, Zenon
  <1>6. o.op = 4 => /\ r.refs = {s \in m.refs : m.long[s] <= o.idx - 1} /\ r.long = m.long /\ r.maxLong = o.idx - 1
                   /\ m.legal /\ C(r.refs, r.long, r.maxLong, TRUE)
    <2>1. PICK a, b, c : a = {s \in m.refs : m.long[s] <= o.idx - 1} /\ b = m.long /\ c = o.idx - 1
      BY Zenon
    <2>2. PICK d \in BOOLEAN : d = (m.legal)
      BY <1>0
    <2>3. o.op = 4 => C(a, b, c, d)
      BY <1>1, <2>1, <2>2, Zenon
    <2>4. o.op = 4 => r.refs = a /\ r.long = b /\ r.maxLong = c /\ d /\ C(r.refs, r.long, r.maxLong, TRUE)
      BY <1>2, <2>2, <2>3
    <2> QED
      BY <2>1, <2>2, <2>4, Zenon
  <1>7. o.op = 6 => /\ r.refs = m.refs /\ r.long = [m.long EXCEPT ![cur] = o.idx] /\ r.maxLong = m.maxLong
                   /\ m.legal /\ Holder(m, o) = {} /\ C(r.refs, r.long, r.maxLong, TRUE)
    <2>1. PICK a, b, c : a = m.refs /\ b = [m.long EXCEPT ![cur] = o.idx] /\ c = m.maxLong
      BY Zenon
    <2>2. PICK d \in BOOLEAN : d = (m.legal /\ Holder(m, o) = {} /\ o.idx <= m.maxLong)
      BY <1>0
    <2>3. o.op = 6 => C(a, b, c, d)
      BY <1>1, <2>1, <2>2, Zenon
    <2>4. o.op = 6 => r.refs = a /\ r.long = b /\ r.maxLong = c /\ d /\ C(r.refs, r.long, r.maxLong, TRUE)
      BY <1>2, <2>2, <2>3
    <2> QED
      BY <2>1, <2>2, <2>4, Zenon
  <1>8. r = Mark(r.refs, r.long, r.maxLong, TRUE) /\ m.legal
    <2>1. C(r.refs, r.long, r.maxLong, TRUE) /\ m.legal
      BY <1>0, <1>3, <1>4, <1>5, <1>6, <1>7
    <2> QED
      BY <2>1 DEF C
  <1> QED
    BY <1>3, <1>4, <1>5, <1>6, <1>7, <1>8, Zenon DEF SlotsDone

\* What an operation has done to the numbers.
NumbersDone(k, o, q) ==
  /\ o.op = 1 => q.short = k.short \ {nRef - o.d} /\ q.long = k.long /\ q.own = k.own
  /\ o.op = 2 => q.short = k.short /\ q.long = Marking!Without(k.long, {o.idx}) /\ q.own = k.own
  /\ o.op = 3 => q.short = k.short \ {nRef - o.d} /\ q.long = Marking!WithIndex(k.long, o.idx, nRef - o.d) /\ q.own = k.own
  /\ o.op = 4 => q.short = k.short /\ q.long = Marking!Without(k.long, {i \in DOMAIN k.long : i >= o.idx}) /\ q.own = k.own
  /\ o.op = 6 => q.short = k.short /\ q.long = Marking!WithIndex(k.long, o.idx, nRef) /\ q.own = FALSE
  /\ q = [short |-> q.short, long |-> q.long, own |-> q.own]

\* An operation of RefMarking has done so.
LEMMA PerformedAs ==
  ASSUME NEW m, NEW k, Same(m, k), NEW o, o.op \in {1, 2, 3, 4, 6}, NEW q, q = Marking!Perform(k, o)
  PROVE  NumbersDone(k, o, q)
  <1>0. k = Numbers(k.short, k.long, k.own)
    BY Zenon DEF Same, Numbers
  <1>1. o.op = 1 => /\ q.short = k.short \ {nRef - o.d} /\ q.long = k.long /\ q.own = k.own
                   /\ q = [short |-> q.short, long |-> q.long, own |-> q.own]
    <2>1. PICK a, b, c : a = k.short \ {nRef - o.d} /\ b = k.long /\ c = k.own
      BY Zenon
    <2>2. o.op = 1 => q = Numbers(k.short \ {nRef - o.d}, k.long, k.own)
      BY <1>0, PerformIs
    <2>3. o.op = 1 => q = Numbers(a, b, c)
      BY <2>1, <2>2, Zenon
    <2>4. o.op = 1 => q.short = a /\ q.long = b /\ q.own = c /\ q = [short |-> q.short, long |-> q.long, own |-> q.own]
      BY <2>3, NumbersIs
    <2> QED
      BY <2>1, <2>4, Zenon
  <1>2. o.op = 2 => /\ q.short = k.short /\ q.long = Marking!Without(k.long, {o.idx}) /\ q.own = k.own
                   /\ q = [short |-> q.short, long |-> q.long, own |-> q.own]
    <2>1. PICK a, b, c : a = k.short /\ b = Marking!Without(k.long, {o.idx}) /\ c = k.own
      BY Zenon
    <2>2. o.op = 2 => q = Numbers(k.short, Marking!Without(k.long, {o.idx}), k.own)
      BY <1>0, PerformIs
    <2>3. o.op = 2 => q = Numbers(a, b, c)
      BY <2>1, <2>2, Zenon
    <2>4. o.op = 2 => q.short = a /\ q.long = b /\ q.own = c /\ q = [short |-> q.short, long |-> q.long, own |-> q.own]
      BY <2>3, NumbersIs
    <2> QED
      BY <2>1, <2>4, Zenon
  <1>3. o.op = 3 => /\ q.short = k.short \ {nRef - o.d} /\ q.long = Marking!WithIndex(k.long, o.idx, nRef - o.d) /\ q.own = k.own
                   /\ q = [short |-> q.short, long |-> q.long, own |-> q.own]
    <2>1. PICK a, b, c : a = k.short \ {nRef - o.d} /\ b = Marking!WithIndex(k.long, o.idx, nRef - o.d) /\ c = k.own
      BY Zenon
    <2>2. o.op = 3 => q = Numbers(k.short \ {nRef - o.d}, Marking!WithIndex(k.long, o.idx, nRef - o.d), k.own)
      BY <1>0, PerformIs
    <2>3. o.op = 3 => q = Numbers(a, b, c)
      BY <2>1, <2>2, Zenon
    <2>4. o.op = 3 => q.short = a /\ q.long = b /\ q.own = c /\ q = [short |-> q.short, long |-> q.long, own |-> q.own]
      BY <2>3, NumbersIs
    <2> QED
      BY <2>1, <2>4, Zenon
  <1>4. o.op = 4 => /\ q.short = k.short /\ q.long = Marking!Without(k.long, {i \in DOMAIN k.long : i >= o.idx}) /\ q.own = k.own
                   /\ q = [short |-> q.short, long |-> q.long, own |-> q.own]
    <2>1. PICK a, b, c : a = k.short /\ b = Marking!Without(k.long, {i \in DOMAIN k.long : i >= o.idx}) /\ c = k.own
      BY Zenon
    <2>2. o.op = 4 => q = Numbers(k.short, Marking!Without(k.long, {i \in DOMAIN k.long : i >= o.idx}), k.own)
      BY <1>0, PerformIs
    <2>3. o.op = 4 => q = Numbers(a, b, c)
      BY <2>1, <2>2, Zenon
    <2>4. o.op = 4 => q.short = a /\ q.long = b /\ q.own = c /\ q = [short |-> q.short, long |-> q.long, own |-> q.own]
      BY <2>3, NumbersIs
    <2> QED
      BY <2>1, <2>4, Zenon
  <1>5. o.op = 6 => /\ q.short = k.short /\ q.long = Marking!WithIndex(k.long, o.idx, nRef) /\ q.own = FALSE
                   /\ q = [short |-> q.short, long |-> q.long, own |-> q.own]
    <2>1. PICK a, b, c : a = k.short /\ b = Marking!WithIndex(k.long, o.idx, nRef) /\ c = FALSE
      BY Zenon
    <2>2. o.op = 6 => q = Numbers(k.short, Marking!WithIndex(k.long, o.idx, nRef), FALSE)
      BY <1>0, PerformIs
    <2>3. o.op = 6 => q = Numbers(a, b, c)
      BY <2>1, <2>2, Zenon
    <2>4. o.op = 6 => q.short = a /\ q.long = b /\ q.own = c /\ q = [short |-> q.short, long |-> q.long, own |-> q.own]
      BY <2>3, NumbersIs
    <2> QED
      BY <2>1, <2>4, Zenon
  <1> QED
    BY <1>1, <1>2, <1>3, <1>4, <1>5, Zenon DEF NumbersDone

\* Marks from their parts.
LEMMA MarksIn ==
  ASSUME NEW r, r = Mark(r.refs, r.long, r.maxLong, TRUE), r.refs \subseteq inDpb,
         r.long \in [Slots -> Short .. MaxLong], r.maxLong \in Short .. MaxLong
  PROVE  r \in Marks
  <1>1. PICK a, b, c : a = r.refs /\ b = r.long /\ c = r.maxLong
    OBVIOUS
  <1>2. r = Mark(a, b, c, TRUE)
    BY <1>1, Zenon
  <1>3. Mark(a, b, c, TRUE) \in Marks
    BY <1>1 DEF Mark, Marks
  <1> QED
    BY <1>2, <1>3, Zenon

\* The two markings as long as the picture being decoded has no index.
Open(m, k) == Kept(m) /\ Same(m, k) /\ m.long[cur] = Short

\* Operation 1: a short-term picture is no reference any more.
ShortEnd(m, k, r, q, o) ==
  /\ r = Mark(r.refs, r.long, r.maxLong, TRUE) /\ q = [short |-> q.short, long |-> q.long, own |-> q.own]
  /\ r.refs = m.refs \ Named(m, o) /\ r.long = m.long /\ r.maxLong = m.maxLong
  /\ q.short = k.short \ {nRef - o.d} /\ q.long = k.long /\ q.own = k.own

\* A short-term reference ends: the markings stay the same.
LEMMA FirstKeeps ==
  ASSUME Refers, NEW m, NEW k, Open(m, k), NEW r, NEW q, NEW o, o.d \in Nat, ShortEnd(m, k, r, q, o)
  PROVE  Kept(r) /\ Same(r, q) /\ r.long[cur] = Short
  <1> USE DEF ShortEnd, Open
  <1> DEFINE N == {s \in m.refs : m.long[s] = Short /\ pic[s].n = nRef - o.d}
  <1>1. r.refs = m.refs \ N
    BY NamedIs
  <1>2. LongOf(r) = LongOf(m) /\ ShortOf(r) \ {cur} = (ShortOf(m) \ {cur}) \ N
    BY <1>1 DEF LongOf, ShortOf
  <1>3. r.refs \subseteq m.refs
    BY <1>1
  <1>4. \A s \in ShortOf(m) \ {cur} : s \in N <=> pic[s].n = nRef - o.d
    BY DEF ShortOf
  <1> HIDE DEF N
  <1>5. Kept(r)
    <2>1. m.refs \subseteq inDpb /\ m.long \in [Slots -> Short .. MaxLong] /\ m.maxLong \in Short .. MaxLong
      BY MarksAre
    <2>2. r \in Marks
      <3>1. r.refs \subseteq inDpb /\ r.long \in [Slots -> Short .. MaxLong] /\ r.maxLong \in Short .. MaxLong
        BY <1>3, <2>1
      <3> QED
        BY <3>1, MarksIn
    <2>3. ASSUME NEW s \in LongOf(r), NEW t \in LongOf(r), r.long[s] = r.long[t] PROVE s = t
      <3>1. s \in LongOf(m) /\ t \in LongOf(m) /\ m.long[s] = m.long[t]
        BY <1>2, <2>3
      <3> QED
        BY <3>1 DEF Kept
    <2>4. ASSUME NEW s \in r.refs, r.long[s] = Short PROVE pic[s].long = Short
      BY <1>3, <2>4 DEF Kept
    <2> QED
      BY <2>2, <2>3, <2>4 DEF Kept
  <1>6. q.short = {pic[s].n : s \in ShortOf(r) \ {cur}}
    <2>1. k.short = {pic[s].n : s \in ShortOf(m) \ {cur}}
      BY DEF Same
    <2>2. PICK d : d = nRef - o.d
      OBVIOUS
    <2>3. q.short = k.short \ {d} /\ \A s \in ShortOf(m) \ {cur} : s \in N <=> pic[s].n = d
      BY <1>4, <2>2
    <2> QED
      BY <1>2, <2>1, <2>3
  <1>7. {r.long[s] : s \in LongOf(r)} = {m.long[s] : s \in LongOf(m)}
    BY <1>2
  <1>8. q.long = [i \in {r.long[s] : s \in LongOf(r)} |-> q.long[i]]
    BY <1>7 DEF Same
  <1>9. ASSUME NEW s \in LongOf(r) PROVE q.long[r.long[s]] = pic[s].n
    BY <1>2 DEF Same
  <1>10. q.own = (r.long[cur] = Short)
    BY DEF Same
  <1> QED
    BY <1>5, <1>6, <1>8, <1>9, <1>10 DEF Same

\* Operations 2 and 4: the pictures with an index of D are no references any more.
LongEnd(m, k, r, q, D) ==
  /\ r = Mark(r.refs, r.long, r.maxLong, TRUE) /\ q = [short |-> q.short, long |-> q.long, own |-> q.own]
  /\ r.refs = {s \in m.refs : m.long[s] \notin D} /\ r.long = m.long /\ r.maxLong \in Short .. MaxLong
  /\ q.short = k.short /\ q.long = Marking!Without(k.long, D) /\ q.own = k.own

\* The long-term references with the indices of D end.
LEMMA LongEndKeeps ==
  ASSUME Refers, NEW m, NEW k, Open(m, k), NEW r, NEW q, NEW D, Short \notin D, LongEnd(m, k, r, q, D)
  PROVE  Kept(r) /\ Same(r, q) /\ r.long[cur] = Short
  <1> USE DEF LongEnd, Open
  <1>1. LongOf(r) = {s \in LongOf(m) : m.long[s] \notin D} /\ ShortOf(r) = ShortOf(m)
    BY DEF LongOf, ShortOf
  <1>2. r.refs \subseteq m.refs /\ LongOf(r) \subseteq LongOf(m)
    BY <1>1
  <1>3. Kept(r)
    <2>1. m.refs \subseteq inDpb /\ m.long \in [Slots -> Short .. MaxLong]
      BY MarksAre
    <2>2. r \in Marks
      <3>1. r.refs \subseteq inDpb /\ r.long \in [Slots -> Short .. MaxLong]
        BY <1>2, <2>1
      <3> QED
        BY <3>1, MarksIn
    <2>3. ASSUME NEW s \in LongOf(r), NEW t \in LongOf(r), r.long[s] = r.long[t] PROVE s = t
      <3>1. s \in LongOf(m) /\ t \in LongOf(m) /\ m.long[s] = m.long[t]
        BY <1>2, <2>3
      <3> QED
        BY <3>1 DEF Kept
    <2>4. ASSUME NEW s \in r.refs, r.long[s] = Short PROVE pic[s].long = Short
      BY <1>2, <2>4 DEF Kept
    <2> QED
      BY <2>2, <2>3, <2>4 DEF Kept
  <1>4. q.short = {pic[s].n : s \in ShortOf(r) \ {cur}}
    BY <1>1 DEF Same
  <1>5. k.long = [i \in {m.long[s] : s \in LongOf(m)} |-> k.long[i]]
    BY DEF Same
  <1>6. {r.long[s] : s \in LongOf(r)} = DOMAIN k.long \ D
    <2>1. DOMAIN k.long = {m.long[s] : s \in LongOf(m)}
      BY <1>5, Zenon
    <2> QED
      BY <1>1, <2>1
  <1>7. q.long = [i \in DOMAIN k.long \ D |-> k.long[i]]
    BY DEF Marking!Without
  <1>8. q.long = [i \in {r.long[s] : s \in LongOf(r)} |-> q.long[i]]
    <2>1. PICK I, g : I = DOMAIN k.long \ D /\ g = k.long
      OBVIOUS
    <2>2. q.long = [i \in I |-> g[i]]
      BY <1>7, <2>1
    <2>3. q.long = [i \in I |-> q.long[i]]
      BY <2>2
    <2> QED
      BY <1>6, <2>1, <2>3
  <1>9. ASSUME NEW s \in LongOf(r) PROVE q.long[r.long[s]] = pic[s].n
    <2>1. r.long[s] \in DOMAIN k.long \ D /\ k.long[m.long[s]] = pic[s].n
      BY <1>2, <1>6 DEF Same
    <2> QED
      BY <1>7, <2>1
  <1>10. q.own = (r.long[cur] = Short)
    BY DEF Same
  <1> QED
    BY <1>3, <1>4, <1>8, <1>9, <1>10 DEF Same

\* Without x, its number is missing.
LEMMA NumbersLess ==
  ASSUME NEW P, NEW U, NEW x, \A s \in U : P[s].n = P[x].n => s = x
  PROVE  {P[s].n : s \in U} \ {P[x].n} = {P[s].n : s \in U \ {x}}
  OBVIOUS

\* Operations 3 and 6: picture x takes index idx, and a reference that had it is none any more.
LongBegin(m, k, r, q, x, idx) ==
  /\ r = Mark(r.refs, r.long, r.maxLong, TRUE) /\ q = [short |-> q.short, long |-> q.long, own |-> q.own]
  /\ r.refs = {s \in m.refs : m.long[s] # idx} /\ r.long = [m.long EXCEPT ![x] = idx] /\ r.maxLong = m.maxLong
  /\ q.short = k.short \ {pic[x].n} /\ q.long = Marking!WithIndex(k.long, idx, pic[x].n)
  /\ q.own = (r.long[cur] = Short)

\* x becomes a long-term reference.
LEMMA LongBeginKeeps ==
  ASSUME Refers, NEW m, NEW k, Open(m, k), NEW r, NEW q, NEW x \in m.refs \cup {cur}, m.long[x] = Short,
         NEW idx \in 0 .. MaxLong, LongBegin(m, k, r, q, x, idx)
  PROVE  Kept(r) /\ Same(r, q)
  <1> USE DEF LongBegin, Open
  <1>0. /\ m.refs \subseteq inDpb /\ m.long \in [Slots -> Short .. MaxLong] /\ m.maxLong \in Short .. MaxLong
        /\ inDpb \subseteq Slots /\ cur \in Slots /\ cur \notin inDpb /\ pic[cur].n = nRef /\ nRef \in Nat
    BY MarksAre
  <1>1. idx # Short
    BY DEF Short
  <1>2. r.long[x] = idx /\ \A s \in (m.refs \cup {cur}) \ {x} : r.long[s] = m.long[s]
    BY <1>0
  <1>3. r.refs \subseteq m.refs /\ x \in r.refs \cup {cur}
    BY <1>1
  <1>4. LongOf(r) = {s \in LongOf(m) : m.long[s] # idx} \cup {x} /\ x \notin LongOf(m)
        /\ ShortOf(r) \ {cur} = (ShortOf(m) \ {cur}) \ {x}
    BY <1>1, <1>2, <1>3 DEF LongOf, ShortOf
  <1>5. LongOf(m) \subseteq m.refs \cup {cur}
    BY DEF LongOf
  <1>6. Kept(r)
    <2>1. r \in Marks
      <3>1. r.refs \subseteq inDpb /\ r.long \in [Slots -> Short .. MaxLong]
        BY <1>0, <1>3, SizeAssumption DEF Short
      <3> QED
        BY <1>0, <3>1, MarksIn
    <2>2. ASSUME NEW s \in LongOf(r), NEW t \in LongOf(r), r.long[s] = r.long[t] PROVE s = t
      <3>1. \A a, b \in LongOf(m) : m.long[a] = m.long[b] => a = b
        BY DEF Kept
      <3>2. \A a \in LongOf(r) \ {x} : a \in LongOf(m) /\ r.long[a] = m.long[a] /\ m.long[a] # idx
        BY <1>2, <1>4, <1>5
      <3>3. CASE s = x /\ t # x
        <4>1. r.long[s] = idx /\ r.long[t] # idx
          BY <1>2, <3>2, <3>3, Zenon
        <4> QED
          BY <2>2, <4>1, Zenon
      <3>4. CASE s # x /\ t = x
        <4>1. r.long[t] = idx /\ r.long[s] # idx
          BY <1>2, <3>2, <3>4, Zenon
        <4> QED
          BY <2>2, <4>1, Zenon
      <3>5. CASE s # x /\ t # x
        <4>1. s \in LongOf(m) /\ t \in LongOf(m) /\ m.long[s] = m.long[t]
          BY <2>2, <3>2, <3>5
        <4> QED
          BY <3>1, <4>1, Zenon
      <3> QED
        BY <3>3, <3>4, <3>5
    <2>3. ASSUME NEW s \in r.refs, r.long[s] = Short PROVE pic[s].long = Short
      <3>1. s \in m.refs /\ m.long[s] = Short
        BY <1>1, <1>2, <1>3, <2>3
      <3> QED
        BY <3>1 DEF Kept
    <2> QED
      BY <2>1, <2>2, <2>3 DEF Kept
  <1>7. q.short = {pic[s].n : s \in ShortOf(r) \ {cur}}
    <2>1. k.short = {pic[s].n : s \in ShortOf(m) \ {cur}}
      BY DEF Same
    <2>2. \A s \in ShortOf(m) \ {cur} : pic[s].n = pic[x].n => s = x
      <3>1. \A s \in ShortOf(m) \ {cur} : s \in inDpb
        BY <1>0 DEF ShortOf
      <3>2. \A s, t \in inDpb : pic[s].n = pic[t].n => s = t
        BY DEF Refers, DpbInv, Referenced
      <3>3. \A s \in inDpb : pic[s].n < nRef /\ pic[s].n \in Nat
        BY ReferenceIs DEF Refers
      <3> QED
        BY <1>0, <3>1, <3>2, <3>3
    <2>3. ShortOf(r) \ {cur} = (ShortOf(m) \ {cur}) \ {x}
      BY <1>4
    <2>4. {pic[s].n : s \in ShortOf(m) \ {cur}} \ {pic[x].n} = {pic[s].n : s \in (ShortOf(m) \ {cur}) \ {x}}
      BY <2>2, NumbersLess
    <2> QED
      BY <2>1, <2>3, <2>4, Zenon
  <1>8. k.long = [i \in {m.long[s] : s \in LongOf(m)} |-> k.long[i]] /\ \A s \in LongOf(m) : k.long[m.long[s]] = pic[s].n
    BY DEF Same
  <1>9. {r.long[s] : s \in LongOf(r)} = DOMAIN k.long \cup {idx}
    <2>1. DOMAIN k.long = {m.long[s] : s \in LongOf(m)}
      BY <1>8, Zenon
    <2>2. \A s \in LongOf(r) \ {x} : r.long[s] = m.long[s]
      BY <1>2, <1>4, <1>5
    <2>3. \A s \in LongOf(m) : m.long[s] = idx \/ (s \in LongOf(r) /\ r.long[s] = m.long[s])
      BY <1>2, <1>4, <1>5
    <2>4. x \in LongOf(r) /\ r.long[x] = idx
      BY <1>2, <1>4
    <2>5. \A s \in LongOf(r) : r.long[s] \in DOMAIN k.long \cup {idx}
      BY <1>4, <2>1, <2>2, <2>4
    <2>6. \A i \in DOMAIN k.long \cup {idx} : \E s \in LongOf(r) : i = r.long[s]
      <3>1. ASSUME NEW i \in DOMAIN k.long PROVE \E s \in LongOf(r) : i = r.long[s]
        <4>1. PICK s \in LongOf(m) : i = m.long[s]
          BY <2>1, <3>1
        <4>2. CASE i = idx
          BY <2>4, <4>2
        <4>3. CASE i # idx
          BY <2>3, <4>1, <4>3
        <4> QED
          BY <4>2, <4>3
      <3> QED
        BY <2>4, <3>1
    <2> DEFINE I == DOMAIN k.long \cup {idx}
    <2> HIDE DEF I
    <2>7. (\A s \in LongOf(r) : r.long[s] \in I) /\ \A i \in I : \E s \in LongOf(r) : i = r.long[s]
      BY <2>5, <2>6 DEF I
    <2>8. {r.long[s] : s \in LongOf(r)} = I
      <3>1. PICK f, S : f = r.long /\ S = LongOf(r)
        OBVIOUS
      <3>2. (\A s \in S : f[s] \in I) /\ \A i \in I : \E s \in S : i = f[s]
        BY <2>7, <3>1, Zenon
      <3>3. {f[s] : s \in S} = I
        BY <3>2
      <3> QED
        BY <3>1, <3>3, Zenon
    <2> QED
      BY <2>8 DEF I
  <1>10. PICK n : n = pic[x].n
    OBVIOUS
  <1>11. q.long = [j \in DOMAIN k.long \cup {idx} |-> IF j = idx THEN n ELSE k.long[j]]
    BY <1>10 DEF Marking!WithIndex
  <1>12. q.long = [i \in {r.long[s] : s \in LongOf(r)} |-> q.long[i]]
    <2>1. PICK I, g : I = DOMAIN k.long \cup {idx} /\ g = k.long
      OBVIOUS
    <2>2. q.long = [i \in I |-> IF i = idx THEN n ELSE g[i]]
      BY <1>11, <2>1
    <2>3. q.long = [i \in I |-> q.long[i]]
      BY <2>2
    <2> QED
      BY <1>9, <2>1, <2>3
  <1>13. ASSUME NEW s \in LongOf(r) PROVE q.long[r.long[s]] = pic[s].n
    <2>1. r.long[s] \in DOMAIN k.long \cup {idx}
      BY <1>9
    <2>2. CASE s = x
      BY <1>2, <1>10, <1>11, <2>1, <2>2
    <2>3. CASE s # x
      <3>1. s \in LongOf(m) /\ r.long[s] = m.long[s] /\ m.long[s] # idx
        BY <1>2, <1>4, <1>5, <2>3
      <3>2. PICK i, g, I : i = r.long[s] /\ g = k.long /\ I = DOMAIN k.long \cup {idx}
        OBVIOUS
      <3>3. q.long = [j \in I |-> IF j = idx THEN n ELSE g[j]] /\ i \in I /\ i # idx
        BY <1>11, <2>1, <3>1, <3>2
      <3>4. q.long[i] = g[i]
        BY <3>3
      <3>5. g[i] = pic[s].n
        BY <1>8, <3>1, <3>2
      <3> QED
        BY <3>2, <3>4, <3>5
    <2> QED
      BY <2>2, <2>3
  <1> QED
    BY <1>6, <1>7, <1>12, <1>13 DEF Same

\* One operation keeps the two markings the same.
LEMMA OperationKeeps ==
  ASSUME Refers, NEW m, NEW k, Open(m, k), NEW o \in Marking!Mmco,
         NEW r, r = ApplyMmco(m, o), r.legal, NEW q, q = Marking!Perform(k, o)
  PROVE  m.legal /\ Kept(r) /\ Same(r, q) /\ (o.op # 6 => r.long[cur] = Short)
  <1>1. o.op \in {1, 2, 3, 4, 6}
    BY OperationsAre
  <1>2. m \in Marks
    BY DEF Kept, Open
  <1>3. SlotsDone(m, o, r)
    BY <1>2, LegalIs
  <1>4. NumbersDone(k, o, q)
    <2>1. Same(m, k)
      BY DEF Open
    <2> QED
      BY <1>1, <2>1, PerformedAs
  <1>5. /\ Kept(m) /\ Same(m, k) /\ m.long[cur] = Short /\ m.legal
        /\ r = Mark(r.refs, r.long, r.maxLong, TRUE) /\ q = [short |-> q.short, long |-> q.long, own |-> q.own]
    BY <1>3, <1>4, Zenon DEF Open, SlotsDone, NumbersDone
  <1>6. /\ m.refs \subseteq inDpb /\ m.long \in [Slots -> Short .. MaxLong] /\ m.maxLong \in Short .. MaxLong
        /\ inDpb \subseteq Slots /\ cur \in Slots /\ cur \notin inDpb /\ pic[cur].n = nRef /\ nRef \in Nat
    BY <1>5, MarksAre
  <1>7. o.idx \in 0 .. MaxLong + 1 /\ (o.op # 4 => o.idx \in 0 .. MaxLong) /\ (o.op \in {1, 3} => o.d \in 1 .. MaxFrameNum)
        /\ MaxLong \in Nat /\ MaxFrameNum \in Nat
    BY OperationsAre, SizeAssumption
  <1>8. CASE o.op = 1
    <2>1. r.refs = m.refs \ Named(m, o) /\ r.long = m.long /\ r.maxLong = m.maxLong
      BY <1>3, <1>8, Zenon DEF SlotsDone
    <2>2. q.short = k.short \ {nRef - o.d} /\ q.long = k.long /\ q.own = k.own
      BY <1>4, <1>8, Zenon DEF NumbersDone
    <2>3. o.d \in Nat
      BY <1>7, <1>8
    <2>4. ShortEnd(m, k, r, q, o)
      BY <1>5, <2>1, <2>2, Zenon DEF ShortEnd
    <2> QED
      BY <1>5, <2>3, <2>4, FirstKeeps
  <1>9. CASE o.op = 2
    <2> DEFINE D == {o.idx}
    <2>1. r.refs = m.refs \ Holder(m, o) /\ r.long = m.long /\ r.maxLong = m.maxLong
      BY <1>3, <1>9, Zenon DEF SlotsDone
    <2>2. q.short = k.short /\ q.long = Marking!Without(k.long, D) /\ q.own = k.own
      BY <1>4, <1>9, Zenon DEF NumbersDone
    <2>3. Holder(m, o) = {s \in m.refs : m.long[s] = o.idx}
      BY <1>5, <1>7, <1>9, HolderIs
    <2>4. r.refs = {s \in m.refs : m.long[s] \notin D} /\ Short \notin D
      BY <1>7, <1>9, <2>1, <2>3 DEF Short
    <2> HIDE DEF D
    <2>5. r.maxLong \in Short .. MaxLong
      BY <1>6, <2>1
    <2>6. LongEnd(m, k, r, q, D)
      BY <1>5, <2>1, <2>2, <2>4, <2>5, Zenon DEF LongEnd
    <2> QED
      BY <1>5, <2>4, <2>6, LongEndKeeps
  <1>10. CASE o.op = 3
    <2>1. /\ r.refs = m.refs \ Holder(m, o) /\ r.maxLong = m.maxLong /\ Named(m, o) # {}
          /\ r.long = [s \in Slots |-> IF s \in Named(m, o) THEN o.idx ELSE m.long[s]]
      BY <1>3, <1>10, Zenon DEF SlotsDone
    <2>2. q.short = k.short \ {nRef - o.d} /\ q.long = Marking!WithIndex(k.long, o.idx, nRef - o.d) /\ q.own = k.own
      BY <1>4, <1>10, Zenon DEF NumbersDone
    <2>3. Named(m, o) = {s \in m.refs : m.long[s] = Short /\ pic[s].n = nRef - o.d}
      BY <1>5, <1>7, <1>10, NamedIs
    <2>4. PICK x \in m.refs : x \in Named(m, o) /\ m.long[x] = Short /\ pic[x].n = nRef - o.d
      BY <2>1, <2>3
    <2>5. \A s \in Named(m, o) : s = x
      <3>1. \A s, t \in inDpb : pic[s].n = pic[t].n => s = t
        BY DEF Refers, DpbInv, Referenced
      <3> QED
        BY <1>6, <2>3, <2>4, <3>1
    <2>6. r.long = [m.long EXCEPT ![x] = o.idx]
      BY <1>6, <2>1, <2>4, <2>5
    <2>7. Holder(m, o) = {s \in m.refs : m.long[s] = o.idx}
      BY <1>5, <1>7, <1>10, HolderIs
    <2>8. r.refs = {s \in m.refs : m.long[s] # o.idx}
      BY <2>1, <2>7
    <2>9. r.long[cur] = Short
      BY <1>5, <1>6, <2>6
    <2>10. q.own = (r.long[cur] = Short)
      BY <1>5, <2>2, <2>9 DEF Same
    <2>11. q.short = k.short \ {pic[x].n} /\ q.long = Marking!WithIndex(k.long, o.idx, pic[x].n)
      BY <2>2, <2>4, Zenon
    <2>12. PICK idx \in 0 .. MaxLong : idx = o.idx
      BY <1>7, <1>10
    <2>13. Kept(r) /\ Same(r, q)
      <3>1. LongBegin(m, k, r, q, x, idx)
        BY <1>5, <2>1, <2>6, <2>8, <2>10, <2>11, <2>12, Zenon DEF LongBegin
      <3> QED
        BY <2>4, <3>1, LongBeginKeeps
    <2> QED
      BY <1>5, <2>9, <2>13
  <1>11. CASE o.op = 4
    <2> DEFINE D == {i \in DOMAIN k.long : i >= o.idx}
    <2>1. r.refs = {s \in m.refs : m.long[s] <= o.idx - 1} /\ r.long = m.long /\ r.maxLong = o.idx - 1
      BY <1>3, <1>11, Zenon DEF SlotsDone
    <2>2. q.short = k.short /\ q.long = Marking!Without(k.long, D) /\ q.own = k.own
      BY <1>4, <1>11, Zenon DEF NumbersDone
    <2>3. Short \notin D /\ r.maxLong \in Short .. MaxLong
      BY <1>7, <2>1 DEF Short
    <2>4. \A s \in m.refs : m.long[s] <= o.idx - 1 <=> m.long[s] \notin D
      <3>1. ASSUME NEW s \in m.refs PROVE m.long[s] <= o.idx - 1 <=> m.long[s] \notin D
        <4>1. m.long[s] \in Short .. MaxLong
          BY <1>6
        <4>2. CASE m.long[s] = Short
          BY <1>7, <2>3, <4>2 DEF Short
        <4>3. CASE m.long[s] # Short
          <5>1. s \in LongOf(m)
            BY <4>3 DEF LongOf
          <5>2. m.long[s] \in DOMAIN k.long
            BY <1>5, <5>1, Zenon DEF Same
          <5> QED
            BY <1>7, <4>1, <5>2 DEF Short
        <4> QED
          BY <4>2, <4>3
      <3> QED
        BY <3>1
    <2> HIDE DEF D
    <2>5. r.refs = {s \in m.refs : m.long[s] \notin D}
      BY <2>1, <2>4
    <2>6. LongEnd(m, k, r, q, D)
      BY <1>5, <2>1, <2>2, <2>3, <2>5, Zenon DEF LongEnd
    <2> QED
      BY <1>5, <2>3, <2>6, LongEndKeeps
  <1>12. CASE o.op = 6
    <2>1. /\ r.refs = m.refs /\ r.maxLong = m.maxLong /\ Holder(m, o) = {}
          /\ r.long = [m.long EXCEPT ![cur] = o.idx]
      BY <1>3, <1>12, Zenon DEF SlotsDone
    <2>2. q.short = k.short /\ q.long = Marking!WithIndex(k.long, o.idx, pic[cur].n) /\ q.own = FALSE
      BY <1>4, <1>6, <1>12, Zenon DEF NumbersDone
    <2>3. Holder(m, o) = {s \in m.refs : m.long[s] = o.idx}
      BY <1>5, <1>7, <1>12, HolderIs
    <2>4. r.refs = {s \in m.refs : m.long[s] # o.idx}
      BY <2>1, <2>3
    <2>5. r.long[cur] = o.idx
      BY <1>6, <2>1
    <2>6. q.own = (r.long[cur] = Short)
      <3>1. r.long[cur] # Short
        BY <1>7, <1>12, <2>5 DEF Short
      <3> QED
        BY <2>2, <3>1
    <2>7. q.short = k.short \ {pic[cur].n}
      <3>1. k.short = {pic[s].n : s \in ShortOf(m) \ {cur}}
        BY <1>5 DEF Same
      <3>2. ShortOf(m) \ {cur} \subseteq inDpb
        BY <1>6 DEF ShortOf
      <3>3. \A s \in inDpb : pic[s].n < nRef /\ pic[s].n \in Nat
        BY ReferenceIs DEF Refers
      <3>4. nRef \notin k.short
        BY <1>6, <3>1, <3>2, <3>3
      <3> QED
        BY <1>6, <2>2, <3>4
    <2>8. PICK idx \in 0 .. MaxLong : idx = o.idx
      BY <1>7, <1>12
    <2>9. LongBegin(m, k, r, q, cur, idx)
      BY <1>5, <2>1, <2>2, <2>4, <2>6, <2>7, <2>8, Zenon DEF LongBegin
    <2>10. Kept(r) /\ Same(r, q)
      BY <1>5, <2>9, LongBeginKeeps
    <2> QED
      BY <1>5, <1>12, <2>10
  <1> QED
    BY <1>1, <1>8, <1>9, <1>10, <1>11, <1>12

\* Whatever is asked, the result is a marking of the references.
LEMMA MarksStay ==
  ASSUME NEW m \in Marks, NEW o \in Marking!Mmco
  PROVE  ApplyMmco(m, o) \in Marks
  <1> DEFINE T(a, b, c) == a \subseteq inDpb /\ b \in [Slots -> Short .. MaxLong] /\ c \in Short .. MaxLong
  <1>1. o.op \in {1, 2, 3, 4, 6} /\ o.idx \in 0 .. MaxLong + 1 /\ (o.op # 4 => o.idx \in 0 .. MaxLong) /\ MaxLong \in Nat
    BY OperationsAre, SizeAssumption
  <1>2. T(m.refs, m.long, m.maxLong)
    BY DEF Marks
  <1>3. ASSUME NEW a, NEW b, NEW c, T(a, b, c), NEW d \in BOOLEAN PROVE Mark(a, b, c, d) \in Marks
    BY <1>3 DEF Mark, Marks
  <1>0. m.legal \in BOOLEAN
    BY DEF Marks
  <1>4. PICK r : r = ApplyMmco(m, o)
    OBVIOUS
  <1>5. CASE o.op = 1
    <2>1. T(m.refs \ Named(m, o), m.long, m.maxLong)
      BY <1>1, <1>2, <1>5
    <2>2. PICK a, b, c : a = m.refs \ Named(m, o) /\ b = m.long /\ c = m.maxLong
      BY Zenon
    <2>3. PICK d \in BOOLEAN : d = (m.legal /\ Named(m, o) # {})
      BY <1>0
    <2>4. r = Mark(m.refs \ Named(m, o), m.long, m.maxLong, m.legal /\ Named(m, o) # {})
      BY <1>4, <1>5, Applied
    <2>5. r = Mark(a, b, c, d)
      BY <2>2, <2>3, <2>4, Zenon
    <2>6. T(a, b, c)
      BY <2>1, <2>2, Zenon
    <2>7. Mark(a, b, c, d) \in Marks
      BY <1>3, <2>6
    <2> QED
      BY <1>4, <2>5, <2>7, Zenon
  <1>6. CASE o.op = 2
    <2>1. T(m.refs \ Holder(m, o), m.long, m.maxLong)
      BY <1>1, <1>2, <1>6
    <2>2. PICK a, b, c : a = m.refs \ Holder(m, o) /\ b = m.long /\ c = m.maxLong
      BY Zenon
    <2>3. PICK d \in BOOLEAN : d = (m.legal /\ Holder(m, o) # {})
      BY <1>0
    <2>4. r = Mark(m.refs \ Holder(m, o), m.long, m.maxLong, m.legal /\ Holder(m, o) # {})
      BY <1>4, <1>6, Applied
    <2>5. r = Mark(a, b, c, d)
      BY <2>2, <2>3, <2>4, Zenon
    <2>6. T(a, b, c)
      BY <2>1, <2>2, Zenon
    <2>7. Mark(a, b, c, d) \in Marks
      BY <1>3, <2>6
    <2> QED
      BY <1>4, <2>5, <2>7, Zenon
  <1>7. CASE o.op = 3
    <2>1. T(m.refs \ Holder(m, o), [s \in Slots |-> IF s \in Named(m, o) THEN o.idx ELSE m.long[s]], m.maxLong)
      BY <1>1, <1>2, <1>7 DEF Short
    <2>2. PICK a, b, c : a = m.refs \ Holder(m, o) /\ b = [s \in Slots |-> IF s \in Named(m, o) THEN o.idx ELSE m.long[s]] /\ c = m.maxLong
      BY Zenon
    <2>3. PICK d \in BOOLEAN : d = (m.legal /\ Named(m, o) # {} /\ o.idx <= m.maxLong)
      BY <1>0
    <2>4. r = Mark(m.refs \ Holder(m, o), [s \in Slots |-> IF s \in Named(m, o) THEN o.idx ELSE m.long[s]], m.maxLong, m.legal /\ Named(m, o) # {} /\ o.idx <= m.maxLong)
      BY <1>4, <1>7, Applied
    <2>5. r = Mark(a, b, c, d)
      BY <2>2, <2>3, <2>4, Zenon
    <2>6. T(a, b, c)
      BY <2>1, <2>2, Zenon
    <2>7. Mark(a, b, c, d) \in Marks
      BY <1>3, <2>6
    <2> QED
      BY <1>4, <2>5, <2>7, Zenon
  <1>8. CASE o.op = 4
    <2>1. T({s \in m.refs : m.long[s] <= o.idx - 1}, m.long, o.idx - 1)
      BY <1>1, <1>2, <1>8 DEF Short
    <2>2. PICK a, b, c : a = {s \in m.refs : m.long[s] <= o.idx - 1} /\ b = m.long /\ c = o.idx - 1
      BY Zenon
    <2>3. PICK d \in BOOLEAN : d = (m.legal)
      BY <1>0
    <2>4. r = Mark({s \in m.refs : m.long[s] <= o.idx - 1}, m.long, o.idx - 1, m.legal)
      BY <1>4, <1>8, Applied
    <2>5. r = Mark(a, b, c, d)
      BY <2>2, <2>3, <2>4, Zenon
    <2>6. T(a, b, c)
      BY <2>1, <2>2, Zenon
    <2>7. Mark(a, b, c, d) \in Marks
      BY <1>3, <2>6
    <2> QED
      BY <1>4, <2>5, <2>7, Zenon
  <1>9. CASE o.op = 6
    <2>1. T(m.refs, [m.long EXCEPT ![cur] = o.idx], m.maxLong)
      <3>1. PICK v \in Short .. MaxLong : v = o.idx
        BY <1>1, <1>9 DEF Short
      <3>2. PICK g \in [Slots -> Short .. MaxLong] : g = m.long
        BY <1>2
      <3>3. [g EXCEPT ![cur] = v] \in [Slots -> Short .. MaxLong]
        OBVIOUS
      <3>4. [m.long EXCEPT ![cur] = o.idx] \in [Slots -> Short .. MaxLong]
        BY <3>1, <3>2, <3>3, Zenon
      <3> QED
        BY <1>2, <3>4
    <2>2. PICK a, b, c : a = m.refs /\ b = [m.long EXCEPT ![cur] = o.idx] /\ c = m.maxLong
      BY Zenon
    <2>3. PICK d \in BOOLEAN : d = (m.legal /\ Holder(m, o) = {} /\ o.idx <= m.maxLong)
      BY <1>0
    <2>4. r = Mark(m.refs, [m.long EXCEPT ![cur] = o.idx], m.maxLong, m.legal /\ Holder(m, o) = {} /\ o.idx <= m.maxLong)
      BY <1>4, <1>9, Applied
    <2>5. r = Mark(a, b, c, d)
      BY <2>2, <2>3, <2>4, Zenon
    <2>6. T(a, b, c)
      BY <2>1, <2>2, Zenon
    <2>7. Mark(a, b, c, d) \in Marks
      BY <1>3, <2>6
    <2> QED
      BY <1>4, <2>5, <2>7, Zenon
  <1> QED
    BY <1>1, <1>5, <1>6, <1>7, <1>8, <1>9

\* RefMarking performs the operations of a picture one after another.
LEMMA PerformedFrom ==
  ASSUME NEW ops \in Seq(Marking!Mmco)
  PROVE  \E f : /\ f[0] = Marking!Unmarked
                /\ \A i \in 1 .. Len(ops) : f[i] = Marking!Perform(f[i - 1], ops[i])
                /\ Marking!Performed(ops) = f[Len(ops)]
  <1> DEFINE F(k, f) == f = [i \in 0 .. k |-> IF i = 0 THEN Marking!Unmarked ELSE Marking!Perform(f[i - 1], ops[i])]
             after == CHOOSE f : F(Len(ops), f)
  <1>1. ASSUME NEW k \in Nat PROVE \E f : F(k, f)
    <2> DEFINE S == {m \in Nat : ~ \E f : F(m, f)}
    <2>1. ASSUME S # {} PROVE FALSE
      <3>1. PICK m \in S : \A j \in S : m <= j
        <4> HIDE DEF F
        <4>1. S \in SUBSET Nat
          OBVIOUS
        <4> HIDE DEF S
        <4> QED
          BY <2>1, <4>1, LeastNat
      <3>2. m \in Nat /\ ~ \E f : F(m, f)
        OBVIOUS
      <3>3. CASE m = 0
        <4>1. F(0, [i \in 0 .. 0 |-> Marking!Unmarked])
          OBVIOUS
        <4> QED
          BY <3>2, <3>3, <4>1, Zenon
      <3>4. CASE m # 0
        <4>1. m - 1 \in Nat /\ m - 1 \notin S
          <5> HIDE DEF S, F
          <5> QED
            BY <3>1, <3>2, <3>4
        <4>2. PICK f : F(m - 1, f)
          <5> HIDE DEF F
          <5> QED
            BY <4>1
        <4> DEFINE g == [i \in 0 .. m |-> IF i < m THEN f[i] ELSE Marking!Perform(f[m - 1], ops[m])]
        <4>3. ASSUME NEW i \in 0 .. m
              PROVE  g[i] = IF i = 0 THEN Marking!Unmarked ELSE Marking!Perform(g[i - 1], ops[i])
          <5>1. CASE i = 0
            BY <3>2, <3>4, <4>1, <4>2, <5>1
          <5>2. CASE i # 0 /\ i < m
            <6>1. i \in 0 .. m - 1 /\ i - 1 \in 0 .. m /\ i - 1 < m
              BY <3>2, <5>2
            <6>2. g[i] = f[i] /\ g[i - 1] = f[i - 1]
              BY <6>1, <5>2
            <6>3. f[i] = Marking!Perform(f[i - 1], ops[i])
              BY <4>2, <5>2, <6>1
            <6> QED
              BY <5>2, <6>2, <6>3
          <5>3. CASE i = m
            <6>1. m - 1 \in 0 .. m /\ m - 1 < m /\ ~ (m < m)
              BY <3>2, <4>1
            <6>2. g[m] = Marking!Perform(f[m - 1], ops[m]) /\ g[m - 1] = f[m - 1]
              BY <3>2, <6>1
            <6> QED
              BY <3>4, <5>3, <6>2
          <5> QED
            BY <3>2, <5>1, <5>2, <5>3
        <4>4. F(m, g)
          BY <4>3, Zenon
        <4> QED
          BY <3>2, <4>4
      <3> QED
        BY <3>3, <3>4
    <2> HIDE DEF F
    <2> QED
      BY <2>1
  <1>2. Len(ops) \in Nat
    OBVIOUS
  <1>3. F(Len(ops), after)
    <2> HIDE DEF F
    <2> QED
      BY <1>1, <1>2, Zenon
  <1>4. Marking!Performed(ops) = after[Len(ops)]
    BY DEF Marking!Performed
  <1> HIDE DEF after
  <1>5. after[0] = Marking!Unmarked /\ \A i \in 1 .. Len(ops) : after[i] = Marking!Perform(after[i - 1], ops[i])
    BY <1>2, <1>3
  <1> QED
    BY <1>4, <1>5, Zenon

\* What P says of the slots of L, by index.
Indexed(P, L) == [i \in {P[s].long : s \in L} |-> P[CHOOSE s \in L : P[s].long = i].n]

\* As an index has one picture, it is the function that has its number for each index.
LEMMA IndexedIs ==
  ASSUME NEW P, NEW L, \A s, t \in L : P[s].long = P[t].long => s = t
  PROVE  /\ Indexed(P, L) = [i \in {P[s].long : s \in L} |-> Indexed(P, L)[i]]
         /\ \A s \in L : Indexed(P, L)[P[s].long] = P[s].n
         /\ \A g : g = [i \in {P[s].long : s \in L} |-> g[i]] /\ (\A s \in L : g[P[s].long] = P[s].n)
                     => g = Indexed(P, L)
  <1> DEFINE I == {P[s].long : s \in L}
  <1>1. Indexed(P, L) = [i \in I |-> Indexed(P, L)[i]]
    BY DEF Indexed
  <1>2. ASSUME NEW s \in L PROVE Indexed(P, L)[P[s].long] = P[s].n
    <2> DEFINE i == P[s].long
               x == CHOOSE t \in L : P[t].long = i
    <2>1. x \in L /\ P[x].long = i
      BY Zenon
    <2>2. x = s
      BY <2>1
    <2>3. Indexed(P, L)[i] = P[x].n
      BY DEF Indexed
    <2> HIDE DEF x
    <2> QED
      BY <2>2, <2>3
  <1>3. ASSUME NEW g, g = [i \in I |-> g[i]], \A s \in L : g[P[s].long] = P[s].n
        PROVE  g = Indexed(P, L)
    <2>1. PICK f : f = Indexed(P, L)
      OBVIOUS
    <2>2. f = [i \in I |-> f[i]]
      BY <1>1, <2>1, Zenon
    <2>3. \A i \in I : f[i] = g[i]
      BY <1>2, <1>3, <2>1
    <2> HIDE DEF I
    <2>4. f = g
      BY <1>3, <2>2, <2>3
    <2> QED
      BY <2>1, <2>4, Zenon
  <1> QED
    BY <1>1, <1>2, <1>3, Zenon

\* The long-term references by index.
LEMMA LongNumbersAre ==
  ASSUME \A s, t \in LongTerm : pic[s].long = pic[t].long => s = t
  PROVE  /\ LongNumbers = [i \in {pic[s].long : s \in LongTerm} |-> LongNumbers[i]]
         /\ \A s \in LongTerm : LongNumbers[pic[s].long] = pic[s].n
  <1>1. LongNumbers = Indexed(pic, LongTerm)
    BY DEF LongNumbers, Indexed
  <1>2. /\ Indexed(pic, LongTerm) = [i \in {pic[s].long : s \in LongTerm} |-> Indexed(pic, LongTerm)[i]]
        /\ \A s \in LongTerm : Indexed(pic, LongTerm)[pic[s].long] = pic[s].n
    BY IndexedIs
  <1> QED
    BY <1>1, <1>2, Zenon

\* The markings a picture starts from are the same.
LEMMA MarkingStarts == Refers => Open(Unmarked, Marking!Unmarked)
  <1> SUFFICES ASSUME Refers PROVE Open(Unmarked, Marking!Unmarked)
    OBVIOUS
  <1>1. /\ inDpb \subseteq Slots /\ cur \in Slots /\ cur \notin inDpb /\ pic \in [Slots -> Pictures] /\ pic[cur].long = Short
        /\ maxLong \in Short .. MaxLong
    BY SlotsAre DEF Refers, DpbInv, TypeOK, Placed, Decoding
  <1>2. PICK m : m = Unmarked
    OBVIOUS
  <1>3. PICK k : k = Marking!Unmarked
    OBVIOUS
  <1>4. m = [refs |-> inDpb, long |-> Longs, maxLong |-> maxLong, legal |-> TRUE]
        /\ k = [short |-> ShortNumbers, long |-> LongNumbers, own |-> TRUE]
    BY <1>2, <1>3 DEF Unmarked, Marking!Unmarked
  <1>5. m.refs = inDpb /\ m.long = Longs /\ k.short = ShortNumbers /\ k.long = LongNumbers /\ k.own = TRUE
        /\ k = [short |-> k.short, long |-> k.long, own |-> k.own]
    BY <1>4
  <1>6. Longs \in [Slots -> Short .. MaxLong] /\ \A s \in Slots : Longs[s] = pic[s].long
    BY <1>1 DEF Longs, Pictures
  <1>7. m \in Marks
    BY <1>1, <1>4, <1>6 DEF Marks
  <1>8. LongOf(m) = LongTerm /\ ShortOf(m) \ {cur} = ShortTerm /\ m.long[cur] = Short
    BY <1>1, <1>5, <1>6 DEF LongOf, ShortOf, LongTerm, ShortTerm
  <1>9. LongTerm \subseteq Slots /\ ShortTerm \subseteq Slots
    BY <1>1 DEF LongTerm, ShortTerm
  <1>10. \A s, t \in LongTerm : pic[s].long = pic[t].long => s = t
    BY DEF Refers, DpbInv, Referenced
  <1>11. Kept(m)
    <2>1. ASSUME NEW s \in LongOf(m), NEW t \in LongOf(m), m.long[s] = m.long[t] PROVE s = t
      BY <1>5, <1>6, <1>8, <1>9, <1>10, <2>1
    <2>2. ASSUME NEW s \in m.refs, m.long[s] = Short PROVE pic[s].long = Short
      BY <1>1, <1>5, <1>6, <2>2
    <2> QED
      BY <1>7, <2>1, <2>2 DEF Kept
  <1>12. {m.long[s] : s \in LongOf(m)} = {pic[s].long : s \in LongTerm}
    BY <1>5, <1>6, <1>8, <1>9
  <1>13. k.long = [i \in {m.long[s] : s \in LongOf(m)} |-> k.long[i]]
    BY <1>5, <1>10, <1>12, LongNumbersAre, Zenon
  <1>14. ASSUME NEW s \in LongOf(m) PROVE k.long[m.long[s]] = pic[s].n
    BY <1>5, <1>6, <1>8, <1>9, <1>10, LongNumbersAre
  <1>15. k.short = {pic[s].n : s \in ShortOf(m) \ {cur}}
    BY <1>5, <1>8 DEF ShortNumbers
  <1>16. Same(m, k)
    BY <1>5, <1>8, <1>13, <1>14, <1>15 DEF Same
  <1> QED
    BY <1>2, <1>3, <1>8, <1>11, <1>16, Zenon DEF Open

\* All operations of a picture: the slots that are marked hold the pictures that are meant.
LEMMA MarkedTheSame ==
  ASSUME Refers, NEW ops \in Marking!MmcoLists, MarkedBy(ops).legal
  PROVE  Kept(MarkedBy(ops)) /\ Same(MarkedBy(ops), Marking!Performed(ops))
  <1>1. ops \in Seq(Marking!Mmco) /\ \A i \in 1 .. Len(ops) - 1 : ops[i].op # 6
    <2> DEFINE M == Marking!Mmco
    <2>1. ops \in UNION {[1 .. n -> M] : n \in 0 .. MaxMmco} /\ \A i \in 1 .. Len(ops) - 1 : ops[i].op # 6
      BY Zenon DEF Marking!MmcoLists, Marking!SeqOf
    <2> HIDE DEF M
    <2>2. PICK n \in 0 .. MaxMmco : ops \in [1 .. n -> M]
      BY <2>1
    <2>3. ops \in Seq(M)
      BY <2>2, SizeAssumption
    <2> QED
      BY <2>1, <2>3 DEF M
  <1>2. PICK f : f[0] = Unmarked /\ (\A i \in 1 .. Len(ops) : f[i] = ApplyMmco(f[i - 1], ops[i])) /\ MarkedBy(ops) = f[Len(ops)]
    BY <1>1, MarkedIs
  <1>3. PICK g : /\ g[0] = Marking!Unmarked /\ (\A i \in 1 .. Len(ops) : g[i] = Marking!Perform(g[i - 1], ops[i]))
                 /\ Marking!Performed(ops) = g[Len(ops)]
    BY <1>1, PerformedFrom
  <1>4. Len(ops) \in Nat /\ \A i \in 1 .. Len(ops) : ops[i] \in Marking!Mmco
    BY <1>1
  <1> DEFINE P(i) == f[i] \in Marks /\ (f[i].legal => Kept(f[i]) /\ Same(f[i], g[i]) /\ (i < Len(ops) => f[i].long[cur] = Short))
             S == {i \in 0 .. Len(ops) : ~P(i)}
  <1>5. S = {}
    <2> SUFFICES ASSUME S # {} PROVE FALSE
      OBVIOUS
    <2>1. PICK i \in S : \A j \in S : i <= j
      <3>1. S \subseteq Nat
        OBVIOUS
      <3> HIDE DEF S
      <3> QED
        BY <3>1, LeastNat
    <2>2. i \in 0 .. Len(ops) /\ ~P(i)
      OBVIOUS
    <2>3. CASE i = 0
      <3>1. Open(f[0], g[0])
        BY <1>2, <1>3, MarkingStarts, Zenon
      <3>2. P(0)
        BY <3>1 DEF Open, Kept
      <3> HIDE DEF P
      <3> QED
        BY <2>2, <2>3, <3>2
    <2>4. CASE i # 0
      <3>1. i - 1 \in 0 .. Len(ops) /\ i - 1 \notin S
        <4> HIDE DEF P
        <4>1. i - 1 \in 0 .. Len(ops) /\ ~ (i <= i - 1)
          BY <1>4, <2>2, <2>4
        <4> HIDE DEF S
        <4> QED
          BY <2>1, <4>1
      <3>2. P(i - 1)
        <4> HIDE DEF P
        <4> QED
          BY <3>1
      <3>3. PICK m, k, o, r, q : m = f[i - 1] /\ k = g[i - 1] /\ o = ops[i] /\ r = f[i] /\ q = g[i]
        OBVIOUS
      <3>4. i \in 1 .. Len(ops) /\ i - 1 < Len(ops) /\ (i < Len(ops) => i \in 1 .. Len(ops) - 1)
        BY <1>4, <2>2, <2>4
      <3>5. r = ApplyMmco(m, o) /\ q = Marking!Perform(k, o) /\ o \in Marking!Mmco /\ (i < Len(ops) => o.op # 6)
        BY <1>1, <1>2, <1>3, <1>4, <3>3, <3>4
      <3>6. m \in Marks /\ (m.legal => Kept(m) /\ Same(m, k) /\ m.long[cur] = Short)
        BY <3>2, <3>3, <3>4
      <3>7. r \in Marks
        BY <3>5, <3>6, MarksStay
      <3>8. ASSUME r.legal PROVE Kept(r) /\ Same(r, q) /\ (i < Len(ops) => r.long[cur] = Short)
        <4>1. SlotsDone(m, o, r)
          BY <3>5, <3>6, <3>8, LegalIs
        <4>2. m.legal
          BY <4>1 DEF SlotsDone
        <4>3. Open(m, k)
          BY <3>6, <4>2 DEF Open
        <4>4. Kept(r) /\ Same(r, q) /\ (o.op # 6 => r.long[cur] = Short)
          BY <3>5, <3>8, <4>3, OperationKeeps
        <4> QED
          BY <3>5, <4>4
      <3>9. P(i)
        BY <3>3, <3>7, <3>8
      <3> HIDE DEF P
      <3> QED
        BY <2>2, <3>9
    <2> QED
      BY <2>3, <2>4
  <1>6. P(Len(ops))
    <2>1. Len(ops) \in 0 .. Len(ops)
      BY <1>4
    <2> HIDE DEF P
    <2> QED
      BY <1>5, <2>1
  <1> QED
    BY <1>2, <1>3, <1>6

----------------------------------------------------------------------------
(* The end of a picture *)

\* A picture that gets another index stays the picture it was.
LEMMA RenamedIs ==
  ASSUME NEW p \in Pictures, NEW v \in Short .. MaxLong, NEW r, r = [p EXCEPT !.long = v]
  PROVE  r \in Pictures /\ r.long = v /\ r.n = p.n /\ r.frameNum = p.frameNum /\ r.poc = p.poc /\ r.old = p.old
         /\ r.isRef = p.isRef
  BY DEF Pictures

\* The references after a picture are some of those before and the picture; what they hold is what they
\* held, long-term indices apart.
Ended ==
  /\ cur # NoSlot /\ cur' = NoSlot /\ atIdr' = FALSE /\ UNCHANGED <<waiting, shown, running, sent, lastPoc>>
  /\ pic' \in [Slots -> Pictures] /\ maxLong' \in Short .. MaxLong
  /\ inDpb' \subseteq inDpb \cup {cur} /\ Cardinality(inDpb') <= MaxRef
  /\ \A s \in inDpb' \cup waiting :
       /\ pic'[s].n = pic[s].n /\ pic'[s].frameNum = pic[s].frameNum
       /\ pic'[s].poc = pic[s].poc /\ pic'[s].old = pic[s].old
  /\ \A s, t \in inDpb' : pic'[s].long # Short /\ pic'[s].long = pic'[t].long => s = t
  /\ (nRef' = nRef /\ nRef > 0 /\ cur \notin inDpb') \/ nRef' = nRef + 1

\* Such an end keeps the invariant.
LEMMA EndedKeeps ==
  ASSUME DpbInv, Ended
  PROVE  DpbInv'
  <1> USE DEF Ended
  <1>1. TypeOK /\ MaxPoc \in Nat /\ nRef \in Nat /\ MaxRef \in Nat
    BY SizeAssumption DEF DpbInv, TypeOK
  <1>2. /\ cur \in Slots /\ cur \in waiting /\ cur \notin inDpb /\ pic[cur].n = nRef
        /\ pic[cur].frameNum = nRef % MaxFrameNum /\ inDpb \subseteq Slots
    BY <1>1 DEF DpbInv, TypeOK, Placed, Decoding
  <1>3. nRef + 1 <= Cardinality(sent) /\ Cardinality(sent) \in Nat /\ Cardinality(sent) <= MaxPoc + 1
    BY <1>1, SentSize DEF DpbInv, Counted
  <1>4. nRef' \in 0 .. MaxPoc + 1 /\ nRef' > 0
    BY <1>1, <1>3
  <1>5. TypeOK'
    <2>1. inDpb' \subseteq Slots
      BY <1>2
    <2> QED
      BY <1>1, <1>4, <2>1 DEF TypeOK
  <1>6. Placed' /\ Decoding'
    BY <1>4 DEF Placed, Decoding
  <1>7. Referenced'
    <2>1. \A s \in inDpb' : s = cur \/ (s \in inDpb /\ pic[s].n \in Nat /\ pic[s].n < nRef /\ pic[s].frameNum = pic[s].n % MaxFrameNum)
      BY ReferenceIs DEF DpbInv, Referenced
    <2>2. ASSUME NEW s \in inDpb' PROVE pic'[s].n < nRef' /\ pic'[s].frameNum = pic'[s].n % MaxFrameNum
      <3>1. pic'[s].n = pic[s].n /\ pic'[s].frameNum = pic[s].frameNum
        OBVIOUS
      <3>2. CASE s = cur
        BY <1>1, <1>2, <3>1, <3>2
      <3>3. CASE s # cur
        <4>1. pic[s].n \in Nat /\ pic[s].n < nRef /\ pic[s].frameNum = pic[s].n % MaxFrameNum
          BY <2>1, <3>3
        <4>2. pic[s].n < nRef'
          BY <1>1, <4>1
        <4> QED
          BY <3>1, <4>1, <4>2, Zenon
      <3> QED
        BY <3>2, <3>3
    <2>3. ASSUME NEW s \in inDpb', NEW t \in inDpb', pic'[s].n = pic'[t].n PROVE s = t
      <3>1. pic[s].n = pic[t].n
        BY <2>3
      <3>2. \A a, b \in inDpb : pic[a].n = pic[b].n => a = b
        BY DEF DpbInv, Referenced
      <3>3. CASE s = cur /\ t # cur
        <4>1. pic[t].n < nRef /\ pic[t].n \in Nat
          BY <2>1, <3>3
        <4> QED
          BY <1>1, <1>2, <3>1, <3>3, <4>1
      <3>4. CASE s # cur /\ t = cur
        <4>1. pic[s].n < nRef /\ pic[s].n \in Nat
          BY <2>1, <3>4
        <4> QED
          BY <1>1, <1>2, <3>1, <3>4, <4>1
      <3>5. CASE s # cur /\ t # cur
        <4>1. s \in inDpb /\ t \in inDpb
          BY <2>1, <3>5
        <4> QED
          BY <3>1, <3>2, <4>1
      <3> QED
        BY <3>3, <3>4, <3>5
    <2>4. \A s, t \in LongTerm' : pic'[s].long = pic'[t].long => s = t
      BY DEF LongTerm
    <2> QED
      BY <2>2, <2>3, <2>4 DEF Referenced
  <1>8. Counted'
    BY <1>1, <1>3 DEF Counted
  <1>9. Held'
    <2>1. \A s \in waiting : pic'[s].old = pic[s].old /\ pic'[s].poc = pic[s].poc
      OBVIOUS
    <2>2. \A s \in waiting : ~pic'[s].old /\ pic'[s].poc \in sent /\ pic'[s].poc > lastPoc
      BY <2>1 DEF DpbInv, Held
    <2>3. \A s, t \in waiting : pic'[s].poc = pic'[t].poc => s = t
      BY <2>1 DEF DpbInv, Held
    <2> QED
      BY <2>2, <2>3 DEF Held
  <1>10. Behind'
    BY DEF DpbInv, Behind
  <1> QED
    BY <1>5, <1>6, <1>7, <1>8, <1>9, <1>10 DEF DpbInv

\* The sliding window gives up the oldest short-term reference.
LEMMA VictimIs ==
  ASSUME Refers, ShortTerm # {}
  PROVE  \E x \in ShortTerm : Victim = {x} /\ \A t \in ShortTerm : pic[x].n <= pic[t].n
  <1> DEFINE fn == pic[cur].frameNum
             V == {s \in ShortTerm : \A t \in ShortTerm : PicNum(s, fn) <= PicNum(t, fn)}
             W == {s \in ShortTerm : \A t \in ShortTerm : pic[s].n <= pic[t].n}
  <1>1. \A s \in ShortTerm : s \in inDpb /\ pic[s].n \in Nat /\ nRef \in Nat /\ s \in Nat
    <2>1. ShortTerm \subseteq inDpb /\ Slots \subseteq Nat
      BY SlotsAre DEF ShortTerm, Slots
    <2> QED
      BY <2>1, ReferenceIs DEF Refers
  <1>2. \A s \in ShortTerm : PicNum(s, fn) = fn - (nRef - pic[s].n) /\ fn \in Int
    BY PicNumIs
  <1>3. V = W
    BY <1>1, <1>2
  <1>4. V # {}
    <2> DEFINE N == {pic[s].n : s \in ShortTerm}
    <2>1. N \subseteq Nat /\ N # {}
      BY <1>1
    <2>2. PICK n \in N : \A k \in N : n <= k
      <3> HIDE DEF N
      <3> QED
        BY <2>1, LeastNat
    <2>3. PICK s \in ShortTerm : n = pic[s].n
      BY <2>2
    <2>4. \A t \in ShortTerm : pic[s].n <= pic[t].n
      BY <2>2, <2>3
    <2>5. s \in W
      BY <2>4
    <2> QED
      BY <1>3, <2>5
  <1>5. V \subseteq Nat
    BY <1>1
  <1>6. Victim = FirstOf(V)
    BY Zenon DEF Victim
  <1> HIDE DEF V
  <1>7. PICK x \in V : FirstOf(V) = {x}
    BY <1>4, <1>5, FirstIs
  <1> QED
    BY <1>3, <1>6, <1>7

\* What the sliding window leaves.
Slid ==
  /\ pic' \in [Slots -> Pictures] /\ maxLong' = maxLong /\ cur \in inDpb' /\ \A s \in inDpb' \cup waiting : pic'[s] = pic[s]
  /\ \/ Cardinality(inDpb) < MaxRef /\ inDpb' = inDpb \cup {cur}
     \/ /\ ~ (Cardinality(inDpb) < MaxRef)
        /\ \E x \in ShortTerm : (\A t \in ShortTerm : pic[x].n <= pic[t].n) /\ inDpb' = (inDpb \ {x}) \cup {cur}

\* sliding_window leaves that.
LEMMA SlidingIs ==
  ASSUME Refers, SlidingWindow
  PROVE  Slid
  <1>1. cur \in Slots /\ inDpb \subseteq Slots /\ waiting \subseteq Slots /\ pic \in [Slots -> Pictures]
    BY SlotsAre DEF Refers, DpbInv, TypeOK
  <1>2. pic' = Forget(pic, inDpb' \cup waiting) /\ maxLong' = maxLong /\ cur \in inDpb' /\ inDpb' \subseteq inDpb \cup {cur}
    BY DEF SlidingWindow
  <1>3. pic' \in [Slots -> Pictures] /\ \A s \in inDpb' \cup waiting : pic'[s] = pic[s]
    <2>1. inDpb' \cup waiting \subseteq Slots
      BY <1>1, <1>2
    <2> QED
      BY <1>1, <1>2, <2>1, ForgetKeeps
  <1>4. CASE Cardinality(inDpb) < MaxRef
    BY <1>2, <1>3, <1>4 DEF Slid, SlidingWindow
  <1>5. CASE ~ (Cardinality(inDpb) < MaxRef)
    <2>1. ShortTerm # {} /\ inDpb' = (inDpb \ Victim) \cup {cur}
      BY <1>5 DEF SlidingWindow
    <2>2. PICK x \in ShortTerm : Victim = {x} /\ \A t \in ShortTerm : pic[x].n <= pic[t].n
      BY <2>1, VictimIs
    <2>3. inDpb' = (inDpb \ {x}) \cup {cur}
      BY <2>1, <2>2
    <2> QED
      BY <1>2, <1>3, <1>5, <2>2, <2>3 DEF Slid
  <1> QED
    BY <1>4, <1>5

\* What the operations of a picture leave.
Adapted(m) ==
  /\ Kept(m) /\ Cardinality(m.refs) < MaxRef /\ inDpb' = m.refs \cup {cur} /\ maxLong' = m.maxLong
  /\ pic' \in [Slots -> Pictures]
  /\ \A s \in inDpb' \cup waiting :
       /\ pic'[s].long = m.long[s] /\ pic'[s].n = pic[s].n /\ pic'[s].frameNum = pic[s].frameNum
       /\ pic'[s].poc = pic[s].poc /\ pic'[s].old = pic[s].old

\* apply_mmco leaves that, and the numbers RefMarking has.
LEMMA AdaptedIs ==
  ASSUME Refers, NEW ops \in Marking!MmcoLists, AdaptiveMarking(ops)
  PROVE  Adapted(MarkedBy(ops)) /\ Same(MarkedBy(ops), Marking!Performed(ops))
  <1>1. cur \in Slots /\ inDpb \subseteq Slots /\ waiting \subseteq Slots /\ pic \in [Slots -> Pictures]
    BY SlotsAre DEF Refers, DpbInv, TypeOK
  <1>2. PICK m : m = MarkedBy(ops)
    OBVIOUS
  <1>3. m.legal /\ Cardinality(m.refs) < MaxRef /\ inDpb' = m.refs \cup {cur} /\ maxLong' = m.maxLong
        /\ pic' = Forget([s \in Slots |-> [pic[s] EXCEPT !.long = m.long[s]]], inDpb' \cup waiting)
    BY <1>2, Zenon DEF AdaptiveMarking
  <1>4. Kept(m) /\ Same(m, Marking!Performed(ops))
    BY <1>2, <1>3, MarkedTheSame
  <1>5. m.refs \subseteq inDpb /\ m.long \in [Slots -> Short .. MaxLong]
    BY <1>4, MarksAre
  <1> DEFINE p == [s \in Slots |-> [pic[s] EXCEPT !.long = m.long[s]]]
  <1>6. ASSUME NEW s \in Slots
        PROVE  /\ p[s] \in Pictures /\ p[s].long = m.long[s] /\ p[s].n = pic[s].n /\ p[s].frameNum = pic[s].frameNum
               /\ p[s].poc = pic[s].poc /\ p[s].old = pic[s].old
    <2>1. PICK r, v : r = p[s] /\ v = m.long[s]
      OBVIOUS
    <2>2. r = [pic[s] EXCEPT !.long = v] /\ v \in Short .. MaxLong /\ pic[s] \in Pictures
      BY <1>1, <1>5, <2>1
    <2>3. r \in Pictures /\ r.long = v /\ r.n = pic[s].n /\ r.frameNum = pic[s].frameNum /\ r.poc = pic[s].poc /\ r.old = pic[s].old
      BY <2>2, RenamedIs
    <2> HIDE DEF p
    <2> QED
      BY <2>1, <2>3, Zenon
  <1>7. p \in [Slots -> Pictures]
    BY <1>6
  <1> HIDE DEF p
  <1>8. inDpb' \cup waiting \subseteq Slots /\ pic' = Forget(p, inDpb' \cup waiting)
    BY <1>1, <1>3, <1>5 DEF p
  <1>9. pic' \in [Slots -> Pictures] /\ \A s \in inDpb' \cup waiting : pic'[s] = p[s]
    BY <1>7, <1>8, ForgetKeeps
  <1>10. ASSUME NEW s \in inDpb' \cup waiting
         PROVE  /\ pic'[s].long = m.long[s] /\ pic'[s].n = pic[s].n /\ pic'[s].frameNum = pic[s].frameNum
                /\ pic'[s].poc = pic[s].poc /\ pic'[s].old = pic[s].old
    <2>1. s \in Slots /\ pic'[s] = p[s]
      BY <1>8, <1>9
    <2> QED
      BY <1>6, <2>1, Zenon
  <1>11. Adapted(m)
    BY <1>3, <1>4, <1>9, <1>10, Zenon DEF Adapted
  <1> QED
    BY <1>2, <1>4, <1>11, Zenon

\* What the marking of an IDR picture leaves: itself.
LEMMA IdrIs ==
  ASSUME DpbInv, cur # NoSlot, atIdr, IdrMarking
  PROVE  /\ inDpb = {} /\ nRef = 0 /\ inDpb' = {cur} /\ pic' \in [Slots -> Pictures] /\ maxLong' \in Short .. MaxLong
         /\ \A s \in Slots : /\ pic'[s].n = pic[s].n /\ pic'[s].frameNum = pic[s].frameNum
                             /\ pic'[s].poc = pic[s].poc /\ pic'[s].old = pic[s].old
         /\ pic[cur].n = 0 /\ pic'[cur].long \in {Short, 0} /\ cur \in Slots
  <1>1. /\ cur \in Slots /\ pic \in [Slots -> Pictures] /\ maxLong \in Short .. MaxLong /\ inDpb = {} /\ nRef = 0
        /\ pic[cur].n = 0 /\ pic[cur].long = Short
    BY SlotsAre DEF DpbInv, TypeOK, Decoding
  <1>2. inDpb' = {cur}
    BY <1>1 DEF IdrMarking
  <1>3. CASE UNCHANGED <<pic, maxLong>>
    BY <1>1, <1>2, <1>3
  <1>4. CASE pic' = [pic EXCEPT ![cur].long = 0] /\ maxLong' = 0
    <2>1. PICK r : r = [pic[cur] EXCEPT !.long = 0]
      OBVIOUS
    <2>2. pic[cur] \in Pictures /\ 0 \in Short .. MaxLong
      BY <1>1, SizeAssumption DEF Short
    <2>3. r \in Pictures /\ r.long = 0 /\ r.n = pic[cur].n /\ r.frameNum = pic[cur].frameNum /\ r.poc = pic[cur].poc
          /\ r.old = pic[cur].old
      BY <2>1, <2>2, RenamedIs
    <2>4. pic' = [pic EXCEPT ![cur] = r]
      BY <1>4, <2>1
    <2>5. pic' \in [Slots -> Pictures] /\ pic'[cur] = r /\ \A s \in Slots \ {cur} : pic'[s] = pic[s]
      BY <1>1, <2>3, <2>4
    <2>6. ASSUME NEW s \in Slots
          PROVE  /\ pic'[s].n = pic[s].n /\ pic'[s].frameNum = pic[s].frameNum
                 /\ pic'[s].poc = pic[s].poc /\ pic'[s].old = pic[s].old
      BY <2>3, <2>5
    <2> QED
      BY <1>1, <1>2, <1>4, <2>2, <2>3, <2>5, <2>6
  <1> QED
    BY <1>3, <1>4 DEF IdrMarking

\* Every picture ends with a set of references that keeps the invariant.
LEMMA FrameEnds ==
  ASSUME DpbInv, EndFrame
  PROVE  Ended
  <1>1. /\ cur # NoSlot /\ cur' = NoSlot /\ atIdr' = FALSE /\ UNCHANGED <<waiting, shown, running, sent, lastPoc>>
    BY DEF EndFrame
  <1>2. /\ cur \in Slots /\ cur \in waiting /\ cur \notin inDpb /\ inDpb \subseteq Slots /\ pic \in [Slots -> Pictures]
        /\ maxLong \in Short .. MaxLong /\ pic[cur].n = nRef /\ pic[cur].long = Short /\ Cardinality(inDpb) <= MaxRef
        /\ nRef \in 0 .. MaxPoc + 1
    BY <1>1, SlotsAre DEF DpbInv, TypeOK, Placed, Decoding, Referenced
  <1>3. IsFiniteSet(inDpb) /\ Cardinality(inDpb) \in Nat /\ MaxRef \in Nat /\ MaxRef > 0 /\ nRef \in Nat /\ MaxPoc \in Nat
    BY <1>2, FiniteSlots, SizeAssumption
  <1>4. CASE ~pic[cur].isRef
    <2>1. UNCHANGED <<pic, inDpb, maxLong, nRef>>
      BY <1>4 DEF EndFrame
    <2>2. ~atIdr /\ nRef > 0
      BY <1>1, <1>3, <1>4 DEF DpbInv, Decoding
    <2>3. \A s, t \in inDpb : pic[s].long # Short /\ pic[s].long = pic[t].long => s = t
      BY DEF DpbInv, Referenced, LongTerm
    <2>4. \A s, t \in inDpb' : pic'[s].long # Short /\ pic'[s].long = pic'[t].long => s = t
      BY <2>1, <2>3
    <2> QED
      BY <1>1, <1>2, <2>1, <2>2, <2>4 DEF Ended
  <1>5. CASE pic[cur].isRef /\ atIdr
    <2>1. IdrMarking /\ nRef' = nRef + 1
      BY <1>5 DEF EndFrame
    <2>2. /\ inDpb = {} /\ inDpb' = {cur} /\ pic' \in [Slots -> Pictures] /\ maxLong' \in Short .. MaxLong
          /\ \A s \in Slots : /\ pic'[s].n = pic[s].n /\ pic'[s].frameNum = pic[s].frameNum
                              /\ pic'[s].poc = pic[s].poc /\ pic'[s].old = pic[s].old
      BY <1>1, <1>5, <2>1, IdrIs
    <2>3. Cardinality(inDpb') = 1
      BY <2>2, FS_Singleton
    <2>4. waiting \subseteq Slots
      BY DEF DpbInv, TypeOK
    <2>5. Cardinality(inDpb') <= MaxRef
      BY <1>3, <2>3
    <2>6. \A s, t \in inDpb' : s = t
      BY <2>2
    <2>7. inDpb' \cup waiting \subseteq Slots /\ inDpb' \subseteq inDpb \cup {cur}
      BY <1>2, <2>2, <2>4
    <2>8. \A s \in inDpb' \cup waiting : /\ pic'[s].n = pic[s].n /\ pic'[s].frameNum = pic[s].frameNum
                                         /\ pic'[s].poc = pic[s].poc /\ pic'[s].old = pic[s].old
      BY <2>2, <2>7
    <2> QED
      BY <1>1, <2>1, <2>2, <2>5, <2>6, <2>7, <2>8 DEF Ended
  <1>6. CASE pic[cur].isRef /\ ~atIdr
    <2>1. Refers /\ nRef' = nRef + 1
      BY <1>1, <1>6 DEF EndFrame, Refers
    <2>2. CASE SlidingWindow
      <3>1. Slid
        BY <2>1, <2>2, SlidingIs
      <3>2. inDpb' \subseteq inDpb \cup {cur} /\ Cardinality(inDpb') <= MaxRef
        <4>1. CASE Cardinality(inDpb) < MaxRef /\ inDpb' = inDpb \cup {cur}
          <5>1. Cardinality(inDpb') = Cardinality(inDpb) + 1
            BY <1>2, <1>3, <4>1, FS_AddElement
          <5> QED
            BY <1>3, <4>1, <5>1
        <4>2. CASE \E x \in ShortTerm : inDpb' = (inDpb \ {x}) \cup {cur}
          <5>1. PICK x \in ShortTerm : inDpb' = (inDpb \ {x}) \cup {cur}
            BY <4>2
          <5>2. x \in inDpb
            BY DEF ShortTerm
          <5>3. IsFiniteSet(inDpb \ {x}) /\ Cardinality(inDpb \ {x}) = Cardinality(inDpb) - 1
            BY <1>3, <5>2, FS_RemoveElement
          <5>4. Cardinality(inDpb') = Cardinality(inDpb) - 1 + 1
            BY <1>2, <5>1, <5>3, FS_AddElement
          <5> QED
            BY <1>2, <1>3, <5>1, <5>4
        <4> QED
          BY <3>1, <4>1, <4>2 DEF Slid
      <3>3. pic' \in [Slots -> Pictures] /\ maxLong' = maxLong /\ \A s \in inDpb' \cup waiting : pic'[s] = pic[s]
        BY <3>1 DEF Slid
      <3>4. ASSUME NEW s \in inDpb', NEW t \in inDpb', pic'[s].long # Short, pic'[s].long = pic'[t].long PROVE s = t
        <4>1. pic[s].long # Short /\ pic[s].long = pic[t].long
          BY <3>3, <3>4
        <4>2. s \in LongTerm /\ t \in LongTerm
          BY <1>2, <3>2, <4>1 DEF LongTerm
        <4> QED
          BY <4>1, <4>2 DEF DpbInv, Referenced
      <3>5. \A s \in inDpb' \cup waiting : /\ pic'[s].n = pic[s].n /\ pic'[s].frameNum = pic[s].frameNum
                                           /\ pic'[s].poc = pic[s].poc /\ pic'[s].old = pic[s].old
        BY <3>3
      <3> QED
        BY <1>1, <1>2, <2>1, <3>2, <3>3, <3>4, <3>5 DEF Ended
    <2>3. CASE \E ops \in Marking!MmcoLists : AdaptiveMarking(ops)
      <3>1. PICK ops \in Marking!MmcoLists : AdaptiveMarking(ops)
        BY <2>3
      <3>2. PICK m : Adapted(m)
        BY <2>1, <3>1, AdaptedIs
      <3>3. /\ Kept(m) /\ Cardinality(m.refs) < MaxRef /\ inDpb' = m.refs \cup {cur} /\ maxLong' = m.maxLong
            /\ pic' \in [Slots -> Pictures] /\ \A s \in inDpb' : pic'[s].long = m.long[s]
        BY <3>2 DEF Adapted
      <3>4. m.refs \subseteq inDpb /\ m.maxLong \in Short .. MaxLong
        BY <2>1, <3>3, MarksAre
      <3>5. Cardinality(inDpb') <= MaxRef
        <4>1. IsFiniteSet(m.refs) /\ Cardinality(m.refs) \in Nat /\ cur \notin m.refs
          BY <1>2, <1>3, <3>4, FS_Subset, FS_CardinalityType
        <4>2. Cardinality(inDpb') = Cardinality(m.refs) + 1
          BY <3>3, <4>1, FS_AddElement
        <4> QED
          BY <1>3, <3>3, <4>1, <4>2
      <3>6. ASSUME NEW s \in inDpb', NEW t \in inDpb', pic'[s].long # Short, pic'[s].long = pic'[t].long PROVE s = t
        <4>1. s \in LongOf(m) /\ t \in LongOf(m) /\ m.long[s] = m.long[t]
          BY <3>3, <3>6 DEF LongOf
        <4> QED
          BY <3>3, <4>1 DEF Kept
      <3>7. \A s \in inDpb' \cup waiting : /\ pic'[s].n = pic[s].n /\ pic'[s].frameNum = pic[s].frameNum
                                           /\ pic'[s].poc = pic[s].poc /\ pic'[s].old = pic[s].old
        BY <3>2, Zenon DEF Adapted
      <3>8. inDpb' \subseteq inDpb \cup {cur} /\ maxLong' \in Short .. MaxLong
        BY <3>3, <3>4
      <3> QED
        BY <1>1, <2>1, <3>3, <3>5, <3>6, <3>7, <3>8 DEF Ended
    <2> QED
      BY <1>6, <2>2, <2>3 DEF EndFrame
  <1> QED
    BY <1>4, <1>5, <1>6

\* Every step keeps the invariant.
LEMMA DpbStep == DpbInv /\ [DpbNext]_dpbVars => DpbInv'
  <1> SUFFICES ASSUME DpbInv, [DpbNext]_dpbVars PROVE DpbInv'
    OBVIOUS
  <1>1. CASE BeginIdr
    BY <1>1, IdrTaken
  <1>2. ASSUME NEW isRef \in BOOLEAN, NEW poc \in 1 .. MaxPoc, BeginFrame(isRef, poc) PROVE DpbInv'
    BY <1>2, FrameTaken
  <1>3. CASE EndFrame
    BY <1>3, FrameEnds, EndedKeeps
  <1>4. CASE AbortFrame
    BY <1>4, FrameAborts
  <1>5. CASE ReachIdr
    BY <1>5, IdrReached
  <1>6. CASE Output
    BY <1>6, PictureLeaves
  <1>7. CASE OffScreen
    BY <1>7, PictureReturns
  <1>8. CASE UNCHANGED dpbVars
    <2>1. UNCHANGED <<pic, inDpb, waiting, shown, cur, maxLong, running, atIdr, nRef, sent, lastPoc>>
      BY <1>8 DEF dpbVars, gopVars
    <2>2. ShortTerm' = ShortTerm /\ LongTerm' = LongTerm
      BY <2>1 DEF ShortTerm, LongTerm
    <2> QED
      BY <2>1, <2>2 DEF DpbInv, TypeOK, Placed, Decoding, Referenced, Counted, Held, Behind
  <1> QED
    BY <1>1, <1>2, <1>3, <1>4, <1>5, <1>6, <1>7, <1>8 DEF DpbNext

\* Whatever the stream, there is a slot for every picture and pictures leave in display order.
THEOREM PicturesInOrderCorrect == DpbSpec => []PicturesInOrder
  <1>1. DpbSpec => []DpbInv
    BY DpbStart, DpbStep, PTL DEF DpbSpec
  <1> QED
    BY <1>1, SlotRemains, PTL

----------------------------------------------------------------------------
(* The references are the marking RefMarking asks for *)

\* As many numbers and indices as there are references.
LEMMA CountedAs ==
  ASSUME NEW P, NEW R, IsFiniteSet(R), \A s, t \in R : P[s].n = P[t].n => s = t,
         \A s, t \in R : P[s].long # Short /\ P[s].long = P[t].long => s = t
  PROVE  Cardinality({P[s].n : s \in {t \in R : P[t].long = Short}})
           + Cardinality({P[s].long : s \in {t \in R : P[t].long # Short}}) = Cardinality(R)
  <1> DEFINE A == {t \in R : P[t].long = Short}
             B == {t \in R : P[t].long # Short}
             N == {P[s].n : s \in A}
             I == {P[s].long : s \in B}
             f == [s \in A |-> P[s].n]
             g == [s \in B |-> P[s].long]
  <1>1. IsFiniteSet(A) /\ IsFiniteSet(B) /\ A \cap B = {} /\ A \cup B = R
    BY FS_Subset
  <1>2. f \in Bijection(A, N)
    BY DEF Bijection, Injection, Surjection, IsInjective
  <1>3. g \in Bijection(B, I)
    BY DEF Bijection, Injection, Surjection, IsInjective
  <1>4. Cardinality(N) = Cardinality(A)
    <2>1. ExistsBijection(A, N)
      BY <1>2, Zenon DEF ExistsBijection
    <2> HIDE DEF A, N
    <2> QED
      BY <1>1, <2>1, FS_Bijection
  <1>5. Cardinality(I) = Cardinality(B)
    <2>1. ExistsBijection(B, I)
      BY <1>3, Zenon DEF ExistsBijection
    <2> HIDE DEF B, I
    <2> QED
      BY <1>1, <2>1, FS_Bijection
  <1>6. Cardinality(A) + Cardinality(B) = Cardinality(R)
    <2> HIDE DEF A, B
    <2>1. Cardinality(A \cup B) = Cardinality(A) + Cardinality(B) - Cardinality(A \cap B)
      BY <1>1, FS_Union
    <2>2. Cardinality({}) = 0
      BY FS_EmptySet
    <2>3. Cardinality(A) \in Nat /\ Cardinality(B) \in Nat
      BY <1>1, FS_CardinalityType
    <2>4. Cardinality(A \cap B) = 0 /\ Cardinality(A \cup B) = Cardinality(R)
      BY <1>1, <2>2
    <2> QED
      BY <2>1, <2>3, <2>4
  <1> QED
    BY <1>4, <1>5, <1>6

\* The numbers before and after a step, from the pictures and the slots.
LEMMA NumbersAre ==
  /\ LongNumbers = Indexed(pic, LongTerm) /\ LongNumbers' = Indexed(pic', LongTerm')
  /\ ShortTerm' = {s \in inDpb' : pic'[s].long = Short} /\ LongTerm' = {s \in inDpb' : pic'[s].long # Short}
  /\ ShortNumbers' = {pic'[s].n : s \in ShortTerm'}
  <1>1. LongNumbers = Indexed(pic, LongTerm) /\ LongNumbers' = Indexed(pic', LongTerm')
    BY DEF LongNumbers, Indexed
  <1> QED
    BY <1>1 DEF ShortTerm, LongTerm, ShortNumbers

\* As long as the long-term references stay, so do their numbers.
LEMMA LongStays ==
  ASSUME DpbInv, LongTerm' = LongTerm, \A s \in LongTerm : pic'[s] = pic[s]
  PROVE  LongNumbers' = LongNumbers
  <1>1. PICK P, L, g : P = pic' /\ L = LongTerm /\ g = LongNumbers
    OBVIOUS
  <1>2. \A s \in L : P[s] = pic[s]
    BY <1>1
  <1>3. \A s, t \in L : pic[s].long = pic[t].long => s = t
    BY <1>1 DEF DpbInv, Referenced
  <1>4. g = [i \in {pic[s].long : s \in L} |-> g[i]] /\ \A s \in L : g[pic[s].long] = pic[s].n
    BY <1>1, <1>3, LongNumbersAre
  <1>5. {pic[s].long : s \in L} = {P[s].long : s \in L}
    BY <1>2
  <1>6. g = [i \in {P[s].long : s \in L} |-> g[i]] /\ \A s \in L : g[P[s].long] = P[s].n
    BY <1>2, <1>4, <1>5
  <1>7. \A s, t \in L : P[s].long = P[t].long => s = t
    BY <1>2, <1>3
  <1>8. \A h : h = [i \in {P[s].long : s \in L} |-> h[i]] /\ (\A s \in L : h[P[s].long] = P[s].n)
              => h = Indexed(P, L)
    BY <1>7, IndexedIs
  <1>9. g = Indexed(P, L)
    BY <1>6, <1>8, Zenon
  <1> QED
    BY <1>1, <1>9, NumbersAre

\* What leaves the references alone leaves the marking alone.
LEMMA MarkingStays ==
  ASSUME DpbInv, UNCHANGED <<inDpb, nRef>>, \A s \in inDpb : pic'[s] = pic[s]
  PROVE  UNCHANGED <<ShortNumbers, LongNumbers, nRef>>
  <1>1. ShortTerm' = ShortTerm /\ LongTerm' = LongTerm
    BY ReferencesStay
  <1>2. ShortTerm \subseteq inDpb /\ LongTerm \subseteq inDpb
    BY DEF ShortTerm, LongTerm
  <1>3. ShortNumbers' = ShortNumbers
    BY <1>1, <1>2 DEF ShortNumbers
  <1>4. LongNumbers' = LongNumbers
    BY <1>1, <1>2, LongStays
  <1> QED
    BY <1>3, <1>4

\* An IDR picture begins without references.
LEMMA IdrClears ==
  ASSUME BeginIdr
  PROVE  Marking!Clear
  <1>1. inDpb' = {} /\ nRef' = 0
    BY DEF BeginIdr
  <1>2. ShortTerm' = {} /\ LongTerm' = {}
    BY <1>1, NumbersAre
  <1>3. ShortNumbers' = {}
    BY <1>2, NumbersAre
  <1>4. LongNumbers' = <<>>
    BY <1>2 DEF LongNumbers
  <1> QED
    BY <1>1, <1>3, <1>4 DEF Marking!Clear

\* The marking of an IDR picture.
LEMMA IdrIsFirst ==
  ASSUME DpbInv, cur # NoSlot, atIdr, IdrMarking, nRef' = nRef + 1
  PROVE  Marking!First
  <1>1. /\ inDpb = {} /\ nRef = 0 /\ inDpb' = {cur} /\ pic'[cur].n = 0 /\ pic'[cur].long \in {Short, 0}
    BY IdrIs
  <1>2. ShortTerm = {} /\ LongTerm = {}
    BY <1>1 DEF ShortTerm, LongTerm
  <1>3. ShortNumbers = {} /\ LongNumbers = <<>>
    BY <1>2 DEF ShortNumbers, LongNumbers
  <1>4. CASE pic'[cur].long = Short
    <2>1. ShortTerm' = {cur} /\ LongTerm' = {}
      BY <1>1, <1>4, NumbersAre
    <2>2. ShortNumbers' = {0}
      BY <1>1, <2>1, NumbersAre
    <2>3. LongNumbers' = <<>>
      BY <2>1 DEF LongNumbers
    <2> QED
      BY <1>1, <1>3, <2>2, <2>3 DEF Marking!First
  <1>5. CASE pic'[cur].long = 0
    <2>1. ShortTerm' = {} /\ LongTerm' = {cur}
      BY <1>1, <1>5, NumbersAre DEF Short
    <2>2. ShortNumbers' = {}
      BY <2>1, NumbersAre
    <2>3. LongNumbers' = [i \in {0} |-> 0]
      <3>1. PICK P, c : P = pic' /\ c = cur
        OBVIOUS
      <3>2. PICK g : g = [i \in {0} |-> 0]
        OBVIOUS
      <3>3. P[c].long = 0 /\ P[c].n = 0
        BY <1>1, <1>5, <3>1
      <3>4. {P[s].long : s \in {c}} = {0}
        BY <3>3
      <3>5. g = [i \in {P[s].long : s \in {c}} |-> g[i]] /\ \A s \in {c} : g[P[s].long] = P[s].n
        BY <3>2, <3>3, <3>4
      <3>6. g = Indexed(P, {c})
        <4> DEFINE L == {c}
        <4>1. \A s, t \in L : P[s].long = P[t].long => s = t
          OBVIOUS
        <4>2. g = [i \in {P[s].long : s \in L} |-> g[i]] /\ \A s \in L : g[P[s].long] = P[s].n
          BY <3>5
        <4> HIDE DEF L
        <4>3. \A h : h = [i \in {P[s].long : s \in L} |-> h[i]] /\ (\A s \in L : h[P[s].long] = P[s].n)
                    => h = Indexed(P, L)
          BY <4>1, IndexedIs
        <4>4. g = Indexed(P, L)
          BY <4>2, <4>3, Zenon
        <4> QED
          BY <4>4 DEF L
      <3> QED
        BY <2>1, <3>1, <3>2, <3>6, NumbersAre
    <2>4. Marking!WithIndex(LongNumbers, 0, 0) = [i \in {0} |-> 0]
      <3>1. DOMAIN LongNumbers \cup {0} = {0}
        BY <1>3
      <3>2. Marking!WithIndex(LongNumbers, 0, 0) = [j \in {0} |-> IF j = 0 THEN 0 ELSE LongNumbers[j]]
        BY <3>1 DEF Marking!WithIndex
      <3> QED
        BY <3>2
    <2> QED
      BY <1>1, <1>3, <2>2, <2>3, <2>4 DEF Marking!First
  <1> QED
    BY <1>1, <1>4, <1>5

\* RefMarking counts as this module does.
LEMMA SameCount == \A S : Marking!Cardinality(S) = Cardinality(S)
  BY DEF Cardinality, Marking!Cardinality

\* Numbers and indices together are as many as the references.
LEMMA MarkingCounts ==
  ASSUME DpbInv
  PROVE  /\ Cardinality(ShortNumbers) + Cardinality(DOMAIN LongNumbers) = Cardinality(inDpb)
         /\ Cardinality(inDpb) <= MaxRef
  <1>1. IsFiniteSet(inDpb)
    BY FiniteSlots DEF DpbInv, TypeOK
  <1>2. \A s, t \in inDpb : pic[s].n = pic[t].n => s = t
    BY DEF DpbInv, Referenced
  <1>3. \A s, t \in inDpb : pic[s].long # Short /\ pic[s].long = pic[t].long => s = t
    BY DEF DpbInv, Referenced, LongTerm
  <1>4. Cardinality({pic[s].n : s \in {t \in inDpb : pic[t].long = Short}})
          + Cardinality({pic[s].long : s \in {t \in inDpb : pic[t].long # Short}}) = Cardinality(inDpb)
    BY <1>1, <1>2, <1>3, CountedAs
  <1>5. ShortNumbers = {pic[s].n : s \in {t \in inDpb : pic[t].long = Short}}
    BY DEF ShortNumbers, ShortTerm
  <1>6. DOMAIN LongNumbers = {pic[s].long : s \in {t \in inDpb : pic[t].long # Short}}
    BY DEF LongNumbers, LongTerm
  <1>7. Cardinality(inDpb) <= MaxRef
    BY DEF DpbInv, Referenced
  <1> QED
    BY <1>4, <1>5, <1>6, <1>7, Zenon

\* The same after a step.
LEMMA MarkingCountsAfter ==
  ASSUME DpbInv'
  PROVE  Cardinality(ShortNumbers') + Cardinality(DOMAIN LongNumbers') <= MaxRef
  <1>1. IsFiniteSet(inDpb') /\ Cardinality(inDpb') \in Nat
    BY FiniteSlots DEF DpbInv, TypeOK
  <1>2. PICK P, R : P = pic' /\ R = inDpb'
    OBVIOUS
  <1>3. \A s, t \in R : P[s].n = P[t].n => s = t
    BY <1>2 DEF DpbInv, Referenced
  <1>4. \A s, t \in R : P[s].long # Short /\ P[s].long = P[t].long => s = t
    BY <1>2 DEF DpbInv, Referenced, LongTerm
  <1>5. Cardinality({P[s].n : s \in {t \in R : P[t].long = Short}})
          + Cardinality({P[s].long : s \in {t \in R : P[t].long # Short}}) = Cardinality(R)
    BY <1>1, <1>2, <1>3, <1>4, CountedAs
  <1>6. ShortNumbers' = {P[s].n : s \in {t \in R : P[t].long = Short}}
    BY <1>2 DEF ShortNumbers, ShortTerm
  <1>7. DOMAIN LongNumbers' = {P[s].long : s \in {t \in R : P[t].long # Short}}
    BY <1>2 DEF LongNumbers, LongTerm
  <1>8. Cardinality(R) <= MaxRef /\ Cardinality(R) \in Nat
    BY <1>1, <1>2 DEF DpbInv, Referenced
  <1> QED
    BY <1>5, <1>6, <1>7, <1>8

\* sliding_window does what H.264 asks for.
LEMMA SlideIs ==
  ASSUME Refers, nRef' = nRef + 1, SlidingWindow
  PROVE  Marking!Slide
  <1>1. Slid /\ DpbInv
    BY SlidingIs DEF Refers
  <1>2. /\ nRef > 0 /\ nRef \in Nat /\ cur \notin inDpb /\ pic[cur].n = nRef /\ pic[cur].long = Short
        /\ cur \in inDpb' /\ \A s \in inDpb' : pic'[s] = pic[s]
    BY <1>1, SizeAssumption DEF Refers, DpbInv, TypeOK, Placed, Decoding, Slid
  <1>3. Cardinality(ShortNumbers) + Cardinality(DOMAIN LongNumbers) = Cardinality(inDpb)
    BY <1>1, MarkingCounts
  <1>4. ASSUME NEW X, X \subseteq ShortTerm, inDpb' = (inDpb \ X) \cup {cur}
        PROVE  LongNumbers' = LongNumbers /\ ShortTerm' = (ShortTerm \ X) \cup {cur}
    <2>1. ShortTerm' = (ShortTerm \ X) \cup {cur} /\ LongTerm' = LongTerm
      BY <1>2, <1>4, NumbersAre DEF ShortTerm, LongTerm
    <2>2. \A s \in LongTerm : pic'[s] = pic[s]
      BY <1>2, <1>4 DEF ShortTerm, LongTerm
    <2> QED
      BY <1>1, <2>1, <2>2, LongStays
  <1>5. ASSUME NEW X, X \subseteq ShortTerm, inDpb' = (inDpb \ X) \cup {cur}
        PROVE  ShortNumbers' = {pic[s].n : s \in ShortTerm \ X} \cup {nRef}
    <2>1. ShortTerm' = (ShortTerm \ X) \cup {cur} /\ ShortTerm' \subseteq inDpb'
      BY <1>4, <1>5, NumbersAre
    <2>2. \A s \in (ShortTerm \ X) \cup {cur} : pic'[s].n = pic[s].n
      BY <1>2, <2>1
    <2> QED
      BY <1>2, <2>1, <2>2, NumbersAre
  <1>6. CASE Cardinality(inDpb) < MaxRef /\ inDpb' = inDpb \cup {cur}
    <2>1. PICK X : X = {}
      OBVIOUS
    <2>2. inDpb' = (inDpb \ X) \cup {cur} /\ X \subseteq ShortTerm
      BY <1>6, <2>1
    <2>3. LongNumbers' = LongNumbers /\ ShortNumbers' = {pic[s].n : s \in ShortTerm \ X} \cup {nRef}
      BY <1>4, <1>5, <2>2
    <2>4. ShortNumbers' = ShortNumbers \cup {nRef}
      BY <2>1, <2>3 DEF ShortNumbers
    <2>5. Cardinality(ShortNumbers) + Cardinality(DOMAIN LongNumbers) < MaxRef
      BY <1>3, <1>6
    <2> QED
      BY <1>2, <2>3, <2>4, <2>5, SameCount, Zenon DEF Marking!Slide
  <1>7. CASE /\ ~ (Cardinality(inDpb) < MaxRef)
             /\ \E x \in ShortTerm : (\A t \in ShortTerm : pic[x].n <= pic[t].n) /\ inDpb' = (inDpb \ {x}) \cup {cur}
    <2>1. PICK x \in ShortTerm : (\A t \in ShortTerm : pic[x].n <= pic[t].n) /\ inDpb' = (inDpb \ {x}) \cup {cur}
      BY <1>7
    <2>2. LongNumbers' = LongNumbers /\ ShortNumbers' = {pic[s].n : s \in ShortTerm \ {x}} \cup {nRef}
      BY <1>4, <1>5, <2>1
    <2>3. \A s \in ShortTerm : pic[s].n = pic[x].n => s = x
      <3>1. \A s, t \in inDpb : pic[s].n = pic[t].n => s = t
        BY <1>1 DEF DpbInv, Referenced
      <3> QED
        BY <3>1 DEF ShortTerm
    <2>4. {pic[s].n : s \in ShortTerm \ {x}} = ShortNumbers \ {pic[x].n}
      BY <2>3 DEF ShortNumbers
    <2>5. Marking!Min(ShortNumbers) = pic[x].n
      <3>1. \A s \in ShortTerm : pic[s].n \in Nat
        BY <1>1, ReferenceIs DEF ShortTerm
      <3>2. PICK n : n = pic[x].n
        OBVIOUS
      <3>3. n \in ShortNumbers /\ \A y \in ShortNumbers : n <= y /\ y \in Nat
        BY <2>1, <3>1, <3>2 DEF ShortNumbers
      <3>4. PICK S : S = ShortNumbers
        OBVIOUS
      <3>5. Marking!Min(S) \in S /\ \A y \in S : Marking!Min(S) <= y
        BY <3>3, <3>4, Zenon DEF Marking!Min
      <3>6. PICK z : z = Marking!Min(S)
        OBVIOUS
      <3>7. z = n
        BY <3>3, <3>4, <3>5, <3>6
      <3> QED
        BY <3>2, <3>4, <3>6, <3>7, Zenon
    <2>6. ShortNumbers # {} /\ ShortNumbers' = (ShortNumbers \ {Marking!Min(ShortNumbers)}) \cup {nRef}
      BY <2>2, <2>4, <2>5 DEF ShortNumbers
    <2>7. ~ (Cardinality(ShortNumbers) + Cardinality(DOMAIN LongNumbers) < MaxRef)
      BY <1>3, <1>7
    <2> QED
      BY <1>2, <2>2, <2>6, <2>7, SameCount, Zenon DEF Marking!Slide
  <1> QED
    BY <1>1, <1>6, <1>7 DEF Slid

\* apply_mmco does what the stream asks for.
LEMMA AdaptiveIs ==
  ASSUME Refers, nRef' = nRef + 1, DpbInv', NEW ops \in Marking!MmcoLists, AdaptiveMarking(ops)
  PROVE  Marking!Adaptive(ops)
  <1>1. PICK m, k : m = MarkedBy(ops) /\ k = Marking!Performed(ops)
    OBVIOUS
  <1>2. Adapted(m) /\ Same(m, k)
    BY <1>1, AdaptedIs
  <1>3. /\ nRef > 0 /\ nRef \in Nat /\ pic[cur].n = nRef /\ cur \notin inDpb
    BY SizeAssumption DEF Refers, DpbInv, TypeOK, Placed, Decoding
  <1>4. Kept(m) /\ inDpb' = m.refs \cup {cur} /\ \A s \in inDpb' : pic'[s].long = m.long[s] /\ pic'[s].n = pic[s].n
    BY <1>2 DEF Adapted
  <1>5. m.refs \subseteq inDpb
    BY <1>4, MarksAre
  <1>6. ShortTerm' = ShortOf(m) /\ LongTerm' = LongOf(m)
    BY <1>4, NumbersAre DEF ShortOf, LongOf
  <1>7. ShortOf(m) \subseteq inDpb' /\ LongOf(m) \subseteq inDpb' /\ (cur \in ShortOf(m) <=> m.long[cur] = Short)
    BY <1>4 DEF ShortOf, LongOf
  <1>8. ShortNumbers' = IF k.own THEN k.short \cup {nRef} ELSE k.short
    <2>1. k.short = {pic[s].n : s \in ShortOf(m) \ {cur}} /\ k.own = (m.long[cur] = Short)
      BY <1>2 DEF Same
    <2>2. ShortNumbers' = {pic[s].n : s \in ShortOf(m)}
      BY <1>4, <1>6, <1>7, NumbersAre
    <2>3. CASE m.long[cur] = Short
      <3>1. ShortNumbers' = k.short \cup {nRef}
        <4>1. ShortOf(m) = (ShortOf(m) \ {cur}) \cup {cur}
          BY <1>7, <2>3
        <4> QED
          BY <1>3, <2>1, <2>2, <4>1
      <3> QED
        BY <2>1, <2>3, <3>1, Zenon
    <2>4. CASE m.long[cur] # Short
      <3>1. ShortNumbers' = k.short
        BY <1>7, <2>1, <2>2, <2>4
      <3> QED
        BY <2>1, <2>4, <3>1, Zenon
    <2> QED
      BY <2>3, <2>4
  <1>9. LongNumbers' = k.long
    <2>1. PICK P, L, g : P = pic' /\ L = LongOf(m) /\ g = k.long
      OBVIOUS
    <2>2. \A s \in L : P[s].long = m.long[s] /\ P[s].n = pic[s].n
      BY <1>4, <1>7, <2>1
    <2>3. g = [i \in {m.long[s] : s \in L} |-> g[i]] /\ \A s \in L : g[m.long[s]] = pic[s].n
      BY <1>2, <2>1, Zenon DEF Same
    <2>4. {m.long[s] : s \in L} = {P[s].long : s \in L}
      BY <2>2
    <2>5. g = [i \in {P[s].long : s \in L} |-> g[i]] /\ \A s \in L : g[P[s].long] = P[s].n
      BY <2>2, <2>3, <2>4
    <2>6. \A s, t \in L : P[s].long = P[t].long => s = t
      BY <1>4, <2>1, <2>2 DEF Kept
    <2>7. \A h : h = [i \in {P[s].long : s \in L} |-> h[i]] /\ (\A s \in L : h[P[s].long] = P[s].n)
                => h = Indexed(P, L)
      BY <2>6, IndexedIs
    <2>8. g = Indexed(P, L)
      BY <2>5, <2>7, Zenon
    <2> QED
      BY <1>6, <2>1, <2>8, NumbersAre
  <1>10. Cardinality(ShortNumbers') + Cardinality(DOMAIN LongNumbers') <= MaxRef
    BY MarkingCountsAfter
  <1> QED
    BY <1>1, <1>3, <1>8, <1>9, <1>10, SameCount DEF Marking!Adaptive

\* Every step is one of RefMarking, or changes nothing it sees.
LEMMA MarkingStep ==
  ASSUME DpbInv, DpbInv', [DpbNext]_dpbVars
  PROVE  [Marking!Next]_<<ShortNumbers, LongNumbers, nRef>>
  <1> DEFINE Stays == UNCHANGED <<ShortNumbers, LongNumbers, nRef>>
  <1>0. inDpb \subseteq Slots /\ pic \in [Slots -> Pictures]
    BY DEF DpbInv, TypeOK
  <1>1. CASE BeginIdr
    BY <1>1, IdrClears DEF Marking!Next
  <1>2. ASSUME NEW isRef \in BOOLEAN, NEW poc \in 1 .. MaxPoc, BeginFrame(isRef, poc) PROVE Stays
    <2>1. inDpb' = inDpb /\ nRef' = nRef
      BY <1>2 DEF BeginFrame
    <2>2. PICK p : Allocate(Used, pic, p)
      BY <1>2 DEF BeginFrame
    <2>3. Used # Slots /\ pic' = [pic EXCEPT ![Min(Slots \ Used)] = p]
      BY <2>2 DEF Allocate
    <2>4. Min(Slots \ Used) \in Slots \ Used
      <3>1. Slots \ Used \subseteq Nat /\ Slots \ Used # {}
        <4>1. Used \subseteq Slots /\ Slots \subseteq Nat
          BY UsedSlots, SlotsAre DEF DpbInv, Slots
        <4> QED
          BY <2>3, <4>1
      <3> QED
        BY <3>1, LeastIs
    <2>5. PICK x : x = Min(Slots \ Used)
      OBVIOUS
    <2>6. \A s \in inDpb : pic'[s] = pic[s]
      BY <1>0, <2>3, <2>4, <2>5 DEF Used
    <2> QED
      BY <2>1, <2>6, MarkingStays
  <1>3. CASE EndFrame
    <2>1. cur # NoSlot
      BY <1>3 DEF EndFrame
    <2>2. CASE ~pic[cur].isRef
      <3>1. UNCHANGED <<pic, inDpb, nRef>>
        BY <1>3, <2>2 DEF EndFrame
      <3> QED
        BY <3>1, MarkingStays
    <2>3. CASE pic[cur].isRef /\ atIdr
      <3>1. IdrMarking /\ nRef' = nRef + 1
        BY <1>3, <2>3 DEF EndFrame
      <3>2. Marking!First
        BY <2>1, <2>3, <3>1, IdrIsFirst
      <3> QED
        BY <3>2 DEF Marking!Next
    <2>4. CASE pic[cur].isRef /\ ~atIdr
      <3>1. Refers /\ nRef' = nRef + 1 /\ (SlidingWindow \/ \E ops \in Marking!MmcoLists : AdaptiveMarking(ops))
        BY <1>3, <2>1, <2>4 DEF EndFrame, Refers
      <3>2. CASE SlidingWindow
        BY <3>1, <3>2, SlideIs DEF Marking!Next
      <3>3. CASE \E ops \in Marking!MmcoLists : AdaptiveMarking(ops)
        <4>1. PICK ops \in Marking!MmcoLists : AdaptiveMarking(ops)
          BY <3>3
        <4>2. Marking!Adaptive(ops)
          BY <3>1, <4>1, AdaptiveIs
        <4> QED
          BY <4>2 DEF Marking!Next
      <3> QED
        BY <3>1, <3>2, <3>3
    <2> QED
      BY <2>2, <2>3, <2>4
  <1>4. CASE AbortFrame \/ Output
    <2>1. PICK w : pic' = Forget(pic, inDpb \cup w) /\ inDpb' = inDpb /\ nRef' = nRef
      BY <1>4 DEF AbortFrame, Output, gopVars
    <2>2. \A s \in inDpb : pic'[s] = pic[s]
      BY <1>0, <2>1, ForgetKeeps
    <2> QED
      BY <2>1, <2>2, MarkingStays
  <1>5. CASE ReachIdr \/ OffScreen
    <2>1. UNCHANGED <<pic, inDpb, nRef>>
      BY <1>5 DEF ReachIdr, OffScreen, gopVars
    <2> QED
      BY <2>1, MarkingStays
  <1>6. CASE UNCHANGED dpbVars
    <2>1. UNCHANGED <<pic, inDpb, nRef>>
      BY <1>6 DEF dpbVars, gopVars
    <2> QED
      BY <2>1, MarkingStays
  <1> QED
    BY <1>1, <1>2, <1>3, <1>4, <1>5, <1>6 DEF DpbNext

\* The end of a reference picture is the step that was asked for.
AskedStep ==
  cur # NoSlot /\ cur' = NoSlot /\ nRef' = nRef + 1 /\ ~atIdr =>
    /\ SlidingWindow => Marking!Slide
    /\ \A ops \in Marking!MmcoLists : AdaptiveMarking(ops) => Marking!Adaptive(ops)

\* Every such step is.
LEMMA AskedIs ==
  ASSUME DpbInv, DpbInv'
  PROVE  AskedStep
  <1> SUFFICES ASSUME cur # NoSlot, cur' = NoSlot, nRef' = nRef + 1, ~atIdr
               PROVE  /\ SlidingWindow => Marking!Slide
                      /\ \A ops \in Marking!MmcoLists : AdaptiveMarking(ops) => Marking!Adaptive(ops)
    BY DEF AskedStep
  <1>1. Refers
    BY DEF Refers
  <1> QED
    BY <1>1, SlideIs, AdaptiveIs

\* Whatever the stream, its slots and numbers, the references are those H.264 asks for, step by step.
THEOREM ReferencesRightCorrect == DpbSpec => ReferencesRight
  <1>1. DpbSpec => []DpbInv
    BY DpbStart, DpbStep, PTL DEF DpbSpec
  <1>2. DpbInit => Marking!Init
    <2>1. DpbInit => ShortTerm = {} /\ LongTerm = {} /\ nRef = 0
      BY DEF DpbInit, ShortTerm, LongTerm
    <2>2. DpbInit => ShortNumbers = {} /\ LongNumbers = <<>>
      BY <2>1 DEF ShortNumbers, LongNumbers
    <2> QED
      BY <2>1, <2>2 DEF Marking!Init
  <1>3. DpbSpec => [][Marking!Next]_<<ShortNumbers, LongNumbers, nRef>>
    BY <1>1, MarkingStep, PTL DEF DpbSpec
  <1>4. ImplementsMarking <=> Marking!Init /\ [][Marking!Next]_<<ShortNumbers, LongNumbers, nRef>>
    BY DEF ImplementsMarking, Marking!Spec
  <1>5. DpbSpec => [][AskedStep]_dpbVars
    BY <1>1, AskedIs, PTL DEF DpbSpec
  <1>6. MarkedAsAsked <=> [][AskedStep]_dpbVars
    BY DEF MarkedAsAsked, AskedStep
  <1>7. DpbSpec => DpbInit
    BY DEF DpbSpec
  <1> QED
    BY <1>2, <1>3, <1>4, <1>5, <1>6, <1>7 DEF ReferencesRight

----------------------------------------------------------------------------
(* The lists the decoder is given *)

\* The references have places of their own in display order, and the picture being decoded another one.
Apart ==
  /\ \A s \in inDpb : pic[s].poc \in sent
  /\ \A s, t \in inDpb : pic[s].poc = pic[t].poc => s = t
  /\ cur # NoSlot => \A s \in inDpb : pic[s].poc # pic[cur].poc

\* That stays as long as no picture is begun and none ends.
LEMMA ApartStays ==
  ASSUME DpbInv, Apart, UNCHANGED <<inDpb, sent>>, \A s \in inDpb : pic'[s] = pic[s], cur' = NoSlot
  PROVE  Apart'
  BY DEF Apart

\* Every step keeps it.
LEMMA ApartStep == DpbInv /\ Apart /\ [DpbNext]_dpbVars => Apart'
  <1> SUFFICES ASSUME DpbInv, Apart, [DpbNext]_dpbVars PROVE Apart'
    OBVIOUS
  <1>1. TypeOK /\ inDpb \subseteq Slots /\ pic \in [Slots -> Pictures] /\ waiting \subseteq Slots
    BY DEF DpbInv, TypeOK
  <1>2. CASE BeginIdr
    BY <1>2 DEF BeginIdr, Apart
  <1>3. ASSUME NEW isRef \in BOOLEAN, NEW poc \in 1 .. MaxPoc, BeginFrame(isRef, poc) PROVE Apart'
    <2> DEFINE p == [n |-> nRef, frameNum |-> nRef % MaxFrameNum, poc |-> poc, isRef |-> isRef, long |-> Short, old |-> FALSE]
    <2>1. poc \notin sent /\ Allocate(Used, pic, p) /\ sent' = sent \cup {poc} /\ inDpb' = inDpb
      BY <1>3 DEF BeginFrame
    <2>2. p \in Pictures /\ p.poc = poc
      <3>1. nRef \in 0 .. MaxPoc + 1 /\ nRef \in Nat /\ MaxFrameNum \in Nat /\ MaxFrameNum > 0 /\ MaxLong \in Nat /\ MaxPoc \in Nat
        BY <1>1, SizeAssumption DEF TypeOK
      <3>2. nRef % MaxFrameNum \in 0 .. MaxFrameNum - 1
        BY <3>1
      <3>3. poc \in 0 .. MaxPoc /\ Short \in Short .. MaxLong
        BY <3>1 DEF Short
      <3> QED
        BY <1>3, <3>1, <3>2, <3>3 DEF Pictures
    <2> HIDE DEF p
    <2>3. PICK slot \in Slots \ Used : /\ cur' = slot /\ pic'[slot] = p
                                       /\ \A t \in Slots \ {slot} : pic'[t] = pic[t]
      BY <1>1, <2>1, <2>2, AllocatedIs, UsedSlots
    <2>4. \A s \in inDpb : pic'[s] = pic[s]
      BY <1>1, <2>3 DEF Used
    <2> QED
      BY <2>1, <2>2, <2>3, <2>4 DEF Apart
  <1>4. CASE EndFrame
    <2>1. Ended
      BY <1>4, FrameEnds
    <2>2. /\ cur # NoSlot /\ cur' = NoSlot /\ sent' = sent /\ inDpb' \subseteq inDpb \cup {cur}
          /\ \A s \in inDpb' : pic'[s].poc = pic[s].poc
      BY <2>1 DEF Ended
    <2>3. pic[cur].poc \in sent
      BY <2>2 DEF DpbInv, Placed, Held
    <2> QED
      BY <2>2, <2>3 DEF Apart
  <1>5. CASE AbortFrame
    <2>1. UNCHANGED <<inDpb, sent>> /\ cur' = NoSlot /\ pic' = Forget(pic, inDpb \cup waiting')
      BY <1>5 DEF AbortFrame, gopVars
    <2>2. \A s \in inDpb : pic'[s] = pic[s]
      BY <1>1, <2>1, ForgetKeeps
    <2> QED
      BY <2>1, <2>2, ApartStays
  <1>6. CASE ReachIdr
    BY <1>6, ApartStays DEF ReachIdr, gopVars
  <1>7. CASE Output
    <2>1. UNCHANGED <<inDpb, sent>> /\ cur' = NoSlot /\ pic' = Forget(pic, inDpb \cup waiting')
      BY <1>7 DEF Output, gopVars
    <2>2. \A s \in inDpb : pic'[s] = pic[s]
      BY <1>1, <2>1, ForgetKeeps
    <2> QED
      BY <2>1, <2>2, ApartStays
  <1>8. CASE OffScreen
    BY <1>8, ApartStays DEF OffScreen, gopVars
  <1>9. CASE UNCHANGED dpbVars
    BY <1>9 DEF dpbVars, gopVars, Apart
  <1> QED
    BY <1>2, <1>3, <1>4, <1>5, <1>6, <1>7, <1>8, <1>9 DEF DpbNext

----------------------------------------------------------------------------
(* Lists in order *)

\* The first n entries of l are different.
OneEach(l, n) == \A i, j \in 1 .. n : l[i] = l[j] => i = j

\* l is S from the least key on.
Sorts(l, S, key) ==
  /\ l \in [1 .. Cardinality(S) -> S] /\ OneEach(l, Cardinality(S))
  /\ \A i, j \in 1 .. Cardinality(S) : i < j => key[l[i]] < key[l[j]]
  /\ \A s \in S : \E i \in 1 .. Cardinality(S) : l[i] = s

\* When no two have the same key, that is what sorting gives: each comes behind as many as have a smaller one.
LEMMA InOrderSorts ==
  ASSUME NEW S, S \subseteq Slots, NEW key, \A s \in S : key[s] \in Int, \A s, t \in S : key[s] = key[t] => s = t
  PROVE  Sorts(InOrder(S, key), S, key)
  <1> DEFINE N == Cardinality(S)
             B(s) == {t \in S : key[t] < key[s]}
             f == [s \in S |-> Cardinality(B(s)) + 1]
             l == InOrder(S, key)
  <1>1. IsFiniteSet(S) /\ N \in Nat
    BY FiniteSlots
  <1>2. ASSUME NEW s \in S PROVE {t \in S : key[t] < key[s] \/ (key[t] = key[s] /\ t < s)} = B(s)
    <2>1. \A t \in S : key[t] = key[s] => t = s
      BY <1>2
    <2>2. \A t \in S : t \in Nat
      BY SlotsAre DEF Slots
    <2>3. ~ (s < s)
      BY <2>2
    <2> QED
      BY <2>1, <2>3
  <1>3. ASSUME NEW s \in S PROVE IsFiniteSet(B(s)) /\ Cardinality(B(s)) \in Nat /\ Cardinality(B(s)) < N
    <2>1. B(s) \subseteq S \ {s}
      OBVIOUS
    <2>2. IsFiniteSet(S \ {s}) /\ Cardinality(S \ {s}) = N - 1
      BY <1>1, FS_RemoveElement
    <2> HIDE DEF B
    <2>3. IsFiniteSet(B(s)) /\ Cardinality(B(s)) <= N - 1
      BY <2>1, <2>2, FS_Subset
    <2> QED
      BY <1>1, <2>3, FS_CardinalityType
  <1>4. ASSUME NEW s \in S, NEW t \in S, key[t] < key[s] PROVE Cardinality(B(t)) < Cardinality(B(s))
    <2>1. B(t) \subseteq B(s) \ {t} /\ t \in B(s)
      BY <1>4
    <2> HIDE DEF B
    <2>2. IsFiniteSet(B(s) \ {t}) /\ Cardinality(B(s) \ {t}) = Cardinality(B(s)) - 1
      BY <1>3, <2>1, FS_RemoveElement
    <2>3. Cardinality(B(t)) <= Cardinality(B(s)) - 1
      BY <2>1, <2>2, FS_Subset
    <2> QED
      BY <1>3, <2>3
  <1> HIDE DEF B
  <1>5. \A s, t \in S : Cardinality(B(s)) = Cardinality(B(t)) => s = t
    <2>1. ASSUME NEW s \in S, NEW t \in S, s # t PROVE Cardinality(B(s)) # Cardinality(B(t))
      <3>1. key[s] < key[t] \/ key[t] < key[s]
        BY <2>1
      <3> QED
        BY <1>3, <1>4, <3>1
    <2> QED
      BY <2>1
  <1>6. \A i \in 1 .. N : \E s \in S : Cardinality(B(s)) = i - 1
    <2>1. f \in Injection(S, 1 .. N)
      <3>1. f \in [S -> 1 .. N]
        BY <1>1, <1>3
      <3>2. \A s, t \in S : f[s] = f[t] => s = t
        BY <1>3, <1>5
      <3> HIDE DEF f
      <3> QED
        BY <3>1, <3>2 DEF Injection, IsInjective
    <2>2. IsFiniteSet(1 .. N) /\ Cardinality(1 .. N) = N
      BY <1>1, FS_Interval
    <2>3. f \in Surjection(S, 1 .. N)
      <3> HIDE DEF f
      <3> QED
        BY <1>1, <2>1, <2>2, FS_Injection
    <2>4. \A i \in 1 .. N : \E s \in S : f[s] = i
      <3> HIDE DEF f
      <3> QED
        BY <2>3 DEF Surjection
    <2> QED
      BY <1>3, <2>4
  <1>7. \A i \in 1 .. N : l[i] \in S /\ Cardinality(B(l[i])) = i - 1
    <2>1. ASSUME NEW i \in 1 .. N PROVE l[i] \in S /\ Cardinality(B(l[i])) = i - 1
      <3>1. l[i] = CHOOSE s \in S : Cardinality({t \in S : key[t] < key[s] \/ (key[t] = key[s] /\ t < s)}) = i - 1
        BY DEF InOrder
      <3>2. \A s \in S : Cardinality({t \in S : key[t] < key[s] \/ (key[t] = key[s] /\ t < s)}) = Cardinality(B(s))
        BY <1>2
      <3>3. \E s \in S : Cardinality({t \in S : key[t] < key[s] \/ (key[t] = key[s] /\ t < s)}) = i - 1
        BY <1>6, <3>2
      <3>4. l[i] \in S /\ Cardinality({t \in S : key[t] < key[l[i]] \/ (key[t] = key[l[i]] /\ t < l[i])}) = i - 1
        BY <3>1, <3>3, Zenon
      <3> QED
        BY <3>2, <3>4
    <2> QED
      BY <2>1
  <1>8. l = [i \in 1 .. N |-> l[i]]
    <2> DEFINE At(i) == CHOOSE s \in S : Cardinality({t \in S : key[t] < key[s] \/ (key[t] = key[s] /\ t < s)}) = i - 1
    <2>1. l = [i \in 1 .. N |-> At(i)]
      BY DEF InOrder
    <2> HIDE DEF At, l
    <2> QED
      BY <2>1
  <1> HIDE DEF l
  <1>9. l \in [1 .. N -> S]
    BY <1>7, <1>8
  <1>10. \A i, j \in 1 .. N : i < j => key[l[i]] < key[l[j]]
    <2>1. ASSUME NEW i \in 1 .. N, NEW j \in 1 .. N, i < j PROVE key[l[i]] < key[l[j]]
      <3>1. l[i] \in S /\ l[j] \in S /\ Cardinality(B(l[i])) = i - 1 /\ Cardinality(B(l[j])) = j - 1
        BY <1>7
      <3>2. l[i] # l[j]
        BY <1>1, <2>1, <3>1
      <3>3. ~ (key[l[j]] < key[l[i]])
        BY <1>1, <1>4, <2>1, <3>1
      <3>4. key[l[i]] \in Int /\ key[l[j]] \in Int /\ key[l[i]] # key[l[j]]
        BY <3>1, <3>2
      <3> QED
        BY <3>3, <3>4
    <2> QED
      BY <2>1
  <1>11. \A s \in S : \E i \in 1 .. N : l[i] = s
    <2>1. ASSUME NEW s \in S PROVE \E i \in 1 .. N : l[i] = s
      <3>1. Cardinality(B(s)) + 1 \in 1 .. N
        BY <1>1, <1>3
      <3>2. Cardinality(B(l[Cardinality(B(s)) + 1])) = Cardinality(B(s)) /\ l[Cardinality(B(s)) + 1] \in S
        BY <1>3, <1>7, <3>1
      <3> QED
        BY <1>5, <3>1, <3>2
    <2> QED
      BY <2>1
  <1>12. \A i, j \in 1 .. N : l[i] = l[j] => i = j
    <2>1. ASSUME NEW i \in 1 .. N, NEW j \in 1 .. N, l[i] = l[j] PROVE i = j
      <3>1. i - 1 = j - 1 /\ i \in Int /\ j \in Int
        BY <1>1, <1>7, <2>1
      <3> QED
        BY <3>1
    <2> QED
      BY <2>1
  <1> QED
    BY <1>9, <1>10, <1>11, <1>12 DEF Sorts, OneEach, l

\* c is the n entries of a list of m and what comes after it.
Joined(c, a, m, b, n) == Len(c) = n /\ \A i \in 1 .. n : c[i] = IF i <= m THEN a[i] ELSE b[i - m]

\* Two lists in a row.
LEMMA JoinIs ==
  ASSUME NEW S, NEW T, NEW m \in Nat, NEW k \in Nat, NEW a \in [1 .. m -> S], NEW b \in [1 .. k -> T]
  PROVE  a \o b \in [1 .. m + k -> S \cup T] /\ Joined(a \o b, a, m, b, m + k)
  <1>1. a \in Seq(S \cup T) /\ b \in Seq(S \cup T) /\ Len(a) = m /\ Len(b) = k
    OBVIOUS
  <1>2. a \o b \in Seq(S \cup T) /\ Len(a \o b) = m + k
    BY <1>1
  <1>3. \A i \in 1 .. m + k : (a \o b)[i] = IF i <= m THEN a[i] ELSE b[i - m]
    BY <1>1
  <1>4. a \o b \in [1 .. m + k -> S \cup T]
    <2> DEFINE c == a \o b
    <2> HIDE DEF c
    <2>1. c \in Seq(S \cup T) /\ Len(c) = m + k
      BY <1>2 DEF c
    <2> QED
      BY <2>1, LenProperties DEF c
  <1> QED
    BY <1>2, <1>3, <1>4 DEF Joined

\* The set S has two parts.
Splits(S, P, Q) == S \subseteq Slots /\ S = P \cup Q /\ P \cap Q = {}

\* There are as many as in both.
LEMMA SplitCount ==
  ASSUME NEW S, NEW P, NEW Q, Splits(S, P, Q)
  PROVE  /\ Cardinality(P) \in Nat /\ Cardinality(Q) \in Nat /\ Cardinality(S) = Cardinality(P) + Cardinality(Q)
         /\ P # {} => Cardinality(P) > 0
         /\ Q # {} => Cardinality(Q) > 0
  <1>0. S \subseteq Slots /\ S = P \cup Q /\ P \cap Q = {}
    BY DEF Splits
  <1>1. IsFiniteSet(P) /\ IsFiniteSet(Q) /\ Cardinality(P) \in Nat /\ Cardinality(Q) \in Nat
    BY <1>0, FiniteSlots
  <1>2. Cardinality(S) = Cardinality(P) + Cardinality(Q) - Cardinality(P \cap Q)
    BY <1>0, <1>1, FS_Union
  <1>3. Cardinality(P \cap Q) = 0
    BY <1>0, FS_EmptySet
  <1> QED
    BY <1>1, <1>2, <1>3, FS_EmptySet

\* The pictures before and after one in display order, and the keys a list is sorted by.
Earlier(poc) == {s \in ShortTerm : pic[s].poc < poc}
Later(poc) == {s \in ShortTerm : pic[s].poc >= poc}
Numbering == [s \in Slots |-> -PicNum(s, pic[cur].frameNum)]
Places == [s \in Slots |-> pic[s].poc]
PlacesBack == [s \in Slots |-> -pic[s].poc]

\* The references from the latest decoded on.
LEMMA NumberingIs ==
  ASSUME Refers, NEW s \in ShortTerm
  PROVE  /\ Numbering[s] \in Int /\ Numbering[s] = nRef - pic[s].n - pic[cur].frameNum
         /\ nRef \in Nat /\ pic[s].n \in Nat /\ pic[cur].frameNum \in Int
  <1>1. s \in inDpb /\ s \in Slots
    BY DEF Refers, DpbInv, TypeOK, ShortTerm
  <1>2. /\ PicNum(s, pic[cur].frameNum) = pic[cur].frameNum - (nRef - pic[s].n)
        /\ pic[cur].frameNum \in Int /\ nRef - pic[s].n \in Int
    BY PicNumIs
  <1>3. Numbering[s] = -PicNum(s, pic[cur].frameNum)
    BY <1>1 DEF Numbering
  <1>4. nRef \in Nat /\ pic[s].n \in Nat
    BY <1>1, ReferenceIs DEF Refers
  <1> QED
    BY <1>2, <1>3, <1>4

\* The parts of every list are sorted.
LEMMA PartsAre ==
  ASSUME Refers, Apart, NEW poc \in Int
  PROVE  /\ Sorts(InOrder(ShortTerm, Numbering), ShortTerm, Numbering)
         /\ Sorts(LongsInOrder, LongTerm, Longs)
         /\ Sorts(Past(poc), Earlier(poc), PlacesBack)
         /\ Sorts(Future(poc), Later(poc), Places)
  <1>1. /\ inDpb \subseteq Slots /\ ShortTerm \subseteq inDpb /\ LongTerm \subseteq inDpb
        /\ Earlier(poc) \subseteq ShortTerm /\ Later(poc) \subseteq ShortTerm
    BY DEF Refers, DpbInv, TypeOK, ShortTerm, LongTerm, Earlier, Later
  <1>2. \A s \in inDpb : s \in Slots /\ pic[s].n \in Nat /\ pic[s].long \in Int /\ pic[s].poc \in Int
    <2>1. ASSUME NEW s \in inDpb PROVE s \in Slots /\ pic[s].n \in Nat /\ pic[s].long \in Int /\ pic[s].poc \in Int
      <3>1. pic[s] \in Pictures
        BY <1>1 DEF Refers, DpbInv, TypeOK
      <3>2. pic[s].poc \in Int
        BY <3>1, SizeAssumption DEF Pictures
      <3>3. Short .. MaxLong \subseteq Int
        BY SizeAssumption DEF Short
      <3> QED
        BY <3>2, <3>3, ReferenceIs DEF Refers
    <2> QED
      BY <2>1
  <1>3. Sorts(InOrder(ShortTerm, Numbering), ShortTerm, Numbering)
    <2>1. \A s \in ShortTerm : Numbering[s] \in Int /\ Numbering[s] = nRef - pic[s].n - pic[cur].frameNum
      BY NumberingIs
    <2>2. \A s, t \in ShortTerm : Numbering[s] = Numbering[t] => s = t
      <3>1. ASSUME NEW s \in ShortTerm, NEW t \in ShortTerm, Numbering[s] = Numbering[t] PROVE s = t
        <4>1. nRef - pic[s].n - pic[cur].frameNum = nRef - pic[t].n - pic[cur].frameNum /\ pic[cur].frameNum \in Int
          BY <2>1, <3>1, PicNumIs
        <4>2. nRef \in Nat /\ pic[s].n \in Nat /\ pic[t].n \in Nat
          BY <1>1, ReferenceIs DEF Refers
        <4>3. pic[s].n = pic[t].n
          BY <4>1, <4>2
        <4> QED
          BY <1>1, <4>3 DEF Refers, DpbInv, Referenced
      <3> QED
        BY <3>1
    <2> QED
      BY <1>1, <2>1, <2>2, InOrderSorts
  <1>4. Sorts(LongsInOrder, LongTerm, Longs)
    <2>1. \A s \in LongTerm : Longs[s] = pic[s].long
      BY <1>1 DEF Longs
    <2>2. \A s, t \in LongTerm : Longs[s] = Longs[t] => s = t
      BY <2>1 DEF Refers, DpbInv, Referenced
    <2>3. \A s \in LongTerm : Longs[s] \in Int
      BY <1>1, <1>2, <2>1
    <2> QED
      BY <1>1, <2>2, <2>3, InOrderSorts DEF LongsInOrder
  <1>5. Sorts(Past(poc), Earlier(poc), PlacesBack)
    <2>1. \A s \in Earlier(poc) : PlacesBack[s] = -pic[s].poc
      BY <1>1 DEF PlacesBack
    <2>2. \A s, t \in Earlier(poc) : PlacesBack[s] = PlacesBack[t] => s = t
      <3>1. \A s, t \in inDpb : pic[s].poc = pic[t].poc => s = t
        BY DEF Apart
      <3>2. \A s, t \in inDpb : -pic[s].poc = -pic[t].poc => pic[s].poc = pic[t].poc
        BY <1>2
      <3> QED
        BY <1>1, <2>1, <3>1, <3>2
    <2>3. \A s \in Earlier(poc) : PlacesBack[s] \in Int
      BY <1>1, <1>2, <2>1
    <2>4. Earlier(poc) \subseteq Slots
      BY <1>1
    <2>5. Past(poc) = InOrder(Earlier(poc), PlacesBack)
      BY DEF Past, Earlier, PlacesBack
    <2> QED
      BY <2>2, <2>3, <2>4, <2>5, InOrderSorts
  <1>6. Sorts(Future(poc), Later(poc), Places)
    <2>1. \A s \in Later(poc) : Places[s] = pic[s].poc
      BY <1>1 DEF Places
    <2>2. \A s, t \in Later(poc) : Places[s] = Places[t] => s = t
      BY <1>1, <2>1 DEF Apart
    <2>3. \A s \in Later(poc) : Places[s] \in Int
      BY <1>1, <1>2, <2>1
    <2>4. Later(poc) \subseteq Slots
      BY <1>1
    <2>5. Future(poc) = InOrder(Later(poc), Places)
      BY DEF Future, Later, Places
    <2> QED
      BY <2>2, <2>3, <2>4, <2>5, InOrderSorts
  <1> QED
    BY <1>3, <1>4, <1>5, <1>6

\* A list of all references.
Whole(l) == l \in [1 .. AllEntries -> inDpb] /\ Len(l) = AllEntries /\ OneEach(l, AllEntries)

\* Two parts in a row are the whole.
LEMMA JoinWhole ==
  ASSUME NEW S, NEW P, NEW Q, Splits(S, P, Q),
         NEW a \in [1 .. Cardinality(P) -> P], NEW b \in [1 .. Cardinality(Q) -> Q]
  PROVE  /\ a \o b \in [1 .. Cardinality(S) -> S] /\ Joined(a \o b, a, Cardinality(P), b, Cardinality(S))
         /\ OneEach(a, Cardinality(P)) /\ OneEach(b, Cardinality(Q)) => OneEach(a \o b, Cardinality(S))
  <1>1. /\ Cardinality(P) \in Nat /\ Cardinality(Q) \in Nat /\ Cardinality(S) = Cardinality(P) + Cardinality(Q)
    BY SplitCount
  <1>2. a \o b \in [1 .. Cardinality(P) + Cardinality(Q) -> P \cup Q]
        /\ Joined(a \o b, a, Cardinality(P), b, Cardinality(P) + Cardinality(Q))
    BY <1>1, JoinIs, Zenon
  <1>3. S = P \cup Q /\ P \cap Q = {}
    BY DEF Splits
  <1>4. ASSUME OneEach(a, Cardinality(P)), OneEach(b, Cardinality(Q)),
               NEW i \in 1 .. Cardinality(S), NEW j \in 1 .. Cardinality(S), (a \o b)[i] = (a \o b)[j]
        PROVE  i = j
    <2> DEFINE c == a \o b
               m == Cardinality(P)
               k == Cardinality(Q)
    <2>1. /\ c[i] = IF i <= m THEN a[i] ELSE b[i - m]
          /\ c[j] = IF j <= m THEN a[j] ELSE b[j - m]
      BY <1>1, <1>2 DEF Joined
    <2>2. m \in Nat /\ k \in Nat /\ i \in 1 .. m + k /\ j \in 1 .. m + k /\ c[i] = c[j]
      BY <1>1, <1>4
    <2>3. a \in [1 .. m -> P] /\ b \in [1 .. k -> Q]
      OBVIOUS
    <2>4. /\ \A x, y \in 1 .. m : a[x] = a[y] => x = y
          /\ \A x, y \in 1 .. k : b[x] = b[y] => x = y
      BY <1>4 DEF OneEach
    <2> HIDE DEF c, m, k
    <2>5. ASSUME NEW x \in 1 .. m + k PROVE (x <= m /\ x \in 1 .. m /\ a[x] \in P) \/ (~ (x <= m) /\ x - m \in 1 .. k /\ b[x - m] \in Q)
      <3>1. (x <= m /\ x \in 1 .. m) \/ (~ (x <= m) /\ x - m \in 1 .. k)
        BY <2>2
      <3> QED
        BY <2>3, <3>1
    <2>6. CASE i <= m /\ j <= m
      BY <2>1, <2>2, <2>4, <2>6
    <2>7. CASE ~ (i <= m) /\ ~ (j <= m)
      <3>1. i - m \in 1 .. k /\ j - m \in 1 .. k /\ b[i - m] = b[j - m]
        BY <2>1, <2>2, <2>7
      <3>2. i - m = j - m
        BY <2>4, <3>1
      <3> QED
        BY <2>2, <3>2
    <2>8. CASE (i <= m) # (j <= m)
      <3>1. (c[i] \in P /\ c[j] \in Q) \/ (c[i] \in Q /\ c[j] \in P)
        BY <2>1, <2>2, <2>5, <2>8
      <3> QED
        BY <1>3, <2>2, <3>1
    <2> QED
      BY <2>6, <2>7, <2>8
  <1>5. OneEach(a, Cardinality(P)) /\ OneEach(b, Cardinality(Q)) => OneEach(a \o b, Cardinality(S))
    BY <1>4 DEF OneEach
  <1>6. a \o b \in [1 .. Cardinality(S) -> S] /\ Joined(a \o b, a, Cardinality(P), b, Cardinality(S))
    BY <1>1, <1>2, <1>3, Zenon
  <1> QED
    BY <1>5, <1>6

\* Without modifications the hardware is given the list as it is.
LEMMA UnmodifiedIs ==
  ASSUME NEW l
  PROVE  /\ \A i \in 1 .. AllEntries : i <= Len(l) /\ l[i] \in inDpb => RefList(l, AllEntries, <<>>)[i] = l[i]
         /\ Whole(l) => RefList(l, AllEntries, <<>>) = l
         /\ DOMAIN RefList(l, AllEntries, <<>>) = 1 .. AllEntries
  <1> DEFINE r == [i \in 1 .. AllEntries |-> IF i <= Len(l) /\ l[i] \in inDpb THEN l[i] ELSE Min(inDpb)]
  <1>1. Encoded(<<>>, nRef) = <<>>
    <2>1. Len(<<>>) = 0 /\ 1 .. 0 = {}
      OBVIOUS
    <2> QED
      BY <2>1 DEF Encoded
  <1>2. RefList(l, AllEntries, <<>>) = r
    BY <1>1 DEF RefList, Modified, Filled
  <1>3. Whole(l) => r = l
    BY DEF Whole
  <1> QED
    BY <1>2, <1>3

\* A list of all references begins with the list Q of a part that is not empty.
Begins(l, q, Q) == Q # {} => 1 \in 1 .. AllEntries /\ l[1] = q[1] /\ 1 \in 1 .. Cardinality(Q)

\* The lists are all references, each in one place.
LEMMA ListsAre ==
  ASSUME Refers, Apart, NEW poc \in Int
  PROVE  /\ Whole(ListP(pic[cur].frameNum)) /\ Whole(ListB0(poc)) /\ Whole(Future(poc) \o Past(poc) \o LongsInOrder)
         /\ Joined(ListP(pic[cur].frameNum), InOrder(ShortTerm, Numbering), Cardinality(ShortTerm), LongsInOrder, AllEntries)
         /\ Begins(ListB0(poc), Past(poc), Earlier(poc))
         /\ Begins(Future(poc) \o Past(poc) \o LongsInOrder, Future(poc), Later(poc))
         /\ Splits(inDpb, ShortTerm, LongTerm)
  <1>1. inDpb \subseteq Slots /\ Splits(inDpb, ShortTerm, LongTerm)
    BY DEF Refers, DpbInv, TypeOK, ShortTerm, LongTerm, Splits
  <1>2. Splits(ShortTerm, Earlier(poc), Later(poc)) /\ Splits(ShortTerm, Later(poc), Earlier(poc))
    <2>1. \A s \in ShortTerm : pic[s].poc \in Int /\ s \in Slots
      <3>1. \A s \in ShortTerm : pic[s] \in Pictures /\ s \in Slots
        BY <1>1 DEF Refers, DpbInv, TypeOK, ShortTerm
      <3> QED
        BY <3>1, SizeAssumption DEF Pictures
    <2>2. ShortTerm \subseteq Slots
      BY <2>1
    <2>3. \A s \in ShortTerm : (pic[s].poc < poc) <=> ~ (pic[s].poc >= poc)
      BY <2>1
    <2> QED
      BY <2>2, <2>3 DEF Earlier, Later, Splits
  <1>3. /\ InOrder(ShortTerm, Numbering) \in [1 .. Cardinality(ShortTerm) -> ShortTerm]
        /\ LongsInOrder \in [1 .. Cardinality(LongTerm) -> LongTerm]
        /\ Past(poc) \in [1 .. Cardinality(Earlier(poc)) -> Earlier(poc)]
        /\ Future(poc) \in [1 .. Cardinality(Later(poc)) -> Later(poc)]
        /\ OneEach(InOrder(ShortTerm, Numbering), Cardinality(ShortTerm)) /\ OneEach(LongsInOrder, Cardinality(LongTerm))
        /\ OneEach(Past(poc), Cardinality(Earlier(poc))) /\ OneEach(Future(poc), Cardinality(Later(poc)))
    BY PartsAre DEF Sorts
  <1>5. /\ Cardinality(ShortTerm) \in Nat /\ Cardinality(LongTerm) \in Nat
        /\ Cardinality(inDpb) = Cardinality(ShortTerm) + Cardinality(LongTerm)
    BY <1>1, SplitCount
  <1>6. /\ Cardinality(Earlier(poc)) \in Nat /\ Cardinality(Later(poc)) \in Nat
        /\ Cardinality(ShortTerm) = Cardinality(Earlier(poc)) + Cardinality(Later(poc))
        /\ Earlier(poc) # {} => Cardinality(Earlier(poc)) > 0
        /\ Later(poc) # {} => Cardinality(Later(poc)) > 0
    BY <1>2, SplitCount
  <1>7. ASSUME NEW a \in [1 .. Cardinality(ShortTerm) -> ShortTerm], OneEach(a, Cardinality(ShortTerm))
        PROVE  Whole(a \o LongsInOrder) /\ Joined(a \o LongsInOrder, a, Cardinality(ShortTerm), LongsInOrder, AllEntries)
    <2>1. a \o LongsInOrder \in [1 .. Cardinality(inDpb) -> inDpb]
          /\ Joined(a \o LongsInOrder, a, Cardinality(ShortTerm), LongsInOrder, Cardinality(inDpb))
          /\ OneEach(a \o LongsInOrder, Cardinality(inDpb))
      BY <1>1, <1>3, <1>7, JoinWhole
    <2> QED
      BY <2>1 DEF Whole, AllEntries, Joined
  <1>8. ListP(pic[cur].frameNum) = InOrder(ShortTerm, Numbering) \o LongsInOrder
    BY DEF ListP, Numbering
  <1>9. /\ Whole(ListP(pic[cur].frameNum))
        /\ Joined(ListP(pic[cur].frameNum), InOrder(ShortTerm, Numbering), Cardinality(ShortTerm), LongsInOrder, AllEntries)
    BY <1>3, <1>7, <1>8
  <1>10. ASSUME NEW P, NEW Q, NEW p \in [1 .. Cardinality(P) -> P], NEW q \in [1 .. Cardinality(Q) -> Q],
                OneEach(p, Cardinality(P)), OneEach(q, Cardinality(Q)), Splits(ShortTerm, P, Q)
         PROVE  Whole((p \o q) \o LongsInOrder) /\ Begins((p \o q) \o LongsInOrder, p, P)
    <2> DEFINE a == p \o q
    <2>1. /\ a \in [1 .. Cardinality(ShortTerm) -> ShortTerm] /\ Joined(a, p, Cardinality(P), q, Cardinality(ShortTerm))
          /\ OneEach(a, Cardinality(ShortTerm))
      BY <1>10, JoinWhole
    <2>2. /\ Cardinality(P) \in Nat /\ Cardinality(Q) \in Nat /\ Cardinality(ShortTerm) = Cardinality(P) + Cardinality(Q)
          /\ P # {} => Cardinality(P) > 0
      BY <1>10, SplitCount
    <2> HIDE DEF a
    <2>3. Whole(a \o LongsInOrder) /\ Joined(a \o LongsInOrder, a, Cardinality(ShortTerm), LongsInOrder, AllEntries)
      BY <1>7, <2>1
    <2>4. P # {} => 1 \in 1 .. Cardinality(P) /\ 1 \in 1 .. Cardinality(ShortTerm) /\ 1 \in 1 .. AllEntries
                    /\ 1 <= Cardinality(P) /\ 1 <= Cardinality(ShortTerm)
      BY <1>5, <2>2 DEF AllEntries
    <2>5. P # {} => a[1] = p[1]
      BY <2>1, <2>4 DEF Joined
    <2>6. P # {} => (a \o LongsInOrder)[1] = a[1]
      BY <2>3, <2>4 DEF Joined
    <2> QED
      BY <2>3, <2>4, <2>5, <2>6 DEF a, Begins
  <1>11. ListB0(poc) = (Past(poc) \o Future(poc)) \o LongsInOrder
    BY DEF ListB0
  <1>12. Whole(ListB0(poc)) /\ Begins(ListB0(poc), Past(poc), Earlier(poc))
    BY <1>2, <1>3, <1>10, <1>11
  <1>13. /\ Whole((Future(poc) \o Past(poc)) \o LongsInOrder)
         /\ Begins((Future(poc) \o Past(poc)) \o LongsInOrder, Future(poc), Later(poc))
    BY <1>2, <1>3, <1>10
  <1> QED
    BY <1>1, <1>9, <1>12, <1>13

\* Nothing has a smaller key than what comes first.
LEMMA FirstHasLeast ==
  ASSUME NEW S, NEW key, NEW l, Sorts(l, S, key), NEW s \in S, 1 \in 1 .. Cardinality(S)
  PROVE  l[1] \in S /\ (l[1] = s \/ key[l[1]] < key[s])
  <1> DEFINE n == Cardinality(S)
  <1>1. /\ l \in [1 .. n -> S] /\ \A i, j \in 1 .. n : i < j => key[l[i]] < key[l[j]]
        /\ \E i \in 1 .. n : l[i] = s
    BY DEF Sorts
  <1> HIDE DEF n
  <1>2. 1 \in 1 .. n
    BY DEF n
  <1>3. PICK i \in 1 .. n : l[i] = s
    BY <1>1
  <1>4. i = 1 \/ 1 < i
    BY <1>2
  <1> QED
    BY <1>1, <1>2, <1>3, <1>4

\* What is at least, or at most, as large as all others is the largest, or the smallest.
LEMMA ExtremesAre ==
  ASSUME NEW S, S \subseteq Int, NEW x \in S
  PROVE  /\ (\A y \in S : y <= x) => Max(S) = x
         /\ (\A y \in S : x <= y) => Min(S) = x
  <1>1. ASSUME \A y \in S : y <= x PROVE Max(S) = x
    <2>1. \E m \in S : \A y \in S : m >= y
      BY <1>1
    <2>2. Max(S) \in S /\ \A y \in S : Max(S) >= y
      BY <2>1, Zenon DEF Max
    <2>3. PICK m : m = Max(S)
      OBVIOUS
    <2>4. m \in Int /\ m >= x /\ m <= x
      BY <1>1, <2>2, <2>3
    <2> QED
      BY <2>3, <2>4
  <1>2. ASSUME \A y \in S : x <= y PROVE Min(S) = x
    <2>1. \E m \in S : \A y \in S : m <= y
      BY <1>2
    <2>2. Min(S) \in S /\ \A y \in S : Min(S) <= y
      BY <2>1, Zenon DEF Min
    <2>3. PICK m : m = Min(S)
      OBVIOUS
    <2>4. m \in Int /\ m >= x /\ m <= x
      BY <1>2, <2>2, <2>3
    <2> QED
      BY <2>3, <2>4
  <1> QED
    BY <1>1, <1>2

\* References in the order of a P slice: from the latest decoded on, long-term ones last.
LEMMA OrderOfDecoding ==
  ASSUME Refers, Apart, NEW i \in 1 .. AllEntries, NEW j \in 1 .. AllEntries, i < j,
         NEW p, p = ListP(pic[cur].frameNum)
  PROVE  IF pic[p[j]].long = Short
         THEN pic[p[i]].long = Short /\ pic[p[i]].n > pic[p[j]].n
         ELSE pic[p[i]].long < pic[p[j]].long
  <1> DEFINE m == Cardinality(ShortTerm)
             k == Cardinality(LongTerm)
             a == InOrder(ShortTerm, Numbering)
             b == LongsInOrder
  <1>0. cur # NoSlot /\ inDpb \subseteq Slots
    BY DEF Refers, DpbInv, TypeOK
  <1>1. Joined(p, a, m, b, AllEntries) /\ Splits(inDpb, ShortTerm, LongTerm)
    <2>1. 0 \in Int
      OBVIOUS
    <2> QED
      BY <2>1, ListsAre
  <1>2. m \in Nat /\ k \in Nat /\ AllEntries = m + k
    BY <1>1, SplitCount DEF AllEntries
  <1>3. /\ a \in [1 .. m -> ShortTerm] /\ \A x, y \in 1 .. m : x < y => Numbering[a[x]] < Numbering[a[y]]
        /\ b \in [1 .. k -> LongTerm] /\ \A x, y \in 1 .. k : x < y => Longs[b[x]] < Longs[b[y]]
    <2>1. 0 \in Int
      OBVIOUS
    <2> QED
      BY <2>1, PartsAre DEF Sorts
  <1>4. p[i] = (IF i <= m THEN a[i] ELSE b[i - m]) /\ p[j] = IF j <= m THEN a[j] ELSE b[j - m]
    BY <1>1 DEF Joined
  <1> HIDE DEF m, k, a, b
  <1>5. \A s \in ShortTerm : pic[s].long = Short
    BY DEF ShortTerm
  <1>6. \A s \in LongTerm : pic[s].long # Short /\ pic[s].long \in Int /\ pic[s].long > Short /\ Longs[s] = pic[s].long
    <2>1. ASSUME NEW s \in LongTerm
          PROVE  pic[s].long # Short /\ pic[s].long \in Int /\ pic[s].long > Short /\ Longs[s] = pic[s].long
      <3>1. s \in inDpb /\ pic[s].long # Short /\ s \in Slots
        BY <1>0 DEF LongTerm
      <3>2. pic[s].long \in Short .. MaxLong
        BY <3>1, ReferenceIs DEF Refers
      <3> QED
        BY <3>1, <3>2, SizeAssumption DEF Short, Longs
    <2> QED
      BY <2>1
  <1>7. CASE j <= m
    <2>1. i \in 1 .. m /\ j \in 1 .. m /\ p[i] = a[i] /\ p[j] = a[j]
      BY <1>2, <1>4, <1>7
    <2>2. a[i] \in ShortTerm /\ a[j] \in ShortTerm /\ Numbering[a[i]] < Numbering[a[j]]
      BY <1>3, <2>1
    <2>3. /\ Numbering[a[i]] = nRef - pic[a[i]].n - pic[cur].frameNum
          /\ Numbering[a[j]] = nRef - pic[a[j]].n - pic[cur].frameNum
          /\ nRef \in Nat /\ pic[a[i]].n \in Nat /\ pic[a[j]].n \in Nat /\ pic[cur].frameNum \in Int
      BY <2>2, NumberingIs
    <2>4. pic[a[i]].n > pic[a[j]].n
      BY <2>2, <2>3
    <2> QED
      BY <1>5, <2>1, <2>2, <2>4
  <1>8. CASE i <= m /\ m < j
    <2>1. i \in 1 .. m /\ j - m \in 1 .. k /\ p[i] = a[i] /\ p[j] = b[j - m]
      BY <1>2, <1>4, <1>8
    <2>2. a[i] \in ShortTerm /\ b[j - m] \in LongTerm
      BY <1>3, <2>1
    <2> QED
      BY <1>5, <1>6, <2>1, <2>2
  <1>9. CASE m < i
    <2>1. i - m \in 1 .. k /\ j - m \in 1 .. k /\ i - m < j - m /\ p[i] = b[i - m] /\ p[j] = b[j - m]
      BY <1>2, <1>4, <1>9
    <2>2. b[i - m] \in LongTerm /\ b[j - m] \in LongTerm /\ Longs[b[i - m]] < Longs[b[j - m]]
      BY <1>3, <2>1
    <2> QED
      BY <1>6, <2>1, <2>2
  <1> QED
    BY <1>2, <1>7, <1>8, <1>9

\* The lists of a picture are the references in order, and begin with its neighbours in display order.
LEMMA DefaultListsHold == DpbInv /\ Apart => DefaultLists
  <1> SUFFICES ASSUME DpbInv, Apart, InterPicture PROVE DefaultLists
    BY DEF DefaultLists
  <1> DEFINE poc == pic[cur].poc
             l == Future(poc) \o Past(poc) \o LongsInOrder
             p == List0P(AllEntries, <<>>)
             b0 == List0B(AllEntries, <<>>)
             b1 == List1B(AllEntries, <<>>)
             past == {pic[s].poc : s \in {t \in ShortTerm : pic[t].poc < pic[cur].poc}}
             future == {pic[s].poc : s \in {t \in ShortTerm : pic[t].poc > pic[cur].poc}}
  <1>1. Refers /\ cur # NoSlot
    BY DEF InterPicture, Refers, DpbInv, Decoding
  <1>2. /\ cur \in Slots /\ pic \in [Slots -> Pictures] /\ inDpb \subseteq Slots /\ ShortTerm \subseteq inDpb
    BY <1>1 DEF DpbInv, TypeOK, ShortTerm
  <1>3. poc \in Int /\ \A s \in inDpb : pic[s].poc \in Int /\ pic[s].poc # poc
    <2>1. \A s \in Slots : pic[s].poc \in Int
      BY <1>2, SizeAssumption DEF Pictures
    <2>2. \A s \in inDpb : pic[s].poc # pic[cur].poc
      BY <1>1 DEF Apart
    <2> QED
      BY <1>2, <2>1, <2>2
  <1>4. past = {pic[s].poc : s \in Earlier(poc)} /\ future = {pic[s].poc : s \in Later(poc)}
    <2>1. past = {pic[s].poc : s \in Earlier(poc)}
      BY DEF Earlier
    <2>2. {t \in ShortTerm : pic[t].poc > pic[cur].poc} = Later(poc)
      BY <1>2, <1>3 DEF Later
    <2> QED
      BY <2>1, <2>2
  <1> HIDE DEF poc, past, future
  <1>5. /\ Whole(ListP(pic[cur].frameNum)) /\ Whole(ListB0(poc)) /\ Whole(l)
        /\ Begins(ListB0(poc), Past(poc), Earlier(poc)) /\ Begins(l, Future(poc), Later(poc))
    BY <1>1, <1>3, ListsAre
  <1>6. /\ p = ListP(pic[cur].frameNum) /\ b0 = ListB0(poc)
        /\ b1 = RefList(ListB1(poc), AllEntries, <<>>)
    BY <1>5, UnmodifiedIs DEF List0P, List0B, List1B, poc
  <1> HIDE DEF p, b0, b1
  <1>7. DOMAIN p = 1 .. AllEntries
    BY <1>5, <1>6 DEF Whole
  <1>8. \A i, j \in DOMAIN p : i < j =>
          IF pic[p[j]].long = Short
          THEN pic[p[i]].long = Short /\ pic[p[i]].n > pic[p[j]].n
          ELSE pic[p[i]].long < pic[p[j]].long
    BY <1>1, <1>6, <1>7, OrderOfDecoding
  <1>9. /\ Earlier(poc) # {} => /\ Past(poc)[1] \in Earlier(poc) /\ pic[Past(poc)[1]].poc < poc
                                /\ \A s \in Earlier(poc) : pic[s].poc <= pic[Past(poc)[1]].poc
        /\ Later(poc) # {} => /\ Future(poc)[1] \in Later(poc) /\ pic[Future(poc)[1]].poc > poc
                              /\ \A s \in Later(poc) : pic[Future(poc)[1]].poc <= pic[s].poc
    <2>1. Sorts(Past(poc), Earlier(poc), PlacesBack) /\ Sorts(Future(poc), Later(poc), Places)
      BY <1>1, <1>3, PartsAre
    <2>2. Earlier(poc) \subseteq inDpb /\ Later(poc) \subseteq inDpb
      BY <1>2 DEF Earlier, Later
    <2>3. ASSUME NEW s \in Earlier(poc)
          PROVE  Past(poc)[1] \in Earlier(poc) /\ pic[s].poc <= pic[Past(poc)[1]].poc
      <3>1. 1 \in 1 .. Cardinality(Earlier(poc))
        BY <1>5, <2>3 DEF Begins
      <3>2. /\ Past(poc)[1] \in Earlier(poc)
            /\ Past(poc)[1] = s \/ PlacesBack[Past(poc)[1]] < PlacesBack[s]
        BY <2>1, <3>1, FirstHasLeast
      <3>3. PlacesBack[s] = -pic[s].poc /\ PlacesBack[Past(poc)[1]] = -pic[Past(poc)[1]].poc
            /\ pic[s].poc \in Int /\ pic[Past(poc)[1]].poc \in Int
        BY <1>2, <1>3, <2>2, <3>2 DEF PlacesBack
      <3> QED
        BY <3>2, <3>3
    <2>4. ASSUME NEW s \in Later(poc)
          PROVE  Future(poc)[1] \in Later(poc) /\ pic[Future(poc)[1]].poc <= pic[s].poc
      <3>1. 1 \in 1 .. Cardinality(Later(poc))
        BY <1>5, <2>4 DEF Begins
      <3>2. /\ Future(poc)[1] \in Later(poc)
            /\ Future(poc)[1] = s \/ Places[Future(poc)[1]] < Places[s]
        BY <2>1, <3>1, FirstHasLeast
      <3>3. Places[s] = pic[s].poc /\ Places[Future(poc)[1]] = pic[Future(poc)[1]].poc
            /\ pic[s].poc \in Int /\ pic[Future(poc)[1]].poc \in Int
        BY <1>2, <1>3, <2>2, <3>2 DEF Places
      <3> QED
        BY <3>2, <3>3
    <2>5. \A s \in Earlier(poc) : pic[s].poc < poc
      BY DEF Earlier
    <2>6. \A s \in Later(poc) : pic[s].poc > poc
      BY <1>2, <1>3 DEF Later
    <2> QED
      BY <2>3, <2>4, <2>5, <2>6
  <1>10. past # {} => pic[b0[1]].poc = Max(past)
    <2> SUFFICES ASSUME past # {} PROVE pic[b0[1]].poc = Max(past)
      OBVIOUS
    <2>1. Earlier(poc) # {}
      BY <1>4
    <2>2. b0[1] = Past(poc)[1]
      BY <1>5, <1>6, <2>1 DEF Begins
    <2>3. past \subseteq Int /\ pic[Past(poc)[1]].poc \in past /\ \A y \in past : y <= pic[Past(poc)[1]].poc
      BY <1>2, <1>3, <1>4, <1>9, <2>1 DEF Earlier
    <2> QED
      BY <2>2, <2>3, ExtremesAre
  <1>11. past # {} /\ future # {} => pic[b1[1]].poc = Min(future)
    <2> SUFFICES ASSUME past # {}, future # {} PROVE pic[b1[1]].poc = Min(future)
      OBVIOUS
    <2>1. Earlier(poc) # {} /\ Later(poc) # {}
      BY <1>4
    <2>2. l[1] = Future(poc)[1] /\ ListB0(poc)[1] = Past(poc)[1]
      BY <1>5, <2>1 DEF Begins
    <2>3. l # ListB0(poc)
      <3>1. pic[l[1]].poc > poc /\ pic[ListB0(poc)[1]].poc < poc
        BY <1>9, <2>1, <2>2
      <3>2. l[1] \in inDpb /\ ListB0(poc)[1] \in inDpb
        BY <1>2, <1>9, <2>1, <2>2 DEF Earlier, Later
      <3>3. pic[l[1]].poc \in Int /\ pic[ListB0(poc)[1]].poc \in Int
        BY <1>3, <3>2
      <3> HIDE DEF l
      <3> QED
        BY <1>3, <3>1, <3>3
    <2>4. ListB1(poc) = l
      BY <2>3 DEF ListB1
    <2>5. b1[1] = Future(poc)[1]
      BY <1>5, <1>6, <2>2, <2>4, UnmodifiedIs
    <2>6. future \subseteq Int /\ pic[Future(poc)[1]].poc \in future /\ \A y \in future : pic[Future(poc)[1]].poc <= y
      BY <1>2, <1>3, <1>4, <1>9, <2>1 DEF Later
    <2> QED
      BY <2>5, <2>6, ExtremesAre
  <1>12. AllEntries > 1 => b0 # b1
    <2> SUFFICES ASSUME AllEntries > 1 PROVE b0 # b1
      OBVIOUS
    <2>1. CASE l # ListB0(poc)
      <3>1. ListB1(poc) = l
        BY <2>1 DEF ListB1
      <3>2. b1 = l
        BY <1>5, <1>6, <3>1, UnmodifiedIs
      <3> HIDE DEF l
      <3> QED
        BY <1>6, <2>1, <3>2
    <2>2. CASE l = ListB0(poc)
      <3> DEFINE r == <<l[2], l[1]>> \o SubSeq(l, 3, Len(l))
      <3>1. ListB1(poc) = r
        BY <1>5, <2>2 DEF ListB1, Whole
      <3> HIDE DEF l
      <3>2. AllEntries \in Nat
        BY <1>2, FiniteSlots DEF AllEntries
      <3>3. l \in Seq(inDpb) /\ Len(l) = AllEntries /\ l[2] \in inDpb /\ l[1] \in inDpb
        BY <1>5, <3>2 DEF Whole
      <3>4. SubSeq(l, 3, Len(l)) \in Seq(inDpb) /\ <<l[2], l[1]>> \in Seq(inDpb)
        BY <3>2, <3>3
      <3>5. r[1] = l[2] /\ 1 <= Len(r)
        <4> DEFINE u == <<l[2], l[1]>>
                   v == SubSeq(l, 3, Len(l))
        <4>1. u[1] = l[2] /\ Len(u) = 2
          OBVIOUS
        <4> HIDE DEF u, v
        <4>2. u \in Seq(inDpb) /\ v \in Seq(inDpb)
          BY <3>4 DEF u, v
        <4>3. Len(v) \in Nat
          BY <4>2, LenProperties
        <4>4. Len(u \o v) = Len(u) + Len(v)
              /\ \A i \in 1 .. Len(u) + Len(v) : (u \o v)[i] = IF i <= Len(u) THEN u[i] ELSE v[i - Len(u)]
          BY <4>2, ConcatProperties, Zenon
        <4> QED
          BY <4>1, <4>3, <4>4 DEF u, v
      <3>6. b1[1] = l[2]
        <4> HIDE DEF r
        <4>1. 1 \in 1 .. AllEntries
          BY <3>2
        <4> QED
          BY <1>6, <3>1, <3>3, <3>5, <4>1, UnmodifiedIs
      <3>7. l[1] # l[2]
        <4>1. 1 \in 1 .. AllEntries /\ 2 \in 1 .. AllEntries
          BY <3>2
        <4>2. l[1] = l[2] => 1 = 2
          BY <1>5, <4>1 DEF Whole, OneEach
        <4> QED
          BY <4>2
      <3> QED
        BY <1>6, <2>2, <3>6, <3>7
    <2> QED
      BY <2>1, <2>2
  <1> QED
    BY <1>8, <1>10, <1>11, <1>12 DEF DefaultLists, p, b0, b1, past, future

----------------------------------------------------------------------------
(* Modifications *)

\* A number brought back into 0 .. M - 1 from one turn above or below.
LEMMA BroughtBack ==
  ASSUME NEW M \in Nat, NEW c \in 0 .. M - 1, NEW e \in Int, NEW x \in Int,
         x = c + e * M, -M <= x, x <= 2 * M - 1
  PROVE  c = IF x < 0 THEN x + M ELSE IF x >= M THEN x - M ELSE x
  <1> DEFINE em == e * M
  <1>1. em \in Int /\ x = c + em
    OBVIOUS
  <1>2. e >= 2 => \E d \in Nat : em = M + M + d
    <2>1. ASSUME e >= 2 PROVE \E d \in Nat : em = M + M + d
      <3>1. e - 2 \in Nat /\ e = 2 + (e - 2)
        BY <2>1
      <3>2. PICK f \in Nat : e = 2 + f
        BY <3>1
      <3>3. e * M = M + M + f * M /\ f * M \in Nat
        BY <3>2
      <3> QED
        BY <3>3
    <2> QED
      BY <2>1
  <1>3. e <= -2 => \E d \in Nat : em = -M - M - d
    <2>1. ASSUME e <= -2 PROVE \E d \in Nat : em = -M - M - d
      <3>1. -2 - e \in Nat /\ e = -2 - (-2 - e)
        BY <2>1
      <3>2. PICK f \in Nat : e = -2 - f
        BY <3>1
      <3>3. e * M = -M - M - f * M /\ f * M \in Nat
        BY <3>2
      <3> QED
        BY <3>3
    <2> QED
      BY <2>1
  <1>4. (e = 0 => em = 0) /\ (e = 1 => em = M) /\ (e = -1 => em = -M)
    OBVIOUS
  <1>5. e >= 2 \/ e <= -2 \/ e = 0 \/ e = 1 \/ e = -1
    OBVIOUS
  <1> HIDE DEF em
  <1>6. em = 0 \/ em = M \/ em = -M
    BY <1>1, <1>2, <1>3, <1>4, <1>5
  <1> QED
    BY <1>1, <1>6

\* A number sent as a difference modulo MaxFrameNum is found again, whatever the two numbers are.
LEMMA PredictedIs ==
  ASSUME NEW b \in Nat, NEW n \in Nat, NEW m,
         (m.idc = 1 /\ m.val = (n - b - 1) % MaxFrameNum) \/ (m.idc = 0 /\ m.val = (b - n - 1) % MaxFrameNum)
  PROVE  Predicted(b % MaxFrameNum, m) = n % MaxFrameNum
  <1> DEFINE M == MaxFrameNum
             a == b % M
             c == n % M
             up == (n - b - 1) % M
             down == (b - n - 1) % M
             p == b \div M
             q == n \div M
             r == (n - b - 1) \div M
             s == (b - n - 1) \div M
  <1>1. M \in Nat /\ M > 0
    BY SizeAssumption
  <1>2. /\ p \in Int /\ q \in Int /\ r \in Int /\ s \in Int
        /\ b = M * p + a /\ n = M * q + c /\ n - b - 1 = M * r + up /\ b - n - 1 = M * s + down
        /\ a \in 0 .. M - 1 /\ c \in 0 .. M - 1 /\ up \in 0 .. M - 1 /\ down \in 0 .. M - 1
    <2>1. n - b - 1 \in Int /\ b - n - 1 \in Int
      OBVIOUS
    <2> DEFINE x == n - b - 1
               y == b - n - 1
    <2> HIDE DEF M, x, y
    <2>2. \A z \in Int : z \div M \in Int /\ z = M * (z \div M) + (z % M) /\ z % M \in 0 .. M - 1
      BY <1>1
    <2>3. x \in Int /\ y \in Int /\ b \in Int /\ n \in Int
      BY <2>1 DEF x, y
    <2> QED
      BY <2>2, <2>3 DEF x, y
  <1> HIDE DEF M, a, c, up, down, p, q, r, s
  <1>3. CASE m.idc = 1 /\ m.val = up
    <2> DEFINE x == a + (up + 1)
               e == q - p - r
    <2>1. x = c + e * M /\ e \in Int
      <3>1. a = b - M * p /\ c = n - M * q /\ up = n - b - 1 - M * r
        BY <1>1, <1>2
      <3>2. e * M = M * q - M * p - M * r
        BY <1>1, <1>2
      <3>3. M * p \in Int /\ M * q \in Int /\ M * r \in Int
        BY <1>1, <1>2
      <3> QED
        BY <1>2, <3>1, <3>2, <3>3
    <2>2. x \in Int /\ -M <= x /\ x <= 2 * M - 1
      BY <1>1, <1>2
    <2> HIDE DEF x, e
    <2>3. c = IF x < 0 THEN x + M ELSE IF x >= M THEN x - M ELSE x
      BY <1>1, <1>2, <2>1, <2>2, BroughtBack
    <2>4. Predicted(a, m) = IF x < 0 THEN x + M ELSE IF x >= M THEN x - M ELSE x
      BY <1>1, <1>3, <2>2 DEF Predicted, x, M
    <2> QED
      BY <2>3, <2>4 DEF a, c, M
  <1>4. CASE m.idc = 0 /\ m.val = down
    <2> DEFINE x == a - (down + 1)
               e == q - p + s
    <2>1. x = c + e * M /\ e \in Int
      <3>1. a = b - M * p /\ c = n - M * q /\ down = b - n - 1 - M * s
        BY <1>1, <1>2
      <3>2. e * M = M * q - M * p + M * s
        BY <1>1, <1>2
      <3>3. M * p \in Int /\ M * q \in Int /\ M * s \in Int
        BY <1>1, <1>2
      <3> QED
        BY <1>2, <3>1, <3>2, <3>3
    <2>2. x \in Int /\ -M <= x /\ x <= 2 * M - 1
      BY <1>1, <1>2
    <2> HIDE DEF x, e
    <2>3. c = IF x < 0 THEN x + M ELSE IF x >= M THEN x - M ELSE x
      BY <1>1, <1>2, <2>1, <2>2, BroughtBack
    <2>4. Predicted(a, m) = IF x < 0 THEN x + M ELSE IF x >= M THEN x - M ELSE x
      BY <1>1, <1>4, <2>2 DEF Predicted, x, M
    <2> QED
      BY <2>3, <2>4 DEF a, c, M
  <1> QED
    BY <1>3, <1>4 DEF up, down, M

\* The number the i-th move starts from: that of the short-term picture moved last.
From(moves, i) ==
  LET past == {j \in 1 .. i - 1 : moves[j].slot \in ShortTerm}
  IN  IF past = {} THEN nRef ELSE pic[moves[Max(past)].slot].n

\* It is the current one at first, and then changes with every short-term picture.
LEMMA FromIs ==
  ASSUME Refers, NEW m \in Nat, NEW moves \in [1 .. m -> Moves], NEW i \in 1 .. m
  PROVE  /\ From(moves, 1) = nRef
         /\ From(moves, i + 1) = IF moves[i].slot \in ShortTerm THEN pic[moves[i].slot].n ELSE From(moves, i)
  <1> DEFINE P(k) == {j \in 1 .. k - 1 : moves[j].slot \in ShortTerm}
  <1>1. P(1) = {}
    OBVIOUS
  <1>2. moves[i].slot \in ShortTerm => i \in P(i + 1) /\ \A y \in P(i + 1) : y <= i
    OBVIOUS
  <1>3. moves[i].slot \notin ShortTerm => P(i + 1) = P(i)
    <2> SUFFICES ASSUME moves[i].slot \notin ShortTerm, NEW j PROVE j \in P(i + 1) <=> j \in P(i)
      BY Zenon
    <2>1. j \in 1 .. i + 1 - 1 <=> j \in 1 .. i - 1 \/ j = i
      OBVIOUS
    <2> QED
      BY <2>1
  <1>4. P(i + 1) \subseteq Int
    OBVIOUS
  <1>5. \A k : From(moves, k) = IF P(k) = {} THEN nRef ELSE pic[moves[Max(P(k))].slot].n
    BY DEF From
  <1> HIDE DEF P
  <1>6. moves[i].slot \in ShortTerm => Max(P(i + 1)) = i
    BY <1>2, <1>4, ExtremesAre
  <1> QED
    BY <1>1, <1>2, <1>3, <1>5, <1>6

\* What the encoder sends for a move.
Sent(moves, i) ==
  LET p == pic[moves[i].slot]
  IN  IF p.long # Short THEN [idc |-> 2, val |-> p.long]
      ELSE IF moves[i].up THEN [idc |-> 1, val |-> (p.n - From(moves, i) - 1) % MaxFrameNum]
      ELSE [idc |-> 0, val |-> (From(moves, i) - p.n - 1) % MaxFrameNum]

LEMMA EncodedIs ==
  ASSUME NEW moves
  PROVE  Encoded(moves, nRef) = [i \in 1 .. Len(moves) |-> Sent(moves, i)]
  BY DEF Encoded, Sent, From

\* The list, the next place and the predictor, when the first i pictures were moved.
Moved(x, moves, active, i) ==
  /\ x = [list |-> x.list, place |-> i + 1, pred |-> x.pred]
  /\ DOMAIN x.list = 1 .. active /\ Len(x.list) = active
  /\ \A j \in 1 .. i : x.list[j] = moves[j].slot
  /\ x.pred = From(moves, i + 1) % MaxFrameNum /\ From(moves, i + 1) \in Nat

\* A function on 1 .. n is a sequence of n.
LEMMA LengthIs ==
  ASSUME NEW n \in Nat, NEW f, f = [i \in 1 .. n |-> f[i]]
  PROVE  Len(f) = n /\ DOMAIN f = 1 .. n
  <1> DEFINE S == {f[i] : i \in 1 .. n}
  <1>1. f \in [1 .. n -> S]
    OBVIOUS
  <1> HIDE DEF S
  <1>2. f \in Seq(S)
    BY <1>1
  <1> QED
    BY <1>1, <1>2

\* A picture that is moved to a place is there, and those before it stay.
LEMMA MovedTo ==
  ASSUME NEW n \in Nat, NEW list, DOMAIN list = 1 .. n, NEW k \in 1 .. n, NEW t, NEW r, r = MoveTo(list, k, t)
  PROVE  /\ DOMAIN r = 1 .. n /\ Len(r) = n /\ r[k] = t
         /\ \A j \in 1 .. k - 1 : r[j] = list[j]
  <1> DEFINE shifted == [i \in DOMAIN list |-> IF i < k THEN list[i] ELSE IF i = k THEN t ELSE list[i - 1]]
             kept == SelectSeq(SubSeq(shifted, k + 1, Len(list)), LAMBDA s : s # t)
             At(i) == IF i > k /\ i - k <= Len(kept) THEN kept[i - k] ELSE shifted[i]
  <1>1. r = [i \in DOMAIN list |-> At(i)]
    BY DEF MoveTo
  <1>2. \A i \in 1 .. n : i < k => shifted[i] = list[i]
    OBVIOUS
  <1>3. shifted[k] = t
    OBVIOUS
  <1> HIDE DEF shifted, kept
  <1>4. \A i \in 1 .. n : ~ (i > k) => At(i) = shifted[i]
    OBVIOUS
  <1> HIDE DEF At
  <1>5. r = [i \in 1 .. n |-> r[i]] /\ \A i \in 1 .. n : r[i] = At(i)
    BY <1>1
  <1>6. DOMAIN r = 1 .. n /\ Len(r) = n
    BY <1>5, LengthIs
  <1>7. \A j \in 1 .. k - 1 : j \in 1 .. n /\ j < k /\ ~ (j > k)
    OBVIOUS
  <1>8. ~ (k > k)
    OBVIOUS
  <1> QED
    BY <1>2, <1>3, <1>4, <1>5, <1>6, <1>7, <1>8

\* No two short-term references have one PicNum.
LEMMA PicNumTells ==
  ASSUME Refers, NEW s \in ShortTerm, NEW t \in ShortTerm, PicNum(t, pic[cur].frameNum) = PicNum(s, pic[cur].frameNum)
  PROVE  t = s
  <1>1. PICK x, k, a, b : x = pic[cur].frameNum /\ k = nRef /\ a = pic[t].n /\ b = pic[s].n
    OBVIOUS
  <1>2. x - (k - a) = x - (k - b)
    BY <1>1, PicNumIs
  <1>3. x \in Int /\ k \in Int /\ a \in Int /\ b \in Int
    BY <1>1, NumberingIs
  <1>4. a = b
    BY <1>2, <1>3
  <1>5. s \in inDpb /\ t \in inDpb
    BY DEF ShortTerm
  <1> QED
    BY <1>1, <1>4, <1>5 DEF Refers, DpbInv, Referenced

\* The slot that a modification names is the one that was moved.
Target(x, m, frameNum) ==
  IF m.idc = 2 THEN LongWith(inDpb, Longs, m.val)
  ELSE ShortWith(inDpb, Longs, IF Predicted(x.pred, m) > frameNum THEN Predicted(x.pred, m) - MaxFrameNum
                               ELSE Predicted(x.pred, m), frameNum)

LEMMA TargetIs ==
  ASSUME Refers, NEW m \in Nat, NEW moves \in [1 .. m -> Moves], NEW i \in 1 .. m,
         NEW x, x.pred = From(moves, i) % MaxFrameNum, From(moves, i) \in Nat
  PROVE  /\ Target(x, Sent(moves, i), pic[cur].frameNum) = {moves[i].slot}
         /\ (IF Sent(moves, i).idc = 2 THEN x.pred ELSE Predicted(x.pred, Sent(moves, i)))
               = From(moves, i + 1) % MaxFrameNum
         /\ From(moves, i + 1) \in Nat
  <1> DEFINE s == moves[i].slot
             o == Sent(moves, i)
             frameNum == pic[cur].frameNum
  <1>1. s \in inDpb /\ s \in Slots /\ pic[s].n \in Nat
    <2>1. moves[i] \in Moves
      OBVIOUS
    <2>2. s \in inDpb
      BY <2>1 DEF Moves
    <2> QED
      BY <2>2, ReferenceIs DEF Refers
  <1>2. inDpb \subseteq Slots /\ Slots \subseteq Nat
    BY SlotsAre DEF Refers, DpbInv, TypeOK, Slots
  <1>3. From(moves, i + 1) = IF s \in ShortTerm THEN pic[s].n ELSE From(moves, i)
    BY FromIs
  <1>4. \A S \in SUBSET inDpb : S = {s} => FirstOf(S) = {s}
    <2>1. {s} \subseteq Nat /\ {s} # {}
      BY <1>1, <1>2
    <2>2. PICK y \in {s} : FirstOf({s}) = {y}
      BY <2>1, FirstIs
    <2> QED
      BY <2>2
  <1>5. CASE pic[s].long # Short
    <2>1. o = [idc |-> 2, val |-> pic[s].long]
      BY <1>5 DEF Sent
    <2>2. o.idc = 2 /\ o.val = pic[s].long
      BY <2>1
    <2> HIDE DEF o
    <2>3. {t \in inDpb : Longs[t] = pic[s].long} = {s}
      <3>1. \A t \in inDpb : Longs[t] = pic[t].long
        BY <1>2 DEF Longs
      <3>2. \A t \in inDpb : pic[t].long = pic[s].long => t = s
        BY <1>1, <1>5 DEF Refers, DpbInv, Referenced, LongTerm
      <3> QED
        BY <1>1, <3>1, <3>2
    <2>4. LongWith(inDpb, Longs, o.val) = {s}
      BY <1>4, <2>2, <2>3 DEF LongWith
    <2>5. s \notin ShortTerm
      BY <1>5 DEF ShortTerm
    <2> QED
      BY <1>3, <2>2, <2>4, <2>5 DEF Target, o
  <1>6. CASE pic[s].long = Short
    <2>1. s \in ShortTerm
      BY <1>1, <1>6 DEF ShortTerm
    <2>2. \/ o = [idc |-> 1, val |-> (pic[s].n - From(moves, i) - 1) % MaxFrameNum]
          \/ o = [idc |-> 0, val |-> (From(moves, i) - pic[s].n - 1) % MaxFrameNum]
      BY <1>6 DEF Sent
    <2> HIDE DEF o
    <2>3. \/ o.idc = 1 /\ o.val = (pic[s].n - From(moves, i) - 1) % MaxFrameNum
          \/ o.idc = 0 /\ o.val = (From(moves, i) - pic[s].n - 1) % MaxFrameNum
      BY <2>2
    <2>4. Predicted(x.pred, o) = pic[s].n % MaxFrameNum
      BY <1>1, <2>3, PredictedIs
    <2>5. pic[s].frameNum = pic[s].n % MaxFrameNum
      BY <1>1 DEF Refers, DpbInv, Referenced
    <2>6. (IF Predicted(x.pred, o) > frameNum THEN Predicted(x.pred, o) - MaxFrameNum ELSE Predicted(x.pred, o))
             = PicNum(s, frameNum)
      BY <2>4, <2>5 DEF PicNum
    <2>7. {t \in inDpb : Longs[t] = Short /\ PicNum(t, frameNum) = PicNum(s, frameNum)} = {s}
      <3>1. \A t \in inDpb : Longs[t] = pic[t].long
        BY <1>2 DEF Longs
      <3>2. ASSUME NEW t \in ShortTerm, PicNum(t, frameNum) = PicNum(s, frameNum) PROVE t = s
        BY <2>1, <3>2, PicNumTells
      <3>3. \A t \in inDpb : Longs[t] = Short => t \in ShortTerm
        BY <3>1 DEF ShortTerm
      <3> QED
        BY <1>1, <1>6, <3>1, <3>2, <3>3
    <2>8. Target(x, o, frameNum) = {s}
      <3>1. Target(x, o, frameNum) = ShortWith(inDpb, Longs, PicNum(s, frameNum), frameNum)
        BY <2>3, <2>6 DEF Target
      <3> QED
        BY <1>4, <2>7, <3>1 DEF ShortWith
    <2> QED
      BY <1>1, <1>3, <2>1, <2>3, <2>4, <2>8 DEF o
  <1> QED
    BY <1>5, <1>6

\* A modification puts the picture that was moved in the next place.
LEMMA MovesOne ==
  ASSUME Refers, NEW m \in Nat, NEW moves \in [1 .. m -> Moves], NEW active \in Nat, m <= active, NEW i \in 1 .. m,
         NEW x, Moved(x, moves, active, i - 1)
  PROVE  Moved(ModifyOnce(x, Sent(moves, i), pic[cur].frameNum), moves, active, i)
  <1> DEFINE o == Sent(moves, i)
             s == moves[i].slot
             y == ModifyOnce(x, o, pic[cur].frameNum)
             r == MoveTo(x.list, x.place, s)
             pred == IF o.idc = 2 THEN x.pred ELSE Predicted(x.pred, o)
  <1>1. i - 1 + 1 = i /\ i \in 1 .. active /\ i \in Nat
    OBVIOUS
  <1>2. /\ x = [list |-> x.list, place |-> i, pred |-> x.pred]
        /\ DOMAIN x.list = 1 .. active /\ Len(x.list) = active
        /\ \A j \in 1 .. i - 1 : x.list[j] = moves[j].slot
        /\ x.pred = From(moves, i) % MaxFrameNum /\ From(moves, i) \in Nat
    BY <1>1 DEF Moved
  <1>3. x.place = i /\ ~ (x.place > Len(x.list))
    BY <1>1, <1>2
  <1>4. Target(x, o, pic[cur].frameNum) = {s} /\ pred = From(moves, i + 1) % MaxFrameNum /\ From(moves, i + 1) \in Nat
    BY <1>2, TargetIs
  <1>5. (CHOOSE t \in {s} : TRUE) = s
    BY Zenon
  <1>6. y = [list |-> r, place |-> i + 1, pred |-> pred]
    <2>1. y = IF Target(x, o, pic[cur].frameNum) = {} \/ x.place > Len(x.list) THEN [x EXCEPT !.pred = pred]
              ELSE [list |-> MoveTo(x.list, x.place, CHOOSE t \in Target(x, o, pic[cur].frameNum) : TRUE),
                    place |-> x.place + 1, pred |-> pred]
      BY DEF ModifyOnce, Target
    <2> HIDE DEF y, o, s, pred
    <2>2. y = [list |-> MoveTo(x.list, x.place, CHOOSE t \in {s} : TRUE), place |-> x.place + 1, pred |-> pred]
      BY <1>3, <1>4, <2>1, Zenon
    <2> QED
      BY <1>3, <1>5, <2>2, Zenon
  <1>7. DOMAIN r = 1 .. active /\ Len(r) = active /\ r[i] = s /\ \A j \in 1 .. i - 1 : r[j] = x.list[j]
    BY <1>1, <1>2, <1>3, MovedTo
  <1>8. \A j \in 1 .. i : r[j] = moves[j].slot
    <2>1. \A j \in 1 .. i : j \in 1 .. i - 1 \/ j = i
      OBVIOUS
    <2> HIDE DEF r
    <2> QED
      BY <1>2, <1>7, <2>1
  <1>9. y = [list |-> y.list, place |-> i + 1, pred |-> y.pred] /\ y.list = r /\ y.pred = pred
    <2> HIDE DEF y, r, pred
    <2> QED
      BY <1>6
  <1> HIDE DEF y, r, pred
  <1>10. Moved(y, moves, active, i)
    BY <1>4, <1>7, <1>8, <1>9 DEF Moved
  <1> QED
    BY <1>10 DEF y

\* The modifications are applied one after another.
Begun(list, active, frameNum) ==
  [list |-> [k \in 1 .. active |-> IF k <= Len(list) THEN list[k] ELSE NoSlot], place |-> 1, pred |-> frameNum]

LEMMA ModifiedIs ==
  ASSUME NEW list, NEW active, NEW mods, Len(mods) \in Nat, NEW frameNum, list # <<>>, mods # <<>>
  PROVE  \E f : /\ f[0] = Begun(list, active, frameNum)
                /\ \A i \in 1 .. Len(mods) : f[i] = ModifyOnce(f[i - 1], mods[i], frameNum)
                /\ Modified(list, active, mods, frameNum) = f[Len(mods)].list
  <1> DEFINE First == Begun(list, active, frameNum)
             F(k, f) == f = [i \in 0 .. k |-> IF i = 0 THEN First ELSE ModifyOnce(f[i - 1], mods[i], frameNum)]
             after == CHOOSE f : F(Len(mods), f)
  <1>4. Modified(list, active, mods, frameNum) = after[Len(mods)].list
    BY DEF Modified, Begun
  <1> HIDE DEF First
  <1>1. ASSUME NEW k \in Nat PROVE \E f : F(k, f)
    <2> DEFINE S == {m \in Nat : ~ \E f : F(m, f)}
    <2>1. ASSUME S # {} PROVE FALSE
      <3>1. PICK m \in S : \A j \in S : m <= j
        <4> HIDE DEF F
        <4>1. S \in SUBSET Nat
          OBVIOUS
        <4> HIDE DEF S
        <4> QED
          BY <2>1, <4>1, LeastNat
      <3>2. m \in Nat /\ ~ \E f : F(m, f)
        OBVIOUS
      <3>3. CASE m = 0
        <4>1. F(0, [i \in 0 .. 0 |-> First])
          OBVIOUS
        <4> QED
          BY <3>2, <3>3, <4>1, Zenon
      <3>4. CASE m # 0
        <4>1. m - 1 \in Nat /\ m - 1 \notin S
          <5> HIDE DEF S, F
          <5> QED
            BY <3>1, <3>2, <3>4
        <4>2. PICK f : F(m - 1, f)
          <5> HIDE DEF F
          <5> QED
            BY <4>1
        <4> DEFINE g == [i \in 0 .. m |-> IF i < m THEN f[i] ELSE ModifyOnce(f[m - 1], mods[m], frameNum)]
        <4>3. ASSUME NEW i \in 0 .. m
              PROVE  g[i] = IF i = 0 THEN First ELSE ModifyOnce(g[i - 1], mods[i], frameNum)
          <5>1. CASE i = 0
            BY <3>2, <3>4, <4>1, <4>2, <5>1
          <5>2. CASE i # 0 /\ i < m
            <6>1. i \in 0 .. m - 1 /\ i - 1 \in 0 .. m /\ i - 1 < m
              BY <3>2, <5>2
            <6>2. g[i] = f[i] /\ g[i - 1] = f[i - 1]
              BY <6>1, <5>2
            <6>3. f[i] = ModifyOnce(f[i - 1], mods[i], frameNum)
              BY <4>2, <5>2, <6>1
            <6> QED
              BY <5>2, <6>2, <6>3
          <5>3. CASE i = m
            <6>1. m - 1 \in 0 .. m /\ m - 1 < m /\ ~ (m < m)
              BY <3>2, <4>1
            <6>2. g[m] = ModifyOnce(f[m - 1], mods[m], frameNum) /\ g[m - 1] = f[m - 1]
              BY <3>2, <6>1
            <6> QED
              BY <3>4, <5>3, <6>2
          <5> QED
            BY <3>2, <5>1, <5>2, <5>3
        <4>4. F(m, g)
          BY <4>3, Zenon
        <4> QED
          BY <3>2, <4>4
      <3> QED
        BY <3>3, <3>4
    <2> HIDE DEF F
    <2> QED
      BY <2>1
  <1>3. F(Len(mods), after)
    <2> HIDE DEF F
    <2> QED
      BY <1>1, Zenon
  <1> HIDE DEF after
  <1>5. after[0] = First /\ \A i \in 1 .. Len(mods) : after[i] = ModifyOnce(after[i - 1], mods[i], frameNum)
    BY <1>3
  <1> QED
    BY <1>4, <1>5, Zenon DEF First

\* The pictures that were moved are the first of the list.
LEMMA MovedAreFirst == DpbInv /\ Apart => MovedComeFirst
  <1> SUFFICES ASSUME DpbInv, Apart, InterPicture, NEW moves \in SeqOf(Moves, MaxMods)
               PROVE  \A i \in DOMAIN moves : List0P(MaxMods, moves)[i] = moves[i].slot
    BY DEF MovedComeFirst
  <1>1. Refers /\ inDpb # {}
    BY DEF InterPicture, Refers, DpbInv, Decoding
  <1>2. MaxMods \in Nat
    BY SizeAssumption
  <1>3. PICK m \in 0 .. MaxMods : moves \in [1 .. m -> Moves]
    BY DEF SeqOf
  <1>4. m \in Nat /\ m <= MaxMods /\ Len(moves) = m /\ DOMAIN moves = 1 .. m
    BY <1>2, <1>3
  <1> DEFINE list == ListP(pic[cur].frameNum)
             mods == Encoded(moves, nRef)
             frameNum == pic[cur].frameNum
             r == Modified(list, MaxMods, mods, frameNum)
  <1>5. CASE m = 0
    BY <1>4, <1>5
  <1>6. CASE m # 0
    <2>1. mods = [i \in 1 .. m |-> Sent(moves, i)]
      BY <1>4, EncodedIs
    <2>2. Len(mods) = m /\ DOMAIN mods = 1 .. m /\ \A i \in 1 .. m : mods[i] = Sent(moves, i)
      <3> HIDE DEF mods
      <3>1. mods = [i \in 1 .. m |-> mods[i]]
        BY <2>1
      <3> QED
        BY <1>4, <2>1, <3>1, LengthIs
    <2>3. mods # <<>>
      <3> HIDE DEF mods
      <3> QED
        BY <1>4, <1>6, <2>2
    <2>4. list # <<>>
      <3>1. Whole(list)
        <4>1. 0 \in Int
          OBVIOUS
        <4> QED
          BY <1>1, <4>1, ListsAre
      <3>2. IsFiniteSet(inDpb)
        BY FiniteSlots DEF DpbInv, TypeOK
      <3>3. AllEntries # 0
        BY <1>1, <3>2, FS_EmptySet DEF AllEntries
      <3> HIDE DEF list
      <3> QED
        BY <3>1, <3>3 DEF Whole
    <2> HIDE DEF list, mods
    <2>5. PICK f : /\ f[0] = Begun(list, MaxMods, frameNum)
                   /\ \A i \in 1 .. m : f[i] = ModifyOnce(f[i - 1], mods[i], frameNum)
                   /\ r = f[m].list
      BY <1>4, <2>2, <2>3, <2>4, ModifiedIs
    <2>6. Moved(f[0], moves, MaxMods, 0)
      <3> DEFINE l == [k \in 1 .. MaxMods |-> IF k <= Len(list) THEN list[k] ELSE NoSlot]
      <3>1. Len(l) = MaxMods /\ DOMAIN l = 1 .. MaxMods
        <4>1. l = [k \in 1 .. MaxMods |-> l[k]]
          OBVIOUS
        <4> HIDE DEF l
        <4> QED
          BY <1>2, <4>1, LengthIs
      <3>2. f[0] = [list |-> l, place |-> 1, pred |-> frameNum]
        BY <2>5 DEF Begun
      <3> HIDE DEF l
      <3>3. 1 \in 1 .. m
        BY <1>4, <1>6
      <3>4. From(moves, 1) = nRef
        BY <1>1, <1>3, <1>4, <3>3, FromIs
      <3>5. frameNum = nRef % MaxFrameNum /\ nRef \in Nat
        BY <1>1, SizeAssumption DEF Refers, DpbInv, Decoding, TypeOK
      <3>6. f[0].list = l /\ f[0].pred = frameNum /\ 0 + 1 = 1
        BY <3>2
      <3>7. f[0] = [list |-> f[0].list, place |-> 0 + 1, pred |-> f[0].pred]
        BY <3>2, <3>6, Zenon
      <3> QED
        BY <3>1, <3>4, <3>5, <3>6, <3>7 DEF Moved
    <2>7. \A i \in 0 .. m : Moved(f[i], moves, MaxMods, i)
      <3> DEFINE S == {i \in 0 .. m : ~ Moved(f[i], moves, MaxMods, i)}
      <3>1. ASSUME S # {} PROVE FALSE
        <4>1. S \in SUBSET Nat
          BY <1>4
        <4>2. PICK k \in S : \A j \in S : k <= j
          <5> HIDE DEF S
          <5> QED
            BY <3>1, <4>1, LeastNat
        <4>3. k \in 0 .. m /\ ~ Moved(f[k], moves, MaxMods, k) /\ k # 0
          BY <2>6
        <4>4. k \in 1 .. m /\ k - 1 \in 0 .. m /\ ~ (k <= k - 1)
          BY <1>4, <4>3
        <4>5. Moved(f[k - 1], moves, MaxMods, k - 1)
          BY <4>2, <4>4
        <4>6. f[k] = ModifyOnce(f[k - 1], Sent(moves, k), frameNum)
          BY <2>2, <2>5, <4>4
        <4>7. Moved(f[k], moves, MaxMods, k)
          BY <1>1, <1>2, <1>3, <1>4, <4>4, <4>5, <4>6, MovesOne
        <4> QED
          BY <4>3, <4>7
      <3> QED
        BY <3>1
    <2>8. Len(r) = MaxMods /\ \A i \in 1 .. m : r[i] = moves[i].slot
      <3>1. Moved(f[m], moves, MaxMods, m)
        BY <1>4, <2>7
      <3> QED
        BY <2>5, <3>1 DEF Moved
    <2>9. List0P(MaxMods, moves) = Filled(r, MaxMods)
      BY DEF List0P, RefList, list, mods
    <2> HIDE DEF r
    <2>10. \A i \in 1 .. m : moves[i].slot \in inDpb
      BY <1>3 DEF Moves
    <2>11. \A i \in 1 .. m : i \in 1 .. MaxMods /\ i <= MaxMods
      BY <1>2, <1>4
    <2>12. \A i \in 1 .. m : Filled(r, MaxMods)[i] = moves[i].slot
      BY <2>8, <2>10, <2>11 DEF Filled
    <2> QED
      BY <1>4, <2>9, <2>12
  <1> QED
    BY <1>5, <1>6

\* Whatever the stream, the decoder is given lists in the order H.264 asks for, that name the pictures the
\* encoder meant.
THEOREM RefListsRightCorrect == DpbSpec => []RefListsRight
  <1>1. DpbInit => Apart
    BY DEF DpbInit, Apart
  <1>2. DpbInv /\ Apart => RefListsRight
    BY DefaultListsHold, MovedAreFirst DEF RefListsRight
  <1>3. DpbSpec => [](DpbInv /\ Apart)
    BY DpbStart, DpbStep, ApartStep, <1>1, PTL DEF DpbSpec
  <1> QED
    BY <1>2, <1>3, PTL

------------------------------------------------------------------------------
(* What is kept while a session is opened, decodes and is closed *)

\* What the fields of the session name
Owned ==
    demux.got \cup vdec.got \cup rot.got \cup {<<"fb", i>> : i \in fbs}
    \cup (IF ring THEN {<<"ring", 0>>} ELSE {}) \cup (IF pacer THEN {<<"pacer", 0>>} ELSE {})
    \cup (IF decoder = "none" THEN {} ELSE {<<"decoder", 0>>})

Players == [path : BOOLEAN, open : BOOLEAN, running : BOOLEAN, gen : Nat, flags : SUBSET {"lost", "error"},
            inverted : BOOLEAN, smooth : Nat]

SessionTypes ==
    /\ mp \in Players
    /\ chosen \in [yflip : BOOLEAN, smooth : Nat, caps : Nat, flips : Nat]
    /\ {ring, pacer} \subseteq BOOLEAN /\ decoder \in {"none", "runs", "over"}
    /\ pc \in {"idle", "demux", "headers", "ring", "vdec", "rot", "fbs", "threads", "error"}

\* A session is open from the demuxer on, and its thread runs when it is all there.
Phase ==
    /\ pc = "idle" => mp.open = mp.running
    /\ pc # "idle" => mp.open = (pc # "demux") /\ ~mp.running
    /\ mp.running = (decoder # "none")

\* Every step of opening finds empty what it is about to fill.
Stages ==
    /\ ~mp.open => demux.got = {} /\ ~ring
    /\ ~mp.open \/ pc = "headers" => ~ring
    /\ ~mp.open \/ pc \in {"headers", "ring", "vdec"} => vdec.got = {}
    /\ ~mp.open \/ pc \in {"headers", "ring", "vdec", "rot"} => rot.got = {}
    /\ ~mp.open \/ pc \in {"headers", "ring", "vdec", "rot", "fbs"} => fbs = {}
    /\ ~mp.open \/ pc \notin {"idle", "error"} => ~pacer
    /\ pc \in {"rot", "fbs", "threads"} => <<"capbufs", 0>> \in vdec.got
    /\ pc = "rot" => chosen.yflip

\* What mp_close_session relies on: it gives back by way of yflip and the counts.
Returnable ==
    /\ <<"map", 0>> \notin demux.got
    /\ VdecReturns(vdec) = vdec.got
    /\ rot.got # {} => chosen.yflip
    /\ \A i \in fbs : i \in Nat /\ i < Shown
    /\ fbs # {} /\ ~chosen.yflip => <<"capbufs", 0>> \in vdec.got

\* What the decode thread relies on: nothing but an error leaves a slot in use.
SlotsFree ==
    /\ decoder = "runs" \/ pc \in {"rot", "fbs", "threads"} => \A i \in DOMAIN requests : requests[i] = "idle"
    /\ decoder # "over" => kernel = {}
    /\ \A f \in away : /\ f = <<f[1], f[2]>> /\ f[1] \in Nat /\ f[1] <= mp.gen
                       /\ mp.open /\ decoder = "none" => f[1] < mp.gen
                       /\ decoder = "runs" /\ f[1] = mp.gen => f[2] \in busy

SInv == SessionTypes /\ held = Owned /\ Phase /\ Stages /\ Returnable /\ SlotsFree

------------------------------------------------------------------------------
(* The ladders *)

LEMMA Assoc ==
  ASSUME NEW S, NEW x \in Seq(S), NEW y \in Seq(S), NEW z \in Seq(S)
  PROVE  (x \o y) \o z = x \o (y \o z)
  BY ConcatAssociative

\* A ladder of kinds is made of them.
LEMMA EachMade ==
  ASSUME NEW S, NEW kinds \in Seq(S), kinds # <<>>, NEW n \in Nat
  PROVE  Each(kinds, n) \in Seq(S \X Nat) /\ Len(Each(kinds, n)) = n * Len(kinds)
  <1>1. PICK m : m = Len(kinds)
    OBVIOUS
  <1>2. m \in Nat /\ m > 0 /\ n * m \in Nat /\ \A j \in 1 .. m : kinds[j] \in S
    BY <1>1
  <1>3. ASSUME NEW i \in 1 .. n * m
        PROVE  ((i - 1) % m) + 1 \in 1 .. m /\ (i - 1) \div m \in Nat
    <2>1. i - 1 \in Nat
      BY <1>2
    <2>2. \A x \in Nat : x % m \in 0 .. m - 1 /\ x \div m \in Nat
      BY <1>2
    <2> QED
      BY <1>2, <2>1, <2>2
  <1>4. \A i \in 1 .. n * m : <<kinds[((i - 1) % m) + 1], (i - 1) \div m>> \in S \X Nat
    BY <1>2, <1>3
  <1>5. PICK N : N = n * m
    OBVIOUS
  <1>6. Each(kinds, n) = [i \in 1 .. N |-> <<kinds[((i - 1) % m) + 1], (i - 1) \div m>>]
    BY <1>1, <1>5 DEF Each
  <1>7. Each(kinds, n) \in [1 .. N -> S \X Nat] /\ N \in Nat
    BY <1>2, <1>4, <1>5, <1>6
  <1> QED
    BY <1>1, <1>5, <1>7

LEMMA OneMade ==
  ASSUME NEW k
  PROVE  Once(<<k>>) \in Seq({k} \X Nat) /\ Len(Once(<<k>>)) = 1 /\ Once(<<k>>)[1] = <<k, 0>>
  <1>1. <<k>> \in Seq({k}) /\ Len(<<k>>) = 1 /\ <<k>>[1] = k
    OBVIOUS
  <1>2. Once(<<k>>) \in Seq({k} \X Nat) /\ Len(Once(<<k>>)) = 1 * 1
    BY <1>1, EachMade DEF Once
  <1>3. Once(<<k>>)[1] = <<k, 0>>
    <2>1. Once(<<k>>) = [i \in 1 .. 1 |-> <<<<k>>[((i - 1) % 1) + 1], (i - 1) \div 1>>]
      BY <1>1 DEF Once, Each
    <2>2. (1 - 1) % 1 = 0 /\ (1 - 1) \div 1 = 0
      OBVIOUS
    <2> QED
      BY <1>1, <2>1, <2>2
  <1> QED
    BY <1>2, <1>3

LEMMA UptoIs ==
  ASSUME NEW S, NEW ladder \in Seq(S), NEW k \in 0 .. Len(ladder)
  PROVE  Upto(ladder, k) = {ladder[i] : i \in 1 .. k}
  <1>1. SubSeq(ladder, 1, k) = [i \in 1 .. k |-> ladder[i]]
    OBVIOUS
  <1> QED
    BY <1>1 DEF Upto, ToSet

\* What is taken of the second part is taken after its first resource.
LEMMA FirstIsTaken ==
  ASSUME NEW S, NEW T, NEW P \in Seq(S), NEW Q \in Seq(T), Q # <<>>,
         NEW k \in 0 .. Len(P \o Q), NEW r \in Upto(P \o Q, k), r \notin S
  PROVE  Q[1] \in Upto(P \o Q, k)
  <1>1. /\ P \o Q \in Seq(S \cup T) /\ Len(P \o Q) = Len(P) + Len(Q) /\ Len(P) \in Nat /\ Len(Q) \in Nat /\ Len(Q) > 0
        /\ \A i \in 1 .. Len(P) : (P \o Q)[i] = P[i] /\ P[i] \in S
        /\ \A i \in 1 .. Len(Q) : (P \o Q)[Len(P) + i] = Q[i]
    <2>1. P \in Seq(S \cup T) /\ Q \in Seq(S \cup T)
      BY SeqMonotonic
    <2>2. P \o Q \in Seq(S \cup T)
      BY <2>1
    <2> QED
      BY <2>2
  <1>2. Upto(P \o Q, k) = {(P \o Q)[i] : i \in 1 .. k}
    BY <1>1, UptoIs
  <1>3. PICK i \in 1 .. k : r = (P \o Q)[i]
    BY <1>2
  <1>4. ~ (i <= Len(P))
    BY <1>1, <1>3
  <1>5. Len(P) + 1 \in 1 .. k /\ (P \o Q)[Len(P) + 1] = Q[1]
    BY <1>1, <1>3, <1>4
  <1> QED
    BY <1>2, <1>5

OutKinds == {"outbufs", "outmap", "request"}
CapKinds == {"capbufs", "capmap", "dmabuf"}

\* The two places of the ladder of the decoder that a count is stored at.
LEMMA LadderParts ==
  ASSUME NEW caps \in Nat
  PROVE  /\ \E P \in Seq({"video", "media", "setup"} \X Nat), Q \in Seq((OutKinds \cup CapKinds \cup {"stream"}) \X Nat) :
              VdecLadder(caps) = P \o Q /\ Q # <<>> /\ Q[1] = <<"outbufs", 0>>
         /\ \E P \in Seq(({"video", "media", "setup"} \cup OutKinds) \X Nat), Q \in Seq((CapKinds \cup {"stream"}) \X Nat) :
              VdecLadder(caps) = P \o Q /\ Q # <<>> /\ Q[1] = <<"capbufs", 0>>
  <1> DEFINE K == {"video", "media", "setup"} \cup OutKinds \cup CapKinds \cup {"stream"}
  <1>1. PICK a, b, c1, c2, d1, d2, e :
          /\ a = Once(<<"video", "media">>) /\ b = SetupStep
          /\ c1 = Once(<<"outbufs">>) /\ c2 = Each(<<"outmap", "request">>, OutCount)
          /\ d1 = Once(<<"capbufs">>) /\ d2 = Each(<<"capmap", "dmabuf">>, caps) /\ e = StreamStep
    OBVIOUS
  <1>2. /\ a \in Seq({"video", "media"} \X Nat) /\ b \in Seq({"setup"} \X Nat)
        /\ c1 \in Seq({"outbufs"} \X Nat) /\ Len(c1) = 1 /\ c1[1] = <<"outbufs", 0>>
        /\ c2 \in Seq({"outmap", "request"} \X Nat)
        /\ d1 \in Seq({"capbufs"} \X Nat) /\ Len(d1) = 1 /\ d1[1] = <<"capbufs", 0>>
        /\ d2 \in Seq({"capmap", "dmabuf"} \X Nat)
        /\ e \in Seq({"stream"} \X Nat)
    <2>1. \A x, y : <<x, y>> \in Seq({x, y}) /\ <<x, y>> # <<>>
      OBVIOUS
    <2>2. a \in Seq({"video", "media"} \X Nat)
      BY <1>1, <2>1, EachMade DEF Once
    <2>3. c2 \in Seq({"outmap", "request"} \X Nat)
      BY <1>1, <2>1, EachMade, SessionAssumption
    <2>4. d2 \in Seq({"capmap", "dmabuf"} \X Nat)
      BY <1>1, <2>1, EachMade
    <2> QED
      BY <1>1, <2>2, <2>3, <2>4, OneMade DEF SetupStep, StreamStep
  <1>3. /\ a \in Seq(K \X Nat) /\ b \in Seq(K \X Nat) /\ c1 \in Seq(K \X Nat) /\ c2 \in Seq(K \X Nat)
        /\ d1 \in Seq(K \X Nat) /\ d2 \in Seq(K \X Nat) /\ e \in Seq(K \X Nat)
    BY <1>2, SeqMonotonic DEF OutKinds, CapKinds
  <1>4. VdecLadder(caps) = a \o b \o (c1 \o c2) \o (d1 \o d2) \o e
    BY <1>1 DEF VdecLadder, OutSteps, CapSteps
  <1> DEFINE R == K \X Nat
  <1>5. a \in Seq(R) /\ b \in Seq(R) /\ c1 \in Seq(R) /\ c2 \in Seq(R) /\ d1 \in Seq(R) /\ d2 \in Seq(R) /\ e \in Seq(R)
    BY <1>3
  <1> HIDE DEF K, R
  <1>6. \A x, y, z \in Seq(R) : (x \o y) \o z = x \o (y \o z) /\ x \o y \in Seq(R)
    BY ConcatAssociative, ConcatProperties
  <1>7. PICK X, Y, Z, W, V :
          X = a \o b /\ Y = c1 \o c2 /\ Z = d1 \o d2 /\ W = Z \o e /\ V = c2 \o W
    OBVIOUS
  <1>8. X \in Seq(R) /\ Y \in Seq(R) /\ Z \in Seq(R) /\ W \in Seq(R) /\ V \in Seq(R)
    BY <1>5, <1>6, <1>7
  <1>9. VdecLadder(caps) = (X \o Y) \o W /\ VdecLadder(caps) = X \o (c1 \o V)
    <2>1. VdecLadder(caps) = ((X \o Y) \o Z) \o e
      BY <1>4, <1>7
    <2>2. ((X \o Y) \o Z) \o e = (X \o Y) \o W
      <3>1. PICK U : U = X \o Y
        OBVIOUS
      <3>2. U \in Seq(R)
        BY <1>6, <1>8, <3>1
      <3>4. Z \in Seq(R)
        BY <1>8
      <3>5. e \in Seq(R)
        BY <1>5
      <3>3. (U \o Z) \o e = U \o (Z \o e)
        BY <3>2, <3>4, <3>5, Assoc
      <3> QED
        BY <1>7, <3>1, <3>3
    <2>3. (X \o Y) \o W = X \o (Y \o W)
      BY <1>6, <1>8
    <2>4. Y \o W = c1 \o V
      <3>1. (c1 \o c2) \o W = c1 \o (c2 \o W)
        <4>1. c1 \in Seq(R)
          BY <1>5
        <4>2. c2 \in Seq(R)
          BY <1>5
        <4>3. W \in Seq(R)
          BY <1>8
        <4> QED
          BY <4>1, <4>2, <4>3, Assoc
      <3> QED
        BY <1>7, <3>1
    <2> QED
      BY <2>1, <2>2, <2>3, <2>4
  <1>10. W = d1 \o (d2 \o e)
    <2>1. (d1 \o d2) \o e = d1 \o (d2 \o e)
      <3>1. d1 \in Seq(R)
        BY <1>5
      <3>2. d2 \in Seq(R)
        BY <1>5
      <3>3. e \in Seq(R)
        BY <1>5
      <3> QED
        BY <3>1, <3>2, <3>3, Assoc
    <2> QED
      BY <1>7, <2>1
  <1>11. \A x, y \in Seq(R) : Len(x) = 1 => x \o y # <<>> /\ (x \o y)[1] = x[1]
    OBVIOUS
  <1>12. c1 \o V # <<>> /\ (c1 \o V)[1] = <<"outbufs", 0>> /\ W # <<>> /\ W[1] = <<"capbufs", 0>>
    <2>1. d2 \o e \in Seq(R)
      BY <1>5, <1>6
    <2> QED
      BY <1>2, <1>5, <1>8, <1>10, <1>11, <2>1
  <1> DEFINE S1 == {"video", "media", "setup"} \X Nat
             S2 == ({"video", "media", "setup"} \cup OutKinds) \X Nat
             T1 == (OutKinds \cup CapKinds \cup {"stream"}) \X Nat
             T2 == (CapKinds \cup {"stream"}) \X Nat
  <1>13. /\ a \in Seq(S1) /\ b \in Seq(S1)
         /\ a \in Seq(S2) /\ b \in Seq(S2) /\ c1 \in Seq(S2) /\ c2 \in Seq(S2)
         /\ c1 \in Seq(T1) /\ c2 \in Seq(T1) /\ d1 \in Seq(T1) /\ d2 \in Seq(T1) /\ e \in Seq(T1)
         /\ d1 \in Seq(T2) /\ d2 \in Seq(T2) /\ e \in Seq(T2)
    BY <1>2, SeqMonotonic DEF OutKinds, CapKinds
  <1> HIDE DEF S1, S2, T1, T2
  <1>14. \A S : \A x, y \in Seq(S) : x \o y \in Seq(S)
    OBVIOUS
  <1>15. X \in Seq(S1) /\ (X \o Y) \in Seq(S2) /\ (c1 \o V) \in Seq(T1) /\ W \in Seq(T2)
    BY <1>7, <1>13, <1>14
  <1> QED
    BY <1>9, <1>12, <1>15 DEF S1, S2, T1, T2

\* What vdec_close gives back is all that vdec_open took, wherever it stopped.
LEMMA VdecWhole ==
  ASSUME NEW caps \in Nat, NEW k \in 0 .. Len(VdecLadder(caps))
  PROVE  VdecReturns(VdecAfter(VdecLadder(caps), k)) = VdecAfter(VdecLadder(caps), k).got
  <1>1. PICK ladder, v, taken : ladder = VdecLadder(caps) /\ v = VdecAfter(ladder, k) /\ taken = Upto(ladder, k)
    OBVIOUS
  <1>2. ASSUME NEW r \in taken, r[1] \in {"outmap", "request"} PROVE <<"outbufs", 0>> \in taken
    <2>1. PICK P \in Seq({"video", "media", "setup"} \X Nat), Q \in Seq((OutKinds \cup CapKinds \cup {"stream"}) \X Nat) :
            ladder = P \o Q /\ Q # <<>> /\ Q[1] = <<"outbufs", 0>>
      BY <1>1, LadderParts
    <2>2. r \notin {"video", "media", "setup"} \X Nat
      BY <1>2
    <2>3. k \in 0 .. Len(P \o Q) /\ taken = Upto(P \o Q, k)
      BY <1>1, <2>1
    <2>4. Q[1] \in Upto(P \o Q, k)
      BY <1>2, <2>1, <2>2, <2>3, FirstIsTaken
    <2> QED
      BY <2>1, <2>3, <2>4
  <1>3. ASSUME NEW r \in taken, r[1] \in {"capmap", "dmabuf"} PROVE <<"capbufs", 0>> \in taken
    <2>1. PICK P \in Seq(({"video", "media", "setup"} \cup OutKinds) \X Nat), Q \in Seq((CapKinds \cup {"stream"}) \X Nat) :
            ladder = P \o Q /\ Q # <<>> /\ Q[1] = <<"capbufs", 0>>
      BY <1>1, LadderParts
    <2>2. r \notin ({"video", "media", "setup"} \cup OutKinds) \X Nat
      BY <1>3 DEF OutKinds
    <2>3. k \in 0 .. Len(P \o Q) /\ taken = Upto(P \o Q, k)
      BY <1>1, <2>1
    <2>4. Q[1] \in Upto(P \o Q, k)
      BY <1>3, <2>1, <2>2, <2>3, FirstIsTaken
    <2> QED
      BY <2>1, <2>3, <2>4
  <1>4. /\ v.got = {r \in taken : r[1] \notin Checks}
        /\ <<"outbufs", 0>> \in taken => {"outmap", "request"} \subseteq v.counted
        /\ <<"capbufs", 0>> \in taken => {"capmap", "dmabuf"} \subseteq v.counted
    BY <1>1 DEF VdecAfter, Context
  <1>5. \A r \in v.got : r[1] \in {"outmap", "request", "capmap", "dmabuf"} => r[1] \in v.counted
    BY <1>2, <1>3, <1>4
  <1>6. VdecReturns(v) = v.got
    BY <1>5 DEF VdecReturns
  <1> QED
    BY <1>1, <1>6

\* A decoder that is open has its capture buffers.
LEMMA VdecHasBuffers ==
  ASSUME NEW caps \in Nat
  PROVE  /\ Len(VdecLadder(caps)) \in Nat
         /\ <<"capbufs", 0>> \in VdecAfter(VdecLadder(caps), Len(VdecLadder(caps))).got
  <1>1. PICK P \in Seq(({"video", "media", "setup"} \cup OutKinds) \X Nat), Q \in Seq((CapKinds \cup {"stream"}) \X Nat) :
          VdecLadder(caps) = P \o Q /\ Q # <<>> /\ Q[1] = <<"capbufs", 0>>
    BY LadderParts
  <1> DEFINE R == ({"video", "media", "setup"} \cup OutKinds \cup CapKinds \cup {"stream"}) \X Nat
  <1>2. P \in Seq(R) /\ Q \in Seq(R)
    BY SeqMonotonic
  <1> HIDE DEF R
  <1>3. PICK ladder : ladder = P \o Q
    OBVIOUS
  <1>4. /\ ladder \in Seq(R) /\ Len(ladder) \in Nat /\ Len(P) + 1 \in 1 .. Len(ladder)
        /\ ladder[Len(P) + 1] = <<"capbufs", 0>>
    BY <1>1, <1>2, <1>3
  <1>5. <<"capbufs", 0>> \in Upto(ladder, Len(ladder))
    <2>1. Len(ladder) \in 0 .. Len(ladder)
      BY <1>4
    <2>2. Upto(ladder, Len(ladder)) = {ladder[i] : i \in 1 .. Len(ladder)}
      BY <1>4, <2>1, UptoIs
    <2>3. ladder[Len(P) + 1] \in {ladder[i] : i \in 1 .. Len(ladder)}
      BY <1>4
    <2> QED
      BY <1>4, <2>2, <2>3
  <1>6. <<"capbufs", 0>> \in VdecAfter(ladder, Len(ladder)).got
    BY <1>5 DEF VdecAfter, Context, Checks
  <1> QED
    BY <1>1, <1>3, <1>4, <1>6

\* Nothing that the demuxer takes is a check.
LEMMA DemuxMade ==
  /\ Len(DemuxLadder) = 5
  /\ \A k \in 0 .. 5 : \A r \in Upto(DemuxLadder, k) : r[1] \notin Checks
  <1> DEFINE S == {"file", "map", "samples", "extradata", "sample_buf"}
             kinds == <<"file", "map", "samples", "extradata", "sample_buf">>
  <1>1. kinds \in Seq(S) /\ Len(kinds) = 5 /\ kinds # <<>>
    OBVIOUS
  <1>2. DemuxLadder = Each(kinds, 1)
    BY DEF DemuxLadder, Once
  <1> HIDE DEF kinds, S
  <1>3. DemuxLadder \in Seq(S \X Nat) /\ Len(DemuxLadder) = 5
    <2>1. Each(kinds, 1) \in Seq(S \X Nat) /\ Len(Each(kinds, 1)) = 1 * Len(kinds)
      BY <1>1, EachMade
    <2> QED
      BY <1>1, <1>2, <2>1
  <1>4. ASSUME NEW k \in 0 .. 5, NEW r \in Upto(DemuxLadder, k) PROVE r \in S \X Nat
    <2>1. Upto(DemuxLadder, k) = {DemuxLadder[i] : i \in 1 .. k}
      BY <1>3, UptoIs
    <2>2. \A i \in 1 .. 5 : DemuxLadder[i] \in S \X Nat
      <3>1. 1 .. 5 = 1 .. Len(DemuxLadder)
        BY <1>3
      <3>2. \A i \in 1 .. Len(DemuxLadder) : DemuxLadder[i] \in S \X Nat
        BY <1>3, ElementOfSeq, Zenon
      <3> QED
        BY <3>1, <3>2, Zenon
    <2> QED
      BY <2>1, <2>2
  <1> QED
    BY <1>3, <1>4 DEF S, Checks

LEMMA BudgetTyped ==
  ASSUME SessionTypes, NEW s \in Streams
  PROVE  Budget(s) \in [yflip : BOOLEAN, smooth : Nat, caps : Nat, flips : Nat]
  <1>1. /\ s.vui \in BOOLEAN /\ s.large \in BOOLEAN /\ s.dec \in Nat /\ s.ref \in Nat
        /\ ReorderDepth \in Nat /\ CapMin \in Nat /\ Hold \in Nat /\ mp.smooth \in Nat /\ mp.inverted \in BOOLEAN
        /\ CapLarge \in Nat /\ CapSmall \in Nat /\ MaxCap \in Nat /\ CapLarge <= MaxCap /\ CapSmall <= MaxCap
    BY SessionAssumption DEF SessionTypes, Players
  <1> DEFINE want == IF s.vui THEN s.dec + 4 ELSE s.ref + AtLeast(s.ref, ReorderDepth) + 3
             fit == AtMost(AtLeast(want, CapMin), IF s.large THEN CapLarge ELSE CapSmall)
             smooth == AtMost(mp.smooth, MaxCap - fit)
             flips == Hold + smooth
             caps == IF ~mp.inverted THEN fit + smooth
                     ELSE IF fit + smooth > flips + CapMin THEN fit + smooth - flips ELSE CapMin
  <1>2. want \in Nat
    BY <1>1 DEF AtLeast
  <1>3. fit \in Nat /\ fit <= MaxCap
    <2> HIDE DEF want
    <2> QED
      BY <1>1, <1>2 DEF AtMost, AtLeast
  <1> HIDE DEF fit
  <1>4. smooth \in Nat
    BY <1>1, <1>3 DEF AtMost
  <1> HIDE DEF smooth
  <1>5. flips \in Nat /\ caps \in Nat
    BY <1>1, <1>3, <1>4
  <1>6. Budget(s) = [yflip |-> mp.inverted, smooth |-> smooth, caps |-> caps, flips |-> IF mp.inverted THEN flips ELSE 0]
    BY DEF Budget, fit, smooth
  <1> HIDE DEF flips, caps
  <1> QED
    BY <1>1, <1>4, <1>5, <1>6

LEMMA SessionStarts == SessionInit => SInv
  <1> SUFFICES ASSUME SessionInit PROVE SInv
    OBVIOUS
  <1>1. \A m : Reserve(m) \in Nat
    BY SessionAssumption DEF Reserve
  <1>2. mp \in Players /\ mp.open = FALSE /\ mp.running = FALSE
    <2>1. /\ mp = [path |-> mp.path, open |-> mp.open, running |-> mp.running, gen |-> mp.gen, flags |-> mp.flags,
                   inverted |-> mp.inverted, smooth |-> mp.smooth]
          /\ mp.path = FALSE /\ mp.open = FALSE /\ mp.running = FALSE /\ mp.gen = 0 /\ mp.flags = {}
          /\ mp.inverted \in BOOLEAN /\ mp.smooth \in {Reserve(m) : m \in Memories}
      BY DEF SessionInit
    <2>2. mp.smooth \in Nat
      BY <1>1, <2>1
    <2>3. mp.path \in BOOLEAN /\ mp.open \in BOOLEAN /\ mp.running \in BOOLEAN
      BY <2>1, Zenon
    <2>4. mp.gen \in Nat /\ mp.flags \in SUBSET {"lost", "error"} /\ mp.inverted \in BOOLEAN
      BY <2>1
    <2>5. mp \in Players
      BY <2>1, <2>2, <2>3, <2>4 DEF Players
    <2> QED
      BY <2>1, <2>5
  <1>3. SessionTypes
    BY <1>2 DEF SessionInit, SessionTypes, NoBudget
  <1>4. demux.got = {} /\ vdec.got = {} /\ rot.got = {} /\ fbs = {} /\ ~ring /\ ~pacer /\ decoder = "none" /\ held = {} /\ pc = "idle"
    BY DEF SessionInit, Zero
  <1>5. held = Owned
    <2>1. {<<"fb", i>> : i \in fbs} = {}
      BY <1>4
    <2> QED
      BY <1>4, <2>1 DEF Owned
  <1>6. Phase /\ Stages
    BY <1>2, <1>4 DEF Phase, Stages
  <1>7. Returnable
    BY <1>4 DEF Returnable, VdecReturns
  <1>8. SlotsFree
    BY <1>4 DEF SlotsFree, SessionInit
  <1> QED
    BY <1>3, <1>5, <1>6, <1>7, <1>8 DEF SInv

\* A step that leaves to the session what it owns leaves it named.
LEMMA OwnKept ==
  ASSUME SInv, UNCHANGED <<demux, vdec, rot, fbs, ring, pacer, held>>, (decoder' = "none") = (decoder = "none")
  PROVE  (held = Owned)'
  BY DEF SInv, Owned

LEMMA SetVideoSound == SInv /\ SetVideo => SInv'
  <1> SUFFICES ASSUME SInv, SetVideo PROVE SInv'
    OBVIOUS
  <1>1. UNCHANGED <<pc, chosen, decoder, held, demux, vdec, rot, fbs, ring, pacer, requests, turn, kernel, busy, away>>
    BY DEF SetVideo, ownVars, devVars
  <1>2. (held = Owned)'
    BY <1>1, OwnKept
  <1>4. mp' \in Players /\ mp'.open = mp.open /\ mp'.running = mp.running /\ mp'.gen = mp.gen
    BY DEF SetVideo, SInv, SessionTypes, Players
  <1>5. SessionTypes'
    BY <1>1, <1>4 DEF SInv, SessionTypes
  <1>6. Phase' /\ Stages' /\ Returnable' /\ SlotsFree'
    BY <1>1, <1>4 DEF SInv, Phase, Stages, Returnable, SlotsFree, VdecReturns, Shown
  <1> QED
    BY <1>2, <1>5, <1>6 DEF SInv

LEMMA PrepareSound == SInv /\ Prepare => SInv'
  <1> SUFFICES ASSUME SInv, Prepare PROVE SInv'
    OBVIOUS
  <1>1. UNCHANGED <<chosen, decoder, held, demux, vdec, rot, fbs, ring, pacer, requests, turn, kernel, busy, away>>
    BY DEF Prepare, ownVars, devVars
  <1>2. (held = Owned)'
    BY <1>1, OwnKept
  <1>3. pc = "idle" /\ pc' = "demux" /\ ~mp.running /\ ~mp.open
    BY DEF Prepare, SInv, Phase
  <1>4. mp' \in Players /\ mp'.open = mp.open /\ mp'.running = mp.running /\ mp'.gen = mp.gen
    BY DEF Prepare, SInv, SessionTypes, Players
  <1>5. SessionTypes'
    BY <1>1, <1>3, <1>4 DEF SInv, SessionTypes
  <1>6. Phase' /\ Stages' /\ Returnable' /\ SlotsFree'
    BY <1>1, <1>3, <1>4 DEF SInv, Phase, Stages, Returnable, SlotsFree, VdecReturns, Shown
  <1> QED
    BY <1>2, <1>5, <1>6 DEF SInv

\* What an opening that fails at the demuxer took it has given back.
LEMMA DemuxFailsSound == ASSUME SInv, NEW k \in 0 .. Len(DemuxLadder) - 1, DemuxFails(k) PROVE SInv'
  <1>1. UNCHANGED <<mp, chosen, decoder, vdec, rot, fbs, ring, pacer, requests, turn, kernel, busy, away>>
    BY DEF DemuxFails, devVars
  <1>2. /\ pc = "demux" /\ pc' = "idle" /\ demux'.got = {}
        /\ ~mp.running /\ ~mp.open /\ decoder = "none" /\ ~ring /\ ~pacer
        /\ demux.got = {} /\ vdec.got = {} /\ rot.got = {} /\ fbs = {}
    BY DEF DemuxFails, SInv, Phase, Stages, Closed, Context
  <1>3. {<<"fb", i>> : i \in fbs} = {}
    BY <1>2
  <1>4. held = {}
    BY <1>2, <1>3 DEF SInv, Owned
  <1>5. held' = {}
    <2>1. PICK got : got = Upto(DemuxLadder, k)
      OBVIOUS
    <2>2. k \in 0 .. 5
      BY DemuxMade
    <2>3. \A r \in got : r[1] \notin Checks
      BY <2>1, <2>2, DemuxMade
    <2>4. Context(got, {}).got = got
      BY <2>3 DEF Context
    <2>5. held' = (held \cup got) \ (DemuxReturns(Context(got, {})) \cup {<<"extradata", 0>>})
      BY <2>1 DEF DemuxFails
    <2>6. got \subseteq DemuxReturns(Context(got, {})) \cup {<<"extradata", 0>>}
      BY <2>4 DEF DemuxReturns
    <2> QED
      BY <1>4, <2>5, <2>6
  <1>6. (held = Owned)'
    <2>1. {<<"fb", i>> : i \in fbs'} = {}
      BY <1>1, <1>3
    <2> QED
      BY <1>1, <1>2, <1>5, <2>1 DEF Owned
  <1>7. SessionTypes'
    BY <1>1, <1>2 DEF SInv, SessionTypes
  <1>8. Phase' /\ Stages' /\ Returnable' /\ SlotsFree'
    BY <1>1, <1>2 DEF SInv, Phase, Stages, Returnable, SlotsFree, VdecReturns, Shown
  <1> QED
    BY <1>6, <1>7, <1>8 DEF SInv

LEMMA DemuxOpensSound == SInv /\ DemuxOpens => SInv'
  <1> SUFFICES ASSUME SInv, DemuxOpens PROVE SInv'
    OBVIOUS
  <1>1. UNCHANGED <<chosen, decoder, vdec, rot, fbs, ring, pacer, requests, turn, kernel, busy, away>>
    BY DEF DemuxOpens, devVars
  <1>2. /\ pc = "demux" /\ pc' = "headers" /\ held' = held \cup demux'.got
        /\ ~mp.running /\ ~mp.open /\ decoder = "none" /\ ~ring /\ ~pacer
        /\ demux.got = {} /\ vdec.got = {} /\ rot.got = {} /\ fbs = {}
    BY DEF DemuxOpens, SInv, Phase, Stages
  <1>3. <<"map", 0>> \notin demux'.got
    BY DEF DemuxOpens, Context
  <1>4. (held = Owned)'
    <2>1. {<<"fb", i>> : i \in fbs} = {} /\ {<<"fb", i>> : i \in fbs'} = {}
      BY <1>1, <1>2
    <2>2. held = {} /\ Owned' = demux'.got
      BY <1>1, <1>2, <2>1 DEF SInv, Owned
    <2> QED
      BY <1>2, <2>2
  <1>5. mp' \in Players /\ mp'.open = TRUE /\ mp'.running = FALSE /\ mp'.gen = mp.gen + 1 /\ mp.gen \in Nat
    <2>1. mp' = [mp EXCEPT !.open = TRUE, !.gen = mp.gen + 1] /\ mp \in Players
      BY DEF DemuxOpens, SInv, SessionTypes
    <2>2. mp.gen + 1 \in Nat /\ mp.gen \in Nat /\ mp.running = FALSE
      BY <1>2, <2>1 DEF Players
    <2> QED
      BY <2>1, <2>2 DEF Players
  <1>6. SessionTypes'
    BY <1>1, <1>2, <1>5 DEF SInv, SessionTypes
  <1>7. Phase' /\ Stages' /\ Returnable'
    BY <1>1, <1>2, <1>3, <1>5 DEF SInv, Phase, Stages, Returnable, VdecReturns, Shown
  <1>8. SlotsFree'
    <2>1. \A f \in away : f = <<f[1], f[2]>> /\ f[1] \in Nat /\ f[1] <= mp.gen
      BY DEF SInv, SlotsFree
    <2>2. \A f \in away : f[1] <= mp.gen + 1 /\ f[1] < mp.gen + 1
      BY <1>5, <2>1
    <2> QED
      BY <1>1, <1>2, <1>5, <2>1, <2>2 DEF SInv, SlotsFree
  <1> QED
    BY <1>4, <1>6, <1>7, <1>8 DEF SInv

LEMMA HeadersFailSound == SInv /\ HeadersFail => SInv'
  <1> SUFFICES ASSUME SInv, HeadersFail PROVE SInv'
    OBVIOUS
  <1>1. UNCHANGED <<mp, decoder, held, demux, vdec, rot, fbs, ring, pacer, requests, turn, kernel, busy, away>>
    BY DEF HeadersFail, ownVars, devVars
  <1>2. (held = Owned)'
    BY <1>1, OwnKept
  <1>3. pc = "headers" /\ pc' = "error" /\ mp.open /\ ~mp.running /\ rot.got = {} /\ fbs = {}
    BY DEF HeadersFail, SInv, Phase, Stages
  <1>4. chosen' \in [yflip : BOOLEAN, smooth : Nat, caps : Nat, flips : Nat]
    BY DEF HeadersFail, SInv, SessionTypes, Players
  <1>5. SessionTypes'
    BY <1>1, <1>3, <1>4 DEF SInv, SessionTypes
  <1>6. Phase' /\ Stages' /\ Returnable' /\ SlotsFree'
    BY <1>1, <1>3 DEF SInv, Phase, Stages, Returnable, SlotsFree, VdecReturns
  <1> QED
    BY <1>2, <1>5, <1>6 DEF SInv

LEMMA HeadersPassSound == ASSUME SInv, NEW s \in Streams, HeadersPass(s) PROVE SInv'
  <1>1. UNCHANGED <<mp, decoder, held, demux, vdec, rot, fbs, ring, pacer, requests, turn, kernel, busy, away>>
    BY DEF HeadersPass, ownVars, devVars
  <1>2. (held = Owned)'
    BY <1>1, OwnKept
  <1>3. pc = "headers" /\ pc' = "ring" /\ mp.open /\ ~mp.running /\ rot.got = {} /\ fbs = {} /\ vdec.got = {} /\ ~pacer
    BY DEF HeadersPass, SInv, Phase, Stages
  <1>4. chosen' \in [yflip : BOOLEAN, smooth : Nat, caps : Nat, flips : Nat]
    BY BudgetTyped DEF HeadersPass, SInv
  <1>5. SessionTypes'
    BY <1>1, <1>3, <1>4 DEF SInv, SessionTypes
  <1>6. Phase' /\ Stages' /\ Returnable' /\ SlotsFree'
    BY <1>1, <1>3 DEF SInv, Phase, Stages, Returnable, SlotsFree, VdecReturns
  <1> QED
    BY <1>2, <1>5, <1>6 DEF SInv

LEMMA NoDecoderSound == SInv /\ NoDecoder => SInv'
  <1> SUFFICES ASSUME SInv, NoDecoder PROVE SInv'
    OBVIOUS
  <1>1. UNCHANGED <<mp, chosen, decoder, held, demux, vdec, rot, fbs, ring, pacer, requests, turn, kernel, busy, away>>
    BY DEF NoDecoder, ownVars, devVars
  <1>2. (held = Owned)'
    BY <1>1, OwnKept
  <1>3. pc = "vdec" /\ pc' = "error" /\ mp.open /\ ~mp.running
    BY DEF NoDecoder, SInv, Phase
  <1>4. SessionTypes' /\ Phase' /\ Stages' /\ Returnable' /\ SlotsFree'
    BY <1>1, <1>3 DEF SInv, SessionTypes, Phase, Stages, Returnable, SlotsFree, VdecReturns, Shown
  <1> QED
    BY <1>2, <1>4 DEF SInv

LEMMA RingOpensSound == SInv /\ RingOpens => SInv'
  <1> SUFFICES ASSUME SInv, RingOpens PROVE SInv'
    OBVIOUS
  <1>1. UNCHANGED <<mp, chosen, decoder, demux, vdec, rot, fbs, pacer, requests, turn, kernel, busy, away>>
    BY DEF RingOpens, devVars
  <1>2. pc = "ring" /\ mp.open = TRUE /\ mp.running = FALSE /\ vdec.got = {} /\ rot.got = {} /\ fbs = {} /\ ~pacer
    BY DEF RingOpens, SInv, Phase, Stages, SessionTypes, Players
  <1>3. \/ pc' = "vdec" /\ ring' = TRUE /\ held' = held \cup {<<"ring", 0>>}
        \/ pc' \in {"vdec", "error"} /\ UNCHANGED <<ring, held>>
    BY DEF RingOpens
  <1>4. (held = Owned)'
    BY <1>1, <1>3 DEF SInv, Owned
  <1>5. SessionTypes'
    BY <1>1, <1>3 DEF SInv, SessionTypes
  <1>6. Phase' /\ Stages' /\ Returnable' /\ SlotsFree'
    BY <1>1, <1>2, <1>3 DEF SInv, Phase, Stages, Returnable, SlotsFree, VdecReturns, Shown
  <1> QED
    BY <1>4, <1>5, <1>6 DEF SInv

\* Wherever vdec_open stops, its vdec_close gives back what it took.
LEMMA VdecFailsSound == ASSUME SInv, NEW k \in 0 .. Len(VdecLadder(chosen.caps)) - 1, VdecFails(k) PROVE SInv'
  <1>1. UNCHANGED <<mp, chosen, decoder, demux, rot, fbs, ring, pacer, requests, turn, kernel, busy, away>>
    BY DEF VdecFails, devVars
  <1>2. pc = "vdec" /\ pc' = "error" /\ mp.open = TRUE /\ mp.running = FALSE /\ vdec.got = {} /\ rot.got = {} /\ fbs = {} /\ ~pacer
    BY DEF VdecFails, SInv, Phase, Stages, SessionTypes, Players
  <1>3. vdec'.got = {} /\ vdec' = Closed
    BY DEF VdecFails, Closed, Context
  <1>4. held' = held
    <2>1. chosen.caps \in Nat
      BY DEF SInv, SessionTypes
    <2>2. PICK n : n = Len(VdecLadder(chosen.caps)) /\ n \in Nat
      BY <2>1, VdecHasBuffers
    <2>3. k \in 0 .. n
      BY <2>2
    <2>4. PICK v : v = VdecAfter(VdecLadder(chosen.caps), k)
      OBVIOUS
    <2>5. VdecReturns(v) = v.got
      BY <2>1, <2>2, <2>3, <2>4, VdecWhole
    <2>6. held' = held \cup (v.got \ VdecReturns(v))
      BY <2>4 DEF VdecFails
    <2> QED
      BY <2>5, <2>6
  <1>5. (held = Owned)'
    BY <1>1, <1>2, <1>3, <1>4 DEF SInv, Owned
  <1>6. SessionTypes'
    BY <1>1, <1>2 DEF SInv, SessionTypes
  <1>7. Phase' /\ Stages' /\ Returnable' /\ SlotsFree'
    BY <1>1, <1>2, <1>3 DEF SInv, Phase, Stages, Returnable, SlotsFree, VdecReturns, Shown
  <1> QED
    BY <1>5, <1>6, <1>7 DEF SInv

LEMMA VdecOpensSound == SInv /\ VdecOpens => SInv'
  <1> SUFFICES ASSUME SInv, VdecOpens PROVE SInv'
    OBVIOUS
  <1>1. UNCHANGED <<mp, chosen, decoder, demux, rot, fbs, ring, pacer, kernel, busy, away>>
    BY DEF VdecOpens
  <1>2. /\ pc = "vdec" /\ pc' \in {"rot", "fbs"} /\ mp.open = TRUE /\ mp.running = FALSE
        /\ vdec.got = {} /\ rot.got = {} /\ fbs = {} /\ ~pacer /\ held' = held \cup vdec'.got
        /\ \A i \in DOMAIN requests' : requests'[i] = "idle"
        /\ (pc' = "rot" => chosen.yflip)
    BY DEF VdecOpens, SInv, Phase, Stages, SessionTypes, Players
  <1>3. <<"capbufs", 0>> \in vdec'.got /\ VdecReturns(vdec') = vdec'.got
    <2>1. chosen.caps \in Nat
      BY DEF SInv, SessionTypes
    <2>2. PICK n : n = Len(VdecLadder(chosen.caps)) /\ n \in Nat
      BY <2>1, VdecHasBuffers
    <2>3. n \in 0 .. n /\ vdec' = VdecAfter(VdecLadder(chosen.caps), n)
      BY <2>2 DEF VdecOpens
    <2> QED
      BY <2>1, <2>2, <2>3, VdecHasBuffers, VdecWhole
  <1>4. (held = Owned)'
    BY <1>1, <1>2 DEF SInv, Owned
  <1>5. SessionTypes'
    BY <1>1, <1>2 DEF SInv, SessionTypes
  <1>6. Phase' /\ Stages'
    BY <1>1, <1>2, <1>3 DEF SInv, Phase, Stages
  <1>7. Returnable'
    BY <1>1, <1>2, <1>3 DEF SInv, Returnable, Shown
  <1>8. SlotsFree'
    BY <1>1, <1>2 DEF SInv, SlotsFree
  <1> QED
    BY <1>4, <1>5, <1>6, <1>7, <1>8 DEF SInv

\* sdrot_open stops somewhere, or there is no rotator: nothing of it stays.
LEMMA RotClosedSound ==
  ASSUME SInv, NoRotator \/ \E k \in 0 .. Len(RotLadder(chosen.flips)) - 1 : RotFails(k)
  PROVE  SInv'
  <1>1. UNCHANGED <<mp, chosen, decoder, held, demux, vdec, fbs, ring, pacer, requests, turn, kernel, busy, away>>
    BY DEF RotFails, NoRotator, RotReturns, devVars
  <1>2. /\ pc = "rot" /\ pc' = "error" /\ mp.open = TRUE /\ mp.running = FALSE /\ rot.got = {} /\ fbs = {} /\ ~pacer
        /\ rot'.got = {}
    BY DEF RotFails, NoRotator, SInv, Phase, Stages, SessionTypes, Players, Closed, Context
  <1>3. (held = Owned)'
    BY <1>1, <1>2 DEF SInv, Owned
  <1>4. SessionTypes'
    BY <1>1, <1>2 DEF SInv, SessionTypes
  <1>5. Phase' /\ Stages' /\ Returnable' /\ SlotsFree'
    BY <1>1, <1>2 DEF SInv, Phase, Stages, Returnable, SlotsFree, VdecReturns, Shown
  <1> QED
    BY <1>3, <1>4, <1>5 DEF SInv

LEMMA RotOpensSound == SInv /\ RotOpens => SInv'
  <1> SUFFICES ASSUME SInv, RotOpens PROVE SInv'
    OBVIOUS
  <1>1. UNCHANGED <<mp, chosen, decoder, demux, vdec, fbs, ring, pacer, requests, turn, kernel, busy, away>>
    BY DEF RotOpens, devVars
  <1>2. /\ pc = "rot" /\ pc' = "fbs" /\ mp.open = TRUE /\ mp.running = FALSE /\ rot.got = {} /\ fbs = {} /\ ~pacer
        /\ chosen.yflip
        /\ held' = held \cup rot'.got
    BY DEF RotOpens, SInv, Phase, Stages, SessionTypes, Players
  <1>3. (held = Owned)'
    BY <1>1, <1>2 DEF SInv, Owned
  <1>4. SessionTypes'
    BY <1>1, <1>2 DEF SInv, SessionTypes
  <1>5. Phase' /\ Stages' /\ Returnable' /\ SlotsFree'
    BY <1>1, <1>2 DEF SInv, Phase, Stages, Returnable, SlotsFree, VdecReturns, Shown
  <1> QED
    BY <1>3, <1>4, <1>5 DEF SInv

LEMMA ImportsSound == ASSUME SInv, NEW n \in 0 .. Shown, Imports(n) PROVE SInv'
  <1>1. UNCHANGED <<mp, chosen, decoder, demux, vdec, rot, ring, pacer, requests, turn, kernel, busy, away>>
    BY DEF Imports, devVars
  <1>2. /\ pc = "fbs" /\ pc' \in {"threads", "error"} /\ mp.open = TRUE /\ mp.running = FALSE /\ fbs = {} /\ ~pacer
        /\ fbs' = 0 .. n - 1 /\ held' = held \cup {<<"fb", i>> : i \in fbs'} /\ <<"capbufs", 0>> \in vdec.got
    BY DEF Imports, SInv, Phase, Stages, SessionTypes, Players
  <1>3. (held = Owned)'
    <2>1. {<<"fb", i>> : i \in fbs} = {}
      BY <1>2
    <2> QED
      BY <1>1, <1>2, <2>1 DEF SInv, Owned
  <1>4. SessionTypes'
    BY <1>1, <1>2 DEF SInv, SessionTypes
  <1>5. Phase' /\ Stages' /\ SlotsFree'
    BY <1>1, <1>2 DEF SInv, Phase, Stages, SlotsFree
  <1>6. Returnable'
    <2>1. Shown \in Nat /\ Shown' = Shown
      BY <1>1 DEF SInv, SessionTypes, Shown
    <2>2. \A i \in fbs' : i \in Nat /\ i < Shown
      BY <1>2, <2>1
    <2> QED
      BY <1>1, <1>2, <2>1, <2>2 DEF SInv, Returnable, VdecReturns
  <1> QED
    BY <1>3, <1>4, <1>5, <1>6 DEF SInv

LEMMA SpawnSound == SInv /\ Spawn => SInv'
  <1> SUFFICES ASSUME SInv, Spawn PROVE SInv'
    OBVIOUS
  <1>1. UNCHANGED <<chosen, demux, vdec, rot, fbs, ring, requests, turn, kernel, busy, away>>
    BY DEF Spawn, devVars
  <1>2. pc = "threads" /\ mp.open = TRUE /\ mp.running = FALSE /\ decoder = "none" /\ ~pacer /\ mp \in Players
    BY DEF Spawn, SInv, Phase, Stages, SessionTypes, Players
  <1>3. pacer' = (chosen.smooth > 0) \/ pacer' = FALSE
    BY DEF Spawn
  <1>4. pacer' \in BOOLEAN
    <2>1. CASE chosen.smooth > 0
      BY <1>3, <2>1
    <2>2. CASE ~ (chosen.smooth > 0)
      <3>1. (chosen.smooth > 0) = FALSE
        BY <2>2
      <3> QED
        BY <1>3, <3>1, Zenon
    <2> QED
      BY <2>1, <2>2
  <1>5. \/ pc' = "idle" /\ decoder' = "runs" /\ mp' = [mp EXCEPT !.running = TRUE]
        \/ pc' = "error" /\ decoder' = decoder /\ mp' = mp
    BY DEF Spawn
  <1>6. held' = held \cup (IF pacer' THEN {<<"pacer", 0>>} ELSE {}) \cup (IF decoder' = "runs" THEN {<<"decoder", 0>>} ELSE {})
    BY DEF Spawn
  <1>7. /\ pacer' \in BOOLEAN
        /\ \/ pc' = "idle" /\ decoder' = "runs" /\ mp' = [mp EXCEPT !.running = TRUE]
           \/ pc' = "error" /\ decoder' = decoder /\ mp' = mp
        /\ held' = held \cup (IF pacer' THEN {<<"pacer", 0>>} ELSE {}) \cup (IF decoder' = "runs" THEN {<<"decoder", 0>>} ELSE {})
    BY <1>4, <1>5, <1>6
  <1>8. (held = Owned)'
    BY <1>1, <1>2, <1>7 DEF SInv, Owned
  <1>9. mp' \in Players /\ mp'.open = TRUE /\ mp'.gen = mp.gen /\ mp'.running = (pc' = "idle")
    BY <1>2, <1>7 DEF Players
  <1>10. SessionTypes'
    BY <1>1, <1>7, <1>9 DEF SInv, SessionTypes
  <1>11. Phase' /\ Stages' /\ Returnable'
    BY <1>1, <1>2, <1>7, <1>9 DEF SInv, Phase, Stages, Returnable, VdecReturns, Shown
  <1>12. SlotsFree'
    <2>1. mp.gen \in Nat /\ \A f \in away : f = <<f[1], f[2]>> /\ f[1] \in Nat /\ f[1] <= mp.gen /\ f[1] < mp.gen
      BY <1>2 DEF SInv, SlotsFree, Players
    <2>2. \A f \in away : f[1] # mp.gen
      BY <2>1
    <2> QED
      BY <1>1, <1>2, <1>7, <1>9, <2>1, <2>2 DEF SInv, SlotsFree
  <1> QED
    BY <1>8, <1>10, <1>11, <1>12 DEF SInv

\* Once its threads are joined a session that is closed leaves nothing.
LEMMA CloseReturnsAll ==
  ASSUME SInv, NEW joined, CloseSession(joined),
         joined = (IF pacer THEN {<<"pacer", 0>>} ELSE {}) \cup (IF decoder = "none" THEN {} ELSE {<<"decoder", 0>>})
  PROVE  held' = {}
  <1>1. held' = held \ (CloseReturns \cup joined) /\ held = Owned
    BY DEF CloseSession, SInv
  <1>2. demux.got \subseteq CloseReturns
    BY DEF SInv, Returnable, CloseReturns, DemuxReturns
  <1>3. vdec.got \subseteq CloseReturns
    BY DEF SInv, Returnable, CloseReturns
  <1>4. rot.got \subseteq CloseReturns
    BY DEF SInv, Returnable, CloseReturns, RotReturns
  <1>5. {<<"fb", i>> : i \in fbs} \subseteq CloseReturns
    <2>1. \A i \in fbs : i < (IF chosen.yflip THEN chosen.flips ELSE IF <<"capbufs", 0>> \in vdec.got THEN chosen.caps ELSE 0)
      BY DEF SInv, Returnable, Shown
    <2> QED
      BY <2>1 DEF CloseReturns
  <1>6. (IF ring THEN {<<"ring", 0>>} ELSE {}) \subseteq CloseReturns
    BY DEF CloseReturns
  <1> QED
    BY <1>1, <1>2, <1>3, <1>4, <1>5, <1>6 DEF Owned

\* After it the process is as before the session was opened.
LEMMA ClosedSound ==
  ASSUME SInv, NEW joined, CloseSession(joined),
         joined = (IF pacer THEN {<<"pacer", 0>>} ELSE {}) \cup (IF decoder = "none" THEN {} ELSE {<<"decoder", 0>>}),
         mp.open, pc' = "idle", decoder' = "none", mp' \in Players, mp'.open = FALSE, mp'.running = FALSE, mp'.gen = mp.gen
  PROVE  SInv'
  <1>1. held' = {}
    BY CloseReturnsAll
  <1>2. /\ demux'.got = {} /\ vdec'.got = {} /\ fbs' = {} /\ ring' = FALSE /\ pacer' = FALSE
        /\ chosen' = NoBudget /\ kernel' = {} /\ UNCHANGED <<requests, turn, away>>
    BY DEF CloseSession, Closed, Context
  <1>3. rot'.got = {}
    BY DEF CloseSession, Closed, Context, SInv, Returnable
  <1>4. (held = Owned)'
    <2>1. {<<"fb", i>> : i \in fbs'} = {}
      BY <1>2
    <2> QED
      BY <1>1, <1>2, <1>3, <2>1 DEF Owned
  <1>5. SessionTypes'
    BY <1>2 DEF SessionTypes, NoBudget
  <1>6. Phase' /\ Stages' /\ Returnable' /\ SlotsFree'
    BY <1>2, <1>3 DEF SInv, Phase, Stages, Returnable, SlotsFree, VdecReturns
  <1> QED
    BY <1>4, <1>5, <1>6 DEF SInv

LEMMA GiveUpSound == SInv /\ GiveUp => SInv'
  <1> SUFFICES ASSUME SInv, GiveUp PROVE SInv'
    OBVIOUS
  <1>1. PICK joined : joined = IF pacer THEN {<<"pacer", 0>>} ELSE {}
    OBVIOUS
  <1>2. CloseSession(joined) /\ pc = "error" /\ pc' = "idle" /\ decoder' = decoder /\ mp' = [mp EXCEPT !.open = FALSE]
    BY <1>1 DEF GiveUp
  <1>3. mp.open /\ mp.running = FALSE /\ decoder = "none" /\ mp \in Players
    BY <1>2 DEF SInv, Phase, SessionTypes, Players
  <1>4. joined = (IF pacer THEN {<<"pacer", 0>>} ELSE {}) \cup (IF decoder = "none" THEN {} ELSE {<<"decoder", 0>>})
    BY <1>1, <1>3
  <1>5. mp' \in Players /\ mp'.open = FALSE /\ mp'.running = FALSE /\ mp'.gen = mp.gen
    BY <1>2, <1>3 DEF Players
  <1> QED
    BY <1>2, <1>3, <1>4, <1>5, ClosedSound

LEMMA StopSound == SInv /\ Stop => SInv'
  <1> SUFFICES ASSUME SInv, Stop PROVE SInv'
    OBVIOUS
  <1>1. PICK joined : joined = {<<"decoder", 0>>} \cup (IF pacer THEN {<<"pacer", 0>>} ELSE {})
    OBVIOUS
  <1>2. CloseSession(joined) /\ pc = "idle" /\ pc' = "idle" /\ decoder' = "none" /\ mp.running
        /\ mp' = [mp EXCEPT !.running = FALSE, !.open = FALSE]
    BY <1>1 DEF Stop
  <1>3. mp.open /\ decoder # "none" /\ mp \in Players
    BY <1>2 DEF SInv, Phase, SessionTypes, Players
  <1>4. joined = (IF pacer THEN {<<"pacer", 0>>} ELSE {}) \cup (IF decoder = "none" THEN {} ELSE {<<"decoder", 0>>})
    BY <1>1, <1>3
  <1>5. mp' \in Players /\ mp'.open = FALSE /\ mp'.running = FALSE /\ mp'.gen = mp.gen
    BY <1>2, <1>3 DEF Players
  <1> QED
    BY <1>2, <1>3, <1>4, <1>5, ClosedSound

\* What holds of a step of the decode thread that ends it or goes on
LEMMA ThreadStep ==
  ASSUME SInv, decoder = "runs", decoder' \in {"runs", "over"}, UNCHANGED <<pc, chosen, held, demux, vdec, rot, fbs, ring, pacer>>,
         mp' = mp \/ \E e \in SUBSET {"lost", "error"} : mp' = [mp EXCEPT !.flags = e]
  PROVE  /\ SessionTypes' /\ (held = Owned)' /\ Phase' /\ Stages' /\ Returnable'
         /\ mp'.gen = mp.gen /\ mp.gen \in Nat /\ pc = "idle"
  <1>1. mp' \in Players /\ mp'.open = mp.open /\ mp'.running = mp.running /\ mp'.gen = mp.gen /\ mp.gen \in Nat
    BY DEF SInv, SessionTypes, Players
  <1>2. (held = Owned)'
    BY OwnKept
  <1>3. pc = "idle"
    BY DEF SInv, SessionTypes, Phase, Players
  <1>4. SessionTypes'
    BY <1>1 DEF SInv, SessionTypes
  <1>5. Phase' /\ Stages' /\ Returnable'
    BY <1>1 DEF SInv, Phase, Stages, Returnable, VdecReturns, Shown
  <1> QED
    BY <1>1, <1>2, <1>3, <1>4, <1>5

LEMMA DecodeSound == ASSUME SInv, NEW slot \in {0, 1}, NEW outcome \in VdecOutcomes, Decode(slot, outcome) PROVE SInv'
  <1>1. /\ decoder = "runs" /\ decoder' \in {"runs", "over"}
        /\ UNCHANGED <<pc, chosen, held, demux, vdec, rot, fbs, ring, pacer, busy, away>>
        /\ mp' = mp \/ mp' = [mp EXCEPT !.flags = {"error"}]
    BY DEF Decode, ownVars
  <1>2. /\ SessionTypes' /\ (held = Owned)' /\ Phase' /\ Stages' /\ Returnable'
        /\ mp'.gen = mp.gen /\ mp.gen \in Nat /\ pc = "idle"
    <2>1. mp' = mp \/ \E e \in SUBSET {"lost", "error"} : mp' = [mp EXCEPT !.flags = e]
      BY <1>1
    <2> QED
      BY <1>1, <2>1, ThreadStep
  <1>3. decoder' = "runs" => UNCHANGED kernel /\ \A i \in DOMAIN requests' : requests'[i] = "idle"
    <2> SUFFICES ASSUME decoder' = "runs" PROVE UNCHANGED kernel /\ \A i \in DOMAIN requests' : requests'[i] = "idle"
      OBVIOUS
    <2>1. outcome = "ok"
      BY DEF Decode, GoesOn
    <2>2. VdecLeaves(outcome, slot) = [req |-> "idle", bufs |-> {}]
      BY <2>1 DEF VdecLeaves
    <2>3. requests' = [requests EXCEPT ![turn] = "idle"] /\ kernel' = kernel \cup {}
      BY <2>2 DEF Decode
    <2>4. \A i \in DOMAIN requests : requests[i] = "idle"
      BY <1>1 DEF SInv, SlotsFree
    <2> QED
      BY <2>3, <2>4
  <1>4. SlotsFree'
    BY <1>1, <1>2, <1>3 DEF SInv, SlotsFree
  <1> QED
    BY <1>2, <1>4 DEF SInv

LEMMA FlipOutputSound ==
  ASSUME SInv, NEW slot \in {0, 1}, NEW outcome \in {"qin", "qout", "dqcap", "dqout", "picture", "ok"}, FlipOutput(slot, outcome)
  PROVE  SInv'
  <1>1. /\ decoder = "runs" /\ decoder' \in {"runs", "over"}
        /\ UNCHANGED <<pc, chosen, held, demux, vdec, rot, fbs, ring, pacer, requests, turn>>
        /\ mp' = mp \/ mp' = [mp EXCEPT !.flags = {"error"}]
    BY DEF FlipOutput, ownVars
  <1>2. /\ SessionTypes' /\ (held = Owned)' /\ Phase' /\ Stages' /\ Returnable'
        /\ mp'.gen = mp.gen /\ mp.gen \in Nat /\ pc = "idle"
    <2>1. mp' = mp \/ \E e \in SUBSET {"lost", "error"} : mp' = [mp EXCEPT !.flags = e]
      BY <1>1
    <2> QED
      BY <1>1, <2>1, ThreadStep
  <1>3. decoder' = "runs" => UNCHANGED kernel
    <2>1. RotLeaves("ok", slot, FreeFlip) = {}
      BY DEF RotLeaves
    <2> QED
      BY <2>1 DEF FlipOutput, GoesOn
  <1>4. \/ UNCHANGED <<busy, away>>
        \/ \E k : busy' = busy \cup {k} /\ away' = away \cup {<<mp.gen, k>>}
    BY DEF FlipOutput
  <1>5. SlotsFree'
    BY <1>1, <1>2, <1>3, <1>4 DEF SInv, SlotsFree
  <1> QED
    BY <1>2, <1>5 DEF SInv

\* The thread ends by itself.
LEMMA EndsSound == ASSUME SInv, NoFlip \/ SourceLost PROVE SInv'
  <1>1. /\ decoder = "runs" /\ decoder' \in {"runs", "over"} /\ decoder' = "over"
        /\ UNCHANGED <<pc, chosen, held, demux, vdec, rot, fbs, ring, pacer, requests, turn, kernel, busy, away>>
        /\ \E e \in SUBSET {"lost", "error"} : mp' = [mp EXCEPT !.flags = e]
    BY DEF NoFlip, SourceLost, ownVars, devVars
  <1>2. /\ SessionTypes' /\ (held = Owned)' /\ Phase' /\ Stages' /\ Returnable'
        /\ mp'.gen = mp.gen /\ mp.gen \in Nat /\ pc = "idle"
    BY <1>1, ThreadStep
  <1>3. SlotsFree'
    BY <1>1, <1>2 DEF SInv, SlotsFree
  <1> QED
    BY <1>2, <1>3 DEF SInv

LEMMA ReclaimSound == ASSUME SInv, NEW f \in away, Reclaim(f) PROVE SInv'
  <1>1. /\ decoder = "runs" /\ decoder' \in {"runs", "over"} /\ decoder' = "runs"
        /\ UNCHANGED <<mp, pc, chosen, held, demux, vdec, rot, fbs, ring, pacer, requests, turn, kernel>>
        /\ away' = away \ {f} /\ busy' = IF chosen.yflip /\ f[1] = mp.gen THEN busy \ {f[2]} ELSE busy
    BY DEF Reclaim, ownVars
  <1>2. /\ SessionTypes' /\ (held = Owned)' /\ Phase' /\ Stages' /\ Returnable'
        /\ mp'.gen = mp.gen /\ mp.gen \in Nat /\ pc = "idle"
    BY <1>1, ThreadStep
  <1>3. ASSUME NEW g \in away', g[1] = mp.gen PROVE g[2] \in busy'
    <2>1. g \in away /\ g # f /\ g[2] \in busy /\ g = <<g[1], g[2]>> /\ f = <<f[1], f[2]>>
      BY <1>1, <1>3 DEF SInv, SlotsFree
    <2>2. f[1] = mp.gen => g[2] # f[2]
      BY <1>3, <2>1
    <2> QED
      BY <1>1, <2>1, <2>2
  <1>4. SlotsFree'
    BY <1>1, <1>2, <1>3 DEF SInv, SlotsFree
  <1> QED
    BY <1>2, <1>4 DEF SInv

LEMMA SessionStep == SInv /\ [SessionNext]_sessionVars => SInv'
  <1> SUFFICES ASSUME SInv, [SessionNext]_sessionVars PROVE SInv'
    OBVIOUS
  <1>1. CASE UNCHANGED sessionVars
    BY <1>1 DEF SInv, SessionTypes, Owned, Phase, Stages, Returnable, SlotsFree, VdecReturns, Shown, sessionVars, ownVars, devVars
  <1>2. CASE SetVideo
    BY <1>2, SetVideoSound
  <1>3. CASE PlayVideo \/ Start
    BY <1>3, PrepareSound DEF PlayVideo, Start
  <1>4. CASE DemuxOpens
    BY <1>4, DemuxOpensSound
  <1>5. CASE HeadersFail
    BY <1>5, HeadersFailSound
  <1>6. CASE RingOpens
    BY <1>6, RingOpensSound
  <1>7. CASE NoDecoder
    BY <1>7, NoDecoderSound
  <1>8. CASE NoRotator
    BY <1>8, RotClosedSound
  <1>9. CASE VdecOpens
    BY <1>9, VdecOpensSound
  <1>10. CASE RotOpens
    BY <1>10, RotOpensSound
  <1>11. CASE Spawn
    BY <1>11, SpawnSound
  <1>12. CASE GiveUp
    BY <1>12, GiveUpSound
  <1>13. CASE Stop
    BY <1>13, StopSound
  <1>14. CASE NoFlip \/ SourceLost
    BY <1>14, EndsSound
  <1>15. CASE \E k \in 0 .. Len(DemuxLadder) - 1 : DemuxFails(k)
    BY <1>15, DemuxFailsSound
  <1>16. CASE \E s \in Streams : HeadersPass(s)
    BY <1>16, HeadersPassSound
  <1>17. CASE pc = "vdec" /\ \E k \in 0 .. Len(VdecLadder(chosen.caps)) - 1 : VdecFails(k)
    BY <1>17, VdecFailsSound
  <1>18. CASE pc = "rot" /\ \E k \in 0 .. Len(RotLadder(chosen.flips)) - 1 : RotFails(k)
    BY <1>18, RotClosedSound
  <1>19. CASE pc = "fbs" /\ \E n \in 0 .. Shown : Imports(n)
    BY <1>19, ImportsSound
  <1>20. CASE \E slot \in {0, 1}, o \in VdecOutcomes : Decode(slot, o)
    BY <1>20, DecodeSound
  <1>21. CASE \E slot \in {0, 1}, o \in {"qin", "qout", "dqcap", "dqout", "picture", "ok"} : FlipOutput(slot, o)
    BY <1>21, FlipOutputSound
  <1>22. CASE \E f \in away : Reclaim(f)
    BY <1>22, ReclaimSound
  <1> QED
    BY <1>1, <1>2, <1>3, <1>4, <1>5, <1>6, <1>7, <1>8, <1>9, <1>10, <1>11, <1>12, <1>13, <1>14, <1>15, <1>16, <1>17,
       <1>18, <1>19, <1>20, <1>21, <1>22 DEF SessionNext

LEMMA SInvClean == SInv => SessionClean
  <1> SUFFICES ASSUME SInv PROVE SessionClean
    OBVIOUS
  <1>1. NothingLeaks
    <2> SUFFICES ASSUME pc = "idle", ~mp.open PROVE held = {}
      BY DEF NothingLeaks
    <2>1. /\ demux.got = {} /\ vdec.got = {} /\ rot.got = {} /\ fbs = {} /\ ~ring /\ ~pacer /\ decoder = "none"
      BY DEF SInv, Phase, Stages, SessionTypes, Players
    <2>2. {<<"fb", i>> : i \in fbs} = {}
      BY <2>1
    <2> QED
      BY <2>1, <2>2 DEF SInv, Owned
  <1>2. RequestsClean
    BY DEF SInv, SlotsFree, RequestsClean
  <1> QED
    BY <1>1, <1>2 DEF SessionClean

\* A session that is over or never came about leaves nothing behind, whatever failed on
\* the way, and nothing is used while a driver or the display has it (mediaplayer.c:643,
\* vdec_v4l2.c, sdrot.c): for any numbers of buffers, streams and sessions.
THEOREM SessionCleanCorrect == SessionSpec => []SessionClean
  <1>1. SessionSpec => []SInv
    <2>1. SessionInit => SInv
      BY SessionStarts
    <2>2. SInv /\ [SessionNext]_sessionVars => SInv'
      BY SessionStep
    <2> QED
      BY <2>1, <2>2, PTL DEF SessionSpec
  <1>2. SInv => SessionClean
    BY SInvClean
  <1> QED
    BY <1>1, <1>2, PTL
==============================================================================
