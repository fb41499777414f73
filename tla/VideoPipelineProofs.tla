------------------------ MODULE VideoPipelineProofs ------------------------
(***************************************************************************)
(* Proofs about VideoPipeline, for any number of slots, sessions and       *)
(* places in the queues, with faults and stops that give up waiting:       *)
(*   - a frame is at one place, its slot is held exactly while it travels, *)
(*     and items_in_flight counts the frames there are (FramesSafe);       *)
(*   - the decoder never writes into a buffer that is shown or queued to   *)
(*     be (NoTearingSafe);                                                 *)
(*   - a free queue of one more place than a session has slots never makes *)
(*     the display thread wait, if stops wait for their frames             *)
(*     (ScreenSafe).                                                       *)
(* The argument is that of accounts: every step moves frames between       *)
(* places, makes one of a slot that carries none, or takes the contents of *)
(* the free queue out of circulation.                                      *)
(***************************************************************************)
EXTENDS VideoPipeline, FiniteSetTheorems, SequenceTheorems, WellFoundedInduction, TLAPS

----------------------------------------------------------------------------
(* Sequences and the sets of their elements.                               *)

LEMMA LeastNat ==
  ASSUME NEW S \in SUBSET Nat, S # {}
  PROVE  \E x \in S : \A y \in S : x <= y
<1>1. PICK x \in S : \A y \in S : <<y, x>> \notin OpToRel(<, Nat)
  <2>1. IsWellFoundedOn(OpToRel(<, Nat), Nat)
    BY NatLessThanWellFounded
  <2> HIDE DEF IsWellFoundedOn
  <2> QED
    BY <2>1, WFMin, Zenon
<1>2. \A y \in S : ~ (y < x)
  BY <1>1 DEF OpToRel
<1> QED
  BY <1>2

LEMMA EmptyFrames == Frames(<<>>) = {} /\ IsInjective(<<>>)
  BY DEF Frames, IsInjective

LEMMA AppendFrames ==
  ASSUME NEW S, NEW q \in Seq(S), NEW x \in S
  PROVE  /\ Frames(Append(q, x)) = Frames(q) \cup {x}
         /\ IsInjective(q) /\ x \notin Frames(q) => IsInjective(Append(q, x))
  BY DEF Frames, IsInjective

LEMMA TailFrames ==
  ASSUME NEW S, NEW q \in Seq(S), q # <<>>
  PROVE  /\ Head(q) \in S /\ Tail(q) \in Seq(S) /\ Len(Tail(q)) = Len(q) - 1
         /\ Frames(q) = Frames(Tail(q)) \cup {Head(q)}
         /\ IsInjective(q) => IsInjective(Tail(q)) /\ Head(q) \notin Frames(Tail(q))
<1>1. Len(q) \in Nat \ {0} /\ Len(Tail(q)) = Len(q) - 1
  OBVIOUS
<1>2. \A i \in 1 .. Len(q) - 1 : Tail(q)[i] = q[i + 1]
  OBVIOUS
<1>3. Head(q) = q[1] /\ Head(q) \in S /\ Tail(q) \in Seq(S)
  OBVIOUS
<1>4. Frames(q) = Frames(Tail(q)) \cup {Head(q)}
  <2>1. ASSUME NEW x \in Frames(q)  PROVE x \in Frames(Tail(q)) \cup {Head(q)}
    <3>1. PICK i \in 1 .. Len(q) : x = q[i]
      BY <2>1 DEF Frames
    <3>2. CASE i = 1
      BY <3>1, <3>2, <1>3
    <3>3. CASE i # 1
      <4>1. i - 1 \in 1 .. Len(q) - 1 /\ (i - 1) + 1 = i
        BY <3>3, <1>1
      <4>2. Tail(q)[i - 1] = x /\ i - 1 \in DOMAIN Tail(q)
        BY <4>1, <3>1, <1>1, <1>2, <1>3
      <4> QED
        BY <4>2 DEF Frames
    <3> QED
      BY <3>2, <3>3
  <2>2. ASSUME NEW i \in DOMAIN Tail(q)  PROVE Tail(q)[i] \in Frames(q)
    <3>1. i \in 1 .. Len(q) - 1 /\ i + 1 \in DOMAIN q
      BY <1>1, <1>3
    <3> QED
      BY <3>1, <1>2 DEF Frames
  <2>3. Head(q) \in Frames(q)
    BY <1>1, <1>3 DEF Frames
  <2> QED
    BY <2>1, <2>2, <2>3 DEF Frames
<1>5. ASSUME IsInjective(q)
      PROVE  IsInjective(Tail(q)) /\ Head(q) \notin Frames(Tail(q))
  <2>1. \A i \in DOMAIN Tail(q) : i + 1 \in DOMAIN q /\ i + 1 # 1 /\ i \in Int
    BY <1>1, <1>3
  <2>2. 1 \in DOMAIN q /\ \A i, j \in Int : i + 1 = j + 1 => i = j
    BY <1>1
  <2> QED
    BY <1>1, <1>2, <1>3, <1>5, <2>1, <2>2 DEF Frames, IsInjective
<1> QED
  BY <1>1, <1>3, <1>4, <1>5

LEMMA FrontFrames ==
  ASSUME NEW S, NEW q \in Seq(S), q # <<>>
  PROVE  /\ Last(q) \in S /\ Front(q) \in Seq(S) /\ Len(Front(q)) = Len(q) - 1
         /\ Frames(q) = Frames(Front(q)) \cup {Last(q)}
         /\ IsInjective(q) => IsInjective(Front(q)) /\ Last(q) \notin Frames(Front(q))
<1>1. Len(q) \in Nat \ {0}
  OBVIOUS
<1>2. /\ Front(q) \in Seq(S) /\ Len(Front(q)) = Len(q) - 1
      /\ \A i \in 1 .. Len(q) - 1 : Front(q)[i] = q[i]
  <2>1. 1 \in Int /\ Len(q) - 1 \in Int /\ \A i \in 1 .. Len(q) - 1 : q[i] \in S
    BY <1>1
  <2>2. /\ SubSeq(q, 1, Len(q) - 1) \in Seq(S)
        /\ Len(SubSeq(q, 1, Len(q) - 1)) =
             IF 1 <= Len(q) - 1 THEN Len(q) - 1 - 1 + 1 ELSE 0
        /\ \A i \in 1 .. Len(q) - 1 - 1 + 1 : SubSeq(q, 1, Len(q) - 1)[i] = q[1 + i - 1]
    BY <2>1, SubSeqProperties
  <2>3. Len(q) - 1 - 1 + 1 = Len(q) - 1 /\ \A i \in 1 .. Len(q) - 1 : 1 + i - 1 = i
    BY <1>1
  <2> QED
    BY <1>1, <2>2, <2>3 DEF Front
<1>3. Last(q) = q[Len(q)] /\ Last(q) \in S
  BY <1>1 DEF Last
<1>4. DOMAIN q = DOMAIN Front(q) \cup {Len(q)} /\ Len(q) \notin DOMAIN Front(q)
  BY <1>1, <1>2
<1>5. \A i \in DOMAIN Front(q) : Front(q)[i] = q[i]
  BY <1>1, <1>2
<1> QED
  BY <1>2, <1>3, <1>4, <1>5 DEF Frames, IsInjective

LEMMA ConcatFrames ==
  ASSUME NEW S, NEW p \in Seq(S), NEW q \in Seq(S)
  PROVE  /\ p \o q \in Seq(S) /\ Len(p \o q) = Len(p) + Len(q)
         /\ Frames(p \o q) = Frames(p) \cup Frames(q)
         /\ IsInjective(p) /\ IsInjective(q) /\ Frames(p) \cap Frames(q) = {}
              => IsInjective(p \o q)
<1>1. /\ p \o q \in Seq(S) /\ Len(p \o q) = Len(p) + Len(q)
      /\ Len(p) \in Nat /\ Len(q) \in Nat
      /\ DOMAIN p = 1 .. Len(p) /\ DOMAIN q = 1 .. Len(q)
      /\ DOMAIN (p \o q) = 1 .. Len(p) + Len(q)
  OBVIOUS
<1>2. \A i \in 1 .. Len(p) : (p \o q)[i] = p[i]
  OBVIOUS
<1>3. \A i \in 1 .. Len(q) : (p \o q)[i + Len(p)] = q[i]
  OBVIOUS
<1>4. \A i \in DOMAIN (p \o q) :
        \/ i \in DOMAIN p /\ (p \o q)[i] = p[i]
        \/ i - Len(p) \in DOMAIN q /\ (p \o q)[i] = q[i - Len(p)]
  BY <1>1, <1>2, <1>3
<1>5. /\ \A i \in DOMAIN p : i \in DOMAIN (p \o q) /\ p[i] = (p \o q)[i]
      /\ \A i \in DOMAIN q : i + Len(p) \in DOMAIN (p \o q) /\ q[i] = (p \o q)[i + Len(p)]
  BY <1>1, <1>2, <1>3
<1>6. Frames(p \o q) = Frames(p) \cup Frames(q)
  <2>1. ASSUME NEW i \in DOMAIN (p \o q)  PROVE (p \o q)[i] \in Frames(p) \cup Frames(q)
    BY <1>4 DEF Frames
  <2>2. ASSUME NEW i \in DOMAIN p  PROVE p[i] \in Frames(p \o q)
    BY <1>5 DEF Frames
  <2>3. ASSUME NEW i \in DOMAIN q  PROVE q[i] \in Frames(p \o q)
    BY <1>5 DEF Frames
  <2> QED
    BY <2>1, <2>2, <2>3 DEF Frames
<1>7. ASSUME IsInjective(p), IsInjective(q), Frames(p) \cap Frames(q) = {},
             NEW i \in DOMAIN (p \o q), NEW j \in DOMAIN (p \o q),
             (p \o q)[i] = (p \o q)[j]
      PROVE  i = j
  <2>1. CASE i \in DOMAIN p /\ (p \o q)[i] = p[i] /\ j \in DOMAIN p /\ (p \o q)[j] = p[j]
    BY <2>1, <1>7 DEF IsInjective
  <2>2. CASE /\ i - Len(p) \in DOMAIN q /\ (p \o q)[i] = q[i - Len(p)]
             /\ j - Len(p) \in DOMAIN q /\ (p \o q)[j] = q[j - Len(p)]
    <3>1. i - Len(p) = j - Len(p)
      BY <2>2, <1>7 DEF IsInjective
    <3> QED
      BY <3>1, <1>1
  <2>3. ASSUME NEW k, k \in DOMAIN p, NEW l, l \in DOMAIN q, p[k] = q[l]  PROVE FALSE
    BY <2>3, <1>7 DEF Frames
  <2> QED
    BY <1>4, <1>7, <2>1, <2>2, <2>3
<1> QED
  BY <1>1, <1>6, <1>7 DEF IsInjective

LEMMA CountFrames ==
  ASSUME NEW S, NEW q \in Seq(S)
  PROVE  /\ IsFiniteSet(Frames(q))
         /\ IsInjective(q) => Cardinality(Frames(q)) = Len(q)
<1>1. q \in Surjection(1 .. Len(q), Frames(q))
  BY DEF Surjection, Frames
<1>2. IsFiniteSet(1 .. Len(q)) /\ Cardinality(1 .. Len(q)) = Len(q)
  <2>1. Len(q) \in Nat
    OBVIOUS
  <2>2. \A n \in Nat : IsFiniteSet(1 .. n) /\ Cardinality(1 .. n) = n
    BY FS_Interval
  <2> QED
    BY <2>1, <2>2, Zenon
<1>3. IsInjective(q) => q \in Injection(1 .. Len(q), Frames(q))
  BY <1>1 DEF Injection, Surjection, IsInjective
<1> QED
  BY <1>1, <1>2, <1>3, FS_Surjection
----------------------------------------------------------------------------
(* The inductive invariant.                                                *)

\* The item at a place that holds one or none, and the one the decoder holds.
Held(place) == IF place = NoItem THEN {} ELSE {place}
Handed == IF dec.pc = "hand" THEN {Hand} ELSE {}

\* TypeOK with the queues as sequences, and without the bound on the counter,
\* which follows from the count.
Typed ==
  /\ gen \in 0 .. MaxGen
  /\ open \in BOOLEAN /\ stopReq \in BOOLEAN /\ ringOpen \in BOOLEAN
  /\ pic \in [Slots -> SUBSET Flags]
  /\ dec \in [pc : {"off", "top", "pick", "begin", "decode", "hand", "done", "error"},
              slot : Slots, gop : {"inside", "drain", "idr"}]
  /\ ring \in Seq(Item) /\ Len(ring) <= Smooth
  /\ dq \in Seq(Item) /\ Len(dq) <= DisplayCap
  /\ fq \in Seq(Item) /\ Len(fq) <= FreeCap
  /\ pacer \in Item \cup {NoItem}
  /\ shot \in [pc : {"drain", "commit", "recycle"}, batch : Seq(Item),
               mount : BOOLEAN, ok : BOOLEAN]
  /\ mount \in BOOLEAN
  /\ curr \in Item \cup {NoItem} /\ plane \in Item \cup {NoItem}
  /\ inFlight \in Nat
  /\ ctl \in {"idle", "join", "settle", "disable", "remount", "close"}

\* Where the decoder is, against the stop in progress; after a join nothing is
\* left between decoder and pacer.
Session ==
  /\ IF open THEN gen > 0 /\ dec.pc # "off" ELSE ctl = "idle" /\ dec.pc = "off"
  /\ ctl \notin {"idle", "join"} => dec.pc \in {"done", "error"}
  /\ Smooth = 0 => pacer = NoItem
  /\ dec.pc = "off" \/ ctl \notin {"idle", "join"} => ring = <<>> /\ pacer = NoItem

\* No item is twice in a queue, nor at two places.
OnePlace ==
  /\ IsInjective(ring) /\ IsInjective(dq) /\ IsInjective(fq) /\ IsInjective(shot.batch)
  /\ Handed \cap (Frames(ring) \cup Held(pacer) \cup Frames(dq) \cup Frames(shot.batch)
                    \cup Held(curr) \cup Frames(fq)) = {}
  /\ Frames(ring) \cap (Held(pacer) \cup Frames(dq) \cup Frames(shot.batch)
                    \cup Held(curr) \cup Frames(fq)) = {}
  /\ Held(pacer) \cap (Frames(dq) \cup Frames(shot.batch)
                    \cup Held(curr) \cup Frames(fq)) = {}
  /\ Frames(dq) \cap (Frames(shot.batch) \cup Held(curr) \cup Frames(fq)) = {}
  /\ Frames(shot.batch) \cap (Held(curr) \cup Frames(fq)) = {}
  /\ Held(curr) \cap Frames(fq) = {}

\* A session that has not begun has no items.
NoneToCome == \A i \in Travelling : i.gen <= gen

\* A slot being decoded is not held for anything else; one that waits for its
\* turn is not on screen.
Slotted ==
  /\ dec.pc = "decode" => pic[dec.slot] = {"wait"}
  /\ \A s \in Slots : ~ {"wait", "out"} \subseteq pic[s]

\* The plane shows the item that curr_item names, or will name after the
\* commit just made.
Shown ==
  /\ shot.pc = "drain" <=> shot.batch = <<>>
  /\ \/ plane = NoItem
     \/ plane = IF shot.pc = "recycle" /\ shot.ok THEN Newest ELSE curr


IInv == /\ Typed /\ Session /\ OnePlace /\ NoneToCome /\ Slotted /\ Shown
        /\ HeldWhileTravelling /\ CountsInFlight

\* A step adds no item but of the session that plays.
Arrivals == \A i \in Travelling' \ Travelling : i.gen = gen'

LEMMA Assumptions ==
  /\ NSlots \in Nat \ {0} /\ Smooth \in Nat /\ MaxGen \in Nat
  /\ DisplayCap \in Nat \ {0} /\ FreeCap \in Nat \ {0}
  /\ NoItem \notin Item
  BY PipelineAssumption, ItemAssumption

(* There are finitely many items, and NoItem is none of them. *)
LEMMA TravelFinite ==
  ASSUME IInv
  PROVE  IsFiniteSet(Travelling) /\ Travelling \subseteq Item
<1>1. /\ IsFiniteSet(Frames(ring)) /\ IsFiniteSet(Frames(dq)) /\ IsFiniteSet(Frames(fq))
      /\ IsFiniteSet(Frames(shot.batch))
  BY CountFrames DEF IInv, Typed
<1>2. dec.pc = "hand" => Hand \in Item
  BY Assumptions DEF IInv, Typed, Session, Hand, Item
<1>3. /\ Frames(ring) \subseteq Item /\ Frames(dq) \subseteq Item /\ Frames(fq) \subseteq Item
      /\ Frames(shot.batch) \subseteq Item
  BY DEF IInv, Typed, Frames
<1>4. Travelling \subseteq Item
  BY <1>2, <1>3, Zenon DEF Travelling, IInv, Typed
<1>5. IsFiniteSet(IF dec.pc = "hand" THEN {Hand} ELSE {})
  BY FS_EmptySet, FS_Singleton
<1>6. IsFiniteSet(IF pacer = NoItem THEN {} ELSE {pacer})
  BY FS_EmptySet, FS_Singleton
<1>7. IsFiniteSet(IF curr = NoItem THEN {} ELSE {curr})
  BY FS_EmptySet, FS_Singleton
<1>8. IsFiniteSet(Travelling)
  <2>1. IsFiniteSet(Frames(ring) \cup Frames(dq))
    BY <1>1, FS_Union
  <2>2. IsFiniteSet(Frames(ring) \cup Frames(dq) \cup Frames(fq))
    BY <2>1, <1>1, FS_Union
  <2>3. IsFiniteSet(Frames(ring) \cup Frames(dq) \cup Frames(fq)
                      \cup (IF dec.pc = "hand" THEN {Hand} ELSE {}))
    BY <2>2, <1>5, FS_Union
  <2>4. IsFiniteSet(Frames(ring) \cup Frames(dq) \cup Frames(fq)
                      \cup (IF dec.pc = "hand" THEN {Hand} ELSE {})
                      \cup (IF pacer = NoItem THEN {} ELSE {pacer}))
    BY <2>3, <1>6, FS_Union
  <2>5. IsFiniteSet(Frames(ring) \cup Frames(dq) \cup Frames(fq)
                      \cup (IF dec.pc = "hand" THEN {Hand} ELSE {})
                      \cup (IF pacer = NoItem THEN {} ELSE {pacer})
                      \cup (IF curr = NoItem THEN {} ELSE {curr}))
    BY <2>4, <1>7, FS_Union
  <2> QED
    BY <2>5, <1>1, FS_Union DEF Travelling
<1> QED
  BY <1>4, <1>8

(* A step that moves no item in or out. *)
LEMMA Conserved ==
  ASSUME IInv, Travelling' = Travelling, inFlight' = inFlight, gen' \in Nat, gen' >= gen
  PROVE  NoneToCome' /\ CountsInFlight' /\ Arrivals
<1>1. \A i \in Travelling : i.gen \in Nat
  BY TravelFinite DEF Item
<1>2. gen \in Nat
  BY DEF IInv, Typed
<1> QED
  BY <1>1, <1>2 DEF IInv, NoneToCome, CountsInFlight, Arrivals

(* The items of the free queue are taken out of circulation. *)
LEMMA Reclaimed ==
  ASSUME IInv, Travelling' = Travelling \ Frames(fq), inFlight' = inFlight - Len(fq),
         gen' = gen
  PROVE  NoneToCome' /\ CountsInFlight' /\ Arrivals /\ inFlight' \in Nat
<1>1. Travelling \cap Frames(fq) = Frames(fq)
  BY DEF Travelling
<1>2. Cardinality(Frames(fq)) = Len(fq)
  BY CountFrames DEF IInv, Typed, OnePlace
<1>3. /\ IsFiniteSet(Travelling \ Frames(fq))
      /\ Cardinality(Travelling \ Frames(fq)) = Cardinality(Travelling) - Len(fq)
  <2>1. Cardinality(Travelling \ Frames(fq))
          = Cardinality(Travelling) - Cardinality(Travelling \cap Frames(fq))
    BY TravelFinite, FS_Difference
  <2>2. IsFiniteSet(Travelling \ Frames(fq))
    BY TravelFinite, FS_Difference
  <2> QED
    BY <1>1, <1>2, <2>1, <2>2
<1>4. inFlight' \in Nat
  BY <1>3, FS_CardinalityType DEF IInv, CountsInFlight
<1> QED
  BY <1>3, <1>4 DEF IInv, NoneToCome, CountsInFlight, Arrivals

(* What reclaiming does to the DPB it finds. *)
LEMMA ReclaimedSlots ==
  ASSUME IInv, NEW p \in [Slots -> SUBSET Flags], Reclaim(p),
         \A s \in Slots : p[s] = pic[s] \/ p[s] = pic[s] \ {"ref"}
  PROVE  /\ pic' \in [Slots -> SUBSET Flags]
         /\ \A s \in Slots : pic'[s] \subseteq pic[s]
         /\ \A s \in Slots :
              "out" \in pic'[s] <=>
                "out" \in pic[s] /\ [gen |-> gen, slot |-> s] \notin Frames(fq)
  BY DEF Reclaim, OffScreen, Flags

(* A step that leaves every place as it is. *)
LEMMA PlacesStay ==
  ASSUME IInv, UNCHANGED <<ring, pacer, dq, curr, fq>>, shot'.batch = shot.batch,
         Handed' = Handed
  PROVE  Travelling' = Travelling /\ OnePlace'
<1>1. Travelling' = Travelling
  BY DEF Travelling, Handed
<1>2. OnePlace'
  BY DEF IInv, OnePlace, Held
<1> QED
  BY <1>1, <1>2

(* A step that only empties the free queue. *)
LEMMA FreeQueueEmptied ==
  ASSUME IInv, UNCHANGED <<ring, pacer, dq, curr, shot>>, fq' = <<>>, Handed' = Handed
  PROVE  Travelling' = Travelling \ Frames(fq) /\ OnePlace'
<1>1. Travelling' = Travelling \ Frames(fq)
  BY EmptyFrames DEF Travelling, Handed, IInv, OnePlace, Held
<1>2. OnePlace'
  BY EmptyFrames DEF IInv, OnePlace, Held
<1> QED
  BY <1>1, <1>2

----------------------------------------------------------------------------
(* The steps of the decoder and the pacer.                                 *)

LEMMA StepTop ==
  ASSUME IInv, DecoderTop
  PROVE  IInv' /\ Arrivals
<1> USE DEF DecoderTop, DecGoto, dispVars, ringVars
<1>1. dec.pc = "top" /\ Handed' = Handed /\ Handed = {}
  BY DEF Handed, IInv, Typed
<1>2. CASE stopReq
  <2>1. Travelling' = Travelling /\ OnePlace'
    BY <1>1, <1>2, PlacesStay
  <2>2. Typed' /\ Session' /\ Slotted' /\ Shown' /\ HeldWhileTravelling'
    BY <1>2, <2>1 DEF IInv, Typed, Session, Slotted, Shown, HeldWhileTravelling, Newest
  <2>3. NoneToCome' /\ CountsInFlight' /\ Arrivals
    BY <1>2, <2>1, Conserved DEF IInv, Typed
  <2> QED
    BY <2>1, <2>2, <2>3 DEF IInv
<1>3. CASE ~stopReq
  <2>1. Reclaim(pic)
    BY <1>3
  <2>2. Travelling' = Travelling \ Frames(fq) /\ OnePlace'
    BY <1>1, <2>1, FreeQueueEmptied DEF Reclaim
  <2>3. NoneToCome' /\ CountsInFlight' /\ Arrivals /\ inFlight' \in Nat
    BY <2>1, <2>2, Reclaimed DEF Reclaim
  <2>4. /\ pic' \in [Slots -> SUBSET Flags]
        /\ \A s \in Slots : pic'[s] \subseteq pic[s]
        /\ \A s \in Slots :
             "out" \in pic'[s] <=>
               "out" \in pic[s] /\ [gen |-> gen, slot |-> s] \notin Frames(fq)
    BY <2>1, ReclaimedSlots DEF IInv, Typed
  <2>5. Typed'
    BY <1>3, <2>1, <2>3, <2>4, Assumptions, SMTT(60) DEF IInv, Typed, Reclaim
  <2>6. Session' /\ Shown'
    BY <1>3 DEF IInv, Typed, Session, Shown, Newest
  <2>7. Slotted'
    BY <1>3, <2>4 DEF IInv, Typed, Slotted
  <2>8. HeldWhileTravelling'
    BY <1>1, <1>3, <2>2, <2>4 DEF IInv, Typed, HeldWhileTravelling
  <2> QED
    BY <2>2, <2>3, <2>5, <2>6, <2>7, <2>8 DEF IInv
<1> QED
  BY <1>2, <1>3

LEMMA StepEmit ==
  ASSUME IInv, NEW s \in Slots, DecoderEmit(s)
  PROVE  IInv' /\ Arrivals
<1> USE DEF DecoderEmit, dispVars, ringVars
<1> DEFINE item == [gen |-> gen, slot |-> s]
<1>1. dec.pc = "pick" /\ dec'.pc = "hand" /\ Handed = {} /\ Handed' = {item}
  BY DEF Handed, IInv, Typed, Hand
<1>2. "wait" \in pic[s] /\ "out" \notin pic[s]
  BY DEF With, IInv, Slotted
<1>3. item \notin Travelling
  BY <1>1, <1>2 DEF IInv, HeldWhileTravelling
<1>4. Travelling' = Travelling \cup {item}
  BY <1>1, Zenon DEF Travelling, Handed
<1>5. item.gen = gen
  OBVIOUS
<1>6. open /\ gen \in Nat \ {0} /\ ctl \in {"idle", "join"}
  BY <1>1, Assumptions DEF IInv, Typed, Session
<1>7. /\ pic' \in [Slots -> SUBSET Flags]
      /\ pic'[s] = (pic[s] \cup {"out"}) \ {"wait"}
      /\ \A t \in Slots \ {s} : pic'[t] = pic[t]
  BY DEF IInv, Typed, SetOnScreen, MarkDisplayed, Flags
<1>8. Typed'
  <2>1. dec' \in [pc : {"hand"}, slot : Slots, gop : {"inside", "drain", "idr"}]
    <3>1. dec' = [dec EXCEPT !.pc = "hand", !.slot = s]
      OBVIOUS
    <3> QED
      BY <3>1 DEF IInv, Typed
  <2>2. inFlight' \in Nat
    BY DEF IInv, Typed
  <2> QED
    BY <1>7, <2>1, <2>2 DEF IInv, Typed
<1>9. Session' /\ Shown'
  BY <1>1, <1>6 DEF IInv, Typed, Session, Shown, Newest
<1>10. OnePlace'
  <2> HIDE DEF item
  <2>1. item \notin (Frames(ring) \cup Held(pacer) \cup Frames(dq) \cup Frames(shot.batch)
                    \cup Held(curr) \cup Frames(fq))
    BY <1>3 DEF Travelling, Held
  <2> QED
    BY <1>1, <2>1 DEF IInv, OnePlace, Held
<1>11. NoneToCome' /\ Arrivals
  <2> HIDE DEF item
  <2> QED
    BY <1>4, <1>5, <1>6 DEF IInv, NoneToCome, Arrivals
<1>12. CountsInFlight'
  <2>1. Cardinality(Travelling \cup {item}) = Cardinality(Travelling) + 1
    BY <1>3, TravelFinite, FS_AddElement
  <2> QED
    BY <1>4, <2>1 DEF IInv, CountsInFlight
<1>13. Slotted'
  BY <1>1, <1>7 DEF IInv, Typed, Slotted
<1>14. HeldWhileTravelling'
  <2>1. \A t \in Slots \ {s} : [gen |-> gen, slot |-> t] # item
    OBVIOUS
  <2> QED
    BY <1>1, <1>4, <1>7, <2>1 DEF IInv, HeldWhileTravelling
<1> QED
  BY <1>8, <1>9, <1>10, <1>11, <1>12, <1>13, <1>14 DEF IInv

LEMMA StepFeed ==
  ASSUME IInv, DecoderFeed
  PROVE  IInv' /\ Arrivals
<1> USE DEF DecoderFeed, DecGoto, dispVars, ringVars
<1>1. dec.pc = "pick" /\ dec'.pc \in {"pick", "top", "begin"}
      /\ dec' \in [pc : {"pick", "top", "begin"}, slot : Slots, gop : {"inside", "drain", "idr"}]
  BY DEF IInv, Typed
<1>2. Travelling' = Travelling /\ OnePlace'
  BY <1>1, PlacesStay DEF Handed
<1>3. Typed' /\ Session' /\ Shown' /\ Slotted'
  BY <1>1 DEF IInv, Typed, Session, Shown, Newest, Slotted
<1>4. HeldWhileTravelling'
  BY <1>1, <1>2 DEF IInv, HeldWhileTravelling
<1>5. NoneToCome' /\ CountsInFlight' /\ Arrivals
  BY <1>2, Conserved DEF IInv, Typed
<1> QED
  BY <1>2, <1>3, <1>4, <1>5 DEF IInv

LEMMA StepBegin ==
  ASSUME IInv, DecoderBegin
  PROVE  IInv' /\ Arrivals
<1> USE DEF dispVars, ringVars
<1> DEFINE cleared == IF dec.gop = "idr" THEN [s \in Slots |-> pic[s] \ {"ref"}] ELSE pic
           free == {s \in Slots : cleared[s] = {}}
           first == CHOOSE x \in free : \A y \in free : x <= y
<1>1. /\ dec.pc = "begin" /\ Handed = {} /\ dec.pc # "decode"
      /\ ctl \in {"idle", "join"}
      /\ UNCHANGED <<gen, open, stopReq, ring, ringOpen, pacer, dq, shot, curr, plane, mount, ctl>>
  BY DEF DecoderBegin, Handed, IInv, Typed, Session
<1>2. /\ cleared \in [Slots -> SUBSET Flags]
      /\ \A s \in Slots : cleared[s] = pic[s] \/ cleared[s] = pic[s] \ {"ref"}
  BY DEF IInv, Typed, Flags
<1>3. CASE free = {}
  <2>1. Reclaim(cleared) /\ dec' = dec
    BY <1>3 DEF DecoderBegin
  <2> HIDE DEF cleared, free, first
  <2>2. Handed' = Handed
    BY <1>1, <2>1 DEF Handed
  <2>3. Travelling' = Travelling \ Frames(fq) /\ OnePlace'
    BY <1>1, <2>1, <2>2, FreeQueueEmptied DEF Reclaim
  <2>4. NoneToCome' /\ CountsInFlight' /\ Arrivals /\ inFlight' \in Nat
    BY <1>1, <2>1, <2>3, Reclaimed DEF Reclaim
  <2>5. /\ pic' \in [Slots -> SUBSET Flags]
        /\ \A s \in Slots : pic'[s] \subseteq pic[s]
        /\ \A s \in Slots :
             "out" \in pic'[s] <=>
               "out" \in pic[s] /\ [gen |-> gen, slot |-> s] \notin Frames(fq)
    BY <1>2, <2>1, ReclaimedSlots
  <2>6. Typed'
    BY <1>1, <2>1, <2>4, <2>5, Assumptions DEF IInv, Typed, Reclaim
  <2>7. Session' /\ Shown'
    BY <1>1, <2>1 DEF IInv, Typed, Session, Shown, Newest
  <2>8. Slotted'
    BY <1>1, <2>1, <2>5 DEF IInv, Typed, Slotted
  <2>9. HeldWhileTravelling'
    BY <1>1, <2>1, <2>3, <2>5 DEF IInv, Typed, HeldWhileTravelling
  <2> QED
    BY <2>3, <2>4, <2>6, <2>7, <2>8, <2>9 DEF IInv
<1>4. CASE free # {}
  <2>1. /\ pic' = [cleared EXCEPT ![first] = {"wait"}]
        /\ dec' = [pc |-> "decode", slot |-> first, gop |-> "inside"]
        /\ inFlight' = inFlight /\ fq' = fq
    BY <1>4 DEF DecoderBegin
  <2>2. first \in free
    <3>1. free \subseteq Nat
      BY DEF Slots
    <3>2. \E x \in free : \A y \in free : x <= y
      BY <1>4, <3>1, LeastNat
    <3> QED
      BY <3>2
  <2>3. first \in Slots /\ cleared[first] = {}
    BY <2>2
  <2> HIDE DEF cleared, free, first
  <2>4. "out" \notin pic[first]
    BY <1>2, <2>3
  <2>5. /\ pic' \in [Slots -> SUBSET Flags] /\ pic'[first] = {"wait"}
        /\ \A s \in Slots \ {first} : pic'[s] = cleared[s]
    BY <1>2, <2>1, <2>3 DEF Flags
  <2>6. Travelling' = Travelling /\ OnePlace'
    BY <1>1, <2>1, PlacesStay DEF Handed
  <2>7. NoneToCome' /\ CountsInFlight' /\ Arrivals
    BY <1>1, <2>1, <2>6, Conserved DEF IInv, Typed
  <2>8. Typed'
    BY <1>1, <2>1, <2>3, <2>5 DEF IInv, Typed
  <2>9. Session' /\ Shown'
    BY <1>1, <2>1 DEF IInv, Typed, Session, Shown, Newest
  <2>10. Slotted'
    BY <1>1, <1>2, <2>1, <2>5 DEF IInv, Typed, Slotted
  <2>11. HeldWhileTravelling'
    <3>1. \A s \in Slots : "out" \in pic'[s] <=> "out" \in pic[s]
      BY <1>2, <2>3, <2>4, <2>5
    <3> QED
      BY <1>1, <2>1, <2>6, <3>1 DEF IInv, HeldWhileTravelling
  <2> QED
    BY <2>6, <2>7, <2>8, <2>9, <2>10, <2>11 DEF IInv
<1> QED
  BY <1>3, <1>4

LEMMA StepEnd ==
  ASSUME IInv, NEW keep \in SUBSET With("ref"), NEW ref \in BOOLEAN, DecoderEnd(keep, ref)
  PROVE  IInv' /\ Arrivals
<1> USE DEF DecoderEnd, DecGoto, dispVars, ringVars
<1>1. dec.pc = "decode" /\ dec'.pc = "pick" /\ dec.slot \in Slots /\ pic[dec.slot] = {"wait"}
      /\ dec' \in [pc : {"pick"}, slot : Slots, gop : {"inside", "drain", "idr"}]
  BY DEF IInv, Typed, Slotted
<1>2. Travelling' = Travelling /\ OnePlace'
  BY <1>1, PlacesStay DEF Handed
<1>3. /\ pic' \in [Slots -> SUBSET Flags]
      /\ pic'[dec.slot] \in {{"wait"}, {"wait", "ref"}}
      /\ \A s \in Slots \ {dec.slot} : pic'[s] = pic[s] \/ pic'[s] = pic[s] \ {"ref"}
  BY <1>1 DEF EndFrame, IInv, Typed, Flags
<1>4. Typed' /\ Session' /\ Shown'
  BY <1>1, <1>3 DEF IInv, Typed, Session, Shown, Newest
<1>5. Slotted'
  <2>1. "out" \notin pic'[dec.slot]
    BY <1>3
  <2>2. \A s \in Slots \ {dec.slot} : ~ {"wait", "out"} \subseteq pic'[s]
    BY <1>3 DEF IInv, Slotted
  <2> QED
    BY <1>1, <2>1, <2>2 DEF Slotted
<1>6. HeldWhileTravelling'
  <2>1. \A s \in Slots : "out" \in pic'[s] <=> "out" \in pic[s]
    BY <1>1, <1>3
  <2> QED
    BY <1>1, <1>2, <2>1 DEF IInv, HeldWhileTravelling
<1>7. NoneToCome' /\ CountsInFlight' /\ Arrivals
  BY <1>2, Conserved DEF IInv, Typed
<1> QED
  BY <1>2, <1>4, <1>5, <1>6, <1>7 DEF IInv

LEMMA StepFault ==
  ASSUME IInv, DecoderFault
  PROVE  IInv' /\ Arrivals
<1> USE DEF DecoderFault, DecGoto, dispVars, ringVars
<1>1. dec.pc \in {"pick", "begin", "decode"} /\ dec'.pc = "error" /\ dec.slot \in Slots
      /\ dec' \in [pc : {"error"}, slot : Slots, gop : {"inside", "drain", "idr"}]
  BY DEF IInv, Typed
<1>2. Travelling' = Travelling /\ OnePlace'
  BY <1>1, PlacesStay DEF Handed
<1>3. /\ pic' \in [Slots -> SUBSET Flags]
      /\ \A s \in Slots : pic'[s] = pic[s] \/ (pic[s] = {"wait"} /\ pic'[s] = {})
  BY <1>1 DEF IInv, Typed, Slotted
<1>4. Typed' /\ Session' /\ Shown'
  BY <1>1, <1>3 DEF IInv, Typed, Session, Shown, Newest
<1>5. Slotted'
  BY <1>1, <1>3 DEF IInv, Typed, Slotted
<1>6. HeldWhileTravelling'
  <2>1. \A s \in Slots : "out" \in pic'[s] <=> "out" \in pic[s]
    BY <1>3
  <2> QED
    BY <1>1, <1>2, <2>1 DEF IInv, HeldWhileTravelling
<1>7. NoneToCome' /\ CountsInFlight' /\ Arrivals
  BY <1>2, Conserved DEF IInv, Typed
<1> QED
  BY <1>2, <1>4, <1>5, <1>6, <1>7 DEF IInv

(* The frame the decoder holds is one of its session. *)
LEMMA HandIsItem ==
  ASSUME IInv, dec.pc = "hand"
  PROVE  Hand \in Item /\ Hand \in Travelling /\ Hand.gen = gen
  BY Assumptions DEF IInv, Typed, Session, Hand, Item, Travelling

LEMMA StepToRing ==
  ASSUME IInv, DecoderToRing
  PROVE  IInv' /\ Arrivals
<1> USE DEF DecoderToRing, DecGoto, dispVars
<1>1. dec.pc = "hand" /\ Handed = {Hand} /\ Handed' = {} /\ dec'.pc \in {"top", "done"}
      /\ dec' \in [pc : {"top", "done"}, slot : Slots, gop : {"inside", "drain", "idr"}]
  BY DEF Handed, IInv, Typed
<1>2. Hand \in Item /\ Hand \in Travelling /\ Hand.gen = gen
  BY <1>1, HandIsItem
<1>3. Session' /\ Shown' /\ Slotted'
  BY <1>1 DEF IInv, Typed, Session, Shown, Newest, Slotted
<1>4. CASE ringOpen
  <2>1. ring' = Append(ring, Hand) /\ Len(ring) < Smooth /\ inFlight' = inFlight
        /\ dec'.pc = "top"
    BY <1>4 DEF IInv, Typed
  <2>2. /\ Frames(ring') = Frames(ring) \cup {Hand}
        /\ IsInjective(ring) /\ Hand \notin Frames(ring) => IsInjective(ring')
    BY <1>2, <2>1, AppendFrames DEF IInv, Typed
  <2>3. Travelling' = Travelling
    BY <1>1, <2>2, Zenon DEF Travelling, Handed
  <2>4. OnePlace'
    BY <1>1, <2>2 DEF IInv, OnePlace, Held
  <2>5. Typed'
    <3>1. ring' \in Seq(Item) /\ Len(ring') <= Smooth
      BY <1>2, <2>1, Assumptions DEF IInv, Typed
    <3> QED
      BY <1>1, <2>1, <3>1 DEF IInv, Typed
  <2>6. HeldWhileTravelling'
    BY <1>1, <2>3 DEF IInv, HeldWhileTravelling
  <2>7. NoneToCome' /\ CountsInFlight' /\ Arrivals
    BY <2>1, <2>3, Conserved DEF IInv, Typed
  <2> QED
    BY <1>3, <2>4, <2>5, <2>6, <2>7 DEF IInv
<1>5. CASE ~ringOpen
  <2>1. ring' = ring /\ inFlight' = inFlight - 1 /\ dec'.pc = "done"
    BY <1>5 DEF IInv, Typed
  <2>2. Travelling' = Travelling \ {Hand} /\ OnePlace'
    BY <1>1, <2>1 DEF Travelling, Handed, IInv, OnePlace, Held
  <2>3. /\ IsFiniteSet(Travelling \ {Hand})
        /\ Cardinality(Travelling \ {Hand}) = Cardinality(Travelling) - 1
    BY <1>2, TravelFinite, FS_RemoveElement
  <2>4. inFlight' = Cardinality(Travelling') /\ inFlight' \in Nat
    BY <2>1, <2>2, <2>3, FS_CardinalityType DEF IInv, CountsInFlight
  <2>5. Typed' /\ HeldWhileTravelling' /\ CountsInFlight'
    BY <1>1, <2>1, <2>4 DEF IInv, Typed, HeldWhileTravelling, CountsInFlight
  <2>6. NoneToCome' /\ Arrivals
    BY <2>2 DEF IInv, NoneToCome, Arrivals
  <2> QED
    BY <1>3, <2>2, <2>5, <2>6 DEF IInv
<1> QED
  BY <1>4, <1>5

LEMMA StepToDisplay ==
  ASSUME IInv, DecoderToDisplay
  PROVE  IInv' /\ Arrivals
<1> USE DEF DecoderToDisplay, DecGoto, ringVars
<1>1. dec.pc = "hand" /\ Handed = {Hand} /\ Handed' = {} /\ dec'.pc = "top"
      /\ dec' \in [pc : {"top"}, slot : Slots, gop : {"inside", "drain", "idr"}]
      /\ Reclaim(pic) /\ dq' = Append(dq, Hand) /\ Len(dq) < DisplayCap
      /\ UNCHANGED <<gen, open, stopReq, ring, ringOpen, pacer, shot, curr, plane, mount, ctl>>
  BY DEF Handed, IInv, Typed
<1>2. Hand \in Item /\ Hand \in Travelling /\ Hand.gen = gen
  BY <1>1, HandIsItem
<1>3. /\ Frames(dq') = Frames(dq) \cup {Hand}
      /\ IsInjective(dq) /\ Hand \notin Frames(dq) => IsInjective(dq')
      /\ Frames(fq') = {} /\ IsInjective(fq')
  BY <1>1, <1>2, AppendFrames, EmptyFrames DEF IInv, Typed, Reclaim
<1>4. Travelling' = Travelling \ Frames(fq)
  BY <1>1, <1>3 DEF Travelling, Handed, IInv, OnePlace, Held
<1>5. OnePlace'
  BY <1>1, <1>3 DEF IInv, OnePlace, Held
<1>6. NoneToCome' /\ CountsInFlight' /\ Arrivals /\ inFlight' \in Nat
  BY <1>1, <1>4, Reclaimed DEF Reclaim
<1>7. /\ pic' \in [Slots -> SUBSET Flags]
      /\ \A s \in Slots : pic'[s] \subseteq pic[s]
      /\ \A s \in Slots :
           "out" \in pic'[s] <=>
             "out" \in pic[s] /\ [gen |-> gen, slot |-> s] \notin Frames(fq)
  BY <1>1, ReclaimedSlots DEF IInv, Typed
<1>8. Typed'
  <2>1. dq' \in Seq(Item) /\ Len(dq') <= DisplayCap /\ fq' = <<>> /\ Len(fq') <= FreeCap
    BY <1>1, <1>2, Assumptions DEF IInv, Typed, Reclaim
  <2> QED
    BY <1>1, <1>6, <1>7, <2>1 DEF IInv, Typed
<1>9. Session' /\ Shown'
  BY <1>1 DEF IInv, Typed, Session, Shown, Newest
<1>10. Slotted'
  BY <1>1, <1>7 DEF IInv, Typed, Slotted
<1>11. HeldWhileTravelling'
  BY <1>1, <1>4, <1>7 DEF IInv, HeldWhileTravelling
<1> QED
  BY <1>5, <1>6, <1>8, <1>9, <1>10, <1>11 DEF IInv

LEMMA StepTake ==
  ASSUME IInv, PacerTake
  PROVE  IInv' /\ Arrivals
<1> USE DEF PacerTake, decVars, dispVars
<1>1. /\ ring \in Seq(Item) /\ ring # <<>> /\ Handed' = Handed
      /\ ring' = Tail(ring) /\ pacer = NoItem /\ pacer' = Head(ring)
  BY DEF IInv, Typed, Handed, Hand
<1>2. /\ pacer' \in Item /\ ring' \in Seq(Item) /\ Len(ring') = Len(ring) - 1
      /\ Frames(ring) = Frames(ring') \cup {pacer'}
      /\ IsInjective(ring) => IsInjective(ring') /\ pacer' \notin Frames(ring')
  BY <1>1, TailFrames
<1>3. pacer' # NoItem /\ Held(pacer) = {} /\ Held(pacer') = {pacer'}
  BY <1>1, <1>2, Assumptions DEF Held
<1>4. Travelling' = Travelling
  BY <1>1, <1>2, <1>3 DEF Travelling, Handed
<1>5. OnePlace'
  BY <1>1, <1>2, <1>3 DEF IInv, OnePlace
<1>6. Typed'
  BY <1>2, Assumptions DEF IInv, Typed
<1>7. Session'
  BY <1>1, Assumptions DEF IInv, Typed, Session
<1>8. Shown' /\ Slotted' /\ HeldWhileTravelling'
  BY <1>4 DEF IInv, Shown, Newest, Slotted, HeldWhileTravelling
<1>9. NoneToCome' /\ CountsInFlight' /\ Arrivals
  BY <1>4, Conserved DEF IInv, Typed
<1> QED
  BY <1>5, <1>6, <1>7, <1>8, <1>9 DEF IInv

LEMMA StepSend ==
  ASSUME IInv, PacerSend
  PROVE  IInv' /\ Arrivals
<1> USE DEF PacerSend, decVars
<1>1. /\ pacer \in Item /\ Handed' = Handed /\ Held(pacer) = {pacer} /\ Held(pacer') = {}
      /\ pacer' = NoItem /\ dq' = Append(dq, pacer) /\ Len(dq) < DisplayCap
  BY DEF IInv, Typed, Handed, Hand, Held
<1>2. /\ dq' \in Seq(Item) /\ Len(dq') <= DisplayCap
      /\ Frames(dq') = Frames(dq) \cup {pacer}
      /\ IsInjective(dq) /\ pacer \notin Frames(dq) => IsInjective(dq')
  BY <1>1, AppendFrames, Assumptions DEF IInv, Typed
<1>3. Travelling' = Travelling
  BY <1>1, <1>2 DEF Travelling, Handed, Held
<1>4. OnePlace'
  BY <1>1, <1>2 DEF IInv, OnePlace
<1>5. Typed'
  BY <1>1, <1>2 DEF IInv, Typed
<1>6. Session' /\ Shown' /\ Slotted' /\ HeldWhileTravelling'
  BY <1>1, <1>3 DEF IInv, Typed, Session, Shown, Newest, Slotted, HeldWhileTravelling
<1>7. NoneToCome' /\ CountsInFlight' /\ Arrivals
  BY <1>3, Conserved DEF IInv, Typed
<1> QED
  BY <1>4, <1>5, <1>6, <1>7 DEF IInv

----------------------------------------------------------------------------
(* The steps of the display thread.                                        *)

LEMMA StepDrain ==
  ASSUME IInv, DisplayDrain
  PROVE  IInv' /\ Arrivals
<1> USE DEF DisplayDrain, decVars, ringVars
<1>1. /\ Handed' = Handed /\ dq' = <<>> /\ dq # <<>> /\ shot.batch = <<>>
      /\ shot' = [pc |-> "commit", batch |-> dq, mount |-> mount, ok |-> FALSE]
  BY DEF IInv, Shown, Handed, Hand
<1>2. /\ Frames(shot.batch) = {} /\ Frames(dq') = {} /\ IsInjective(dq')
      /\ shot'.batch = dq
  BY <1>1, EmptyFrames
<1>3. Travelling' = Travelling
  BY <1>1, <1>2 DEF Travelling, Handed
<1>4. OnePlace'
  BY <1>1, <1>2 DEF IInv, OnePlace, Held
<1>5. Typed'
  BY <1>1, Assumptions DEF IInv, Typed
<1>6. Session' /\ Slotted' /\ HeldWhileTravelling'
  BY <1>3 DEF IInv, Session, Slotted, HeldWhileTravelling
<1>7. Shown'
  BY <1>1 DEF IInv, Shown
<1>8. NoneToCome' /\ CountsInFlight' /\ Arrivals
  BY <1>3, Conserved DEF IInv, Typed
<1> QED
  BY <1>4, <1>5, <1>6, <1>7, <1>8 DEF IInv

LEMMA StepCommit ==
  ASSUME IInv, DisplayCommit
  PROVE  IInv' /\ Arrivals
<1> USE DEF decVars, ringVars
<1>1. PICK ok \in BOOLEAN :
        /\ plane' = IF ok THEN Newest ELSE plane
        /\ shot' = [shot EXCEPT !.pc = "recycle", !.ok = ok]
  BY DEF DisplayCommit
<1>2. /\ shot.pc = "commit" /\ shot'.batch = shot.batch /\ shot'.ok = ok
      /\ shot'.pc = "recycle" /\ Newest' = Newest
      /\ shot' \in [pc : {"recycle"}, batch : Seq(Item), mount : BOOLEAN, ok : BOOLEAN]
      /\ UNCHANGED <<gen, open, stopReq, pic, dec, ring, ringOpen, pacer, dq, curr, fq, mount,
                     inFlight, ctl>>
  BY <1>1 DEF DisplayCommit, IInv, Typed, Newest
<1>3. Travelling' = Travelling /\ OnePlace'
  BY <1>2, PlacesStay DEF Handed, Hand
<1>4. Newest \in Item
  BY <1>2, FrontFrames DEF IInv, Typed, Shown, Newest
<1>5. Typed'
  BY <1>1, <1>2, <1>4 DEF IInv, Typed
<1>6. Session' /\ Slotted' /\ HeldWhileTravelling'
  BY <1>2, <1>3 DEF IInv, Session, Slotted, HeldWhileTravelling
<1>7. Shown'
  BY <1>1, <1>2 DEF IInv, Shown
<1>8. NoneToCome' /\ CountsInFlight' /\ Arrivals
  BY <1>2, <1>3, Conserved DEF IInv, Typed
<1> QED
  BY <1>3, <1>5, <1>6, <1>7, <1>8 DEF IInv

(* What the display thread gives back, and what it keeps. *)
LEMMA ReturnedFrames ==
  ASSUME IInv, shot.pc = "recycle"
  PROVE  /\ Returned \in Seq(Item) /\ IsInjective(Returned)
         /\ Newest \in Frames(shot.batch) /\ Newest \in Item
         /\ ~ shot.ok => Frames(Returned) = Frames(shot.batch)
         /\ shot.ok => Frames(Returned) = (Frames(shot.batch) \ {Newest}) \cup Held(curr)
<1>1. shot.batch \in Seq(Item) /\ shot.batch # <<>> /\ IsInjective(shot.batch)
  BY DEF IInv, Typed, Shown, OnePlace
<1>2. /\ Newest \in Item /\ Front(shot.batch) \in Seq(Item)
      /\ Frames(shot.batch) = Frames(Front(shot.batch)) \cup {Newest}
      /\ IsInjective(Front(shot.batch)) /\ Newest \notin Frames(Front(shot.batch))
  BY <1>1, FrontFrames DEF Newest
<1> DEFINE off == IF curr = NoItem THEN <<>> ELSE <<curr>>
<1>3. off \in Seq(Item) /\ IsInjective(off) /\ Frames(off) = Held(curr)
  <2>1. CASE curr = NoItem
    <3>1. off = <<>> /\ Held(curr) = {} /\ <<>> \in Seq(Item)
      BY <2>1 DEF Held
    <3> HIDE DEF off
    <3> QED
      BY <3>1, EmptyFrames
  <2>2. CASE curr # NoItem
    <3>1. off = Append(<<>>, curr) /\ <<>> \in Seq(Item) /\ curr \in Item /\ Held(curr) = {curr}
      BY <2>2 DEF IInv, Typed, Held
    <3> HIDE DEF off
    <3>2. off \in Seq(Item)
      BY <3>1
    <3>3. \A q \in Seq(Item) : \A x \in Item :
            /\ Frames(Append(q, x)) = Frames(q) \cup {x}
            /\ IsInjective(q) /\ x \notin Frames(q) => IsInjective(Append(q, x))
      BY AppendFrames, Zenon
    <3>4. /\ Frames(off) = Frames(<<>>) \cup {curr}
          /\ IsInjective(<<>>) /\ curr \notin Frames(<<>>) => IsInjective(off)
      BY <3>1, <3>3, Zenon
    <3> QED
      BY <3>1, <3>2, <3>4, EmptyFrames
  <2> QED
    BY <2>1, <2>2
<1>4. Frames(Front(shot.batch)) \cap Held(curr) = {}
  BY <1>2 DEF IInv, OnePlace
<1> HIDE DEF off
<1>5. CASE ~ shot.ok
  BY <1>1, <1>2, <1>5 DEF Returned
<1>6. CASE shot.ok
  <2>1. Returned = Front(shot.batch) \o off
    BY <1>6 DEF Returned, off
  <2>2. /\ Returned \in Seq(Item) /\ IsInjective(Returned)
        /\ Frames(Returned) = Frames(Front(shot.batch)) \cup Held(curr)
    BY <1>2, <1>3, <1>4, <2>1, ConcatFrames
  <2> QED
    BY <1>2, <1>6, <2>2
<1> QED
  BY <1>5, <1>6

LEMMA StepRecycle ==
  ASSUME IInv, DisplayRecycle
  PROVE  IInv' /\ Arrivals
<1> USE DEF decVars, ringVars
<1>1. /\ shot.pc = "recycle" /\ fq' = fq \o Returned /\ Len(fq) + Len(Returned) <= FreeCap
      /\ curr' = (IF shot.ok THEN Newest ELSE curr)
      /\ mount' = (IF shot.ok THEN FALSE ELSE mount)
      /\ shot' = [shot EXCEPT !.pc = "drain", !.batch = <<>>]
      /\ UNCHANGED <<gen, open, stopReq, pic, dec, ring, ringOpen, pacer, dq, plane, inFlight, ctl>>
  BY DEF DisplayRecycle
<1>2. /\ Returned \in Seq(Item) /\ IsInjective(Returned)
      /\ Newest \in Frames(shot.batch) /\ Newest \in Item
      /\ ~ shot.ok => Frames(Returned) = Frames(shot.batch)
      /\ shot.ok => Frames(Returned) = (Frames(shot.batch) \ {Newest}) \cup Held(curr)
  BY <1>1, ReturnedFrames
<1>3. /\ shot'.batch = <<>> /\ shot'.pc = "drain" /\ Handed' = Handed
      /\ shot' \in [pc : {"drain"}, batch : Seq(Item), mount : BOOLEAN, ok : BOOLEAN]
  <2>1. <<>> \in Seq(Item)
    OBVIOUS
  <2> QED
    BY <1>1, <2>1 DEF IInv, Typed, Handed, Hand
<1>4. Frames(shot'.batch) = {} /\ IsInjective(shot'.batch)
  BY <1>3, EmptyFrames
<1>5. /\ Held(curr') = IF shot.ok THEN {Newest} ELSE Held(curr)
      /\ Newest # NoItem
  BY <1>1, <1>2, Assumptions DEF Held
<1>6. Frames(fq) \cap Frames(Returned) = {}
  BY <1>2 DEF IInv, OnePlace
<1>7. /\ fq' \in Seq(Item) /\ Len(fq') <= FreeCap /\ IsInjective(fq')
      /\ Frames(fq') = Frames(fq) \cup Frames(Returned)
  BY <1>1, <1>2, <1>6, ConcatFrames DEF IInv, Typed, OnePlace
<1>8. Travelling' = Travelling
  <2> DEFINE elsewhere == Frames(ring) \cup Frames(dq) \cup Handed \cup Held(pacer)
  <2>1. Travelling = elsewhere \cup Frames(fq) \cup Held(curr) \cup Frames(shot.batch)
    BY DEF Travelling, Handed, Held
  <2>2. Travelling' = elsewhere \cup Frames(fq') \cup Held(curr') \cup Frames(shot'.batch)
    BY <1>1, <1>3 DEF Travelling, Handed, Held
  <2> HIDE DEF elsewhere
  <2>3. CASE shot.ok
    BY <1>2, <1>4, <1>5, <1>7, <2>1, <2>2, <2>3
  <2>4. CASE ~ shot.ok
    BY <1>2, <1>4, <1>5, <1>7, <2>1, <2>2, <2>4
  <2> QED
    BY <2>3, <2>4
<1>9. OnePlace'
  <2>1. CASE shot.ok
    BY <1>1, <1>2, <1>3, <1>4, <1>5, <1>7, <2>1 DEF IInv, OnePlace
  <2>2. CASE ~ shot.ok
    BY <1>1, <1>2, <1>3, <1>4, <1>5, <1>7, <2>2 DEF IInv, OnePlace
  <2> QED
    BY <2>1, <2>2
<1>10. Typed'
  <2>1. curr' \in Item \cup {NoItem} /\ mount' \in BOOLEAN
    BY <1>1, <1>2 DEF IInv, Typed
  <2>2. shot' \in [pc : {"drain", "commit", "recycle"}, batch : Seq(Item),
                  mount : BOOLEAN, ok : BOOLEAN]
    BY <1>3
  <2> HIDE <1>1
  <2>3. UNCHANGED <<gen, open, stopReq, pic, dec, ring, ringOpen, pacer, dq, plane, inFlight, ctl>>
    BY <1>1
  <2> QED
    BY <1>7, <2>1, <2>2, <2>3 DEF IInv, Typed
<1>11. Session' /\ Slotted' /\ HeldWhileTravelling'
  BY <1>1, <1>8 DEF IInv, Session, Slotted, HeldWhileTravelling
<1>12. Shown'
  BY <1>1, <1>3 DEF IInv, Shown
<1>13. NoneToCome' /\ CountsInFlight' /\ Arrivals
  BY <1>1, <1>8, Conserved DEF IInv, Typed
<1> QED
  BY <1>9, <1>10, <1>11, <1>12, <1>13 DEF IInv

----------------------------------------------------------------------------
(* The beginning and the end of a session.                                 *)

LEMMA StepPlay ==
  ASSUME IInv, Play
  PROVE  IInv' /\ Arrivals
<1> USE DEF Play, dispVars
<1>1. /\ dec.pc = "off" /\ ring = <<>> /\ pacer = NoItem /\ ring' = ring /\ pacer' = pacer
      /\ gen \in Nat /\ gen' = gen + 1 /\ gen' \in 0 .. MaxGen
  BY Assumptions DEF IInv, Typed, Session
<1>2. Handed' = Handed /\ dec' \in [pc : {"top"}, slot : Slots, gop : {"idr"}]
  BY <1>1, Assumptions DEF Handed, Slots
<1>3. Travelling' = Travelling /\ OnePlace'
  BY <1>1, <1>2, PlacesStay
<1>4. pic' \in [Slots -> SUBSET Flags] /\ \A s \in Slots : pic'[s] = {}
  OBVIOUS
<1>5. Typed'
  BY <1>1, <1>2, <1>4 DEF IInv, Typed
<1>6. Session' /\ Slotted' /\ Shown'
  BY <1>1, <1>2, <1>4 DEF IInv, Session, Slotted, Shown, Newest
<1>7. HeldWhileTravelling'
  <2>1. ASSUME NEW s \in Slots, [gen |-> gen', slot |-> s] \in Travelling  PROVE FALSE
    <3>1. [gen |-> gen', slot |-> s].gen <= gen
      BY <2>1, Zenon DEF IInv, NoneToCome
    <3> QED
      BY <1>1, <3>1
  <2> QED
    BY <1>3, <1>4, <2>1 DEF HeldWhileTravelling
<1>8. NoneToCome' /\ CountsInFlight' /\ Arrivals
  BY <1>1, <1>3, Conserved
<1> QED
  BY <1>3, <1>5, <1>6, <1>7, <1>8 DEF IInv

LEMMA StepPlayFails ==
  ASSUME IInv, PlayFails
  PROVE  IInv' /\ Arrivals
<1> USE DEF PlayFails, decVars, ringVars, dispVars
<1>1. dec.pc = "off" /\ gen \in Nat /\ gen' = gen + 1 /\ gen' \in 0 .. MaxGen
  BY Assumptions DEF IInv, Typed, Session
<1>2. Travelling' = Travelling /\ OnePlace'
  BY <1>1, PlacesStay DEF Handed
<1>3. Typed'
  <2>1. stopReq' \in BOOLEAN /\ mount' \in BOOLEAN
    BY DEF IInv, Typed
  <2>2. UNCHANGED <<open, pic, dec, ring, ringOpen, pacer, dq, shot, curr, plane, fq, inFlight, ctl>>
    OBVIOUS
  <2> QED
    BY <1>1, <2>1, <2>2 DEF IInv, Typed
<1>4. Session' /\ Slotted' /\ Shown' /\ HeldWhileTravelling'
  BY <1>1 DEF IInv, Session, Slotted, Shown, Newest, HeldWhileTravelling
<1>5. NoneToCome' /\ CountsInFlight' /\ Arrivals
  BY <1>1, <1>2, Conserved
<1> QED
  BY <1>2, <1>3, <1>4, <1>5 DEF IInv

LEMMA StepStop ==
  ASSUME IInv, StopRequest \/ StopJoin \/ StopRemount
  PROVE  IInv' /\ Arrivals
<1> USE DEF StopRequest, StopJoin, StopRemount, decVars, ringVars, dispVars
<1>1. Travelling' = Travelling /\ OnePlace'
  BY PlacesStay DEF Handed, Hand
<1>2. Slotted' /\ Shown' /\ HeldWhileTravelling'
  BY <1>1 DEF IInv, Slotted, Shown, Newest, HeldWhileTravelling
<1>5. Typed'
  BY DEF IInv, Typed
<1>3. Session'
  <2>1. Smooth = 0 => ring = <<>>
    BY Assumptions DEF IInv, Typed
  <2>2. Smooth # 0 => Smooth > 0
    BY Assumptions
  <2> QED
    BY <2>1, <2>2 DEF IInv, Typed, Session
<1>4. NoneToCome' /\ CountsInFlight' /\ Arrivals
  BY <1>1, Conserved DEF IInv, Typed
<1> QED
  BY <1>1, <1>2, <1>3, <1>4, <1>5 DEF IInv

LEMMA StepSettle ==
  ASSUME IInv, StopSettle
  PROVE  IInv' /\ Arrivals
<1> USE DEF StopSettle, ringVars, dispVars
<1>1. /\ UNCHANGED <<gen, open, stopReq, dec, ring, ringOpen, pacer, dq, shot, curr, plane, mount>>
      /\ ctl = "settle" /\ Handed' = Handed /\ dec.pc \in {"done", "error"}
  BY DEF Handed, Hand, IInv, Session
<1>2. CASE Reclaim(pic) /\ UNCHANGED ctl
  <2>1. Travelling' = Travelling \ Frames(fq) /\ OnePlace'
    BY <1>1, <1>2, FreeQueueEmptied DEF Reclaim
  <2>2. NoneToCome' /\ CountsInFlight' /\ Arrivals /\ inFlight' \in Nat
    BY <1>1, <1>2, <2>1, Reclaimed DEF Reclaim
  <2>3. /\ pic' \in [Slots -> SUBSET Flags]
        /\ \A s \in Slots : pic'[s] \subseteq pic[s]
        /\ \A s \in Slots :
             "out" \in pic'[s] <=>
               "out" \in pic[s] /\ [gen |-> gen, slot |-> s] \notin Frames(fq)
    BY <1>2, ReclaimedSlots DEF IInv, Typed
  <2>4. Typed'
    BY <1>1, <1>2, <2>2, <2>3, Assumptions DEF IInv, Typed, Reclaim
  <2>5. Session' /\ Shown'
    BY <1>1, <1>2 DEF IInv, Typed, Session, Shown, Newest
  <2>6. Slotted'
    BY <1>1, <2>3 DEF IInv, Typed, Slotted
  <2>7. HeldWhileTravelling'
    BY <1>1, <2>1, <2>3 DEF IInv, HeldWhileTravelling
  <2> QED
    BY <2>1, <2>2, <2>4, <2>5, <2>6, <2>7 DEF IInv
<1>3. CASE ctl' = "disable" /\ UNCHANGED <<pic, inFlight, fq>>
  <2>1. Travelling' = Travelling /\ OnePlace'
    BY <1>1, <1>3, PlacesStay
  <2>2. Typed' /\ Session' /\ Slotted' /\ Shown' /\ HeldWhileTravelling'
    BY <1>1, <1>3, <2>1 DEF IInv, Typed, Session, Slotted, Shown, Newest, HeldWhileTravelling
  <2>3. NoneToCome' /\ CountsInFlight' /\ Arrivals
    BY <1>1, <1>3, <2>1, Conserved DEF IInv, Typed
  <2> QED
    BY <2>1, <2>2, <2>3 DEF IInv
<1> QED
  BY <1>2, <1>3

LEMMA StepDisable ==
  ASSUME IInv, StopDisable
  PROVE  IInv' /\ Arrivals
<1> USE DEF StopDisable, decVars, ringVars
<1>1. Travelling' = Travelling /\ OnePlace'
  BY PlacesStay DEF Handed, Hand
<1>2. Typed' /\ Session' /\ Slotted' /\ Shown' /\ HeldWhileTravelling'
  BY <1>1 DEF IInv, Typed, Session, Slotted, Shown, Newest, HeldWhileTravelling
<1>3. NoneToCome' /\ CountsInFlight' /\ Arrivals
  BY <1>1, Conserved DEF IInv, Typed
<1> QED
  BY <1>1, <1>2, <1>3 DEF IInv

LEMMA StepClose ==
  ASSUME IInv, StopClose
  PROVE  IInv' /\ Arrivals
<1> USE DEF StopClose, ringVars
<1>1. /\ ctl = "close" /\ dec.pc \in {"done", "error"} /\ ring = <<>> /\ pacer = NoItem
      /\ dec' \in [pc : {"off"}, slot : Slots, gop : {"inside", "drain", "idr"}]
      /\ Handed' = Handed
  BY DEF IInv, Typed, Session, Handed
<1>2. Travelling' = Travelling /\ OnePlace'
  BY <1>1, PlacesStay
<1>3. Typed' /\ Session' /\ Slotted' /\ Shown' /\ HeldWhileTravelling'
  BY <1>1, <1>2 DEF IInv, Typed, Session, Slotted, Shown, Newest, HeldWhileTravelling
<1>4. NoneToCome' /\ CountsInFlight' /\ Arrivals
  BY <1>2, Conserved DEF IInv, Typed
<1> QED
  BY <1>2, <1>3, <1>4 DEF IInv

----------------------------------------------------------------------------
(* Either the first session is still to come, or one was stopped with a    *)
(* frame of it on screen.                                                  *)
Beginning == Init \/ (MaxGen > 0 /\ InitShown)

Sessions == Spec \/ (MaxGen > 0 /\ FairSpecShown)

LEMMA InitIInv == Beginning => IInv
<1> USE DEF Beginning
<1>1. ASSUME Init  PROVE IInv
  <2>1. Travelling = {} /\ OnePlace
    BY <1>1, EmptyFrames DEF Init, Travelling, OnePlace, Handed, Held
  <2>2. Typed
    <3>1. <<>> \in Seq(Item) /\ Len(<<>>) = 0 /\ 0 \in Slots /\ gen \in 0 .. MaxGen
      BY <1>1, Assumptions DEF Init, Slots
    <3>2. pic \in [Slots -> SUBSET Flags]
      BY <1>1 DEF Init
    <3>3. shot \in [pc : {"drain", "commit", "recycle"}, batch : Seq(Item),
                  mount : BOOLEAN, ok : BOOLEAN]
      BY <1>1, <3>1 DEF Init
    <3> QED
      BY <1>1, <3>1, <3>2, <3>3, Assumptions DEF Init, Typed
  <2>3. Session /\ Slotted /\ Shown
    BY <1>1 DEF Init, Session, Slotted, Shown
  <2>4. NoneToCome /\ HeldWhileTravelling /\ CountsInFlight
    BY <1>1, <2>1, FS_EmptySet DEF Init, NoneToCome, HeldWhileTravelling, CountsInFlight
  <2> QED
    BY <2>1, <2>2, <2>3, <2>4 DEF IInv
<1>2. ASSUME MaxGen > 0, InitShown  PROVE IInv
  <2> DEFINE left == [gen |-> 1, slot |-> 0]
  <2>1. left \in Item /\ left # NoItem
    BY <1>2, Assumptions DEF Item, Slots
  <2>2. curr = left
    BY <1>2 DEF InitShown
  <2> HIDE DEF left
  <2>3. Travelling = {left} /\ OnePlace
    BY <1>2, <2>1, <2>2, EmptyFrames DEF InitShown, Travelling, OnePlace, Handed, Held
  <2>4. Typed
    <3>1. <<>> \in Seq(Item) /\ Len(<<>>) = 0 /\ 0 \in Slots /\ gen \in 0 .. MaxGen
      BY <1>2, Assumptions DEF InitShown, Slots
    <3>2. pic \in [Slots -> SUBSET Flags]
      BY <1>2 DEF InitShown, Flags
    <3>3. shot \in [pc : {"drain", "commit", "recycle"}, batch : Seq(Item),
                  mount : BOOLEAN, ok : BOOLEAN]
      BY <1>2, <3>1 DEF InitShown
    <3>4. dec \in [pc : {"off", "top", "pick", "begin", "decode", "hand", "done", "error"},
                  slot : Slots, gop : {"inside", "drain", "idr"}]
      BY <1>2, <3>1 DEF InitShown
    <3>5. curr \in Item \cup {NoItem} /\ plane \in Item \cup {NoItem}
      BY <1>2, <2>1, <2>2 DEF InitShown
    <3>6. /\ ring = <<>> /\ dq = <<>> /\ fq = <<>> /\ pacer = NoItem
          /\ open = FALSE /\ stopReq = TRUE /\ ringOpen = FALSE /\ mount = TRUE
          /\ inFlight = 1 /\ ctl = "idle"
      BY <1>2 DEF InitShown
    <3> HIDE <1>2
    <3>7. /\ ring \in Seq(Item) /\ Len(ring) <= Smooth
          /\ dq \in Seq(Item) /\ Len(dq) <= DisplayCap
          /\ fq \in Seq(Item) /\ Len(fq) <= FreeCap
      BY <3>1, <3>6, Assumptions
    <3> QED
      BY <3>1, <3>2, <3>3, <3>4, <3>5, <3>6, <3>7 DEF Typed
  <2>5. Session /\ Slotted /\ Shown
    BY <1>2, Assumptions DEF InitShown, Session, Slotted, Shown, Slots
  <2>6. NoneToCome /\ HeldWhileTravelling /\ CountsInFlight
    <3>1. left.gen = 1
      BY DEF left
    <3>2. Cardinality({left}) = 1
      BY FS_Singleton
    <3>3. gen = 1 /\ inFlight = 1 /\ dec.pc = "off"
      BY <1>2 DEF InitShown
    <3> QED
      BY <2>3, <3>1, <3>2, <3>3 DEF NoneToCome, HeldWhileTravelling, CountsInFlight
  <2> QED
    BY <2>3, <2>4, <2>5, <2>6 DEF IInv
<1> QED
  BY <1>1, <1>2

LEMMA NextIInv == IInv /\ [Next]_vars => IInv' /\ Arrivals
<1> SUFFICES ASSUME IInv, [Next]_vars  PROVE IInv' /\ Arrivals
  OBVIOUS
<1>1. CASE DecoderStep
  BY <1>1, StepTop, StepFeed, StepBegin, StepFault, StepToRing, StepToDisplay, StepEmit, StepEnd
     DEF DecoderStep
<1>2. CASE PacerStep
  BY <1>2, StepTake, StepSend DEF PacerStep
<1>3. CASE DisplayStep
  BY <1>3, StepDrain, StepCommit, StepRecycle DEF DisplayStep
<1>4. CASE StopStep
  BY <1>4, StepStop, StepSettle, StepDisable, StepClose DEF StopStep
<1>5. CASE Play \/ PlayFails \/ StopRequest
  BY <1>5, StepPlay, StepPlayFails, StepStop
<1>6. CASE UNCHANGED vars
  <2>1. Travelling' = Travelling /\ OnePlace'
    BY <1>6, PlacesStay DEF vars, decVars, ringVars, dispVars, Handed, Hand
  <2>2. NoneToCome' /\ CountsInFlight' /\ Arrivals
    BY <1>6, <2>1, Conserved DEF vars, IInv, Typed
  <2>3. Typed' /\ Session' /\ Slotted' /\ Shown' /\ HeldWhileTravelling'
    BY <1>6, <2>1 DEF vars, decVars, ringVars, dispVars, IInv, Typed, Session, Slotted, Shown,
      Newest, HeldWhileTravelling
  <2> QED
    BY <2>1, <2>2, <2>3 DEF IInv
<1> QED
  BY <1>1, <1>2, <1>3, <1>4, <1>5, <1>6 DEF Next

(* A slot is held for the screen exactly as long as an item of the session *)
(* that plays carries it, and items_in_flight, which mediaplayer_stop      *)
(* waits on, counts the items that exist: over any number of sessions,     *)
(* also those whose stop gave up waiting.                                  *)
THEOREM FramesSafe == Sessions => []FramesAccounted
<1>1. Beginning => IInv
  BY InitIInv
<1>2. IInv /\ [Next]_vars => IInv'
  BY NextIInv
<1>3. IInv => FramesAccounted
  BY DEF IInv, FramesAccounted
<1> QED
  BY <1>1, <1>2, <1>3, PTL DEF Sessions, Beginning, Spec, FairSpecShown

LEMMA NoTearingHolds == IInv => NoTearing
<1> SUFFICES ASSUME IInv, dec.pc = "decode",
                    NEW i \in Travelling \cup {plane}, i # NoItem, i.gen = gen
             PROVE  i.slot # dec.slot
  BY DEF NoTearing
<1>1. i \in Travelling
  <2>1. plane = NoItem \/ plane = curr \/ plane \in Frames(shot.batch)
    BY ReturnedFrames DEF IInv, Shown
  <2> QED
    BY <2>1 DEF Travelling
<1>2. i = [gen |-> gen, slot |-> i.slot] /\ i.slot \in Slots
  BY <1>1, TravelFinite DEF Item
<1>3. "out" \notin pic[dec.slot]
  BY DEF IInv, Slotted
<1>4. "out" \in pic[i.slot]
  BY <1>1, <1>2 DEF IInv, HeldWhileTravelling
<1> QED
  BY <1>3, <1>4

(* vdec_decode never writes into a buffer the plane shows or a frame       *)
(* queued for it lies in.                                                  *)
THEOREM NoTearingSafe == Sessions => []NoTearing
<1>1. Beginning => IInv
  BY InitIInv
<1>2. IInv /\ [Next]_vars => IInv'
  BY NextIInv
<1> QED
  BY <1>1, <1>2, NoTearingHolds, PTL DEF Sessions, Beginning, Spec, FairSpecShown

----------------------------------------------------------------------------
(* How many items there can be.                                            *)

(* What is left of earlier sessions. *)
Old == {i \in Travelling : i.gen # gen}

FewLeft ==
  /\ Cardinality(Old) <= 1
  /\ ~open \/ ctl \in {"disable", "remount", "close"} => inFlight <= 1

LEMMA OldFinite ==
  IInv => /\ IsFiniteSet(Old) /\ Cardinality(Old) \in Nat
          /\ Cardinality(Old) <= Cardinality(Travelling)
BY TravelFinite, FS_Subset, FS_CardinalityType DEF Old

LEMMA InitFewLeft == Beginning => FewLeft
<1> SUFFICES ASSUME Beginning  PROVE FewLeft
  OBVIOUS
<1>1. IInv
  BY InitIInv
<1>2. inFlight \in 0 .. 1
  BY DEF Beginning, Init, InitShown
<1>3. /\ Cardinality(Old) \in Nat /\ Cardinality(Old) <= Cardinality(Travelling)
      /\ Cardinality(Travelling) = inFlight
  BY <1>1, OldFinite DEF IInv, CountsInFlight
<1> QED
  BY <1>2, <1>3 DEF FewLeft

LEMMA FewerInFlight ==
  ASSUME IInv, Next
  PROVE  \/ inFlight' <= inFlight
         \/ open /\ ctl \in {"idle", "join"} /\ open' = open /\ ctl' = ctl
<1>1. Len(fq) \in Nat /\ inFlight \in Nat
  BY DEF IInv, Typed
<1>2. CASE DecoderStep
  <2>1. CASE \E s \in Slots : DecoderEmit(s)
    BY <2>1 DEF DecoderEmit, IInv, Session, Typed
  <2>2. CASE DecoderTop
    BY <1>1, <2>2 DEF DecoderTop, Reclaim
  <2>3. CASE DecoderFeed \/ DecoderFault \/ DecoderToRing
    BY <1>1, <2>3 DEF DecoderFeed, DecoderFault, DecoderToRing
  <2>4. CASE DecoderToDisplay
    BY <1>1, <2>4 DEF DecoderToDisplay, Reclaim
  <2>5. CASE DecoderBegin
    <3>1. inFlight' = inFlight - Len(fq) \/ inFlight' = inFlight
      BY <2>5, Zenon DEF DecoderBegin, Reclaim
    <3> QED
      BY <1>1, <3>1
  <2>6. CASE \E keep \in SUBSET With("ref"), ref \in BOOLEAN : DecoderEnd(keep, ref)
    BY <1>1, <2>6 DEF DecoderEnd
  <2> QED
    BY <1>2, <2>1, <2>2, <2>3, <2>4, <2>5, <2>6 DEF DecoderStep
<1>3. CASE PacerStep \/ DisplayStep
  <2>1. inFlight' = inFlight
    BY <1>3, Zenon DEF PacerStep, PacerTake, PacerSend, DisplayStep, DisplayDrain, DisplayCommit,
      DisplayRecycle
  <2> QED
    BY <1>1, <2>1
<1>4. CASE StopStep \/ Play \/ PlayFails \/ StopRequest
  <2>1. inFlight' = inFlight - Len(fq) \/ inFlight' = inFlight
    BY <1>4, Zenon DEF StopStep, StopJoin, StopSettle, StopDisable, StopRemount, StopClose, Play,
      PlayFails, StopRequest, Reclaim
  <2> QED
    BY <1>1, <2>1
<1> QED
  BY <1>2, <1>3, <1>4 DEF Next

LEMMA OldFiniteNext ==
  (IInv => /\ IsFiniteSet(Old) /\ Cardinality(Old) \in Nat
           /\ Cardinality(Old) <= Cardinality(Travelling))'
BY OldFinite, PTL

(* A stop that waits for the frames leaves at most the one on screen. *)
LEMMA NextFewLeft ==
  ASSUME IInv, FewLeft, ~ Impatient, [Next]_vars
  PROVE  FewLeft'
<1>1. IInv' /\ Arrivals
  BY NextIInv
<1>2. /\ IsFiniteSet(Old) /\ Cardinality(Old) \in Nat /\ Cardinality(Old) <= 1
      /\ Cardinality(Old') \in Nat /\ Cardinality(Old') <= Cardinality(Travelling')
  BY <1>1, OldFinite, OldFiniteNext DEF FewLeft
<1>3. inFlight \in Nat /\ inFlight' \in Nat /\ Cardinality(Travelling') = inFlight'
  BY <1>1 DEF IInv, Typed, CountsInFlight
<1>4. Cardinality(Old') <= 1
  <2>1. CASE gen' = gen
    <3>1. Old' \in SUBSET Old
      BY <1>1, <2>1 DEF Arrivals, Old
    <3> QED
      BY <1>2, <3>1, FS_Subset
  <2>2. CASE gen' # gen
    <3>1. ~open /\ inFlight' = inFlight
      BY <2>2, Zenon DEF Next, DecoderStep, PacerStep, DisplayStep, StopStep, vars, decVars,
        ringVars, dispVars, DecoderTop, DecoderEmit, DecoderFeed, DecoderBegin, DecoderEnd,
        DecoderFault, DecoderToRing, DecoderToDisplay, PacerTake, PacerSend, DisplayDrain,
        DisplayCommit, DisplayRecycle, Play, PlayFails, StopRequest, StopJoin, StopSettle,
        StopDisable, StopRemount, StopClose
    <3> QED
      BY <1>2, <1>3, <3>1 DEF FewLeft
  <2> QED
    BY <2>1, <2>2
<1>5. ~open' \/ ctl' \in {"disable", "remount", "close"} => inFlight' <= 1
  <2>1. CASE Next
    <3>1. inFlight' <= inFlight \/ (open' /\ ctl' \in {"idle", "join"})
      BY <2>1, FewerInFlight
    <3>2. CASE ~open' \/ ctl' \in {"disable", "remount", "close"}
      <4>1. CASE StopSettle
        <5>1. open' /\ ctl' \in {"settle", "disable"}
          BY <4>1 DEF StopSettle, IInv, Session
        <5>2. ctl' = "disable" => inFlight <= 1 /\ inFlight' = inFlight
          BY <4>1 DEF StopSettle
        <5> QED
          BY <1>3, <5>1, <5>2
      <4>2. CASE ~ StopSettle
        <5>1. ~open \/ ctl \in {"disable", "remount", "close"}
          BY <2>1, <3>2, <4>2 DEF Next, DecoderStep, PacerStep, DisplayStep, StopStep, vars, decVars,
            ringVars, dispVars, DecoderTop, DecoderEmit, DecoderFeed, DecoderBegin, DecoderEnd,
            DecoderFault, DecoderToRing, DecoderToDisplay, PacerTake, PacerSend, DisplayDrain,
            DisplayCommit, DisplayRecycle, Play, PlayFails, StopRequest, StopJoin,
            StopDisable, StopRemount, StopClose
        <5> QED
          BY <1>3, <3>1, <3>2, <5>1 DEF FewLeft
      <4> QED
        BY <4>1, <4>2
    <3> QED
      BY <3>2
  <2>2. CASE UNCHANGED vars
    BY <2>2 DEF FewLeft, vars
  <2> QED
    BY <2>1, <2>2
<1> QED
  BY <1>4, <1>5 DEF FewLeft

(* Only so many items can exist. *)
LEMMA SlotsFinite == IsFiniteSet(Slots) /\ Cardinality(Slots) = NSlots
<1>1. 0 \in Int /\ NSlots - 1 \in Int /\ ~(0 > NSlots - 1) /\ (NSlots - 1) - 0 + 1 = NSlots
  BY Assumptions
<1> QED
  BY <1>1, FS_Interval DEF Slots

LEMMA ItemsBounded ==
  ASSUME IInv
  PROVE  Cardinality(Travelling) <= MaxGen * NSlots
<1> DEFINE f == [p \in (1 .. MaxGen) \X Slots |-> [gen |-> p[1], slot |-> p[2]]]
<1>1. IsFiniteSet(1 .. MaxGen) /\ Cardinality(1 .. MaxGen) = MaxGen
  <2>1. 1 \in Int /\ MaxGen \in Int /\ MaxGen - 1 + 1 = MaxGen /\ (1 > MaxGen => MaxGen = 0)
    BY Assumptions
  <2> QED
    BY <2>1, FS_Interval
<1>2. /\ IsFiniteSet((1 .. MaxGen) \X Slots)
      /\ Cardinality((1 .. MaxGen) \X Slots) = MaxGen * NSlots
  BY <1>1, SlotsFinite, FS_Product
<1>3. f \in Surjection((1 .. MaxGen) \X Slots, Item)
  <2>1. f \in [(1 .. MaxGen) \X Slots -> Item]
    BY DEF Item
  <2>2. ASSUME NEW i \in Item  PROVE \E p \in (1 .. MaxGen) \X Slots : f[p] = i
    <3>1. <<i.gen, i.slot>> \in (1 .. MaxGen) \X Slots /\ f[<<i.gen, i.slot>>] = i
      BY DEF Item
    <3> QED
      BY <3>1
  <2> HIDE DEF f
  <2> QED
    BY <2>1, <2>2 DEF Surjection
<1> HIDE DEF f
<1>4. IsFiniteSet(Item) /\ Cardinality(Item) <= MaxGen * NSlots
  BY <1>2, <1>3, FS_Surjection
<1>5. Cardinality(Travelling) <= Cardinality(Item)
  BY <1>4, TravelFinite, FS_Subset
<1>6. /\ Cardinality(Travelling) \in Nat /\ Cardinality(Item) \in Nat
      /\ MaxGen * NSlots \in Nat
  BY <1>4, TravelFinite, FS_CardinalityType, Assumptions
<1> QED
  BY <1>4, <1>5, <1>6

LEMMA OfNowBounded ==
  ASSUME IInv
  PROVE  /\ IsFiniteSet(Travelling \ Old) /\ Cardinality(Travelling \ Old) \in Nat
         /\ Cardinality(Travelling \ Old) <= NSlots
<1> DEFINE ofNow == {[gen |-> gen, slot |-> s] : s \in Slots}
           f == [s \in Slots |-> [gen |-> gen, slot |-> s]]
<1>1. f \in Surjection(Slots, ofNow)
  BY DEF Surjection
<1>2. Travelling \ Old \subseteq ofNow
  BY TravelFinite DEF Old, Item
<1> HIDE DEF f, ofNow
<1>3. IsFiniteSet(ofNow) /\ Cardinality(ofNow) <= NSlots
  BY <1>1, SlotsFinite, FS_Surjection
<1>4. IsFiniteSet(Travelling \ Old) /\ Cardinality(Travelling \ Old) <= Cardinality(ofNow)
  BY <1>2, <1>3, FS_Subset
<1>5. /\ Cardinality(Travelling \ Old) \in Nat /\ Cardinality(ofNow) \in Nat
      /\ NSlots \in Nat
  BY <1>3, <1>4, FS_CardinalityType, Assumptions
<1> QED
  BY <1>3, <1>4, <1>5

LEMMA FewExist ==
  ASSUME IInv, FewLeft
  PROVE  Cardinality(Travelling) <= NSlots + 1
<1>1. Old \in SUBSET Travelling
  BY DEF Old
<1>2. /\ IsFiniteSet(Old) /\ Cardinality(Old) \in Nat /\ Cardinality(Old) <= 1
  BY OldFinite DEF FewLeft
<1>3. Cardinality(Travelling \ Old) = Cardinality(Travelling) - Cardinality(Travelling \cap Old)
  BY TravelFinite, FS_Difference
<1>4. Travelling \cap Old = Old
  BY <1>1
<1>5. Cardinality(Travelling) \in Nat
  BY TravelFinite, FS_CardinalityType
<1>6. Cardinality(Travelling \ Old) = Cardinality(Travelling) - Cardinality(Old)
  BY <1>3, <1>4
<1>7. Cardinality(Travelling \ Old) <= NSlots /\ NSlots \in Nat
  BY OfNowBounded, Assumptions
<1> HIDE DEF Old
<1> QED
  BY <1>2, <1>5, <1>6, <1>7

(* Room in the free queue for every item there can be. *)
Roomy == FreeCap >= MaxGen * NSlots \/ (~ Impatient /\ FreeCap >= NSlots + 1)

LEMMA RoomToRecycle ==
  ASSUME IInv, ~ Impatient => FewLeft, Roomy
  PROVE  RecycleNeverBlocks
<1> SUFFICES ASSUME shot.pc = "recycle"  PROVE Len(fq) + Len(Returned) <= FreeCap
  BY DEF RecycleNeverBlocks
<1>1. /\ Returned \in Seq(Item) /\ IsInjective(Returned)
      /\ Frames(Returned) \subseteq Frames(shot.batch) \cup Held(curr)
  BY ReturnedFrames
<1>2. fq \in Seq(Item) /\ IsInjective(fq) /\ Frames(fq) \cap Frames(Returned) = {}
  BY <1>1 DEF IInv, Typed, OnePlace
<1>3. /\ IsFiniteSet(Frames(fq)) /\ Cardinality(Frames(fq)) = Len(fq)
      /\ IsFiniteSet(Frames(Returned)) /\ Cardinality(Frames(Returned)) = Len(Returned)
  BY <1>1, <1>2, CountFrames
<1>4. /\ Cardinality(Frames(fq) \cup Frames(Returned)) =
           Cardinality(Frames(fq)) + Cardinality(Frames(Returned))
             - Cardinality(Frames(fq) \cap Frames(Returned))
      /\ Cardinality({}) = 0
  BY <1>3, FS_Union, FS_EmptySet
<1>5. Len(fq) \in Nat /\ Len(Returned) \in Nat
  BY <1>1, <1>2
<1>6. Cardinality(Frames(fq) \cup Frames(Returned)) = Len(fq) + Len(Returned)
  <2>1. Cardinality(Frames(fq) \cap Frames(Returned)) = 0
    BY <1>2, <1>4
  <2> QED
    BY <1>3, <1>4, <1>5, <2>1
<1>7. Frames(fq) \cup Frames(Returned) \in SUBSET Travelling
  BY <1>1 DEF Travelling, Held
<1>8. Len(fq) + Len(Returned) <= Cardinality(Travelling)
  BY <1>6, <1>7, TravelFinite, FS_Subset
<1>9. Cardinality(Travelling) \in Nat
  BY TravelFinite, FS_CardinalityType
<1>10. Cardinality(Travelling) <= FreeCap
  <2>1. CASE FreeCap >= MaxGen * NSlots
    <3>1. MaxGen * NSlots \in Nat
      BY Assumptions
    <3> QED
      BY <1>9, <2>1, <3>1, ItemsBounded, Assumptions
  <2>2. CASE ~ Impatient /\ FreeCap >= NSlots + 1
    BY <1>9, <2>2, FewExist, Assumptions
  <2> QED
    BY <2>1, <2>2 DEF Roomy
<1> QED
  BY <1>5, <1>8, <1>9, <1>10, Assumptions

LEMMA TypeHolds == IInv => TypeOK
<1> SUFFICES ASSUME IInv  PROVE TypeOK
  OBVIOUS
<1>1. /\ Frames(ring) \subseteq Item /\ Frames(dq) \subseteq Item /\ Frames(fq) \subseteq Item
      /\ Frames(shot.batch) \subseteq Item
  BY DEF IInv, Typed, Frames
<1>2. inFlight \in 0 .. MaxGen * NSlots
  <2>1. MaxGen * NSlots \in Nat
    BY Assumptions
  <2> QED
    BY <2>1, ItemsBounded DEF IInv, Typed, CountsInFlight
<1>3. shot.pc \in {"drain", "commit", "recycle"} /\ shot.mount \in BOOLEAN /\ shot.ok \in BOOLEAN
  BY DEF IInv, Typed
<1> QED
  BY <1>1, <1>2, <1>3 DEF TypeOK, IInv, Typed

(* Every variable has its type; in particular items_in_flight is never     *)
(* negative and never more than the buffers of all sessions.               *)
THEOREM TypeCorrect == Sessions => []TypeOK
<1>1. Beginning => IInv
  BY InitIInv
<1>2. IInv /\ [Next]_vars => IInv'
  BY NextIInv
<1> QED
  BY <1>1, <1>2, TypeHolds, PTL DEF Sessions, Beginning, Spec, FairSpecShown

(* With that room the display thread never blocks on the free queue, which *)
(* only the decoder empties, and the decoder does not overwrite what it    *)
(* shows.  drm_warpper.c gives the queue the largest number of buffers of  *)
(* a session and four more places.                                         *)
THEOREM ScreenSafe ==
  ASSUME Roomy
  PROVE  Sessions => []ScreenKept
<1> DEFINE JInv == IInv /\ (~ Impatient => FewLeft)
<1>1. Beginning => JInv
  BY InitIInv, InitFewLeft
<1>2. JInv /\ [Next]_vars => JInv'
  BY NextIInv, NextFewLeft
<1>3. JInv => ScreenKept
  BY TypeHolds, NoTearingHolds, RoomToRecycle DEF ScreenKept
<1> QED
  BY <1>1, <1>2, <1>3, PTL DEF Sessions, Beginning, Spec, FairSpecShown
=============================================================================
