----------------------------- MODULE PrtsProofs -----------------------------
(***************************************************************************)
(* Proofs about the switch of operators, for any tables, operators,        *)
(* transitions and inputs: as long as no switch is disturbed, nothing      *)
(* draws from an entry that was freed, and what plays when a switch is     *)
(* over is the operator at the index.                                      *)
(***************************************************************************)
EXTENDS Prts, SequenceTheorems, TLAPS

SwitchTimers ==
  [kind : {"stage2", "mid", "end", "loop", "opinfo"}, slot : Slots, part : Parts, old : BOOLEAN]
Ticks ==
  [pc : {"idle", "drain", "abort", "rebuild", "reselect", "resume", "stage"},
   want : {0} \cup Slots, sw : {0} \cup Slots, back : {"idle", "drain", "resume"}]
States == {"idle", "in", "intro", "loop", "pre", "boot"}
Videos == (Ops \X Parts) \cup {None, BootVideo}

\* TypeOK, by what changes together.
OverlayTyped == OverlayTypeOK(Slots, Parts)
TableTyped == ops \in Seq(Ops) /\ Len(ops) \in Slots /\ cur \in 1 .. Len(ops)
PlayTyped == playing \in Videos /\ lost \in BOOLEAN
PhaseTyped == st \in States /\ first \in BOOLEAN /\ timers \in Seq(SwitchTimers)
QueueTyped == queue \in Seq({Reload} \cup Slots) /\ Len(queue) <= QueueCap
RestTyped ==
  /\ suspended \in BOOLEAN /\ disturbed \in BOOLEAN
  /\ boot \subseteq {"timer", "key"} /\ ipc \in {"no", "wait", "go"}
  /\ inputs \in 0 .. MaxInputs
\* A second stage that is to be scheduled has its operator.
TickTyped == tick \in Ticks /\ (tick.pc = "stage" => tick.sw # 0)

Typed ==
  /\ OverlayTyped /\ TableTyped /\ PlayTyped /\ PhaseTyped /\ QueueTyped /\ RestTyped
  /\ TickTyped

----------------------------------------------------------------------------
\* Sequences.

LEMMA RemoveAtTyped ==
  ASSUME NEW S, NEW s \in Seq(S), NEW i \in 1 .. Len(s)
  PROVE  /\ RemoveAt(s, i) \in Seq(S)
         /\ Len(RemoveAt(s, i)) = Len(s) - 1
         /\ \A j \in 1 .. Len(s) - 1 : RemoveAt(s, i)[j] = IF j < i THEN s[j] ELSE s[j + 1]
  <1> DEFINE a == SubSeq(s, 1, i - 1)
             b == SubSeq(s, i + 1, Len(s))
             ab == a \o b
  <1>1. a \in Seq(S) /\ Len(a) = i - 1 /\ \A j \in 1 .. i - 1 : a[j] = s[j]
    OBVIOUS
  <1>2. b \in Seq(S) /\ Len(b) = Len(s) - i /\ \A j \in 1 .. Len(s) - i : b[j] = s[i + j]
    OBVIOUS
  <1>3. RemoveAt(s, i) = ab
    BY DEF RemoveAt
  <1> HIDE DEF a, b
  <1>0. /\ ab \in Seq(S) /\ Len(ab) = Len(a) + Len(b)
        /\ \A j \in 1 .. Len(a) + Len(b) : ab[j] = IF j <= Len(a) THEN a[j] ELSE b[j - Len(a)]
    BY <1>1, <1>2, ConcatProperties
  <1> HIDE DEF ab
  <1>4. ab \in Seq(S) /\ Len(ab) = Len(s) - 1
    BY <1>0, <1>1, <1>2
  <1>5. ASSUME NEW j \in 1 .. Len(s) - 1
        PROVE  ab[j] = IF j < i THEN s[j] ELSE s[j + 1]
    <2>0. j \in 1 .. Len(a) + Len(b)
      BY <1>1, <1>2
    <2>1. CASE j < i
      <3>1. ab[j] = a[j]
        BY <1>0, <1>1, <2>0, <2>1
      <3>2. j \in 1 .. i - 1
        BY <2>1
      <3> QED
        BY <1>1, <2>1, <3>1, <3>2
    <2>2. CASE j >= i
      <3>1. ab[j] = b[j - Len(a)]
        BY <1>0, <1>1, <2>0, <2>2
      <3>2. j - Len(a) \in 1 .. Len(s) - i /\ i + (j - Len(a)) = j + 1
        BY <1>1, <2>2
      <3>3. ab[j] = s[j + 1]
        BY <1>2, <3>1, <3>2
      <3> QED
        BY <2>2, <3>3
    <2> QED
      BY <2>1, <2>2
  <1> QED
    BY <1>3, <1>4, <1>5

Inserted(q, s, i, e) ==
  /\ Len(q) = Len(s) + 1
  /\ q[i] = e
  /\ \A j \in 1 .. i - 1 : q[j] = s[j]
  /\ \A j \in i + 1 .. Len(s) + 1 : q[j] = s[j - 1]

LEMMA InsertAtTyped ==
  ASSUME NEW S, NEW s \in Seq(S), NEW i \in 1 .. Len(s) + 1, NEW e \in S
  PROVE  InsertAt(s, i, e) \in Seq(S) /\ Inserted(InsertAt(s, i, e), s, i, e)
  <1> DEFINE a == SubSeq(s, 1, i - 1)
             b == SubSeq(s, i, Len(s))
             c == a \o <<e>>
             cb == c \o b
  <1>1. a \in Seq(S) /\ Len(a) = i - 1 /\ \A j \in 1 .. i - 1 : a[j] = s[j]
    OBVIOUS
  <1>2. b \in Seq(S) /\ Len(b) = Len(s) - i + 1
        /\ \A j \in 1 .. Len(s) - i + 1 : b[j] = s[i + j - 1]
    OBVIOUS
  <1>3. InsertAt(s, i, e) = cb
    BY DEF InsertAt
  <1>4. c \in Seq(S) /\ Len(c) = i /\ c[i] = e /\ \A j \in 1 .. i - 1 : c[j] = s[j]
    <2> HIDE DEF a, b
    <2> QED
      BY <1>1
  <1> HIDE DEF a, b, c
  <1>0. /\ cb \in Seq(S) /\ Len(cb) = Len(c) + Len(b)
        /\ \A j \in 1 .. Len(c) + Len(b) : cb[j] = IF j <= Len(c) THEN c[j] ELSE b[j - Len(c)]
    BY <1>2, <1>4, ConcatProperties
  <1> HIDE DEF cb
  <1>5. cb \in Seq(S) /\ Len(cb) = Len(s) + 1
    BY <1>0, <1>2, <1>4
  <1>6. ASSUME NEW j \in 1 .. Len(s) + 1
        PROVE  cb[j] = IF j < i THEN s[j] ELSE IF j = i THEN e ELSE s[j - 1]
    <2>0. j \in 1 .. Len(c) + Len(b)
      BY <1>2, <1>4
    <2>1. CASE j <= i
      <3>1. cb[j] = c[j]
        BY <1>0, <1>4, <2>0, <2>1
      <3>2. CASE j = i
        BY <1>4, <3>1, <3>2
      <3>3. CASE j # i
        <4>1. j \in 1 .. i - 1 /\ j < i
          BY <2>1, <3>3
        <4> QED
          BY <1>4, <3>1, <4>1
      <3> QED
        BY <3>2, <3>3
    <2>2. CASE j > i
      <3>1. cb[j] = b[j - Len(c)]
        BY <1>0, <1>4, <2>0, <2>2
      <3>2. j - Len(c) \in 1 .. Len(s) - i + 1 /\ i + (j - Len(c)) - 1 = j - 1
        BY <1>4, <2>2
      <3> QED
        BY <1>2, <2>2, <3>1, <3>2
    <2> QED
      BY <2>1, <2>2
  <1>7. cb[i] = e
    BY <1>6
  <1>8. ASSUME NEW j \in 1 .. i - 1 PROVE cb[j] = s[j]
    <2>1. j \in 1 .. Len(s) + 1 /\ j < i
      OBVIOUS
    <2> QED
      BY <1>6, <2>1
  <1>9. ASSUME NEW j \in i + 1 .. Len(s) + 1 PROVE cb[j] = s[j - 1]
    <2>1. j \in 1 .. Len(s) + 1 /\ ~(j < i) /\ j # i
      OBVIOUS
    <2> QED
      BY <1>6, <2>1
  <1>10. Inserted(cb, s, i, e)
    BY <1>5, <1>7, <1>8, <1>9 DEF Inserted
  <1> QED
    BY <1>3, <1>5, <1>10

\* The operator moved in the list, and the index that follows it.
LEMMA MoveFollows ==
  ASSUME TableTyped, NEW from \in DOMAIN ops, NEW to \in DOMAIN ops
  PROVE  /\ MoveTo(ops, from, to) \in Seq(Ops)
         /\ Len(MoveTo(ops, from, to)) = Len(ops)
         /\ Follow(from, to) \in 1 .. Len(ops)
         /\ MoveTo(ops, from, to)[Follow(from, to)] = ops[cur]
  <1> DEFINE r == RemoveAt(ops, from)
             e == ops[from]
             m == InsertAt(r, to, e)
  <1>1. ops \in Seq(Ops) /\ cur \in 1 .. Len(ops) /\ from \in 1 .. Len(ops) /\ to \in 1 .. Len(ops)
        /\ ops[from] \in Ops /\ Len(ops) \in Nat
    BY DEF TableTyped
  <1>2. /\ r \in Seq(Ops) /\ Len(r) = Len(ops) - 1
        /\ \A j \in 1 .. Len(ops) - 1 : r[j] = IF j < from THEN ops[j] ELSE ops[j + 1]
    BY <1>1, RemoveAtTyped
  <1> HIDE DEF r
  <1>3. to \in 1 .. Len(r) + 1 /\ Len(r) + 1 = Len(ops)
    BY <1>1, <1>2
  <1>4. /\ m \in Seq(Ops) /\ Len(m) = Len(r) + 1
        /\ m[to] = e
        /\ \A j \in 1 .. to - 1 : m[j] = r[j]
        /\ \A j \in to + 1 .. Len(r) + 1 : m[j] = r[j - 1]
    <2>1. r \in Seq(Ops) /\ to \in 1 .. Len(r) + 1 /\ e \in Ops
      BY <1>1, <1>2, <1>3
    <2> HIDE DEF e
    <2>2. InsertAt(r, to, e) \in Seq(Ops) /\ Inserted(InsertAt(r, to, e), r, to, e)
      BY <2>1, InsertAtTyped, Zenon
    <2>3. m \in Seq(Ops) /\ Inserted(m, r, to, e)
      BY <2>2
    <2> HIDE DEF m
    <2> QED
      BY <2>3 DEF Inserted
  <1>5. MoveTo(ops, from, to) = m
    BY DEF MoveTo, r
  <1> HIDE DEF m
  <1>6. CASE cur = from
    BY <1>1, <1>2, <1>4, <1>5, <1>6 DEF Follow
  <1>7. CASE from < cur /\ cur <= to
    <2>1. Follow(from, to) = cur - 1 /\ cur - 1 \in 1 .. Len(ops) - 1
      BY <1>1, <1>7 DEF Follow
    <2>2. m[cur - 1] = r[cur - 1]
      <3>1. cur - 1 \in 1 .. to - 1
        BY <1>1, <1>3, <1>7, <2>1
      <3> QED
        BY <1>4, <3>1
    <2>3. r[cur - 1] = ops[cur]
      BY <1>1, <1>2, <1>7, <2>1
    <2> QED
      BY <1>1, <1>2, <1>4, <1>5, <2>1, <2>2, <2>3
  <1>8. CASE to <= cur /\ cur < from
    <2>1. Follow(from, to) = cur + 1 /\ cur + 1 \in 1 .. Len(ops) /\ cur \in 1 .. Len(ops) - 1
      BY <1>1, <1>8 DEF Follow
    <2>2. m[cur + 1] = r[cur]
      <3>1. cur + 1 \in to + 1 .. Len(r) + 1 /\ (cur + 1) - 1 = cur
        BY <1>1, <1>3, <1>8, <2>1
      <3> QED
        BY <1>4, <3>1
    <2>3. r[cur] = ops[cur]
      BY <1>1, <1>2, <1>8, <2>1
    <2> QED
      BY <1>1, <1>2, <1>4, <1>5, <2>1, <2>2, <2>3
  <1>9. CASE cur # from /\ ~(from < cur /\ cur <= to) /\ ~(to <= cur /\ cur < from)
    <2>1. Follow(from, to) = cur
      BY <1>9 DEF Follow
    <2>2. CASE cur < from /\ cur < to
      <3>1. cur \in 1 .. Len(ops) - 1
        BY <1>1, <2>2
      <3>2. m[cur] = r[cur]
        BY <1>1, <1>3, <1>4, <2>2
      <3>3. r[cur] = ops[cur]
        BY <1>1, <1>2, <2>2, <3>1
      <3> QED
        BY <1>1, <1>2, <1>4, <1>5, <2>1, <3>2, <3>3
    <2>3. CASE cur > from /\ cur > to
      <3>1. cur - 1 \in 1 .. Len(ops) - 1
        BY <1>1, <2>3
      <3>2. m[cur] = r[cur - 1]
        <4>1. cur \in to + 1 .. Len(r) + 1
          BY <1>1, <1>3, <2>3
        <4> QED
          BY <1>4, <4>1
      <3>3. r[cur - 1] = ops[cur]
        BY <1>1, <1>2, <2>3, <3>1
      <3> QED
        BY <1>1, <1>2, <1>4, <1>5, <2>1, <3>2, <3>3
    <2> QED
      BY <1>1, <1>9, <2>2, <2>3
  <1> QED
    BY <1>6, <1>7, <1>8, <1>9

----------------------------------------------------------------------------
\* Type correctness.

\* Every position of a table is a slot.
LEMMA SlotsHold ==
  /\ MaxLen \in Nat \ {0} /\ 1 \in Slots /\ Slots \subseteq Nat \ {0}
  /\ \A t \in Tables : t \in Seq(Ops) /\ Len(t) \in Slots
  <1>1. PICK t \in Tables : \A u \in Tables : Len(u) <= Len(t)
    BY PrtsAssumption
  <1>2. \A u \in Tables : u \in Seq(Ops) /\ u # <<>> /\ Len(u) \in Nat \ {0}
    BY PrtsAssumption, EmptySeq
  <1>3. \E n \in {Len(u) : u \in Tables} : \A u \in Tables : Len(u) <= n
    BY <1>1
  <1>4. MaxLen \in {Len(u) : u \in Tables} /\ \A u \in Tables : Len(u) <= MaxLen
    BY <1>3 DEF MaxLen
  <1>5. MaxLen \in Nat \ {0}
    BY <1>2, <1>4
  <1> QED
    BY <1>2, <1>4, <1>5 DEF Slots

LEMMA TypedIsTypeOK == Typed => TypeOK
  <1> SUFFICES ASSUME Typed PROVE TypeOK
    OBVIOUS
  <1>1. OverlayTypeOK(Slots, Parts)
    BY DEF Typed, OverlayTyped
  <1>2. ops \in Seq(Ops) /\ Len(ops) \in Slots /\ cur \in DOMAIN ops
    BY DEF Typed, TableTyped
  <1>3. playing \in (Ops \X Parts) \cup {None, BootVideo} /\ lost \in BOOLEAN
    BY DEF Typed, PlayTyped, Videos
  <1>4. /\ st \in {"idle", "in", "intro", "loop", "pre", "boot"} /\ first \in BOOLEAN
        /\ timers \in Seq([kind : {"stage2", "mid", "end", "loop", "opinfo"},
                           slot : Slots, part : Parts, old : BOOLEAN])
    BY DEF Typed, PhaseTyped, States, SwitchTimers
  <1>5. queue \in Seq({Reload} \cup Slots) /\ Len(queue) <= QueueCap
    BY DEF Typed, QueueTyped
  <1>6. /\ suspended \in BOOLEAN /\ disturbed \in BOOLEAN
        /\ boot \subseteq {"timer", "key"} /\ ipc \in {"no", "wait", "go"}
        /\ inputs \in 0 .. MaxInputs
    BY DEF Typed, RestTyped
  <1>7. tick \in [pc : {"idle", "drain", "abort", "rebuild", "reselect", "resume", "stage"},
                  want : {0} \cup Slots, sw : {0} \cup Slots,
                  back : {"idle", "drain", "resume"}]
    BY DEF Typed, TickTyped, Ticks
  <1> QED
    BY <1>1, <1>2, <1>3, <1>4, <1>5, <1>6, <1>7 DEF TypeOK

LEMMA InitTyped == Init => Typed
  <1> SUFFICES ASSUME Init PROVE Typed
    OBVIOUS
  <1> USE SlotsHold, PrtsAssumption
  <1>1. OverlayTyped
    BY DEF Init, OverlayInit, OverlayTyped, OverlayTypeOK, FxData, NoData, Parts, Effects
  <1>2. TableTyped
    BY DEF Init, TableTyped, Slots
  <1>3. PlayTyped
    BY DEF Init, PlayTyped, Videos
  <1>4. PhaseTyped
    <2>1. Timer("stage2", 1, "loop") \in SwitchTimers
      BY DEF Timer, SwitchTimers, Parts
    <2>2. timers = <<>> \/ timers = <<Timer("stage2", 1, "loop")>>
      BY DEF Init
    <2>3. timers \in Seq(SwitchTimers)
      <3>1. <<>> \in Seq(SwitchTimers) /\ <<Timer("stage2", 1, "loop")>> \in Seq(SwitchTimers)
        BY ONLY <2>1
      <3> QED
        BY ONLY <2>2, <3>1
    <2> QED
      BY <2>3 DEF Init, PhaseTyped, States
  <1>5. QueueTyped
    BY DEF Init, QueueTyped
  <1>6. RestTyped
    <2>1. inputs \in 0 .. MaxInputs
      BY DEF Init
    <2>2. suspended \in BOOLEAN /\ disturbed \in BOOLEAN
      BY Zenon DEF Init
    <2> QED
      BY <2>1, <2>2 DEF Init, RestTyped
  <1>7. TickTyped
    BY DEF Init, TickTyped, Ticks
  <1> QED
    BY <1>1, <1>2, <1>3, <1>4, <1>5, <1>6, <1>7 DEF Typed

\* What the threads start and abort of an effect.
LEMMA StartTyped ==
  ASSUME OverlayTyped, NEW slot \in Slots, NEW part \in Parts
  PROVE  /\ StartTimed => OverlayTyped'
         /\ StartSwipe(slot, part) => OverlayTyped'
         /\ \A e \in {"engine", "ark"} : Show(e, slot) => OverlayTyped'
         /\ AbortBegin => OverlayTyped'
         /\ UNCHANGED overlayVars => OverlayTyped'
  <1> USE DEF OverlayTyped, OverlayTypeOK
  <1>0. Data(slot, part) \in FxData(Slots, Parts) /\ Data(slot, "loop") \in FxData(Slots, Parts)
    BY DEF Data, FxData, Parts
  <1>1. StartTimed => OverlayTyped'
    BY DEF StartTimed
  <1>2. StartSwipe(slot, part) => OverlayTyped'
    BY <1>0 DEF StartSwipe, Effects
  <1>3. AbortBegin => OverlayTyped'
    BY DEF AbortBegin
  <1>4. UNCHANGED overlayVars => OverlayTyped'
    BY DEF overlayVars
  <1>5. ASSUME NEW e \in {"engine", "ark"}, Show(e, slot) PROVE OverlayTyped'
    <2>1. CASE UNCHANGED overlayVars
      BY <1>4, <2>1
    <2>2. CASE ~UNCHANGED overlayVars
      <3>1. /\ abortReq' = FALSE /\ used' = TRUE /\ handle' = e
            /\ active' = (active \/ e = "engine")
            /\ fx' = [fx EXCEPT ![e] = Data(slot, "loop")]
            /\ UNCHANGED <<ticks, worker>>
        BY <1>5, <2>2 DEF Show
      <3>2. active' \in BOOLEAN
        BY <3>1, Zenon
      <3> QED
        BY <1>0, <3>1, <3>2 DEF Effects
    <2> QED
      BY <2>1, <2>2
  <1> QED
    BY <1>1, <1>2, <1>3, <1>4, <1>5

\* The timers of the effects, and the worker.
LEMMA EffectTyped ==
  ASSUME OverlayTyped
  PROVE  /\ \A e \in Effects : FxTick(e) \/ LateTick(e) => OverlayTyped'
         /\ WorkerIgnore \/ WorkerAbort \/ WorkerDraw \/ WorkerDrawn => OverlayTyped'
         /\ SwipeHalf \/ SwipeLast => OverlayTyped'
  <1> USE SlotsHold DEF OverlayTyped, OverlayTypeOK
  <1>1. ASSUME NEW e \in Effects, Ask(e)
        PROVE  worker' \in [fx : Effects \cup {None}, pending : Effects \cup {None}]
    BY <1>1 DEF Ask
  <1>2. ASSUME NEW e \in Effects, FxTick(e) \/ LateTick(e) PROVE OverlayTyped'
    <2>1. worker' \in [fx : Effects \cup {None}, pending : Effects \cup {None}]
      BY <1>1, <1>2 DEF FxTick, LateTick
    <2>2. ticks' \subseteq Effects
      BY <1>2 DEF FxTick, LateTick
    <2>3. UNCHANGED <<used, abortReq, handle, active, fx>>
      BY <1>2 DEF FxTick, LateTick
    <2> QED
      BY <2>1, <2>2, <2>3
  <1>3. NoData \in FxData(Slots, Parts)
    BY DEF NoData, FxData, Parts
  <1>4. ASSUME NEW e \in Effects, Cleanup(e)
        PROVE  /\ handle' \in Effects \cup {None}
               /\ active' \in BOOLEAN
               /\ fx' \in [Effects -> FxData(Slots, Parts)]
    <2>1. active' \in BOOLEAN
      BY <1>4, Zenon DEF Cleanup
    <2> QED
      BY <1>3, <1>4, <2>1 DEF Cleanup
  <1>5. WorkerDone => worker' \in [fx : Effects \cup {None}, pending : Effects \cup {None}]
    BY DEF WorkerDone
  <1>6. WorkerIgnore => OverlayTyped'
    BY DEF WorkerIgnore, WorkerTakes
  <1>7. ASSUME WorkerAbort PROVE OverlayTyped'
    <2>1. worker.pending \in Effects
      BY <1>7 DEF WorkerAbort, WorkerTakes
    <2>2. /\ worker' = [worker EXCEPT !.pending = None] /\ Cleanup(worker.pending)
          /\ UNCHANGED <<used, abortReq, ticks>>
      BY <1>7 DEF WorkerAbort, WorkerTakes
    <2> QED
      BY <1>4, <2>1, <2>2
  <1>8. WorkerDraw => OverlayTyped'
    BY DEF WorkerDraw, WorkerTakes
  <1>9. ASSUME WorkerDrawn PROVE OverlayTyped'
    <2>1. /\ UNCHANGED <<used, abortReq, ticks>>
          /\ worker' \in [fx : Effects \cup {None}, pending : Effects \cup {None}]
          /\ UNCHANGED <<handle, active, fx>> \/ Cleanup("engine")
      BY <1>5, <1>9 DEF WorkerDrawn
    <2> QED
      BY <1>4, <2>1 DEF Effects
  <1>10. ASSUME SwipeHalf PROVE OverlayTyped'
    <2>1. /\ UNCHANGED <<used, abortReq, handle, active, ticks>>
          /\ worker' \in [fx : Effects \cup {None}, pending : Effects \cup {None}]
      BY <1>5, <1>10 DEF SwipeHalf
    <2>2. fx \in [Effects -> FxData(Slots, Parts)] /\ "swipe" \in Effects
      BY DEF Effects
    <2>3. [fx["swipe"] EXCEPT !.mid = TRUE] \in FxData(Slots, Parts)
      BY <2>2 DEF FxData
    <2>4. fx' = [fx EXCEPT !["swipe"] = [fx["swipe"] EXCEPT !.mid = TRUE]]
      BY <1>10, <2>2 DEF SwipeHalf
    <2>5. fx' \in [Effects -> FxData(Slots, Parts)]
      BY <2>2, <2>3, <2>4
    <2> QED
      BY <2>1, <2>5
  <1>11. ASSUME SwipeLast PROVE OverlayTyped'
    BY <1>4, <1>5, <1>11 DEF SwipeLast, Effects
  <1> QED
    BY <1>2, <1>6, <1>7, <1>8, <1>9, <1>10, <1>11

LEMMA PlayIsTyped ==
  ASSUME TableTyped, NEW slot \in DOMAIN ops, NEW part \in Parts, Play(slot, part)
  PROVE  PlayTyped'
  <1>1. ops[slot] \in Ops
    BY DEF TableTyped
  <1>2. playing' \in {<<ops[slot], part>>, None} /\ lost' = FALSE
    BY DEF Play
  <1>3. lost' \in BOOLEAN
    BY <1>2, Zenon
  <1> QED
    BY <1>1, <1>2, <1>3 DEF PlayTyped, Videos

\* What follows a video adds at most one timer.
LEMMA AfterTyped ==
  ASSUME NEW slot \in Slots, NEW s, NEW o \in After(s, slot), s \in States,
         NEW ts \in Seq(SwitchTimers)
  PROVE  o.st \in States /\ ts \o o.add \in Seq(SwitchTimers)
  <1>1. /\ Timer("loop", slot, "loop") \in SwitchTimers
        /\ Timer("opinfo", slot, "loop") \in SwitchTimers
    BY DEF Timer, SwitchTimers, Parts
  <1>2. o.st \in States /\ o.add \in {<<>>, <<Timer("loop", slot, "loop")>>,
                                      <<Timer("opinfo", slot, "loop")>>}
    <2>1. CASE s = "in"
      BY <2>1 DEF After, States
    <2>2. CASE s = "loop" /\ Opinfo[ops[slot]] # None
      BY <2>2 DEF After, States
    <2>3. CASE s # "in" /\ ~(s = "loop" /\ Opinfo[ops[slot]] # None)
      BY <2>3 DEF After, States
    <2> QED
      BY <2>1, <2>2, <2>3
  <1>3. <<>> \in Seq(SwitchTimers)
    OBVIOUS
  <1>4. <<Timer("loop", slot, "loop")>> \in Seq(SwitchTimers)
    BY <1>1
  <1>5. <<Timer("opinfo", slot, "loop")>> \in Seq(SwitchTimers)
    BY <1>1
  <1>6. o.add \in Seq(SwitchTimers)
    BY ONLY <1>2, <1>3, <1>4, <1>5
  <1> QED
    BY <1>2, <1>6, ConcatProperties

LEMMA OthersTyped ==
  ASSUME PhaseTyped, NEW k \in DOMAIN timers
  PROVE  Others(k) \in Seq(SwitchTimers) /\ timers[k] \in SwitchTimers
  <1>1. timers \in Seq(SwitchTimers) /\ k \in 1 .. Len(timers)
    BY DEF PhaseTyped
  <1> QED
    BY <1>1, RemoveAtTyped, ElementOfSeq DEF Others

LEMMA LaunchTyped ==
  ASSUME Typed, NEW s \in {"in", "loop"}, NEW kind \in {"timed", "swipe", "none"},
         NEW slot \in DOMAIN ops, slot \in Slots, NEW part \in Parts,
         NEW ts \in Seq(SwitchTimers), Launch(s, kind, slot, part, ts)
  PROVE  OverlayTyped' /\ PlayTyped' /\ st' \in States /\ timers' \in Seq(SwitchTimers)
  <1>1. OverlayTyped /\ TableTyped /\ PlayTyped
    BY DEF Typed
  <1>2. s \in States
    BY DEF States
  <1>3. CASE kind = "timed"
    <2>1. /\ st' = s /\ timers' = Append(ts, Timer("mid", slot, part))
          /\ StartTimed /\ UNCHANGED playVars
      BY <1>3 DEF Launch
    <2>2. Timer("mid", slot, part) \in SwitchTimers
      BY DEF Timer, SwitchTimers
    <2>3. PlayTyped'
      BY <1>1, <2>1 DEF PlayTyped, playVars
    <2>4. timers' \in Seq(SwitchTimers)
      BY <2>1, <2>2
    <2> QED
      BY <1>1, <1>2, <2>1, <2>3, <2>4, StartTyped
  <1>4. CASE kind = "swipe"
    <2>1. st' = s /\ timers' = ts /\ StartSwipe(slot, part) /\ UNCHANGED playVars
      BY <1>4 DEF Launch
    <2>2. PlayTyped'
      BY <1>1, <2>1 DEF PlayTyped, playVars
    <2> QED
      BY <1>1, <1>2, <2>1, <2>2, StartTyped
  <1>5. CASE kind = "none"
    <2>1. /\ Play(slot, part)
          /\ \E o \in After(s, slot) : st' = o.st /\ timers' = ts \o o.add
          /\ UNCHANGED overlayVars
      BY <1>5 DEF Launch
    <2>2. PlayTyped'
      BY <1>1, <2>1, PlayIsTyped
    <2>3. st' \in States /\ timers' \in Seq(SwitchTimers)
      BY <1>2, <2>1, AfterTyped
    <2>4. OverlayTyped'
      BY <1>1, <2>1, StartTyped
    <2> QED
      BY <2>2, <2>3, <2>4
  <1> QED
    BY <1>3, <1>4, <1>5

\* What is left alone keeps its type.
LEMMA SameTyped ==
  ASSUME Typed
  PROVE  /\ UNCHANGED tableVars => TableTyped'
         /\ UNCHANGED playVars => PlayTyped'
         /\ UNCHANGED <<st, first, timers>> => PhaseTyped'
         /\ UNCHANGED queue => QueueTyped'
         /\ UNCHANGED <<suspended, boot, ipc, inputs, disturbed>> => RestTyped'
         /\ UNCHANGED tick => TickTyped'
         /\ UNCHANGED overlayVars => OverlayTyped'
         /\ UNCHANGED switchVars => TableTyped' /\ PlayTyped' /\ PhaseTyped'
  <1> USE DEF Typed
  <1>1. UNCHANGED tableVars => TableTyped'
    BY DEF TableTyped, tableVars
  <1>2. UNCHANGED playVars => PlayTyped'
    BY DEF PlayTyped, playVars
  <1>3. UNCHANGED <<st, first, timers>> => PhaseTyped'
    BY DEF PhaseTyped
  <1>4. UNCHANGED queue => QueueTyped'
    BY DEF QueueTyped
  <1>5. UNCHANGED <<suspended, boot, ipc, inputs, disturbed>> => RestTyped'
    BY DEF RestTyped
  <1>6. UNCHANGED tick => TickTyped'
    BY DEF TickTyped
  <1>7. UNCHANGED overlayVars => OverlayTyped'
    BY StartTyped, SlotsHold DEF Parts
  <1>8. UNCHANGED switchVars => UNCHANGED tableVars /\ UNCHANGED playVars /\ UNCHANGED <<st, first, timers>>
    BY DEF switchVars
  <1> QED
    BY <1>1, <1>2, <1>3, <1>4, <1>5, <1>6, <1>7, <1>8

LEMMA SlotsOfOps == TableTyped => DOMAIN ops \subseteq Slots
  BY SlotsHold DEF TableTyped, Slots

LEMMA Stage2Typed ==
  ASSUME Typed, NEW k \in DOMAIN timers, Stage2(k)
  PROVE  Typed'
  <1> DEFINE slot == timers[k].slot
  <1>1. PhaseTyped /\ TableTyped /\ DOMAIN ops \subseteq Slots
    BY SlotsOfOps DEF Typed
  <1>2. Others(k) \in Seq(SwitchTimers) /\ slot \in Slots /\ slot \in Nat
    BY <1>1, OthersTyped, SlotsHold DEF SwitchTimers
  <1>3. UNCHANGED <<queue, suspended, tick, boot, ipc, inputs, disturbed>>
    BY DEF Stage2
  <1>4. QueueTyped' /\ RestTyped' /\ TickTyped'
    BY <1>3, SameTyped
  <1>5. CASE slot \notin DOMAIN ops
    <2>1. timers' = Others(k) /\ UNCHANGED <<tableVars, st, first, playVars, overlayVars>>
      BY <1>5 DEF Stage2
    <2>2. TableTyped' /\ PlayTyped' /\ OverlayTyped'
      BY <2>1, SameTyped
    <2>3. PhaseTyped'
      BY <1>1, <1>2, <2>1 DEF PhaseTyped
    <2> QED
      BY <1>4, <2>2, <2>3 DEF Typed
  <1>6. CASE slot \in DOMAIN ops
    <2>1. PICK intro \in {FALSE} \cup {ops[slot] \in HasIntro} :
            Launch(IF intro THEN "in" ELSE "loop",
                   IF first THEN "timed" ELSE TransitionIn[ops[slot]],
                   slot, IF intro THEN "intro" ELSE "loop", Others(k))
      BY <1>6 DEF Stage2
    <2>2. cur' = slot /\ first' = FALSE /\ ops' = ops
      BY <1>6 DEF Stage2
    <2>3. ops[slot] \in Ops
      BY <1>1, <1>6 DEF TableTyped
    <2> DEFINE s == IF intro THEN "in" ELSE "loop"
               kind == IF first THEN "timed" ELSE TransitionIn[ops[slot]]
               part == IF intro THEN "intro" ELSE "loop"
    <2>4. s \in {"in", "loop"} /\ part \in Parts
      BY DEF Parts
    <2>5. kind \in {"timed", "swipe", "none"}
      BY <2>3, PrtsAssumption
    <2>6. Launch(s, kind, slot, part, Others(k))
      BY <2>1
    <2> HIDE DEF s, kind, part, slot
    <2>7. OverlayTyped' /\ PlayTyped' /\ st' \in States /\ timers' \in Seq(SwitchTimers)
      BY <1>2, <1>6, <2>4, <2>5, <2>6, LaunchTyped
    <2>8. TableTyped'
      BY <1>1, <1>6, <2>2 DEF TableTyped
    <2>9. first' \in BOOLEAN
      BY <2>2, Zenon
    <2>10. PhaseTyped'
      BY <2>7, <2>9 DEF PhaseTyped
    <2> QED
      BY <1>4, <2>7, <2>8, <2>10 DEF Typed
  <1> QED
    BY <1>5, <1>6

LEMMA FireTyped ==
  ASSUME Typed, NEW k \in DOMAIN timers, Middle(k) \/ End(k) \/ IntroOver(k) \/ ShowOpinfo(k)
  PROVE  Typed'
  <1> DEFINE slot == timers[k].slot
             part == timers[k].part
  <1>1. OverlayTyped /\ PhaseTyped /\ TableTyped /\ DOMAIN ops \subseteq Slots
    BY SlotsOfOps DEF Typed
  <1>2. timers[k] \in SwitchTimers /\ timers \in Seq(SwitchTimers) /\ k \in 1 .. Len(timers)
    BY <1>1, OthersTyped DEF PhaseTyped
  <1>3. Others(k) \in Seq(SwitchTimers) /\ slot \in Slots /\ part \in Parts
    BY <1>1, <1>2, OthersTyped DEF SwitchTimers
  <1>4. UNCHANGED <<tableVars, first, queue, suspended, tick, boot, ipc, inputs, disturbed>>
        /\ slot \in DOMAIN ops
    BY DEF Middle, End, IntroOver, ShowOpinfo, Expires
  <1>5. TableTyped' /\ QueueTyped' /\ RestTyped' /\ TickTyped'
    BY <1>4, SameTyped
  <1>6. ops[slot] \in Ops
    BY <1>1, <1>4 DEF TableTyped
  <1>7. st \in States /\ first' \in BOOLEAN
    BY <1>1, <1>4 DEF PhaseTyped
  <1>8. ASSUME OverlayTyped', PlayTyped', st' \in States, timers' \in Seq(SwitchTimers)
        PROVE  Typed'
    BY <1>5, <1>7, <1>8 DEF Typed, PhaseTyped
  <1>9. CASE Middle(k)
    <2>1. /\ Play(slot, part) /\ timers' = [timers EXCEPT ![k].kind = "end"]
          /\ st' = st /\ UNCHANGED overlayVars
      BY <1>9 DEF Middle
    <2>2. PlayTyped' /\ OverlayTyped'
      BY <1>1, <1>3, <1>4, <2>1, PlayIsTyped, SameTyped
    <2>3. [timers[k] EXCEPT !.kind = "end"] \in SwitchTimers
      BY <1>2 DEF SwitchTimers
    <2>4. timers' \in Seq(SwitchTimers)
      BY <1>2, <2>1, <2>3
    <2> QED
      BY <1>7, <1>8, <2>1, <2>2, <2>4
  <1>10. CASE End(k)
    <2>1. /\ \E o \in After(st, slot) : st' = o.st /\ timers' = Others(k) \o o.add
          /\ UNCHANGED playVars /\ UNCHANGED overlayVars
      BY <1>10 DEF End
    <2>2. st' \in States /\ timers' \in Seq(SwitchTimers)
      BY <1>3, <1>7, <2>1, AfterTyped
    <2>3. OverlayTyped' /\ PlayTyped'
      BY <2>1, SameTyped
    <2> QED
      BY <1>8, <2>2, <2>3
  <1>11. CASE IntroOver(k)
    <2>1. Launch("loop", TransitionLoop[ops[slot]], slot, "loop", Others(k))
      BY <1>11 DEF IntroOver
    <2>2. TransitionLoop[ops[slot]] \in {"timed", "swipe", "none"} /\ "loop" \in Parts
      BY <1>6, PrtsAssumption DEF Parts
    <2> HIDE DEF slot
    <2>3. OverlayTyped' /\ PlayTyped' /\ st' \in States /\ timers' \in Seq(SwitchTimers)
      BY <1>3, <1>4, <2>1, <2>2, LaunchTyped
    <2> QED
      BY <1>8, <2>3
  <1>12. CASE ShowOpinfo(k)
    <2>1. /\ IF Opinfo[ops[slot]] = None THEN UNCHANGED overlayVars ELSE Show(Opinfo[ops[slot]], slot)
          /\ st' = "idle" /\ timers' = Others(k) /\ UNCHANGED playVars
      BY <1>12 DEF ShowOpinfo
    <2>2. Opinfo[ops[slot]] \in {"engine", "ark", None}
      BY <1>6, PrtsAssumption
    <2>3. OverlayTyped'
      <3>1. CASE Opinfo[ops[slot]] = None
        BY <1>1, <2>1, <3>1, SameTyped
      <3>2. CASE Opinfo[ops[slot]] # None
        BY <1>1, <1>3, <2>1, <2>2, <3>2, StartTyped
      <3> QED
        BY <3>1, <3>2
    <2>4. PlayTyped' /\ st' \in States
      BY <2>1, SameTyped DEF States
    <2> QED
      BY <1>3, <1>8, <2>1, <2>3, <2>4
  <1> QED
    BY <1>9, <1>10, <1>11, <1>12

LEMMA WorkerTyped ==
  ASSUME Typed, WorkerStep \/ \E e \in Effects : EffectTick(e)
  PROVE  Typed'
  <1>1. OverlayTyped /\ PhaseTyped /\ TableTyped /\ DOMAIN ops \subseteq Slots
    BY SlotsOfOps DEF Typed
  <1>2. CASE /\ \/ WorkerIgnore \/ WorkerAbort \/ WorkerDraw \/ WorkerDrawn
                \/ \E e \in Effects : FxTick(e) \/ LateTick(e)
             /\ UNCHANGED <<switchVars, queue, suspended, tick, boot, ipc, inputs, disturbed>>
    BY <1>1, <1>2, EffectTyped, SameTyped DEF Typed
  <1> DEFINE slot == fx["swipe"].slot
             part == fx["swipe"].part
  <1>3. slot \in Slots /\ part \in Parts
    BY <1>1 DEF OverlayTyped, OverlayTypeOK, FxData, Effects
  <1>4. CASE SwipeMiddle
    <2>1. /\ SwipeHalf /\ slot \in DOMAIN ops /\ Play(slot, part)
          /\ UNCHANGED <<tableVars, st, first, timers, queue, suspended, tick, boot, ipc, inputs,
                         disturbed>>
      BY <1>4 DEF SwipeMiddle
    <2>2. OverlayTyped' /\ PlayTyped'
      BY <1>1, <1>3, <2>1, EffectTyped, PlayIsTyped
    <2>3. TableTyped' /\ PhaseTyped' /\ QueueTyped' /\ RestTyped' /\ TickTyped'
      BY <2>1, SameTyped
    <2> QED
      BY <2>2, <2>3 DEF Typed
  <1>5. CASE SwipeEnd
    <2>1. /\ SwipeLast
          /\ \E o \in After(st, slot) : st' = o.st /\ timers' = timers \o o.add
          /\ UNCHANGED <<tableVars, first, playVars, queue, suspended, tick, boot, ipc, inputs,
                         disturbed>>
      BY <1>5 DEF SwipeEnd
    <2>2. st \in States /\ first' \in BOOLEAN /\ timers \in Seq(SwitchTimers)
      BY <1>1, <2>1 DEF PhaseTyped
    <2>3. PhaseTyped'
      BY <1>3, <2>1, <2>2, AfterTyped DEF PhaseTyped
    <2>4. TableTyped' /\ PlayTyped' /\ QueueTyped' /\ RestTyped' /\ TickTyped'
      BY <2>1, SameTyped
    <2>5. OverlayTyped'
      BY <1>1, <2>1, EffectTyped
    <2> QED
      BY <2>3, <2>4, <2>5 DEF Typed
  <1> QED
    BY <1>2, <1>4, <1>5 DEF WorkerStep, EffectTick

\* switch_operator: the tick goes on, to schedule the switch or to abort the overlay.
LEMMA SwitchTyped ==
  ASSUME Typed, NEW slot \in Slots, NEW t \in Ticks, t.pc # "stage", Switch(slot, t)
  PROVE  OverlayTyped' /\ TickTyped' /\ disturbed' \in BOOLEAN
  <1> DEFINE u == [t EXCEPT !.sw = slot]
  <1>1. OverlayTyped /\ slot # 0
    BY SlotsHold DEF Typed
  <1>2. u \in Ticks /\ u.sw = slot
    BY DEF Ticks
  <1>3. disturbed' = disturbed \/ \E b \in BOOLEAN : disturbed' = (disturbed \/ b)
    <2>1. UNCHANGED disturbed \/ Disturb(StagePending) \/ Disturb(StagePending \/ ipc # "no")
      BY DEF Switch
    <2> QED
      BY <2>1, Zenon DEF Disturb
  <1>4. disturbed' \in BOOLEAN
    BY <1>3, Zenon DEF Typed, RestTyped
  <1>5. \/ tick' = [t EXCEPT !.pc = t.back]
        \/ tick' = [u EXCEPT !.pc = "stage"]
        \/ tick' = [u EXCEPT !.pc = "abort"]
    BY DEF Switch
  <1>6. UNCHANGED overlayVars \/ AbortBegin
    BY DEF Switch
  <1>7. OverlayTyped'
    BY <1>1, <1>6, StartTyped, SlotsHold DEF Parts
  <1>8. TickTyped'
    <2>1. CASE tick' = [t EXCEPT !.pc = t.back]
      BY <2>1 DEF TickTyped, Ticks
    <2> HIDE DEF u
    <2>2. CASE tick' = [u EXCEPT !.pc = "stage"]
      BY <1>1, <1>2, <2>2 DEF TickTyped, Ticks
    <2>3. CASE tick' = [u EXCEPT !.pc = "abort"]
      BY <1>2, <2>3 DEF TickTyped, Ticks
    <2> QED
      BY <1>5, <2>1, <2>2, <2>3
  <1> QED
    BY <1>4, <1>7, <1>8

LEMMA TickIsTyped ==
  ASSUME Typed, Tick
  PROVE  Typed'
  <1>1. /\ OverlayTyped /\ PhaseTyped /\ TableTyped /\ QueueTyped /\ RestTyped /\ TickTyped
        /\ DOMAIN ops \subseteq Slots
    BY SlotsOfOps DEF Typed
  <1>2. tick \in Ticks /\ 0 \notin Slots /\ (tick.pc = "stage" => tick.sw # 0)
    BY <1>1, SlotsHold DEF TickTyped
  <1>3. \A pc \in {"idle", "drain", "abort", "rebuild", "reselect", "resume"} :
          TickGoto(pc) => TickTyped'
    BY <1>2 DEF TickGoto, TickTyped, Ticks
  <1>4. ASSUME TickStart PROVE Typed'
    <2>1. UNCHANGED <<switchVars, queue, suspended, boot, ipc, inputs, disturbed, overlayVars>>
      BY <1>4 DEF TickStart
    <2>2. TickTyped'
      BY <1>4 DEF TickStart, TickTyped, Ticks
    <2> QED
      BY <2>1, <2>2, SameTyped DEF Typed
  <1>5. ASSUME PopSet PROVE Typed'
    <2>1. UNCHANGED <<switchVars, suspended, boot, ipc, inputs, disturbed, overlayVars>>
      BY <1>5 DEF PopSet
    <2>2. /\ tick.pc = "drain" /\ queue # <<>> /\ queue' = Tail(queue)
          /\ tick' = [tick EXCEPT !.want = Head(queue)]
      BY <1>5 DEF PopSet
    <2>3. Head(queue) \in {0} \cup Slots /\ QueueTyped'
      BY <1>1, <2>2, PrtsAssumption DEF QueueTyped, Reload
    <2>4. TickTyped'
      BY <1>2, <2>2, <2>3 DEF TickTyped, Ticks
    <2> QED
      BY <2>1, <2>3, <2>4, SameTyped DEF Typed
  <1>6. ASSUME PopReloadBusy PROVE Typed'
    <2>1. UNCHANGED <<switchVars, suspended, boot, ipc, inputs, disturbed, overlayVars>>
      BY <1>6 DEF PopReloadBusy
    <2>2. queue # <<>> /\ queue' = Append(Tail(queue), Reload) /\ TickGoto("idle")
      BY <1>6 DEF PopReloadBusy
    <2>3. QueueTyped'
      <3> DEFINE T == {Reload} \cup Slots
      <3>1. Reload \in T /\ queue \in Seq(T) /\ Len(queue) <= QueueCap /\ QueueCap \in Nat
        BY <1>1, PrtsAssumption DEF QueueTyped
      <3> HIDE DEF T
      <3>2. Tail(queue) \in Seq(T) /\ Len(Tail(queue)) = Len(queue) - 1
        BY <2>2, <3>1
      <3>3. queue' \in Seq(T) /\ Len(queue') = Len(queue)
        BY <2>2, <3>1, <3>2
      <3> QED
        BY <3>1, <3>3 DEF QueueTyped, T
    <2> QED
      BY <1>3, <2>1, <2>2, <2>3, SameTyped DEF Typed
  <1>7. ASSUME PopReload PROVE Typed'
    <2> DEFINE t == [tick EXCEPT !.sw = 0]
    <2>1. /\ UNCHANGED <<switchVars, suspended, boot, ipc, inputs>>
          /\ queue # <<>> /\ queue' = Tail(queue)
          /\ Disturb(StagePending \/ ipc # "no")
          /\ \/ AbortBegin /\ tick' = [t EXCEPT !.pc = "abort"]
             \/ tick' = [t EXCEPT !.pc = "rebuild"] /\ UNCHANGED overlayVars
      BY <1>7 DEF PopReload, TickAbort
    <2>2. t \in Ticks
      BY <1>2 DEF Ticks
    <2> HIDE DEF t
    <2>3. TickTyped'
      BY <2>1, <2>2 DEF TickTyped, Ticks
    <2>4. OverlayTyped'
      BY <1>1, <2>1, StartTyped, SlotsHold DEF Parts
    <2>5. disturbed' \in BOOLEAN
      BY <1>1, <2>1, Zenon DEF Disturb, RestTyped
    <2>6. RestTyped'
      BY <1>1, <2>1, <2>5 DEF RestTyped
    <2>7. QueueTyped'
      BY <1>1, <2>1, PrtsAssumption DEF QueueTyped
    <2> QED
      BY <2>1, <2>3, <2>4, <2>6, <2>7, SameTyped DEF Typed
  <1>8. ASSUME AbortReturns PROVE Typed'
    <2>1. /\ UNCHANGED <<switchVars, queue, suspended, boot, ipc, inputs, disturbed, overlayVars>>
          /\ TickGoto(IF tick.sw = 0 THEN "rebuild" ELSE "stage")
      BY <1>8 DEF AbortReturns
    <2>2. TickTyped'
      BY <1>2, <2>1 DEF TickGoto, TickTyped, Ticks
    <2> QED
      BY <2>1, <2>2, SameTyped DEF Typed
  <1>9. ASSUME Stage PROVE Typed'
    <2>1. /\ tick.pc = "stage"
          /\ timers' = Append(timers, Timer("stage2", tick.sw, "loop"))
          /\ tick' = [tick EXCEPT !.pc = tick.back, !.sw = 0]
          /\ UNCHANGED <<tableVars, st, first, playVars, queue, suspended, boot, ipc, inputs,
                         disturbed, overlayVars>>
      BY <1>9 DEF Stage
    <2>2. TickTyped'
      BY <1>2, <2>1 DEF TickTyped, Ticks
    <2>3. tick.sw \in Slots
      BY <1>2, <2>1 DEF Ticks
    <2>4. Timer("stage2", tick.sw, "loop") \in SwitchTimers
      BY <2>3 DEF Timer, SwitchTimers, Parts
    <2>5. PhaseTyped'
      BY <1>1, <2>1, <2>4 DEF PhaseTyped
    <2> QED
      BY <2>1, <2>2, <2>5, SameTyped DEF Typed
  <1>10. ASSUME Rebuild PROVE Typed'
    <2>1. UNCHANGED <<st, first, playVars, queue, suspended, boot, ipc, inputs, disturbed,
                      used, abortReq, handle, active, ticks, worker>>
      BY <1>10 DEF Rebuild
    <2>2. PICK table \in Tables :
            /\ ops' = table
            /\ \/ cur' \in FoundAt(table) /\ TickGoto("resume")
               \/ cur' = 1 /\ TickGoto("reselect")
      BY <1>10 DEF Rebuild
    <2>3. TableTyped'
      <3>1. table \in Seq(Ops) /\ Len(table) \in Slots /\ Len(table) \in Nat \ {0}
        BY SlotsHold
      <3>2. cur' \in DOMAIN table
        BY <2>2, <3>1 DEF FoundAt
      <3>3. ops' \in Seq(Ops) /\ Len(ops') \in Slots /\ cur' \in 1 .. Len(ops')
        BY <2>2, <3>1, <3>2
      <3> QED
        BY <3>3 DEF TableTyped
    <2>4. TickTyped'
      BY <1>3, <2>2
    <2>5. OverlayTyped'
      <3>1. fx' = [e \in Effects |-> [fx[e] EXCEPT !.live = FALSE]]
        BY <1>10 DEF Rebuild
      <3>2. fx' \in [Effects -> FxData(Slots, Parts)]
        BY <1>1, <3>1 DEF OverlayTyped, OverlayTypeOK, FxData
      <3> QED
        BY <1>1, <2>1, <3>2 DEF OverlayTyped, OverlayTypeOK
    <2>6. PhaseTyped'
      <3>1. timers' = [k \in DOMAIN timers |->
                         [timers[k] EXCEPT !.old = timers[k].kind \in {"mid", "loop"}]]
        BY <1>10 DEF Rebuild
      <3>2. timers \in Seq(SwitchTimers) /\ DOMAIN timers = 1 .. Len(timers) /\ Len(timers) \in Nat
        BY <1>1 DEF PhaseTyped
      <3>3. ASSUME NEW k \in DOMAIN timers
            PROVE  [timers[k] EXCEPT !.old = timers[k].kind \in {"mid", "loop"}] \in SwitchTimers
        <4>1. timers[k] \in SwitchTimers
          BY <3>2
        <4>2. (timers[k].kind \in {"mid", "loop"}) \in BOOLEAN
          OBVIOUS
        <4> QED
          BY <4>1, <4>2 DEF SwitchTimers
      <3>4. timers' \in [1 .. Len(timers) -> SwitchTimers]
        BY <3>1, <3>2, <3>3
      <3>5. timers' \in Seq(SwitchTimers)
        BY <3>2, <3>4, SeqDef
      <3> QED
        BY <1>1, <2>1, <3>5 DEF PhaseTyped
    <2> QED
      BY <2>1, <2>3, <2>4, <2>5, <2>6, SameTyped DEF Typed
  <1>11. ASSUME Reselect PROVE Typed'
    <2> DEFINE t == [tick EXCEPT !.back = "resume"]
    <2>1. Switch(1, t) /\ UNCHANGED <<switchVars, queue, suspended, boot, ipc, inputs>>
      BY <1>11 DEF Reselect
    <2>2. t \in Ticks /\ t.pc # "stage"
      BY <1>2, <1>11 DEF Reselect, Ticks
    <2> HIDE DEF t
    <2>3. OverlayTyped' /\ TickTyped' /\ disturbed' \in BOOLEAN
      BY <2>1, <2>2, SwitchTyped, SlotsHold
    <2>4. RestTyped'
      BY <1>1, <2>1, <2>3 DEF RestTyped
    <2> QED
      BY <2>1, <2>3, <2>4, SameTyped DEF Typed
  <1>12. ASSUME Resume PROVE Typed'
    <2> DEFINE t == [tick EXCEPT !.back = "drain"]
    <2>1. /\ \/ Switch(cur, t)
             \/ TickGoto("drain") /\ UNCHANGED <<disturbed, overlayVars>>
          /\ UNCHANGED <<switchVars, queue, boot, ipc, inputs>>
          /\ suspended' = FALSE
      BY <1>12 DEF Resume
    <2>2. t \in Ticks /\ t.pc # "stage" /\ cur \in Slots
      BY <1>1, <1>2, <1>12 DEF Resume, Ticks, TableTyped
    <2> HIDE DEF t
    <2>3. OverlayTyped' /\ TickTyped' /\ disturbed' \in BOOLEAN
      <3>1. CASE Switch(cur, t)
        BY <2>2, <3>1, SwitchTyped
      <3>2. CASE TickGoto("drain") /\ UNCHANGED <<disturbed, overlayVars>>
        BY <1>1, <1>3, <3>2, SameTyped DEF RestTyped
      <3> QED
        BY <2>1, <3>1, <3>2
    <2>4. suspended' \in BOOLEAN
      BY <2>1, Zenon
    <2>5. RestTyped'
      BY <1>1, <2>1, <2>3, <2>4 DEF RestTyped
    <2> QED
      BY <2>1, <2>3, <2>5, SameTyped DEF Typed
  <1>13. ASSUME Suspend PROVE Typed'
    <2>1. /\ suspended' = TRUE /\ playing' = None /\ TickGoto("idle") /\ Disturb(StagePending)
          /\ UNCHANGED <<tableVars, st, first, lost, timers, queue, boot, ipc, inputs, overlayVars>>
      BY <1>13 DEF Suspend
    <2>2. suspended' \in BOOLEAN /\ disturbed' \in BOOLEAN
      BY <1>1, <2>1, Zenon DEF Disturb, RestTyped
    <2>3. RestTyped'
      BY <1>1, <2>1, <2>2 DEF RestTyped
    <2>4. PlayTyped'
      BY <2>1 DEF Typed, PlayTyped, Videos
    <2> QED
      BY <1>3, <2>1, <2>3, <2>4, SameTyped DEF Typed
  <1>14. ASSUME Decide PROVE Typed'
    <2> DEFINE t == [tick EXCEPT !.back = "idle"]
    <2>1. UNCHANGED <<switchVars, queue, suspended, boot, ipc>>
      BY <1>14 DEF Decide
    <2>2. t \in Ticks /\ t.pc # "stage"
      BY <1>2, <1>14 DEF Decide, Ticks
    <2>3. \/ TickGoto("idle") /\ UNCHANGED <<inputs, disturbed, overlayVars>>
          \/ tick.want \in Slots /\ Switch(tick.want, t) /\ UNCHANGED inputs
          \/ /\ inputs < MaxInputs /\ inputs' = inputs + 1
             /\ \E slot \in DOMAIN ops : Switch(slot, t)
      BY <1>2, <1>14 DEF Decide, Ticks
    <2> HIDE DEF t
    <2>4. OverlayTyped' /\ TickTyped' /\ disturbed' \in BOOLEAN
      <3>1. CASE TickGoto("idle") /\ UNCHANGED <<inputs, disturbed, overlayVars>>
        BY <1>1, <1>3, <3>1, SameTyped DEF RestTyped
      <3>2. ASSUME NEW slot \in Slots, Switch(slot, t)
            PROVE  OverlayTyped' /\ TickTyped' /\ disturbed' \in BOOLEAN
        BY <2>2, <3>2, SwitchTyped
      <3> QED
        BY <1>1, <2>3, <3>1, <3>2
    <2>5. inputs' \in 0 .. MaxInputs
      BY <1>1, <2>3, PrtsAssumption DEF RestTyped
    <2>6. RestTyped'
      BY <1>1, <2>1, <2>4, <2>5 DEF RestTyped
    <2> QED
      BY <2>1, <2>4, <2>6, SameTyped DEF Typed
  <1> QED
    BY <1>4, <1>5, <1>6, <1>7, <1>8, <1>9, <1>10, <1>11, <1>12, <1>13, <1>14 DEF Tick

LEMMA InputTyped ==
  ASSUME Typed,
         \/ \E who \in {"timer", "key"} : BootEnter(who) \/ BootLeave(who)
         \/ \E slot \in DOMAIN ops : Request("set", slot)
         \/ Request("reload", Reload)
         \/ \E from, to \in DOMAIN ops : Move(from, to)
         \/ SourceLost \/ IpcAbort \/ IpcStart
  PROVE  Typed'
  <1>1. /\ OverlayTyped /\ PhaseTyped /\ TableTyped /\ QueueTyped /\ RestTyped
        /\ DOMAIN ops \subseteq Slots
    BY SlotsOfOps DEF Typed
  <1>2. \A kind : Input(kind) => inputs' \in 0 .. MaxInputs
    BY <1>1, PrtsAssumption DEF Input, RestTyped
  <1>3. ASSUME NEW who \in {"timer", "key"}, BootEnter(who) PROVE Typed'
    <2>1. /\ boot' = boot \cup {who}
          /\ UNCHANGED <<switchVars, queue, suspended, tick, ipc, inputs, disturbed, overlayVars>>
      BY <1>3 DEF BootEnter
    <2>2. RestTyped'
      BY <1>1, <2>1 DEF RestTyped
    <2> QED
      BY <2>1, <2>2, SameTyped DEF Typed
  <1>4. ASSUME NEW who \in {"timer", "key"}, BootLeave(who) PROVE Typed'
    <2>1. /\ boot' = boot \ {who} /\ st' = "idle" /\ playing' = None
          /\ timers' = Append(timers, Timer("stage2", 1, "loop"))
          /\ Disturb(StagePending \/ tick.pc # "idle")
          /\ UNCHANGED <<tableVars, first, lost, queue, suspended, tick, ipc, inputs, overlayVars>>
      BY <1>4 DEF BootLeave
    <2>2. disturbed' \in BOOLEAN
      BY <1>1, <2>1, Zenon DEF Disturb, RestTyped
    <2>3. RestTyped'
      BY <1>1, <2>1, <2>2 DEF RestTyped
    <2>4. Timer("stage2", 1, "loop") \in SwitchTimers
      BY SlotsHold DEF Timer, SwitchTimers, Parts
    <2>5. PhaseTyped'
      BY <1>1, <2>1, <2>4 DEF PhaseTyped, States
    <2>6. PlayTyped'
      BY <2>1 DEF Typed, PlayTyped, Videos
    <2> QED
      BY <2>1, <2>3, <2>5, <2>6, SameTyped DEF Typed
  <1>5. ASSUME NEW kind, NEW r \in {Reload} \cup Slots, Request(kind, r) PROVE Typed'
    <2>1. /\ Input(kind) /\ Len(queue) < QueueCap /\ queue' = Append(queue, r)
          /\ UNCHANGED <<switchVars, suspended, tick, boot, ipc, disturbed, overlayVars>>
      BY <1>5 DEF Request
    <2>2. QueueTyped'
      <3> DEFINE T == {Reload} \cup Slots
      <3>1. r \in T /\ queue \in Seq(T) /\ QueueCap \in Nat
        BY <1>1, PrtsAssumption DEF QueueTyped
      <3> HIDE DEF T
      <3>2. queue' \in Seq(T) /\ Len(queue') = Len(queue) + 1
        BY <2>1, <3>1
      <3>3. Len(queue') <= QueueCap
        BY <2>1, <3>1, <3>2
      <3> QED
        BY <3>2, <3>3 DEF QueueTyped, T
    <2>3. RestTyped'
      BY <1>1, <1>2, <2>1 DEF RestTyped
    <2> QED
      BY <2>1, <2>2, <2>3, SameTyped DEF Typed
  <1>6. ASSUME NEW from \in DOMAIN ops, NEW to \in DOMAIN ops, Move(from, to) PROVE Typed'
    <2>1. /\ Input("move")
          /\ ops' = MoveTo(ops, from, to) /\ cur' = Follow(from, to)
          /\ Disturb(timers # <<>> \/ st # "idle" \/ tick.pc # "idle")
          /\ UNCHANGED <<st, first, playVars, timers, queue, suspended, tick, boot, ipc, overlayVars>>
      BY <1>6 DEF Move
    <2>2. TableTyped'
      BY <1>1, <2>1, MoveFollows DEF TableTyped
    <2>3. disturbed' \in BOOLEAN
      BY <1>1, <2>1, Zenon DEF Disturb, RestTyped
    <2>4. RestTyped'
      BY <1>1, <1>2, <2>1, <2>3 DEF RestTyped
    <2> QED
      BY <2>1, <2>2, <2>4, SameTyped DEF Typed
  <1>7. ASSUME SourceLost PROVE Typed'
    <2>1. /\ Input("lost") /\ playing' = None /\ lost' = TRUE
          /\ UNCHANGED <<tableVars, st, first, timers, queue, suspended, tick, boot, ipc,
                         disturbed, overlayVars>>
      BY <1>7 DEF SourceLost
    <2>2. lost' \in BOOLEAN
      BY <2>1, Zenon
    <2>3. PlayTyped'
      BY <2>1, <2>2 DEF PlayTyped, Videos
    <2>4. RestTyped'
      BY <1>1, <1>2, <2>1 DEF RestTyped
    <2> QED
      BY <2>1, <2>3, <2>4, SameTyped DEF Typed
  <1>8. ASSUME IpcAbort PROVE Typed'
    <2>1. /\ Input("ipc") /\ ipc' = IF used THEN "wait" ELSE "go"
          /\ Disturb(tick.pc \in {"abort", "rebuild", "stage"})
          /\ AbortBegin \/ UNCHANGED overlayVars
          /\ UNCHANGED <<switchVars, queue, suspended, tick, boot>>
      BY <1>8 DEF IpcAbort
    <2>2. disturbed' \in BOOLEAN
      BY <1>1, <2>1, Zenon DEF Disturb, RestTyped
    <2>3. RestTyped'
      BY <1>1, <1>2, <2>1, <2>2 DEF RestTyped
    <2>4. OverlayTyped'
      BY <1>1, <2>1, StartTyped, SlotsHold DEF Parts
    <2> QED
      BY <2>1, <2>3, <2>4, SameTyped DEF Typed
  <1>9. ASSUME IpcStart PROVE Typed'
    <2>1. /\ ipc' = "no" /\ StartTimed
          /\ UNCHANGED <<switchVars, queue, suspended, tick, boot, inputs, disturbed>>
      BY <1>9 DEF IpcStart
    <2>2. RestTyped'
      BY <1>1, <2>1 DEF RestTyped
    <2>3. OverlayTyped'
      BY <1>1, <2>1, StartTyped, SlotsHold DEF Parts
    <2> QED
      BY <2>1, <2>2, <2>3, SameTyped DEF Typed
  <1> QED
    BY <1>1, <1>3, <1>4, <1>5, <1>6, <1>7, <1>8, <1>9

LEMMA NextTyped ==
  ASSUME Typed, [Next]_vars
  PROVE  Typed'
  <1>1. CASE UNCHANGED vars
    <2>1. UNCHANGED <<switchVars, queue, suspended, tick, boot, ipc, inputs, disturbed, overlayVars>>
      BY <1>1 DEF vars
    <2> QED
      BY <2>1, SameTyped DEF Typed
  <1>2. CASE Step
    BY <1>2, Stage2Typed, FireTyped, WorkerTyped, TickIsTyped, InputTyped DEF Step, Fire
  <1> QED
    BY <1>1, <1>2 DEF Next

\* Whatever is asked, moved, lost and reloaded, the index of the operator shown is
\* one of the table, the tick schedules no switch without an operator, and the
\* queue of requests stays within its capacity.
THEOREM TypeCorrect == Spec => []TypeOK
  <1>1. Spec => []Typed
    BY InitTyped, NextTyped, PTL DEF Spec
  <1> QED
    BY <1>1, TypedIsTypeOK, PTL

----------------------------------------------------------------------------
\* Switches in order.

\* The loop video of the operator at the index plays, if any does.
PlaysLoop == playing \in {None, <<ops[cur], "loop">>}

Part == IF st = "in" THEN "intro" ELSE "loop"

\* A transition of the state is under way: one timer, or the swipe of the worker.
Timed ==
  /\ handle = None
  /\ \E t \in SwitchTimers :
       /\ timers = <<t>> /\ ~t.old
       /\ t.kind \in {"mid", "end"} /\ t.slot = cur /\ t.part = Part
       /\ st = "loop" /\ t.kind = "end" => PlaysLoop
Swiping ==
  /\ handle = "swipe" /\ timers = <<>> /\ ~abortReq
  /\ fx["swipe"].slot = cur /\ fx["swipe"].part = Part
  /\ st = "loop" /\ fx["swipe"].mid => PlaysLoop

\* One timer, of the kind and for the operator at the index.
Waits(kind) == handle = None /\ timers = <<Timer(kind, cur, "loop")>>

\* Nobody has an effect to abort, and none is being aborted.
Calm == ~used /\ ipc # "wait"

\* Between the second stage and the end of the timeline.
Running ==
  /\ ~first /\ boot = {} /\ Calm /\ tick.pc \in {"idle", "drain"}
  /\ \/ st \in {"in", "loop"} /\ (Timed \/ Swiping)
     \/ st = "intro" /\ Waits("loop")
     \/ st = "pre" /\ Waits("opinfo") /\ PlaysLoop

\* The boot animation.
Booting ==
  /\ st = "boot" /\ timers = <<>> /\ first
  /\ Calm /\ handle = None /\ tick.pc \in {"idle", "drain"}

\* Before the second stage.
Chosen ==
  /\ st = "idle" /\ Calm /\ handle = None
  /\ tick.pc \in {"idle", "drain", "resume"}
  /\ \E slot \in Slots :
       /\ timers = <<Timer("stage2", slot, "loop")>>
       /\ first \/ ~PlaysLoop => slot = 1

\* No switch is under way.  An effect on screen is known to somebody: to the next
\* who aborts it, to IPC or to the tick that wait for its end.
Resting ==
  /\ st = "idle" /\ timers = <<>> /\ ~first /\ boot = {} /\ handle # "swipe"
  /\ \/ PlaysLoop
     \/ tick.pc = "reselect"
     \/ tick.pc \in {"abort", "stage"} /\ tick.sw = 1
  /\ handle # None => used \/ ipc = "wait" \/ tick.pc = "abort"
  /\ used => ipc # "wait" /\ tick.pc # "abort"
  /\ ipc = "wait" => tick.pc \notin {"abort", "rebuild", "reselect", "stage"}
  /\ tick.pc \in {"rebuild", "reselect", "stage"} => handle = None /\ ~used

Phase == Running \/ Booting \/ Chosen \/ Resting

\* Requests for a frame are those of the effect that runs or of an engine that
\* will ignore them; or they will be dropped.
Ended == IF active THEN {} ELSE {"engine"}
Late ==
  /\ ticks \subseteq LateTicks
  /\ \/ ticks \cup {worker.pending} \subseteq {handle, None} \cup Ended
     \/ abortReq /\ handle = None /\ st \in {"idle", "boot"}

\* What the worker draws is the effect that runs, of an entry of this table.
Drawing ==
  /\ active <=> handle = "engine"
  /\ handle # None => fx[handle].live
  /\ worker.fx # None => worker.fx = handle /\ worker.pending = None

InOrder == Phase /\ Late /\ Drawing
UInv == ~disturbed => InOrder

LEMMA InitInOrder == Init => UInv
  <1> SUFFICES ASSUME Init PROVE InOrder
    BY DEF UInv
  <1> USE NoneAssumption
  <1>1. Late
    BY DEF Init, OverlayInit, Late, Ended
  <1>2. Drawing
    BY DEF Init, OverlayInit, Drawing, Effects
  <1>3. Calm /\ handle = None /\ first /\ tick.pc = "idle"
    BY DEF Init, OverlayInit, Calm
  <1>4. st = "boot" /\ timers = <<>> => Booting
    BY <1>3 DEF Booting
  <1>5. st = "idle" /\ timers = <<Timer("stage2", 1, "loop")>> => Chosen
    BY <1>3, SlotsHold DEF Chosen
  <1>6. Phase
    BY <1>4, <1>5 DEF Init, Phase
  <1> QED
    BY <1>1, <1>2, <1>6 DEF InOrder

\* In order, there is one timer at most.
LEMMA OneTimer ==
  ASSUME NEW t, timers = <<t>>, NEW k \in DOMAIN timers
  PROVE  k = 1 /\ timers[k] = t /\ Others(k) = <<>>
  <1>1. DOMAIN timers = 1 .. 1 /\ Len(timers) = 1
    OBVIOUS
  <1>2. k = 1
    BY <1>1
  <1>3. timers[1] = t
    OBVIOUS
  <1>4. RemoveAt(timers, 1) = <<>>
    <2>1. SubSeq(timers, 1, 0) = <<>> /\ SubSeq(timers, 2, 1) = <<>>
      BY SubSeqEmpty
    <2>2. <<>> \o <<>> = <<>>
      OBVIOUS
    <2> QED
      BY <1>1, <2>1, <2>2 DEF RemoveAt
  <1> QED
    BY <1>2, <1>3, <1>4 DEF Others

\* What is left alone keeps the phase.
LEMMA SameInOrder ==
  /\ UNCHANGED <<ticks, worker, handle, active, abortReq, st>> /\ Late => Late'
  /\ UNCHANGED <<active, handle, fx, worker>> /\ Drawing => Drawing'
  /\ UNCHANGED <<switchVars, boot, ipc, used, abortReq, handle, fx>> =>
       /\ Running /\ tick'.pc \in {"idle", "drain"} => Running'
       /\ Booting /\ tick'.pc \in {"idle", "drain"} => Booting'
       /\ Chosen /\ tick'.pc \in {"idle", "drain", "resume"} => Chosen'
       /\ Resting /\ tick' = tick => Resting'
  <1> USE DEF switchVars, tableVars, playVars
  <1>1. UNCHANGED <<ticks, worker, handle, active, abortReq, st>> /\ Late => Late'
    BY DEF Late, Ended
  <1>2. UNCHANGED <<active, handle, fx, worker>> /\ Drawing => Drawing'
    BY DEF Drawing
  <1>3. ASSUME UNCHANGED <<switchVars, boot, ipc, used, abortReq, handle, fx>>
        PROVE  /\ Running /\ tick'.pc \in {"idle", "drain"} => Running'
               /\ Booting /\ tick'.pc \in {"idle", "drain"} => Booting'
               /\ Chosen /\ tick'.pc \in {"idle", "drain", "resume"} => Chosen'
               /\ Resting /\ tick' = tick => Resting'
    <2>1. /\ PlaysLoop' <=> PlaysLoop
          /\ Calm' <=> Calm
      BY <1>3 DEF PlaysLoop, Calm
    <2>2. Part' = Part
      BY <1>3 DEF Part
    <2>3. (Timed => Timed') /\ (Swiping => Swiping')
      BY <1>3, <2>1, <2>2 DEF Timed, Swiping
    <2>4. \A kind : Waits(kind) => Waits(kind)'
      BY <1>3 DEF Waits
    <2>5. Running /\ tick'.pc \in {"idle", "drain"} => Running'
      BY <1>3, <2>1, <2>3, <2>4 DEF Running
    <2>6. Booting /\ tick'.pc \in {"idle", "drain"} => Booting'
      BY <1>3, <2>1 DEF Booting
    <2>7. Chosen /\ tick'.pc \in {"idle", "drain", "resume"} => Chosen'
      BY <1>3, <2>1 DEF Chosen
    <2>8. Resting /\ tick' = tick => Resting'
      BY <1>3, <2>1 DEF Resting
    <2> QED
      BY <2>5, <2>6, <2>7, <2>8
  <1> QED
    BY <1>1, <1>2, <1>3

LEMMA AfterCases ==
  ASSUME NEW slot, NEW s \in {"in", "loop"}, NEW o \in After(s, slot)
  PROVE  /\ \/ s = "in" /\ o.st = "intro" /\ o.add = <<Timer("loop", slot, "loop")>>
            \/ s = "loop" /\ o.st = "pre" /\ o.add = <<Timer("opinfo", slot, "loop")>>
            \/ s = "loop" /\ o.st = "idle" /\ o.add = <<>>
         /\ <<>> \o o.add = o.add
  <1>1. \/ s = "in" /\ o.st = "intro" /\ o.add = <<Timer("loop", slot, "loop")>>
        \/ s = "loop" /\ o.st = "pre" /\ o.add = <<Timer("opinfo", slot, "loop")>>
        \/ s = "loop" /\ o.st = "idle" /\ o.add = <<>>
    <2>1. CASE s = "in"
      BY <2>1 DEF After
    <2>2. CASE s = "loop" /\ Opinfo[ops[slot]] # None
      BY <2>2 DEF After
    <2>3. CASE s = "loop" /\ Opinfo[ops[slot]] = None
      BY <2>3 DEF After
    <2> QED
      BY <2>1, <2>2, <2>3
  <1>2. \A x : <<>> \o <<x>> = <<x>>
    OBVIOUS
  <1>3. <<>> \o <<>> = <<>>
    OBVIOUS
  <1> QED
    BY <1>1, <1>2, <1>3

\* The end of a transition, or of a video that has none.
LEMMA AfterInOrder ==
  ASSUME NEW slot, NEW s \in {"in", "loop"}, NEW o \in After(s, slot),
         st' = o.st, timers' = o.add, cur' = slot,
         handle' = None, ~first', boot' = {}, Calm', tick'.pc \in {"idle", "drain"},
         s = "loop" => PlaysLoop'
  PROVE  Phase'
  <1>1. CASE s = "in" /\ o.st = "intro" /\ o.add = <<Timer("loop", slot, "loop")>>
    BY <1>1 DEF Phase, Running, Waits
  <1>2. CASE s = "loop" /\ o.st = "pre" /\ o.add = <<Timer("opinfo", slot, "loop")>>
    BY <1>2 DEF Phase, Running, Waits
  <1>3. CASE s = "loop" /\ o.st = "idle" /\ o.add = <<>>
    BY <1>3, NoneAssumption DEF Phase, Resting, Calm, Effects
  <1> QED
    BY <1>1, <1>2, <1>3, AfterCases

\* A transition begins, no effect being there.
LEMMA LaunchInOrder ==
  ASSUME Typed, Drawing,
         ticks \subseteq LateTicks, ticks \cup {worker.pending} \subseteq {None} \cup Ended,
         handle = None, boot = {}, Calm, tick.pc \in {"idle", "drain"},
         NEW slot \in DOMAIN ops, slot \in Slots, NEW s \in {"in", "loop"},
         NEW part \in Parts, part = IF s = "in" THEN "intro" ELSE "loop",
         NEW kind \in {"timed", "swipe", "none"},
         Launch(s, kind, slot, part, <<>>),
         cur' = slot, ops' = ops, ~first', UNCHANGED <<tick, boot, ipc>>
  PROVE  InOrder'
  <1>1. worker.fx = None /\ active = FALSE
    BY NoneAssumption DEF Drawing, Effects, Typed, OverlayTyped, OverlayTypeOK
  <1>2. CASE kind = "timed"
    <2>1. /\ st' = s /\ timers' = Append(<<>>, Timer("mid", slot, part))
          /\ StartTimed /\ UNCHANGED playVars
      BY <1>2 DEF Launch
    <2>2. UNCHANGED <<used, handle, active, fx, ticks, worker>>
      BY <2>1 DEF StartTimed
    <2>3. Late'
      BY <2>2 DEF Late, Ended
    <2>4. Drawing'
      BY <2>2, SameInOrder
    <2>5. timers' = <<Timer("mid", slot, part)>> /\ Timer("mid", slot, part) \in SwitchTimers
      BY <2>1 DEF Timer, SwitchTimers
    <2>6. Timed'
      BY <2>1, <2>2, <2>5 DEF Timed, Part, Timer
    <2>7. Calm'
      BY <2>2 DEF Calm
    <2>8. Running'
      BY <2>1, <2>6, <2>7 DEF Running
    <2> QED
      BY <2>3, <2>4, <2>8 DEF InOrder, Phase
  <1>3. CASE kind = "swipe"
    <2>1. st' = s /\ timers' = <<>> /\ StartSwipe(slot, part) /\ UNCHANGED playVars
      BY <1>3 DEF Launch
    <2>2. /\ abortReq' = FALSE /\ handle' = "swipe"
          /\ fx' = [fx EXCEPT !["swipe"] = Data(slot, part)]
          /\ UNCHANGED <<used, active, ticks, worker>>
      BY <2>1 DEF StartSwipe
    <2>3. fx'["swipe"] = Data(slot, part)
      BY <2>2 DEF Typed, OverlayTyped, OverlayTypeOK, Effects
    <2>4. Late'
      BY <2>2 DEF Late, Ended
    <2>5. Drawing'
      BY <1>1, <2>2, <2>3 DEF Drawing, Data
    <2>6. Swiping'
      BY <2>1, <2>2, <2>3 DEF Swiping, Data, Part
    <2>7. Calm'
      BY <2>2 DEF Calm
    <2>8. Running'
      BY <2>1, <2>6, <2>7 DEF Running
    <2> QED
      BY <2>4, <2>5, <2>8 DEF InOrder, Phase
  <1>4. CASE kind = "none"
    <2>1. /\ Play(slot, part)
          /\ \E o \in After(s, slot) : st' = o.st /\ timers' = <<>> \o o.add
          /\ UNCHANGED overlayVars
      BY <1>4 DEF Launch
    <2>2. PICK o \in After(s, slot) : st' = o.st /\ timers' = o.add
      BY <2>1, AfterCases
    <2>3. UNCHANGED <<used, handle, active, fx, ticks, worker>>
      BY <2>1 DEF overlayVars
    <2>4. Late'
      BY <2>3 DEF Late, Ended
    <2>5. Drawing'
      BY <2>3, SameInOrder
    <2>6. s = "loop" => PlaysLoop'
      BY <2>1 DEF Play, PlaysLoop
    <2>7. Calm'
      BY <2>3 DEF Calm
    <2>8. Phase'
      BY <2>2, <2>3, <2>6, <2>7, AfterInOrder
    <2> QED
      BY <2>4, <2>5, <2>8 DEF InOrder
  <1> QED
    BY <1>2, <1>3, <1>4

\* In a phase with a timer, its kind tells the phase.
LEMMA TimerTellsPhase ==
  ASSUME Phase, NEW k \in DOMAIN timers
  PROVE  /\ Others(k) = <<>> /\ k = 1 /\ handle = None /\ Calm
         /\ tick.pc \in {"idle", "drain", "resume"} /\ timers = <<timers[k]>>
         /\ timers[k].kind = "stage2" => Chosen
         /\ timers[k].kind \in {"mid", "end"} =>
              Running /\ Timed /\ st \in {"in", "loop"}
         /\ timers[k].kind = "loop" => Running /\ st = "intro" /\ Waits("loop")
         /\ timers[k].kind = "opinfo" => Running /\ st = "pre" /\ Waits("opinfo") /\ PlaysLoop
  <1>1. timers # <<>>
    OBVIOUS
  <1>2. CASE Chosen
    <2>1. PICK slot \in Slots : timers = <<Timer("stage2", slot, "loop")>>
      BY <1>2 DEF Chosen
    <2>2. k = 1 /\ timers[k] = Timer("stage2", slot, "loop") /\ Others(k) = <<>>
      BY <2>1, OneTimer
    <2>3. timers[k].kind = "stage2" /\ timers = <<timers[k]>>
      BY <2>1, <2>2 DEF Timer
    <2> QED
      BY <1>2, <2>2, <2>3 DEF Chosen
  <1>3. CASE Running /\ Timed /\ st \in {"in", "loop"}
    <2>1. PICK t \in SwitchTimers : timers = <<t>> /\ t.kind \in {"mid", "end"}
      BY <1>3 DEF Timed
    <2>2. k = 1 /\ timers[k] = t /\ Others(k) = <<>>
      BY <2>1, OneTimer
    <2> QED
      BY <1>3, <2>1, <2>2 DEF Running, Timed
  <1>4. ASSUME NEW kind \in {"loop", "opinfo"}, Running, Waits(kind)
        PROVE  /\ timers[k].kind = kind /\ k = 1 /\ Others(k) = <<>> /\ handle = None
               /\ timers = <<timers[k]>>
    <2>1. timers = <<Timer(kind, cur, "loop")>> /\ handle = None
      BY <1>4 DEF Waits
    <2>2. k = 1 /\ timers[k] = Timer(kind, cur, "loop") /\ Others(k) = <<>>
      BY <2>1, OneTimer
    <2> QED
      BY <2>1, <2>2 DEF Timer
  <1>5. CASE Running /\ st = "intro" /\ Waits("loop")
    BY <1>4, <1>5 DEF Running
  <1>6. CASE Running /\ st = "pre" /\ Waits("opinfo") /\ PlaysLoop
    BY <1>4, <1>6 DEF Running
  <1>7. ~Booting /\ ~Resting /\ ~Swiping
    BY <1>1 DEF Booting, Resting, Swiping
  <1>8. Running => \/ Timed /\ st \in {"in", "loop"}
                   \/ st = "intro" /\ Waits("loop")
                   \/ st = "pre" /\ Waits("opinfo") /\ PlaysLoop
    BY <1>7 DEF Running
  <1> QED
    BY <1>2, <1>3, <1>5, <1>6, <1>7, <1>8 DEF Phase

LEMMA Stage2InOrder ==
  ASSUME Typed, InOrder, NEW k \in DOMAIN timers, Stage2(k)
  PROVE  InOrder'
  <1> DEFINE slot == timers[k].slot
  <1>1. timers[k].kind = "stage2" /\ boot = {} /\ tick.pc = "idle" /\ NoneLate
    BY DEF Stage2
  <1>2. Phase /\ Late /\ Drawing
    BY DEF InOrder
  <1>3. Chosen /\ Others(k) = <<>> /\ handle = None /\ Calm /\ st = "idle" /\ timers = <<timers[k]>>
    BY <1>1, <1>2, TimerTellsPhase DEF Chosen
  <1>4. slot \in Slots /\ (first \/ ~PlaysLoop => slot = 1)
    <2>1. PICK x \in Slots : timers = <<Timer("stage2", x, "loop")>> /\ (first \/ ~PlaysLoop => x = 1)
      BY <1>3 DEF Chosen
    <2>2. timers[k] = Timer("stage2", x, "loop")
      BY <2>1, OneTimer
    <2> QED
      BY <2>1, <2>2 DEF Timer
  <1>5. UNCHANGED <<queue, suspended, tick, boot, ipc, inputs, disturbed>>
    BY DEF Stage2
  <1>6. ticks \subseteq LateTicks /\ ticks \cup {worker.pending} \subseteq {None}
    BY <1>1, <1>2, <1>3 DEF Late, NoneLate
  <1>7. TableTyped /\ 1 \in DOMAIN ops
    BY DEF Typed, TableTyped
  <1>8. CASE slot \notin DOMAIN ops
    <2>1. timers' = <<>> /\ UNCHANGED <<tableVars, st, first, playVars, overlayVars>>
      BY <1>3, <1>8 DEF Stage2
    <2>2. UNCHANGED <<ops, cur, st, first, playing, handle, used, fx, ticks, worker, active, abortReq>>
      BY <2>1 DEF tableVars, playVars, overlayVars
    <2>3. ~first /\ PlaysLoop
      BY <1>4, <1>7, <1>8
    <2>4. Resting'
      BY <1>1, <1>3, <1>5, <2>1, <2>2, <2>3, NoneAssumption DEF Resting, Calm, PlaysLoop, Effects
    <2>5. Late' /\ Drawing'
      BY <1>2, <2>2, SameInOrder
    <2> QED
      BY <2>4, <2>5 DEF InOrder, Phase
  <1>9. CASE slot \in DOMAIN ops
    <2>1. PICK intro \in {FALSE} \cup {ops[slot] \in HasIntro} :
            Launch(IF intro THEN "in" ELSE "loop",
                   IF first THEN "timed" ELSE TransitionIn[ops[slot]],
                   slot, IF intro THEN "intro" ELSE "loop", Others(k))
      BY <1>9 DEF Stage2
    <2>2. cur' = slot /\ ~first' /\ ops' = ops
      BY <1>9 DEF Stage2
    <2>3. ops[slot] \in Ops
      BY <1>7, <1>9 DEF TableTyped
    <2> DEFINE s == IF intro THEN "in" ELSE "loop"
               kind == IF first THEN "timed" ELSE TransitionIn[ops[slot]]
               part == IF intro THEN "intro" ELSE "loop"
    <2>4. s \in {"in", "loop"} /\ part \in Parts /\ part = IF s = "in" THEN "intro" ELSE "loop"
      BY DEF Parts
    <2>5. kind \in {"timed", "swipe", "none"}
      BY <2>3, PrtsAssumption
    <2>6. Launch(s, kind, slot, part, <<>>)
      BY <1>3, <2>1
    <2> HIDE DEF s, kind, part, slot
    <2>7. ticks \cup {worker.pending} \subseteq {None} \cup Ended
      BY <1>6
    <2> QED
      BY <1>1, <1>2, <1>3, <1>4, <1>5, <1>6, <1>9, <2>2, <2>4, <2>5, <2>6, <2>7, LaunchInOrder
  <1> QED
    BY <1>8, <1>9

LEMMA MiddleInOrder ==
  ASSUME Typed, InOrder, NEW k \in DOMAIN timers, Middle(k)
  PROVE  InOrder'
  <1>1. /\ timers[k].kind = "mid"
        /\ Play(timers[k].slot, timers[k].part)
        /\ timers' = [timers EXCEPT ![k].kind = "end"]
        /\ UNCHANGED <<tableVars, st, first, queue, suspended, tick, boot, ipc, inputs,
                       disturbed, overlayVars>>
    BY DEF Middle, Expires
  <1>2. Phase /\ Late /\ Drawing
    BY DEF InOrder
  <1>3. Running /\ Timed /\ st \in {"in", "loop"} /\ k = 1 /\ Calm
    BY <1>1, <1>2, TimerTellsPhase
  <1>4. PICK t \in SwitchTimers : /\ timers = <<t>> /\ ~t.old /\ t.slot = cur /\ t.part = Part
                                  /\ timers[k] = t
    BY <1>3, OneTimer DEF Timed
  <1>5. UNCHANGED <<ops, cur, used, handle, fx, ticks, worker, active, abortReq, st>>
    BY <1>1 DEF tableVars, overlayVars
  <1> DEFINE u == [t EXCEPT !.kind = "end"]
  <1>6. timers' = <<u>>
    BY <1>1, <1>3, <1>4
  <1>7. u \in SwitchTimers /\ ~u.old /\ u.slot = cur /\ u.part = Part /\ u.kind = "end"
    BY <1>4 DEF SwitchTimers
  <1> HIDE DEF u
  <1>8. st = "loop" => PlaysLoop'
    BY <1>1, <1>4, <1>5 DEF Play, PlaysLoop, Part
  <1>9. Part' = Part /\ handle = None
    BY <1>3, <1>5 DEF Part, Timed
  <1>10. Timed'
    BY <1>5, <1>6, <1>7, <1>8, <1>9 DEF Timed
  <1>11. Calm'
    BY <1>1, <1>3, <1>5 DEF Calm
  <1>12. Running'
    BY <1>1, <1>3, <1>5, <1>10, <1>11 DEF Running
  <1> QED
    BY <1>2, <1>5, <1>12, SameInOrder DEF InOrder, Phase

LEMMA EndInOrder ==
  ASSUME Typed, InOrder, NEW k \in DOMAIN timers, End(k)
  PROVE  InOrder'
  <1> DEFINE slot == timers[k].slot
  <1>1. /\ timers[k].kind = "end"
        /\ \E o \in After(st, slot) : st' = o.st /\ timers' = Others(k) \o o.add
        /\ UNCHANGED <<tableVars, first, playVars, queue, suspended, tick, boot, ipc, inputs,
                       disturbed, overlayVars>>
    BY DEF End, Expires
  <1>2. Phase /\ Late /\ Drawing
    BY DEF InOrder
  <1>3. Running /\ Timed /\ st \in {"in", "loop"} /\ Calm /\ Others(k) = <<>>
    BY <1>1, <1>2, TimerTellsPhase
  <1>4. slot = cur /\ (st = "loop" => PlaysLoop)
    BY <1>1, <1>3, OneTimer DEF Timed
  <1>5. UNCHANGED <<ops, cur, playing, used, handle, fx, ticks, worker, active, abortReq>>
    BY <1>1 DEF tableVars, overlayVars, playVars
  <1>6. handle = None /\ ~first /\ boot = {} /\ tick.pc \in {"idle", "drain"}
    BY <1>3 DEF Running, Timed
  <1>7. PICK o \in After(st, slot) : st' = o.st /\ timers' = o.add
    BY <1>1, <1>3, AfterCases
  <1>8. PlaysLoop' <=> PlaysLoop
    BY <1>5 DEF PlaysLoop
  <1>9. Calm'
    BY <1>1, <1>3, <1>5 DEF Calm
  <1> HIDE DEF slot
  <1>10. Phase'
    BY <1>1, <1>3, <1>4, <1>5, <1>6, <1>7, <1>8, <1>9, AfterInOrder
  <1>11. Late'
    BY <1>2, <1>3, <1>5 DEF Late, Ended
  <1> QED
    BY <1>2, <1>5, <1>10, <1>11, SameInOrder DEF InOrder

LEMMA IntroOverInOrder ==
  ASSUME Typed, InOrder, NEW k \in DOMAIN timers, IntroOver(k)
  PROVE  InOrder'
  <1> DEFINE slot == timers[k].slot
             kind == TransitionLoop[ops[slot]]
  <1>1. /\ timers[k].kind = "loop" /\ slot \in DOMAIN ops
        /\ Launch("loop", kind, slot, "loop", Others(k))
        /\ UNCHANGED <<tableVars, first, queue, suspended, tick, boot, ipc, inputs, disturbed>>
    BY DEF IntroOver, Expires
  <1>2. Phase /\ Late /\ Drawing
    BY DEF InOrder
  <1>3. Running /\ st = "intro" /\ Waits("loop") /\ Calm /\ Others(k) = <<>> /\ handle = None
    BY <1>1, <1>2, TimerTellsPhase
  <1>4. slot = cur
    BY <1>3, OneTimer DEF Waits, Timer
  <1>5. ~first /\ boot = {} /\ tick.pc \in {"idle", "drain"}
    BY <1>3 DEF Running
  <1>6. slot \in Slots /\ kind \in {"timed", "swipe", "none"}
    BY <1>1, SlotsOfOps, PrtsAssumption DEF Typed, TableTyped
  <1>7. ticks \subseteq LateTicks /\ ticks \cup {worker.pending} \subseteq {None} \cup Ended
    BY <1>2, <1>3 DEF Late
  <1>8. ~first' /\ cur' = slot /\ ops' = ops /\ UNCHANGED <<tick, boot, ipc>>
    BY <1>1, <1>4, <1>5 DEF tableVars
  <1>9. Launch("loop", kind, slot, "loop", <<>>)
    BY <1>1, <1>3
  <1>10. "loop" \in Parts /\ "loop" = IF "loop" = "in" THEN "intro" ELSE "loop"
    BY DEF Parts
  <1> HIDE DEF slot, kind
  <1> QED
    BY <1>1, <1>2, <1>3, <1>5, <1>6, <1>7, <1>8, <1>9, <1>10, LaunchInOrder

LEMMA ShowOpinfoInOrder ==
  ASSUME Typed, InOrder, NEW k \in DOMAIN timers, ShowOpinfo(k)
  PROVE  InOrder'
  <1> DEFINE slot == timers[k].slot
             e == Opinfo[ops[slot]]
  <1>1. /\ timers[k].kind = "opinfo" /\ slot \in DOMAIN ops
        /\ IF e = None THEN UNCHANGED overlayVars ELSE Show(e, slot)
        /\ st' = "idle" /\ timers' = Others(k)
        /\ UNCHANGED <<tableVars, first, playVars, queue, suspended, tick, boot, ipc, inputs,
                       disturbed>>
    BY DEF ShowOpinfo, Expires
  <1>2. Phase /\ Late /\ Drawing
    BY DEF InOrder
  <1>3. /\ Running /\ st = "pre" /\ PlaysLoop /\ Calm /\ Others(k) = <<>> /\ handle = None
        /\ ~first /\ boot = {} /\ tick.pc \in {"idle", "drain"}
    BY <1>1, <1>2, TimerTellsPhase DEF Running
  <1>4. e \in {"engine", "ark", None}
    BY <1>1, PrtsAssumption DEF Typed, TableTyped
  <1>5. active = FALSE /\ worker.fx = None
    BY <1>2, <1>3, NoneAssumption DEF Drawing, Effects, Typed, OverlayTyped, OverlayTypeOK
  <1>6. ticks \subseteq LateTicks /\ ticks \cup {worker.pending} \subseteq {None, "engine"}
    BY <1>2, <1>3 DEF Late, Ended
  <1>7. UNCHANGED <<ops, cur, playing>>
    BY <1>1 DEF tableVars, playVars
  <1>8. PlaysLoop'
    BY <1>3, <1>7 DEF PlaysLoop
  <1> HIDE DEF slot, e
  <1>9. CASE e = None
    <2>1. UNCHANGED <<used, handle, fx, ticks, worker, active, abortReq>>
      BY <1>1, <1>9 DEF overlayVars
    <2>2. Resting'
      BY <1>1, <1>3, <1>8, <2>1, NoneAssumption DEF Resting, Calm, Effects
    <2>3. Late'
      BY <1>2, <1>3, <2>1 DEF Late, Ended
    <2> QED
      BY <1>2, <2>1, <2>2, <2>3, SameInOrder DEF InOrder, Phase
  <1>10. CASE e # None
    <2>1. /\ abortReq' = FALSE /\ used' = TRUE /\ handle' = e
          /\ active' = (active \/ e = "engine")
          /\ fx' = [fx EXCEPT ![e] = Data(slot, "loop")]
          /\ UNCHANGED <<ticks, worker>>
      BY <1>1, <1>5, <1>10 DEF Show
    <2>2. fx'[e].live
      BY <1>4, <1>10, <2>1 DEF Data, Typed, OverlayTyped, OverlayTypeOK, Effects
    <2>3. active' <=> e = "engine"
      BY <1>5, <2>1
    <2>4. Resting'
      BY <1>1, <1>3, <1>4, <1>8, <1>10, <2>1 DEF Resting, Calm
    <2>5. Late'
      BY <1>6, <2>1, <2>3 DEF Late, Ended
    <2>6. Drawing'
      BY <1>5, <2>1, <2>2, <2>3 DEF Drawing
    <2> QED
      BY <2>4, <2>5, <2>6 DEF InOrder, Phase
  <1> QED
    BY <1>9, <1>10

\* A worker that draws has the effect that runs.
LEMMA DrawsWhatRuns ==
  ASSUME Typed, InOrder, worker.fx # None
  PROVE  /\ handle = worker.fx /\ worker.pending = None /\ handle \in Effects
         /\ ticks \subseteq {handle, None} \cup Ended
         /\ handle = "swipe" => Running /\ Swiping /\ st \in {"in", "loop"}
         /\ handle # "swipe" => Resting
  <1>1. Phase /\ Late /\ Drawing
    BY DEF InOrder
  <1>2. handle = worker.fx /\ worker.pending = None /\ handle \in Effects
    BY <1>1 DEF Drawing, Typed, OverlayTyped, OverlayTypeOK
  <1>3. handle # None
    BY <1>2
  <1>4. ticks \subseteq {handle, None} \cup Ended
    BY <1>1, <1>3 DEF Late
  <1>5. \/ Running /\ Swiping /\ st \in {"in", "loop"}
        \/ Resting
    BY <1>1, <1>3 DEF Phase, Running, Booting, Chosen, Timed, Waits
  <1>6. (Resting => handle # "swipe") /\ (Swiping => handle = "swipe")
    BY DEF Resting, Swiping
  <1> QED
    BY <1>2, <1>4, <1>5, <1>6

\* The phase does not change when the worker ends the effect on screen.
LEMMA RestsWithout ==
  ASSUME Resting, handle' = None,
         UNCHANGED <<switchVars, boot, ipc, used, tick>>
  PROVE  Resting'
  BY NoneAssumption DEF Resting, PlaysLoop, Effects, switchVars, tableVars, playVars

LEMMA SwipeInOrder ==
  ASSUME Typed, InOrder, "swipe" \notin LateTicks, SwipeMiddle \/ SwipeEnd
  PROVE  InOrder'
  <1> DEFINE slot == fx["swipe"].slot
             part == fx["swipe"].part
  <1>1. worker.fx = "swipe" /\ worker.fx # None
    BY NoneAssumption DEF SwipeMiddle, SwipeHalf, SwipeEnd, SwipeLast, Effects
  <1>2. /\ handle = "swipe" /\ worker.pending = None /\ ticks \subseteq {handle, None} \cup Ended
        /\ Running /\ Swiping /\ st \in {"in", "loop"}
    BY <1>1, DrawsWhatRuns
  <1>3. /\ slot = cur /\ part = Part /\ timers = <<>> /\ ~abortReq
        /\ Calm /\ ~first /\ boot = {} /\ tick.pc \in {"idle", "drain"}
    BY <1>2 DEF Running, Swiping
  <1>4. Phase /\ Late /\ Drawing
    BY DEF InOrder
  <1>5. CASE SwipeMiddle
    <2>1. /\ fx' = [fx EXCEPT !["swipe"].mid = TRUE]
          /\ worker' = [worker EXCEPT !.fx = None]
          /\ UNCHANGED <<used, abortReq, handle, active, ticks>>
          /\ Play(slot, part)
          /\ UNCHANGED <<tableVars, st, first, timers, queue, suspended, tick, boot, ipc, inputs,
                         disturbed>>
      BY <1>5 DEF SwipeMiddle, SwipeHalf, WorkerDone
    <2>2. UNCHANGED <<ops, cur>> /\ Part' = Part
      BY <2>1 DEF tableVars, Part
    <2>3. worker'.fx = None /\ worker'.pending = None
      BY <1>2, <2>1 DEF Typed, OverlayTyped, OverlayTypeOK
    <2>4. fx'["swipe"].slot = slot /\ fx'["swipe"].part = part /\ fx'["swipe"].live = fx["swipe"].live
      BY <2>1 DEF Typed, OverlayTyped, OverlayTypeOK, FxData, Effects
    <2>5. st = "loop" => PlaysLoop'
      BY <1>3, <2>1, <2>2 DEF Play, PlaysLoop, Part
    <2>6. Swiping'
      BY <1>2, <1>3, <2>1, <2>2, <2>4, <2>5 DEF Swiping
    <2>7. Calm'
      BY <1>3, <2>1 DEF Calm
    <2>8. Running'
      BY <1>2, <1>3, <2>1, <2>6, <2>7 DEF Running
    <2>9. Late'
      BY <1>2, <1>4, <2>1, <2>3 DEF Late, Ended
    <2>10. Drawing'
      BY <1>2, <1>4, <2>1, <2>3, <2>4 DEF Drawing
    <2> QED
      BY <2>8, <2>9, <2>10 DEF InOrder, Phase
  <1>6. CASE SwipeEnd
    <2>1. /\ fx["swipe"].mid
          /\ worker' = [worker EXCEPT !.fx = None]
          /\ handle' = None /\ active' = (active /\ "swipe" # "engine")
          /\ UNCHANGED <<used, abortReq, ticks>>
          /\ \E o \in After(st, slot) : st' = o.st /\ timers' = timers \o o.add
          /\ UNCHANGED <<tableVars, first, playVars, queue, suspended, tick, boot, ipc, inputs,
                         disturbed>>
      BY <1>6 DEF SwipeEnd, SwipeLast, WorkerDone, Cleanup
    <2>2. UNCHANGED <<ops, cur, playing>>
      BY <2>1 DEF tableVars, playVars
    <2>3. worker'.fx = None /\ worker'.pending = None
      BY <1>2, <2>1 DEF Typed, OverlayTyped, OverlayTypeOK
    <2>4. PICK o \in After(st, slot) : st' = o.st /\ timers' = o.add
      BY <1>2, <1>3, <2>1, AfterCases
    <2>5. (st = "loop" => PlaysLoop) /\ (PlaysLoop' <=> PlaysLoop)
      BY <1>2, <2>1, <2>2 DEF PlaysLoop, Swiping
    <2>6. Calm'
      BY <1>3, <2>1 DEF Calm
    <2>7. cur' = slot
      BY <1>3, <2>2
    <2> HIDE DEF slot
    <2>8. Phase'
      BY <1>2, <1>3, <2>1, <2>4, <2>5, <2>6, <2>7, AfterInOrder
    <2>9. active = FALSE
      BY <1>2, <1>4 DEF Drawing, Typed, OverlayTyped, OverlayTypeOK
    <2>10. active' = FALSE
      BY <2>1, <2>9
    <2>11. Late'
      BY <1>2, <1>4, <2>1, <2>3, <2>10 DEF Late, Ended
    <2>12. Drawing'
      BY <2>1, <2>3, <2>10, NoneAssumption DEF Drawing, Effects
    <2> QED
      BY <2>8, <2>11, <2>12 DEF InOrder
  <1> QED
    BY <1>5, <1>6

LEMMA WorkerInOrder ==
  ASSUME Typed, InOrder,
         WorkerIgnore \/ WorkerAbort \/ WorkerDraw \/ WorkerDrawn,
         UNCHANGED <<switchVars, queue, suspended, tick, boot, ipc, inputs, disturbed>>
  PROVE  InOrder'
  <1>1. Phase /\ Late /\ Drawing
    BY DEF InOrder
  <1>2. UNCHANGED <<used, abortReq, ticks, st>> /\ UNCHANGED switchVars
    BY DEF WorkerIgnore, WorkerAbort, WorkerDraw, WorkerDrawn, WorkerTakes, switchVars
  <1>3. ASSUME UNCHANGED <<handle, fx>> PROVE Phase'
    BY <1>1, <1>2, <1>3, SameInOrder DEF Phase, Running, Booting, Chosen
  <1>4. CASE WorkerIgnore
    <2>1. worker.fx = None /\ worker' = [worker EXCEPT !.pending = None]
          /\ UNCHANGED <<handle, active, fx>>
      BY <1>4 DEF WorkerIgnore, WorkerTakes
    <2>2. worker'.fx = None /\ worker'.pending = None
      BY <2>1 DEF Typed, OverlayTyped, OverlayTypeOK
    <2>3. Late'
      BY <1>1, <1>2, <2>1, <2>2 DEF Late, Ended
    <2>4. Drawing'
      BY <1>1, <2>1, <2>2 DEF Drawing
    <2> QED
      BY <1>3, <2>1, <2>3, <2>4 DEF InOrder
  <1>5. CASE WorkerAbort
    <2> DEFINE e == worker.pending
    <2>1. /\ worker.fx = None /\ e # None /\ ~Ignores(e) /\ abortReq
          /\ worker' = [worker EXCEPT !.pending = None]
          /\ handle' = None /\ active' = (active /\ e # "engine")
          /\ fx' = [fx EXCEPT ![e] = NoData]
      BY <1>5 DEF WorkerAbort, WorkerTakes, Cleanup
    <2>2. worker'.fx = None /\ worker'.pending = None
      BY <2>1 DEF Typed, OverlayTyped, OverlayTypeOK
    <2>3. handle # None => e = handle
      BY <1>1, <2>1 DEF Late, Ended, Ignores
    <2>4. ~active'
      BY <1>1, <2>1, <2>3, NoneAssumption DEF Drawing, Effects
    <2>5. Drawing'
      BY <2>1, <2>2, <2>4, NoneAssumption DEF Drawing, Effects
    <2>6. handle # None => Resting
      BY <1>1, <2>1 DEF Phase, Running, Booting, Chosen, Timed, Swiping, Waits
    <2>7. ~Swiping
      BY <2>1 DEF Swiping
    <2>8. Phase'
      <3>1. CASE Resting
        BY <1>2, <2>1, <3>1, RestsWithout DEF Phase
      <3>2. CASE ~Resting
        <4>1. handle = None /\ handle' = handle /\ UNCHANGED <<ops, cur, playing, first, timers>>
          BY <1>2, <2>1, <2>6, <3>2 DEF switchVars, tableVars, playVars
        <4>2. (PlaysLoop' <=> PlaysLoop) /\ (Calm' <=> Calm) /\ Part' = Part
          BY <1>2, <4>1 DEF PlaysLoop, Calm, Part
        <4>3. Timed => Timed'
          BY <1>2, <4>1, <4>2 DEF Timed
        <4>4. \A kind : Waits(kind) => Waits(kind)'
          BY <4>1 DEF Waits
        <4>5. Running => Running'
          BY <1>2, <2>7, <4>1, <4>2, <4>3, <4>4 DEF Running
        <4>6. Booting => Booting'
          BY <1>2, <4>1, <4>2 DEF Booting
        <4>7. Chosen => Chosen'
          BY <1>2, <4>1, <4>2 DEF Chosen
        <4> QED
          BY <1>1, <3>2, <4>5, <4>6, <4>7 DEF Phase
      <3> QED
        BY <3>1, <3>2
    <2>9. Late'
      <3>1. CASE handle # None
        BY <1>1, <1>2, <2>1, <2>2, <2>3, <2>6, <3>1 DEF Late, Resting
      <3>2. CASE handle = None
        BY <1>1, <1>2, <2>1, <2>2, <2>4, <3>2 DEF Late, Ended
      <3> QED
        BY <3>1, <3>2
    <2> QED
      BY <2>5, <2>8, <2>9 DEF InOrder
  <1>6. CASE WorkerDraw
    <2> DEFINE e == worker.pending
    <2>1. /\ worker.fx = None /\ e # None /\ ~Ignores(e) /\ ~abortReq
          /\ worker' = [fx |-> e, pending |-> None]
          /\ UNCHANGED <<handle, active, fx>>
      BY <1>6 DEF WorkerDraw, WorkerTakes
    <2>2. e = handle
      BY <1>1, <2>1 DEF Late, Ended, Ignores
    <2>3. worker'.fx = handle /\ worker'.pending = None
      BY <2>1, <2>2
    <2>4. Late'
      BY <1>1, <1>2, <2>1, <2>3 DEF Late, Ended
    <2>5. Drawing'
      BY <1>1, <2>1, <2>3 DEF Drawing
    <2> QED
      BY <1>3, <2>1, <2>4, <2>5 DEF InOrder
  <1>7. CASE WorkerDrawn
    <2>1. /\ worker.fx \in {"engine", "ark"} /\ worker.fx # None
          /\ worker' = [worker EXCEPT !.fx = None]
          /\ \/ UNCHANGED <<handle, active, fx>>
             \/ worker.fx = "engine" /\ Cleanup("engine")
      BY <1>7, NoneAssumption DEF WorkerDrawn, WorkerDone, Effects
    <2>2. /\ handle = worker.fx /\ worker.pending = None /\ Resting
          /\ ticks \subseteq {handle, None} \cup Ended
      BY <2>1, DrawsWhatRuns
    <2>3. worker'.fx = None /\ worker'.pending = None
      BY <2>1, <2>2 DEF Typed, OverlayTyped, OverlayTypeOK
    <2>4. CASE UNCHANGED <<handle, active, fx>>
      <3>1. Late'
        BY <1>1, <1>2, <2>2, <2>3, <2>4 DEF Late, Ended
      <3>2. Drawing'
        BY <1>1, <2>3, <2>4 DEF Drawing
      <3> QED
        BY <1>3, <2>4, <3>1, <3>2 DEF InOrder
    <2>5. CASE worker.fx = "engine" /\ Cleanup("engine")
      <3>1. handle' = None /\ active' = FALSE
        BY <2>5 DEF Cleanup
      <3>2. Late'
        BY <1>1, <1>2, <2>2, <2>3, <2>5, <3>1 DEF Late, Ended
      <3>3. Drawing'
        BY <2>3, <3>1, NoneAssumption DEF Drawing, Effects
      <3>4. Resting'
        BY <1>2, <2>2, <3>1, RestsWithout
      <3> QED
        BY <3>2, <3>3, <3>4 DEF InOrder, Phase
    <2> QED
      BY <2>1, <2>4, <2>5
  <1> QED
    BY <1>4, <1>5, <1>6, <1>7

LEMMA EffectInOrder ==
  ASSUME Typed, InOrder, NEW e \in Effects, EffectTick(e)
  PROVE  InOrder'
  <1>1. Phase /\ Late /\ Drawing
    BY DEF InOrder
  <1>2. /\ UNCHANGED <<switchVars, queue, suspended, tick, boot, ipc, inputs, disturbed>>
        /\ UNCHANGED <<used, abortReq, handle, active, fx>>
    BY DEF EffectTick, FxTick, LateTick
  <1>3. UNCHANGED switchVars /\ UNCHANGED st
    BY <1>2 DEF switchVars
  <1>4. Phase'
    BY <1>1, <1>2, <1>3, SameInOrder DEF Phase, Running, Booting, Chosen
  <1>5. ASSUME Ask(e)
        PROVE  /\ worker'.fx = worker.fx
               /\ worker'.pending \in {worker.pending, e}
               /\ worker.fx # None => worker' = worker
    BY <1>5 DEF Ask, Typed, OverlayTyped, OverlayTypeOK
  <1>6. /\ worker'.fx = worker.fx
        /\ worker'.pending \in {worker.pending, e}
        /\ worker.fx # None => worker' = worker
    <2>1. UNCHANGED worker \/ Ask(e)
      BY DEF EffectTick, FxTick, LateTick
    <2> QED
      BY <1>5, <2>1
  <1>7. e \in ticks \/ e = handle
    BY DEF EffectTick, FxTick, LateTick
  <1>8. ticks' \subseteq ticks \cup {e} /\ ticks' \subseteq LateTicks
    BY <1>1 DEF EffectTick, FxTick, LateTick, Late
  <1>9. Late'
    <2>1. CASE ticks \cup {worker.pending} \subseteq {handle, None} \cup Ended
      BY <1>2, <1>6, <1>7, <1>8, <2>1 DEF Late, Ended
    <2>2. CASE abortReq /\ handle = None /\ st \in {"idle", "boot"}
      BY <1>2, <1>3, <1>8, <2>2 DEF Late
    <2> QED
      BY <1>1, <2>1, <2>2 DEF Late
  <1>10. Drawing'
    BY <1>1, <1>2, <1>6 DEF Drawing
  <1> QED
    BY <1>4, <1>9, <1>10 DEF InOrder

\* A step of the tick from rest.
LEMMA TickInOrder ==
  ASSUME Typed, InOrder, Tick, ~disturbed'
  PROVE  InOrder'
  <1>1. Phase /\ Late /\ Drawing
    BY DEF InOrder
  <1>2. TickTyped /\ tick \in Ticks /\ PhaseTyped /\ TableTyped /\ RestTyped
    BY DEF Typed, TickTyped
  <1>3. UNCHANGED <<boot, ipc>>
    BY DEF Tick, TickStart, PopSet, PopReloadBusy, PopReload, AbortReturns, Stage, Rebuild,
           Reselect, Resume, Suspend, Decide
  <1>4. Chosen => StagePending
    BY DEF Chosen, StagePending, Timer
  <1>5. \A b : Disturb(b) => ~b
    BY DEF Disturb
  \* Neither the table nor the overlay changes.
  <1>6. ASSUME UNCHANGED switchVars, UNCHANGED overlayVars PROVE Late' /\ Drawing'
    BY <1>1, <1>6, SameInOrder DEF switchVars, overlayVars
  <1>7. ASSUME UNCHANGED switchVars, UNCHANGED overlayVars,
               tick'.pc \in {"idle", "drain"},
               Resting => Resting'
        PROVE  InOrder'
    BY <1>1, <1>3, <1>6, <1>7, SameInOrder DEF overlayVars, Phase, InOrder
  <1>8. UNCHANGED switchVars => (PlaysLoop' <=> PlaysLoop)
    BY DEF PlaysLoop, switchVars, tableVars, playVars
  \* switch_operator, at rest.
  <1>9. ASSUME NEW slot \in Slots, NEW t \in Ticks, Switch(slot, t), UNCHANGED switchVars,
               tick.pc \in {"drain", "reselect", "resume"},
               t.back \in {"idle", "drain"} \/ Resting,
               PlaysLoop \/ slot = 1 \/ ~Resting
        PROVE  InOrder'
    <2>1. CASE st # "idle"
      <3>1. tick' = [t EXCEPT !.pc = t.back] /\ UNCHANGED overlayVars
        BY <1>9, <2>1 DEF Switch
      <3>2. ~Resting
        BY <2>1 DEF Resting
      <3>3. tick'.pc = t.back
        BY <3>1 DEF Ticks
      <3> QED
        BY <1>7, <1>9, <3>1, <3>2, <3>3
    <2>2. CASE st = "idle"
      <3> DEFINE u == [t EXCEPT !.sw = slot]
      <3>1. ~StagePending /\ (~first => ipc = "no")
        BY <1>5, <1>9, <2>2 DEF Switch
      <3>2. Resting
        BY <1>1, <1>4, <2>2, <3>1 DEF Phase, Running, Booting
      <3>3. ~first /\ ipc = "no"
        BY <3>1, <3>2 DEF Resting
      <3>4. \/ used /\ AbortBegin /\ tick' = [u EXCEPT !.pc = "abort"]
            \/ ~used /\ UNCHANGED overlayVars /\ tick' = [u EXCEPT !.pc = "stage"]
        BY <1>9, <2>2, <3>3 DEF Switch
      <3>5. u \in Ticks /\ u.sw = slot
        BY DEF Ticks
      <3> HIDE DEF u
      <3>6. /\ UNCHANGED <<st, first, timers>> /\ (PlaysLoop' <=> PlaysLoop)
        BY <1>8, <1>9 DEF switchVars
      <3>7. CASE used /\ AbortBegin /\ tick' = [u EXCEPT !.pc = "abort"]
        <4>1. tick'.pc = "abort" /\ tick'.sw = slot
          BY <3>5, <3>7 DEF Ticks
        <4>2. /\ used' = FALSE /\ abortReq' = TRUE
              /\ UNCHANGED <<handle, active, fx, ticks, worker>>
          BY <3>7 DEF AbortBegin
        <4>3. Resting'
          BY <1>3, <1>9, <3>2, <3>3, <3>6, <4>1, <4>2 DEF Resting
        <4>4. Late'
          BY <1>1, <3>2, <3>6, <4>2 DEF Late, Ended, Resting
        <4>5. Drawing'
          BY <1>1, <4>2, SameInOrder
        <4> QED
          BY <4>3, <4>4, <4>5 DEF InOrder, Phase
      <3>8. CASE ~used /\ UNCHANGED overlayVars /\ tick' = [u EXCEPT !.pc = "stage"]
        <4>1. tick'.pc = "stage" /\ tick'.sw = slot
          BY <3>5, <3>8 DEF Ticks
        <4>2. UNCHANGED <<used, handle>>
          BY <3>8 DEF overlayVars
        <4>3. handle = None
          BY <1>9, <3>2, <3>3, <3>8 DEF Resting
        <4>4. Resting'
          BY <1>3, <1>9, <3>2, <3>3, <3>6, <3>8, <4>1, <4>2, <4>3 DEF Resting
        <4> QED
          BY <1>6, <1>9, <3>8, <4>4 DEF InOrder, Phase
      <3> QED
        BY <3>4, <3>7, <3>8
    <2> QED
      BY <2>1, <2>2
  <1>10. CASE TickStart
    <2>1. /\ tick.pc = "idle" /\ tick' = [pc |-> "drain", want |-> 0, sw |-> 0, back |-> "idle"]
          /\ UNCHANGED switchVars /\ UNCHANGED overlayVars
      BY <1>10 DEF TickStart
    <2>2. Resting => Resting'
      BY <1>3, <1>8, <2>1 DEF Resting, switchVars, overlayVars
    <2> QED
      BY <1>7, <2>1, <2>2
  <1>11. CASE PopSet
    <2>1. /\ tick.pc = "drain" /\ tick' = [tick EXCEPT !.want = Head(queue)]
          /\ UNCHANGED switchVars /\ UNCHANGED overlayVars
      BY <1>11 DEF PopSet
    <2>2. tick'.pc = "drain"
      BY <1>2, <2>1 DEF Ticks
    <2>3. Resting => Resting'
      BY <1>3, <1>8, <2>1, <2>2 DEF Resting, switchVars, overlayVars
    <2> QED
      BY <1>7, <2>1, <2>2, <2>3
  <1>12. CASE PopReloadBusy
    <2>1. /\ st # "idle" /\ tick' = [tick EXCEPT !.pc = "idle"]
          /\ UNCHANGED switchVars /\ UNCHANGED overlayVars
      BY <1>12 DEF PopReloadBusy, TickGoto, MayReload
    <2>2. tick'.pc = "idle" /\ ~Resting
      BY <1>2, <2>1 DEF Ticks, Resting
    <2> QED
      BY <1>7, <2>1, <2>2
  <1>13. CASE PopReload
    <2> DEFINE t == [tick EXCEPT !.sw = 0]
    <2>1. /\ tick.pc = "drain" /\ st = "idle" /\ UNCHANGED switchVars
          /\ Disturb(StagePending \/ ipc # "no")
          /\ \/ used /\ AbortBegin /\ tick' = [t EXCEPT !.pc = "abort"]
             \/ ~used /\ tick' = [t EXCEPT !.pc = "rebuild"] /\ UNCHANGED overlayVars
      BY <1>13 DEF PopReload, TickAbort, MayReload
    <2>2. t \in Ticks /\ t.sw = 0
      BY <1>2 DEF Ticks
    <2> HIDE DEF t
    <2>3. Resting /\ ipc = "no"
      BY <1>1, <1>4, <1>5, <2>1 DEF Phase, Running, Booting
    <2>4. PlaysLoop /\ UNCHANGED <<st, first, timers>> /\ (PlaysLoop' <=> PlaysLoop)
      BY <1>8, <2>1, <2>3 DEF Resting, switchVars
    <2>5. CASE used /\ AbortBegin /\ tick' = [t EXCEPT !.pc = "abort"]
      <3>1. tick'.pc = "abort"
        BY <2>2, <2>5 DEF Ticks
      <3>2. used' = FALSE /\ abortReq' = TRUE /\ UNCHANGED <<handle, active, fx, ticks, worker>>
        BY <2>5 DEF AbortBegin
      <3>3. Resting'
        BY <1>3, <2>3, <2>4, <3>1, <3>2 DEF Resting
      <3>4. Late'
        BY <1>1, <2>1, <2>4, <3>2 DEF Late, Ended
      <3>5. Drawing'
        BY <1>1, <3>2, SameInOrder
      <3> QED
        BY <3>3, <3>4, <3>5 DEF InOrder, Phase
    <2>6. CASE ~used /\ tick' = [t EXCEPT !.pc = "rebuild"] /\ UNCHANGED overlayVars
      <3>1. tick'.pc = "rebuild"
        BY <2>2, <2>6 DEF Ticks
      <3>2. handle = None /\ UNCHANGED <<handle, used>>
        BY <2>1, <2>3, <2>6 DEF Resting, overlayVars
      <3>3. Resting'
        BY <1>3, <2>3, <2>4, <2>6, <3>1, <3>2 DEF Resting
      <3> QED
        BY <1>6, <2>1, <2>6, <3>3 DEF InOrder, Phase
    <2> QED
      BY <2>1, <2>5, <2>6
  <1>14. CASE AbortReturns
    <2>1. /\ tick.pc = "abort" /\ handle = None
          /\ tick' = [tick EXCEPT !.pc = IF tick.sw = 0 THEN "rebuild" ELSE "stage"]
          /\ UNCHANGED switchVars /\ UNCHANGED overlayVars
      BY <1>14 DEF AbortReturns, TickGoto, Aborted
    <2>2. Resting
      BY <1>1, <2>1 DEF Phase, Running, Booting, Chosen
    <2>3. tick'.pc = (IF tick.sw = 0 THEN "rebuild" ELSE "stage") /\ tick'.sw = tick.sw
      BY <1>2, <2>1 DEF Ticks
    <2>4. UNCHANGED <<st, first, timers, used, handle>>
      BY <2>1 DEF switchVars, overlayVars
    <2>5. ~used /\ ipc # "wait" /\ (PlaysLoop \/ tick.sw = 1)
      BY <2>1, <2>2 DEF Resting
    <2>6. Resting'
      BY <1>3, <1>8, <2>1, <2>2, <2>3, <2>4, <2>5 DEF Resting
    <2> QED
      BY <1>6, <2>1, <2>6 DEF InOrder, Phase
  <1>15. CASE Stage
    <2>1. /\ tick.pc = "stage"
          /\ timers' = Append(timers, Timer("stage2", tick.sw, "loop"))
          /\ tick' = [tick EXCEPT !.pc = tick.back, !.sw = 0]
          /\ UNCHANGED <<ops, cur, st, first, playing>> /\ UNCHANGED overlayVars
      BY <1>15 DEF Stage, tableVars, playVars
    <2>2. Resting
      BY <1>1, <2>1 DEF Phase, Running, Booting, Chosen
    <2>3. tick'.pc \in {"idle", "drain", "resume"} /\ tick.sw \in Slots
      BY <1>2, <2>1 DEF Ticks, TickTyped
    <2>4. UNCHANGED <<used, handle, fx, active, ticks, worker, abortReq>>
      BY <2>1 DEF overlayVars
    <2>5. timers' = <<Timer("stage2", tick.sw, "loop")>>
      BY <2>1, <2>2 DEF Resting
    <2>6. /\ st = "idle" /\ ~first /\ ~used /\ ipc # "wait" /\ handle = None
          /\ PlaysLoop \/ tick.sw = 1
      BY <2>1, <2>2 DEF Resting
    <2>7. (PlaysLoop' <=> PlaysLoop) /\ Calm'
      BY <1>3, <2>1, <2>4, <2>6 DEF PlaysLoop, Calm
    <2>8. Chosen'
      BY <2>1, <2>3, <2>4, <2>5, <2>6, <2>7 DEF Chosen
    <2> QED
      BY <1>1, <2>1, <2>4, <2>8, SameInOrder DEF InOrder, Phase
  <1>16. CASE Rebuild
    <2>1. PICK table \in Tables :
            /\ tick.pc = "rebuild" /\ ops' = table
            /\ \/ cur' \in FoundAt(table) /\ tick' = [tick EXCEPT !.pc = "resume"]
               \/ cur' = 1 /\ tick' = [tick EXCEPT !.pc = "reselect"]
      BY <1>16 DEF Rebuild, TickGoto
    <2>2. /\ UNCHANGED <<st, first, playing, used, abortReq, handle, active, ticks, worker>>
          /\ timers' = [k \in DOMAIN timers |->
                          [timers[k] EXCEPT !.old = timers[k].kind \in {"mid", "loop"}]]
      BY <1>16 DEF Rebuild, playVars
    <2>3. Resting
      BY <1>1, <2>1 DEF Phase, Running, Booting, Chosen
    <2>4. handle = None /\ ~used /\ timers = <<>> /\ PlaysLoop
      BY <2>1, <2>3 DEF Resting
    <2>5. timers' = <<>>
      <3>1. timers' \in [1 .. 0 -> SwitchTimers]
        BY <2>2, <2>4
      <3> QED
        BY <3>1
    <2>6. \/ tick'.pc = "reselect"
          \/ tick'.pc = "resume" /\ PlaysLoop'
      <3>1. \/ cur' \in FoundAt(table) /\ tick'.pc = "resume"
            \/ tick'.pc = "reselect"
        BY <1>2, <2>1 DEF Ticks
      <3>2. cur' \in FoundAt(table) => ops'[cur'] = ops[cur]
        BY <2>1 DEF FoundAt
      <3>3. cur' \in FoundAt(table) => PlaysLoop'
        BY <2>2, <2>4, <3>2 DEF PlaysLoop
      <3> QED
        BY <3>1, <3>3
    <2>7. ipc # "wait"
      BY <2>1, <2>3 DEF Resting
    <2>8. Resting'
      BY <1>3, <2>2, <2>3, <2>4, <2>5, <2>6, <2>7 DEF Resting
    <2>9. Late'
      BY <1>1, <2>2, SameInOrder
    <2>10. Drawing'
      BY <1>1, <2>2, <2>4, NoneAssumption DEF Drawing, Effects
    <2> QED
      BY <2>8, <2>9, <2>10 DEF InOrder, Phase
  <1>17. CASE Reselect
    <2>1. tick.pc = "reselect" /\ Switch(1, [tick EXCEPT !.back = "resume"]) /\ UNCHANGED switchVars
      BY <1>17 DEF Reselect
    <2>2. Resting
      BY <1>1, <2>1 DEF Phase, Running, Booting, Chosen
    <2>3. [tick EXCEPT !.back = "resume"] \in Ticks
      BY <1>2 DEF Ticks
    <2> QED
      BY <1>9, <2>1, <2>2, <2>3, SlotsHold
  <1>18. CASE Resume
    <2> DEFINE t == [tick EXCEPT !.back = "drain"]
    <2>1. /\ tick.pc = "resume" /\ UNCHANGED switchVars
          /\ \/ Switch(cur, t)
             \/ tick' = [tick EXCEPT !.pc = "drain"] /\ UNCHANGED overlayVars
      BY <1>18 DEF Resume, TickGoto
    <2>2. t \in Ticks /\ t.back = "drain" /\ cur \in Slots
      BY <1>2, SlotsOfOps DEF Ticks, TableTyped
    <2> HIDE DEF t
    <2>3. CASE Switch(cur, t)
      <3>1. PlaysLoop \/ ~Resting
        BY <2>1 DEF Resting
      <3> QED
        BY <1>9, <2>1, <2>2, <2>3, <3>1
    <2>4. CASE tick' = [tick EXCEPT !.pc = "drain"] /\ UNCHANGED overlayVars
      <3>1. tick'.pc = "drain"
        BY <1>2, <2>4 DEF Ticks
      <3>2. Resting => Resting'
        BY <1>3, <1>8, <2>1, <2>4, <3>1 DEF Resting, switchVars, overlayVars
      <3> QED
        BY <1>7, <2>1, <2>4, <3>1, <3>2
    <2> QED
      BY <2>1, <2>3, <2>4
  <1>19. CASE Suspend
    <2>1. /\ tick.pc = "drain" /\ st = "idle" /\ playing' = None
          /\ tick' = [tick EXCEPT !.pc = "idle"] /\ Disturb(StagePending)
          /\ UNCHANGED <<ops, cur, st, first, timers>> /\ UNCHANGED overlayVars
      BY <1>19 DEF Suspend, TickGoto, MustSuspend, tableVars
    <2>2. Resting
      BY <1>1, <1>4, <1>5, <2>1 DEF Phase, Running, Booting
    <2>3. tick'.pc = "idle"
      BY <1>2, <2>1 DEF Ticks
    <2>4. UNCHANGED <<used, handle, fx, active, ticks, worker, abortReq>>
      BY <2>1 DEF overlayVars
    <2>5. PlaysLoop'
      BY <2>1 DEF PlaysLoop
    <2>6. Resting'
      BY <1>3, <2>1, <2>2, <2>3, <2>4, <2>5 DEF Resting
    <2> QED
      BY <1>1, <2>1, <2>4, <2>6, SameInOrder DEF InOrder, Phase
  <1>20. CASE Decide
    <2> DEFINE t == [tick EXCEPT !.back = "idle"]
    <2>1. /\ tick.pc = "drain" /\ UNCHANGED switchVars
          /\ \/ tick' = [tick EXCEPT !.pc = "idle"] /\ UNCHANGED overlayVars
             \/ tick.want # 0 /\ Switch(tick.want, t)
             \/ \E slot \in DOMAIN ops : Switch(slot, t)
      BY <1>20 DEF Decide, TickGoto
    <2>2. t \in Ticks /\ t.back = "idle" /\ tick.want \in {0} \cup Slots /\ DOMAIN ops \subseteq Slots
      BY <1>2, SlotsOfOps DEF Ticks
    <2> HIDE DEF t
    <2>3. PlaysLoop \/ ~Resting
      BY <2>1 DEF Resting
    <2>4. ASSUME NEW slot \in Slots, Switch(slot, t) PROVE InOrder'
      BY <1>9, <2>1, <2>2, <2>3, <2>4
    <2>5. CASE tick' = [tick EXCEPT !.pc = "idle"] /\ UNCHANGED overlayVars
      <3>1. tick'.pc = "idle"
        BY <1>2, <2>5 DEF Ticks
      <3>2. Resting => Resting'
        BY <1>3, <1>8, <2>1, <2>5, <3>1 DEF Resting, switchVars, overlayVars
      <3> QED
        BY <1>7, <2>1, <2>5, <3>1, <3>2
    <2> QED
      BY <2>1, <2>2, <2>4, <2>5
  <1> QED
    BY <1>10, <1>11, <1>12, <1>13, <1>14, <1>15, <1>16, <1>17, <1>18, <1>19, <1>20 DEF Tick

LEMMA InputInOrder ==
  ASSUME Typed, InOrder, ~disturbed',
         \/ \E who \in {"timer", "key"} : BootEnter(who) \/ BootLeave(who)
         \/ \E slot \in DOMAIN ops : Request("set", slot)
         \/ Request("reload", Reload)
         \/ \E from, to \in DOMAIN ops : Move(from, to)
         \/ SourceLost \/ IpcAbort \/ IpcStart
  PROVE  InOrder'
  <1>1. Phase /\ Late /\ Drawing
    BY DEF InOrder
  <1>2. Chosen => StagePending
    BY DEF Chosen, StagePending, Timer
  <1>3. \A b : Disturb(b) => ~b
    BY DEF Disturb
  <1>4. ASSUME NEW who \in {"timer", "key"}, BootEnter(who) PROVE InOrder'
    <2>1. /\ st = "boot"
          /\ UNCHANGED <<ops, cur, st, first, playing, timers, tick, ipc>> /\ UNCHANGED overlayVars
      BY <1>4 DEF BootEnter, switchVars, tableVars, playVars
    <2>2. Booting
      BY <1>1, <2>1 DEF Phase, Running, Chosen, Resting
    <2>3. Booting'
      BY <2>1, <2>2 DEF Booting, Calm, overlayVars
    <2>4. Late' /\ Drawing'
      BY <1>1, <2>1, SameInOrder DEF overlayVars
    <2> QED
      BY <2>3, <2>4 DEF InOrder, Phase
  <1>5. ASSUME NEW who \in {"timer", "key"}, BootLeave(who) PROVE InOrder'
    <2>1. /\ who \in boot /\ st' = "idle" /\ playing' = None
          /\ timers' = Append(timers, Timer("stage2", 1, "loop"))
          /\ Disturb(StagePending \/ tick.pc # "idle")
          /\ UNCHANGED <<ops, cur, first, tick, ipc>> /\ UNCHANGED overlayVars
      BY <1>5 DEF BootLeave, tableVars
    <2>2. tick.pc = "idle" /\ ~StagePending
      BY <1>3, <2>1
    <2>3. Booting
      BY <1>1, <1>2, <2>1, <2>2 DEF Phase, Running, Resting
    <2>4. timers' = <<Timer("stage2", 1, "loop")>>
      BY <2>1, <2>3 DEF Booting
    <2>5. UNCHANGED <<used, handle, fx, active, ticks, worker, abortReq>>
      BY <2>1 DEF overlayVars
    <2>6. Chosen'
      BY <2>1, <2>2, <2>3, <2>4, <2>5, SlotsHold DEF Booting, Chosen, Calm
    <2>7. Late' /\ Drawing'
      BY <1>1, <2>1, <2>5, SameInOrder DEF Late, Ended
    <2> QED
      BY <2>6, <2>7 DEF InOrder, Phase
  <1>6. ASSUME NEW kind, NEW r, Request(kind, r) PROVE InOrder'
    <2>1. UNCHANGED <<switchVars, tick, boot, ipc>> /\ UNCHANGED overlayVars
      BY <1>6 DEF Request
    <2>2. Phase'
      BY <1>1, <2>1, SameInOrder DEF Phase, Running, Booting, Chosen, overlayVars
    <2>3. Late' /\ Drawing'
      BY <1>1, <2>1, SameInOrder DEF overlayVars, switchVars
    <2> QED
      BY <2>2, <2>3 DEF InOrder
  <1>7. ASSUME NEW from \in DOMAIN ops, NEW to \in DOMAIN ops, Move(from, to) PROVE InOrder'
    <2>1. /\ ops' = MoveTo(ops, from, to) /\ cur' = Follow(from, to)
          /\ timers = <<>> /\ st = "idle" /\ tick.pc = "idle"
          /\ UNCHANGED <<st, first, playing, timers, tick, boot, ipc>> /\ UNCHANGED overlayVars
      BY <1>3, <1>7 DEF Move, playVars
    <2>2. Resting
      BY <1>1, <1>2, <2>1 DEF Phase, Running, Booting, StagePending
    <2>3. PlaysLoop
      BY <2>1, <2>2 DEF Resting
    <2>4. ops'[cur'] = ops[cur]
      BY <2>1, MoveFollows DEF Typed
    <2>5. PlaysLoop'
      BY <2>1, <2>3, <2>4 DEF PlaysLoop
    <2>6. Resting'
      BY <2>1, <2>2, <2>5 DEF Resting, overlayVars
    <2>7. Late' /\ Drawing'
      BY <1>1, <2>1, SameInOrder DEF overlayVars
    <2> QED
      BY <2>6, <2>7 DEF InOrder, Phase
  <1>8. ASSUME SourceLost PROVE InOrder'
    <2>1. /\ playing' = None
          /\ UNCHANGED <<ops, cur, st, first, timers, tick, boot, ipc>> /\ UNCHANGED overlayVars
      BY <1>8 DEF SourceLost, tableVars
    <2>2. UNCHANGED <<used, handle, fx, active, ticks, worker, abortReq>>
      BY <2>1 DEF overlayVars
    <2>3. PlaysLoop' /\ Part' = Part /\ (Calm' <=> Calm)
      BY <2>1, <2>2 DEF PlaysLoop, Part, Calm
    <2>4. (Timed => Timed') /\ (Swiping => Swiping') /\ \A kind : Waits(kind) => Waits(kind)'
      BY <2>1, <2>2, <2>3 DEF Timed, Swiping, Waits
    <2>5. Running => Running'
      BY <2>1, <2>3, <2>4 DEF Running
    <2>6. Booting => Booting'
      BY <2>1, <2>2, <2>3 DEF Booting
    <2>7. Chosen => Chosen'
      BY <2>1, <2>2, <2>3 DEF Chosen
    <2>8. Resting => Resting'
      BY <2>1, <2>2, <2>3 DEF Resting
    <2>9. Late' /\ Drawing'
      BY <1>1, <2>1, <2>2, SameInOrder
    <2> QED
      BY <1>1, <2>5, <2>6, <2>7, <2>8, <2>9 DEF InOrder, Phase
  <1>9. ASSUME IpcAbort PROVE InOrder'
    <2>1. /\ ipc = "no" /\ ipc' = IF used THEN "wait" ELSE "go"
          /\ tick.pc \notin {"abort", "rebuild", "stage"}
          /\ IF used THEN AbortBegin ELSE UNCHANGED overlayVars
          /\ UNCHANGED switchVars /\ UNCHANGED <<tick, boot>>
      BY <1>3, <1>9 DEF IpcAbort
    <2>2. /\ UNCHANGED <<ops, cur, st, first, playing, timers>>
          /\ UNCHANGED <<handle, active, fx, ticks, worker>>
      BY <2>1 DEF switchVars, tableVars, playVars, overlayVars, AbortBegin
    <2>3. (PlaysLoop' <=> PlaysLoop) /\ Part' = Part
      BY <2>2 DEF PlaysLoop, Part
    <2>4. CASE used
      <3>1. used' = FALSE /\ abortReq' = TRUE /\ ipc' = "wait"
        BY <2>1, <2>4 DEF AbortBegin
      <3>2. Resting
        BY <1>1, <2>4 DEF Phase, Running, Booting, Chosen, Calm
      <3>3. Resting'
        BY <2>1, <2>2, <2>3, <2>4, <3>1, <3>2 DEF Resting
      <3>4. Late'
        BY <1>1, <2>2, <3>1, <3>2 DEF Late, Ended, Resting
      <3>5. Drawing'
        BY <1>1, <2>2, SameInOrder
      <3> QED
        BY <3>3, <3>4, <3>5 DEF InOrder, Phase
    <2>5. CASE ~used
      <3>1. UNCHANGED <<used, abortReq>> /\ ipc' = "go" /\ ~used
        BY <2>1, <2>5 DEF overlayVars
      <3>2. Calm'
        BY <3>1 DEF Calm
      <3>3. (Timed => Timed') /\ (Swiping => Swiping') /\ \A kind : Waits(kind) => Waits(kind)'
        BY <2>2, <2>3, <3>1 DEF Timed, Swiping, Waits
      <3>4. Running => Running'
        BY <2>1, <2>2, <2>3, <3>2, <3>3 DEF Running
      <3>5. Booting => Booting'
        BY <2>1, <2>2, <3>2 DEF Booting
      <3>6. Chosen => Chosen'
        BY <2>1, <2>2, <2>3, <3>2 DEF Chosen
      <3>7. Resting => Resting'
        BY <2>1, <2>2, <2>3, <3>1 DEF Resting
      <3>8. Late' /\ Drawing'
        BY <1>1, <2>2, <3>1, SameInOrder
      <3> QED
        BY <1>1, <3>4, <3>5, <3>6, <3>7, <3>8 DEF InOrder, Phase
    <2> QED
      BY <2>4, <2>5
  <1>10. ASSUME IpcStart PROVE InOrder'
    <2>1. /\ ipc = "go" \/ handle = None
          /\ NoneLate /\ ipc' = "no" /\ abortReq' = FALSE
          /\ UNCHANGED switchVars /\ UNCHANGED <<tick, boot>>
          /\ UNCHANGED <<used, handle, active, fx, ticks, worker>>
      BY <1>10 DEF IpcStart, StartTimed, Aborted
    <2>2. UNCHANGED <<ops, cur, st, first, playing, timers>>
      BY <2>1 DEF switchVars, tableVars, playVars
    <2>3. (PlaysLoop' <=> PlaysLoop) /\ Part' = Part
      BY <2>2 DEF PlaysLoop, Part
    <2>4. Calm => Calm'
      BY <2>1 DEF Calm
    <2>5. (Timed => Timed') /\ (Swiping => Swiping') /\ \A kind : Waits(kind) => Waits(kind)'
      BY <2>1, <2>2, <2>3 DEF Timed, Swiping, Waits
    <2>6. Running => Running'
      BY <2>1, <2>2, <2>3, <2>4, <2>5 DEF Running
    <2>7. Booting => Booting'
      BY <2>1, <2>2, <2>4 DEF Booting
    <2>8. Chosen => Chosen'
      BY <2>1, <2>2, <2>3, <2>4 DEF Chosen
    <2>9. Resting => Resting'
      BY <2>1, <2>2, <2>3 DEF Resting
    <2>10. Late'
      BY <1>1, <2>1 DEF Late, NoneLate
    <2>11. Drawing'
      BY <1>1, <2>1, SameInOrder
    <2> QED
      BY <1>1, <2>6, <2>7, <2>8, <2>9, <2>10, <2>11 DEF InOrder, Phase
  <1> QED
    BY <1>4, <1>5, <1>6, <1>7, <1>8, <1>9, <1>10

LEMMA NextInOrder ==
  ASSUME "swipe" \notin LateTicks, Typed, UInv, [Next]_vars
  PROVE  UInv'
  <1>1. ~disturbed' => ~disturbed
    BY DEF Next, Step, Fire, Stage2, Middle, End, IntroOver, ShowOpinfo, WorkerStep, SwipeMiddle,
           SwipeEnd, EffectTick, Tick, TickStart, PopSet, PopReloadBusy, PopReload, TickAbort,
           AbortReturns, Stage, Rebuild, Reselect, Resume, Suspend, Decide, Switch, Disturb,
           BootEnter, BootLeave, Request, Move, SourceLost, IpcAbort, IpcStart, vars
  <1> SUFFICES ASSUME ~disturbed' PROVE InOrder'
    BY DEF UInv
  <1>2. InOrder
    BY <1>1 DEF UInv
  <1>3. CASE UNCHANGED vars
    <2>1. UNCHANGED <<switchVars, tick, boot, ipc>> /\ UNCHANGED overlayVars
      BY <1>3 DEF vars
    <2>2. Phase'
      BY <1>2, <2>1, SameInOrder DEF InOrder, Phase, Running, Booting, Chosen, overlayVars
    <2>3. Late' /\ Drawing'
      BY <1>2, <2>1, SameInOrder DEF InOrder, overlayVars, switchVars
    <2> QED
      BY <2>2, <2>3 DEF InOrder
  <1>4. CASE Fire
    BY <1>2, <1>4, Stage2InOrder, MiddleInOrder, EndInOrder, IntroOverInOrder, ShowOpinfoInOrder
       DEF Fire
  <1>5. CASE WorkerStep
    BY <1>2, <1>5, WorkerInOrder, SwipeInOrder DEF WorkerStep
  <1>6. CASE Step
    BY <1>2, <1>4, <1>5, <1>6, EffectInOrder, TickInOrder, InputInOrder DEF Step
  <1> QED
    BY <1>3, <1>6 DEF Next

\* As long as no switch is disturbed, nothing draws from an entry that was freed.
LEMMA OrderIsSafe == Typed /\ UInv => SwitchIsTrue
  <1> SUFFICES ASSUME Typed, UInv PROVE SwitchIsTrue
    OBVIOUS
  <1>1. ASSUME ~disturbed PROVE NoStaleEntry
    <2>1. Phase /\ Late /\ Drawing
      BY <1>1 DEF UInv, InOrder
    <2>2. worker.fx # None => fx[worker.fx].live
      BY <2>1 DEF Drawing
    <2>3. ASSUME NEW k \in DOMAIN timers PROVE ~timers[k].old
      <3>1. CASE timers[k].kind = "stage2"
        BY <2>1, <2>3, <3>1, TimerTellsPhase, OneTimer DEF Chosen, Timer
      <3>2. CASE timers[k].kind \in {"mid", "end"}
        BY <2>1, <2>3, <3>2, TimerTellsPhase, OneTimer DEF Timed
      <3>3. CASE timers[k].kind \in {"loop", "opinfo"}
        BY <2>1, <2>3, <3>3, TimerTellsPhase, OneTimer DEF Waits, Timer
      <3>4. timers[k] \in SwitchTimers
        BY <2>3, OthersTyped DEF Typed
      <3> QED
        BY <3>1, <3>2, <3>3, <3>4 DEF SwitchTimers
    <2> QED
      BY <2>2, <2>3 DEF NoStaleEntry
  <1>2. ShowsSelected
    <2> SUFFICES ASSUME Settled, ~disturbed PROVE PlaysLoop
      BY DEF ShowsSelected, PlaysLoop
    <2>1. Phase
      BY DEF UInv, InOrder
    <2>2. Resting
      BY <2>1 DEF Settled, Phase, Running, Swiping, Timed, Waits, Booting, Chosen, Timer
    <2> QED
      BY <2>2 DEF Resting, Settled
  <1> QED
    BY <1>1, <1>2, TypedIsTypeOK DEF SwitchIsTrue, NoStaleEntryInOrder

\* Switches, reloads, moves and transitions of IPC, at any speed and for any tables
\* of operators: as long as no switch is disturbed, the worker and the timers use
\* no entry that a reload freed, and what plays when a switch is over is the loop
\* video of the operator at operator_index.  The swipe must not be overtaken by its
\* end: it has nothing that stops a late request (transitions.c).
THEOREM SwitchIsTrueCorrect ==
  ASSUME "swipe" \notin LateTicks
  PROVE  Spec => []SwitchIsTrue
  <1>1. Init => Typed /\ UInv
    BY InitTyped, InitInOrder
  <1>2. Typed /\ UInv /\ [Next]_vars => (Typed /\ UInv)'
    BY NextTyped, NextInOrder
  <1> QED
    BY <1>1, <1>2, OrderIsSafe, PTL DEF Spec
=============================================================================
