---------------------------- MODULE AssetProofs ----------------------------
(***************************************************************************)
(* Proofs about the timer and about what it puts on screen.                *)
(*                                                                         *)
(* PrtsTimer, for any number of slots and uses, any widths of generation   *)
(* and tag, and callbacks as long as they like: slots are neither lost nor *)
(* shared, a finite timer keeps its budget, a cancelled timer accepts no   *)
(* further expiration; and, while the generations do not wrap, nobody but  *)
(* its owner ends a timer.                                                 *)
(*                                                                         *)
(* Arknights, for any table of starts and steps: the pass is complete.     *)
(* Transitions, for any durations and any timers that are not late by a    *)
(* step: the change is hidden. Opinfo, for any list the parser of          *)
(* Catalogue makes: a list that ended is left on screen in full.           *)
(* Catalogue, for any configs and directories: what is in the table can be *)
(* played, or is a fallback that was refused, and the element lists of all *)
(* configs that were read are owned once; and for any order file, a load   *)
(* has every directory once, in the order of the lines;                    *)
(* Pictures, for any pictures, owners and sizes of the palette: what is    *)
(* shown comes from the files as they are, in colours of the palette.      *)
(***************************************************************************)
EXTENDS PrtsTimer, Catalogue, Opinfo, Arknights, Transitions, Pictures,
        FiniteSetTheorems, SequenceTheorems, WellFoundedInduction, TLAPS

\* Create returned a handle for u.
Known(u) == handle[u] \in Handles

SlotsTyped ==
  /\ inited \in BOOLEAN
  /\ gen \in [Ids -> 0 .. GenMod - 1]
  /\ active \in [Ids -> BOOLEAN]
  /\ use \in [Ids -> Uses \cup {None}]
  /\ remaining \in [Ids -> Int]
  /\ freeIds \in Seq(Ids)
  /\ handle \in [Uses -> Handles \cup {None, Failed}]
  /\ armed \subseteq Uses
  /\ expired \in [Uses -> Nat]
  /\ fires \in [Uses -> Nat]
  /\ captured \subseteq [tag : Uses, use : Uses, k : Nat, last : BOOLEAN]
  /\ running \subseteq [tag : Uses, use : Uses, k : Nat, last : BOOLEAN]
  /\ cancelled \subseteq Uses

\* Only a timer that was created is armed, expires, fires, calls back and can be
\* cancelled.
KnownOnly ==
  /\ \A u \in Uses : u \in armed \/ expired[u] > 0 \/ fires[u] > 0 \/ u \in cancelled
                     => Known(u)
  /\ \A c \in captured \cup running : Known(c.use)

\* An active slot, which there is only until destroy, belongs to the timer whose
\* handle names it, and nobody cancelled that.
Owned ==
  \A id \in Ids :
    active[id] => /\ inited
                  /\ use[id] \in Uses
                  /\ Known(use[id])
                  /\ use[id] \notin cancelled
                  /\ handle[use[id]].id = id
                  /\ handle[use[id]].gen = gen[id]

\* What remains of the budget of a finite timer is what has not fired.
Owes ==
  \A id \in Ids :
    active[id] =>
      \/ handle[use[id]].count = -1 /\ remaining[id] = -1
      \/ /\ remaining[id] > 0
         /\ remaining[id] + fires[use[id]] = handle[use[id]].count

IInv == SlotsTyped /\ SlotPartition /\ KnownOnly /\ Owned /\ Owes /\ FireBudget

----------------------------------------------------------------------------
\* The free stack.

\* A stack without duplicates that misses a slot has room for it.
LEMMA RoomForOneMore ==
  ASSUME NEW s \in Seq(Ids), NEW id \in Ids,
         \A i \in DOMAIN s : s[i] # id,
         \A i, j \in DOMAIN s : s[i] = s[j] => i = j
  PROVE  Len(s) < TimerMax
  <1> DEFINE n == Len(s)
  <1>0. n \in Nat /\ s \in [1 .. n -> Ids \ {id}]
    OBVIOUS
  <1>1. IsFiniteSet(Ids) /\ Cardinality(Ids) = TimerMax
    BY FS_Interval, TimerMaxAssumption DEF Ids
  <1>2. IsFiniteSet(Ids \ {id}) /\ Cardinality(Ids \ {id}) = TimerMax - 1
    BY <1>1, FS_RemoveElement
  <1> HIDE DEF n
  <1>3. IsFiniteSet(1 .. n) /\ Cardinality(1 .. n) = n
    BY <1>0, FS_Interval
  <1>4. ASSUME TimerMax - 1 < n
        PROVE  FALSE
    <2>1. Cardinality(Ids \ {id}) < Cardinality(1 .. n)
      BY <1>2, <1>3, <1>4
    <2>2. \A f \in [1 .. n -> Ids \ {id}] :
             \E x, y \in 1 .. n : x # y /\ f[x] = f[y]
      BY <1>2, <1>3, <2>1, FS_PigeonHole
    <2> QED
      BY <2>2, <1>0 DEF n
  <1>5. n < TimerMax
    BY <1>0, <1>4, TimerMaxAssumption
  <1> QED
    BY <1>5 DEF n

LEMMA PopStack ==
  ASSUME NEW s \in Seq(Ids), s # <<>>
  PROVE  /\ Last(s) \in Ids /\ Front(s) \in Seq(Ids)
         /\ Len(s) \in Nat \ {0} /\ DOMAIN s = 1 .. Len(s)
         /\ DOMAIN Front(s) = 1 .. Len(s) - 1
         /\ \A i \in 1 .. Len(s) - 1 : Front(s)[i] = s[i]
         /\ Last(s) = s[Len(s)]
  BY DEF Last, Front

LEMMA BumpType ==
  ASSUME NEW g \in 0 .. GenMod - 1
  PROVE  Bump(g) \in 0 .. GenMod - 1 /\ NextGen(g) \in 0 .. GenMod - 1
  <1>1. \A h \in Nat : Bump(h) \in 0 .. GenMod - 1
    BY WidthAssumption DEF Bump
  <1> QED
    BY <1>1, WidthAssumption DEF NextGen

\* Retiring an active slot gives it back once, and touches no other slot.
LEMMA RetireEffect ==
  ASSUME SlotsTyped, SlotPartition, inited, NEW id \in Ids, active[id], Retire(id)
  PROVE  /\ gen' \in [Ids -> 0 .. GenMod - 1]
         /\ active' = [active EXCEPT ![id] = FALSE]
         /\ active' \in [Ids -> BOOLEAN]
         /\ \A k \in Ids : k # id => gen'[k] = gen[k]
         /\ freeIds' \in Seq(Ids)
         /\ armed' \subseteq armed
         /\ \A k \in Ids : active'[k] <=> k \notin FreeSet'
         /\ \A i, j \in DOMAIN freeIds' : freeIds'[i] = freeIds'[j] => i = j
  <1> USE DEF SlotsTyped
  <1>1. gen' \in [Ids -> 0 .. GenMod - 1] /\ \A k \in Ids : k # id => gen'[k] = gen[k]
    BY BumpType DEF Retire
  <1>2. /\ \A i \in DOMAIN freeIds : freeIds[i] # id
        /\ \A i, j \in DOMAIN freeIds : freeIds[i] = freeIds[j] => i = j
    BY DEF SlotPartition, FreeSet
  <1>3. Len(freeIds) < TimerMax
    BY <1>2, RoomForOneMore
  <1>4. freeIds' = Append(freeIds, id)
    BY <1>3 DEF Retire
  <1>5. /\ freeIds' \in Seq(Ids)
        /\ Len(freeIds) \in Nat
        /\ DOMAIN freeIds = 1 .. Len(freeIds)
        /\ DOMAIN freeIds' = 1 .. Len(freeIds) + 1
        /\ \A i \in 1 .. Len(freeIds) : freeIds'[i] = freeIds[i]
        /\ freeIds'[Len(freeIds) + 1] = id
    BY <1>4
  <1>6. \A i, j \in DOMAIN freeIds' : freeIds'[i] = freeIds'[j] => i = j
    <2> SUFFICES ASSUME NEW i \in DOMAIN freeIds', NEW j \in DOMAIN freeIds',
                        freeIds'[i] = freeIds'[j]
                 PROVE  i = j
      OBVIOUS
    <2>1. i \in 1 .. Len(freeIds) \/ i = Len(freeIds) + 1
      BY <1>5
    <2>2. j \in 1 .. Len(freeIds) \/ j = Len(freeIds) + 1
      BY <1>5
    <2> QED
      BY <1>2, <1>5, <2>1, <2>2
  <1>7. FreeSet' = FreeSet \cup {id}
    <2>1. ASSUME NEW i \in DOMAIN freeIds'
          PROVE  freeIds'[i] \in FreeSet \cup {id}
      <3>1. i \in DOMAIN freeIds \/ i = Len(freeIds) + 1
        BY <1>5
      <3> QED
        BY <1>5, <3>1 DEF FreeSet
    <2>2. \A x \in FreeSet : x \in FreeSet'
      BY <1>5 DEF FreeSet
    <2>3. id \in FreeSet'
      BY <1>5 DEF FreeSet
    <2>4. FreeSet' \subseteq FreeSet \cup {id}
      BY <2>1 DEF FreeSet
    <2> QED
      BY <2>2, <2>3, <2>4
  <1>8. \A k \in Ids : active[k] <=> k \notin FreeSet
    BY DEF SlotPartition
  <1>9. active' = [active EXCEPT ![id] = FALSE] /\ armed' \subseteq armed
    BY DEF Retire
  <1>10. \A k \in Ids : active'[k] <=> k \notin FreeSet'
    BY <1>7, <1>8, <1>9
  <1>11. active' \in [Ids -> BOOLEAN]
    BY <1>9
  <1> QED
    BY <1>1, <1>5, <1>6, <1>9, <1>10, <1>11

----------------------------------------------------------------------------
\* The steps.  Retire occurs in Cancel and OnFire.

LEMMA InitIInv == Init => IInv
  <1> SUFFICES ASSUME Init
               PROVE  IInv
    OBVIOUS
  <1>0. \A u \in Uses : ~Known(u)
    BY NoneAssumption DEF Init, Known
  <1>1. inited \in BOOLEAN /\ freeIds \in Seq(Ids)
    BY TimerMaxAssumption DEF Init, Ids
  <1>2. SlotsTyped
    BY <1>1, WidthAssumption DEF Init, SlotsTyped
  <1>3. DOMAIN freeIds = Ids /\ \A i \in Ids : freeIds[i] = i
    BY DEF Init
  <1>4. SlotPartition
    BY <1>3 DEF Init, SlotPartition, FreeSet
  <1>5. KnownOnly /\ Owned /\ Owes /\ FireBudget
    BY <1>0 DEF Init, KnownOnly, Owned, Owes, FireBudget
  <1> QED
    BY <1>2, <1>4, <1>5 DEF IInv

LEMMA CreateStep ==
  ASSUME IInv, NEW u \in Uses, NEW n \in FireCounts, Create(u, n)
  PROVE  IInv'
  <1> USE DEF IInv
  <1> DEFINE id == Last(freeIds)
             g == NextGen(gen[id])
             h == [id |-> id, gen |-> g, count |-> n]
  <1>0. id \in Ids /\ g \in 0 .. GenMod - 1
    BY PopStack, BumpType DEF Create, SlotsTyped
  <1>1. h \in Handles
    BY <1>0 DEF Handles
  <1>2. ~Known(u)
    BY NoneAssumption DEF Create, Known
  <1>3. /\ handle' = [handle EXCEPT ![u] = h]
        /\ handle \in [Uses -> Handles \cup {None, Failed}]
        /\ gen' = [gen EXCEPT ![id] = g]
        /\ use' = [use EXCEPT ![id] = u]
        /\ remaining' = [remaining EXCEPT ![id] = n]
        /\ active' = [active EXCEPT ![id] = TRUE]
        /\ armed' = armed \cup {u}
        /\ UNCHANGED <<inited, expired, fires, captured, running, cancelled>>
        /\ inited
    BY DEF Create, SlotsTyped
  <1> HIDE DEF h, g
  <1>4. \A v \in Uses : v # u => handle'[v] = handle[v]
    BY <1>3
  <1>5. handle'[u] = h
    BY <1>3
  <1>6. n \in Int /\ (n = -1 \/ n > 0)
    BY FireCountsAssumption
  <1>7. /\ freeIds' = Front(freeIds) /\ freeIds # <<>> /\ freeIds \in Seq(Ids)
    BY DEF Create, SlotsTyped
  <1>8. SlotsTyped'
    <2>1. inited' \in BOOLEAN
      BY <1>3 DEF SlotsTyped
    <2>2. active' \in [Ids -> BOOLEAN]
      BY <1>3 DEF SlotsTyped
    <2>3. freeIds' \in Seq(Ids)
      BY <1>7, PopStack
    <2>4. handle' \in [Uses -> Handles \cup {None, Failed}]
      BY <1>1, <1>3
    <2> QED
      BY <1>0, <1>3, <1>6, <2>1, <2>2, <2>3, <2>4 DEF SlotsTyped
  <1>9. SlotPartition'
    <2>1. /\ \A k \in Ids : active[k] <=> k \notin FreeSet
          /\ \A i, j \in DOMAIN freeIds : freeIds[i] = freeIds[j] => i = j
      BY <1>3 DEF SlotPartition
    <2>2. /\ Len(freeIds) \in Nat \ {0} /\ DOMAIN freeIds = 1 .. Len(freeIds)
          /\ DOMAIN freeIds' = 1 .. Len(freeIds) - 1
          /\ \A i \in 1 .. Len(freeIds) - 1 : freeIds'[i] = freeIds[i]
          /\ id = freeIds[Len(freeIds)]
      BY <1>7, PopStack
    <2> HIDE DEF id
    <2>3. \A i, j \in DOMAIN freeIds' : freeIds'[i] = freeIds'[j] => i = j
      BY <2>1, <2>2
    <2>4. id \notin FreeSet'
      BY <2>1, <2>2 DEF FreeSet
    <2>5. FreeSet \subseteq FreeSet' \cup {id}
      <3>1. ASSUME NEW i \in DOMAIN freeIds
            PROVE  freeIds[i] \in FreeSet' \cup {id}
        <4>1. i \in DOMAIN freeIds' \/ i = Len(freeIds)
          BY <2>2
        <4> QED
          BY <2>2, <4>1 DEF FreeSet
      <3> QED
        BY <3>1 DEF FreeSet
    <2>6. FreeSet' \subseteq FreeSet
      BY <2>2 DEF FreeSet
    <2>7. \A k \in Ids : active'[k] <=> active[k] \/ k = id
      BY <1>0, <1>3 DEF SlotsTyped
    <2>8. \A k \in Ids : active'[k] <=> k \notin FreeSet'
      BY <2>1, <2>4, <2>5, <2>6, <2>7
    <2> QED
      BY <2>3, <2>8 DEF SlotPartition
  <1>10. u \notin cancelled /\ fires[u] = 0
    BY <1>2 DEF KnownOnly, SlotsTyped
  <1>11. ~active[id]
    <2>1. id \in FreeSet
      BY <1>7, PopStack DEF FreeSet
    <2> QED
      BY <1>0, <1>3, <2>1 DEF SlotPartition
  <1>12. KnownOnly'
    <2>1. \A v \in Uses : Known(v) => Known(v)'
      BY <1>2, <1>4 DEF Known
    <2>2. Known(u)'
      BY <1>1, <1>5 DEF Known
    <2>3. \A c \in captured \cup running : c.use \in Uses
      BY DEF SlotsTyped
    <2> QED
      BY <1>3, <2>1, <2>2, <2>3 DEF KnownOnly
  <1>13. Owned' /\ Owes'
    <2> SUFFICES ASSUME NEW k \in Ids, active'[k]
                 PROVE  /\ inited'
                        /\ use'[k] \in Uses /\ Known(use[k])' /\ use'[k] \notin cancelled'
                        /\ handle'[use'[k]].id = k /\ handle'[use'[k]].gen = gen'[k]
                        /\ \/ handle'[use'[k]].count = -1 /\ remaining'[k] = -1
                           \/ /\ remaining'[k] > 0
                              /\ remaining'[k] + fires'[use'[k]] = handle'[use'[k]].count
      BY DEF Owned, Owes
    <2>1. CASE k = id
      <3>1. use'[k] = u /\ gen'[k] = g /\ remaining'[k] = n /\ fires'[u] = 0
        BY <1>0, <1>3, <1>10, <2>1 DEF SlotsTyped
      <3>2. h.id = id /\ h.gen = g /\ h.count = n
        BY DEF h
      <3> QED
        BY <1>1, <1>3, <1>5, <1>6, <1>10, <2>1, <3>1, <3>2 DEF Known
    <2>2. CASE k # id
      <3>1. /\ active[k] /\ use'[k] = use[k] /\ gen'[k] = gen[k]
            /\ remaining'[k] = remaining[k]
        BY <1>0, <1>3, <2>2 DEF SlotsTyped
      <3>2. use[k] \in Uses /\ use[k] # u
        BY <1>2, <3>1 DEF Owned
      <3>3. handle'[use[k]] = handle[use[k]]
        BY <1>4, <3>2
      <3> QED
        BY <1>3, <3>1, <3>2, <3>3 DEF Owned, Owes, Known
    <2> QED
      BY <2>1, <2>2
  <1>14. FireBudget'
    <2>1. \A c \in captured \cup running : c.use \in Uses /\ handle'[c.use] = handle[c.use]
      BY <1>2, <1>4 DEF KnownOnly, SlotsTyped
    <2> QED
      BY <1>3, <2>1 DEF FireBudget
  <1> QED
    BY <1>8, <1>9, <1>12, <1>13, <1>14

LEMMA CreateFailsStep ==
  ASSUME IInv, NEW u \in Uses, NEW n \in FireCounts, CreateFails(u, n)
  PROVE  IInv'
  <1> USE DEF IInv
  <1> DEFINE id == Last(freeIds)
  <1>0. id \in Ids /\ NextGen(gen[id]) \in 0 .. GenMod - 1
    BY PopStack, BumpType DEF CreateFails, SlotsTyped
  <1>1. Bump(NextGen(gen[id])) \in 0 .. GenMod - 1
    BY <1>0, BumpType
  <1>2. ~Known(u) /\ Failed \notin Handles
    BY NoneAssumption DEF CreateFails, Known
  <1>3. /\ handle' = [handle EXCEPT ![u] = Failed]
        /\ handle \in [Uses -> Handles \cup {None, Failed}]
        /\ gen' = [gen EXCEPT ![id] = Bump(NextGen(gen[id]))]
        /\ use' = [use EXCEPT ![id] = u]
        /\ remaining' = [remaining EXCEPT ![id] = n]
        /\ UNCHANGED <<inited, active, freeIds, armed, expired, fires, captured,
                       running, cancelled>>
        /\ inited
    BY DEF CreateFails, SlotsTyped
  <1>4. n \in Int
    BY FireCountsAssumption
  <1>5. ~active[id]
    <2>1. id \in FreeSet
      <3>1. freeIds \in Seq(Ids) /\ freeIds # <<>>
        BY DEF CreateFails, SlotsTyped
      <3> QED
        BY <3>1, PopStack DEF FreeSet
    <2> QED
      BY <1>0, <1>3, <2>1 DEF SlotPartition
  <1> HIDE DEF id
  <1>6. SlotsTyped'
    BY <1>0, <1>1, <1>3, <1>4 DEF SlotsTyped
  <1>7. SlotPartition'
    BY <1>3 DEF SlotPartition, FreeSet
  <1>8. \A v \in Uses : Known(v) => v # u /\ handle'[v] = handle[v]
    BY <1>2, <1>3
  <1>9. KnownOnly'
    <2>1. \A v \in Uses : Known(v) => Known(v)'
      BY <1>8 DEF Known
    <2>2. \A c \in captured \cup running : c.use \in Uses
      BY DEF SlotsTyped
    <2> QED
      BY <1>3, <2>1, <2>2 DEF KnownOnly
  <1>10. ASSUME NEW k \in Ids, active[k]
         PROVE  /\ k # id /\ use'[k] = use[k] /\ gen'[k] = gen[k]
                /\ remaining'[k] = remaining[k]
                /\ use[k] \in Uses /\ handle'[use[k]] = handle[use[k]]
    BY <1>0, <1>3, <1>5, <1>8, <1>10 DEF SlotsTyped, Owned
  <1>11. Owned'
    BY <1>3, <1>10 DEF Owned, Known
  <1>12. Owes'
    BY <1>3, <1>10 DEF Owes
  <1>13. FireBudget'
    BY <1>3, <1>8 DEF FireBudget, KnownOnly, SlotsTyped
  <1> QED
    BY <1>6, <1>7, <1>9, <1>11, <1>12, <1>13

LEMMA CancelStep ==
  ASSUME IInv, NEW u \in Uses, Cancel(u)
  PROVE  IInv'
  <1> USE DEF IInv
  <1> DEFINE id == handle[u].id
  <1>0. Known(u) /\ id \in Ids
    BY DEF Cancel, Created, Known, SlotsTyped, Handles
  <1>1. /\ cancelled' = cancelled \cup {u}
        /\ UNCHANGED <<inited, use, remaining, handle, expired, fires, captured, running>>
    BY DEF Cancel
  <1>2. FireBudget' /\ (armed' \subseteq armed => KnownOnly')
    BY <1>0, <1>1 DEF KnownOnly, FireBudget, Known, SlotsTyped
  <1>3. CASE Matches(u)
    <2>0. inited /\ active[id] /\ Retire(id)
      BY <1>3 DEF Cancel, Matches
    <2>1. /\ gen' \in [Ids -> 0 .. GenMod - 1]
          /\ active' = [active EXCEPT ![id] = FALSE]
          /\ active' \in [Ids -> BOOLEAN]
          /\ \A k \in Ids : k # id => gen'[k] = gen[k]
          /\ freeIds' \in Seq(Ids)
          /\ armed' \subseteq armed
          /\ \A k \in Ids : active'[k] <=> k \notin FreeSet'
          /\ \A i, j \in DOMAIN freeIds' : freeIds'[i] = freeIds'[j] => i = j
      BY <1>0, <2>0, RetireEffect
    <2>2. SlotsTyped'
      BY <1>1, <2>1 DEF SlotsTyped
    <2>3. SlotPartition'
      BY <2>1 DEF SlotPartition
    <2>4. KnownOnly'
      BY <1>2, <2>1 DEF KnownOnly, SlotsTyped
    <2>5. \A k \in Ids : active'[k] => k # id /\ active[k]
      BY <1>0, <2>1 DEF SlotsTyped
    <2>6. \A k \in Ids : active'[k] => use[k] # u
      BY <2>5 DEF Owned
    <2>7. Owned'
      BY <1>1, <2>1, <2>5, <2>6 DEF Owned, Known
    <2>8. Owes'
      BY <1>1, <2>5 DEF Owes
    <2> QED
      BY <1>2, <2>2, <2>3, <2>4, <2>7, <2>8
  <1>4. CASE ~Matches(u)
    <2>1. UNCHANGED <<active, gen, freeIds, armed>>
      BY <1>4 DEF Cancel
    <2>2. \A k \in Ids : active[k] => use[k] # u
      BY <1>4 DEF Matches, Owned
    <2>3. SlotsTyped'
      BY <1>1, <2>1 DEF SlotsTyped
    <2>4. SlotPartition' /\ Owes'
      BY <1>1, <2>1 DEF SlotPartition, FreeSet, Owes
    <2>5. KnownOnly'
      BY <1>2, <2>1 DEF KnownOnly
    <2>6. Owned'
      BY <1>1, <2>1, <2>2 DEF Owned, Known
    <2> QED
      BY <1>2, <2>3, <2>4, <2>5, <2>6
  <1> QED
    BY <1>3, <1>4

LEMMA OnFireStep ==
  ASSUME IInv, NEW u \in Uses, OnFire(u)
  PROVE  IInv'
  <1> USE DEF IInv
  <1> DEFINE id == handle[u].id
             w == use[id]
             c == [tag |-> u, use |-> w, k |-> fires[w] + 1, last |-> IsLast(id)]
  <1>0. Known(u) /\ id \in Ids /\ inited /\ active[id]
    BY DEF OnFire, Accepts, KnownOnly, Known, SlotsTyped, Handles
  <1>1. /\ w \in Uses /\ Known(w) /\ handle[w].id = id /\ w \notin cancelled
        /\ fires[w] \in Nat /\ remaining[id] \in Int
    BY <1>0 DEF Owned, SlotsTyped
  <1>2. /\ fires' = [fires EXCEPT ![w] = @ + 1]
        /\ captured' = captured \cup {c}
        /\ remaining' = [remaining EXCEPT ![id] = IF @ > 0 THEN @ - 1 ELSE @]
        /\ expired' = [expired EXCEPT ![u] = @ - 1]
        /\ expired[u] > 0
        /\ UNCHANGED <<inited, use, handle, running, cancelled>>
        /\ IF IsLast(id) THEN Retire(id) ELSE UNCHANGED <<active, gen, freeIds, armed>>
    BY DEF OnFire
  <1>3. c \in [tag : Uses, use : Uses, k : Nat, last : BOOLEAN]
    <2>1. IsLast(id) \in BOOLEAN
      BY DEF IsLast
    <2>2. fires[w] + 1 \in Nat
      BY <1>1
    <2> QED
      BY <1>1, <2>1, <2>2
  <1>4. /\ c.use = w /\ c.k = fires[w] + 1 /\ c.tag = u
        /\ c.last <=> remaining[id] = 1
    BY DEF IsLast
  <1> HIDE DEF c, w, id
  <1>5. /\ gen' \in [Ids -> 0 .. GenMod - 1]
        /\ active' \in [Ids -> BOOLEAN]
        /\ freeIds' \in Seq(Ids)
        /\ armed' \subseteq armed
        /\ \A k \in Ids : k # id => active'[k] = active[k] /\ gen'[k] = gen[k]
        /\ IsLast(id) => ~active'[id]
        /\ ~IsLast(id) => gen'[id] = gen[id]
        /\ SlotPartition'
    <2>1. CASE IsLast(id)
      <3>1. /\ gen' \in [Ids -> 0 .. GenMod - 1]
            /\ active' = [active EXCEPT ![id] = FALSE]
            /\ active' \in [Ids -> BOOLEAN]
            /\ \A k \in Ids : k # id => gen'[k] = gen[k]
            /\ freeIds' \in Seq(Ids)
            /\ armed' \subseteq armed
            /\ \A k \in Ids : active'[k] <=> k \notin FreeSet'
            /\ \A i, j \in DOMAIN freeIds' : freeIds'[i] = freeIds'[j] => i = j
        BY <1>0, <1>2, <2>1, RetireEffect
      <3>2. SlotPartition'
        BY <3>1 DEF SlotPartition
      <3>3. /\ \A k \in Ids : k # id => active'[k] = active[k]
            /\ ~active'[id]
        BY <1>0, <3>1 DEF SlotsTyped
      <3> QED
        BY <2>1, <3>1, <3>2, <3>3
    <2>2. CASE ~IsLast(id)
      <3>1. UNCHANGED <<active, gen, freeIds, armed>>
        BY <1>2, <2>2
      <3>2. SlotPartition'
        BY <1>2, <3>1 DEF SlotPartition, FreeSet
      <3> QED
        BY <2>2, <3>1, <3>2 DEF SlotsTyped
    <2> QED
      BY <2>1, <2>2
  <1>6. SlotsTyped'
    <2>1. remaining' \in [Ids -> Int]
      BY <1>0, <1>1, <1>2 DEF SlotsTyped
    <2>2. expired' \in [Uses -> Nat] /\ fires' \in [Uses -> Nat]
      BY <1>1, <1>2 DEF SlotsTyped
    <2> QED
      BY <1>2, <1>3, <1>5, <2>1, <2>2 DEF SlotsTyped
  <1>7. KnownOnly'
    <2>1. \A v \in Uses : expired'[v] > 0 => v = u \/ expired[v] > 0
      BY <1>2 DEF SlotsTyped
    <2>2. \A v \in Uses : fires'[v] > 0 => v = w \/ fires[v] > 0
      BY <1>2 DEF SlotsTyped
    <2>3. \A v \in Uses : Known(v)' <=> Known(v)
      BY <1>2 DEF Known
    <2>4. \A v \in Uses : v \in armed' \/ expired'[v] > 0 \/ fires'[v] > 0 \/ v \in cancelled'
                          => Known(v)'
      BY <1>0, <1>1, <1>2, <1>5, <2>1, <2>2, <2>3 DEF KnownOnly
    <2>5. \A d \in captured' \cup running' : d = c \/ d \in captured \cup running
      BY <1>2
    <2>6. \A d \in captured \cup running : handle'[d.use] \in Handles
      BY <1>2 DEF KnownOnly, Known
    <2>7. handle'[c.use] \in Handles
      BY <1>1, <1>2, <1>4 DEF Known
    <2>8. \A d \in captured' \cup running' : Known(d.use)'
      BY <2>5, <2>6, <2>7 DEF Known
    <2> QED
      BY <2>4, <2>8 DEF KnownOnly
  <1>8. ASSUME NEW k \in Ids, active'[k], k # id
        PROVE  /\ active[k] /\ gen'[k] = gen[k] /\ use[k] \in Uses /\ use[k] # w
               /\ remaining'[k] = remaining[k] /\ fires'[use[k]] = fires[use[k]]
    <2>1. active[k] /\ gen'[k] = gen[k]
      BY <1>5, <1>8
    <2>2. use[k] \in Uses /\ handle[use[k]].id = k
      BY <2>1 DEF Owned
    <2>3. use[k] # w
      BY <1>1, <1>8, <2>2
    <2> QED
      BY <1>0, <1>2, <1>8, <2>1, <2>2, <2>3 DEF SlotsTyped
  <1>9. active'[id] => gen'[id] = gen[id]
    BY <1>5
  <1>10. Owned'
    <2> SUFFICES ASSUME NEW k \in Ids, active'[k]
                 PROVE  active[k] /\ gen'[k] = gen[k]
      BY <1>2 DEF Owned, Known
    <2> QED
      BY <1>0, <1>8, <1>9
  <1>11. Owes'
    <2> SUFFICES ASSUME NEW k \in Ids, active'[k]
                 PROVE  \/ handle[use[k]].count = -1 /\ remaining'[k] = -1
                        \/ /\ remaining'[k] > 0
                           /\ remaining'[k] + fires'[use[k]] = handle[use[k]].count
      BY <1>2 DEF Owes
    <2>1. CASE k # id
      BY <1>8, <2>1 DEF Owes
    <2>2. CASE k = id
      <3>1. remaining[id] # 1
        BY <1>5, <2>2 DEF IsLast
      <3>2. use[id] = w /\ fires'[w] = fires[w] + 1
        BY <1>1, <1>2 DEF w, SlotsTyped
      <3>3. remaining'[id] = IF remaining[id] > 0 THEN remaining[id] - 1 ELSE remaining[id]
        BY <1>0, <1>2 DEF SlotsTyped
      <3>4. \/ handle[w].count = -1 /\ remaining[id] = -1
            \/ remaining[id] > 0 /\ remaining[id] + fires[w] = handle[w].count
        BY <1>0, <3>2 DEF Owes
      <3> QED
        BY <1>1, <2>2, <3>1, <3>2, <3>3, <3>4
    <2> QED
      BY <2>1, <2>2
  <1>12. FireBudget'
    <2>1. \/ handle[w].count = -1 /\ remaining[id] = -1
          \/ remaining[id] > 0 /\ remaining[id] + fires[w] = handle[w].count
      BY <1>0 DEF Owes, w
    <2>2. /\ remaining[id] = 1 <=> fires[w] + 1 = handle[w].count
          /\ handle[w].count # -1 => fires[w] + 1 <= handle[w].count
      BY <1>1, <2>1
    <2>3. /\ c.last <=> c.k = handle[c.use].count
          /\ handle[c.use].count # -1 => c.k <= handle[c.use].count
      BY <1>4, <2>2
    <2> QED
      BY <1>2, <2>3 DEF FireBudget
  <1> QED
    BY <1>5, <1>6, <1>7, <1>10, <1>11, <1>12

\* The steps that leave the table alone: an expiration, one that is dropped, and
\* the two halves of a callback.
LEMMA OtherSteps ==
  ASSUME IInv,
         \/ \E u \in Uses : Expire(u) \/ Drop(u)
         \/ \E c \in captured : CallCallback(c)
         \/ \E c \in running : CallbackReturns(c)
         \/ UNCHANGED vars
  PROVE  IInv'
  <1> USE DEF IInv
  <1>1. UNCHANGED <<inited, slotVars, handle, fires, cancelled>>
    BY DEF Expire, Drop, CallCallback, CallbackReturns, vars
  <1>2. /\ armed' \subseteq armed
        /\ expired' \in [Uses -> Nat]
        /\ \A v \in Uses : expired'[v] > 0 => expired[v] > 0 \/ v \in armed
        /\ captured' \cup running' \subseteq captured \cup running
    <2>1. ASSUME NEW u \in Uses, Expire(u)
          PROVE  /\ armed' \subseteq armed
                 /\ expired' \in [Uses -> Nat]
                 /\ \A v \in Uses : expired'[v] > 0 => expired[v] > 0 \/ v \in armed
                 /\ UNCHANGED <<captured, running>>
      BY <2>1 DEF Expire, SlotsTyped
    <2>2. ASSUME NEW u \in Uses, Drop(u)
          PROVE  /\ expired' \in [Uses -> Nat]
                 /\ \A v \in Uses : expired'[v] > 0 => expired[v] > 0
                 /\ UNCHANGED <<armed, captured, running>>
      BY <2>2 DEF Drop, SlotsTyped
    <2>3. ASSUME \/ \E c \in captured : CallCallback(c)
                 \/ \E c \in running : CallbackReturns(c)
                 \/ UNCHANGED vars
          PROVE  /\ captured' \cup running' \subseteq captured \cup running
                 /\ UNCHANGED <<armed, expired>>
      BY <2>3 DEF CallCallback, CallbackReturns, vars
    <2> QED
      BY <2>1, <2>2, <2>3 DEF SlotsTyped
  <1>3. SlotsTyped'
    BY <1>1, <1>2 DEF SlotsTyped, slotVars
  <1>4. SlotPartition'
    BY <1>1 DEF SlotPartition, FreeSet, slotVars
  <1>5. KnownOnly'
    BY <1>1, <1>2 DEF KnownOnly, Known, SlotsTyped
  <1>6. Owned' /\ Owes'
    BY <1>1 DEF Owned, Owes, Known, slotVars
  <1>7. FireBudget'
    BY <1>1, <1>2 DEF FireBudget
  <1> QED
    BY <1>3, <1>4, <1>5, <1>6, <1>7

LEMMA DestroyStep ==
  ASSUME IInv, Destroy
  PROVE  IInv'
  <1> USE DEF IInv, Destroy
  <1>1. SlotsTyped'
    <2>1. inited' \in BOOLEAN /\ active' \in [Ids -> BOOLEAN]
      OBVIOUS
    <2>2. gen' \in [Ids -> 0 .. GenMod - 1]
      BY BumpType DEF SlotsTyped
    <2> QED
      BY <2>1, <2>2 DEF SlotsTyped
  <1>2. SlotPartition'
    BY DEF SlotPartition
  <1>3. KnownOnly'
    BY DEF KnownOnly, Known
  <1>4. Owned' /\ Owes'
    BY DEF Owned, Owes
  <1>5. FireBudget'
    BY DEF FireBudget
  <1> QED
    BY <1>1, <1>2, <1>3, <1>4, <1>5

LEMMA NextIInv == IInv /\ [Next]_vars => IInv'
  BY CreateStep, CreateFailsStep, CancelStep, OnFireStep, OtherSteps, DestroyStep
  DEF Next

\* The inductive invariant.
THEOREM Inductive == Spec => []IInv
  BY InitIInv, NextIInv, PTL DEF Spec

----------------------------------------------------------------------------
\* No slot is lost and none is given to two timers (prts_timer_create,
\* prts_timer_cancel_locked and the auto-free of prts_timer_on_fire).
THEOREM SlotPartitionCorrect == Spec => []SlotPartition
  <1>1. IInv => SlotPartition
    BY DEF IInv
  <1> QED
    BY <1>1, Inductive, PTL

\* A finite timer calls back at most fire_count times and flags exactly the last
\* of them (prts_timer_on_fire), whatever late threads do.
THEOREM FireBudgetCorrect == Spec => []FireBudget
  <1>1. IInv => FireBudget
    BY DEF IInv
  <1> QED
    BY <1>1, Inductive, PTL

\* No expiration of a timer is accepted after its cancel returned: an accepted
\* one runs the use of an active slot, and that is never a cancelled one.
THEOREM QuietAfterCancelCorrect == Spec => QuietAfterCancel
  <1>1. IInv /\ [Next]_vars => [\A u \in cancelled : fires'[u] = fires[u]]_vars
    <2> SUFFICES ASSUME IInv, Next, NEW v \in cancelled
                 PROVE  fires'[v] = fires[v]
      OBVIOUS
    <2>1. CASE \E u \in Uses : OnFire(u)
      <3>1. PICK u \in Uses : OnFire(u)
        BY <2>1
      <3> DEFINE id == handle[u].id
      <3>2. id \in Ids /\ active[id]
        BY <3>1 DEF IInv, OnFire, Accepts, KnownOnly, Known, SlotsTyped, Handles
      <3>3. use[id] # v
        BY <3>2 DEF IInv, Owned
      <3>4. fires' = [fires EXCEPT ![use[id]] = @ + 1]
        BY <3>1 DEF OnFire
      <3> QED
        BY <3>3, <3>4 DEF IInv, SlotsTyped
    <2>2. CASE ~ \E u \in Uses : OnFire(u)
      BY <2>2 DEF Next, Create, CreateFails, Expire, Drop, CallCallback,
                  CallbackReturns, Cancel, Destroy
    <2> QED
      BY <2>1, <2>2
  <1> QED
    BY <1>1, Inductive, PTL DEF Spec, QuietAfterCancel

----------------------------------------------------------------------------
\* While the generations do not wrap, which takes GenMod / 3 timers in the life of
\* the process, an old handle matches no later use of its slot.

NoWrap == IsFiniteSet(Uses) /\ 3 * Cardinality(Uses) + 1 < GenMod

Asked == {u \in Uses : handle[u] # None}

\* A use of a slot raises its generation by at most three, one of them when it ends.
GenBound ==
  \A id \in Ids :
    /\ gen[id] <= 1 + 3 * Cardinality(Asked)
    /\ active[id] => gen[id] + 1 <= 1 + 3 * Cardinality(Asked)

\* Handles that are no longer in force have a generation of the past.
GenOrder ==
  \A u \in Uses :
    Known(u) => LET id == handle[u].id
                IN  \/ handle[u].gen < gen[id]
                    \/ active[id] /\ use[id] = u

JInv == IInv /\ GenBound /\ GenOrder /\ StaysArmed

LEMMA BumpNoWrapping ==
  ASSUME NEW g \in Nat, g + 1 < GenMod
  PROVE  Bump(g) = g + 1
  BY WidthAssumption DEF Bump

LEMMA NextGenNoWrapping ==
  ASSUME NEW g \in Nat, g + 2 < GenMod
  PROVE  NextGen(g) \in {g + 1, g + 2}
  <1>1. Bump(g) = g + 1
    BY BumpNoWrapping, WidthAssumption
  <1>2. Bump(g + 1) = g + 2
    BY BumpNoWrapping, WidthAssumption
  <1> QED
    BY <1>1, <1>2 DEF NextGen

LEMMA AskedCount ==
  ASSUME NoWrap
  PROVE  /\ Cardinality(Uses) \in Nat
         /\ IsFiniteSet(Asked) /\ Cardinality(Asked) \in Nat
         /\ Cardinality(Asked) <= Cardinality(Uses)
  <1>1. Asked \subseteq Uses
    BY DEF Asked
  <1> QED
    BY <1>1, FS_Subset, FS_CardinalityType DEF NoWrap

LEMMA AskedOnceMore ==
  ASSUME NoWrap, SlotsTyped, NEW u \in Uses, handle[u] = None, NEW h,
         h # None, handle' = [handle EXCEPT ![u] = h]
  PROVE  /\ Cardinality(Asked') = Cardinality(Asked) + 1
         /\ Cardinality(Asked') <= Cardinality(Uses)
  <1>1. Asked' = Asked \cup {u} /\ u \notin Asked
    BY DEF Asked, SlotsTyped
  <1>2. Asked' \subseteq Uses
    BY <1>1 DEF Asked
  <1>3. Cardinality(Asked') <= Cardinality(Uses)
    BY <1>2, FS_Subset DEF NoWrap
  <1> QED
    BY <1>1, <1>3, AskedCount, FS_AddElement

LEMMA CreateStepJ ==
  ASSUME NoWrap, JInv, NEW u \in Uses, NEW n \in FireCounts, Create(u, n)
  PROVE  (GenBound /\ GenOrder /\ StaysArmed)'
  <1> USE DEF JInv, IInv
  <1> DEFINE id == Last(freeIds)
             g == NextGen(gen[id])
             h == [id |-> id, gen |-> g, count |-> n]
             m == Cardinality(Asked)
  <1>1. freeIds \in Seq(Ids) /\ freeIds # <<>> /\ inited /\ handle[u] = None
    BY DEF Create, SlotsTyped
  <1>2. id \in Ids /\ gen[id] \in Nat /\ id \in FreeSet /\ g \in 0 .. GenMod - 1
    <2>1. id \in Ids /\ id \in FreeSet
      BY <1>1, PopStack DEF FreeSet
    <2>2. gen[id] \in 0 .. GenMod - 1
      BY <2>1 DEF SlotsTyped
    <2> QED
      BY <2>1, <2>2, BumpType
  <1>3. ~active[id]
    BY <1>1, <1>2 DEF SlotPartition
  <1>4. h \in Handles /\ h # None
    BY <1>2, NoneAssumption DEF Handles
  <1>5. h.id = id /\ h.gen = g
    OBVIOUS
  <1>6. /\ handle' = [handle EXCEPT ![u] = h]
        /\ gen' = [gen EXCEPT ![id] = g]
        /\ use' = [use EXCEPT ![id] = u]
        /\ active' = [active EXCEPT ![id] = TRUE]
        /\ UNCHANGED <<inited, fires, cancelled>>
    BY DEF Create
  <1> HIDE DEF h, g, id
  <1>7. /\ m \in Nat /\ Cardinality(Uses) \in Nat
        /\ Cardinality(Asked') = m + 1 /\ m + 1 <= Cardinality(Uses)
    BY <1>1, <1>4, <1>6, AskedCount, AskedOnceMore
  <1> HIDE DEF m
  <1>8. gen[id] <= 1 + 3 * m
    BY <1>2 DEF GenBound, m
  <1>9. gen[id] + 2 < GenMod
    BY <1>2, <1>7, <1>8, WidthAssumption DEF NoWrap
  <1>10. g \in {gen[id] + 1, gen[id] + 2}
    BY <1>2, <1>9, NextGenNoWrapping DEF g
  <1>11. GenBound'
    <2> SUFFICES ASSUME NEW k \in Ids
                 PROVE  gen'[k] + 1 <= 1 + 3 * (m + 1)
      BY <1>2, <1>6, <1>7, <1>10 DEF GenBound, SlotsTyped
    <2>1. CASE k = id
      BY <1>2, <1>6, <1>7, <1>8, <1>10, <2>1 DEF SlotsTyped
    <2>2. CASE k # id
      <3>1. gen'[k] = gen[k] /\ gen[k] \in Nat /\ gen[k] <= 1 + 3 * m
        BY <1>6, <2>2 DEF SlotsTyped, GenBound, m
      <3> QED
        BY <1>7, <3>1
    <2> QED
      BY <2>1, <2>2
  <1>12. ASSUME NEW v \in Uses, v # u, Known(v) \/ Known(v)'
         PROVE  /\ handle'[v] = handle[v] /\ Known(v)
                /\ handle[v].id \in Ids /\ handle[v].gen \in Nat
    BY <1>6, <1>12 DEF Known, SlotsTyped, Handles
  <1>13. handle'[u] = h
    BY <1>6 DEF SlotsTyped
  <1>14. use'[id] = u /\ active'[id] /\ gen'[id] = g
    BY <1>2, <1>6 DEF SlotsTyped
  <1>15. ASSUME NEW k \in Ids, k # id
         PROVE  use'[k] = use[k] /\ active'[k] = active[k] /\ gen'[k] = gen[k]
    BY <1>6, <1>15 DEF SlotsTyped
  <1>16. GenOrder'
    <2> SUFFICES ASSUME NEW v \in Uses, Known(v)'
                 PROVE  \/ handle'[v].gen < gen'[handle'[v].id]
                        \/ active'[handle'[v].id] /\ use'[handle'[v].id] = v
      BY DEF GenOrder
    <2>1. CASE v = u
      BY <1>5, <1>13, <1>14, <2>1
    <2>2. CASE v # u /\ handle[v].id # id
      BY <1>12, <1>15, <2>2 DEF GenOrder
    <2>3. CASE v # u /\ handle[v].id = id
      <3>1. handle[v].gen < gen[id]
        BY <1>3, <1>12, <2>3 DEF GenOrder
      <3> QED
        BY <1>2, <1>10, <1>12, <1>14, <2>3, <3>1
    <2> QED
      BY <2>1, <2>2, <2>3
  <1>17. StaysArmed'
    <2> SUFFICES ASSUME NEW v \in Uses, Created(v)', v \notin cancelled,
                        fires[v] # handle'[v].count
                 PROVE  active'[handle'[v].id] /\ use'[handle'[v].id] = v
      BY <1>6 DEF StaysArmed
    <2>1. CASE v = u
      BY <1>5, <1>13, <1>14, <2>1
    <2>2. CASE v # u
      <3>1. handle'[v] = handle[v] /\ Created(v)
        BY <1>6, <2>2 DEF Created, SlotsTyped
      <3>2. Known(v)
        BY <3>1 DEF Created, Known, SlotsTyped
      <3>3. active[handle[v].id] /\ use[handle[v].id] = v
        BY <1>1, <3>1 DEF StaysArmed
      <3> QED
        BY <1>3, <1>12, <1>15, <2>2, <3>1, <3>2, <3>3
    <2> QED
      BY <2>1, <2>2
  <1> QED
    BY <1>11, <1>16, <1>17

LEMMA CreateFailsStepJ ==
  ASSUME NoWrap, JInv, NEW u \in Uses, NEW n \in FireCounts, CreateFails(u, n)
  PROVE  (GenBound /\ GenOrder /\ StaysArmed)'
  <1> USE DEF JInv, IInv
  <1> DEFINE id == Last(freeIds)
             m == Cardinality(Asked)
  <1>1. freeIds \in Seq(Ids) /\ freeIds # <<>> /\ inited /\ handle[u] = None
    BY DEF CreateFails, SlotsTyped
  <1>2. id \in Ids /\ gen[id] \in Nat /\ id \in FreeSet
    <2>1. id \in Ids /\ id \in FreeSet
      BY <1>1, PopStack DEF FreeSet
    <2> QED
      BY <2>1 DEF SlotsTyped
  <1>3. ~active[id]
    BY <1>1, <1>2 DEF SlotPartition
  <1>4. Failed # None /\ Failed \notin Handles
    BY NoneAssumption
  <1>5. /\ handle' = [handle EXCEPT ![u] = Failed]
        /\ gen' = [gen EXCEPT ![id] = Bump(NextGen(gen[id]))]
        /\ use' = [use EXCEPT ![id] = u]
        /\ UNCHANGED <<inited, active, fires, cancelled>>
    BY DEF CreateFails
  <1> HIDE DEF id
  <1>6. /\ m \in Nat /\ Cardinality(Uses) \in Nat
        /\ Cardinality(Asked') = m + 1 /\ m + 1 <= Cardinality(Uses)
    BY <1>1, <1>4, <1>5, AskedCount, AskedOnceMore
  <1> HIDE DEF m
  <1>7. gen[id] <= 1 + 3 * m
    BY <1>2 DEF GenBound, m
  <1>8. gen[id] + 3 < GenMod
    BY <1>2, <1>6, <1>7, WidthAssumption DEF NoWrap
  <1>9. gen'[id] \in {gen[id] + 2, gen[id] + 3}
    <2>1. NextGen(gen[id]) \in {gen[id] + 1, gen[id] + 2}
      BY <1>2, <1>8, NextGenNoWrapping, WidthAssumption
    <2>2. Bump(NextGen(gen[id])) = NextGen(gen[id]) + 1
      BY <1>2, <1>8, <2>1, BumpNoWrapping, WidthAssumption
    <2>3. gen'[id] = Bump(NextGen(gen[id]))
      BY <1>2, <1>5 DEF SlotsTyped
    <2> QED
      BY <1>2, <2>1, <2>2, <2>3
  <1>10. ASSUME NEW k \in Ids, k # id
         PROVE  use'[k] = use[k] /\ gen'[k] = gen[k] /\ gen[k] \in Nat
    BY <1>5, <1>10 DEF SlotsTyped
  <1>11. GenBound'
    <2> SUFFICES ASSUME NEW k \in Ids
                 PROVE  /\ gen'[k] <= 1 + 3 * (m + 1)
                        /\ active[k] => gen'[k] + 1 <= 1 + 3 * (m + 1)
      BY <1>5, <1>6 DEF GenBound
    <2>1. CASE k = id
      BY <1>2, <1>3, <1>6, <1>7, <1>9, <2>1
    <2>2. CASE k # id
      <3>1. gen'[k] = gen[k] /\ gen[k] \in Nat /\ gen[k] <= 1 + 3 * m
        BY <1>10, <2>2 DEF GenBound, m
      <3>2. active[k] => gen[k] + 1 <= 1 + 3 * m
        BY DEF GenBound, m
      <3> QED
        BY <1>6, <3>1, <3>2
    <2> QED
      BY <2>1, <2>2
  <1>12. ASSUME NEW v \in Uses, Known(v) \/ Known(v)'
         PROVE  /\ v # u /\ handle'[v] = handle[v] /\ Known(v)
                /\ handle[v].id \in Ids /\ handle[v].gen \in Nat
    <2>1. v # u
      BY <1>1, <1>4, <1>5, <1>12, NoneAssumption DEF Known, SlotsTyped
    <2>2. handle'[v] = handle[v]
      BY <1>5, <2>1 DEF SlotsTyped
    <2> QED
      BY <1>12, <2>1, <2>2 DEF Known, Handles
  <1>13. GenOrder'
    <2> SUFFICES ASSUME NEW v \in Uses, Known(v)'
                 PROVE  \/ handle[v].gen < gen'[handle[v].id]
                        \/ active[handle[v].id] /\ use'[handle[v].id] = v
      BY <1>5, <1>12 DEF GenOrder
    <2>1. CASE handle[v].id # id
      BY <1>10, <1>12, <2>1 DEF GenOrder
    <2>2. CASE handle[v].id = id
      <3>1. handle[v].gen < gen[id]
        BY <1>3, <1>12, <2>2 DEF GenOrder
      <3> QED
        BY <1>2, <1>9, <1>12, <2>2, <3>1
    <2> QED
      BY <2>1, <2>2
  <1>14. StaysArmed'
    <2> SUFFICES ASSUME NEW v \in Uses, Created(v)', v \notin cancelled,
                        fires[v] # handle'[v].count
                 PROVE  active[handle'[v].id] /\ use'[handle'[v].id] = v
      BY <1>5 DEF StaysArmed
    <2>1. v # u
      BY <1>5 DEF Created, SlotsTyped
    <2>2. handle'[v] = handle[v] /\ Created(v)
      BY <1>5, <2>1 DEF Created, SlotsTyped
    <2>3. Known(v)
      BY <2>2 DEF Created, Known, SlotsTyped
    <2>4. active[handle[v].id] /\ use[handle[v].id] = v
      BY <1>1, <2>2 DEF StaysArmed
    <2> QED
      BY <1>3, <1>10, <1>12, <2>2, <2>3, <2>4
  <1> QED
    BY <1>11, <1>13, <1>14

\* Retiring an active slot makes every handle of it one of the past.
LEMMA RetireStepJ ==
  ASSUME NoWrap, JInv, inited, NEW id \in Ids, active[id], Retire(id),
         UNCHANGED <<use, handle>>
  PROVE  GenBound' /\ GenOrder'
  <1> USE DEF JInv, IInv
  <1> DEFINE m == Cardinality(Asked)
  <1>1. gen' = [gen EXCEPT ![id] = Bump(@)] /\ active' = [active EXCEPT ![id] = FALSE]
    BY DEF Retire
  <1>2. Asked' = Asked
    BY DEF Asked
  <1>3. m \in Nat /\ m <= Cardinality(Uses) /\ Cardinality(Uses) \in Nat
    BY AskedCount
  <1>4. gen[id] \in Nat /\ gen[id] + 1 <= 1 + 3 * m
    BY DEF GenBound, SlotsTyped
  <1>5. gen'[id] = gen[id] + 1 /\ ~active'[id]
    <2>1. gen[id] + 1 < GenMod
      BY <1>3, <1>4, WidthAssumption DEF NoWrap
    <2>2. Bump(gen[id]) = gen[id] + 1
      BY <1>4, <2>1, BumpNoWrapping
    <2> QED
      BY <1>1, <2>2 DEF SlotsTyped
  <1>6. ASSUME NEW k \in Ids, k # id
        PROVE  gen'[k] = gen[k] /\ active'[k] = active[k]
    BY <1>1, <1>6 DEF SlotsTyped
  <1>7. GenBound'
    BY <1>2, <1>4, <1>5, <1>6 DEF GenBound
  <1>8. GenOrder'
    <2> SUFFICES ASSUME NEW v \in Uses, Known(v)
                 PROVE  \/ handle[v].gen < gen'[handle[v].id]
                        \/ active'[handle[v].id] /\ use[handle[v].id] = v
      BY DEF GenOrder, Known
    <2>0. handle[v].id \in Ids /\ handle[v].gen \in Nat
      BY DEF Known, Handles
    <2>1. CASE handle[v].id # id
      BY <1>6, <2>0, <2>1 DEF GenOrder
    <2>2. CASE handle[v].id = id
      <3>1. handle[v].gen < gen[id] \/ use[id] = v
        BY <2>2 DEF GenOrder
      <3>2. use[id] = v => handle[v].gen = gen[id]
        BY DEF Owned
      <3> QED
        BY <1>4, <1>5, <2>0, <2>2, <3>1, <3>2
    <2> QED
      BY <2>1, <2>2
  <1> QED
    BY <1>7, <1>8

LEMMA CancelStepJ ==
  ASSUME NoWrap, JInv, NEW u \in Uses, Cancel(u)
  PROVE  (GenBound /\ GenOrder /\ StaysArmed)'
  <1> USE DEF JInv, IInv
  <1> DEFINE id == handle[u].id
  <1>0. Known(u) /\ id \in Ids
    BY DEF Cancel, Created, Known, SlotsTyped, Handles
  <1>1. /\ cancelled' = cancelled \cup {u}
        /\ UNCHANGED <<inited, use, handle, fires>>
    BY DEF Cancel
  <1>2. CASE Matches(u)
    <2>1. inited /\ active[id] /\ gen[id] = handle[u].gen /\ Retire(id)
      BY <1>2 DEF Cancel, Matches
    <2>2. use[id] = u
      <3>1. handle[u].gen \in Nat
        BY <1>0 DEF Known, Handles
      <3> QED
        BY <1>0, <2>1, <3>1 DEF GenOrder
    <2>3. GenBound' /\ GenOrder'
      BY <1>0, <1>1, <2>1, RetireStepJ
    <2>4. \A k \in Ids : k # id => active'[k] = active[k]
      BY <2>1 DEF Retire, SlotsTyped
    <2>5. StaysArmed'
      <3> SUFFICES ASSUME NEW v \in Uses, Created(v), v \notin cancelled, v # u,
                          fires[v] # handle[v].count
                   PROVE  active'[handle[v].id] /\ use[handle[v].id] = v
        BY <1>1 DEF StaysArmed, Created
      <3>1. active[handle[v].id] /\ use[handle[v].id] = v
        BY <2>1 DEF StaysArmed
      <3>2. handle[v].id \in Ids
        BY DEF Created, SlotsTyped, Handles
      <3> QED
        BY <2>2, <2>4, <3>1, <3>2
    <2> QED
      BY <2>3, <2>5
  <1>3. CASE ~Matches(u)
    <2>1. UNCHANGED <<active, gen>>
      BY <1>3 DEF Cancel
    <2>2. Asked' = Asked
      BY <1>1 DEF Asked
    <2>3. GenBound' /\ GenOrder'
      BY <1>1, <2>1, <2>2 DEF GenBound, GenOrder, Known
    <2>4. StaysArmed'
      BY <1>1, <2>1 DEF StaysArmed, Created
    <2> QED
      BY <2>3, <2>4
  <1> QED
    BY <1>2, <1>3

LEMMA OnFireStepJ ==
  ASSUME NoWrap, JInv, NEW u \in Uses, OnFire(u)
  PROVE  (GenBound /\ GenOrder /\ StaysArmed)'
  <1> USE DEF JInv, IInv
  <1> DEFINE id == handle[u].id
             w == use[id]
  <1>0. id \in Ids /\ inited /\ active[id]
    BY DEF OnFire, Accepts, KnownOnly, Known, SlotsTyped, Handles
  <1>1. w \in Uses /\ handle[w].id = id /\ fires[w] \in Nat
    BY <1>0 DEF Owned, SlotsTyped
  <1>2. /\ fires' = [fires EXCEPT ![w] = @ + 1]
        /\ UNCHANGED <<inited, use, handle, cancelled>>
        /\ IF IsLast(id) THEN Retire(id) ELSE UNCHANGED <<active, gen, freeIds, armed>>
    BY DEF OnFire
  <1> HIDE DEF id, w
  <1>3. GenBound' /\ GenOrder'
    <2>1. CASE IsLast(id)
      BY <1>0, <1>2, <2>1, RetireStepJ
    <2>2. CASE ~IsLast(id)
      <3>1. UNCHANGED <<active, gen>> /\ Asked' = Asked
        BY <1>2, <2>2 DEF Asked
      <3> QED
        BY <1>2, <3>1 DEF GenBound, GenOrder, Known
    <2> QED
      BY <2>1, <2>2
  <1>4. /\ \A k \in Ids : k # id => active'[k] = active[k]
        /\ ~IsLast(id) => active'[id] = active[id]
    BY <1>2 DEF Retire, SlotsTyped
  <1>5. IsLast(id) => fires'[w] = handle[w].count
    <2>1. remaining[id] = 1 => fires[w] + 1 = handle[w].count
      BY <1>0, <1>1 DEF Owes, SlotsTyped, w
    <2>2. fires'[w] = fires[w] + 1
      BY <1>1, <1>2 DEF SlotsTyped
    <2> QED
      BY <2>1, <2>2 DEF IsLast
  <1>6. StaysArmed'
    <2> SUFFICES ASSUME NEW v \in Uses, Created(v), v \notin cancelled,
                        fires'[v] # handle[v].count
                 PROVE  active'[handle[v].id] /\ use[handle[v].id] = v
      BY <1>2 DEF StaysArmed, Created
    <2>1. CASE v = w
      <3>1. ~IsLast(id)
        BY <1>5, <2>1
      <3> QED
        BY <1>0, <1>1, <1>4, <2>1, <3>1 DEF w
    <2>2. CASE v # w
      <3>1. fires'[v] = fires[v]
        BY <1>2, <2>2 DEF SlotsTyped
      <3>2. active[handle[v].id] /\ use[handle[v].id] = v
        BY <1>0, <3>1 DEF StaysArmed
      <3>3. handle[v].id \in Ids /\ handle[v].id # id
        BY <2>2, <3>2 DEF w, Created, SlotsTyped, Handles
      <3> QED
        BY <1>4, <3>2, <3>3
    <2> QED
      BY <2>1, <2>2
  <1> QED
    BY <1>3, <1>6

LEMMA DestroyStepJ ==
  ASSUME NoWrap, JInv, Destroy
  PROVE  (GenBound /\ GenOrder /\ StaysArmed)'
  <1> USE DEF JInv, IInv
  <1> DEFINE m == Cardinality(Asked)
  <1>1. Asked' = Asked /\ m \in Nat /\ m <= Cardinality(Uses) /\ Cardinality(Uses) \in Nat
    BY AskedCount DEF Destroy, Asked
  <1> HIDE DEF m
  <1>2. ASSUME NEW k \in Ids
        PROVE  /\ gen[k] \in Nat /\ gen'[k] <= 1 + 3 * m /\ ~active'[k]
               /\ gen'[k] = IF active[k] THEN gen[k] + 1 ELSE gen[k]
    <2>1. /\ gen[k] \in Nat /\ gen[k] <= 1 + 3 * m
          /\ active[k] => gen[k] + 1 <= 1 + 3 * m
      BY DEF GenBound, SlotsTyped, m
    <2>2. active[k] => Bump(gen[k]) = gen[k] + 1
      <3>1. active[k] => gen[k] + 1 < GenMod
        BY <1>1, <2>1, WidthAssumption DEF NoWrap
      <3> QED
        BY <2>1, <3>1, BumpNoWrapping
    <2>3. gen'[k] = (IF active[k] THEN Bump(gen[k]) ELSE gen[k]) /\ ~active'[k]
      BY DEF Destroy
    <2> QED
      BY <2>1, <2>2, <2>3
  <1>3. GenBound'
    BY <1>1, <1>2 DEF GenBound, m
  <1>4. GenOrder'
    <2> SUFFICES ASSUME NEW v \in Uses, Known(v)
                 PROVE  handle[v].gen < gen'[handle[v].id]
      BY DEF GenOrder, Known, Destroy
    <2>0. handle[v].id \in Ids /\ handle[v].gen \in Nat
      BY DEF Known, Handles
    <2>1. \/ handle[v].gen < gen[handle[v].id]
          \/ active[handle[v].id] /\ handle[v].gen = gen[handle[v].id]
      BY <2>0 DEF GenOrder, Owned
    <2> QED
      BY <1>2, <2>0, <2>1
  <1>5. StaysArmed'
    BY DEF StaysArmed, Destroy
  <1> QED
    BY <1>3, <1>4, <1>5

LEMMA Generations ==
  ASSUME NoWrap
  PROVE  Spec => []JInv
  <1>1. Init => JInv
    <2> SUFFICES ASSUME Init
                 PROVE  GenBound /\ GenOrder /\ StaysArmed
      BY InitIInv DEF JInv
    <2>1. \A u \in Uses : ~Known(u) /\ ~Created(u)
      BY NoneAssumption DEF Init, Known, Created
    <2>2. \A id \in Ids : gen[id] <= 1 /\ gen[id] \in Nat /\ ~active[id]
      <3>1. 1 % GenMod <= 1 /\ 1 % GenMod \in Nat
        BY WidthAssumption
      <3> QED
        BY <3>1 DEF Init
    <2> QED
      BY <2>1, <2>2, AskedCount DEF GenBound, GenOrder, StaysArmed
  <1>2. JInv /\ [Next]_vars => JInv'
    <2> SUFFICES ASSUME JInv, [Next]_vars
                 PROVE  (GenBound /\ GenOrder /\ StaysArmed)'
      BY NextIInv DEF JInv
    <2>1. ASSUME UNCHANGED <<inited, gen, active, use, handle, fires, cancelled>>
          PROVE  (GenBound /\ GenOrder /\ StaysArmed)'
      <3>1. Asked' = Asked
        BY <2>1 DEF Asked
      <3> QED
        BY <2>1, <3>1 DEF JInv, GenBound, GenOrder, StaysArmed, Known, Created
    <2>2. ASSUME NEW u \in Uses, Expire(u) \/ Drop(u)
          PROVE  (GenBound /\ GenOrder /\ StaysArmed)'
      BY <2>1, <2>2 DEF Expire, Drop, slotVars
    <2>3. ASSUME \/ \E c \in captured : CallCallback(c)
                 \/ \E c \in running : CallbackReturns(c)
                 \/ UNCHANGED vars
          PROVE  (GenBound /\ GenOrder /\ StaysArmed)'
      BY <2>1, <2>3 DEF CallCallback, CallbackReturns, slotVars, vars
    <2> QED
      BY <2>2, <2>3, CreateStepJ, CreateFailsStepJ, CancelStepJ, OnFireStepJ, DestroyStepJ
      DEF Next
  <1> QED
    BY <1>1, <1>2, PTL DEF Spec

\* A timer nobody cancelled keeps its slot until its last fire, whatever is done
\* with older handles of that slot (prts_timer_cancel_locked compares generations).
THEOREM StaysArmedCorrect ==
  ASSUME NoWrap
  PROVE  Spec => []StaysArmed
  <1>1. JInv => StaysArmed
    BY DEF JInv
  <1> QED
    BY <1>1, Generations, PTL

----------------------------------------------------------------------------
\* A thread carries only the tag of its generation.  It finds another use of its
\* slot in its place only if it is so late that the tags have come round.

\* No thread is that late.
TagsApart ==
  \A u \in Uses : expired[u] > 0 => gen[handle[u].id] - handle[u].gen < TagMod

Callings == captured \cup running

\* The counters stay in their bounds: what has expired and what has fired is
\* together what the kernel started.
Counted ==
  /\ punctual \in BOOLEAN
  /\ remaining \in [Ids -> Nat \cup {-1}]
  /\ \A u \in Uses : expired[u] <= MaxInFlight /\ fires[u] + expired[u] <= MaxFires
  /\ \A c \in Callings : c.k \in 1 .. MaxFires

\* Of punctual callers a use has one thread or one callback at a time.
OneAtATime ==
  punctual =>
    /\ \A u \in Uses : /\ expired[u] <= 1
                       /\ expired[u] # 0 => \A c \in Callings : c.tag # u
    /\ \A c, d \in Callings : c.tag = d.tag => c = d

\* The last callback has given its slot back.
LastEnds ==
  \A c \in Callings :
    c.last => ~ (active[handle[c.use].id] /\ use[handle[c.use].id] = c.use)

CInv == Counted /\ OwnExpiration /\ OneAtATime /\ LastEnds

\* Equal tags of generations less than TagMod apart are of the same generation.
LEMMA SameTag ==
  ASSUME NEW g \in Nat, NEW h \in Nat, h <= g, g - h < TagMod, Tag(g) = Tag(h)
  PROVE  g = h
  <1> USE DEF Tag
  <1> DEFINE p == g \div TagMod
             q == h \div TagMod
  <1>1. p \in Int /\ q \in Int /\ g = p * TagMod + (g % TagMod) /\ h = q * TagMod + (h % TagMod)
    BY WidthAssumption
  <1>2. g % TagMod \in Nat
    BY WidthAssumption
  <1> HIDE DEF p, q
  <1>3. g - h = p * TagMod - q * TagMod
    <2> DEFINE pt == p * TagMod
               qt == q * TagMod
               r == g % TagMod
    <2>1. pt \in Int /\ qt \in Int /\ r \in Nat
      BY <1>1, <1>2, WidthAssumption
    <2>2. g = pt + r /\ h = qt + r
      BY <1>1
    <2> HIDE DEF pt, qt, r
    <2>3. g - h = pt - qt
      BY <2>1, <2>2
    <2> QED
      BY <2>3 DEF pt, qt
  <1>4. CASE p > q
    <2>1. PICK d \in Nat : p = q + 1 + d
      <3>1. p - q - 1 \in Nat /\ p = q + 1 + (p - q - 1)
        BY <1>1, <1>4
      <3> QED
        BY <3>1
    <2>2. p * TagMod = q * TagMod + TagMod + d * TagMod
      BY <2>1, <1>1, WidthAssumption
    <2>3. d * TagMod \in Nat /\ q * TagMod \in Int
      BY <2>1, <1>1, WidthAssumption
    <2> QED
      BY <1>3, <2>2, <2>3, WidthAssumption
  <1>5. CASE p < q
    <2>1. PICK d \in Nat : q = p + 1 + d
      <3>1. q - p - 1 \in Nat /\ q = p + 1 + (q - p - 1)
        BY <1>1, <1>5
      <3> QED
        BY <3>1
    <2>2. q * TagMod = p * TagMod + TagMod + d * TagMod
      BY <2>1, <1>1, WidthAssumption
    <2>3. d * TagMod \in Nat /\ p * TagMod \in Int
      BY <2>1, <1>1, WidthAssumption
    <2> QED
      BY <1>3, <2>2, <2>3, WidthAssumption
  <1>6. CASE p = q
    BY <1>1, <1>2, <1>6, WidthAssumption
  <1> QED
    BY <1>1, <1>4, <1>5, <1>6

\* An accepted thread finds its own use.
LEMMA AcceptsOwn ==
  ASSUME JInv, TagsApart, NEW u \in Uses, OnFire(u)
  PROVE  /\ Known(u) /\ handle[u].id \in Ids
         /\ active[handle[u].id] /\ use[handle[u].id] = u
  <1> USE DEF JInv, IInv
  <1> DEFINE id == handle[u].id
  <1>1. /\ expired[u] > 0 /\ Known(u) /\ id \in Ids /\ active[id]
        /\ Tag(gen[id]) = Tag(handle[u].gen)
    BY DEF OnFire, Accepts, KnownOnly, Known, Handles
  <1>2. gen[id] \in Nat /\ handle[u].gen \in Nat
    BY <1>1, WidthAssumption DEF SlotsTyped, Known, Handles
  <1>3. CASE handle[u].gen < gen[id]
    <2>1. gen[id] - handle[u].gen < TagMod /\ handle[u].gen <= gen[id]
      BY <1>1, <1>2, <1>3 DEF TagsApart
    <2>2. gen[id] = handle[u].gen
      BY <1>1, <1>2, <2>1, SameTag
    <2> QED
      BY <1>2, <1>3, <2>2
  <1>4. CASE active[id] /\ use[id] = u
    BY <1>1, <1>4
  <1> QED
    BY <1>1, <1>3, <1>4 DEF GenOrder

LEMMA InitCInv == Init => CInv
  BY FireCountsAssumption, BoundsAssumption
  DEF Init, CInv, Counted, OwnExpiration, OneAtATime, LastEnds, Callings

\* The steps that leave the threads alone.
LEMMA CInvKept ==
  ASSUME IInv, CInv, UNCHANGED <<punctual, expired, fires, captured, running>>,
         remaining' \in [Ids -> Nat \cup {-1}],
         \A c \in Callings : handle'[c.use] = handle[c.use],
         \A c \in Callings :
           active'[handle[c.use].id] /\ use'[handle[c.use].id] = c.use =>
             active[handle[c.use].id] /\ use[handle[c.use].id] = c.use
  PROVE  CInv'
  <1>1. Callings' = Callings
    BY DEF Callings
  <1>2. Counted' /\ OwnExpiration' /\ OneAtATime'
    BY <1>1 DEF CInv, Counted, OwnExpiration, OneAtATime
  <1>3. LastEnds'
    BY <1>1 DEF CInv, LastEnds
  <1> QED
    BY <1>2, <1>3 DEF CInv

LEMMA CreateStepC ==
  ASSUME IInv, CInv, NEW u \in Uses, NEW n \in FireCounts, Create(u, n) \/ CreateFails(u, n)
  PROVE  CInv'
  <1> USE DEF IInv
  <1> DEFINE id == Last(freeIds)
  <1>1. id \in Ids /\ freeIds \in Seq(Ids) /\ freeIds # <<>>
    BY PopStack DEF Create, CreateFails, SlotsTyped
  <1>2. /\ use' = [use EXCEPT ![id] = u]
        /\ remaining' = [remaining EXCEPT ![id] = n]
        /\ active' = [active EXCEPT ![id] = TRUE] \/ active' = active
        /\ \A v \in Uses : v # u => handle'[v] = handle[v]
        /\ handle[u] = None
        /\ UNCHANGED <<punctual, expired, fires, captured, running>>
    BY DEF Create, CreateFails, SlotsTyped
  <1> HIDE DEF id
  <1>3. \A c \in Callings : c.use \in Uses /\ c.use # u /\ handle[c.use].id \in Ids
    BY <1>2, NoneAssumption DEF Callings, KnownOnly, Known, SlotsTyped, Handles
  <1>4. remaining' \in [Ids -> Nat \cup {-1}]
    BY <1>1, <1>2, FireCountsAssumption DEF CInv, Counted
  <1>5. \A k \in Ids : use'[k] # u => use'[k] = use[k] /\ active'[k] = active[k]
    BY <1>1, <1>2 DEF SlotsTyped
  <1> QED
    BY <1>2, <1>3, <1>4, <1>5, CInvKept

LEMMA CancelStepC ==
  ASSUME IInv, CInv, (\E u \in Uses : Cancel(u)) \/ Destroy
  PROVE  CInv'
  <1> USE DEF IInv
  <1>1. /\ UNCHANGED <<punctual, expired, fires, captured, running, remaining, use, handle>>
        /\ \A k \in Ids : active'[k] => active[k]
    BY DEF Cancel, Retire, Destroy, SlotsTyped
  <1>2. \A c \in Callings : handle[c.use].id \in Ids
    BY DEF Callings, KnownOnly, Known, SlotsTyped, Handles
  <1> QED
    BY <1>1, <1>2, CInvKept DEF CInv, Counted

LEMMA ExpireStepC ==
  ASSUME IInv, CInv, NEW u \in Uses, Expire(u) \/ Drop(u)
  PROVE  CInv'
  <1> USE DEF IInv
  <1>1. /\ UNCHANGED <<punctual, gen, active, use, remaining, freeIds, handle, fires, captured, running>>
        /\ Callings' = Callings
        /\ \A v \in Uses : v # u => expired'[v] = expired[v]
        /\ expired[u] \in Nat /\ expired' \in [Uses -> Nat] /\ fires[u] \in Nat
    <2>1. UNCHANGED <<punctual, gen, active, use, remaining, freeIds, handle, fires, captured, running>>
      BY DEF Expire, Drop, slotVars
    <2>2. expired \in [Uses -> Nat] /\ fires \in [Uses -> Nat]
      BY DEF SlotsTyped
    <2>3. PICK n \in Nat : expired' = [expired EXCEPT ![u] = n]
      <3>1. Expire(u) => expired' = [expired EXCEPT ![u] = expired[u] + 1]
        BY DEF Expire
      <3>2. Drop(u) => expired' = [expired EXCEPT ![u] = expired[u] - 1] /\ expired[u] > 0
        BY DEF Drop
      <3>3. expired[u] + 1 \in Nat /\ (expired[u] > 0 => expired[u] - 1 \in Nat)
        BY <2>2
      <3> QED
        BY <3>1, <3>2, <3>3
    <2> QED
      BY <2>1, <2>2, <2>3 DEF Callings
  <1>2. expired'[u] <= MaxInFlight /\ fires[u] + expired'[u] <= MaxFires
    <2>1. expired'[u] = expired[u] + 1 \/ (expired'[u] = expired[u] - 1 /\ Drop(u))
      BY DEF Expire, Drop, SlotsTyped
    <2>2. expired'[u] = expired[u] + 1 => Expire(u)
      BY <1>1 DEF Drop, SlotsTyped
    <2> QED
      BY <1>1, <2>1, <2>2, BoundsAssumption DEF CInv, Counted, Expire
  <1>3. Counted' /\ OwnExpiration' /\ LastEnds'
    BY <1>1, <1>2 DEF CInv, Counted, OwnExpiration, LastEnds
  <1>4. OneAtATime'
    <2>1. CASE Expire(u)
      <3>1. expired'[u] = expired[u] + 1
        BY <2>1 DEF Expire, SlotsTyped
      <3>2. punctual => expired[u] = 0 /\ \A c \in Callings : c.tag # u
        BY <2>1 DEF Expire, Callings
      <3> QED
        BY <1>1, <3>1, <3>2 DEF CInv, OneAtATime
    <2>2. CASE Drop(u)
      <3>1. expired'[u] = expired[u] - 1 /\ expired[u] > 0
        BY <2>2 DEF Drop, SlotsTyped
      <3> QED
        BY <1>1, <3>1 DEF CInv, OneAtATime
    <2> QED
      BY <2>1, <2>2
  <1> QED
    BY <1>3, <1>4 DEF CInv

LEMMA CallStepC ==
  ASSUME IInv, CInv,
         \/ \E c \in captured : CallCallback(c)
         \/ \E c \in running : CallbackReturns(c)
         \/ UNCHANGED vars
  PROVE  CInv'
  <1>1. /\ UNCHANGED <<punctual, gen, active, use, remaining, freeIds, handle, expired, fires>>
        /\ Callings' \subseteq Callings
    BY DEF CallCallback, CallbackReturns, vars, slotVars, Callings
  <1>2. Counted' /\ OwnExpiration' /\ LastEnds' /\ OneAtATime'
    BY <1>1 DEF CInv, Counted, OwnExpiration, LastEnds, OneAtATime, Callings
  <1> QED
    BY <1>2 DEF CInv

LEMMA OnFireStepC ==
  ASSUME JInv, CInv, TagsApart, NEW u \in Uses, OnFire(u)
  PROVE  CInv'
  <1> USE DEF JInv, IInv
  <1> DEFINE id == handle[u].id
             c == [tag |-> u, use |-> u, k |-> fires[u] + 1, last |-> IsLast(id)]
  <1>1. Known(u) /\ id \in Ids /\ active[id] /\ use[id] = u
    BY AcceptsOwn
  <1>2. /\ fires' = [fires EXCEPT ![u] = @ + 1]
        /\ captured' = captured \cup {c}
        /\ remaining' = [remaining EXCEPT ![id] = IF @ > 0 THEN @ - 1 ELSE @]
        /\ expired' = [expired EXCEPT ![u] = @ - 1]
        /\ expired[u] > 0
        /\ UNCHANGED <<punctual, use, handle, running>>
        /\ IF IsLast(id) THEN Retire(id) ELSE UNCHANGED <<active, gen, freeIds, armed>>
    BY <1>1 DEF OnFire
  <1>3. c.tag = u /\ c.use = u /\ c.k = fires[u] + 1 /\ (c.last <=> IsLast(id))
    BY DEF IsLast
  <1> HIDE DEF c, id
  <1>4. Callings' = Callings \cup {c}
    BY <1>2 DEF Callings
  <1>5. /\ fires[u] \in Nat /\ expired[u] \in Nat
        /\ fires'[u] = fires[u] + 1 /\ expired'[u] = expired[u] - 1
        /\ \A v \in Uses : v # u => fires'[v] = fires[v] /\ expired'[v] = expired[v]
    BY <1>2 DEF SlotsTyped
  <1>6. Counted'
    <2>1. remaining' \in [Ids -> Nat \cup {-1}]
      BY <1>1, <1>2 DEF CInv, Counted
    <2>2. \A v \in Uses : expired'[v] <= MaxInFlight /\ fires'[v] + expired'[v] <= MaxFires
      BY <1>2, <1>5, BoundsAssumption DEF CInv, Counted
    <2>3. c.k \in 1 .. MaxFires
      BY <1>2, <1>3, <1>5, BoundsAssumption DEF CInv, Counted
    <2> QED
      BY <1>2, <1>4, <2>1, <2>2, <2>3 DEF CInv, Counted
  <1>7. OwnExpiration'
    BY <1>3, <1>4 DEF CInv, OwnExpiration, Callings
  <1>8. OneAtATime'
    <2> SUFFICES ASSUME punctual
                 PROVE  /\ \A v \in Uses : /\ expired'[v] <= 1
                                           /\ expired'[v] # 0 => \A d \in Callings' : d.tag # v
                        /\ \A d, e \in Callings' : d.tag = e.tag => d = e
      BY <1>2 DEF OneAtATime
    <2>1. expired[u] = 1 /\ \A d \in Callings : d.tag # u
      BY <1>2, <1>5 DEF CInv, OneAtATime
    <2> QED
      BY <1>3, <1>4, <1>5, <2>1 DEF CInv, OneAtATime
  <1>9. LastEnds'
    <2>1. \A k \in Ids : active'[k] => active[k]
      BY <1>2 DEF Retire, SlotsTyped
    <2>2. \A d \in Callings : handle[d.use].id \in Ids
      BY DEF Callings, KnownOnly, Known, SlotsTyped, Handles
    <2>3. IsLast(id) => ~active'[id]
      BY <1>1, <1>2 DEF Retire, SlotsTyped
    <2>4. c.last => ~active'[handle'[c.use].id]
      BY <1>2, <1>3, <2>3 DEF id
    <2> QED
      BY <1>2, <1>4, <2>1, <2>2, <2>4 DEF CInv, LastEnds
  <1> QED
    BY <1>6, <1>7, <1>8, <1>9 DEF CInv

\* A callback belongs to the timer whose expiration started its thread, and with
\* punctual callers the one that is told to be the last is alone and stays so, unless
\* a thread waits for the mutex while its slot is given out TagMod / 3 times
\* (the tag in sival_int, prts_timer_on_fire).
THEOREM CallbacksTrueCorrect ==
  ASSUME NoWrap
  PROVE  Spec /\ []TagsApart => []CallbacksTrue
  <1>1. JInv /\ CInv /\ TagsApart /\ [Next]_vars => CInv'
    <2> SUFFICES ASSUME JInv, CInv, TagsApart, [Next]_vars
                 PROVE  CInv'
      OBVIOUS
    <2>1. IInv
      BY DEF JInv
    <2> QED
      BY <2>1, CreateStepC, CancelStepC, ExpireStepC, CallStepC, OnFireStepC DEF Next
  <1>2. JInv /\ CInv => CallbacksTrue
    <2> SUFFICES ASSUME JInv, CInv
                 PROVE  CallbacksTrue
      OBVIOUS
    <2> USE DEF JInv, IInv, CInv
    <2>1. LastIsLast
      <3> SUFFICES ASSUME punctual, NEW c \in Callings, c.last
                   PROVE  /\ \A d \in Callings : d.use = c.use => d = c
                          /\ ~(active[handle[c.use].id] /\ use[handle[c.use].id] = c.use)
        BY DEF LastIsLast, Callings
      <3>1. \A d \in Callings : d.use = c.use => d.tag = c.tag
        BY DEF OwnExpiration, Callings
      <3> QED
        BY <3>1 DEF OneAtATime, LastEnds
    <2>2. TypeOK
      <3>1. expired \in [Uses -> 0 .. MaxInFlight] /\ fires \in [Uses -> 0 .. MaxFires]
        BY BoundsAssumption DEF SlotsTyped, Counted
      <3>2. captured \subseteq Callbacks /\ running \subseteq Callbacks
        BY DEF SlotsTyped, Counted, Callbacks, Callings
      <3> QED
        BY <3>1, <3>2 DEF TypeOK, SlotsTyped, Counted
    <2> QED
      BY <2>1, <2>2 DEF CallbacksTrue
  <1> QED
    BY <1>1, <1>2, InitCInv, Generations, PTL DEF Spec

------------------------------------------------------------------------------
(* Arknights: in the frame f a part of the pass has done so many of its steps *)

\* the first multiple of a part's step at or after its start
FirstDue(part) == (StartOf(part) + PerStep(part) - 1) \div PerStep(part)

ArkTyped ==
  /\ at \in Nat
  /\ typed \in [Texts -> Nat]
  /\ eink \in [Panels -> 1 .. 6]
  /\ corner \in [colour : 0 .. CornerEnd, logo : 0 .. FullLogo]
  /\ arrow \in 0 .. ArrowHeight

\* A part that is not done has its next step still before it.
OnTime(part, done, steps, f) == done <= steps /\ (done # steps => f <= (FirstDue(part) + done) * PerStep(part))

TextsDrawn == \A t \in Texts :
  /\ picture.glyphs[t] = [k \in 1 .. typed[t] |-> k]
  /\ OnTime(t, typed[t], Length(t), at)
PanelsDrawn == \A p \in Panels :
  /\ picture.panel[p] = Looks(States[eink[p]])
  /\ OnTime(p, eink[p] - 1, 5, at)
CornerRamps ==
  /\ corner.colour = CornerEnd \/ at <= StartOf("colour") + corner.colour
  /\ corner.logo = FullLogo \/ at <= StartOf("logo") + corner.logo
  /\ corner.colour >= 2 => picture.corner = corner
SweepsDrawn == \A s \in Sweeps :
  at > StartOf(s) => picture.sweep[s] = Swept(Least(at - 1 - StartOf(s), SweepFrames - 1))

ArkInv ==
  /\ ArkTyped /\ TextsDrawn /\ PanelsDrawn /\ CornerRamps /\ SweepsDrawn
  /\ picture.arrow \in 0 .. ArrowHeight

LEMMA MultipleIsDue == ASSUME NEW k \in Nat, NEW p \in Nat \ {0} PROVE (k * p) % p = 0
  BY SMTT(30)

LEMMA RoundUp ==
  ASSUME NEW a \in Nat, NEW p \in Nat \ {0}, NEW c, c = (a + p - 1) \div p
  PROVE  c \in Nat /\ a <= c * p /\ c * p < a + p
<1> DEFINE n == a + p - 1
<1>1. n \in Nat OBVIOUS
<1>2. n = p * (n \div p) + (n % p) /\ n % p \in 0 .. p - 1 /\ n \div p \in Nat BY <1>1, SMTT(30)
<1>3. c = n \div p OBVIOUS
<1> QED BY <1>1, <1>2, <1>3, SMTT(30)

\* One frame: a part that is due takes a step, if it is not done.
LEMMA StepOnTime ==
  ASSUME NEW part, StartOf(part) \in Nat, PerStep(part) \in Nat \ {0},
         NEW n \in Nat, NEW steps \in Nat, OnTime(part, n, steps, at), at \in Nat,
         NEW n1, n1 = IF Due(part) /\ n # steps THEN n + 1 ELSE n
  PROVE  OnTime(part, n1, steps, at + 1)
<1> DEFINE c == FirstDue(part)
           p == PerStep(part)
<1>1. c \in Nat /\ StartOf(part) <= c * p BY RoundUp DEF FirstDue
<1> HIDE DEF c
<1>2. OnTime(part, n1, steps, at + 1) <=> (n1 <= steps /\ (n1 # steps => at + 1 <= (c + n1) * p)) BY DEF OnTime, c
<1>3. OnTime(part, n, steps, at) <=> (n <= steps /\ (n # steps => at <= (c + n) * p)) BY DEF OnTime, c
<1>4. CASE n = steps
  <2>1. n1 = n BY <1>4
  <2> QED BY <2>1, <1>2, <1>3, <1>4
<1>5. CASE n # steps /\ Due(part)
  <2>1. n1 = n + 1 BY <1>5
  <2>2. (c + n1) * p = (c + n) * p + p BY <2>1, <1>1, SMT
  <2> DEFINE x == (c + n) * p
  <2>3. x \in Nat /\ at <= x BY <1>1, <1>3, <1>5, SMT
  <2>4. n1 <= steps BY <2>1, <1>3, <1>5
  <2> HIDE DEF x
  <2>5. at + 1 <= x + p BY <2>3
  <2> QED BY <2>2, <2>4, <2>5, <1>2 DEF x
<1>6. CASE n # steps /\ ~Due(part)
  <2>1. n1 = n BY <1>6
  <2> DEFINE x == (c + n) * p
  <2>2. x \in Nat /\ at <= x BY <1>1, <1>3, <1>6, SMT
  <2>3. x % p = 0 BY <1>1, MultipleIsDue
  <2>4. StartOf(part) <= x
    <3>1. x = c * p + n * p /\ n * p \in Nat /\ c * p \in Nat BY <1>1, SMT
    <3> HIDE DEF x
    <3> QED BY <3>1, <1>1
  <2> HIDE DEF x
  <2>5. at # x BY <1>6, <2>3, <2>4 DEF Due
  <2>6. at + 1 <= x BY <2>2, <2>5
  <2> QED BY <2>1, <2>6, <1>2, <1>3, <1>6 DEF x
<1> QED BY <1>4, <1>5, <1>6

\* Later than its last step a part is done.
LEMMA DoneInTime ==
  ASSUME NEW part, StartOf(part) \in Nat, PerStep(part) \in Nat \ {0},
         NEW n \in Nat, NEW steps \in Nat, OnTime(part, n, steps, at), at \in Nat, Settled(part, steps)
  PROVE  n = steps
<1> SUFFICES ASSUME n # steps PROVE FALSE OBVIOUS
<1> DEFINE c == FirstDue(part)
           p == PerStep(part)
<1>1. c \in Nat /\ c * p < StartOf(part) + p BY RoundUp DEF FirstDue
<1>2. n <= steps /\ at <= (c + n) * p BY DEF OnTime
<1>3. at > StartOf(part) + steps * p BY DEF Settled
<1> HIDE DEF c
<1>4. (c + n) * p = c * p + n * p /\ c * p \in Nat /\ n * p \in Nat BY <1>1, SMT
<1>5. (n + 1) * p = n * p + p BY SMT
<1>6. (n + 1) * p <= steps * p
  <2>1. PICK d \in Nat : steps = (n + 1) + d BY <1>2
  <2>2. steps * p = (n + 1) * p + d * p /\ d * p \in Nat BY <2>1, SMT
  <2>3. (n + 1) * p \in Nat BY SMT
  <2> QED BY <2>2, <2>3
<1>7. steps * p \in Nat BY SMT
<1> QED BY <1>1, <1>2, <1>3, <1>4, <1>5, <1>6, <1>7

LEMMA ArkInit == ASSUME NEW papers, ShowArknights(papers) PROVE ArkInv
<1> USE ArkAssumption
<1>1. at = 0 /\ typed = [t \in Texts |-> 0] /\ eink = [p \in Panels |-> 1] /\ corner = [colour |-> 0, logo |-> 0] /\ arrow = 0
  BY DEF ShowArknights
<1>2. picture = [glyphs |-> [t \in Texts |-> <<>>], panel |-> [p \in Panels |-> "nothing"],
                 corner |-> corner, sweep |-> [s \in Sweeps |-> 0], arrow |-> 0]
  BY DEF ShowArknights
<1>3. ArkTyped BY <1>1 DEF ArkTyped
<1>4. ASSUME NEW part, StartOf(part) \in Nat, PerStep(part) \in Nat \ {0}, NEW steps \in Nat
      PROVE  OnTime(part, 0, steps, at)
  <2>1. FirstDue(part) \in Nat BY <1>4, RoundUp DEF FirstDue
  <2>2. (FirstDue(part) + 0) * PerStep(part) \in Nat BY <2>1, <1>4, SMT
  <2> QED BY <2>2, <1>1 DEF OnTime
<1>5. TextsDrawn
  <2> SUFFICES ASSUME NEW t \in Texts
               PROVE  picture.glyphs[t] = [k \in 1 .. typed[t] |-> k] /\ OnTime(t, typed[t], Length(t), at)
    BY DEF TextsDrawn
  <2>1. picture.glyphs[t] = <<>> /\ typed[t] = 0 BY <1>1, <1>2
  <2>2. <<>> = [k \in 1 .. 0 |-> k] BY SMT
  <2> QED BY <2>1, <2>2, <1>4
<1>6. PanelsDrawn
  <2> SUFFICES ASSUME NEW p \in Panels
               PROVE  picture.panel[p] = Looks(States[eink[p]]) /\ OnTime(p, eink[p] - 1, 5, at)
    BY DEF PanelsDrawn
  <2>1. picture.panel[p] = "nothing" /\ eink[p] = 1 BY <1>1, <1>2
  <2>2. Looks(States[1]) = "nothing" BY DEF Looks, States
  <2>3. p \in {"barcode", "class"} BY DEF Panels
  <2>4. OnTime(p, 0, 5, at) BY <2>3, <1>4
  <2> QED BY <2>1, <2>2, <2>4
<1>7. CornerRamps BY <1>1, <1>2 DEF CornerRamps
<1>8. SweepsDrawn BY <1>1 DEF SweepsDrawn, Sweeps
<1> QED BY <1>2, <1>3, <1>5, <1>6, <1>7, <1>8 DEF ArkInv

LEMMA ArkStep == ASSUME ArkInv, [ArkFrame]_arkVars PROVE ArkInv'
<1> USE ArkAssumption
<1>1. CASE UNCHANGED arkVars
  BY <1>1 DEF arkVars, ArkInv, ArkTyped, TextsDrawn, PanelsDrawn, CornerRamps, SweepsDrawn, OnTime
<1>2. ASSUME ArkFrame PROVE ArkInv'
  <2> DEFINE types == {t \in Texts : TypesOn(t)}
             flashing == {p \in Panels : Flashes(p)}
             grows == Ramps("colour", corner.colour, CornerEnd)
             fades == Ramps("logo", corner.logo, FullLogo)
  <2>a. ArkTyped /\ TextsDrawn /\ PanelsDrawn /\ CornerRamps /\ SweepsDrawn BY DEF ArkInv
  <2>b. at \in Nat /\ at' = at + 1 /\ at' \in Nat BY <1>2, <2>a DEF ArkTyped, ArkFrame
  <2>c. typed' = [t \in Texts |-> IF t \in types THEN typed[t] + 1 ELSE typed[t]] BY <1>2 DEF ArkFrame
  <2>d. eink' = [p \in Panels |-> IF p \in flashing THEN eink[p] + 1 ELSE eink[p]] BY <1>2 DEF ArkFrame
  <2>e. corner' = [colour |-> IF grows THEN Least(corner.colour + PerStep("colour"), CornerEnd) ELSE corner.colour,
                   logo |-> IF fades THEN Least(corner.logo + PerStep("logo"), FullLogo) ELSE corner.logo]
    BY <1>2 DEF ArkFrame
  <2>f. arrow' = ArrowNext BY <1>2 DEF ArkFrame
  <2>g. picture' =
          [glyphs |-> [t \in Texts |-> IF t \in types THEN Append(picture.glyphs[t], typed'[t]) ELSE picture.glyphs[t]],
           panel |-> [p \in Panels |-> IF p \in flashing THEN PanelDrawn(States[eink'[p]], picture.panel[p]) ELSE picture.panel[p]],
           corner |-> IF grows \/ fades THEN CornerDrawn(corner') ELSE picture.corner,
           sweep |-> [s \in Sweeps |-> IF Sweeping(s) THEN Swept(at - StartOf(s)) ELSE picture.sweep[s]],
           arrow |-> arrow]
    BY <1>2 DEF ArkFrame
  <2>h. typed \in [Texts -> Nat] /\ eink \in [Panels -> 1 .. 6] /\ arrow \in 0 .. ArrowHeight
        /\ corner \in [colour : 0 .. CornerEnd, logo : 0 .. FullLogo]
    BY <2>a DEF ArkTyped
  <2>i. corner.colour \in 0 .. CornerEnd /\ corner.logo \in 0 .. FullLogo BY <2>h
  <2>j. corner'.colour = (IF grows THEN Least(corner.colour + PerStep("colour"), CornerEnd) ELSE corner.colour)
        /\ corner'.logo = (IF fades THEN Least(corner.logo + PerStep("logo"), FullLogo) ELSE corner.logo)
        /\ corner' = [colour |-> corner'.colour, logo |-> corner'.logo]
    BY <2>e
  <2>k. States[1] = "firstBlack" /\ States[2] = "firstWhite" /\ States[3] = "secondBlack"
        /\ States[4] = "secondWhite" /\ States[5] = "idle" /\ States[6] = "content"
    BY DEF States
  <2> HIDE DEF types, flashing, grows, fades
  <2>1. ASSUME NEW t \in Texts
        PROVE  /\ typed'[t] = IF Due(t) /\ typed[t] # Length(t) THEN typed[t] + 1 ELSE typed[t]
               /\ typed'[t] \in Nat
               /\ picture'.glyphs[t] = [k \in 1 .. typed'[t] |-> k]
               /\ OnTime(t, typed[t], Length(t), at)'
    <3>1. typed[t] \in Nat /\ Length(t) \in Nat BY <2>h
    <3>2. t \in types <=> Due(t) /\ typed[t] # Length(t) BY DEF types, TypesOn
    <3>3. typed'[t] = IF t \in types THEN typed[t] + 1 ELSE typed[t] BY <2>c
    <3>4. picture.glyphs[t] = [k \in 1 .. typed[t] |-> k] /\ OnTime(t, typed[t], Length(t), at) BY <2>a DEF TextsDrawn
    <3>5. picture'.glyphs[t] = IF t \in types THEN Append(picture.glyphs[t], typed'[t]) ELSE picture.glyphs[t] BY <2>g
    <3>6. Append([k \in 1 .. typed[t] |-> k], typed[t] + 1) = [k \in 1 .. typed[t] + 1 |-> k]
      <4> DEFINE n == typed[t]
                 s == [k \in 1 .. n |-> k]
      <4>1. n \in Nat BY <3>1
      <4> HIDE DEF n
      <4>2. s \in Seq(Nat) /\ Len(s) = n BY <4>1, SMT
      <4>3. Append(s, n + 1) = [k \in 1 .. n + 1 |-> k] BY <4>1, <4>2, SMT
      <4> QED BY <4>3 DEF n
    <3>7. typed'[t] = IF Due(t) /\ typed[t] # Length(t) THEN typed[t] + 1 ELSE typed[t] BY <3>2, <3>3
    <3>8. typed'[t] \in Nat BY <3>1, <3>3
    <3>9. picture'.glyphs[t] = [k \in 1 .. typed'[t] |-> k]
      <4>1. CASE t \in types
        <5>1. typed'[t] = typed[t] + 1 BY <3>3, <4>1
        <5>2. picture'.glyphs[t] = Append([k \in 1 .. typed[t] |-> k], typed[t] + 1) BY <3>4, <3>5, <4>1, <5>1
        <5> QED BY <5>1, <5>2, <3>6
      <4>2. CASE t \notin types
        <5>1. typed'[t] = typed[t] BY <3>3, <4>2
        <5>2. picture'.glyphs[t] = [k \in 1 .. typed[t] |-> k] BY <3>4, <3>5, <4>2
        <5> QED BY <5>1, <5>2
      <4> QED BY <4>1, <4>2
    <3>10. OnTime(t, typed[t], Length(t), at)'
      <4> DEFINE n1 == typed'[t]
      <4>1. OnTime(t, n1, Length(t), at + 1) BY <2>b, <3>1, <3>4, <3>7, StepOnTime
      <4> QED BY <4>1, <2>b
    <3> QED BY <3>7, <3>8, <3>9, <3>10
  <2>2. TextsDrawn' BY <2>1 DEF TextsDrawn
  <2>3. ASSUME NEW p \in Panels
        PROVE  /\ eink'[p] \in 1 .. 6
               /\ picture'.panel[p] = Looks(States[eink'[p]])
               /\ OnTime(p, eink[p] - 1, 5, at)'
    <3> DEFINE s == eink[p]
    <3>1. s \in 1 .. 6 BY <2>h
    <3>2. p \in flashing <=> Due(p) /\ s # 6
      <4>1. States[s] # "content" <=> s # 6 BY <2>k, <3>1
      <4> QED BY <4>1 DEF flashing, Flashes
    <3>3. eink'[p] = IF p \in flashing THEN s + 1 ELSE s BY <2>d
    <3>4. picture.panel[p] = Looks(States[s]) /\ OnTime(p, s - 1, 5, at) BY <2>a DEF PanelsDrawn
    <3>5. picture'.panel[p] = IF p \in flashing THEN PanelDrawn(States[eink'[p]], picture.panel[p]) ELSE picture.panel[p] BY <2>g
    <3>6. eink'[p] \in 1 .. 6 BY <3>1, <3>2, <3>3
    <3>7. picture'.panel[p] = Looks(States[eink'[p]])
      <4>1. CASE p \notin flashing BY <4>1, <3>3, <3>4, <3>5
      <4>2. CASE p \in flashing
        <5>1. eink'[p] = s + 1 /\ s \in 1 .. 5 BY <4>2, <3>1, <3>2, <3>3
        <5>2. picture'.panel[p] = PanelDrawn(States[s + 1], Looks(States[s])) BY <4>2, <5>1, <3>4, <3>5
        <5>3. PanelDrawn(States[s + 1], Looks(States[s])) = Looks(States[s + 1])
          <6>1. s = 1 \/ s = 2 \/ s = 3 \/ s = 4 \/ s = 5 BY <5>1
          <6>2. CASE s = 1 BY <6>2, <2>k DEF PanelDrawn, Looks
          <6>3. CASE s = 2 BY <6>3, <2>k DEF PanelDrawn, Looks
          <6>4. CASE s = 3 BY <6>4, <2>k DEF PanelDrawn, Looks
          <6>5. CASE s = 4 BY <6>5, <2>k DEF PanelDrawn, Looks
          <6>6. CASE s = 5 BY <6>6, <2>k DEF PanelDrawn, Looks
          <6> QED BY <6>1, <6>2, <6>3, <6>4, <6>5, <6>6
        <5> QED BY <5>1, <5>2, <5>3
      <4> QED BY <4>1, <4>2
    <3>8. OnTime(p, eink[p] - 1, 5, at)'
      <4> DEFINE n1 == eink'[p] - 1
                 n == s - 1
      <4>1. n \in Nat /\ (n # 5 <=> s # 6) /\ OnTime(p, n, 5, at) BY <3>1, <3>4
      <4>2. n1 = IF Due(p) /\ n # 5 THEN n + 1 ELSE n BY <3>1, <3>2, <3>3, <4>1
      <4>3. StartOf(p) \in Nat /\ PerStep(p) \in Nat \ {0} BY DEF Panels
      <4> HIDE DEF n, n1
      <4>4. OnTime(p, n1, 5, at + 1) BY <2>b, <4>1, <4>2, <4>3, StepOnTime
      <4> QED BY <4>4, <2>b DEF n1
    <3> QED BY <3>6, <3>7, <3>8
  <2>4. PanelsDrawn' BY <2>3 DEF PanelsDrawn
  <2>5. corner'.colour \in 0 .. CornerEnd /\ corner'.logo \in 0 .. FullLogo
    BY <2>i, <2>j DEF Least
  <2>6. CornerRamps'
    <3>1. CornerRamps BY <2>a
    <3>2. corner'.colour = CornerEnd \/ at' <= StartOf("colour") + corner'.colour
      BY <3>1, <2>b, <2>i, <2>j DEF CornerRamps, grows, Ramps, Least
    <3>3. corner'.logo = FullLogo \/ at' <= StartOf("logo") + corner'.logo
      BY <3>1, <2>b, <2>i, <2>j DEF CornerRamps, fades, Ramps, Least
    <3>4. picture'.corner = IF grows \/ fades THEN CornerDrawn(corner') ELSE picture.corner BY <2>g
    <3>5. corner'.colour >= 2 => picture'.corner = corner'
      <4>1. CASE grows \/ fades
        <5>1. picture'.corner = CornerDrawn(corner') BY <3>4, <4>1
        <5>2. corner'.colour >= 2 => ~(corner'.colour < 2) BY <2>5
        <5> QED BY <5>1, <5>2 DEF CornerDrawn
      <4>2. CASE ~grows /\ ~fades
        <5>1. corner' = corner BY <2>e, <2>h, <4>2
        <5>2. picture'.corner = picture.corner BY <3>4, <4>2
        <5> QED BY <5>1, <5>2, <3>1 DEF CornerRamps
      <4> QED BY <4>1, <4>2
    <3> QED BY <3>2, <3>3, <3>5 DEF CornerRamps
  <2>7. SweepsDrawn'
    <3> SUFFICES ASSUME NEW s \in Sweeps, at' > StartOf(s)
                 PROVE  picture'.sweep[s] = Swept(Least(at' - 1 - StartOf(s), SweepFrames - 1))
      BY DEF SweepsDrawn
    <3>1. StartOf(s) \in Nat BY DEF Sweeps
    <3>2. picture'.sweep[s] = IF Sweeping(s) THEN Swept(at - StartOf(s)) ELSE picture.sweep[s] BY <2>g
    <3>3. at > StartOf(s) => picture.sweep[s] = Swept(Least(at - 1 - StartOf(s), SweepFrames - 1)) BY <2>a DEF SweepsDrawn
    <3>4. CASE Sweeping(s)
      <4>1. at - StartOf(s) \in 0 .. SweepFrames - 1 BY <3>4 DEF Sweeping
      <4>2. Least(at' - 1 - StartOf(s), SweepFrames - 1) = at - StartOf(s) BY <4>1, <3>1, <2>b DEF Least
      <4> QED BY <4>2, <3>2, <3>4
    <3>5. CASE ~Sweeping(s)
      <4>1. ~(at - StartOf(s) \in 0 .. SweepFrames - 1) BY <3>5 DEF Sweeping
      <4>2. at - StartOf(s) >= SweepFrames BY <4>1, <3>1, <2>b
      <4>3. at > StartOf(s) BY <4>2, <3>1, <2>b
      <4>4. Least(at' - 1 - StartOf(s), SweepFrames - 1) = SweepFrames - 1 BY <4>2, <3>1, <2>b DEF Least
      <4>5. Least(at - 1 - StartOf(s), SweepFrames - 1) = SweepFrames - 1 BY <4>2, <3>1, <2>b DEF Least
      <4> QED BY <4>3, <4>4, <4>5, <3>2, <3>3, <3>5
    <3> QED BY <3>4, <3>5
  <2>8. ArkTyped'
    <3>1. typed' \in [Texts -> Nat] BY <2>1, <2>c
    <3>2. eink' \in [Panels -> 1 .. 6] BY <2>3, <2>d
    <3>3. corner' \in [colour : 0 .. CornerEnd, logo : 0 .. FullLogo] BY <2>5, <2>j
    <3>4. arrow' \in 0 .. ArrowHeight BY <2>f, <2>h DEF ArrowNext
    <3> QED BY <2>b, <3>1, <3>2, <3>3, <3>4 DEF ArkTyped
  <2>9. picture'.arrow \in 0 .. ArrowHeight BY <2>g, <2>h
  <2> QED BY <2>2, <2>4, <2>6, <2>7, <2>8, <2>9 DEF ArkInv
<1> QED BY <1>1, <1>2

LEMMA ArkInvIsWhole == ASSUME ArkInv PROVE PassIsWhole
<1> USE ArkAssumption
<1>0. ArkTyped /\ TextsDrawn /\ PanelsDrawn /\ CornerRamps /\ SweepsDrawn /\ picture.arrow \in 0 .. ArrowHeight BY DEF ArkInv
<1>1. at \in Nat /\ typed \in [Texts -> Nat] /\ eink \in [Panels -> 1 .. 6] BY <1>0 DEF ArkTyped
<1>2. ASSUME NEW t \in Texts
      PROVE  picture.glyphs[t] = [k \in 1 .. typed[t] |-> k] /\ (Settled(t, Length(t)) => typed[t] = Length(t))
  <2>1. typed[t] \in Nat /\ Length(t) \in Nat BY <1>1
  <2>2. picture.glyphs[t] = [k \in 1 .. typed[t] |-> k] /\ OnTime(t, typed[t], Length(t), at) BY <1>0 DEF TextsDrawn
  <2> QED BY <2>1, <2>2, <1>1, DoneInTime
<1>3. ASSUME NEW p \in Panels
      PROVE  picture.panel[p] = Looks(States[eink[p]]) /\ (Settled(p, 5) => picture.panel[p] = "content")
  <2> DEFINE n == eink[p] - 1
  <2>1. n \in Nat /\ eink[p] \in 1 .. 6 BY <1>1
  <2>2. picture.panel[p] = Looks(States[eink[p]]) /\ OnTime(p, n, 5, at) BY <1>0 DEF PanelsDrawn
  <2>3. StartOf(p) \in Nat /\ PerStep(p) \in Nat \ {0} BY DEF Panels
  <2> HIDE DEF n
  <2>4. Settled(p, 5) => n = 5 BY <2>1, <2>2, <2>3, <1>1, DoneInTime
  <2>5. n = 5 => eink[p] = 6 BY <2>1 DEF n
  <2>6. Looks(States[6]) = "content" BY DEF Looks, States
  <2> QED BY <2>2, <2>4, <2>5, <2>6
<1>4. corner \in [colour : 0 .. CornerEnd, logo : 0 .. FullLogo] BY <1>0 DEF ArkTyped
<1>5. at > StartOf("logo") + FullLogo /\ at > StartOf("colour") + CornerEnd =>
          picture.corner = [colour |-> CornerEnd, logo |-> FullLogo]
  <2> SUFFICES ASSUME at > StartOf("logo") + FullLogo, at > StartOf("colour") + CornerEnd
               PROVE  picture.corner = [colour |-> CornerEnd, logo |-> FullLogo]
    OBVIOUS
  <2>1. corner.colour \in 0 .. CornerEnd /\ corner.logo \in 0 .. FullLogo BY <1>4
  <2>2. StartOf("logo") \in Nat /\ StartOf("colour") \in Nat OBVIOUS
  <2>3. corner.colour = CornerEnd BY <1>0, <1>1, <2>1, <2>2 DEF CornerRamps
  <2>4. corner.logo = FullLogo BY <1>0, <1>1, <2>1, <2>2 DEF CornerRamps
  <2>5. corner = [colour |-> CornerEnd, logo |-> FullLogo] BY <1>4, <2>3, <2>4
  <2>6. corner.colour >= 2 BY <2>3
  <2> QED BY <2>5, <2>6, <1>0 DEF CornerRamps
<1>6. ASSUME NEW s \in Sweeps, at >= StartOf(s) + SweepFrames
      PROVE  picture.sweep[s] = Swept(SweepFrames - 1)
  <2>1. StartOf(s) \in Nat BY DEF Sweeps
  <2>2. at > StartOf(s) BY <1>1, <1>6, <2>1
  <2>3. Least(at - 1 - StartOf(s), SweepFrames - 1) = SweepFrames - 1 BY <1>1, <1>6, <2>1 DEF Least
  <2> QED BY <2>2, <2>3, <1>0 DEF SweepsDrawn
<1>7. corner.colour >= 2 => picture.corner = corner BY <1>0 DEF CornerRamps
<1> QED BY <1>0, <1>2, <1>3, <1>5, <1>6, <1>7 DEF PassIsWhole

\* When the pass is over every text is written, every panel is in its last look, the
\* ramps and sweeps are at their end and the corner is drawn as large as it got, for
\* any table of starts and steps that end before it (arknights_worker): the pass shows
\* nothing half done, whichever parts were drawn in which frame.
THEOREM PassIsWholeCorrect == ArkSpec => []PassIsWhole
<1>1. ShowArknights(Papers) => ArkInv BY ArkInit
<1>2. ArkInv /\ [ArkFrame]_arkVars => ArkInv' BY ArkStep
<1>3. ArkInv => PassIsWhole BY ArkInvIsWhole
<1> QED BY <1>1, <1>2, <1>3, PTL DEF ArkSpec

------------------------------------------------------------------------------
(* Transitions *)

\* fade and move, which differ in what of the plane their steps change: from, over
\* the aim that covers the screen, to where it is out of view
Changed == IF kind = "fade" THEN "alpha" ELSE "x"
ValueNow == IF kind = "fade" THEN plane.alpha ELSE plane.x
Begin == IF kind = "fade" THEN 0 ELSE Columns
Aim == IF kind = "fade" THEN Solid ELSE 0
Gone == IF kind = "fade" THEN 0 ELSE -Columns
StepCount == duration \div StepTime
StepsIn == Animation(Changed, Begin, Aim, 0)
StepsOut == Animation(Changed, Aim, Gone, 2 * duration)
LastStep(to, delay) == [due |-> delay + (StepCount - 1) * StepTime, what |-> Changed, to |-> to]
LastIn == LastStep(Aim, 0)
LastOut == LastStep(Gone, 2 * duration)
Pending(what) == \E t \in timers : t.what = what

TrTyped ==
  /\ kind \in Kinds /\ duration \in Nat /\ image \in BOOLEAN
  /\ now \in Nat
  /\ plane \in [alpha : Int, x : Int]
  /\ called \in [middle : Nat, end : Nat, freed : Nat]
  /\ swipe \in Int
  /\ cols \in [Col -> {"image", "colour", "clear"}]

\* The steps of the way in are over when the last of them has fired, which stands
\* till the way out begins; and the same of the way out.
Steps ==
  /\ LastIn \in timers \/ (/\ \A t \in timers : t.what = Changed => t.due >= 2 * duration
                           /\ now < 2 * duration => ValueNow = Aim)
  /\ LastOut \in timers \/ (~Pending(Changed) /\ ValueNow = Gone)

Timed ==
  /\ swipe = -1 /\ cols = Filled
  /\ timers \subseteq StepsIn \cup StepsOut \cup TransitionCalls
  /\ \A t \in timers : now <= t.due + Late
  /\ IF kind = "fade" THEN plane.x = 0 ELSE plane.alpha = Solid
  /\ called.middle = (IF Pending("middle") THEN 0 ELSE 1)
  /\ called.end = (IF Pending("end") THEN 0 ELSE 1)
  /\ called.freed = (IF Pending("cleanup") THEN 0 ELSE 1)
  /\ duration >= StepTime => Steps

\* Where the next frame of the first stage begins: everything before it is painted.
PaintedTo(f) == IF f = 0 THEN 0 ELSE IF f < Stage THEN Bezier[f] ELSE Columns

Swiping ==
  /\ \A t \in timers : t.what = "frame"
  /\ swipe = -1 \/ (0 <= swipe /\ called.end = 0 /\ called.freed = 0 /\ plane = [alpha |-> Solid, x |-> 0])
  /\ swipe = -1 => called.end = 1 /\ called.freed = 1 /\ called.middle <= 1
  /\ swipe >= 0 => called.middle = (IF Stage >= 1 /\ swipe > Stage THEN 1 ELSE 0)
  /\ swipe \in 0 .. Stage => \A c \in Col : c < PaintedTo(swipe) => cols[c] = Filled[c]
  /\ swipe \in Stage .. 2 * Stage /\ Stage >= 1 => cols = Filled

TrInv == TrTyped /\ IF kind = "swipe" THEN Swiping ELSE Timed

\* What the theorems assume: no timer is as late as a step or a frame, and a picture
\* a swipe shows has an even width.
TimersPunctual == Late < StepTime /\ Late < FrameTime
EvenPicture == kind = "swipe" /\ image => ImageWidth % 2 = 0

LEMMA Quotient ==
  ASSUME NEW d \in Nat, NEW p \in Nat \ {0}, NEW n, n = d \div p
  PROVE  /\ n \in Nat /\ n * p <= d /\ d < n * p + p
         /\ d >= p <=> n >= 1
<1>1. d = p * (d \div p) + (d % p) /\ d % p \in 0 .. p - 1 /\ d \div p \in Nat BY SMTT(30)
<1>2. n \in Nat /\ n * p <= d /\ d < n * p + p BY <1>1, SMTT(30)
<1>3. ASSUME d >= p PROVE n >= 1
  <2> SUFFICES ASSUME n = 0 PROVE FALSE BY <1>2
  <2>1. n * p = 0 BY SMT
  <2> QED BY <1>2, <1>3, <2>1
<1>4. ASSUME n >= 1 PROVE d >= p
  <2>1. PICK k \in Nat : n = k + 1 BY <1>2, <1>4
  <2>2. n * p = k * p + p /\ k * p \in Nat BY <2>1, SMT
  <2> QED BY <1>2, <2>2
<1> QED BY <1>2, <1>3, <1>4

\* The steps of an animation lie within its duration, from the first to the last.
LEMMA StepTimes ==
  ASSUME NEW n \in Nat, n >= 1, NEW p \in Nat \ {0}, NEW i \in 0 .. n - 1
  PROVE  /\ i * p \in Nat /\ (n - 1) * p \in Nat /\ i * p <= (n - 1) * p /\ (n - 1) * p + p = n * p
         /\ i * p = (n - 1) * p => i = n - 1
<1>1. PICK k \in Nat : n - 1 = i + k BY SMT
<1>2. (n - 1) * p = i * p + k * p /\ k * p \in Nat /\ i * p \in Nat BY <1>1, SMT
<1>3. (n - 1) * p + p = n * p BY SMT
<1>4. ASSUME k # 0 PROVE k * p >= p
  <2>1. PICK j \in Nat : k = j + 1 BY <1>4, SMT
  <2>2. k * p = j * p + p /\ j * p \in Nat BY <2>1, SMT
  <2> QED BY <2>2
<1> QED BY <1>1, <1>2, <1>3, <1>4

LEMMA AnimationSteps ==
  ASSUME duration \in Nat, duration >= StepTime, NEW what, NEW from \in Int, NEW to \in Int, NEW delay \in Nat
  PROVE  LET last == [due |-> delay + (StepCount - 1) * StepTime, what |-> what, to |-> to]
         IN  /\ last \in Animation(what, from, to, delay)
             /\ last.due \in Nat /\ last.due >= delay /\ last.due + StepTime <= delay + duration
             /\ \A t \in Animation(what, from, to, delay) :
                  /\ t.what = what /\ t.to \in Int
                  /\ t.due \in Nat /\ t.due >= delay /\ t.due <= last.due
                  /\ t.due = last.due => t = last
<1> DEFINE n == StepCount
           values == StepValues(n, from, to)
           last == [due |-> delay + (n - 1) * StepTime, what |-> what, to |-> to]
<1> USE TransitionAssumption
<1>1. n \in Nat /\ n >= 1 /\ n * StepTime <= duration BY Quotient DEF StepCount
<1>2. Animation(what, from, to, delay) =
        {[due |-> delay + i * StepTime, what |-> what, to |-> values[i]] : i \in 0 .. n - 1}
  BY DEF Animation, StepCount
<1>3. \A i \in 0 .. n - 1 : values[i] = IF i = n - 1 THEN to ELSE Curve(i, n, from, to) BY DEF StepValues
<1> HIDE DEF n, values
<1>4. ASSUME NEW i \in 0 .. n - 1 PROVE values[i] \in Int
  <2>1. Curve(i, n, from, to) \in Int
    <3>1. (to - from) * i \in Int BY <1>1, SMT
    <3>2. ((to - from) * i) \div n \in Int BY <1>1, <3>1, SMT
    <3> QED BY <3>2 DEF Curve
  <2> QED BY <2>1, <1>3
<1>5. values[n - 1] = to BY <1>1, <1>3
<1>6. last \in Animation(what, from, to, delay) BY <1>1, <1>2, <1>5
<1>7. (n - 1) * StepTime \in Nat /\ (n - 1) * StepTime + StepTime = n * StepTime BY <1>1, StepTimes
<1>8. last.due \in Nat /\ last.due >= delay /\ last.due + StepTime <= delay + duration BY <1>1, <1>7
<1>9. ASSUME NEW t \in Animation(what, from, to, delay)
      PROVE  /\ t.what = what /\ t.to \in Int
             /\ t.due \in Nat /\ t.due >= delay /\ t.due <= last.due
             /\ t.due = last.due => t = last
  <2>1. PICK i \in 0 .. n - 1 : t = [due |-> delay + i * StepTime, what |-> what, to |-> values[i]] BY <1>2
  <2>2. i * StepTime \in Nat /\ i * StepTime <= (n - 1) * StepTime /\ (i * StepTime = (n - 1) * StepTime => i = n - 1)
    BY <1>1, StepTimes
  <2>3. t.due = delay + i * StepTime /\ t.what = what /\ t.to = values[i] BY <2>1
  <2>4. t.due = last.due => i = n - 1 BY <2>2, <2>3, <1>7
  <2>5. t.due = last.due => t = last BY <2>1, <2>4, <1>5
  <2> QED BY <2>2, <2>3, <2>5, <1>4, <1>7
<1> QED BY <1>6, <1>8, <1>9 DEF n

\* What is known of the timers of a fade or a move.
LEMMA TheTimers ==
  ASSUME TrTyped, kind # "swipe"
  PROVE  /\ \A t \in TransitionCalls : t.what \in {"middle", "end", "cleanup"} /\ t.due \in Nat
         /\ \A t, u \in TransitionCalls : t.what = u.what => t = u
         /\ \A t \in TransitionCalls : t.what = "middle" => t.due = duration
         /\ \A t \in TransitionCalls : t.what = "end" => t.due = 3 * duration
         /\ \A t \in StepsIn \cup StepsOut : t.what = Changed /\ t.to \in Int /\ t.due \in Nat
         /\ Changed \in {"alpha", "x"}
         /\ duration >= StepTime =>
              /\ LastIn \in StepsIn /\ LastOut \in StepsOut
              /\ \A t \in StepsIn : t.due <= LastIn.due /\ (t.due = LastIn.due => t = LastIn)
              /\ \A t \in StepsOut : t.due >= 2 * duration /\ t.due <= LastOut.due /\ (t.due = LastOut.due => t = LastOut)
              /\ LastIn.due \in Nat /\ LastIn.due + StepTime <= duration
              /\ LastOut.due >= 2 * duration /\ LastOut.due + StepTime <= 3 * duration
<1> USE TransitionAssumption DEF TrTyped
<1>1. /\ \A t \in TransitionCalls : t.what \in {"middle", "end", "cleanup"} /\ t.due \in Nat
      /\ \A t, u \in TransitionCalls : t.what = u.what => t = u
      /\ \A t \in TransitionCalls : t.what = "middle" => t.due = duration
      /\ \A t \in TransitionCalls : t.what = "end" => t.due = 3 * duration
  BY DEF TransitionCalls, Once
<1>2. Changed \in {"alpha", "x"} BY DEF Changed
<1>3. Begin \in Int /\ Aim \in Int /\ Gone \in Int BY DEF Begin, Aim, Gone, Solid
<1>4. CASE duration >= StepTime
  <2> DEFINE a == Begin
             b == Aim
             c == Gone
             w == Changed
  <2>1. 0 \in Nat /\ 2 * duration \in Nat OBVIOUS
  <2>2. /\ LastIn \in StepsIn /\ LastIn.due \in Nat /\ LastIn.due + StepTime <= duration
        /\ \A t \in StepsIn : t.what = w /\ t.to \in Int /\ t.due \in Nat /\ t.due <= LastIn.due /\ (t.due = LastIn.due => t = LastIn)
    <3> HIDE DEF w
    <3>1. /\ [due |-> 0 + (StepCount - 1) * StepTime, what |-> w, to |-> b] \in Animation(w, a, b, 0)
          /\ [due |-> 0 + (StepCount - 1) * StepTime, what |-> w, to |-> b].due \in Nat
          /\ [due |-> 0 + (StepCount - 1) * StepTime, what |-> w, to |-> b].due + StepTime <= 0 + duration
          /\ \A t \in Animation(w, a, b, 0) :
               /\ t.what = w /\ t.to \in Int /\ t.due \in Nat
               /\ t.due <= [due |-> 0 + (StepCount - 1) * StepTime, what |-> w, to |-> b].due
               /\ t.due = [due |-> 0 + (StepCount - 1) * StepTime, what |-> w, to |-> b].due
                    => t = [due |-> 0 + (StepCount - 1) * StepTime, what |-> w, to |-> b]
      BY <1>3, <1>4, <2>1, AnimationSteps
    <3>2. LastIn = [due |-> 0 + (StepCount - 1) * StepTime, what |-> w, to |-> b] BY DEF LastIn, LastStep, w
    <3>3. StepsIn = Animation(w, a, b, 0) BY DEF StepsIn, w
    <3> HIDE DEF a, b
    <3> QED BY <3>1, <3>2, <3>3
  <2>3. /\ LastOut \in StepsOut /\ LastOut.due >= 2 * duration /\ LastOut.due + StepTime <= 3 * duration
        /\ \A t \in StepsOut : /\ t.what = w /\ t.to \in Int /\ t.due \in Nat
                          /\ t.due >= 2 * duration /\ t.due <= LastOut.due /\ (t.due = LastOut.due => t = LastOut)
    <3> DEFINE d == 2 * duration
               l == [due |-> d + (StepCount - 1) * StepTime, what |-> w, to |-> c]
    <3> HIDE DEF w, d
    <3>1. d \in Nat BY <2>1 DEF d
    <3>2. /\ l \in Animation(w, b, c, d)
          /\ l.due \in Nat /\ l.due >= d /\ l.due + StepTime <= d + duration
          /\ \A t \in Animation(w, b, c, d) :
               /\ t.what = w /\ t.to \in Int
               /\ t.due \in Nat /\ t.due >= d /\ t.due <= l.due
               /\ t.due = l.due => t = l
      BY <1>3, <1>4, <3>1, AnimationSteps
    <3>3. LastOut = l BY DEF LastOut, LastStep, w, d
    <3>4. StepsOut = Animation(w, b, c, d) BY DEF StepsOut, w, d
    <3>5. d + duration = 3 * duration BY DEF d
    <3> HIDE DEF a, b, c, l
    <3> QED BY <3>2, <3>3, <3>4, <3>5 DEF d
  <2> QED BY <1>1, <1>2, <2>2, <2>3
<1>5. CASE ~(duration >= StepTime)
  <2>0. StepCount \in Nat /\ (duration >= StepTime <=> StepCount >= 1) BY Quotient DEF StepCount
  <2>1. StepCount = 0 BY <2>0, <1>5
  <2>2. StepsIn = {} /\ StepsOut = {} BY <2>1 DEF StepsIn, StepsOut, Animation, StepCount
  <2> QED BY <1>1, <1>2, <1>5, <2>2
<1> QED BY <1>4, <1>5

\* A timer of a fade or a move fires: the last step of a way leaves nothing of it.
LEMMA StepsFire ==
  ASSUME TrInv, kind # "swipe", duration >= StepTime,
         NEW t \in timers, t.due <= now, \A u \in timers : u.what = t.what => t.due <= u.due,
         timers' = timers \ {t}, UNCHANGED <<kind, duration, now>>,
         ValueNow' = IF t.what = Changed THEN t.to ELSE ValueNow
  PROVE  Steps'
<1> USE TransitionAssumption
<1>1. TrTyped /\ Timed BY DEF TrInv
<1>2. Steps /\ timers \subseteq StepsIn \cup StepsOut \cup TransitionCalls BY <1>1 DEF Timed
<1>3. duration \in Nat /\ now \in Nat BY <1>1 DEF TrTyped
<1>4. Changed' = Changed /\ LastIn' = LastIn /\ LastOut' = LastOut
  BY DEF Changed, LastIn, LastOut, LastStep, StepCount, Aim, Gone
<1>5. /\ \A u \in TransitionCalls : u.what \in {"middle", "end", "cleanup"}
      /\ Changed \in {"alpha", "x"}
      /\ LastIn \in StepsIn /\ LastOut \in StepsOut
      /\ \A u \in StepsIn : u.what = Changed /\ u.due \in Nat /\ u.due <= LastIn.due /\ (u.due = LastIn.due => u = LastIn)
      /\ \A u \in StepsOut : u.what = Changed /\ u.due \in Nat /\ u.due >= 2 * duration /\ u.due <= LastOut.due /\ (u.due = LastOut.due => u = LastOut)
      /\ LastIn.due \in Nat /\ LastIn.due + StepTime <= duration
      /\ LastOut.due >= 2 * duration
  BY <1>1, TheTimers
<1>6. \A u \in timers : u.what = Changed => u \in StepsIn \cup StepsOut BY <1>2, <1>5
<1>7. LastIn.to = Aim /\ LastOut.to = Gone BY DEF LastIn, LastOut, LastStep
<1>8. LastIn \in timers' \/ (/\ \A u \in timers' : u.what = Changed => u.due >= 2 * duration
                             /\ now < 2 * duration => ValueNow' = Aim)
  <2>1. CASE LastIn \in timers /\ t # LastIn BY <2>1
  <2>2. CASE t = LastIn
    <3>1. t.what = Changed BY <2>2, <1>5
    <3>2. ValueNow' = Aim BY <3>1, <2>2, <1>7
    <3>3. ASSUME NEW u \in timers', u.what = Changed PROVE u.due >= 2 * duration
      <4>1. u \in timers /\ u # t /\ t.due <= u.due BY <3>1, <3>3
      <4>2. u \notin StepsIn BY <4>1, <2>2, <1>5
      <4> QED BY <4>1, <4>2, <3>3, <1>5, <1>6
    <3> QED BY <3>2, <3>3
  <2>3. CASE LastIn \notin timers
    <3>1. /\ \A u \in timers : u.what = Changed => u.due >= 2 * duration
          /\ now < 2 * duration => ValueNow = Aim
      BY <2>3, <1>2 DEF Steps
    <3>2. now < 2 * duration => t.what # Changed
      <4> SUFFICES ASSUME t.what = Changed PROVE ~(now < 2 * duration) OBVIOUS
      <4>1. t.due \in Nat /\ t.due >= 2 * duration BY <3>1, <1>5, <1>6
      <4> QED BY <4>1, <1>3
    <3> QED BY <3>1, <3>2
  <2> QED BY <2>1, <2>2, <2>3
<1>9. LastOut \in timers' \/ ((\A u \in timers' : u.what # Changed) /\ ValueNow' = Gone)
  <2>1. CASE LastOut \in timers /\ t # LastOut BY <2>1
  <2>2. CASE t = LastOut
    <3>1. t.what = Changed BY <2>2, <1>5
    <3>2. ValueNow' = Gone BY <3>1, <2>2, <1>7
    <3>3. ASSUME NEW u \in timers', u.what = Changed PROVE FALSE
      <4>1. u \in timers /\ u # t /\ t.due <= u.due BY <3>1, <3>3
      <4>2. u \notin StepsOut BY <4>1, <2>2, <1>5
      <4>3. u \in StepsIn BY <4>1, <4>2, <3>3, <1>6
      <4>4. u.due \in Nat /\ u.due <= LastIn.due /\ t.due >= 2 * duration /\ t.due \in Nat BY <4>3, <2>2, <1>5
      <4> QED BY <4>1, <4>4, <1>3, <1>5
    <3> QED BY <3>2, <3>3
  <2>3. CASE LastOut \notin timers
    <3>1. ~Pending(Changed) /\ ValueNow = Gone BY <2>3, <1>2 DEF Steps
    <3> QED BY <3>1 DEF Pending
  <2> QED BY <2>1, <2>2, <2>3
<1>10. Aim' = Aim /\ Gone' = Gone BY DEF Aim, Gone
<1> QED BY <1>4, <1>8, <1>9, <1>10 DEF Steps, Pending

LEMMA TimersFire ==
  ASSUME TrInv, kind # "swipe", NEW what, Fire(what)
  PROVE  /\ TrInv'
         /\ called'.middle # called.middle => what = "middle" /\ Pending("middle") /\ duration <= now
         /\ called'.end # called.end => what = "end" /\ 3 * duration <= now /\ Pending("end")
         /\ what \in {"middle", "end", "cleanup"} => plane' = plane
<1> USE TransitionAssumption
<1>1. TrTyped /\ Timed BY DEF TrInv
<1>2. PICK t \in timers :
        /\ t.what = what /\ t.due <= now
        /\ \A u \in timers : u.what = what => t.due <= u.due
        /\ timers' = timers \ {t}
  BY DEF Fire
<1>3. plane' = CASE what = "alpha" -> [plane EXCEPT !.alpha = t.to]
                 [] what = "x" -> [plane EXCEPT !.x = t.to]
                 [] OTHER -> plane
  BY <1>2 DEF Fire
<1>4. called' = CASE what = "middle" -> [called EXCEPT !.middle = @ + 1]
                  [] what = "end" -> [called EXCEPT !.end = @ + 1]
                  [] what = "cleanup" -> [called EXCEPT !.freed = @ + 1]
                  [] OTHER -> called
  BY DEF Fire
<1>5. UNCHANGED <<kind, duration, image, now, cols, swipe>> BY DEF Fire
<1>6. /\ \A u \in TransitionCalls : u.what \in {"middle", "end", "cleanup"} /\ u.due \in Nat
      /\ \A u, v \in TransitionCalls : u.what = v.what => u = v
      /\ \A u \in TransitionCalls : u.what = "middle" => u.due = duration
      /\ \A u \in TransitionCalls : u.what = "end" => u.due = 3 * duration
      /\ \A u \in StepsIn \cup StepsOut : u.what = Changed /\ u.to \in Int /\ u.due \in Nat
      /\ Changed \in {"alpha", "x"}
  BY <1>1, TheTimers
<1>7. timers \subseteq StepsIn \cup StepsOut \cup TransitionCalls BY <1>1 DEF Timed
<1>8. plane \in [alpha : Int, x : Int] /\ called \in [middle : Nat, end : Nat, freed : Nat] BY <1>1 DEF TrTyped
<1>9. what \in {Changed, "middle", "end", "cleanup"} BY <1>2, <1>6, <1>7
<1>10. what = Changed => t.to \in Int BY <1>2, <1>6, <1>7
<1>11. /\ plane' \in [alpha : Int, x : Int]
       /\ IF kind = "fade" THEN plane'.x = plane.x ELSE plane'.alpha = plane.alpha
       /\ ValueNow' = IF what = Changed THEN t.to ELSE ValueNow
       /\ what \in {"middle", "end", "cleanup"} => plane' = plane
  <2>1. CASE what = "alpha"
    <3>1. Changed = "alpha" /\ kind = "fade" BY <2>1, <1>9 DEF Changed
    <3>2. plane' = [plane EXCEPT !.alpha = t.to] BY <1>3, <2>1
    <3> QED BY <3>1, <3>2, <2>1, <1>5, <1>8, <1>10 DEF ValueNow
  <2>2. CASE what = "x"
    <3>1. Changed = "x" /\ kind # "fade" BY <2>2, <1>9 DEF Changed
    <3>2. plane' = [plane EXCEPT !.x = t.to] BY <1>3, <2>2
    <3> QED BY <3>1, <3>2, <2>2, <1>5, <1>8, <1>10 DEF ValueNow
  <2>3. CASE what \in {"middle", "end", "cleanup"}
    <3>1. plane' = plane BY <1>3, <2>3
    <3>2. what # Changed BY <2>3, <1>6
    <3> QED BY <3>1, <3>2, <1>5, <1>8 DEF ValueNow
  <2> QED BY <2>1, <2>2, <2>3, <1>6, <1>9
<1>12. ASSUME NEW w \in {"middle", "end", "cleanup"}
       PROVE  /\ w # what => (Pending(w)' <=> Pending(w))
              /\ w = what => Pending(w) /\ ~Pending(w)'
  <2>1. CASE w # what BY <2>1, <1>2 DEF Pending
  <2>2. CASE w = what
    <3>1. Pending(w) BY <2>2, <1>2 DEF Pending
    <3>2. \A u \in timers : u.what = w => u \in TransitionCalls BY <1>6, <1>7
    <3>3. \A u \in timers : u.what = w => u = t BY <3>2, <2>2, <1>2, <1>6
    <3> QED BY <3>1, <3>3, <2>2, <1>2 DEF Pending
  <2> QED BY <2>1, <2>2
<1>13. /\ called.middle = (IF Pending("middle") THEN 0 ELSE 1)
       /\ called.end = (IF Pending("end") THEN 0 ELSE 1)
       /\ called.freed = (IF Pending("cleanup") THEN 0 ELSE 1)
  BY <1>1 DEF Timed
<1>14. /\ called'.middle = (IF what = "middle" THEN 1 ELSE called.middle)
       /\ called'.end = (IF what = "end" THEN 1 ELSE called.end)
       /\ called'.freed = (IF what = "cleanup" THEN 1 ELSE called.freed)
       /\ called' \in [middle : Nat, end : Nat, freed : Nat]
  <2>1. CASE what = "middle"
    <3>1. called.middle = 0 BY <1>12, <1>13, <2>1
    <3> QED BY <3>1, <1>4, <1>8, <2>1
  <2>2. CASE what = "end"
    <3>1. called.end = 0 BY <1>12, <1>13, <2>2
    <3> QED BY <3>1, <1>4, <1>8, <2>2
  <2>3. CASE what = "cleanup"
    <3>1. called.freed = 0 BY <1>12, <1>13, <2>3
    <3> QED BY <3>1, <1>4, <1>8, <2>3
  <2>4. CASE what \notin {"middle", "end", "cleanup"} BY <1>4, <1>8, <2>4
  <2> QED BY <2>1, <2>2, <2>3, <2>4
<1>15. /\ called'.middle = (IF Pending("middle")' THEN 0 ELSE 1)
       /\ called'.end = (IF Pending("end")' THEN 0 ELSE 1)
       /\ called'.freed = (IF Pending("cleanup")' THEN 0 ELSE 1)
  <2>1. called'.middle = (IF Pending("middle")' THEN 0 ELSE 1) BY <1>12, <1>13, <1>14
  <2>2. called'.end = (IF Pending("end")' THEN 0 ELSE 1) BY <1>12, <1>13, <1>14
  <2>3. called'.freed = (IF Pending("cleanup")' THEN 0 ELSE 1) BY <1>12, <1>13, <1>14
  <2> QED BY <2>1, <2>2, <2>3
<1>16. TrTyped' BY <1>1, <1>5, <1>11, <1>14 DEF TrTyped
<1>17. duration' >= StepTime => Steps'
  <2> SUFFICES ASSUME duration >= StepTime PROVE Steps' BY <1>5
  <2> QED BY <1>2, <1>5, <1>11, StepsFire
<1>18. Timed'
  <2>1. (StepsIn \cup StepsOut \cup TransitionCalls)' = StepsIn \cup StepsOut \cup TransitionCalls
    BY <1>5 DEF StepsIn, StepsOut, TransitionCalls, Animation, Changed, Begin, Aim, Gone
  <2>2. timers' \subseteq (StepsIn \cup StepsOut \cup TransitionCalls)' BY <2>1, <1>2, <1>7
  <2>3. \A u \in timers' : now' <= u.due + Late BY <1>1, <1>2, <1>5 DEF Timed
  <2>4. swipe' = -1 /\ cols' = Filled'
    <3>1. Filled' = Filled BY <1>5 DEF Filled
    <3> QED BY <3>1, <1>1, <1>5 DEF Timed
  <2>5. IF kind' = "fade" THEN plane'.x = 0 ELSE plane'.alpha = Solid
    BY <1>1, <1>5, <1>11 DEF Timed
  <2> QED BY <2>2, <2>3, <2>4, <2>5, <1>15, <1>17 DEF Timed
<1>19. TrInv' BY <1>5, <1>16, <1>18 DEF TrInv
<1>20. what = "middle" => duration <= now BY <1>2, <1>6, <1>7
<1>21. what = "end" => 3 * duration <= now BY <1>2, <1>6, <1>7
<1> QED BY <1>11, <1>12, <1>14, <1>19, <1>20, <1>21

LEMMA TimersWait == ASSUME TrInv, kind # "swipe", Wait PROVE TrInv'
<1> USE TransitionAssumption
<1>1. TrTyped /\ Timed BY DEF TrInv
<1>2. now' = now + 1 /\ UNCHANGED <<kind, duration, image, timers, plane, cols, swipe, called>> BY DEF Wait
<1>3. TrTyped' BY <1>1, <1>2 DEF TrTyped
<1>4. /\ StepsIn' = StepsIn /\ StepsOut' = StepsOut /\ TransitionCalls' = TransitionCalls /\ LastIn' = LastIn /\ LastOut' = LastOut
      /\ ValueNow' = ValueNow /\ Changed' = Changed /\ Aim' = Aim /\ Gone' = Gone
      /\ Filled' = Filled
  BY <1>2 DEF StepsIn, StepsOut, TransitionCalls, LastIn, LastOut, LastStep, Animation, StepCount, ValueNow, Changed, Aim, Begin, Gone, Filled
<1>5. now \in Nat /\ duration \in Nat BY <1>1 DEF TrTyped
<1>6. timers \subseteq StepsIn \cup StepsOut \cup TransitionCalls BY <1>1 DEF Timed
<1>7. \A u \in timers : u.due \in Nat BY <1>1, <1>6, TheTimers
<1>8. \A u \in timers' : now' <= u.due + Late
  <2> SUFFICES ASSUME NEW u \in timers PROVE now + 1 <= u.due + Late BY <1>2
  <2>1. now < u.due + Late BY DEF Wait
  <2> QED BY <2>1, <1>5, <1>7
<1>9. duration' >= StepTime => Steps'
  <2> SUFFICES ASSUME duration >= StepTime PROVE Steps' BY <1>2
  <2>1. Steps BY <1>1 DEF Timed
  <2>2. now + 1 < 2 * duration => now < 2 * duration BY <1>5
  <2> QED BY <2>1, <2>2, <1>2, <1>4 DEF Steps, Pending
<1>10. Timed' BY <1>1, <1>2, <1>4, <1>6, <1>8, <1>9 DEF Timed, Pending
<1> QED BY <1>2, <1>3, <1>10 DEF TrInv

\* When middle_cb is due the way in is over and the way out has not begun; when
\* end_cb is due the way out is over, and middle_cb has been called.
LEMMA CallsAreHidden ==
  ASSUME TrInv, kind # "swipe", TimersPunctual
  PROVE  /\ Pending("middle") /\ duration <= now /\ duration >= StepTime => Covered /\ cols = Filled
         /\ 3 * duration <= now /\ duration >= StepTime => OutOfView
         /\ 3 * duration <= now /\ duration >= FrameTime => called.middle = 1
<1> USE TransitionAssumption
<1>1. TrTyped /\ Timed BY DEF TrInv
<1>2. now \in Nat /\ duration \in Nat /\ plane \in [alpha : Int, x : Int] /\ kind \in {"fade", "move"}
  BY <1>1 DEF TrTyped, Kinds
<1>3. \A t \in timers : now <= t.due + Late BY <1>1 DEF Timed
<1>4. timers \subseteq StepsIn \cup StepsOut \cup TransitionCalls BY <1>1 DEF Timed
<1>5. Pending("middle") => now <= duration + Late
  <2> SUFFICES ASSUME NEW t \in timers, t.what = "middle" PROVE now <= duration + Late BY DEF Pending
  <2>1. t \in TransitionCalls BY <1>1, <1>4, TheTimers
  <2>2. t.due = duration BY <2>1, <1>1, TheTimers
  <2> QED BY <2>2, <1>3
<1>6. ASSUME Pending("middle"), duration <= now, duration >= StepTime PROVE Covered /\ cols = Filled
  <2>1. Steps BY <1>1, <1>6 DEF Timed
  <2>2. LastIn.due \in Nat /\ LastIn.due + StepTime <= duration BY <1>1, <1>6, TheTimers
  <2>3. LastIn \notin timers BY <2>2, <1>2, <1>3, <1>6 DEF TimersPunctual
  <2>4. now < 2 * duration BY <1>2, <1>5, <1>6 DEF TimersPunctual
  <2>5. ValueNow = Aim BY <2>1, <2>3, <2>4 DEF Steps
  <2>6. IF kind = "fade" THEN plane.x = 0 ELSE plane.alpha = Solid BY <1>1 DEF Timed
  <2>7. plane.alpha = Solid /\ plane.x = 0 BY <2>5, <2>6 DEF ValueNow, Aim
  <2>8. cols = Filled BY <1>1 DEF Timed
  <2>9. \A c \in Col : Filled[c] # "clear" BY DEF Filled
  <2> QED BY <2>7, <2>8, <2>9, <1>2 DEF Covered
<1>7. ASSUME 3 * duration <= now, duration >= StepTime PROVE OutOfView
  <2>1. Steps BY <1>1, <1>7 DEF Timed
  <2>2. LastOut.due \in Nat /\ LastOut.due + StepTime <= 3 * duration
    <3>1. LastOut \in StepsOut BY <1>1, <1>7, TheTimers
    <3> QED BY <3>1, <1>1, <1>7, TheTimers
  <2>3. LastOut \notin timers BY <2>2, <1>2, <1>3, <1>7 DEF TimersPunctual
  <2>4. ValueNow = Gone BY <2>1, <2>3 DEF Steps
  <2> QED BY <2>4, <1>2 DEF ValueNow, Gone, OutOfView
<1>8. ASSUME 3 * duration <= now, duration >= FrameTime PROVE called.middle = 1
  <2>1. ~Pending("middle") BY <1>2, <1>5, <1>8 DEF TimersPunctual
  <2> QED BY <2>1, <1>1 DEF Timed
<1> QED BY <1>6, <1>7, <1>8

(* the swipe *)

LEMMA Stages3 ==
  ASSUME TrTyped
  PROVE  /\ Stage \in Nat /\ Total \in Nat /\ 3 * Stage <= Total
         /\ duration >= FrameTime <=> Stage >= 1
<1> USE TransitionAssumption
<1>1. duration \in Nat BY DEF TrTyped
<1>2. Stage \in Nat /\ Stage * FrameTime <= duration /\ (duration >= FrameTime <=> Stage >= 1) BY <1>1, Quotient DEF Stage
<1>3. 3 * duration \in Nat BY <1>1
<1>4. Total \in Nat /\ 3 * duration < Total * FrameTime + FrameTime
  <2> DEFINE d == 3 * duration
  <2>1. Total = d \div FrameTime BY DEF Total
  <2> HIDE DEF d
  <2>2. d \in Nat BY <1>3 DEF d
  <2>3. Total \in Nat /\ d < Total * FrameTime + FrameTime BY <2>1, <2>2, Quotient
  <2> QED BY <2>3 DEF d
<1>5. 3 * Stage <= Total
  <2> SUFFICES ASSUME 3 * Stage > Total PROVE FALSE BY <1>2, <1>4
  <2> DEFINE k == 3 * Stage - (Total + 1)
  <2>1. k \in Nat /\ 3 * Stage = (Total + 1) + k BY <1>2, <1>4
  <2> HIDE DEF k
  <2>2. (3 * Stage) * FrameTime = (Total * FrameTime + FrameTime) + k * FrameTime /\ k * FrameTime \in Nat BY <1>4, <2>1, SMT
  <2>3. (3 * Stage) * FrameTime = 3 * (Stage * FrameTime) BY <1>2, SMT
  <2>4. Stage * FrameTime \in Nat /\ Total * FrameTime \in Nat BY <1>2, <1>4, SMT
  <2> QED BY <2>2, <2>3, <2>4, <1>1, <1>2, <1>4
<1> QED BY <1>2, <1>4, <1>5

LEMMA BezierValues ==
  ASSUME TrTyped, NEW f \in 0 .. Stage - 1
  PROVE  Bezier[f] \in Int /\ DOMAIN Bezier = 0 .. Stage - 1
<1> USE TransitionAssumption
<1> DEFINE s == Stage
           a == Columns * (3 * f * f * s - 2 * f * f * f)
           b == s * s * s
<1>1. s \in Nat /\ s >= 1
  <2>1. Stage \in Nat BY Stages3
  <2> QED BY <2>1
<1>2. Bezier[f] = a \div b /\ DOMAIN Bezier = 0 .. Stage - 1 BY DEF Bezier
<1> HIDE DEF s
<1>3. f \in Nat BY <1>1 DEF s
<1>4. 3 * f * f * s \in Int /\ 2 * f * f * f \in Int BY <1>1, <1>3, SMT
<1>5. a \in Int
  <2>1. 3 * f * f * s - 2 * f * f * f \in Int BY <1>4
  <2> QED BY <2>1
<1>6. b \in Nat \ {0}
  <2>1. s * s \in Nat /\ s * s >= 1 BY <1>1, SMT
  <2>2. s * s * s \in Nat /\ s * s * s >= 1 BY <1>1, <2>1, SMT
  <2> QED BY <2>2
<1> HIDE DEF a, b
<1>7. a \div b \in Int BY <1>5, <1>6, SMT
<1> QED BY <1>2, <1>7

\* A frame of the first stage paints what belongs between where it begins and where
\* the next begins.
LEMMA FramePaints ==
  ASSUME TrTyped, EvenPicture, kind = "swipe", swipe \in 0 .. Stage - 1,
         \A c \in Col : c < PaintedTo(swipe) => cols[c] = Filled[c],
         NEW drawn \in SwipeFrame
  PROVE  /\ drawn.called = called
         /\ drawn.cols \in [Col -> {"image", "colour", "clear"}]
         /\ \A c \in Col : c < PaintedTo(swipe + 1) => drawn.cols[c] = Filled[c]
<1> USE TransitionAssumption
<1>1. Stage \in Nat /\ Stage >= 1 /\ swipe \in Nat /\ swipe < Stage
  <2>1. Stage \in Nat BY Stages3
  <2> QED BY <2>1
<1>2. DOMAIN Bezier = 0 .. Stage - 1 /\ \A f \in 0 .. Stage - 1 : Bezier[f] \in Int BY <1>1, BezierValues
<1> DEFINE from == PaintedTo(swipe)
           to == PaintedTo(swipe + 1)
<1>3. from \in Int /\ to \in Int BY <1>1, <1>2 DEF PaintedTo
<1>4. From(swipe) = {from} BY <1>1, <1>2 DEF From, PaintedTo
<1>5. To(swipe) = to BY <1>1, <1>2 DEF To, PaintedTo
<1>6. SwipeFrame = {[cols |-> Painted(x, To(swipe), PartOf(x, To(swipe))), called |-> called] : x \in From(swipe)}
  BY <1>1 DEF SwipeFrame
<1>7. drawn = [cols |-> Painted(from, to, PartOf(from, to)), called |-> called] BY <1>4, <1>5, <1>6
<1> HIDE DEF from, to
<1>8. drawn.called = called /\ drawn.cols = [c \in Col |-> IF c >= from /\ c < to THEN PartOf(from, to)[c] ELSE cols[c]]
  BY <1>7 DEF Painted
<1>9. cols \in [Col -> {"image", "colour", "clear"}] /\ image \in BOOLEAN BY DEF TrTyped
<1>10. ASSUME NEW c \in Col, c >= from, c < to PROVE PartOf(from, to)[c] = Filled[c]
  <2>1. c \in Int BY DEF Col
  <2>2. ImageStart \in Int /\ ImageEnd \in Int /\ (image => ImageEnd = ImageStart + ImageWidth)
    <3>1. Columns \div 2 \in Int /\ ImageWidth \div 2 \in Int /\ (ImageWidth % 2 = 0 => (ImageWidth \div 2) + (ImageWidth \div 2) = ImageWidth)
      BY SMT
    <3>2. image => ImageWidth % 2 = 0 BY DEF EvenPicture
    <3> QED BY <3>1, <3>2 DEF ImageStart, ImageEnd
  <2>3. PartOf(from, to)[c] = IF image /\ c >= Most(from, ImageStart) /\ c < Least2(to, ImageEnd) THEN "image" ELSE "colour"
    BY DEF PartOf
  <2>4. Filled[c] = IF image /\ c >= ImageStart /\ c < ImageStart + ImageWidth THEN "image" ELSE "colour" BY DEF Filled
  <2>5. c >= Most(from, ImageStart) <=> c >= ImageStart BY <1>3, <1>10, <2>1, <2>2 DEF Most
  <2>6. c < Least2(to, ImageEnd) <=> c < ImageEnd BY <1>3, <1>10, <2>1, <2>2 DEF Least2
  <2> QED BY <2>2, <2>3, <2>4, <2>5, <2>6
<1>11. ASSUME NEW c \in Col PROVE Filled[c] \in {"image", "colour", "clear"} BY DEF Filled
<1>12. drawn.cols \in [Col -> {"image", "colour", "clear"}]
  <2>1. ASSUME NEW c \in Col PROVE drawn.cols[c] \in {"image", "colour", "clear"} BY <1>8, <1>9, <1>10, <1>11
  <2> QED BY <1>8, <2>1
<1>13. ASSUME NEW c \in Col, c < to PROVE drawn.cols[c] = Filled[c]
  <2>1. c \in Int BY DEF Col
  <2>2. CASE c >= from BY <1>8, <1>10, <1>13, <2>2
  <2>3. CASE ~(c >= from)
    <3>1. c < from BY <1>3, <2>1, <2>3
    <3>2. cols[c] = Filled[c] BY <3>1 DEF from
    <3> QED BY <1>8, <3>2, <2>3
  <2> QED BY <2>2, <2>3
<1> QED BY <1>8, <1>12, <1>13 DEF to

LEMMA SwipeStep ==
  ASSUME TrInv, kind = "swipe", EvenPicture, SwipeWork
  PROVE  /\ TrInv'
         /\ called'.middle # called.middle => Covered /\ cols = Filled
         /\ called'.end # called.end => OutOfView' /\ (duration >= FrameTime => called'.middle = 1)
<1> USE TransitionAssumption
<1>1. TrTyped /\ Swiping BY DEF TrInv
<1>2. Stage \in Nat /\ Total \in Nat /\ 3 * Stage <= Total /\ (duration >= FrameTime <=> Stage >= 1) BY <1>1, Stages3
<1>3. swipe \in Nat
  <2>1. swipe \in Int /\ swipe >= 0 BY <1>1 DEF TrTyped, SwipeWork
  <2> QED BY <2>1
<1>4. UNCHANGED <<kind, duration, image, now, dropped>> BY DEF SwipeWork
<1>5. PICK drawn \in SwipeFrame :
        /\ cols' = drawn.cols
        /\ IF swipe + 1 >= Total
           THEN /\ plane' = [plane EXCEPT !.x = Columns]
                /\ called' = [drawn.called EXCEPT !.end = @ + 1, !.freed = @ + 1]
                /\ swipe' = -1
                /\ timers' = {}
           ELSE /\ called' = drawn.called
                /\ swipe' = swipe + 1
                /\ NextFrame
                /\ UNCHANGED plane
  BY DEF SwipeWork
<1>6. /\ plane = [alpha |-> Solid, x |-> 0] /\ called.end = 0 /\ called.freed = 0
      /\ called.middle = (IF Stage >= 1 /\ swipe > Stage THEN 1 ELSE 0)
      /\ called \in [middle : Nat, end : Nat, freed : Nat]
      /\ cols \in [Col -> {"image", "colour", "clear"}]
  BY <1>1, <1>3 DEF Swiping, TrTyped
<1>7. /\ drawn.called = [middle |-> IF Stage >= 1 /\ swipe >= Stage THEN 1 ELSE 0, end |-> 0, freed |-> 0]
      /\ drawn.cols \in [Col -> {"image", "colour", "clear"}]
      /\ swipe + 1 \in 0 .. Stage => \A c \in Col : c < PaintedTo(swipe + 1) => drawn.cols[c] = Filled[c]
      /\ swipe + 1 \in Stage .. 2 * Stage /\ Stage >= 1 => drawn.cols = Filled
      /\ drawn.called # called => swipe = Stage /\ Stage >= 1
  <2>1. CASE swipe < Stage
    <3>1. \A c \in Col : c < PaintedTo(swipe) => cols[c] = Filled[c] BY <1>1, <1>2, <1>3, <2>1 DEF Swiping
    <3>2. swipe \in 0 .. Stage - 1 BY <1>2, <1>3, <2>1
    <3>3. /\ drawn.called = called
          /\ drawn.cols \in [Col -> {"image", "colour", "clear"}]
          /\ \A c \in Col : c < PaintedTo(swipe + 1) => drawn.cols[c] = Filled[c]
      BY <1>1, <3>1, <3>2, FramePaints
    <3>4. called = [middle |-> 0, end |-> 0, freed |-> 0] BY <1>2, <1>3, <1>6, <2>1
    <3>5. ~(swipe >= Stage) BY <1>2, <1>3, <2>1
    <3>6. swipe + 1 \in Stage .. 2 * Stage => drawn.cols = Filled
      <4> SUFFICES ASSUME swipe + 1 \in Stage .. 2 * Stage PROVE drawn.cols = Filled OBVIOUS
      <4>1. swipe + 1 = Stage /\ Stage >= 1 BY <1>2, <1>3, <2>1
      <4>2. PaintedTo(swipe + 1) = Columns BY <4>1, <1>2 DEF PaintedTo
      <4>3. \A c \in Col : c < Columns BY DEF Col
      <4>4. \A c \in Col : drawn.cols[c] = Filled[c] BY <3>3, <4>2, <4>3
      <4>5. Filled = [c \in Col |-> Filled[c]] BY DEF Filled
      <4>6. drawn.cols = [c \in Col |-> drawn.cols[c]] BY <3>3
      <4> QED BY <4>4, <4>5, <4>6
    <3> QED BY <3>3, <3>4, <3>5, <3>6
  <2>2. CASE ~(swipe < Stage) /\ swipe < 2 * Stage
    <3>1. SwipeFrame = {[cols |-> cols, called |-> SwipeMiddle]} BY <2>2, <1>2, <1>3 DEF SwipeFrame
    <3>2. drawn = [cols |-> cols, called |-> SwipeMiddle] BY <3>1
    <3>3. Stage >= 1 /\ swipe >= Stage /\ swipe \in Stage .. 2 * Stage BY <1>2, <1>3, <2>2
    <3>4. SwipeMiddle = [middle |-> 1, end |-> 0, freed |-> 0] BY <1>6 DEF SwipeMiddle
    <3>5. cols = Filled BY <1>1, <3>3 DEF Swiping
    <3>6. \A c \in Col : cols[c] = Filled[c] BY <3>5
    <3>7. swipe # Stage => SwipeMiddle = called
      <4> SUFFICES ASSUME swipe # Stage PROVE SwipeMiddle = called OBVIOUS
      <4>1. swipe > Stage BY <1>2, <1>3, <3>3
      <4>2. called.middle = 1 BY <4>1, <3>3, <1>6
      <4> QED BY <4>2, <3>4, <1>6
    <3> QED BY <3>2, <3>3, <3>4, <3>5, <3>6, <3>7, <1>6
  <2>3. CASE ~(swipe < Stage) /\ ~(swipe < 2 * Stage)
    <3> DEFINE f == swipe - 2 * Stage
    <3>1. SwipeFrame = {[cols |-> Painted(x, To(f), Clear), called |-> called] : x \in From(f)} BY <2>3, <1>2, <1>3 DEF SwipeFrame
    <3>2. PICK x : drawn = [cols |-> Painted(x, To(f), Clear), called |-> called] BY <3>1
    <3>3. Painted(x, To(f), Clear) \in [Col -> {"image", "colour", "clear"}]
      <4> HIDE DEF f
      <4> QED BY <1>6 DEF Painted, Clear
    <3>4. swipe + 1 \in 0 .. Stage => FALSE BY <2>3, <1>2, <1>3
    <3>5. swipe + 1 \in Stage .. 2 * Stage => FALSE BY <2>3, <1>2, <1>3
    <3>6. called = [middle |-> IF Stage >= 1 /\ swipe >= Stage THEN 1 ELSE 0, end |-> 0, freed |-> 0]
      <4>1. Stage >= 1 => swipe > Stage BY <2>3, <1>2, <1>3
      <4>2. Stage >= 1 /\ swipe > Stage <=> Stage >= 1 /\ swipe >= Stage BY <4>1, <1>2, <1>3
      <4> QED BY <4>2, <1>6
    <3> HIDE DEF f
    <3> QED BY <3>2, <3>3, <3>4, <3>5, <3>6
  <2> QED BY <2>1, <2>2, <2>3
<1>8. Filled' = Filled /\ Stage' = Stage /\ Bezier' = Bezier BY <1>4 DEF Filled, Stage, Bezier
<1>9. CASE swipe + 1 >= Total
  <2>1. /\ plane' = [alpha |-> Solid, x |-> Columns] /\ swipe' = -1 /\ timers' = {}
        /\ called' = [middle |-> IF Stage >= 1 /\ swipe >= Stage THEN 1 ELSE 0, end |-> 1, freed |-> 1]
    <3>1. plane' = [plane EXCEPT !.x = Columns] /\ called' = [drawn.called EXCEPT !.end = @ + 1, !.freed = @ + 1] /\ swipe' = -1 /\ timers' = {}
      BY <1>5, <1>9
    <3>2. plane' = [alpha |-> Solid, x |-> Columns] BY <3>1, <1>6
    <3> DEFINE m == IF Stage >= 1 /\ swipe >= Stage THEN 1 ELSE 0
    <3>3. drawn.called = [middle |-> m, end |-> 0, freed |-> 0] BY <1>7
    <3> HIDE DEF m
    <3> DEFINE d == drawn.called
    <3>a. called' = [d EXCEPT !.end = d.end + 1, !.freed = d.freed + 1] BY <3>1
    <3>b. d = [middle |-> m, end |-> 0, freed |-> 0] BY <3>3
    <3> HIDE DEF d
    <3>c. d.end + 1 = 1 /\ d.freed + 1 = 1 BY <3>b
    <3>d. called' = [d EXCEPT !.end = 1, !.freed = 1] BY <3>a, <3>c
    <3>4. called' = [middle |-> m, end |-> 1, freed |-> 1] BY <3>b, <3>d
    <3> QED BY <3>1, <3>2, <3>4 DEF m
  <2>2. TrTyped' BY <1>1, <1>4, <1>5, <1>7, <2>1 DEF TrTyped, Solid
  <2>3. -1 \notin 0 .. Stage /\ -1 \notin Stage .. 2 * Stage /\ ~(-1 >= 0) BY <1>2
  <2>4. Swiping' BY <1>8, <2>1, <2>3 DEF Swiping
  <2>5. TrInv' BY <1>4, <2>2, <2>4 DEF TrInv
  <2>6. called'.middle # called.middle => swipe = Stage /\ Stage >= 1
    <3>1. called'.middle = drawn.called.middle BY <1>7, <2>1
    <3> QED BY <3>1, <1>7
  <2>7. OutOfView' BY <2>1 DEF OutOfView
  <2>8. duration >= FrameTime => called'.middle = 1
    <3>1. Stage >= 1 => swipe >= Stage BY <1>2, <1>3, <1>9
    <3> QED BY <3>1, <2>1, <1>2
  <2>9. swipe = Stage /\ Stage >= 1 => Covered /\ cols = Filled
    <3> SUFFICES ASSUME swipe = Stage, Stage >= 1 PROVE Covered /\ cols = Filled OBVIOUS
    <3>1. swipe \in Stage .. 2 * Stage BY <1>2
    <3>2. cols = Filled BY <1>1, <3>1 DEF Swiping
    <3>3. \A c \in Col : Filled[c] # "clear" BY DEF Filled
    <3> QED BY <1>6, <3>2, <3>3 DEF Covered
  <2> QED BY <2>5, <2>6, <2>7, <2>8, <2>9
<1>10. CASE ~(swipe + 1 >= Total)
  <2>1. plane' = plane /\ swipe' = swipe + 1 /\ called' = drawn.called /\ NextFrame BY <1>5, <1>10
  <2>2. TrTyped'
    <3>1. called' \in [middle : Nat, end : Nat, freed : Nat] BY <2>1, <1>7
    <3> QED BY <1>1, <1>3, <1>4, <1>5, <1>7, <2>1, <3>1 DEF TrTyped
  <2>3. \A t \in timers' : t.what = "frame" BY <2>1 DEF NextFrame
  <2>4. swipe + 1 > Stage <=> swipe >= Stage BY <1>2, <1>3
  <2>5. called'.middle = (IF Stage >= 1 /\ swipe + 1 > Stage THEN 1 ELSE 0) BY <1>7, <2>1, <2>4
  <2>6. called'.end = 0 /\ called'.freed = 0 BY <1>7, <2>1
  <2>7. PaintedTo(swipe)' = PaintedTo(swipe + 1) BY <1>8, <2>1 DEF PaintedTo
  <2>8. swipe' \in 0 .. Stage' => \A c \in Col : c < PaintedTo(swipe)' => cols'[c] = Filled'[c]
    BY <1>5, <1>7, <1>8, <2>1, <2>7
  <2>9. swipe' \in Stage' .. 2 * Stage' /\ Stage' >= 1 => cols' = Filled' BY <1>5, <1>7, <1>8, <2>1
  <2>10. swipe' >= 0 /\ swipe' # -1 BY <1>3, <2>1
  <2>11. Swiping' BY <1>6, <1>8, <2>1, <2>3, <2>5, <2>6, <2>8, <2>9, <2>10 DEF Swiping
  <2>12. TrInv' BY <1>4, <2>2, <2>11 DEF TrInv
  <2>13. called'.middle # called.middle => swipe = Stage /\ Stage >= 1 BY <1>7, <2>1
  <2>14. swipe = Stage /\ Stage >= 1 => Covered /\ cols = Filled
    <3> SUFFICES ASSUME swipe = Stage, Stage >= 1 PROVE Covered /\ cols = Filled OBVIOUS
    <3>1. swipe \in Stage .. 2 * Stage BY <1>2
    <3>2. cols = Filled BY <1>1, <3>1 DEF Swiping
    <3>3. \A c \in Col : Filled[c] # "clear" BY DEF Filled
    <3> QED BY <1>6, <3>2, <3>3 DEF Covered
  <2>15. called'.end = called.end BY <1>6, <2>6
  <2> QED BY <2>12, <2>13, <2>14, <2>15
<1> QED BY <1>9, <1>10

LEMMA SwipeWaits == ASSUME TrInv, kind = "swipe", Wait \/ SwipeDrop PROVE TrInv' /\ called' = called
<1>1. TrTyped /\ Swiping BY DEF TrInv
<1>2. UNCHANGED <<kind, duration, image, plane, cols, swipe, called>> /\ now' \in Nat
  BY <1>1 DEF Wait, SwipeDrop, TrTyped
<1>3. \A t \in timers' : t.what = "frame" BY <1>1 DEF Wait, SwipeDrop, NextFrame, Swiping
<1>4. TrTyped' BY <1>1, <1>2 DEF TrTyped
<1>5. Filled' = Filled /\ Stage' = Stage /\ Bezier' = Bezier BY <1>2 DEF Filled, Stage, Bezier
<1>6. PaintedTo(swipe)' = PaintedTo(swipe) BY <1>2, <1>5 DEF PaintedTo
<1>7. Swiping' BY <1>1, <1>2, <1>3, <1>5, <1>6 DEF Swiping
<1> QED BY <1>2, <1>4, <1>7 DEF TrInv

LEMMA TrInitially == ASSUME TrInit PROVE TrInv
<1> USE TransitionAssumption
<1>1. /\ kind \in Kinds /\ duration \in Nat /\ image \in BOOLEAN /\ now = 0
      /\ swipe = (IF kind = "swipe" THEN 0 ELSE -1)
      /\ called = [middle |-> 0, end |-> 0, freed |-> 0]
  BY DEF TrInit
<1>2. Filled \in [Col -> {"image", "colour", "clear"}] /\ Clear \in [Col -> {"image", "colour", "clear"}] BY DEF Filled, Clear
<1>3. CASE kind = "swipe"
  <2>1. StartSwipeEffect BY <1>3 DEF TrInit
  <2>2. plane = [alpha |-> Solid, x |-> 0] /\ cols = Clear /\ timers = Once("frame", duration) BY <2>1 DEF StartSwipeEffect
  <2>3. TrTyped BY <1>1, <1>2, <1>3, <2>2 DEF TrTyped, Solid
  <2>4. swipe = 0 /\ PaintedTo(0) = 0 /\ Stage \in Nat BY <1>1, <1>3, <2>3, Stages3 DEF PaintedTo
  <2>5. \A c \in Col : ~(c < 0) BY DEF Col
  <2>6. Swiping BY <1>1, <2>2, <2>4, <2>5 DEF Swiping, Once
  <2> QED BY <1>3, <2>3, <2>6 DEF TrInv
<1>4. CASE kind # "swipe"
  <2>1. kind \in {"fade", "move"} BY <1>1, <1>4 DEF Kinds
  <2>2. /\ cols = Filled /\ plane \in [alpha : Int, x : Int]
        /\ timers = StepsIn \cup StepsOut \cup TransitionCalls
        /\ IF kind = "fade" THEN plane.x = 0 ELSE plane.alpha = Solid
    <3>1. CASE kind = "fade"
      <4>1. StartFade BY <3>1 DEF TrInit
      <4> QED BY <4>1, <3>1 DEF StartFade, StepsIn, StepsOut, Changed, Begin, Aim, Gone
    <3>2. CASE kind = "move"
      <4>1. StartMove BY <3>2 DEF TrInit
      <4> QED BY <4>1, <3>2 DEF StartMove, StepsIn, StepsOut, Changed, Begin, Aim, Gone, Solid
    <3> QED BY <2>1, <3>1, <3>2
  <2>3. TrTyped BY <1>1, <1>2, <1>4, <2>2 DEF TrTyped
  <2>4. \A t \in timers : t.due \in Nat BY <2>2, <2>3, <1>4, TheTimers
  <2>5. \A t \in timers : now <= t.due + Late BY <2>4, <1>1
  <2>6. Pending("middle") /\ Pending("end") /\ Pending("cleanup")
    <3>1. /\ [due |-> duration, what |-> "middle", to |-> 0] \in timers
          /\ [due |-> 3 * duration, what |-> "end", to |-> 0] \in timers
          /\ [due |-> 3 * duration + CleanupDelay, what |-> "cleanup", to |-> 0] \in timers
      BY <2>2 DEF TransitionCalls, Once
    <3> QED BY <3>1 DEF Pending
  <2>7. duration >= StepTime => Steps
    <3> SUFFICES ASSUME duration >= StepTime PROVE Steps OBVIOUS
    <3>1. LastIn \in timers /\ LastOut \in timers BY <1>4, <2>2, <2>3, TheTimers
    <3> QED BY <3>1 DEF Steps
  <2>8. Timed BY <1>1, <1>4, <2>2, <2>5, <2>6, <2>7 DEF Timed
  <2> QED BY <1>4, <2>3, <2>8 DEF TrInv
<1> QED BY <1>3, <1>4

Hidden ==
  /\ called'.middle # called.middle => (duration >= StepTime => Covered /\ cols = Filled)
  /\ called'.end # called.end => (duration >= StepTime => OutOfView') /\ (duration >= FrameTime => called'.middle = 1)

LEMMA TrSteps ==
  ASSUME TrInv, EvenPicture, TimersPunctual, [TrNext]_trVars
  PROVE  TrInv' /\ EvenPicture' /\ Hidden
<1>1. TrTyped BY DEF TrInv
<1>2. EvenPicture'
  <2>1. kind' = kind /\ image' = image
    BY DEF trVars, TrNext, Wait, FadeStep, MoveStep, Middle, End, FreeCallback, Fire, SwipeWork, SwipeDrop
  <2> QED BY <2>1 DEF EvenPicture
<1>3. CASE UNCHANGED trVars
  <2>1. TrInv'
    <3>1. /\ kind' = kind /\ duration' = duration /\ image' = image /\ now' = now /\ timers' = timers /\ plane' = plane
          /\ cols' = cols /\ swipe' = swipe /\ called' = called
      BY <1>3 DEF trVars
    <3>2. /\ StepsIn' = StepsIn /\ StepsOut' = StepsOut /\ TransitionCalls' = TransitionCalls /\ LastIn' = LastIn /\ LastOut' = LastOut
          /\ ValueNow' = ValueNow /\ Changed' = Changed /\ Aim' = Aim /\ Gone' = Gone
          /\ Filled' = Filled /\ Stage' = Stage /\ Bezier' = Bezier
      BY <3>1 DEF StepsIn, StepsOut, TransitionCalls, LastIn, LastOut, LastStep, Animation, StepCount, ValueNow, Changed, Aim, Begin, Gone,
                  Filled, Stage, Bezier
    <3>3. TrTyped' BY <1>1, <3>1 DEF TrTyped
    <3>4. PaintedTo(swipe)' = PaintedTo(swipe) BY <3>1, <3>2 DEF PaintedTo
    <3>5. CASE kind = "swipe"
      <4>1. Swiping BY <3>5 DEF TrInv
      <4>2. Swiping' BY <4>1, <3>1, <3>2, <3>4 DEF Swiping
      <4> QED BY <3>1, <3>3, <3>5, <4>2 DEF TrInv
    <3>6. CASE kind # "swipe"
      <4>1. Timed BY <3>6 DEF TrInv
      <4>2. Timed' BY <4>1, <3>1, <3>2 DEF Timed, Steps, Pending
      <4> QED BY <3>1, <3>3, <3>6, <4>2 DEF TrInv
    <3> QED BY <3>5, <3>6
  <2> QED BY <1>2, <1>3, <2>1 DEF Hidden, trVars
<1>4. CASE TrNext /\ kind = "swipe"
  <2>1. Swiping BY <1>4 DEF TrInv
  <2>2. ASSUME NEW what, what # "frame", Fire(what) PROVE FALSE BY <2>1, <2>2 DEF Fire, Swiping
  <2>3. Wait \/ SwipeWork \/ SwipeDrop
    BY <1>4, <2>2 DEF TrNext, FadeStep, MoveStep, Middle, End, FreeCallback
  <2>4. CASE SwipeWork BY <1>2, <1>4, <2>4, SwipeStep DEF Hidden
  <2>5. CASE Wait \/ SwipeDrop
    <3>1. TrInv' /\ called' = called BY <1>4, <2>5, SwipeWaits
    <3> QED BY <1>2, <3>1 DEF Hidden
  <2> QED BY <2>3, <2>4, <2>5
<1>5. CASE TrNext /\ kind # "swipe"
  <2>1. Timed BY <1>5 DEF TrInv
  <2>2. ~SwipeWork /\ ~SwipeDrop
    <3>1. ~(swipe >= 0) BY <2>1 DEF Timed
    <3> QED BY <3>1 DEF SwipeWork, SwipeDrop
  <2>3. CASE Wait
    <3>1. TrInv' BY <1>5, <2>3, TimersWait
    <3>2. called' = called BY <2>3 DEF Wait
    <3> QED BY <1>2, <3>1, <3>2 DEF Hidden
  <2>4. ASSUME NEW what, Fire(what), what \in {"alpha", "x", "middle", "end", "cleanup"} PROVE TrInv' /\ Hidden
    <3>1. /\ TrInv'
          /\ called'.middle # called.middle => what = "middle" /\ Pending("middle") /\ duration <= now
          /\ called'.end # called.end => what = "end" /\ 3 * duration <= now
          /\ what \in {"middle", "end", "cleanup"} => plane' = plane
      BY <1>5, <2>4, TimersFire
    <3>2. UNCHANGED <<kind, duration, now, cols>> BY <2>4 DEF Fire
    <3>3. called'.middle # called.middle => (duration >= StepTime => Covered /\ cols = Filled)
      BY <1>5, <3>1, CallsAreHidden
    <3>4. called'.end # called.end => (duration >= StepTime => OutOfView')
      <4>1. called'.end # called.end /\ duration >= StepTime => OutOfView /\ plane' = plane
        BY <1>5, <3>1, CallsAreHidden
      <4>2. Clear' = Clear BY DEF Clear
      <4> QED BY <4>1, <4>2, <3>2 DEF OutOfView
    <3>5. called'.end # called.end => (duration >= FrameTime => called'.middle = 1)
      <4>1. called'.end # called.end /\ duration >= FrameTime => called.middle = 1 BY <1>5, <3>1, CallsAreHidden
      <4>2. called'.end # called.end => called'.middle = called.middle BY <3>1
      <4> QED BY <4>1, <4>2
    <3> QED BY <3>1, <3>3, <3>4, <3>5 DEF Hidden
  <2> QED BY <1>2, <1>5, <2>2, <2>3, <2>4 DEF TrNext, FadeStep, MoveStep, Middle, End, FreeCallback
<1> QED BY <1>3, <1>4, <1>5 DEF trVars

LEMMA InvCalls == ASSUME TrInv PROVE CalledOnce
<1>1. CASE kind = "swipe"
  <2>1. Swiping /\ TrTyped BY <1>1 DEF TrInv
  <2>2. CASE swipe = -1 BY <2>1, <2>2 DEF Swiping, CalledOnce
  <2>3. CASE swipe # -1
    <3>1. 0 <= swipe /\ called.end = 0 /\ called.freed = 0 BY <2>1, <2>3 DEF Swiping
    <3>2. called.middle <= 1 BY <2>1, <3>1 DEF Swiping, TrTyped
    <3> QED BY <3>1, <3>2 DEF CalledOnce
  <2> QED BY <2>2, <2>3
<1>2. CASE kind # "swipe"
  <2>1. Timed BY <1>2 DEF TrInv
  <2> QED BY <2>1 DEF Timed, CalledOnce
<1> QED BY <1>1, <1>2

\* The video changes only behind a plane that covers the screen, in fade, move and
\* swipe, and by the end of a transition every callback was made once; for any
\* duration, rate and number of skipped frames, as long as no timer is as late as a
\* step (layer_animation.c) and the picture of a swipe has an even width
\* (transitions.c:395-396 paints image_w / 2 to either side).
THEOREM ChangesHiddenCorrect == ASSUME TimersPunctual PROVE TrSpec /\ EvenPicture => ChangesHidden /\ []CalledOnce
<1>1. TrInit => TrInv BY TrInitially
<1>2. TrInv /\ EvenPicture /\ [TrNext]_trVars => TrInv' /\ EvenPicture' /\ Hidden BY TrSteps
<1>3. TrInv => CalledOnce BY InvCalls
<1> QED BY <1>1, <1>2, <1>3, PTL DEF TrSpec, ChangesHidden, Hidden

------------------------------------------------------------------------------
(* Opinfo: what Catalogue accepts, the engine shows to its end *)

\* A config of an element: whatever it says, its numbers are numbers and the
\* text in it is a sequence of characters.
Config(j) ==
  /\ j.w \in Int /\ j.speed \in Int
  /\ Chars(j.text) \in Seq(STRING)

\* The lists of elements are those the parser makes of configs.
FromParser(lists) == \A l \in lists : \A i \in DOMAIN l : \E j : Config(j) /\ Element(j) = <<l[i]>>

Animations == {"none", "typewriter", "eink", "fade", "wipe", "scroll", "grow", "move", "scramble", "blink", "sprite", "sway"}
ElementOk(e) == e.anim \in Animations /\ e.w \in Int /\ e.speed \in Nat /\ Chars(e.text) \in Seq(STRING)

LEMMA ParserAccepts == ASSUME NEW j, Config(j), NEW e, Element(j) = <<e>> PROVE ElementOk(e)
<1> DEFINE start == AtLeast0(j.start)
           frames == AtLeast0(j.frames)
           anim == Anim(j, frames)
           w == CASE j.type = "barcode" /\ j.w <= 0 -> 50
                  [] j.type = "corner_fade" /\ j.w <= 1 -> 192
                  [] OTHER -> j.w
           speed == IF j.speed > 0 THEN j.speed ELSE IF anim = "none" THEN 0 ELSE DefaultSpeed[anim]
           made == [type |-> j.type, anim |-> anim, anchor |-> IF j.anchor \in {"tr", "bl", "br"} THEN j.anchor ELSE "tl",
                    x |-> j.x, y |-> j.y, w |-> w,
                    h |-> IF j.type = "barcode" /\ j.h <= 0 THEN 180 ELSE j.h,
                    start |-> start, end |-> EndFrame(start, AtLeast0(j.end)), speed |-> speed,
                    dir |-> IF j.dir \in {"rtl", "ttb", "btt"} THEN j.dir ELSE "ltr",
                    dx |-> j.dx, dy |-> j.dy, frames |-> frames, border |-> AtLeast0(j.border),
                    text |-> j.text, image |-> ValidImage(j.image), color |-> Color(j.color, "white")]
           refused == \/ j.is # "object" \/ j.type \notin ElementTypes
                      \/ j.type \in {"rect", "text_rot90"} /\ ~(j.w > 0 /\ j.h > 0)
                      \/ j.type = "barcode" /\ j.text = ""
<1>1. DOMAIN DefaultSpeed = Animations /\ \A a \in Animations : DefaultSpeed[a] \in Nat BY DEF DefaultSpeed, Animations
<1>2. anim \in Animations
  <2> HIDE DEF frames
  <2>1. "none" \in Animations BY DEF Animations
  <2> QED BY <1>1, <2>1 DEF Anim
<1>3. w \in Int
  <2>1. CASE j.type = "barcode" /\ j.w <= 0 BY <2>1
  <2>2. CASE j.type = "corner_fade" /\ j.w <= 1 BY <2>2
  <2>3. CASE ~(j.type = "barcode" /\ j.w <= 0) /\ ~(j.type = "corner_fade" /\ j.w <= 1) BY <2>3 DEF Config
  <2> QED BY <2>1, <2>2, <2>3
<1> HIDE DEF frames, anim
<1>4. speed \in Nat BY <1>1, <1>2 DEF Config
<1>5. Element(j) = IF refused THEN <<>> ELSE <<made>>
  <2>1. Element(j) = ElementOf(j, start, frames, anim) BY Zenon DEF Element, anim, frames
  <2> HIDE DEF start
  <2> QED BY <2>1, Zenon DEF ElementOf
<1> HIDE DEF made, refused
<1>6. e = made BY <1>5
<1> HIDE DEF w, speed, start
<1>7. e.anim = anim /\ e.w = w /\ e.speed = speed /\ e.text = j.text BY <1>6 DEF made
<1> QED BY <1>2, <1>3, <1>4, <1>7 DEF ElementOk, Config

(* The state of an element that stays *)

StateFields == {"cp", "eink", "fade", "wipe", "grow", "scroll", "sprite", "tick", "dx", "dy", "blink", "visible", "dirty", "done"}
StateTyped(s) ==
  /\ DOMAIN s = StateFields
  /\ s.cp \in Nat /\ s.eink \in Nat /\ s.fade \in Int /\ s.grow \in Int
  /\ s.visible \in BOOLEAN /\ s.dirty \in BOOLEAN /\ s.done \in BOOLEAN

TextLength(e) == Len(Chars(e.text))
SeenNow(s) == s.visible \/ s.dirty

\* How far an animation has come: nothing but move and sway leaves the place of
\* rest, a text has no more characters than it has, a flash counts to five before
\* it is done, and a typewriter is seen from its first character on.
Underway(e, s) ==
  /\ e.anim \notin {"move", "sway"} => s.dx = 0 /\ s.dy = 0
  /\ e.anim \in {"typewriter", "scramble"} => s.cp <= TextLength(e)
  /\ e.anim = "typewriter" => (SeenNow(s) <=> s.cp > 0)
  /\ e.anim = "eink" /\ ~s.done => s.eink < EinkContent

\* What is done is there in full; what loops is never done.
Finished(e, s) ==
  /\ e.anim \notin {"scroll", "blink", "sprite", "sway"}
  /\ e.anim # "typewriter" => SeenNow(s)
  /\ s.dx = 0 /\ s.dy = 0
  /\ e.anim \in {"typewriter", "scramble"} => s.cp = TextLength(e)
  /\ e.anim = "eink" => s.eink = EinkContent
  /\ e.anim = "fade" => s.fade = Opaque
  /\ e.anim = "grow" => s.grow = e.w
  /\ e.anim = "wipe" => s.wipe = WipeTarget(e)

Keeps(e, s) == StateTyped(s) /\ Underway(e, s) /\ (s.done => Finished(e, s))

LEMMA LengthIsNat == ASSUME NEW e, ElementOk(e) PROVE TextLength(e) \in Nat
BY DEF ElementOk, TextLength

\* One frame of each animation that ends.
LEMMA TypedKeeps == ASSUME NEW e, ElementOk(e), NEW s, Keeps(e, s), e.anim = "typewriter" PROVE Keeps(e, Typed(e, s))
<1> DEFINE r == Typed(e, s)
<1>0. TextLength(e) \in Nat BY LengthIsNat
<1>1. CASE s.done \/ (s.cp < TextLength(e) /\ ~Beat(e))
  <2>1. r = s BY <1>0, <1>1 DEF Typed, TextLength, Keeps, StateTyped
  <2> QED BY <2>1
<1>2. CASE ~s.done /\ s.cp >= TextLength(e)
  <2>1. r = [s EXCEPT !.done = TRUE] BY <1>2 DEF Typed, TextLength
  <2> HIDE DEF r
  <2>2. DOMAIN r = StateFields /\ r.done /\ r.done \in BOOLEAN /\ \A f \in StateFields \ {"done"} : r[f] = s[f]
    BY <2>1 DEF Keeps, StateTyped, StateFields
  <2>3. /\ r.cp = s.cp /\ r.eink = s.eink /\ r.fade = s.fade /\ r.grow = s.grow /\ r.visible = s.visible
        /\ r.dirty = s.dirty /\ r.dx = s.dx /\ r.dy = s.dy
    BY <2>2 DEF StateFields
  <2>4. Keeps(e, r) BY <1>0, <1>2, <2>2, <2>3 DEF Keeps, StateTyped, Underway, Finished, SeenNow
  <2> QED BY <2>4 DEF r
<1>3. CASE ~s.done /\ s.cp < TextLength(e) /\ Beat(e)
  <2> DEFINE over == s.cp + 1 >= TextLength(e)
  <2>1. r = [s EXCEPT !.cp = s.cp + 1, !.dirty = TRUE, !.done = over]
    BY <1>0, <1>3 DEF Typed, TextLength, Keeps, StateTyped
  <2>4. over \in BOOLEAN /\ (over => s.cp + 1 = TextLength(e))
    BY <1>0, <1>3 DEF Keeps, StateTyped
  <2> HIDE DEF r, over
  <2>2. /\ DOMAIN r = StateFields /\ r.cp = s.cp + 1 /\ r.dirty = TRUE /\ r.done = over
        /\ r.visible = s.visible /\ r.dx = s.dx /\ r.dy = s.dy /\ r.eink = s.eink /\ r.fade = s.fade /\ r.grow = s.grow
    BY <2>1 DEF Keeps, StateTyped, StateFields
  <2>5. s.cp + 1 \in Nat /\ s.cp + 1 > 0 /\ s.cp + 1 <= TextLength(e) BY <1>0, <1>3 DEF Keeps, StateTyped
  <2>6. s.dx = 0 /\ s.dy = 0 BY DEF Keeps, Underway
  <2>7. StateTyped(r) BY <2>2, <2>4, <2>5 DEF Keeps, StateTyped
  <2>8. Underway(e, r) BY <2>2, <2>5, <2>6 DEF Underway, SeenNow
  <2>9. over => Finished(e, r) BY <2>2, <2>4, <2>6 DEF Finished
  <2>3. Keeps(e, r) BY <2>2, <2>7, <2>8, <2>9 DEF Keeps
  <2> QED BY <2>3 DEF r
<1> QED BY <1>0, <1>1, <1>2, <1>3 DEF Keeps, StateTyped

LEMMA UnscrambledKeeps == ASSUME NEW e, ElementOk(e), NEW s, Keeps(e, s), e.anim = "scramble" PROVE Keeps(e, Unscrambled(e, s))
<1> DEFINE r == Unscrambled(e, s)
           cp == IF Beat(e) /\ s.cp < TextLength(e) THEN s.cp + 1 ELSE s.cp
           over == cp >= TextLength(e)
<1>0. TextLength(e) \in Nat BY LengthIsNat
<1>1. CASE s.done BY <1>1 DEF Unscrambled
<1>2. CASE ~s.done
  <2>1. r = [s EXCEPT !.cp = cp, !.dirty = TRUE, !.done = over] BY <1>2 DEF Unscrambled, TextLength
  <2>2. cp \in Nat /\ cp <= TextLength(e) /\ over \in BOOLEAN /\ (over => cp = TextLength(e))
    BY <1>0 DEF Keeps, StateTyped, Underway
  <2> HIDE DEF r, cp, over
  <2>3. /\ DOMAIN r = StateFields /\ r.cp = cp /\ r.dirty = TRUE /\ r.done = over
        /\ r.visible = s.visible /\ r.dx = s.dx /\ r.dy = s.dy /\ r.eink = s.eink /\ r.fade = s.fade /\ r.grow = s.grow
    BY <2>1 DEF Keeps, StateTyped, StateFields
  <2>4. Keeps(e, r) BY <1>0, <1>2, <2>2, <2>3 DEF Keeps, StateTyped, Underway, Finished, SeenNow
  <2> QED BY <2>4 DEF r
<1> QED BY <1>1, <1>2

LEMMA FlashedKeeps == ASSUME NEW e, NEW s, Keeps(e, s), e.anim = "eink" PROVE Keeps(e, Flashed(e, s))
<1> DEFINE r == Flashed(e, s)
           over == s.eink + 1 >= EinkContent
<1>1. CASE s.done \/ ~Beat(e) BY <1>1 DEF Flashed
<1>2. CASE ~s.done /\ Beat(e)
  <2>1. r = [s EXCEPT !.eink = s.eink + 1, !.dirty = TRUE, !.done = over]
    BY <1>2 DEF Flashed, Keeps, StateTyped, StateFields
  <2>4. over \in BOOLEAN /\ s.eink + 1 \in Nat /\ (over => s.eink + 1 = EinkContent) /\ (~over => s.eink + 1 < EinkContent)
    BY <1>2 DEF EinkContent, Keeps, StateTyped, Underway
  <2> HIDE DEF r, over
  <2>2. /\ DOMAIN r = StateFields /\ r.eink = s.eink + 1 /\ r.dirty = TRUE /\ r.done = over
        /\ r.visible = s.visible /\ r.dx = s.dx /\ r.dy = s.dy /\ r.cp = s.cp /\ r.fade = s.fade /\ r.grow = s.grow
    BY <2>1 DEF Keeps, StateTyped, StateFields
  <2>3. Keeps(e, r) BY <1>2, <2>2, <2>4 DEF Keeps, StateTyped, Underway, Finished, SeenNow
  <2> QED BY <2>3 DEF r
<1> QED BY <1>1, <1>2

LEMMA FadedKeeps == ASSUME NEW e, ElementOk(e), NEW s, Keeps(e, s), e.anim = "fade" PROVE Keeps(e, Faded(e, s))
<1> DEFINE r == Faded(e, s)
           fade == Lower(s.fade + e.speed, Opaque)
           over == s.fade + e.speed >= Opaque
<1>1. CASE s.done BY <1>1 DEF Faded
<1>2. CASE ~s.done
  <2>1. r = [s EXCEPT !.fade = fade, !.dirty = TRUE, !.done = over]
    BY <1>2 DEF Faded, Keeps, StateTyped, StateFields
  <2>2. fade \in Int /\ over \in BOOLEAN /\ (over => fade = Opaque)
    BY OpinfoAssumption DEF Lower, Keeps, StateTyped, ElementOk
  <2> HIDE DEF r, fade, over
  <2>3. /\ DOMAIN r = StateFields /\ r.fade = fade /\ r.dirty = TRUE /\ r.done = over
        /\ r.visible = s.visible /\ r.dx = s.dx /\ r.dy = s.dy /\ r.cp = s.cp /\ r.eink = s.eink /\ r.grow = s.grow
    BY <2>1 DEF Keeps, StateTyped, StateFields
  <2>4. Keeps(e, r) BY <1>2, <2>2, <2>3 DEF Keeps, StateTyped, Underway, Finished, SeenNow
  <2> QED BY <2>4 DEF r
<1> QED BY <1>1, <1>2

LEMMA GrownKeeps == ASSUME NEW e, ElementOk(e), NEW s, Keeps(e, s), e.anim = "grow" PROVE Keeps(e, Grown(e, s))
<1> DEFINE r == Grown(e, s)
           grow == Lower(s.grow + e.speed, e.w)
           over == s.grow + e.speed >= e.w
<1>1. CASE s.done BY <1>1 DEF Grown
<1>2. CASE ~s.done
  <2>1. r = [s EXCEPT !.grow = grow, !.dirty = TRUE, !.done = over]
    BY <1>2 DEF Grown, Keeps, StateTyped, StateFields
  <2>2. grow \in Int /\ over \in BOOLEAN /\ (over => grow = e.w)
    BY DEF Lower, Keeps, StateTyped, ElementOk
  <2> HIDE DEF r, grow, over
  <2>3. /\ DOMAIN r = StateFields /\ r.grow = grow /\ r.dirty = TRUE /\ r.done = over
        /\ r.visible = s.visible /\ r.dx = s.dx /\ r.dy = s.dy /\ r.cp = s.cp /\ r.eink = s.eink /\ r.fade = s.fade
    BY <2>1 DEF Keeps, StateTyped, StateFields
  <2>4. Keeps(e, r) BY <1>2, <2>2, <2>3 DEF Keeps, StateTyped, Underway, Finished, SeenNow
  <2> QED BY <2>4 DEF r
<1> QED BY <1>1, <1>2

LEMMA WipedKeeps == ASSUME NEW e, NEW s, Keeps(e, s), e.anim = "wipe" PROVE Keeps(e, Wiped(e, s))
<1> DEFINE r == Wiped(e, s)
           over == frame - e.start >= e.speed
           wipe == IF over THEN WipeTarget(e) ELSE Ease(frame - e.start, e.speed, WipeTarget(e))
<1>1. CASE s.done BY <1>1 DEF Wiped
<1>2. CASE ~s.done
  <2>1. r = [s EXCEPT !.wipe = wipe, !.dirty = TRUE, !.done = over] BY <1>2 DEF Wiped
  <2>2. over \in BOOLEAN /\ (over => wipe = WipeTarget(e)) OBVIOUS
  <2> HIDE DEF r, wipe, over
  <2>3. /\ DOMAIN r = StateFields /\ r.wipe = wipe /\ r.dirty = TRUE /\ r.done = over
        /\ r.visible = s.visible /\ r.dx = s.dx /\ r.dy = s.dy /\ r.cp = s.cp /\ r.eink = s.eink /\ r.fade = s.fade
        /\ r.grow = s.grow
    BY <2>1 DEF Keeps, StateTyped, StateFields
  <2>4. Keeps(e, r) BY <1>2, <2>2, <2>3 DEF Keeps, StateTyped, Underway, Finished, SeenNow
  <2> QED BY <2>4 DEF r
<1> QED BY <1>1, <1>2

LEMMA MovedKeeps == ASSUME NEW e, NEW s, Keeps(e, s), e.anim = "move" PROVE Keeps(e, Moved(e, s))
<1> DEFINE r == Moved(e, s)
           over == frame - e.start >= e.speed
           left(d) == IF over THEN 0 ELSE S(d) - Ease(frame - e.start, e.speed, S(d))
           dx == left(e.dx)
           dy == left(e.dy)
<1>1. CASE s.done BY <1>1 DEF Moved
<1>2. CASE ~s.done
  <2>1. r = [s EXCEPT !.dx = dx, !.dy = dy, !.dirty = TRUE, !.done = over] BY <1>2 DEF Moved
  <2>2. over \in BOOLEAN /\ (over => dx = 0 /\ dy = 0) OBVIOUS
  <2> HIDE DEF r, dx, dy, over
  <2>3. /\ DOMAIN r = StateFields /\ r.dx = dx /\ r.dy = dy /\ r.dirty = TRUE /\ r.done = over
        /\ r.visible = s.visible /\ r.cp = s.cp /\ r.eink = s.eink /\ r.fade = s.fade /\ r.grow = s.grow
    BY <2>1 DEF Keeps, StateTyped, StateFields
  <2>4. Keeps(e, r) BY <1>2, <2>2, <2>3 DEF Keeps, StateTyped, Underway, Finished, SeenNow
  <2> QED BY <2>4 DEF r
<1> QED BY <1>1, <1>2

\* What loops keeps the place it is in, or sways about it, and is never done.
LEMMA LoopKeeps ==
  ASSUME NEW e, NEW s, Keeps(e, s), e.anim \in {"blink", "scroll", "sprite", "sway"} PROVE Keeps(e, Animated(e, s))
<1> DEFINE Same(r) == /\ DOMAIN r = DOMAIN s /\ r.cp = s.cp /\ r.eink = s.eink /\ r.fade = s.fade /\ r.grow = s.grow
                      /\ r.visible = s.visible /\ r.done = s.done /\ r.dirty \in BOOLEAN
           Still(r) == Same(r) /\ r.dx = s.dx /\ r.dy = s.dy
<1> USE DEF Keeps, StateTyped, StateFields
<1>1. Still(Blinked(e, s)) BY DEF Blinked
<1>2. Still(Scrolled(e, s)) BY DEF Scrolled
<1>3. Still(Stepped(e, s)) BY DEF Stepped
<1>4. Same(Swayed(e, s))
  <2> DEFINE tick == IF s.tick + 1 >= e.speed THEN 0 ELSE s.tick + 1
             sine == Sine((tick * 360) \div e.speed)
             dx == Towards0(S(e.dx) * sine, 100)
             dy == Towards0(S(e.dy) * sine, 100)
             dirty == s.dirty \/ dx # s.dx \/ dy # s.dy
  <2>1. Swayed(e, s) = [s EXCEPT !.tick = tick, !.dx = dx, !.dy = dy, !.dirty = dirty] BY DEF Swayed
  <2>2. dirty \in BOOLEAN OBVIOUS
  <2> HIDE DEF tick, dx, dy, dirty
  <2> QED BY <2>1, <2>2
<1> HIDE DEF Keeps, StateTyped, StateFields
<1>5. Animated(e, s) \in {Blinked(e, s), Scrolled(e, s), Stepped(e, s), Swayed(e, s)} BY DEF Animated
<1>6. e.anim # "sway" => Still(Animated(e, s)) BY <1>1, <1>2, <1>3 DEF Animated
<1>7. Same(Animated(e, s)) BY <1>1, <1>2, <1>3, <1>4, <1>5
<1> QED BY <1>6, <1>7 DEF Keeps, StateTyped, Underway, Finished

LEMMA AnimatedKeeps == ASSUME NEW e, ElementOk(e), NEW s, Keeps(e, s) PROVE Keeps(e, Animated(e, s))
<1>1. CASE e.anim = "none"
  <2>1. CASE s.done BY <1>1, <2>1 DEF Animated
  <2>2. CASE ~s.done
    <3>1. Animated(e, s) = [s EXCEPT !.dirty = TRUE, !.done = TRUE] BY <1>1, <2>2 DEF Animated
    <3>2. PICK r : r = Animated(e, s) OBVIOUS
    <3>3. /\ DOMAIN r = StateFields /\ r.dirty = TRUE /\ r.done = TRUE /\ r.visible = s.visible /\ r.dx = s.dx /\ r.dy = s.dy
          /\ r.cp = s.cp /\ r.eink = s.eink /\ r.fade = s.fade /\ r.grow = s.grow
      BY <3>1, <3>2 DEF Keeps, StateTyped, StateFields
    <3>4. Keeps(e, r) BY <1>1, <2>2, <3>3 DEF Keeps, StateTyped, Underway, Finished, SeenNow
    <3> QED BY <3>2, <3>4
  <2> QED BY <2>1, <2>2
<1>2. CASE e.anim = "typewriter" BY <1>2, TypedKeeps DEF Animated
<1>3. CASE e.anim = "scramble" BY <1>3, UnscrambledKeeps DEF Animated
<1>4. CASE e.anim = "eink" BY <1>4, FlashedKeeps DEF Animated
<1>5. CASE e.anim = "fade" BY <1>5, FadedKeeps DEF Animated
<1>6. CASE e.anim = "grow" BY <1>6, GrownKeeps DEF Animated
<1>7. CASE e.anim = "wipe" BY <1>7, WipedKeeps DEF Animated
<1>8. CASE e.anim = "move" BY <1>8, MovedKeeps DEF Animated
<1>9. CASE e.anim \in {"blink", "scroll", "sprite", "sway"} BY <1>9, LoopKeeps
<1> QED BY <1>1, <1>2, <1>3, <1>4, <1>5, <1>6, <1>7, <1>8, <1>9 DEF ElementOk, Animations

\* A frame of an element that stays, and the flag that is put down after it.
LEMMA AdvanceKeeps ==
  ASSUME NEW e, ElementOk(e), ~(e.end > 0), NEW s, Keeps(e, s), ~s.dirty,
         NEW t, t = Advance(e, s), NEW n, n = [t EXCEPT !.dirty = FALSE]
  PROVE  Keeps(e, n) /\ ~n.dirty /\ n.done = t.done
<1> DEFINE r == Animated(e, s)
<1>1. t = s \/ t = Appeared(r) BY DEF Advance
<1>2. Keeps(e, r) BY AnimatedKeeps
<1> HIDE DEF r
<1>3. CASE t = s
  <2>1. DOMAIN n = StateFields /\ n.dirty = FALSE /\ \A f \in StateFields \ {"dirty"} : n[f] = s[f]
    BY <1>3 DEF Keeps, StateTyped, StateFields
  <2>2. /\ n.cp = s.cp /\ n.eink = s.eink /\ n.fade = s.fade /\ n.grow = s.grow /\ n.wipe = s.wipe /\ n.visible = s.visible
        /\ n.done = s.done /\ n.dx = s.dx /\ n.dy = s.dy
    BY <2>1 DEF StateFields
  <2> QED BY <1>3, <2>1, <2>2 DEF Keeps, StateTyped, Underway, Finished, SeenNow
<1>4. CASE t = Appeared(r)
  <2>1. t = [r EXCEPT !.visible = r.visible \/ r.dirty] BY <1>2, <1>4 DEF Appeared, Keeps, StateTyped, StateFields
  <2>2. DOMAIN t = StateFields /\ t.visible = SeenNow(r) /\ \A f \in StateFields \ {"visible"} : t[f] = r[f]
    BY <1>2, <2>1 DEF Keeps, StateTyped, StateFields, SeenNow
  <2>3. DOMAIN n = StateFields /\ n.visible = SeenNow(r) /\ n.dirty = FALSE /\ n.done = t.done
        /\ \A f \in StateFields \ {"visible", "dirty"} : n[f] = r[f]
    BY <2>2 DEF StateFields
  <2>4. /\ n.cp = r.cp /\ n.eink = r.eink /\ n.fade = r.fade /\ n.grow = r.grow /\ n.wipe = r.wipe
        /\ n.done = r.done /\ n.dx = r.dx /\ n.dy = r.dy
    BY <2>3 DEF StateFields
  <2>5. SeenNow(r) \in BOOLEAN BY <1>2 DEF Keeps, StateTyped, SeenNow
  <2>6. SeenNow(n) = SeenNow(r) BY <2>3, <2>5 DEF SeenNow
  <2>7. StateTyped(n) BY <1>2, <2>3, <2>4, <2>5 DEF Keeps, StateTyped
  <2>8. Underway(e, n) BY <1>2, <2>4, <2>6 DEF Keeps, Underway
  <2>9. n.done => Finished(e, n) BY <1>2, <2>4, <2>6 DEF Keeps, Finished
  <2> QED BY <2>3, <2>7, <2>8, <2>9 DEF Keeps
<1> QED BY <1>1, <1>3, <1>4

(* The engine *)

EngineInv(lists) ==
  /\ els \in lists
  /\ DOMAIN st = DOMAIN els
  /\ \A i \in DOMAIN els : ~(els[i].end > 0) => Keeps(els[i], st[i]) /\ ~st[i].dirty
  /\ EndsComplete

LEMMA AllDone ==
  ASSUME NEW e, ElementOk(e), NEW s, Keeps(e, s), s.done, ~s.dirty
  PROVE  /\ s.visible = (e.anim = "typewriter" => Chars(e.text) # <<>>)
         /\ s.dx = 0 /\ s.dy = 0
         /\ e.anim \in {"typewriter", "scramble"} => s.cp = Len(Chars(e.text))
         /\ (e.anim = "eink") => s.eink = EinkContent
         /\ (e.anim = "fade") => s.fade = Opaque
         /\ (e.anim = "grow") => s.grow = e.w
         /\ (e.anim = "wipe") => s.wipe = WipeTarget(e)
<1>1. Finished(e, s) /\ Underway(e, s) /\ s.visible \in BOOLEAN BY DEF Keeps, StateTyped
<1>2. Chars(e.text) # <<>> <=> Len(Chars(e.text)) > 0
  BY EmptySeq, LenProperties DEF ElementOk
<1>3. CASE e.anim = "typewriter"
  <2>1. s.visible <=> s.cp > 0 BY <1>1, <1>3 DEF Underway, SeenNow
  <2>2. s.cp = Len(Chars(e.text)) BY <1>1, <1>3 DEF Finished, TextLength
  <2>3. s.visible = (Chars(e.text) # <<>>) BY <1>1, <1>2, <2>1, <2>2
  <2> QED BY <1>1, <1>3, <2>3 DEF Finished, TextLength
<1>4. CASE e.anim # "typewriter"
  <2>1. s.visible BY <1>1, <1>4 DEF Finished, SeenNow
  <2> QED BY <1>1, <1>4, <2>1 DEF Finished, TextLength
<1> QED BY <1>3, <1>4

LEMMA EngineStart == ASSUME NEW lists, ShowElements(lists), FromParser(lists) PROVE EngineInv(lists)
<1>1. els \in lists /\ st = [i \in DOMAIN els |-> Resolve(els[i])] /\ phase = "playing" BY DEF ShowElements
<1>2. ASSUME NEW i \in DOMAIN els PROVE Keeps(els[i], st[i]) /\ ~st[i].dirty
  <2>1. st[i] = Resolve(els[i]) BY <1>1
  <2>2. ElementOk(els[i]) BY <1>1, ParserAccepts DEF FromParser
  <2>3. TextLength(els[i]) \in Nat BY <2>2, LengthIsNat
  <2>4. PICK s : s = st[i] OBVIOUS
  <2>5. /\ DOMAIN s = StateFields /\ s.cp = 0 /\ s.eink = 0 /\ s.fade = 0 /\ s.grow = 0
        /\ s.visible = FALSE /\ s.dirty = FALSE /\ s.done = FALSE
        /\ els[i].anim # "move" => s.dx = 0 /\ s.dy = 0
    BY <2>1, <2>4 DEF Resolve, StateFields
  <2>7. StateTyped(s)
    <3>1. 0 \in Nat /\ 0 \in Int OBVIOUS
    <3> QED BY <2>5, <3>1, Zenon DEF StateTyped
  <2>8. 0 <= TextLength(els[i]) /\ ~(0 > 0) /\ 0 < EinkContent BY <2>3 DEF EinkContent
  <2>9. Underway(els[i], s) BY <2>5, <2>8 DEF Underway, SeenNow
  <2>6. Keeps(els[i], s) BY <2>5, <2>7, <2>9 DEF Keeps
  <2> QED BY <2>4, <2>5, <2>6
<1> QED BY <1>1, <1>2 DEF EngineInv, EndsComplete

LEMMA EngineStep ==
  ASSUME NEW lists, FromParser(lists), EngineInv(lists), [EngineNext]_opinfoVars PROVE EngineInv(lists)'
<1>0. els \in lists /\ DOMAIN st = DOMAIN els BY DEF EngineInv
<1>1. CASE Frame
  <2>1. PICK turned : /\ turned = Turned
                      /\ st' = [i \in DOMAIN els |-> [turned[i] EXCEPT !.dirty = FALSE]]
                      /\ phase' = IF frame > 0 /\ ~Endless /\ \A i \in DOMAIN els : turned[i].done THEN "ended" ELSE "playing"
                      /\ els' = els
    BY <1>1 DEF Frame
  <2>2. ASSUME NEW i \in DOMAIN els, ~(els[i].end > 0)
        PROVE  /\ Keeps(els[i], st'[i]) /\ ~st'[i].dirty
               /\ ElementOk(els[i]) /\ st'[i].done = turned[i].done
    <3>1. turned[i] = Advance(els[i], st[i]) BY <2>1 DEF Turned
    <3>2. ElementOk(els[i]) BY <1>0, ParserAccepts DEF FromParser
    <3>3. Keeps(els[i], st[i]) /\ ~st[i].dirty BY <2>2 DEF EngineInv
    <3>4. PICK t, n : t = turned[i] /\ n = st'[i] OBVIOUS
    <3>5. t = Advance(els[i], st[i]) /\ n = [t EXCEPT !.dirty = FALSE] BY <2>1, <3>1, <3>4
    <3>6. Keeps(els[i], n) /\ ~n.dirty /\ n.done = t.done BY <2>2, <3>2, <3>3, <3>5, AdvanceKeeps
    <3> QED BY <3>2, <3>4, <3>6
  <2>3. els' = els /\ DOMAIN st' = DOMAIN els BY <2>1
  <2>4. ASSUME phase' = "ended" PROVE ~Endless' /\ Complete'
    <3>1. ~Endless /\ \A i \in DOMAIN els : turned[i].done BY <2>1, <2>4
    <3>2. ASSUME NEW i \in DOMAIN els, ~(els[i].end > 0)
          PROVE  /\ st'[i].visible = (els[i].anim = "typewriter" => Chars(els[i].text) # <<>>)
                 /\ st'[i].dx = 0 /\ st'[i].dy = 0
                 /\ els[i].anim \in {"typewriter", "scramble"} => st'[i].cp = Len(Chars(els[i].text))
                 /\ (els[i].anim = "eink") => st'[i].eink = EinkContent
                 /\ (els[i].anim = "fade") => st'[i].fade = Opaque
                 /\ (els[i].anim = "grow") => st'[i].grow = els[i].w
                 /\ (els[i].anim = "wipe") => st'[i].wipe = WipeTarget(els[i])
      <4>1. PICK n : n = st'[i] OBVIOUS
      <4>2. ElementOk(els[i]) /\ Keeps(els[i], n) /\ ~n.dirty /\ n.done BY <2>2, <3>1, <3>2, <4>1
      <4> QED BY <4>1, <4>2, AllDone
    <3>3. Complete' BY <2>3, <3>2 DEF Complete
    <3>4. Endless' <=> Endless BY <2>3 DEF Endless
    <3> QED BY <3>1, <3>3, <3>4
  <2> QED BY <1>0, <2>2, <2>3, <2>4 DEF EngineInv, EndsComplete
<1>2. CASE Abort
  <2>1. els' = els /\ st' = st /\ phase' = "aborted" BY <1>2 DEF Abort
  <2> QED BY <2>1 DEF EngineInv, EndsComplete
<1>3. CASE UNCHANGED opinfoVars
  <2>1. els' = els /\ st' = st /\ phase' = phase BY <1>3 DEF opinfoVars
  <2> QED BY <2>1 DEF EngineInv, EndsComplete, Endless, Complete
<1> QED BY <1>1, <1>2, <1>3 DEF EngineNext

\* A list of elements that the parser made of any configs ends, if it does, with
\* every element that stays in its place and shown in full, and none in a loop
\* (engine_compose's verdict and el_advance).
THEOREM EndsCompleteCorrect == ASSUME NEW lists, FromParser(lists) PROVE EngineSpec(lists) => []EndsComplete
<1>1. ShowElements(lists) => EngineInv(lists) BY EngineStart
<1>2. EngineInv(lists) /\ [EngineNext]_opinfoVars => EngineInv(lists)' BY EngineStep
<1>3. EngineInv(lists) => EndsComplete BY DEF EngineInv
<1> QED BY <1>1, <1>2, <1>3, PTL DEF EngineSpec

------------------------------------------------------------------------------
(* The catalogue *)

LEMMA LeastNat == ASSUME NEW T, T \subseteq Nat, T # {} PROVE \E x \in T : \A y \in T : x <= y
<1>1. IsWellFoundedOn(OpToRel(<,Nat), Nat) BY NatLessThanWellFounded
<1>2. PICK x \in T : \A y \in T : ~ (<<y, x>> \in OpToRel(<,Nat))
  <2> HIDE DEF OpToRel
  <2> QED BY <1>1, WFMin
<1>3. \A y \in T : <<y, x>> \in Nat \X Nat BY Zenon
<1>4. \A y \in T : ~ (y < x) BY <1>2, <1>3 DEF OpToRel
<1> QED BY <1>4

\* Induction, over a set instead of a predicate.
LEMMA UpTo ==
  ASSUME NEW N \in Nat, NEW T, 0 \in T, \A k \in 1 .. N : k - 1 \in T => k \in T
  PROVE  \A k \in 0 .. N : k \in T
<1> SUFFICES ASSUME NEW b \in 0 .. N, b \notin T PROVE FALSE OBVIOUS
<1> DEFINE Out == {k \in 0 .. N : k \notin T}
<1>1. Out \subseteq Nat /\ Out # {} OBVIOUS
<1>2. PICK x \in Out : \A y \in Out : x <= y BY <1>1, LeastNat
<1>3. x # 0 /\ x \in 1 .. N OBVIOUS
<1>4. x - 1 \in 0 .. N /\ ~ (x <= x - 1) BY <1>3
<1>5. x - 1 \in T BY <1>2, <1>4
<1> QED BY <1>2, <1>3, <1>5

Stepwise(g, N, D, init, step) ==
  g \in [0 .. N -> D] /\ g[0] = init /\ \A k \in 1 .. N : g[k] = step[<<k, g[k - 1]>>]

\* A function that is defined from one number to the next exists, when the steps stay
\* in a set.
LEMMA StepByStep ==
  ASSUME NEW N \in Nat, NEW D, NEW init \in D, NEW step \in [(1 .. N) \X D -> D]
  PROVE  \E g : Stepwise(g, N, D, init, step)
<1> DEFINE Upto(g, n) == g \in [0 .. n -> D] /\ g[0] = init /\ \A k \in 1 .. n : g[k] = step[<<k, g[k - 1]>>]
           T == {n \in 0 .. N : \E g : Upto(g, n)}
<1>1. 0 \in T
  <2> DEFINE g == [k \in 0 .. 0 |-> init]
  <2>1. Upto(g, 0) OBVIOUS
  <2>2. 0 \in 0 .. N OBVIOUS
  <2> HIDE DEF Upto
  <2>3. \E h : Upto(h, 0) BY <2>1
  <2> QED BY <2>2, <2>3
<1>2. ASSUME NEW n \in 1 .. N, n - 1 \in T PROVE n \in T
  <2>1. PICK g : Upto(g, n - 1) BY <1>2
  <2>2. n - 1 \in 0 .. n - 1 /\ g[n - 1] \in D BY <2>1
  <2>3. step[<<n, g[n - 1]>>] \in D BY <2>2
  <2> DEFINE h == [k \in 0 .. n |-> IF k = n THEN step[<<n, g[n - 1]>>] ELSE g[k]]
  <2>4. h \in [0 .. n -> D]
    <3>1. \A k \in 0 .. n : k # n => k \in 0 .. n - 1 OBVIOUS
    <3> QED BY <2>1, <2>3, <3>1
  <2>5. h[0] = init /\ h[n] = step[<<n, g[n - 1]>>] /\ \A k \in 0 .. n - 1 : h[k] = g[k] BY <2>1
  <2>6. ASSUME NEW k \in 1 .. n PROVE h[k] = step[<<k, h[k - 1]>>]
    <3>1. k - 1 \in 0 .. n - 1 /\ h[k - 1] = g[k - 1] BY <2>5
    <3>2. CASE k = n BY <2>5, <3>1, <3>2
    <3>3. CASE k # n
      <4>1. k \in 1 .. n - 1 BY <3>3
      <4>2. g[k] = step[<<k, g[k - 1]>>] BY <2>1, <4>1
      <4>3. h[k] = g[k] BY <2>5, <4>1
      <4> QED BY <3>1, <4>2, <4>3
    <3> QED BY <3>2, <3>3
  <2> HIDE DEF h
  <2>7. Upto(h, n) BY <2>4, <2>5, <2>6
  <2> QED BY <2>7
<1> HIDE DEF T
<1>3. N \in T BY <1>1, <1>2, UpTo
<1> QED BY <1>3 DEF T, Stepwise

(* What is accepted can be played *)

LEMMA Limits == MaxOperators \in Nat /\ MaxOperators > 0 /\ FirstCapacity \in Nat /\ FirstCapacity > 0 /\ MaxElements \in Nat /\ MaxElements > 0
<1>1. MaxOperators \in Nat \ {0} /\ FirstCapacity \in Nat \ {0} /\ MaxElements \in Nat \ {0} BY CatalogueAssumption
<1> QED BY <1>1

LEMMA TransitionPlays ==
  ASSUME NEW t, JsonTransition(t)
  PROVE  /\ Transition(t) = <<>> \/ \E r : Transition(t) = <<r>>
         /\ \A r : Transition(t) = <<r>> => ((r.type # "none") => r.duration > 0)
<1> DEFINE made == [type |-> t.type, duration |-> t.duration, color |-> Color(t.color, "black"), image |-> ValidImage(t.image)]
<1>1. t.duration \in Int BY DEF JsonTransition
<1>2. Transition(t) \in {<<>>, <<NoTransition>>} \/ (Transition(t) = <<made>> /\ ~(t.duration <= 0))
  BY DEF Transition
<1>3. made.duration = t.duration OBVIOUS
<1>4. NoTransition.type = "none" BY DEF NoTransition
<1> HIDE DEF made
<1> QED BY <1>1, <1>2, <1>3, <1>4

LEMMA IntroPlays ==
  ASSUME NEW v, v.duration \in Int
  PROVE  /\ Intro(v) = <<>> \/ \E r : Intro(v) = <<r>>
         /\ \A r : Intro(v) = <<r>> => (r.enabled => There(r.file) /\ r.duration > 0)
<1> DEFINE made == [enabled |-> TRUE, duration |-> v.duration, file |-> v.file]
           none == [enabled |-> FALSE, duration |-> 0, file |-> ""]
<1>2. Intro(v) \in {<<>>, <<none>>} \/ (Intro(v) = <<made>> /\ There(v.file) /\ ~(v.duration <= 0))
  BY DEF Intro
<1>3. made.duration = v.duration /\ made.file = v.file OBVIOUS
<1>4. none.enabled = FALSE OBVIOUS
<1> HIDE DEF made, none
<1> QED BY <1>2, <1>3, <1>4

\* What parse_custom_element accepts is an element that plays.
LEMMA ElementAccepted ==
  ASSUME NEW j, JsonElement(j)
  PROVE  Element(j) = <<>> \/ \E el : Element(j) = <<el>> /\ ElementPlays(el)
<1> DEFINE start == AtLeast0(j.start)
           frames == AtLeast0(j.frames)
           anim == Anim(j, frames)
           w == CASE j.type = "barcode" /\ j.w <= 0 -> 50
                  [] j.type = "corner_fade" /\ j.w <= 1 -> 192
                  [] OTHER -> j.w
           h == IF j.type = "barcode" /\ j.h <= 0 THEN 180 ELSE j.h
           end == EndFrame(start, AtLeast0(j.end))
           speed == IF j.speed > 0 THEN j.speed ELSE IF anim = "none" THEN 0 ELSE DefaultSpeed[anim]
           el == [type |-> j.type, anim |-> anim, anchor |-> IF j.anchor \in {"tr", "bl", "br"} THEN j.anchor ELSE "tl",
               x |-> j.x, y |-> j.y, w |-> w, h |-> h,
               start |-> start, end |-> end,
               speed |-> speed,
               dir |-> IF j.dir \in {"rtl", "ttb", "btt"} THEN j.dir ELSE "ltr",
               dx |-> j.dx, dy |-> j.dy, frames |-> frames, border |-> AtLeast0(j.border),
               text |-> j.text, image |-> ValidImage(j.image), color |-> Color(j.color, "white")]
           sized == j.w > 0 /\ j.h > 0
<1>1. j.w \in Int /\ j.h \in Int /\ j.start \in Int /\ j.end \in Int /\ j.dx \in Int /\ j.dy \in Int /\ j.frames \in Int /\ j.speed \in Int
  BY DEF JsonElement
<1>2. Element(j) = <<>> \/ (Element(j) = <<el>> /\ ~(j.type \in {"rect", "text_rot90"} /\ ~sized))
  BY DEF Element, ElementOf
<1>3. start \in Nat /\ frames \in Nat /\ AtLeast0(j.end) \in Nat BY <1>1 DEF AtLeast0
<1>4. end = 0 \/ end > start BY <1>3 DEF EndFrame
<1>5. /\ anim \in DOMAIN DefaultSpeed
      /\ anim \in {"move", "sway"} => j.dx # 0 \/ j.dy # 0
      /\ anim = "sprite" => frames >= 2
  BY DEF Anim, DefaultSpeed
<1>6. anim # "none" => DefaultSpeed[anim] > 0 BY <1>5 DEF DefaultSpeed
<1>7. anim # "none" => speed > 0 BY <1>1, <1>6
<1>8. anim \in {"move", "sway"} => <<j.dx, j.dy>> # <<0, 0>> BY <1>5
<1>9. j.type \in {"rect", "text_rot90", "barcode"} /\ ~(j.type \in {"rect", "text_rot90"} /\ ~sized) => w > 0 /\ h > 0 BY <1>1
<1>10. el.start = start /\ el.end = end /\ el.anim = anim /\ el.speed = speed /\ el.dx = j.dx /\ el.dy = j.dy /\ el.frames = frames
       /\ el.type = j.type /\ el.w = w /\ el.h = h
  <2> HIDE DEF start, end, frames, anim, w, h, speed
  <2> QED OBVIOUS
<1> HIDE DEF start, end, frames, anim, w, h, speed, el, sized
<1>11. ~(j.type \in {"rect", "text_rot90"} /\ ~sized) => ElementPlays(el)
  BY <1>3, <1>4, <1>5, <1>7, <1>8, <1>9, <1>10 DEF ElementPlays
<1> QED BY <1>2, <1>11

\* a list of n elements that all play
AllPlay(got, n) == \E all : got = <<all>> /\ Len(all) = n /\ n >= 1 /\ DOMAIN all = 1 .. n /\ \A i \in 1 .. n : ElementPlays(all[i])

\* A list is refused, or all of its elements play.
LEMMA AllAccepted ==
  ASSUME NEW n \in Nat, NEW each, DOMAIN each = 1 .. n, each = [i \in 1 .. n |-> each[i]],
         \A i \in 1 .. n : each[i] = <<>> \/ \E el : each[i] = <<el>> /\ ElementPlays(el),
         AllOrNone(each) # <<>>
  PROVE  AllPlay(AllOrNone(each), n)
<1> DEFINE all == [i \in DOMAIN each |-> each[i][1]]
<1>1. each # <<>> /\ (\A i \in DOMAIN each : each[i] # <<>>) /\ AllOrNone(each) = <<all>> BY DEF AllOrNone
<1>2. n # 0 BY <1>1
<1>3. ASSUME NEW i \in 1 .. n PROVE ElementPlays(all[i])
  <2>1. PICK el : each[i] = <<el>> /\ ElementPlays(el) BY <1>1
  <2>2. all[i] = el BY <2>1
  <2> QED BY <2>1, <2>2
<1>4. DOMAIN all = 1 .. n /\ Len(all) = n
  <2>1. all \in Seq({all[i] : i \in 1 .. n}) OBVIOUS
  <2>2. DOMAIN all = 1 .. n OBVIOUS
  <2> HIDE DEF all
  <2> QED BY <2>1, <2>2
<1>5. n >= 1 BY <1>2
<1> HIDE DEF all
<1> QED BY <1>1, <1>3, <1>4, <1>5, Zenon DEF AllPlay

ShownWhole(v) ==
  /\ (v.type # "none") => v.appear > 0
  /\ v.type \in {"custom", "image"} => Len(v.elements) \in 1 .. MaxElements
  /\ \A i \in DOMAIN v.elements : ElementPlays(v.elements[i])

\* An overlay is refused, or it can be shown.
LEMMA OverlayPlays ==
  ASSUME NEW c \in Configs
  PROVE  Overlay(c.overlay) = <<>> \/ \E v : Overlay(c.overlay) = <<v>> /\ ShownWhole(v)
<1> DEFINE o == c.overlay
<1>1. /\ o.appear \in Int /\ o.duration \in Int
      /\ Len(o.elements) \in Nat /\ DOMAIN o.elements = 1 .. Len(o.elements)
      /\ \A i \in DOMAIN o.elements : JsonElement(o.elements[i])
  BY CatalogueAssumption DEF Json
<1> HIDE DEF o
<1> DEFINE n == IF Len(o.elements) > MaxElements THEN MaxElements ELSE Len(o.elements)
           each == [i \in 1 .. n |-> Element(o.elements[i])]
<1>2. n \in Nat /\ n <= MaxElements /\ 1 .. n \subseteq DOMAIN o.elements BY <1>1, Limits
<1>3. \A i \in 1 .. n : each[i] = <<>> \/ \E el : each[i] = <<el>> /\ ElementPlays(el)
  BY <1>1, <1>2, ElementAccepted
<1>4. Elements(o.elements) = AllOrNone(each) BY DEF Elements
<1>5. DOMAIN each = 1 .. n /\ each = [i \in 1 .. n |-> each[i]] OBVIOUS
<1> HIDE DEF each, n
<1>6. Elements(o.elements) # <<>> => AllPlay(Elements(o.elements), n)
  BY <1>2, <1>3, <1>4, <1>5, AllAccepted
<1>7. ASSUME NEW f PROVE LET s == BuildImageElements(f) IN Len(s) = 1 /\ DOMAIN s = {1} /\ ElementPlays(s[1])
  <2> DEFINE j == [PlainImage EXCEPT !.image = f]
  <2>1. /\ j.is = "object" /\ j.type = "image" /\ j.w = 0 /\ j.h = 0 /\ j.start = 0 /\ j.end = 0 /\ j.dx = 0 /\ j.dy = 0 /\ j.frames = 0 /\ j.speed = 0
    BY DEF PlainImage
  <2> HIDE DEF j
  <2>2. JsonElement(j) BY <2>1 DEF JsonElement
  <2>3. Element(j) # <<>> BY <2>1 DEF Element, ElementOf, ElementTypes
  <2>4. PICK el : Element(j) = <<el>> /\ ElementPlays(el) BY <2>2, <2>3, ElementAccepted
  <2>5. BuildImageElements(f) = <<el>> BY <2>4 DEF BuildImageElements, j
  <2> QED BY <2>4, <2>5
<1> DEFINE ark == [NoOverlay EXCEPT !.type = "arknights", !.appear = o.appear, !.name = Text(o.name, "OPERATOR"), !.logo = ValidImage(o.image)]
           img == [NoOverlay EXCEPT !.type = "image", !.appear = o.appear, !.duration = o.duration,
                                !.elements = BuildImageElements(ValidImage(o.image))]
           cus(all) == [NoOverlay EXCEPT !.type = "custom", !.appear = o.appear, !.duration = o.duration, !.elements = all]
<1>8. /\ ark.type = "arknights" /\ ark.appear = o.appear /\ ark.elements = <<>>
      /\ img.type = "image" /\ img.appear = o.appear /\ img.elements = BuildImageElements(ValidImage(o.image))
      /\ \A all : cus(all).type = "custom" /\ cus(all).appear = o.appear /\ cus(all).elements = all
      /\ NoOverlay.type = "none" /\ NoOverlay.elements = <<>>
  BY DEF NoOverlay
<1> DEFINE list == IF o.type = "custom" THEN Elements(o.elements) ELSE <<>>
<1>9. Overlay(o) = OverlayWith(o, list) BY DEF Overlay
<1>10. \/ OverlayWith(o, list) \in {<<>>, <<NoOverlay>>}
       \/ OverlayWith(o, list) = <<ark>> /\ ~(o.appear <= 0)
       \/ OverlayWith(o, list) = <<img>> /\ ~(o.appear <= 0)
       \/ OverlayWith(o, list) = <<cus(list[1])>> /\ ~(o.appear <= 0) /\ o.type = "custom" /\ list # <<>>
  <2> HIDE DEF list
  <2> QED BY DEF OverlayWith
<1> HIDE DEF ark, img, cus, o
<1>11. ShownWhole(NoOverlay) BY <1>8 DEF ShownWhole
<1>12. ~(o.appear <= 0) => ShownWhole(ark) BY <1>1, <1>8 DEF ShownWhole
<1>13. ~(o.appear <= 0) => ShownWhole(img)
  <2>1. Len(img.elements) = 1 /\ DOMAIN img.elements = {1} /\ ElementPlays(img.elements[1]) BY <1>7, <1>8
  <2>2. Len(img.elements) \in 1 .. MaxElements BY <2>1, Limits
  <2> QED BY <1>1, <1>8, <2>1, <2>2 DEF ShownWhole
<1>14. ~(o.appear <= 0) /\ o.type = "custom" /\ list # <<>> => ShownWhole(cus(list[1]))
  <2> SUFFICES ASSUME ~(o.appear <= 0), o.type = "custom", list # <<>> PROVE ShownWhole(cus(list[1])) OBVIOUS
  <2>1. PICK all : list = <<all>> /\ Len(all) = n /\ n >= 1 /\ DOMAIN all = 1 .. n /\ \A i \in 1 .. n : ElementPlays(all[i]) BY <1>6 DEF AllPlay
  <2>2. list[1] = all BY <2>1
  <2>3. Len(all) \in 1 .. MaxElements BY <1>2, <2>1
  <2> QED BY <1>1, <1>8, <2>1, <2>2, <2>3 DEF ShownWhole
<1>15. \/ Overlay(o) = <<>>
       \/ \E v : Overlay(o) = <<v>> /\ ShownWhole(v)
  <2> HIDE DEF list
  <2> QED BY <1>9, <1>10, <1>11, <1>12, <1>13, <1>14
<1> QED BY <1>15 DEF o

\* what an overlay leaves on the heap: its list, if that was allocated and not freed
Stays(o) == Allocates(o) /\ ~Frees(o)

\* A refused overlay leaves no list, and of the others each that has elements.
LEMMA OverlayLeaves ==
  ASSUME NEW c \in Configs
  PROVE  /\ Overlay(c.overlay) = <<>> => ~Stays(c.overlay)
         /\ \A v : Overlay(c.overlay) = <<v>> => (v.elements # <<>> <=> Stays(c.overlay))
<1> DEFINE o == c.overlay
           list == IF o.type = "custom" THEN Elements(o.elements) ELSE <<>>
<1>1. o.appear \in Int /\ o.duration \in Int BY CatalogueAssumption DEF Json
<1>2. Overlay(o) = OverlayWith(o, list) BY DEF Overlay
<1>3. o.type = "custom" => list = Elements(o.elements) OBVIOUS
<1>4. \A v : Overlay(o) = <<v>> => ShownWhole(v)
  <2> SUFFICES ASSUME NEW v, Overlay(o) = <<v>> PROVE ShownWhole(v) OBVIOUS
  <2>1. PICK w : Overlay(o) = <<w>> /\ ShownWhole(w) BY OverlayPlays
  <2> QED BY <2>1
<1>5. Elements(<<>>) = <<>>
  <2>1. Len(<<>>) = 0 /\ ~(0 > MaxElements) BY Limits
  <2>2. [i \in 1 .. 0 |-> Element(<<>>[i])] = <<>> OBVIOUS
  <2>3. Elements(<<>>) = AllOrNone([i \in 1 .. 0 |-> Element(<<>>[i])]) BY <2>1 DEF Elements
  <2> QED BY <2>2, <2>3 DEF AllOrNone
<1> HIDE DEF list, o
<1>6. ASSUME OverlayWith(o, list) = <<>> PROVE ~Stays(o)
  <2>1. \/ o.is # "object" \/ o.type \notin {"custom", "image"} \/ ~o.options \/ o.appear <= 0
        \/ o.type = "image" /\ o.duration <= 0
        \/ o.type = "custom" /\ list = <<>>
    BY <1>6 DEF OverlayWith
  <2> QED BY <1>1, <1>3, <2>1 DEF Stays, Allocates, Frees
<1>7. ASSUME NEW v, OverlayWith(o, list) = <<v>> PROVE v.elements # <<>> <=> Stays(o)
  <2>1. \/ v.elements = <<>> /\ (o.is # "object" \/ o.type \notin {"custom", "image"})
        \/ /\ v.type = o.type /\ o.is = "object" /\ o.options /\ ~(o.appear <= 0)
           /\ \/ o.type = "custom" /\ list # <<>>
              \/ o.type = "image" /\ ~(o.duration <= 0)
    <3> DEFINE ark == [NoOverlay EXCEPT !.type = "arknights", !.appear = o.appear, !.name = Text(o.name, "OPERATOR"), !.logo = ValidImage(o.image)]
               img == [NoOverlay EXCEPT !.type = "image", !.appear = o.appear, !.duration = o.duration,
                                    !.elements = BuildImageElements(ValidImage(o.image))]
               cus == [NoOverlay EXCEPT !.type = "custom", !.appear = o.appear, !.duration = o.duration, !.elements = list[1]]
    <3>1. ark.elements = <<>> /\ img.type = "image" /\ cus.type = "custom" /\ NoOverlay.elements = <<>> BY DEF NoOverlay
    <3>2. \/ (o.is # "object" \/ o.type \in {"absent", "none"}) /\ OverlayWith(o, list) = << NoOverlay >>
          \/ OverlayWith(o, list) = <<>>
          \/ /\ o.is = "object" /\ o.options /\ ~(o.appear <= 0)
             /\ \/ o.type = "arknights" /\ OverlayWith(o, list) = <<ark>>
                \/ o.type = "custom" /\ list # <<>> /\ OverlayWith(o, list) = <<cus>>
                \/ o.type = "image" /\ ~(o.duration <= 0) /\ OverlayWith(o, list) = <<img>>
      BY DEF OverlayWith
    <3> HIDE DEF ark, img, cus
    <3> QED BY <1>7, <3>1, <3>2
  <2>2. CASE o.is # "object" \/ o.type \notin {"custom", "image"}
    <3>1. v.elements = <<>> BY <2>1, <2>2
    <3>2. ~Stays(o) BY <2>2 DEF Stays, Allocates
    <3> QED BY <3>1, <3>2
  <2>3. CASE o.is = "object" /\ o.type \in {"custom", "image"}
    <3>1. /\ v.type = o.type /\ o.options /\ ~(o.appear <= 0)
          /\ o.type = "custom" => list # <<>>
          /\ o.type = "image" => ~(o.duration <= 0)
      BY <2>1, <2>3
    <3>2. Len(v.elements) \in 1 .. MaxElements BY <1>2, <1>4, <1>7, <2>3, <3>1 DEF ShownWhole
    <3>3. v.elements # <<>> BY <3>2
    <3>4. o.type = "custom" => o.elements # <<>> /\ ~Frees(o) BY <1>3, <1>5, <3>1 DEF Frees
    <3>5. Stays(o) BY <1>1, <2>3, <3>1, <3>4 DEF Stays, Allocates, Frees
    <3> QED BY <3>3, <3>5
  <2> QED BY <2>2, <2>3
<1> QED BY <1>2, <1>6, <1>7 DEF o

\* STRING, said so that the provers see three of its members
Line == STRING \cup {"nofile", "notauuid", "zero"}

\* An entry as the loader makes it, before it has its place.
Fields == {"dir", "index", "uuid", "name", "icon", "loop", "intro", "transIn", "transLoop", "opinfo", "scale"}
MadeOf(d, e) == DOMAIN e = Fields /\ e = [f \in Fields |-> e[f]] /\ e.dir = d /\ e.uuid \in Line

\* A directory is refused, or becomes an entry that can be played.
LEMMA TryLoadPlays ==
  ASSUME NEW d \in Dirs, NEW c \in Configs
  PROVE  TryLoad(d, c) = <<>> \/ \E e : TryLoad(d, c) = <<e>> /\ MadeOf(d, e) /\ Plays(e)
<1>1. d # "" /\ Json(c) /\ "" \notin Files BY CatalogueAssumption
<1> DEFINE intro == Intro(c.intro)
           in == Transition(c.transIn)
           loop == Transition(c.transLoop)
           overlay == Overlay(c.overlay)
           e == [dir |-> d, index |-> 0, uuid |-> c.uuid, name |-> Text(c.name, d), icon |-> Text(ValidImage(c.icon), "default"),
            loop |-> c.loop, intro |-> intro[1], transIn |-> in[1], transLoop |-> loop[1],
            opinfo |-> overlay[1], scale |-> Scales(c.screen, UiScale)]
<1>2. \/ TryLoad(d, c) = <<>>
      \/ TryLoad(d, c) = <<e>> /\ There(c.loop) /\ intro # <<>> /\ in # <<>> /\ loop # <<>> /\ overlay # <<>>
  <2> HIDE DEF intro, in, loop, overlay
  <2>1. TryLoad(d, c) = Accepted(d, c, intro, in, loop, overlay) BY DEF TryLoad, intro, in, loop, overlay
  <2> QED BY <2>1 DEF Accepted, ReachesOverlay
<1>3. intro # <<>> => (intro[1].enabled => There(intro[1].file) /\ intro[1].duration > 0)
  <2>1. c.intro.duration \in Int BY <1>1 DEF Json
  <2> QED BY <2>1, IntroPlays
<1>4. in # <<>> => ((in[1].type # "none") => in[1].duration > 0)
  <2>1. JsonTransition(c.transIn) BY <1>1 DEF Json
  <2> QED BY <2>1, TransitionPlays
<1>5. loop # <<>> => ((loop[1].type # "none") => loop[1].duration > 0)
  <2>1. JsonTransition(c.transLoop) BY <1>1 DEF Json
  <2> QED BY <2>1, TransitionPlays
<1>6. overlay # <<>> => ShownWhole(overlay[1]) BY OverlayPlays
<1> HIDE DEF intro, in, loop, overlay
<1>7. DOMAIN e = Fields /\ e = [f \in Fields |-> e[f]] BY DEF Fields
<1>8. /\ e.dir = d /\ e.uuid = c.uuid /\ e.name = Text(c.name, d) /\ e.icon = Text(ValidImage(c.icon), "default") /\ e.loop = c.loop
      /\ e.intro = intro[1] /\ e.transIn = in[1] /\ e.transLoop = loop[1] /\ e.opinfo = overlay[1]
  OBVIOUS
<1> HIDE DEF e
<1>9. e.uuid \in Line BY <1>1, <1>8 DEF Json, Line
<1>10. e.name # "" /\ e.icon # "" BY <1>1, <1>8 DEF Text
<1>11. There(c.loop) /\ intro # <<>> /\ in # <<>> /\ loop # <<>> /\ overlay # <<>> => Plays(e)
  BY <1>3, <1>4, <1>5, <1>6, <1>8, <1>10 DEF Plays, ShownWhole
<1> QED BY <1>2, <1>7, <1>8, <1>9, <1>11 DEF MadeOf

\* Refused, a config leaves no list; accepted, the one that its entry has.
LEMMA LeavesIs ==
  ASSUME NEW d \in Dirs, NEW c \in Configs
  PROVE  /\ Leaves(c) \in {0, 1}
         /\ TryLoad(d, c) = <<>> => Leaves(c) = 0
         /\ \A e : TryLoad(d, c) = <<e>> => (Owns(e) <=> Leaves(c) = 1)
<1> DEFINE intro == Intro(c.intro)
           in == Transition(c.transIn)
           loop == Transition(c.transLoop)
           overlay == Overlay(c.overlay)
           reaches == ReachesOverlay(c, intro, in, loop)
<1>1. Leaves(c) = (IF reaches /\ Stays(c.overlay) THEN 1 ELSE 0) BY DEF Leaves, Stays
<1>2. TryLoad(d, c) = Accepted(d, c, intro, in, loop, overlay) BY DEF TryLoad
<1>3. overlay = <<>> \/ \E v : overlay = <<v>> BY OverlayPlays
<1>4. /\ overlay = <<>> => ~Stays(c.overlay)
      /\ \A v : overlay = <<v>> => (v.elements # <<>> <=> Stays(c.overlay))
  BY OverlayLeaves
<1> HIDE DEF intro, in, loop, overlay
<1> DEFINE entry == [dir |-> d, index |-> 0, uuid |-> c.uuid, name |-> Text(c.name, d), icon |-> Text(ValidImage(c.icon), "default"),
            loop |-> c.loop, intro |-> intro[1], transIn |-> in[1], transLoop |-> loop[1],
            opinfo |-> overlay[1], scale |-> Scales(c.screen, UiScale)]
<1>8. TryLoad(d, c) = (IF ~reaches \/ overlay = <<>> THEN <<>> ELSE <<entry>>) BY <1>2, Zenon DEF Accepted
<1>9. entry.opinfo = overlay[1] OBVIOUS
<1> HIDE DEF reaches, entry
<1>5. TryLoad(d, c) = <<>> <=> ~reaches \/ overlay = <<>> BY <1>8
<1>6. ASSUME NEW e, TryLoad(d, c) = <<e>> PROVE reaches /\ overlay # <<>> /\ e.opinfo = overlay[1]
  BY <1>6, <1>8, <1>9
<1>7. ASSUME NEW e, TryLoad(d, c) = <<e>> PROVE Owns(e) <=> Leaves(c) = 1
  <2>1. PICK v : overlay = <<v>> BY <1>3, <1>6, <1>7
  <2>2. e.opinfo = v /\ reaches BY <1>6, <1>7, <2>1
  <2> QED BY <1>1, <1>4, <2>1, <2>2 DEF Owns
<1> QED BY <1>1, <1>4, <1>5, <1>7

(* The scan *)

Got(d) == TryLoad(d, CfgOf(d))
\* what is in the entry when d was read
EntryOf(d) == IF Got(d) = <<>> THEN Remains(d, CfgOf(d)) ELSE Got(d)[1]
Made == {EntryOf(d) : d \in Dirs}
EntrySet == {[e EXCEPT !.index = i] : e \in Made, i \in Nat}

\* f is e with the number i
Renumbered(d, e, i, f) ==
  /\ MadeOf(d, f) /\ f.index = i /\ f.uuid = e.uuid /\ f.opinfo = e.opinfo /\ (Plays(e) => Plays(f))
  /\ \A k : [f EXCEPT !.index = k] = [e EXCEPT !.index = k]

LEMMA Reindexed ==
  ASSUME NEW d, NEW e, MadeOf(d, e), NEW i
  PROVE  Renumbered(d, e, i, [e EXCEPT !.index = i])
<1> DEFINE f == [e EXCEPT !.index = i]
<1>1. DOMAIN f = Fields /\ f = [x \in Fields |-> f[x]] BY DEF MadeOf
<1>2. f.index = i BY DEF MadeOf, Fields
<1>3. \A x \in Fields \ {"index"} : f[x] = e[x] BY DEF MadeOf
<1>4. /\ f.dir = e.dir /\ f.uuid = e.uuid /\ f.opinfo = e.opinfo /\ f.name = e.name /\ f.icon = e.icon /\ f.loop = e.loop
      /\ f.intro = e.intro /\ f.transIn = e.transIn /\ f.transLoop = e.transLoop
  BY <1>3 DEF Fields
<1>5. \A k : [f EXCEPT !.index = k] = [e EXCEPT !.index = k] BY DEF MadeOf
<1> HIDE DEF f
<1>6. Plays(e) => Plays(f) BY <1>4 DEF Plays
<1> QED BY <1>1, <1>2, <1>4, <1>5, <1>6 DEF MadeOf, Renumbered

LEMMA GotIs == ASSUME NEW d \in Dirs PROVE Got(d) = <<>> \/ \E e : Got(d) = <<e>> /\ MadeOf(d, e) /\ Plays(e) /\ e = EntryOf(d)
<1>1. CfgOf(d) \in Configs BY CatalogueAssumption
<1>2. Got(d) = <<>> \/ \E e : Got(d) = <<e>> /\ MadeOf(d, e) /\ Plays(e) BY <1>1, TryLoadPlays DEF Got
<1>3. Got(d) # <<>> => Got(d)[1] = EntryOf(d) BY DEF EntryOf
<1> QED BY <1>2, <1>3

\* An entry plays when its directory was accepted, and owns the list that this left.
Faithful(e) == (Got(e.dir) # <<>> => Plays(e)) /\ (Owns(e) <=> Leaves(CfgOf(e.dir)) = 1)

LEMMA EntryOfIs == ASSUME NEW d \in Dirs PROVE MadeOf(d, EntryOf(d)) /\ Faithful(EntryOf(d)) /\ EntryOf(d) \in Made
<1>1. CfgOf(d) \in Configs /\ Json(CfgOf(d)) BY CatalogueAssumption
<1>2. EntryOf(d) \in Made BY DEF Made
<1>3. CASE Got(d) # <<>>
  <2>1. PICK e : Got(d) = <<e>> /\ MadeOf(d, e) /\ Plays(e) /\ e = EntryOf(d) BY <1>3, GotIs
  <2>2. Owns(e) <=> Leaves(CfgOf(d)) = 1 BY <1>1, <2>1, LeavesIs DEF Got
  <2> QED BY <1>2, <2>1, <2>2 DEF Faithful, MadeOf
<1>4. CASE Got(d) = <<>>
  <2>1. PICK e : e = EntryOf(d) /\ e = Remains(d, CfgOf(d)) BY <1>4 DEF EntryOf
  <2>6. PICK uuid, intro, scale :
          /\ uuid = IF Identified(CfgOf(d)) THEN CfgOf(d).uuid ELSE "zero"
          /\ intro = [enabled |-> FALSE, duration |-> 0, file |-> ""] /\ scale = [up |-> 0, down |-> 0]
    OBVIOUS
  <2>7. e = [dir |-> d, index |-> 0, uuid |-> uuid, name |-> "", icon |-> "", loop |-> "", intro |-> intro, transIn |-> NoTransition,
             transLoop |-> NoTransition, opinfo |-> NoOverlay, scale |-> scale]
    BY <2>1, <2>6, Zenon DEF Remains
  <2>2. DOMAIN e = Fields /\ e = [f \in Fields |-> e[f]] /\ e.dir = d /\ e.opinfo = NoOverlay /\ e.uuid = uuid
    BY <2>7 DEF Fields
  <2>3. e.uuid \in Line
    <3>1. CfgOf(d).uuid \in STRING BY <1>1 DEF Json
    <3>2. uuid \in Line BY <2>6, <3>1 DEF Line
    <3> QED BY <2>2, <3>2
  <2>4. Leaves(CfgOf(d)) = 0 BY <1>1, <1>4, LeavesIs DEF Got
  <2>5. ~Owns(e)
    <3>1. NoOverlay.elements = <<>> BY DEF NoOverlay
    <3> QED BY <2>2, <3>1 DEF Owns
  <2> QED BY <1>2, <1>4, <2>1, <2>2, <2>3, <2>4, <2>5 DEF Faithful, MadeOf
<1> QED BY <1>3, <1>4

LEMMA MadeFresh == \A e \in Made : e.dir \in Dirs /\ MadeOf(e.dir, e) /\ Faithful(e) /\ e = EntryOf(e.dir)
<1> SUFFICES ASSUME NEW e \in Made PROVE e.dir \in Dirs /\ MadeOf(e.dir, e) /\ Faithful(e) /\ e = EntryOf(e.dir) OBVIOUS
<1>1. PICK d \in Dirs : e = EntryOf(d) BY DEF Made
<1>2. MadeOf(d, e) /\ Faithful(e) BY <1>1, EntryOfIs
<1> QED BY <1>1, <1>2 DEF MadeOf

LEMMA EntriesAre ==
  ASSUME NEW e \in EntrySet
  PROVE  /\ e.dir \in Dirs /\ Faithful(e) /\ e.uuid \in Line
         /\ \A i \in Nat : LET f == [e EXCEPT !.index = i] IN f \in EntrySet /\ f.index = i /\ f.dir = e.dir /\ f.uuid = e.uuid /\ f.opinfo = e.opinfo
<1>1. PICK m \in Made, k \in Nat : e = [m EXCEPT !.index = k] BY DEF EntrySet
<1>2. m.dir \in Dirs /\ MadeOf(m.dir, m) /\ Faithful(m) BY MadeFresh
<1>3. Renumbered(m.dir, m, k, e) BY <1>1, <1>2, Reindexed, Zenon
<1>4. MadeOf(m.dir, e) /\ e.opinfo = m.opinfo /\ (Plays(m) => Plays(e)) /\ \A i : [e EXCEPT !.index = i] = [m EXCEPT !.index = i]
  BY <1>3, Zenon DEF Renumbered
<1>5. Faithful(e) BY <1>2, <1>4 DEF Faithful, Owns, MadeOf
<1>6. ASSUME NEW i \in Nat
      PROVE  LET f == [e EXCEPT !.index = i] IN f \in EntrySet /\ f.index = i /\ f.dir = e.dir /\ f.uuid = e.uuid /\ f.opinfo = e.opinfo
  <2>1. [e EXCEPT !.index = i] \in EntrySet BY <1>4 DEF EntrySet
  <2>2. Renumbered(m.dir, e, i, [e EXCEPT !.index = i]) BY <1>4, Reindexed, Zenon
  <2> QED BY <1>4, <2>1, <2>2 DEF MadeOf, Renumbered
<1> QED BY <1>2, <1>4, <1>5, <1>6 DEF MadeOf

LEMMA MadeAreEntries ==
  ASSUME NEW e \in Made, NEW i \in Nat
  PROVE  LET f == [e EXCEPT !.index = i] IN f \in EntrySet /\ f.index = i /\ f.dir = e.dir
<1>1. MadeOf(e.dir, e) BY MadeFresh
<1>2. Renumbered(e.dir, e, i, [e EXCEPT !.index = i]) BY <1>1, Reindexed, Zenon
<1>3. [e EXCEPT !.index = i] \in EntrySet BY DEF EntrySet
<1> QED BY <1>2, <1>3 DEF MadeOf, Renumbered

LEMMA ScannedIs ==
  ASSUME NEW dirs \in Seq(Dirs)
  PROVE  /\ Scanned(dirs) \in [0 .. Len(dirs) -> Seq(Made)]
         /\ Scanned(dirs)[0] = <<>>
         /\ \A k \in 1 .. Len(dirs) : Scanned(dirs)[k] = Scanned(dirs)[k - 1] \o Got(dirs[k])
<1> DEFINE N == Len(dirs)
           D == Seq(Made)
           init == <<>>
           step == [x \in (1 .. N) \X D |-> x[2] \o Got(dirs[x[1]])]
           F == Scanned(dirs)
<1>1. N \in Nat /\ init \in D OBVIOUS
<1>2. \A k \in 1 .. N : dirs[k] \in Dirs OBVIOUS
<1>3. \A k \in 1 .. N : Got(dirs[k]) \in D
  <2> SUFFICES ASSUME NEW k \in 1 .. N PROVE Got(dirs[k]) \in D OBVIOUS
  <2>1. CASE Got(dirs[k]) = <<>> BY <2>1
  <2>2. CASE Got(dirs[k]) # <<>>
    <3>1. PICK e : Got(dirs[k]) = <<e>> /\ e \in Made BY <1>2, <2>2, GotIs, EntryOfIs
    <3> QED BY <3>1
  <2> QED BY <2>1, <2>2
<1>4. step \in [(1 .. N) \X D -> D]
  <2>1. \A x \in (1 .. N) \X D : x[2] \o Got(dirs[x[1]]) \in D BY <1>3
  <2> QED BY <2>1
<1>5. PICK g : Stepwise(g, N, D, init, step)
  <2> HIDE DEF N, D, init, step
  <2> QED BY <1>1, <1>4, StepByStep
<1>6. g = [k \in 0 .. N |-> IF k = 0 THEN <<>> ELSE g[k - 1] \o Got(dirs[k])]
  <2>1. g \in [0 .. N -> D] /\ g[0] = <<>> /\ \A k \in 1 .. N : g[k] = step[<<k, g[k - 1]>>] BY <1>5 DEF Stepwise
  <2>2. \A k \in 1 .. N : g[k - 1] \in D BY <2>1
  <2>3. \A k \in 1 .. N : g[k] = g[k - 1] \o Got(dirs[k]) BY <2>1, <2>2
  <2>4. \A k \in 0 .. N : k # 0 => k \in 1 .. N OBVIOUS
  <2> HIDE DEF D, N, step
  <2>5. \A k \in 0 .. N : g[k] = IF k = 0 THEN <<>> ELSE g[k - 1] \o Got(dirs[k]) BY <2>1, <2>3, <2>4
  <2> QED BY <2>1, <2>5
<1>7. F = CHOOSE h : h = [k \in 0 .. N |-> IF k = 0 THEN <<>> ELSE h[k - 1] \o Got(dirs[k])]
  BY DEF Scanned, Got
<1>8. F = [k \in 0 .. N |-> IF k = 0 THEN <<>> ELSE F[k - 1] \o Got(dirs[k])]
  <2> HIDE DEF F, N
  <2> QED BY <1>6, <1>7
<1> HIDE DEF F, D, step
<1>9. F[0] = <<>> /\ \A k \in 1 .. N : F[k] = F[k - 1] \o Got(dirs[k])
  <2>1. \A k \in 0 .. N : F[k] = IF k = 0 THEN <<>> ELSE F[k - 1] \o Got(dirs[k]) BY <1>8
  <2>2. 0 \in 0 .. N /\ \A k \in 1 .. N : k \in 0 .. N /\ k # 0 BY <1>1
  <2> QED BY <2>1, <2>2
<1>10. \A k \in 0 .. N : F[k] \in D
  <2> DEFINE T == {k \in 0 .. N : F[k] \in D}
  <2>1. 0 \in T BY <1>1, <1>9
  <2>2. ASSUME NEW k \in 1 .. N, k - 1 \in T PROVE k \in T
    <3>1. F[k - 1] \in D /\ Got(dirs[k]) \in D BY <2>2, <1>3
    <3>2. F[k - 1] \o Got(dirs[k]) \in D BY <3>1 DEF D
    <3>3. F[k] \in D BY <1>9, <3>2
    <3> QED BY <1>1, <3>3
  <2> HIDE DEF T
  <2>3. \A k \in 0 .. N : k \in T BY <1>1, <2>1, <2>2, UpTo
  <2> QED BY <2>3 DEF T
<1>11. F = [k \in 0 .. N |-> F[k]] BY <1>8
<1> QED BY <1>9, <1>10, <1>11 DEF F, D

(* The order *)

\* sequences of different numbers of 1 .. n
Inj(n) == {p \in Seq(1 .. n) : \A a, b \in DOMAIN p : p[a] = p[b] => a = b}

LEMMA Appends ==
  ASSUME NEW n \in Nat, NEW p \in Inj(n), NEW i \in 1 .. n, ~Taken(p, i)
  PROVE  LET q == Append(p, i)
         IN /\ q \in Inj(n) /\ Len(q) = Len(p) + 1 /\ DOMAIN q = 1 .. Len(p) + 1
            /\ q[Len(p) + 1] = i /\ \A m \in DOMAIN p : q[m] = p[m]
            /\ \A x : Taken(q, x) <=> Taken(p, x) \/ x = i
<1> DEFINE q == Append(p, i)
<1>1. p \in Seq(1 .. n) /\ \A a, b \in DOMAIN p : p[a] = p[b] => a = b BY DEF Inj
<1>2. q \in Seq(1 .. n) /\ Len(q) = Len(p) + 1 /\ DOMAIN q = 1 .. Len(p) + 1 /\ q[Len(p) + 1] = i /\ \A m \in DOMAIN p : q[m] = p[m]
  BY <1>1
<1>3. Len(p) \in Nat /\ DOMAIN p = 1 .. Len(p) BY <1>1
<1>4. \A m \in DOMAIN q : m = Len(p) + 1 \/ m \in DOMAIN p BY <1>2, <1>3
<1>5. Len(p) + 1 \in DOMAIN q /\ \A m \in DOMAIN p : m \in DOMAIN q BY <1>2, <1>3
<1> HIDE DEF q
<1>6. \A x : Taken(q, x) <=> Taken(p, x) \/ x = i BY <1>2, <1>4, <1>5 DEF Taken
<1>7. ASSUME NEW a \in DOMAIN q, NEW b \in DOMAIN q, q[a] = q[b] PROVE a = b
  BY <1>1, <1>2, <1>4, <1>7 DEF Taken
<1> QED BY <1>2, <1>6, <1>7 DEF q, Inj

\* A line of the order file takes one entry more, or none.
LEMMA PlaceIs ==
  ASSUME NEW es, NEW n \in Nat, DOMAIN es = 1 .. n, NEW p \in Inj(n), NEW u
  PROVE  /\ Place(es, p, u) \in Inj(n)
         /\ \/ Place(es, p, u) = p /\ (Len(p) = Len(es) \/ Free(es, p, u) = {})
            \/ \E i \in Free(es, p, u) : Place(es, p, u) = Append(p, i)
<1>1. Free(es, p, u) \subseteq 1 .. n /\ \A i \in Free(es, p, u) : ~Taken(p, i) BY DEF Free
<1>2. CASE Len(p) = Len(es) \/ Free(es, p, u) = {} BY <1>2 DEF Place
<1>3. CASE ~(Len(p) = Len(es) \/ Free(es, p, u) = {})
  <2> DEFINE i == CHOOSE i \in Free(es, p, u) : \A j \in Free(es, p, u) : i <= j
  <2>1. \E x \in Free(es, p, u) : \A j \in Free(es, p, u) : x <= j
    <3>1. Free(es, p, u) \subseteq Nat BY <1>1
    <3> QED BY <3>1, <1>3, LeastNat
  <2>2. i \in Free(es, p, u) BY <2>1
  <2>3. Place(es, p, u) = Append(p, i) BY <1>3 DEF Place
  <2> HIDE DEF i
  <2>4. Append(p, i) \in Inj(n) BY <1>1, <2>2, Appends
  <2> QED BY <2>2, <2>3, <2>4
<1> QED BY <1>2, <1>3

\* The lines, one after the other: no entry is taken twice.
LEMMA NamedIs ==
  ASSUME NEW es, NEW n \in Nat, DOMAIN es = 1 .. n, NEW lines \in Seq(Line)
  PROVE  /\ Named(es, lines)[0] = <<>>
         /\ \A k \in 0 .. Len(lines) : Named(es, lines)[k] \in Inj(n)
         /\ \A k \in 1 .. Len(lines) : Named(es, lines)[k] = Place(es, Named(es, lines)[k - 1], lines[k])
<1> DEFINE N == Len(lines)
           D == Inj(n)
           init == <<>>
           step == [x \in (1 .. N) \X D |-> Place(es, x[2], lines[x[1]])]
           F == Named(es, lines)
<1>1. N \in Nat /\ init \in D BY DEF Inj
<1>2. \A p \in D : \A u : Place(es, p, u) \in D BY PlaceIs
<1>3. step \in [(1 .. N) \X D -> D]
  <2> HIDE DEF D, N
  <2>1. \A x \in (1 .. N) \X D : Place(es, x[2], lines[x[1]]) \in D BY <1>2
  <2> QED BY <2>1
<1>4. PICK g : Stepwise(g, N, D, init, step)
  <2> HIDE DEF N, D, init, step
  <2> QED BY <1>1, <1>3, StepByStep
<1>5. g = [k \in 0 .. N |-> IF k = 0 THEN <<>> ELSE Place(es, g[k - 1], lines[k])]
  <2>1. g \in [0 .. N -> D] /\ g[0] = <<>> /\ \A k \in 1 .. N : g[k] = step[<<k, g[k - 1]>>] BY <1>4 DEF Stepwise
  <2>2. \A k \in 1 .. N : g[k - 1] \in D BY <2>1
  <2>3. \A k \in 1 .. N : g[k] = Place(es, g[k - 1], lines[k]) BY <2>1, <2>2
  <2>4. \A k \in 0 .. N : k # 0 => k \in 1 .. N OBVIOUS
  <2> HIDE DEF D, N, step
  <2>5. \A k \in 0 .. N : g[k] = IF k = 0 THEN <<>> ELSE Place(es, g[k - 1], lines[k]) BY <2>1, <2>3, <2>4
  <2> QED BY <2>1, <2>5
<1>6. F = CHOOSE h : h = [k \in 0 .. N |-> IF k = 0 THEN <<>> ELSE Place(es, h[k - 1], lines[k])] BY DEF Named
<1>7. F = [k \in 0 .. N |-> IF k = 0 THEN <<>> ELSE Place(es, F[k - 1], lines[k])]
  <2> HIDE DEF F, N
  <2> QED BY <1>5, <1>6
<1> HIDE DEF F, D, step
<1>8. F[0] = <<>> /\ \A k \in 1 .. N : F[k] = Place(es, F[k - 1], lines[k])
  <2>1. \A k \in 0 .. N : F[k] = IF k = 0 THEN <<>> ELSE Place(es, F[k - 1], lines[k]) BY <1>7
  <2>2. 0 \in 0 .. N /\ \A k \in 1 .. N : k \in 0 .. N /\ k # 0 BY <1>1
  <2> QED BY <2>1, <2>2
<1>9. \A k \in 0 .. N : F[k] \in D
  <2> DEFINE T == {k \in 0 .. N : F[k] \in D}
  <2>1. 0 \in T BY <1>1, <1>8
  <2>2. ASSUME NEW k \in 1 .. N, k - 1 \in T PROVE k \in T BY <1>1, <1>2, <1>8, <2>2
  <2> HIDE DEF T
  <2>3. \A k \in 0 .. N : k \in T BY <1>1, <2>1, <2>2, UpTo
  <2> QED BY <2>3 DEF T
<1> QED BY <1>8, <1>9 DEF F, D

\* What is left comes behind: each entry that was passed is taken.
LEMMA CompletedIs ==
  ASSUME NEW n \in Nat, NEW named \in Inj(n)
  PROVE  /\ Completed(n, named)[0] = named
         /\ \A k \in 0 .. n : Completed(n, named)[k] \in Inj(n)
         /\ \A k \in 1 .. n : Completed(n, named)[k] = PlaceLast(Completed(n, named)[k - 1], k)
<1> DEFINE D == Inj(n)
           step == [x \in (1 .. n) \X D |-> PlaceLast(x[2], x[1])]
           F == Completed(n, named)
<1>1. \A p \in D, i \in 1 .. n : PlaceLast(p, i) \in D BY Appends DEF PlaceLast
<1>2. step \in [(1 .. n) \X D -> D]
  <2> HIDE DEF D
  <2>1. \A x \in (1 .. n) \X D : PlaceLast(x[2], x[1]) \in D BY <1>1
  <2> QED BY <2>1
<1>3. PICK g : Stepwise(g, n, D, named, step)
  <2>1. named \in D OBVIOUS
  <2> HIDE DEF D, step
  <2> QED BY <1>2, <2>1, StepByStep
<1>4. g = [k \in 0 .. n |-> IF k = 0 THEN named ELSE PlaceLast(g[k - 1], k)]
  <2>1. g \in [0 .. n -> D] /\ g[0] = named /\ \A k \in 1 .. n : g[k] = step[<<k, g[k - 1]>>] BY <1>3 DEF Stepwise
  <2>2. \A k \in 1 .. n : g[k - 1] \in D BY <2>1
  <2>3. \A k \in 1 .. n : g[k] = PlaceLast(g[k - 1], k) BY <2>1, <2>2
  <2>4. \A k \in 0 .. n : k # 0 => k \in 1 .. n OBVIOUS
  <2> HIDE DEF D, step
  <2>5. \A k \in 0 .. n : g[k] = IF k = 0 THEN named ELSE PlaceLast(g[k - 1], k) BY <2>1, <2>3, <2>4
  <2> QED BY <2>1, <2>5
<1>5. F = CHOOSE h : h = [k \in 0 .. n |-> IF k = 0 THEN named ELSE PlaceLast(h[k - 1], k)] BY DEF Completed
<1>6. F = [k \in 0 .. n |-> IF k = 0 THEN named ELSE PlaceLast(F[k - 1], k)]
  <2> HIDE DEF F
  <2> QED BY <1>4, <1>5
<1> HIDE DEF F, step
<1>7. F[0] = named /\ \A k \in 1 .. n : F[k] = PlaceLast(F[k - 1], k)
  <2>1. \A k \in 0 .. n : F[k] = IF k = 0 THEN named ELSE PlaceLast(F[k - 1], k) BY <1>6
  <2>2. 0 \in 0 .. n /\ \A k \in 1 .. n : k \in 0 .. n /\ k # 0 OBVIOUS
  <2> QED BY <2>1, <2>2
<1>8. \A k \in 0 .. n : F[k] \in D
  <2> DEFINE T == {k \in 0 .. n : F[k] \in D}
  <2>1. 0 \in T BY <1>7
  <2>2. ASSUME NEW k \in 1 .. n, k - 1 \in T PROVE k \in T BY <1>1, <1>7, <2>2
  <2> HIDE DEF T
  <2>3. \A k \in 0 .. n : k \in T BY <2>1, <2>2, UpTo
  <2> QED BY <2>3 DEF T
<1> QED BY <1>7, <1>8 DEF F

\* a permutation of 1 .. n
Shuffle(p, n) ==
  /\ p \in [1 .. n -> 1 .. n]
  /\ \A a, b \in 1 .. n : p[a] = p[b] => a = b
  /\ \A i \in 1 .. n : \E m \in 1 .. n : p[m] = i

\* With as many taken as there are, and none twice, the list is a shuffle.
LEMMA PermIs ==
  ASSUME NEW es, NEW n \in Nat, DOMAIN es = 1 .. n, Len(es) = n, NEW lines \in Seq(Line)
  PROVE  Shuffle(Perm(es, lines), n)
<1>1. Len(lines) \in 0 .. Len(lines) OBVIOUS
<1>2. PICK named : named = Named(es, lines)[Len(lines)] /\ named \in Inj(n) BY <1>1, NamedIs
<1> DEFINE C == Completed(n, named)
<1>3. C[0] = named /\ (\A k \in 0 .. n : C[k] \in Inj(n)) /\ \A k \in 1 .. n : C[k] = PlaceLast(C[k - 1], k)
  BY <1>2, CompletedIs
<1>4. Perm(es, lines) = C[n] BY <1>2 DEF Perm
<1> HIDE DEF C
<1>5. \A k \in 0 .. n : \A i \in 1 .. k : Taken(C[k], i)
  <2> DEFINE T == {k \in 0 .. n : \A i \in 1 .. k : Taken(C[k], i)}
  <2>1. 0 \in T OBVIOUS
  <2>2. ASSUME NEW k \in 1 .. n, k - 1 \in T PROVE k \in T
    <3>1. C[k - 1] \in Inj(n) /\ C[k] = PlaceLast(C[k - 1], k) BY <1>3
    <3>2. \A x : Taken(C[k], x) <=> Taken(C[k - 1], x) \/ x = k
      <4>1. CASE Taken(C[k - 1], k) BY <3>1, <4>1 DEF PlaceLast
      <4>2. CASE ~Taken(C[k - 1], k)
        <5>1. C[k] = Append(C[k - 1], k) BY <3>1, <4>2 DEF PlaceLast
        <5> QED BY <3>1, <4>2, <5>1, Appends
      <4> QED BY <4>1, <4>2
    <3>3. \A i \in 1 .. k : i = k \/ i \in 1 .. k - 1 OBVIOUS
    <3> QED BY <2>2, <3>2, <3>3
  <2> HIDE DEF T
  <2>3. \A k \in 0 .. n : k \in T BY <2>1, <2>2, UpTo
  <2> QED BY <2>3 DEF T
<1>6. PICK p : p = C[n] /\ p \in Inj(n) /\ \A i \in 1 .. n : Taken(p, i)
  <2>1. n \in 0 .. n OBVIOUS
  <2> QED BY <1>3, <1>5, <2>1
<1>7. p \in Seq(1 .. n) /\ (\A a, b \in DOMAIN p : p[a] = p[b] => a = b) BY <1>6 DEF Inj
<1>8. PICK m \in Nat : DOMAIN p = 1 .. m /\ p \in [1 .. m -> 1 .. n] BY <1>7
<1>9. p \in Bijection(1 .. m, 1 .. n) BY <1>6, <1>7, <1>8 DEF Bijection, Injection, Surjection, IsInjective, Taken
<1>10. m = n
  <2>1. IsFiniteSet(1 .. m) /\ Cardinality(1 .. m) = m /\ Cardinality(1 .. n) = n BY <1>8, FS_Interval
  <2>2. ExistsBijection(1 .. m, 1 .. n) BY <1>9 DEF ExistsBijection
  <2> QED BY <2>1, <2>2, FS_Bijection
<1>11. \A i \in 1 .. n : \E k \in 1 .. n : p[k] = i BY <1>6, <1>8, <1>10 DEF Taken
<1>12. p \in [1 .. n -> 1 .. n] /\ DOMAIN p = 1 .. n BY <1>8, <1>10
<1>13. Shuffle(p, n) BY <1>7, <1>11, <1>12, Zenon DEF Shuffle
<1> QED BY <1>4, <1>6, <1>13

\* As many are sent into a set as there are in it.
SentInto(p, n, D) == {j \in 1 .. n : p[j] \in D}
LEMMA SameCount ==
  ASSUME NEW n \in Nat, NEW p, Shuffle(p, n), NEW D, D \subseteq 1 .. n
  PROVE  Cardinality(SentInto(p, n, D)) = Cardinality(D) /\ Cardinality(D) \in Nat
<1>0. PICK R : R = SentInto(p, n, D) /\ R = {j \in 1 .. n : p[j] \in D} BY DEF SentInto
<1>1. IsFiniteSet(1 .. n) BY FS_Interval
<1>2. IsFiniteSet(D) /\ IsFiniteSet(R) BY <1>0, <1>1, FS_Subset
<1> DEFINE f == [j \in R |-> p[j]]
<1>3. f \in [R -> D] BY <1>0
<1>4. \A a, b \in R : f[a] = f[b] => a = b BY <1>0 DEF Shuffle
<1>5. ASSUME NEW i \in D PROVE \E j \in R : f[j] = i
  <2>1. PICK m \in 1 .. n : p[m] = i BY DEF Shuffle
  <2>2. m \in R BY <1>0, <2>1
  <2> QED BY <2>1, <2>2
<1>6. DOMAIN f = R OBVIOUS
<1> HIDE DEF f
<1>7. f \in Bijection(R, D) BY <1>3, <1>4, <1>5, <1>6 DEF Bijection, Injection, Surjection, IsInjective
<1>8. ExistsBijection(R, D) BY <1>7 DEF ExistsBijection
<1> QED BY <1>0, <1>2, <1>8, FS_Bijection, FS_CardinalityType

\* The table is grown to what is needed, never past its limit.
LEMMA ReserveIs ==
  ASSUME NEW cap \in Nat, cap <= MaxOperators, NEW need \in Nat, need <= MaxOperators
  PROVE  Reserve(cap, need) \in Nat /\ need <= Reserve(cap, need) /\ Reserve(cap, need) <= MaxOperators
<1> DEFINE D == Nat \ {0}
           init == IF cap > 0 THEN cap ELSE FirstCapacity
           step == [x \in (1 .. need) \X D |-> IF x[2] >= need THEN x[2] ELSE 2 * x[2]]
           grown[k \in 0 .. need] ==
             IF k = 0 THEN (IF cap > 0 THEN cap ELSE FirstCapacity)
             ELSE IF grown[k - 1] >= need THEN grown[k - 1] ELSE 2 * grown[k - 1]
           F == grown
<1>1. init \in D BY Limits
<1>2. step \in [(1 .. need) \X D -> D] OBVIOUS
<1>3. PICK g : Stepwise(g, need, D, init, step)
  <2> HIDE DEF D, init, step
  <2> QED BY <1>1, <1>2, StepByStep
<1>4. g = [k \in 0 .. need |-> IF k = 0 THEN (IF cap > 0 THEN cap ELSE FirstCapacity) ELSE IF g[k - 1] >= need THEN g[k - 1] ELSE 2 * g[k - 1]]
  <2>1. g \in [0 .. need -> D] /\ g[0] = init /\ \A k \in 1 .. need : g[k] = step[<<k, g[k - 1]>>] BY <1>3 DEF Stepwise
  <2>2. \A k \in 1 .. need : g[k - 1] \in D BY <2>1
  <2>3. \A k \in 1 .. need : g[k] = IF g[k - 1] >= need THEN g[k - 1] ELSE 2 * g[k - 1] BY <2>1, <2>2
  <2>4. \A k \in 0 .. need : k # 0 => k \in 1 .. need OBVIOUS
  <2>5. g[0] = IF cap > 0 THEN cap ELSE FirstCapacity BY <2>1
  <2>6. g = [k \in 0 .. need |-> g[k]] BY <2>1
  <2> HIDE DEF D, step, init
  <2>7. \A k \in 0 .. need : g[k] = IF k = 0 THEN (IF cap > 0 THEN cap ELSE FirstCapacity) ELSE IF g[k - 1] >= need THEN g[k - 1] ELSE 2 * g[k - 1]
    BY <2>3, <2>4, <2>5, Zenon
  <2> QED BY <2>6, <2>7, Zenon
<1>5. F = CHOOSE h : h = [k \in 0 .. need |-> IF k = 0 THEN (IF cap > 0 THEN cap ELSE FirstCapacity) ELSE IF h[k - 1] >= need THEN h[k - 1] ELSE 2 * h[k - 1]]
  OBVIOUS
<1>6. F = [k \in 0 .. need |-> IF k = 0 THEN (IF cap > 0 THEN cap ELSE FirstCapacity) ELSE IF F[k - 1] >= need THEN F[k - 1] ELSE 2 * F[k - 1]]
  <2> HIDE DEF F
  <2> QED BY <1>4, <1>5, Zenon
<1>7. Reserve(cap, need) = IF need <= cap THEN cap ELSE IF F[need] > MaxOperators THEN MaxOperators ELSE F[need] BY DEF Reserve
<1> HIDE DEF F, step
<1>8. F[0] = init /\ \A k \in 1 .. need : F[k] = IF F[k - 1] >= need THEN F[k - 1] ELSE 2 * F[k - 1]
  <2>1. \A k \in 0 .. need : F[k] = IF k = 0 THEN (IF cap > 0 THEN cap ELSE FirstCapacity) ELSE IF F[k - 1] >= need THEN F[k - 1] ELSE 2 * F[k - 1]
    BY <1>6, Zenon
  <2>2. 0 \in 0 .. need /\ \A k \in 1 .. need : k \in 0 .. need /\ k # 0 OBVIOUS
  <2> QED BY <2>1, <2>2
<1>9. \A k \in 0 .. need : F[k] \in D /\ (F[k] >= need \/ F[k] >= k)
  <2> DEFINE T == {k \in 0 .. need : F[k] \in D /\ (F[k] >= need \/ F[k] >= k)}
  <2>1. 0 \in T BY <1>1, <1>8
  <2>2. ASSUME NEW k \in 1 .. need, k - 1 \in T PROVE k \in T
    <3>1. F[k - 1] \in D /\ (F[k - 1] >= need \/ F[k - 1] >= k - 1) BY <2>2
    <3>2. F[k] = IF F[k - 1] >= need THEN F[k - 1] ELSE 2 * F[k - 1] BY <1>8
    <3> QED BY <3>1, <3>2
  <2> HIDE DEF T
  <2>3. \A k \in 0 .. need : k \in T BY <2>1, <2>2, UpTo
  <2> QED BY <2>3 DEF T
<1>10. F[need] \in Nat /\ F[need] >= need
  <2>1. need \in 0 .. need OBVIOUS
  <2> QED BY <1>9, <2>1
<1> QED BY <1>7, <1>10, Limits

(* The table *)

Distinct(s) == \A i, j \in DOMAIN s : s[i] = s[j] => i = j
OnFlash == {Flash[i] : i \in DOMAIN Flash}

\* all can be played, or it is the refused fallback s, alone
Served(es, s) ==
  \/ \A i \in DOMAIN es : Got(es[i].dir) # <<>>
  \/ Len(es) = 1 /\ es[1].dir = s /\ Got(s) = <<>>

CatTyped ==
  /\ spare \in Fallbacks
  /\ flash \in Seq(OnFlash) /\ Distinct(flash)
  /\ card \in {<<>>, Card}
  /\ order \in Seq(Line)
  /\ ops \in Seq(EntrySet)
  /\ capacity \in Nat /\ DOMAIN heap = Dirs
CatInv == CatTyped /\ ElementsOwned /\ Served(ops, spare)

LEMMA TheDirs ==
  /\ Flash \in Seq(OnFlash) /\ OnFlash \subseteq Dirs /\ Card \in Seq(Dirs)
  /\ Distinct(Flash) /\ Distinct(Card) /\ \A i \in DOMAIN Card : Card[i] \notin OnFlash
<1>1. Flash \in Seq(Dirs) /\ Card \in Seq(Dirs) /\ \A i, j \in DOMAIN (Flash \o Card) : (Flash \o Card)[i] = (Flash \o Card)[j] => i = j
  BY CatalogueAssumption
<1>2. OnFlash \subseteq Dirs BY DEF OnFlash, Dirs
<1>3. Flash \in Seq(OnFlash)
  <2>1. PICK n \in Nat : Flash \in [1 .. n -> Dirs] BY <1>1
  <2>2. \A i \in 1 .. n : Flash[i] \in OnFlash BY <2>1 DEF OnFlash
  <2>3. Flash \in [1 .. n -> OnFlash] BY <2>1, <2>2
  <2> QED BY <2>3
<1> DEFINE all == Flash \o Card
<1>4. /\ Len(Flash) \in Nat /\ Len(Card) \in Nat /\ DOMAIN Flash = 1 .. Len(Flash) /\ DOMAIN Card = 1 .. Len(Card)
      /\ DOMAIN all = 1 .. Len(Flash) + Len(Card)
      /\ \A i \in 1 .. Len(Flash) : all[i] = Flash[i]
      /\ \A i \in 1 .. Len(Card) : all[Len(Flash) + i] = Card[i]
  BY <1>1
<1> HIDE DEF all
<1>5. \A i \in DOMAIN Flash : i \in DOMAIN all BY <1>4
<1>6. \A i \in DOMAIN Card : Len(Flash) + i \in DOMAIN all BY <1>4
<1>7. \A i, j \in DOMAIN all : all[i] = all[j] => i = j BY <1>1 DEF all
<1>8. Distinct(Flash) BY <1>4, <1>5, <1>7 DEF Distinct
<1>9. Distinct(Card)
  <2> SUFFICES ASSUME NEW i \in DOMAIN Card, NEW j \in DOMAIN Card, Card[i] = Card[j] PROVE i = j BY DEF Distinct
  <2>1. Len(Flash) + i = Len(Flash) + j BY <1>4, <1>6, <1>7
  <2> QED BY <1>4, <2>1
<1>10. ASSUME NEW i \in DOMAIN Card, Card[i] \in OnFlash PROVE FALSE
  <2>1. PICK j \in DOMAIN Flash : Card[i] = Flash[j] BY <1>10 DEF OnFlash
  <2>2. Len(Flash) + i = j BY <1>4, <1>5, <1>6, <1>7, <2>1
  <2> QED BY <1>4, <2>2
<1> QED BY <1>1, <1>2, <1>3, <1>8, <1>9, <1>10

\* r is a, which has the length k, and b
IsJoined(D, a, b, k, n, r) ==
  /\ r \in Seq(D) /\ Len(r) = n /\ DOMAIN r = 1 .. n
  /\ \A m \in 1 .. n : r[m] = IF m <= k THEN a[m] ELSE b[m - k]

LEMMA Joined ==
  ASSUME NEW D, NEW a \in Seq(D), NEW b \in Seq(D), NEW r, r = a \o b, NEW k \in Nat, Len(a) = k, NEW n \in Nat, n = k + Len(b)
  PROVE  IsJoined(D, a, b, k, n, r)
<1>1. r \in Seq(D) /\ Len(r) = n /\ \A m \in 1 .. n : r[m] = IF m <= k THEN a[m] ELSE b[m - k] BY ConcatProperties
<1>2. DOMAIN r = 1 .. n BY <1>1
<1> QED BY <1>1, <1>2 DEF IsJoined

LEMMA CutOut ==
  ASSUME NEW D, NEW s \in Seq(D), NEW i \in 1 .. Len(s) + 1, NEW j \in 0 .. Len(s), i <= j + 1, NEW r, r = SubSeq(s, i, j)
  PROVE  r \in Seq(D) /\ Len(r) = j - (i - 1) /\ \A m \in 1 .. j - (i - 1) : r[m] = s[m + (i - 1)]
<1>1. \A k \in i .. j : s[k] \in D OBVIOUS
<1>2. r \in Seq(D) /\ Len(r) = (IF i <= j THEN j - i + 1 ELSE 0) /\ \A m \in 1 .. j - i + 1 : r[m] = s[i + m - 1]
  BY <1>1, SubSeqProperties
<1>3. ASSUME NEW m \in 1 .. j - (i - 1) PROVE r[m] = s[m + (i - 1)]
  <2>1. m \in 1 .. j - i + 1 /\ i + m - 1 = m + (i - 1) OBVIOUS
  <2> QED BY <1>2, <2>1
<1> QED BY <1>2, <1>3

LEMMA Skipped ==
  ASSUME NEW n \in Nat, NEW i \in 1 .. n, NEW m \in 1 .. n - 1, NEW k \in 1 .. n - 1
  PROVE  /\ (IF m < i THEN m ELSE m + 1) \in 1 .. n
         /\ (IF m < i THEN m ELSE m + 1) = (IF k < i THEN k ELSE k + 1) => m = k
OBVIOUS

\* A directory that goes leaves the others, each once.
LEMMA Removed ==
  ASSUME NEW D, NEW s \in Seq(D), Distinct(s), NEW i \in DOMAIN s,
         NEW r, r = SubSeq(s, 1, i - 1) \o SubSeq(s, i + 1, Len(s))
  PROVE  r \in Seq(D) /\ Distinct(r)
<1>1. Len(s) \in Nat /\ i \in 1 .. Len(s) /\ DOMAIN s = 1 .. Len(s) OBVIOUS
<1>2. PICK a : a = SubSeq(s, 1, i - 1) OBVIOUS
<1>3. PICK b : b = SubSeq(s, i + 1, Len(s)) OBVIOUS
<1>4. r = a \o b BY <1>2, <1>3
<1>5. a \in Seq(D) /\ Len(a) = i - 1 /\ \A m \in 1 .. i - 1 : a[m] = s[m]
  <2>1. 1 \in 1 .. Len(s) + 1 /\ i - 1 \in 0 .. Len(s) /\ 1 <= i - 1 + 1 BY <1>1
  <2>2. a \in Seq(D) /\ Len(a) = i - 1 - (1 - 1) /\ \A m \in 1 .. i - 1 - (1 - 1) : a[m] = s[m + (1 - 1)] BY <1>2, <2>1, CutOut
  <2>3. i - 1 - (1 - 1) = i - 1 /\ \A m \in 1 .. i - 1 : m + (1 - 1) = m BY <1>1
  <2> QED BY <2>2, <2>3
<1>6. b \in Seq(D) /\ Len(b) = Len(s) - i /\ \A m \in 1 .. Len(s) - i : b[m] = s[m + i]
  <2>1. i + 1 \in 1 .. Len(s) + 1 /\ Len(s) \in 0 .. Len(s) /\ i + 1 <= Len(s) + 1 BY <1>1
  <2>2. b \in Seq(D) /\ Len(b) = Len(s) - (i + 1 - 1) /\ \A m \in 1 .. Len(s) - (i + 1 - 1) : b[m] = s[m + (i + 1 - 1)] BY <1>3, <2>1, CutOut
  <2>3. i + 1 - 1 = i BY <1>1
  <2> QED BY <2>2, <2>3
<1>8. /\ r \in Seq(D) /\ DOMAIN r = 1 .. Len(s) - 1
      /\ \A m \in 1 .. Len(s) - 1 : r[m] = IF m <= i - 1 THEN a[m] ELSE b[m - (i - 1)]
  <2>0. i - 1 \in Nat /\ Len(s) - 1 \in Nat BY <1>1
  <2>1. PICK k \in Nat, n \in Nat : k = i - 1 /\ n = Len(s) - 1 BY <2>0, Zenon
  <2>2. n = k + Len(b) /\ Len(a) = k BY <1>1, <1>5, <1>6, <2>1
  <2>3. IsJoined(D, a, b, k, n, r)
    <3>1. a \in Seq(D) /\ b \in Seq(D) BY <1>5, <1>6
    <3> QED BY <1>4, <3>1, <2>1, <2>2, Joined
  <2> QED BY <2>1, <2>3 DEF IsJoined
<1>9. ASSUME NEW m \in 1 .. Len(s) - 1 PROVE r[m] = s[IF m < i THEN m ELSE m + 1]
  <2>2. CASE m < i BY <1>1, <1>5, <1>8, <2>2
  <2>3. CASE ~(m < i)
    <3>0. ~(m <= i - 1) BY <1>1, <2>3
    <3>1. r[m] = b[m - (i - 1)] BY <1>8, <3>0
    <3>2. m - (i - 1) \in 1 .. Len(s) - i BY <1>1, <2>3
    <3>3. b[m - (i - 1)] = s[m - (i - 1) + i] BY <1>6, <3>2
    <3>4. m - (i - 1) + i = m + 1 BY <1>1
    <3> QED BY <2>3, <3>1, <3>3, <3>4
  <2> QED BY <2>2, <2>3
<1>10. Distinct(r)
  <2> SUFFICES ASSUME NEW m \in DOMAIN r, NEW k \in DOMAIN r, r[m] = r[k] PROVE m = k BY DEF Distinct
  <2>0. PICK n \in Nat : n = Len(s) BY <1>1
  <2> DEFINE cut(x) == IF x < i THEN x ELSE x + 1
  <2>1. m \in 1 .. Len(s) - 1 /\ k \in 1 .. Len(s) - 1 BY <1>8
  <2>2. cut(m) \in DOMAIN s /\ cut(k) \in DOMAIN s
    <3>1. i \in 1 .. n /\ m \in 1 .. n - 1 /\ k \in 1 .. n - 1 BY <1>1, <2>0, <2>1
    <3>2. cut(m) \in 1 .. n /\ cut(k) \in 1 .. n BY <3>1, Skipped, Zenon
    <3>3. DOMAIN s = 1 .. n BY <1>1, <2>0
    <3> QED BY <3>2, <3>3
  <2>3. s[cut(m)] = s[cut(k)] BY <1>9, <2>1
  <2>4. cut(m) = cut(k)
    <3> HIDE DEF cut
    <3> QED BY <2>2, <2>3 DEF Distinct
  <2>5. i \in 1 .. n /\ m \in 1 .. n - 1 /\ k \in 1 .. n - 1 BY <1>1, <2>0, <2>1
  <2> QED BY <2>4, <2>5, Skipped, Zenon
<1> QED BY <1>8, <1>10

Insertion(s, cut, x) == SubSeq(s, 1, cut) \o <<x>> \o SubSeq(s, cut + 1, Len(s))
IsNew(s, x) == \A j \in DOMAIN s : s[j] # x
LEMMA PutBetween ==
  ASSUME NEW D, NEW s \in Seq(D), Distinct(s), NEW x \in D, IsNew(s, x), NEW cut \in 0 .. Len(s)
  PROVE  Insertion(s, cut, x) \in Seq(D) /\ Distinct(Insertion(s, cut, x))
<1>a. PICK r : r = Insertion(s, cut, x) /\ r = SubSeq(s, 1, cut) \o <<x>> \o SubSeq(s, cut + 1, Len(s)) BY DEF Insertion
<1>b. \A j \in DOMAIN s : s[j] # x BY DEF IsNew
<1>1. Len(s) \in Nat /\ cut \in Nat /\ cut <= Len(s) /\ DOMAIN s = 1 .. Len(s) OBVIOUS
<1>2. PICK a : a = SubSeq(s, 1, cut) OBVIOUS
<1>3. PICK b : b = a \o <<x>> OBVIOUS
<1>4. PICK c : c = SubSeq(s, cut + 1, Len(s)) OBVIOUS
<1>5. r = b \o c BY <1>a, <1>2, <1>3, <1>4
<1>6. a \in Seq(D) /\ Len(a) = cut /\ \A m \in 1 .. cut : a[m] = s[m]
  <2>1. 1 \in 1 .. Len(s) + 1 /\ 1 <= cut + 1 BY <1>1
  <2>2. a \in Seq(D) /\ Len(a) = cut - (1 - 1) /\ \A m \in 1 .. cut - (1 - 1) : a[m] = s[m + (1 - 1)] BY <1>2, <2>1, CutOut
  <2>3. cut - (1 - 1) = cut /\ \A m \in 1 .. cut : m + (1 - 1) = m BY <1>1
  <2> QED BY <2>2, <2>3
<1>7. c \in Seq(D) /\ Len(c) = Len(s) - cut /\ \A m \in 1 .. Len(s) - cut : c[m] = s[m + cut]
  <2>1. cut + 1 \in 1 .. Len(s) + 1 /\ Len(s) \in 0 .. Len(s) /\ cut + 1 <= Len(s) + 1 BY <1>1
  <2>2. c \in Seq(D) /\ Len(c) = Len(s) - (cut + 1 - 1) /\ \A m \in 1 .. Len(s) - (cut + 1 - 1) : c[m] = s[m + (cut + 1 - 1)] BY <1>4, <2>1, CutOut
  <2>3. cut + 1 - 1 = cut BY <1>1
  <2> QED BY <2>2, <2>3
<1>8. b \in Seq(D) /\ Len(b) = cut + 1 /\ (\A m \in 1 .. cut : b[m] = s[m]) /\ b[cut + 1] = x
  <2>1. b = Append(a, x) BY <1>3, <1>6
  <2> QED BY <1>1, <1>6, <2>1
<1>10. /\ r \in Seq(D) /\ DOMAIN r = 1 .. Len(s) + 1
       /\ \A m \in 1 .. Len(s) + 1 : r[m] = IF m <= cut + 1 THEN b[m] ELSE c[m - (cut + 1)]
  <2>1. PICK k \in Nat, n \in Nat : k = cut + 1 /\ n = Len(s) + 1 BY <1>1
  <2>2. n = k + Len(c) /\ Len(b) = k BY <1>1, <1>7, <1>8, <2>1
  <2>3. IsJoined(D, b, c, k, n, r)
    <3>1. b \in Seq(D) /\ c \in Seq(D) BY <1>7, <1>8
    <3> QED BY <1>5, <3>1, <2>1, <2>2, Joined
  <2> QED BY <2>1, <2>3 DEF IsJoined
<1>11. ASSUME NEW m \in 1 .. Len(s) + 1 PROVE r[m] = IF m = cut + 1 THEN x ELSE s[IF m <= cut THEN m ELSE m - 1]
  <2>2. CASE m <= cut + 1
    <3>1. r[m] = b[m] BY <1>10, <2>2
    <3>2. m = cut + 1 \/ (m # cut + 1 /\ m <= cut /\ m \in 1 .. cut) BY <1>1, <2>2
    <3> QED BY <1>8, <3>1, <3>2
  <2>3. CASE ~(m <= cut + 1)
    <3>1. r[m] = c[m - (cut + 1)] BY <1>10, <2>3
    <3>2. m - (cut + 1) \in 1 .. Len(s) - cut BY <1>1, <2>3
    <3>3. c[m - (cut + 1)] = s[m - (cut + 1) + cut] BY <1>7, <3>2
    <3>4. m - (cut + 1) + cut = m - 1 /\ m # cut + 1 /\ ~(m <= cut) BY <1>1, <2>3
    <3> QED BY <3>1, <3>3, <3>4
  <2> QED BY <2>2, <2>3
<1>12. Distinct(r)
  <2> SUFFICES ASSUME NEW m \in DOMAIN r, NEW k \in DOMAIN r, r[m] = r[k] PROVE m = k BY DEF Distinct
  <2> DEFINE old(y) == IF y <= cut THEN y ELSE y - 1
  <2>1. m \in 1 .. Len(s) + 1 /\ k \in 1 .. Len(s) + 1 BY <1>10
  <2>2. (m # cut + 1 => old(m) \in DOMAIN s) /\ (k # cut + 1 => old(k) \in DOMAIN s) BY <1>1, <2>1
  <2>3. (m # cut + 1 => r[m] = s[old(m)]) /\ (k # cut + 1 => r[k] = s[old(k)]) BY <1>11, <2>1
  <2>4. (m = cut + 1 => r[m] = x) /\ (k = cut + 1 => r[k] = x) BY <1>11, <2>1
  <2>5. (m = cut + 1 <=> k = cut + 1) /\ (m # cut + 1 => old(m) = old(k))
    <3> HIDE DEF old
    <3> QED BY <1>b, <2>2, <2>3, <2>4 DEF Distinct
  <2> QED BY <1>1, <2>1, <2>5
<1> QED BY <1>a, <1>10, <1>12

\* a table in which each entry knows its place
TableOk(t) ==
  /\ t \in Seq(EntrySet) /\ Len(t) \in Nat /\ Len(t) <= MaxOperators /\ DOMAIN t = 1 .. Len(t)
  /\ \A i \in 1 .. Len(t) : t[i].index = i

\* new holds the entries of es, in the order of p
Reordered(es, new, n, p) ==
  /\ Len(new) = n /\ DOMAIN new = 1 .. n
  /\ \A j \in 1 .. n : new[j].dir = es[p[j]].dir /\ new[j].uuid = es[p[j]].uuid /\ new[j].opinfo = es[p[j]].opinfo

\* the places of a directory in a list of entries, which Count counts
Places(es, d) == {i \in DOMAIN es : es[i].dir = d}

\* Shuffled, the entries own what they owned.
LEMMA SameOwners ==
  ASSUME NEW n \in Nat, NEW es, DOMAIN es = 1 .. n, NEW p, Shuffle(p, n), NEW new, Reordered(es, new, n, p), NEW d
  PROVE  /\ Cardinality(Owning(new, d)) = Cardinality(Owning(es, d)) /\ Cardinality(Owning(es, d)) \in Nat
         /\ Count(new, d) = Count(es, d)
<1>1. \A j \in 1 .. n : p[j] \in 1 .. n BY DEF Shuffle
<1>2. Owning(es, d) \subseteq 1 .. n BY DEF Owning
<1>3. Owning(new, d) = SentInto(p, n, Owning(es, d)) BY <1>1 DEF Owning, Owns, Reordered, SentInto
<1>4. Places(es, d) \subseteq 1 .. n BY DEF Places
<1>5. Places(new, d) = SentInto(p, n, Places(es, d)) BY <1>1 DEF Places, Reordered, SentInto
<1>6. Cardinality(Places(new, d)) = Cardinality(Places(es, d)) BY <1>4, <1>5, SameCount
<1>7. Cardinality(Owning(new, d)) = Cardinality(Owning(es, d)) /\ Cardinality(Owning(es, d)) \in Nat BY <1>2, <1>3, SameCount
<1> QED BY <1>6, <1>7 DEF Count, Places

\* The cycles leave every entry in its new place, with its number.
LEMMA PermutedIs ==
  ASSUME NEW t, TableOk(t), NEW p, Shuffle(p, Len(t))
  PROVE  TableOk(Permuted(t, p)) /\ Reordered(t, Permuted(t, p), Len(t), p)
<1>1. PICK n \in Nat : n = Len(t) /\ n <= MaxOperators /\ DOMAIN t = 1 .. n /\ t \in Seq(EntrySet) BY DEF TableOk
<1>2. \A j \in 1 .. n : p[j] \in 1 .. n BY <1>1 DEF Shuffle
<1>3. \A j \in 1 .. n : t[p[j]] \in EntrySet BY <1>1, <1>2
<1>4. PICK new : new = [j \in 1 .. n |-> [t[p[j]] EXCEPT !.index = j]] OBVIOUS
<1>5. Permuted(t, p) = new BY <1>1, <1>4 DEF Permuted
<1>6. ASSUME NEW j \in 1 .. n
      PROVE  /\ new[j] \in EntrySet /\ new[j].index = j
             /\ new[j].dir = t[p[j]].dir /\ new[j].uuid = t[p[j]].uuid /\ new[j].opinfo = t[p[j]].opinfo
  <2>1. PICK e : e = t[p[j]] /\ e \in EntrySet BY <1>3
  <2>2. new[j] = [e EXCEPT !.index = j] BY <1>4, <2>1
  <2>3. j \in Nat OBVIOUS
  <2> QED BY <2>1, <2>2, <2>3, EntriesAre
<1>7. new \in [1 .. n -> EntrySet] BY <1>4, <1>6
<1>8. new \in Seq(EntrySet) /\ Len(new) = n /\ DOMAIN new = 1 .. n BY <1>7
<1>9. TableOk(new) BY <1>1, <1>6, <1>8 DEF TableOk
<1>10. Reordered(t, new, n, p) BY <1>6, <1>8 DEF Reordered
<1> QED BY <1>1, <1>5, <1>9, <1>10

LEMMA NumberedIs ==
  ASSUME NEW good \in Seq(Made)
  PROVE  /\ TableOk(Numbered(good)) /\ Len(Numbered(good)) <= Len(good)
         /\ Len(Numbered(good)) = (IF Len(good) > MaxOperators THEN MaxOperators ELSE Len(good))
         /\ \A i \in 1 .. Len(Numbered(good)) : Numbered(good)[i].dir = good[i].dir
<1>1. PICK n \in Nat : n = (IF Len(good) > MaxOperators THEN MaxOperators ELSE Len(good)) /\ n <= MaxOperators /\ n <= Len(good) BY Limits
<1>2. PICK new : new = [i \in 1 .. n |-> [good[i] EXCEPT !.index = i]] OBVIOUS
<1>3. Numbered(good) = new BY <1>1, <1>2 DEF Numbered
<1>4. ASSUME NEW i \in 1 .. n PROVE new[i] \in EntrySet /\ new[i].index = i /\ new[i].dir = good[i].dir
  <2>1. PICK e : e = good[i] /\ e \in Made BY <1>1
  <2>2. new[i] = [e EXCEPT !.index = i] BY <1>2, <2>1
  <2>3. i \in Nat OBVIOUS
  <2> QED BY <2>1, <2>2, <2>3, MadeAreEntries
<1>5. new \in [1 .. n -> EntrySet] BY <1>2, <1>4
<1>6. new \in Seq(EntrySet) /\ Len(new) = n /\ DOMAIN new = 1 .. n BY <1>5
<1>7. TableOk(new) BY <1>1, <1>4, <1>6 DEF TableOk
<1> QED BY <1>1, <1>3, <1>4, <1>6, <1>7

LEMMA LoadableIs == ASSUME NEW dirs \in Seq(Dirs) PROVE Loadable(dirs) \in Seq(Made)
<1>1. Len(dirs) \in 0 .. Len(dirs) OBVIOUS
<1> QED BY <1>1, ScannedIs DEF Loadable

LEMMA OneIn == ASSUME NEW D, NEW x \in D PROVE <<x>> \in Seq(D)
OBVIOUS

LEMMA NoneIn == ASSUME NEW D PROVE <<>> \in Seq(D)
OBVIOUS

\* The fallback is an entry, accepted or refused.
LEMMA SpareIs ==
  ASSUME CatTyped
  PROVE  spare \in Dirs /\ Spare = << EntryOf(spare) >> /\ Spare \in Seq(Made)
<1>1. spare \in Dirs BY DEF CatTyped, Dirs
<1>2. Got(spare) = <<>> \/ \E e : Got(spare) = <<e>> /\ e = EntryOf(spare) BY <1>1, GotIs
<1>3. Spare = OrElse(Got(spare), << Remains(spare, CfgOf(spare)) >>) BY DEF Spare, Got
<1>4. Spare = << EntryOf(spare) >>
  <2>1. CASE Got(spare) = <<>> BY <1>3, <2>1 DEF OrElse, EntryOf
  <2>2. CASE Got(spare) # <<>> BY <1>2, <1>3, <2>2 DEF OrElse
  <2> QED BY <2>1, <2>2
<1>5. EntryOf(spare) \in Made BY <1>1, EntryOfIs
<1>6. << EntryOf(spare) >> \in Seq(Made) BY <1>5, OneIn, Zenon
<1> QED BY <1>1, <1>4, <1>6

\* What the scan finds is a table.
LEMMA FoundIs ==
  ASSUME CatTyped
  PROVE  \E good \in Seq(Made) : good = OrElse(Loadable(flash \o card), Spare) /\ Found = Numbered(good) /\ TableOk(Found)
<1>1. flash \in Seq(Dirs) BY TheDirs DEF CatTyped
<1>2. card \in Seq(Dirs)
  <2>1. <<>> \in Seq(Dirs) OBVIOUS
  <2> QED BY <2>1, TheDirs DEF CatTyped
<1>3. flash \o card \in Seq(Dirs) BY <1>1, <1>2, ConcatProperties
<1>5. Spare \in Seq(Made) BY SpareIs
<1>6. PICK good : good = OrElse(Loadable(flash \o card), Spare) OBVIOUS
<1>7. good \in Seq(Made) BY <1>3, <1>5, <1>6, LoadableIs DEF OrElse
<1>8. Found = Numbered(good) BY <1>6 DEF Found
<1> QED BY <1>6, <1>7, <1>8, NumberedIs

\* the entries of g are of the first k directories, each of another
OncePer(g, dirs, k) ==
  /\ \A i \in DOMAIN g : \E a \in 1 .. k : g[i].dir = dirs[a]
  /\ \A i, j \in DOMAIN g : g[i].dir = g[j].dir => i = j

\* A directory gives one entry more, or none.
LEMMA OnceMore ==
  ASSUME NEW dirs \in Seq(Dirs), Distinct(dirs), NEW k \in 1 .. Len(dirs), NEW g \in Seq(Made), OncePer(g, dirs, k - 1)
  PROVE  OncePer(g \o Got(dirs[k]), dirs, k)
<1>1. k \in Nat /\ dirs[k] \in Dirs /\ DOMAIN dirs = 1 .. Len(dirs) OBVIOUS
<1>2. \A i \in DOMAIN g : \E a \in 1 .. k - 1 : g[i].dir = dirs[a] BY DEF OncePer
<1>3. \A i, j \in DOMAIN g : g[i].dir = g[j].dir => i = j BY DEF OncePer
<1>4. \A a \in 1 .. k - 1 : a \in 1 .. k /\ a \in DOMAIN dirs /\ a # k BY <1>1
<1>5. CASE Got(dirs[k]) = <<>>
  <2>0. g \o <<>> = g OBVIOUS
  <2>1. PICK r : r = g \o Got(dirs[k]) /\ r = g BY <1>5, <2>0
  <2> QED BY <2>1, <1>2, <1>3, <1>4 DEF OncePer
<1>6. CASE Got(dirs[k]) # <<>>
  <2>1. PICK e : Got(dirs[k]) = <<e>> /\ e.dir = dirs[k] /\ e \in Made BY <1>1, <1>6, GotIs, EntryOfIs DEF MadeOf
  <2>2. PICK n \in Nat : n = Len(g) /\ DOMAIN g = 1 .. n OBVIOUS
  <2>3. PICK r : r = g \o Got(dirs[k]) /\ r = Append(g, e)
    <3>1. g \o <<e>> = Append(g, e) BY <2>1
    <3> QED BY <2>1, <3>1
  <2>4. DOMAIN r = 1 .. n + 1 /\ r[n + 1] = e /\ \A m \in 1 .. n : r[m] = g[m] BY <2>2, <2>3
  <2>5. \A m \in DOMAIN r : m = n + 1 \/ m \in DOMAIN g BY <2>2, <2>4
  <2>6. \A m \in DOMAIN g : r[m] = g[m] /\ g[m].dir # dirs[k] BY <1>1, <1>2, <1>4, <2>2, <2>4 DEF Distinct
  <2>7. \A i \in DOMAIN r : \E a \in 1 .. k : r[i].dir = dirs[a]
    <3> SUFFICES ASSUME NEW i \in DOMAIN r PROVE \E a \in 1 .. k : r[i].dir = dirs[a] OBVIOUS
    <3>1. CASE i = n + 1
      <4>1. k \in 1 .. k BY <1>1
      <4> QED BY <2>1, <2>4, <3>1, <4>1
    <3>2. CASE i \in DOMAIN g BY <1>2, <1>4, <2>6, <3>2
    <3> QED BY <2>5, <3>1, <3>2
  <2>8. ASSUME NEW i \in DOMAIN r, NEW j \in DOMAIN r, r[i].dir = r[j].dir PROVE i = j
    <3>1. (i = n + 1 \/ i \in DOMAIN g) /\ (j = n + 1 \/ j \in DOMAIN g) BY <2>5
    <3> QED BY <1>3, <2>1, <2>4, <2>6, <2>8, <3>1
  <2> QED BY <2>3, <2>7, <2>8 DEF OncePer
<1> QED BY <1>5, <1>6

\* A scan finds a directory once.
LEMMA LoadableOnce == ASSUME NEW dirs \in Seq(Dirs), Distinct(dirs) PROVE OncePer(Loadable(dirs), dirs, Len(dirs))
<1>1. PICK N \in Nat : N = Len(dirs) OBVIOUS
<1>0. PICK F : F = Scanned(dirs) OBVIOUS
<1>2. F \in [0 .. N -> Seq(Made)] /\ F[0] = <<>> /\ \A k \in 1 .. N : F[k] = F[k - 1] \o Got(dirs[k]) BY <1>0, <1>1, ScannedIs
<1> DEFINE T == {k \in 0 .. N : OncePer(F[k], dirs, k)}
<1>3. 0 \in T BY <1>2 DEF OncePer
<1>4. ASSUME NEW k \in 1 .. N, k - 1 \in T PROVE k \in T
  <2>1. k - 1 \in 0 .. N /\ F[k - 1] \in Seq(Made) /\ OncePer(F[k - 1], dirs, k - 1) /\ F[k] = F[k - 1] \o Got(dirs[k]) BY <1>2, <1>4
  <2>2. k \in 1 .. Len(dirs) BY <1>1
  <2>3. OncePer(F[k], dirs, k) BY <2>1, <2>2, OnceMore
  <2> QED BY <2>3
<1> HIDE DEF T
<1>5. \A k \in 0 .. N : k \in T BY <1>3, <1>4, UpTo
<1>6. N \in 0 .. N OBVIOUS
<1> QED BY <1>0, <1>1, <1>5, <1>6 DEF T, Loadable

LEMMA BothDistinct ==
  ASSUME CatTyped
  PROVE  flash \o card \in Seq(Dirs) /\ Distinct(flash \o card)
<1>1. flash \in Seq(OnFlash) /\ Distinct(flash) /\ flash \in Seq(Dirs) BY TheDirs DEF CatTyped
<1>2. card \in Seq(Dirs) /\ Distinct(card) /\ \A i \in DOMAIN card : card[i] \notin OnFlash
  <2>1. CASE card = <<>>
    <3>1. <<>> \in Seq(Dirs) OBVIOUS
    <3> QED BY <2>1, <3>1 DEF Distinct
  <2>2. CASE card = Card BY <2>2, TheDirs
  <2> QED BY <2>1, <2>2 DEF CatTyped
<1>3. PICK k \in Nat, l \in Nat, n \in Nat : k = Len(flash) /\ l = Len(card) /\ n = k + l /\ DOMAIN flash = 1 .. k /\ DOMAIN card = 1 .. l
  BY <1>1, <1>2
<1>4. PICK r : r = flash \o card OBVIOUS
<1>5. IsJoined(Dirs, flash, card, k, n, r) BY <1>1, <1>2, <1>3, <1>4, Joined
<1>6. r \in Seq(Dirs) /\ DOMAIN r = 1 .. n /\ \A m \in 1 .. n : r[m] = IF m <= k THEN flash[m] ELSE card[m - k] BY <1>5 DEF IsJoined
<1>7. \A m \in 1 .. n : (m <= k => m \in DOMAIN flash) /\ (~(m <= k) => m - k \in DOMAIN card) BY <1>3
<1>8. \A m \in DOMAIN flash : flash[m] \in OnFlash BY <1>1
<1>9. ASSUME NEW i \in DOMAIN r, NEW j \in DOMAIN r, r[i] = r[j] PROVE i = j
  <2>0. i \in 1 .. n /\ j \in 1 .. n BY <1>6
  <2>1. CASE i <= k /\ j <= k BY <1>1, <1>6, <1>7, <1>9, <2>0, <2>1 DEF Distinct
  <2>2. CASE i <= k /\ ~(j <= k) BY <1>2, <1>6, <1>7, <1>8, <1>9, <2>0, <2>2
  <2>3. CASE ~(i <= k) /\ j <= k BY <1>2, <1>6, <1>7, <1>8, <1>9, <2>0, <2>3
  <2>4. CASE ~(i <= k) /\ ~(j <= k)
    <3>1. i - k = j - k BY <1>2, <1>6, <1>7, <1>9, <2>0, <2>4 DEF Distinct
    <3> QED BY <1>3, <2>0, <3>1
  <2> QED BY <2>1, <2>2, <2>3, <2>4
<1> QED BY <1>4, <1>6, <1>9 DEF Distinct

\* The table has each of them once, and no other.
LEMMA FoundOnce ==
  ASSUME CatTyped
  PROVE  \E good : /\ good = OrElse(Loadable(flash \o card), Spare)
                   /\ \A d \in Dirs : Count(Found, d) = (IF d \in Owed(good) THEN 1 ELSE 0)
<1>1. PICK good \in Seq(Made) : good = OrElse(Loadable(flash \o card), Spare) /\ Found = Numbered(good) /\ TableOk(Found)
  BY FoundIs
<1>2. \A i, j \in DOMAIN good : good[i].dir = good[j].dir => i = j
  <2>1. CASE good = Loadable(flash \o card)
    <3>1. OncePer(good, flash \o card, Len(flash \o card)) BY <2>1, BothDistinct, LoadableOnce
    <3> QED BY <3>1 DEF OncePer
  <2>2. CASE good = Spare
    <3>1. DOMAIN good = {1} BY <2>2, SpareIs
    <3> QED BY <3>1
  <2> QED BY <1>1, <2>1, <2>2 DEF OrElse
<1>3. PICK n \in Nat, m \in Nat : n = Len(Found) /\ m = Len(good) /\ DOMAIN Found = 1 .. n /\ DOMAIN good = 1 .. m
  <2>1. Len(Found) \in Nat /\ DOMAIN Found = 1 .. Len(Found) BY <1>1 DEF TableOk
  <2>2. Len(good) \in Nat /\ DOMAIN good = 1 .. Len(good) OBVIOUS
  <2> QED BY <2>1, <2>2
<1>4. n = (IF m > MaxOperators THEN MaxOperators ELSE m) /\ \A i \in 1 .. n : Found[i].dir = good[i].dir BY <1>1, <1>3, NumberedIs
<1>5. {k \in DOMAIN good : k <= MaxOperators} = 1 .. n /\ \A i \in 1 .. n : i \in DOMAIN good BY <1>3, <1>4, Limits
<1>7. Owed(good) = {good[i].dir : i \in 1 .. n} BY <1>5 DEF Owed
<1>6. ASSUME NEW d \in Dirs PROVE Count(Found, d) = (IF d \in Owed(good) THEN 1 ELSE 0)
  <2>1. Count(Found, d) = Cardinality(Places(Found, d)) /\ Places(Found, d) = {i \in 1 .. n : good[i].dir = d}
    BY <1>3, <1>4 DEF Count, Places
  <2>2. CASE d \in Owed(good)
    <3>1. PICK i \in 1 .. n : good[i].dir = d BY <1>7, <2>2
    <3>2. Places(Found, d) = {i} BY <1>2, <1>5, <2>1, <3>1
    <3>3. Cardinality({i}) = 1 BY FS_Singleton
    <3> QED BY <2>1, <2>2, <3>2, <3>3
  <2>3. CASE d \notin Owed(good)
    <3>1. Places(Found, d) = {} BY <1>7, <2>1, <2>3
    <3>2. Cardinality({}) = 0 BY FS_EmptySet
    <3> QED BY <2>1, <2>3, <3>1, <3>2
  <2> QED BY <2>2, <2>3
<1> QED BY <1>1, <1>6

\* After k directories f has, in their order, an entry of each that was accepted.
HasEach(f, dirs, k) ==
  /\ \A i \in 1 .. Len(f[k]) : \E a \in 1 .. k : Len(f[a - 1]) = i - 1 /\ Got(dirs[a]) = << f[k][i] >>
  /\ \A a \in 1 .. k : Got(dirs[a]) # <<>> =>
        Len(f[a - 1]) + 1 \in 1 .. Len(f[k]) /\ Got(dirs[a]) = << f[k][Len(f[a - 1]) + 1] >>

LEMMA HasEachMore ==
  ASSUME NEW dirs \in Seq(Dirs), NEW f, NEW k \in 1 .. Len(dirs),
         \A a \in 0 .. k : f[a] \in Seq(Made), f[k] = f[k - 1] \o Got(dirs[k]), HasEach(f, dirs, k - 1)
  PROVE  HasEach(f, dirs, k)
<1>1. PICK g, r : g = f[k - 1] /\ r = f[k] /\ r = g \o Got(dirs[k]) OBVIOUS
<1>2. PICK n \in Nat : g \in Seq(Made) /\ n = Len(g)
  <2>1. k - 1 \in 0 .. k OBVIOUS
  <2> QED BY <1>1, <2>1
<1>3. dirs[k] \in Dirs /\ k \in 1 .. k /\ \A a \in 1 .. k : a = k \/ a \in 1 .. k - 1 OBVIOUS
<1>4. \A a \in 1 .. k - 1 : a \in 1 .. k OBVIOUS
<1>5. /\ \A i \in 1 .. n : \E a \in 1 .. k - 1 : Len(f[a - 1]) = i - 1 /\ Got(dirs[a]) = << g[i] >>
      /\ \A a \in 1 .. k - 1 : Got(dirs[a]) # <<>> => Len(f[a - 1]) + 1 \in 1 .. n /\ Got(dirs[a]) = << g[Len(f[a - 1]) + 1] >>
  BY <1>1, <1>2 DEF HasEach
<1>6. CASE Got(dirs[k]) = <<>>
  <2>1. r = g BY <1>1, <1>2, <1>6
  <2> QED BY <1>1, <1>2, <1>3, <1>4, <1>5, <1>6, <2>1, Zenon DEF HasEach
<1>7. CASE Got(dirs[k]) # <<>>
  <2>1. PICK e : Got(dirs[k]) = <<e>> /\ e \in Made BY <1>3, <1>7, GotIs, EntryOfIs
  <2>2. r = Append(g, e)
    <3>1. g \o <<e>> = Append(g, e) BY <1>2, <2>1
    <3> QED BY <1>1, <2>1, <3>1
  <2>3. Len(r) = n + 1 /\ r[n + 1] = e /\ \A i \in 1 .. n : r[i] = g[i] BY <1>2, <2>1, <2>2
  <2>4. ASSUME NEW i \in 1 .. n + 1 PROVE \E a \in 1 .. k : Len(f[a - 1]) = i - 1 /\ Got(dirs[a]) = << r[i] >>
    <3>1. CASE i = n + 1
      <4>1. Len(f[k - 1]) = i - 1 /\ Got(dirs[k]) = << r[i] >> BY <1>1, <1>2, <2>1, <2>3, <3>1
      <4> QED BY <1>3, <4>1
    <3>2. CASE i # n + 1
      <4>1. i \in 1 .. n BY <3>2
      <4> QED BY <1>4, <1>5, <2>3, <4>1, Zenon
    <3> QED BY <3>1, <3>2
  <2>5. ASSUME NEW a \in 1 .. k, Got(dirs[a]) # <<>>
        PROVE  Len(f[a - 1]) + 1 \in 1 .. n + 1 /\ Got(dirs[a]) = << r[Len(f[a - 1]) + 1] >>
    <3>1. CASE a = k
      <4>1. Len(f[a - 1]) = n BY <1>1, <1>2, <3>1
      <4> QED BY <2>1, <2>3, <3>1, <4>1
    <3>2. CASE a \in 1 .. k - 1
      <4>1. PICK m \in 1 .. n : m = Len(f[a - 1]) + 1 /\ Got(dirs[a]) = << g[m] >> BY <1>5, <2>5, <3>2
      <4>2. r[m] = g[m] /\ m \in 1 .. n + 1 BY <2>3
      <4> QED BY <4>1, <4>2
    <3> QED BY <1>3, <3>1, <3>2
  <2> QED BY <1>1, <2>3, <2>4, <2>5, Zenon DEF HasEach
<1> QED BY <1>6, <1>7

\* A scan has of each directory that was accepted its entry, behind those before it.
LEMMA ScanFills == ASSUME NEW dirs \in Seq(Dirs) PROVE HasEach(Scanned(dirs), dirs, Len(dirs))
<1>1. PICK N \in Nat : N = Len(dirs) OBVIOUS
<1>2. PICK F : F = Scanned(dirs) OBVIOUS
<1>3. F \in [0 .. N -> Seq(Made)] /\ F[0] = <<>> /\ \A k \in 1 .. N : F[k] = F[k - 1] \o Got(dirs[k]) BY <1>1, <1>2, ScannedIs
<1> DEFINE T == {k \in 0 .. N : HasEach(F, dirs, k)}
<1>4. 0 \in T
  <2>1. Len(F[0]) = 0 BY <1>3
  <2>2. HasEach(F, dirs, 0) BY <2>1 DEF HasEach
  <2> QED BY <2>2
<1>5. ASSUME NEW k \in 1 .. N, k - 1 \in T PROVE k \in T
  <2>1. k \in 1 .. Len(dirs) /\ \A a \in 0 .. k : F[a] \in Seq(Made) BY <1>1, <1>3
  <2>2. HasEach(F, dirs, k) BY <1>3, <1>5, <2>1, HasEachMore
  <2> QED BY <2>2
<1> HIDE DEF T
<1>6. \A k \in 0 .. N : k \in T BY <1>4, <1>5, UpTo
<1>7. N \in 0 .. N OBVIOUS
<1> QED BY <1>1, <1>2, <1>6, <1>7 DEF T

\* Of the directories that can be loaded, those are read that have their place.
LEMMA TriedIs ==
  ASSUME NEW dirs \in Seq(Dirs), NEW d \in Dirs, Got(d) # <<>>
  PROVE  d \in Tried(dirs) <=> d \in Owed(Loadable(dirs))
<1>1. PICK N \in Nat : N = Len(dirs) /\ DOMAIN dirs = 1 .. N OBVIOUS
<1>2. PICK F : F = Scanned(dirs) OBVIOUS
<1>3. PICK good \in Seq(Made) : good = Loadable(dirs) /\ good = F[N] BY <1>1, <1>2, LoadableIs DEF Loadable
<1>4. PICK n \in Nat : n = Len(good) /\ DOMAIN good = 1 .. n OBVIOUS
<1>5. /\ \A i \in 1 .. n : \E a \in 1 .. N : Len(F[a - 1]) = i - 1 /\ Got(dirs[a]) = << good[i] >>
      /\ \A a \in 1 .. N : Got(dirs[a]) # <<>> => Len(F[a - 1]) + 1 \in 1 .. n /\ Got(dirs[a]) = << good[Len(F[a - 1]) + 1] >>
  BY <1>1, <1>2, <1>3, <1>4, ScanFills DEF HasEach
<1>6. ASSUME NEW a \in 1 .. N, NEW e, Got(dirs[a]) = <<e>> PROVE e.dir = dirs[a]
  <2>1. dirs[a] \in Dirs BY <1>1
  <2>2. PICK m : Got(dirs[a]) = <<m>> /\ m.dir = dirs[a] BY <1>6, <2>1, GotIs DEF MadeOf
  <2> QED BY <1>6, <2>2
<1>7. \A a \in 1 .. N : Len(F[a - 1]) \in Nat
  <2>1. F \in [0 .. N -> Seq(Made)] BY <1>1, <1>2, ScannedIs
  <2>2. \A a \in 1 .. N : a - 1 \in 0 .. N OBVIOUS
  <2> QED BY <2>1, <2>2
<1>8. Tried(dirs) = {dirs[a] : a \in {k \in 1 .. N : Len(F[k - 1]) < MaxOperators}} BY <1>1, <1>2 DEF Tried
<1>9. Owed(good) = {good[i].dir : i \in {k \in 1 .. n : k <= MaxOperators}} BY <1>4 DEF Owed
<1>10. ASSUME d \in Tried(dirs) PROVE d \in Owed(good)
  <2>1. PICK a \in 1 .. N : d = dirs[a] /\ Len(F[a - 1]) < MaxOperators BY <1>8, <1>10
  <2>2. PICK i \in 1 .. n : i = Len(F[a - 1]) + 1 /\ Got(dirs[a]) = << good[i] >> BY <1>5, <2>1
  <2>3. i <= MaxOperators BY <1>7, <2>1, <2>2, Limits
  <2>4. good[i].dir = d BY <1>6, <2>1, <2>2
  <2> QED BY <1>9, <2>3, <2>4
<1>11. ASSUME d \in Owed(good) PROVE d \in Tried(dirs)
  <2>1. PICK i \in 1 .. n : d = good[i].dir /\ i <= MaxOperators BY <1>9, <1>11
  <2>2. PICK a \in 1 .. N : Len(F[a - 1]) = i - 1 /\ Got(dirs[a]) = << good[i] >> BY <1>5
  <2>3. Len(F[a - 1]) < MaxOperators BY <2>1, <2>2, Limits
  <2>4. d = dirs[a] BY <1>6, <2>1, <2>2
  <2> QED BY <1>8, <2>3, <2>4
<1> QED BY <1>3, <1>10, <1>11

\* the lists that the reading of d leaves
LeftBy(d) == IF d \in Read(flash \o card) THEN Leaves(CfgOf(d)) ELSE 0

\* Reading the directories leaves the lists of the entries they made.
LEMMA FoundLeaves == ASSUME CatTyped, NEW d \in Dirs PROVE Cardinality(Owning(Found, d)) = LeftBy(d)
<1>1. PICK dirs \in Seq(Dirs) : dirs = flash \o card BY BothDistinct
<1>2. PICK good : good = OrElse(Loadable(dirs), Spare) /\ Count(Found, d) = (IF d \in Owed(good) THEN 1 ELSE 0)
  BY <1>1, FoundOnce
<1>3. Found \in Seq(EntrySet) BY FoundIs DEF TableOk
<1>4. ASSUME NEW i \in DOMAIN Found, Found[i].dir = d PROVE Owns(Found[i]) <=> Leaves(CfgOf(d)) = 1
  <2>1. Found[i] \in EntrySet BY <1>3
  <2> QED BY <1>4, <2>1, EntriesAre DEF Faithful
<1>5. CfgOf(d) \in Configs BY CatalogueAssumption
<1>6. Leaves(CfgOf(d)) \in {0, 1} /\ (Got(d) = <<>> => Leaves(CfgOf(d)) = 0) BY <1>5, LeavesIs DEF Got
<1>7. CASE Leaves(CfgOf(d)) = 0
  <2>1. Owning(Found, d) = {} BY <1>4, <1>7 DEF Owning
  <2>2. Cardinality({}) = 0 BY FS_EmptySet
  <2> QED BY <1>7, <2>1, <2>2 DEF LeftBy
<1>8. CASE Leaves(CfgOf(d)) = 1
  <2>1. Owning(Found, d) = {i \in DOMAIN Found : Found[i].dir = d} BY <1>4, <1>8 DEF Owning
  <2>2. Cardinality(Owning(Found, d)) = (IF d \in Owed(good) THEN 1 ELSE 0) BY <1>2, <2>1 DEF Count
  <2>3. Got(d) # <<>> BY <1>6, <1>8
  <2>4. d \in Tried(dirs) <=> d \in Owed(Loadable(dirs)) BY <1>1, <2>3, TriedIs
  <2>5. d \in Owed(good) <=> d \in Read(dirs)
    <3>1. CASE Loadable(dirs) # <<>> BY <1>2, <2>4, <3>1 DEF OrElse, Read
    <3>2. CASE Loadable(dirs) = <<>>
      <4>1. Owed(Loadable(dirs)) = {} BY <3>2 DEF Owed
      <4>2. good = << EntryOf(spare) >> BY <1>2, <3>2, SpareIs DEF OrElse
      <4>3. EntryOf(spare).dir = spare BY SpareIs, EntryOfIs DEF MadeOf
      <4>4. DOMAIN good = {1} /\ good[1] = EntryOf(spare) BY <4>2
      <4>5. {k \in DOMAIN good : k <= MaxOperators} = {1} BY <4>4, Limits
      <4>6. Owed(good) = {spare} BY <4>3, <4>4, <4>5 DEF Owed
      <4>7. Read(dirs) = Tried(dirs) \cup {spare} BY <3>2 DEF Read
      <4> QED BY <2>4, <4>1, <4>6, <4>7
    <3> QED BY <3>1, <3>2
  <2> QED BY <1>1, <1>8, <2>2, <2>5 DEF LeftBy
<1> QED BY <1>6, <1>7, <1>8

\* The table is grown to what is found, and to one more at most.
LEMMA FoundFits ==
  ASSUME CatTyped
  PROVE  \E need \in Nat : need = Needed(flash \o card) /\ Len(Found) <= need /\ need <= MaxOperators
<1>1. PICK dirs \in Seq(Dirs) : dirs = flash \o card BY BothDistinct
<1>2. PICK some \in Seq(Made) : some = Loadable(dirs) BY LoadableIs
<1>3. PICK good \in Seq(Made) : good = OrElse(some, Spare) /\ Found = Numbered(good) BY <1>1, <1>2, FoundIs
<1>4. PICK n \in Nat, m \in Nat : n = Len(some) /\ m = Len(good) OBVIOUS
<1>5. Len(Found) = (IF m > MaxOperators THEN MaxOperators ELSE m) BY <1>3, <1>4, NumberedIs
<1>6. IF n = 0 THEN m = 1 ELSE m = n
  <2>1. CASE some = <<>>
    <3>1. n = 0 /\ good = << EntryOf(spare) >> BY <1>3, <1>4, <2>1, SpareIs DEF OrElse
    <3>2. Len(<< EntryOf(spare) >>) = 1 OBVIOUS
    <3> QED BY <1>4, <3>1, <3>2
  <2>2. CASE some # <<>>
    <3>1. n # 0 /\ good = some BY <1>3, <1>4, <2>2 DEF OrElse
    <3> QED BY <1>4, <3>1
  <2> QED BY <2>1, <2>2
<1>7. \/ n >= MaxOperators /\ Needed(dirs) = MaxOperators
      \/ ~(n >= MaxOperators) /\ Needed(dirs) = n + 1
      \/ ~(n >= MaxOperators) /\ n # 0 /\ Needed(dirs) = n
  BY <1>2, <1>4 DEF Needed
<1> QED BY <1>1, <1>5, <1>6, <1>7, Limits

\* What was found can be played, or there is but the fallback.
LEMMA FoundServed == ASSUME CatTyped PROVE Served(Found, spare)
<1>1. PICK dirs \in Seq(Dirs) : dirs = flash \o card BY BothDistinct
<1>2. PICK some \in Seq(Made) : some = Loadable(dirs) BY LoadableIs
<1>8. PICK good \in Seq(Made) : good = OrElse(Loadable(flash \o card), Spare) /\ Found = Numbered(good) /\ TableOk(Found) BY FoundIs
<1>3. good = OrElse(some, Spare) /\ Found = Numbered(good) /\ TableOk(Found) BY <1>1, <1>2, <1>8
<1>4. PICK n \in Nat, m \in Nat : n = Len(Found) /\ DOMAIN Found = 1 .. n /\ m = Len(good)
  <2>1. Len(Found) \in Nat /\ DOMAIN Found = 1 .. Len(Found) BY <1>3 DEF TableOk
  <2>2. Len(good) \in Nat BY <1>8
  <2> QED BY <2>1, <2>2
<1>5. n = (IF m > MaxOperators THEN MaxOperators ELSE m) /\ \A i \in 1 .. n : Found[i].dir = good[i].dir BY <1>3, <1>4, NumberedIs
<1>6. CASE some # <<>>
  <2>1. good = some BY <1>3, <1>6 DEF OrElse
  <2>2. \A i \in 1 .. n : i \in 1 .. Len(some) BY <1>4, <1>5, <2>1, Limits
  <2>3. PICK N \in Nat : N = Len(dirs) /\ DOMAIN dirs = 1 .. N OBVIOUS
  <2>4. \A i \in 1 .. Len(some) : \E a \in 1 .. N : Got(dirs[a]) = << some[i] >>
    <3>1. some = Scanned(dirs)[N] BY <1>2, <2>3 DEF Loadable
    <3> QED BY <2>3, <3>1, ScanFills DEF HasEach
  <2>5. ASSUME NEW i \in 1 .. n PROVE Got(Found[i].dir) # <<>>
    <3>1. PICK a \in 1 .. N : Got(dirs[a]) = << some[i] >> BY <2>2, <2>4
    <3>2. dirs[a] \in Dirs /\ Got(dirs[a]) # <<>> BY <2>3, <3>1
    <3>3. PICK e : Got(dirs[a]) = <<e>> /\ e.dir = dirs[a] BY <3>2, GotIs DEF MadeOf
    <3>4. some[i].dir = dirs[a] BY <3>1, <3>3
    <3> QED BY <1>5, <2>1, <3>2, <3>4
  <2> QED BY <1>4, <2>5 DEF Served
<1>7. CASE some = <<>>
  <2>1. good = << EntryOf(spare) >> BY <1>3, <1>7, SpareIs DEF OrElse
  <2>2. EntryOf(spare).dir = spare BY SpareIs, EntryOfIs DEF MadeOf
  <2>3. m = 1 /\ good[1] = EntryOf(spare) BY <1>4, <2>1
  <2>4. n = 1 /\ Found[1].dir = spare BY <1>5, <2>2, <2>3, Limits
  <2>5. \A i \in DOMAIN Found : i = 1 BY <1>4, <2>4
  <2> QED BY <1>4, <2>4, <2>5 DEF Served
<1> QED BY <1>6, <1>7

LEMMA ServedShuffled ==
  ASSUME NEW n \in Nat, NEW es, Len(es) = n, DOMAIN es = 1 .. n, NEW p, Shuffle(p, n), NEW new, Reordered(es, new, n, p), NEW s, Served(es, s)
  PROVE  Served(new, s)
<1>1. Len(new) = n /\ DOMAIN new = 1 .. n /\ \A j \in 1 .. n : p[j] \in 1 .. n /\ new[j].dir = es[p[j]].dir BY DEF Reordered, Shuffle
<1>2. CASE \A i \in DOMAIN es : Got(es[i].dir) # <<>> BY <1>1, <1>2 DEF Served
<1>3. CASE Len(es) = 1 /\ es[1].dir = s /\ Got(s) = <<>>
  <2>1. n = 1 /\ 1 \in 1 .. n BY <1>3
  <2>2. p[1] = 1 BY <1>1, <2>1
  <2>3. new[1].dir = s BY <1>1, <1>3, <2>1, <2>2
  <2> QED BY <1>1, <1>3, <2>1, <2>3 DEF Served
<1> QED BY <1>2, <1>3 DEF Served

\* what a load without a power cut leaves: the entries found, and the order file as it
\* was, or the names of the table in its order
Loaded(tbl, p) ==
  /\ TableOk(ops') /\ Reordered(tbl, ops', Len(tbl), p) /\ Shuffle(p, Len(tbl))
  /\ capacity' = Reserve(capacity, Needed(flash \o card))
  /\ heap' = [d \in Dirs |-> Cardinality(Owning(tbl, d))]
  /\ \/ order' = order
     \/ order # <<"nofile">> /\ order' = Uuids(ops') /\ p = Perm(tbl, order)

LEMMA UuidsAre == ASSUME NEW t \in Seq(EntrySet) PROVE Uuids(t) \in Seq(Line) /\ Len(Uuids(t)) = Len(t) /\ \A i \in 1 .. Len(t) : Uuids(t)[i] = t[i].uuid
<1>1. PICK n \in Nat : n = Len(t) /\ DOMAIN t = 1 .. n OBVIOUS
<1>2. \A i \in 1 .. n : t[i].uuid \in Line
  <2>1. \A i \in 1 .. n : t[i] \in EntrySet BY <1>1
  <2> QED BY <2>1, EntriesAre
<1>3. Uuids(t) = [i \in 1 .. n |-> t[i].uuid] BY <1>1 DEF Uuids
<1>4. Uuids(t) \in [1 .. n -> Line] BY <1>2, <1>3
<1>5. Uuids(t) \in Seq(Line) /\ Len(Uuids(t)) = n BY <1>4
<1> QED BY <1>1, <1>3, <1>5

LEMMA TornAre == ASSUME NEW lines \in Seq(Line), NEW x \in Torn(lines) PROVE x \in Seq(Line)
<1>1. PICK n \in 0 .. Len(lines), t \in {<<>>, <<"notauuid">>} : x = SubSeq(lines, 1, n) \o t BY DEF Torn
<1>2. t \in Seq(Line)
  <2>1. "notauuid" \in Line BY DEF Line
  <2>2. <<>> \in Seq(Line) BY NoneIn, Zenon
  <2>3. <<"notauuid">> \in Seq(Line) BY <2>1, OneIn, Zenon
  <2> QED BY <1>1, <2>2, <2>3
<1>3. SubSeq(lines, 1, n) \in Seq(Line)
  <2>1. \A i \in 1 .. n : lines[i] \in Line BY <1>1
  <2> QED BY <1>1, <2>1, SubSeqProperties
<1> QED BY <1>1, <1>2, <1>3, ConcatProperties

\* A load ends in a power cut, or with the entries it found in some order.
LEMMA LoadLeaves ==
  ASSUME CatInv, NEW memory, Load(memory)
  PROVE  (Lost /\ order' \in Seq(Line)) \/ \E p : Loaded(Found, p)
<1>1. PICK tbl : tbl = Found /\ TableOk(tbl) BY FoundIs DEF CatInv
<1>2. PICK p : p = Perm(tbl, order) /\ Listed(tbl, p, memory) BY <1>1 DEF Load
<1>3. PICK n \in Nat : n = Len(tbl) /\ DOMAIN tbl = 1 .. n /\ tbl \in Seq(EntrySet) BY <1>1 DEF TableOk
<1>4. Shuffle(p, n)
  <2>1. order \in Seq(Line) BY DEF CatInv, CatTyped
  <2> QED BY <1>2, <1>3, <2>1, PermIs
<1>5. DOMAIN p = 1 .. n BY <1>4 DEF Shuffle
<1> DEFINE moved == \E i \in DOMAIN p : p[i] # i
           new == IF moved THEN Permuted(tbl, p) ELSE tbl
           id == [i \in 1 .. n |-> i]
<1>6. Shuffle(id, n) /\ Reordered(tbl, tbl, n, id)
  <2>1. \A i \in 1 .. n : id[i] = i OBVIOUS
  <2>2. id \in [1 .. n -> 1 .. n] OBVIOUS
  <2> HIDE DEF id
  <2> QED BY <1>3, <2>1, <2>2 DEF Shuffle, Reordered
<1>7. TableOk(new) /\ Reordered(tbl, new, n, p)
  <2>1. CASE moved BY <1>1, <1>3, <1>4, <2>1, PermutedIs
  <2>2. CASE ~moved
    <3>1. \A i \in 1 .. n : p[i] = i BY <1>5, <2>2
    <3> QED BY <1>1, <1>3, <2>2, <3>1 DEF Reordered
  <2> QED BY <2>1, <2>2
<1>8. \A d \in Dirs : EntryFree(heap, ops)[d] = 0
  <2>1. DOMAIN heap = Dirs /\ \A d \in Dirs : heap[d] = Cardinality(Owning(ops, d)) BY DEF CatInv, CatTyped, ElementsOwned
  <2>2. ASSUME NEW d \in Dirs PROVE Cardinality(Owning(ops, d)) \in Nat
    <3>0. ops \in Seq(EntrySet) BY DEF CatInv, CatTyped
    <3>1. PICK m \in Nat : DOMAIN ops = 1 .. m BY <3>0
    <3>2. Owning(ops, d) \subseteq 1 .. m BY <3>1 DEF Owning
    <3>3. IsFiniteSet(1 .. m) BY <3>1, FS_Interval
    <3>4. IsFiniteSet(Owning(ops, d)) BY <3>2, <3>3, FS_Subset
    <3> QED BY <3>4, FS_CardinalityType
  <2> QED BY <2>1, <2>2 DEF EntryFree
<1>9. \A d \in Dirs : Cardinality(Owning(tbl, d)) \in Nat /\ Cardinality(Owning(tbl, d)) = LeftBy(d)
  BY <1>1, <1>3, <1>6, SameOwners, FoundLeaves DEF CatInv
<1>10. [d \in Dirs |-> EntryFree(heap, ops)[d] + LeftBy(d)] = [d \in Dirs |-> Cardinality(Owning(tbl, d))]
  BY <1>8, <1>9
<1> DEFINE Done(es) == /\ ops' = es
                       /\ capacity' = Reserve(capacity, Needed(flash \o card))
                       /\ heap' = [d \in Dirs |-> EntryFree(heap, ops)[d] + LeftBy(d)]
<1>11. \/ Done(tbl) /\ order' = order
       \/ order # <<"nofile">> /\ Done(new) /\ order' = Uuids(new)
       \/ Lost /\ order' \in Torn(Uuids(new))
  BY <1>2 DEF Listed, LeftBy
<1> HIDE DEF moved, new, id
<1>12. CASE Done(tbl) /\ order' = order
  <2>1. Loaded(tbl, id) BY <1>1, <1>3, <1>6, <1>10, <1>12 DEF Loaded
  <2> QED BY <1>1, <2>1
<1>13. CASE order # <<"nofile">> /\ Done(new) /\ order' = Uuids(new)
  <2>1. Loaded(tbl, p) BY <1>2, <1>3, <1>4, <1>7, <1>10, <1>13 DEF Loaded
  <2> QED BY <1>1, <2>1
<1>14. CASE Lost /\ order' \in Torn(Uuids(new))
  <2>1. new \in Seq(EntrySet) BY <1>7 DEF TableOk
  <2> QED BY <1>14, <2>1, UuidsAre, TornAre
<1> QED BY <1>11, <1>12, <1>13, <1>14

LEMMA CatInitially == CatInit => CatInv
<1> SUFFICES ASSUME CatInit PROVE CatInv OBVIOUS
<1>1. spare \in Fallbacks /\ flash = Flash /\ card = <<>> /\ order = <<"nofile">> /\ ops = <<>> /\ capacity = 0 /\ heap = Freed BY DEF CatInit
<1>2. <<"nofile">> \in Seq(Line) /\ <<>> \in Seq(EntrySet)
  <2>1. "nofile" \in Line BY DEF Line
  <2>2. <<"nofile">> \in Seq(Line) BY <2>1, OneIn, Zenon
  <2> QED BY <2>2, NoneIn, Zenon
<1>3. CatTyped BY <1>1, <1>2, TheDirs DEF CatTyped, Freed
<1>4. \A d : Owning(<<>>, d) = {} BY DEF Owning
<1>5. ElementsOwned BY <1>1, <1>4, Limits, FS_EmptySet DEF ElementsOwned, Freed
<1>6. Served(ops, spare) BY <1>1 DEF Served
<1> QED BY <1>3, <1>5, <1>6 DEF CatInv

LEMMA LostKeeps == ASSUME CatInv, Lost, order' \in Seq(Line), flash' = flash, card' = card, spare' = spare PROVE CatInv'
<1>1. ops' = <<>> /\ capacity' = 0 /\ heap' = Freed BY DEF Lost
<1>2. <<>> \in Seq(EntrySet) OBVIOUS
<1>3. CatTyped' BY <1>1, <1>2 DEF CatInv, CatTyped, Freed
<1>4. \A d : Owning(<<>>, d) = {} BY DEF Owning
<1>5. ElementsOwned'
  <2>1. Cardinality({}) = 0 BY FS_EmptySet
  <2>2. \A d \in Dirs : heap'[d] = Cardinality(Owning(<<>>, d)) BY <1>1, <1>4, <2>1 DEF Freed
  <2> QED BY <1>1, <2>2, Limits DEF ElementsOwned
<1>6. Served(ops', spare') BY <1>1 DEF Served
<1> QED BY <1>3, <1>5, <1>6 DEF CatInv

\* The lists of the old table are freed and those of the new one counted.
LEMMA LoadedKeeps == ASSUME CatInv, NEW p, Loaded(Found, p), flash' = flash, card' = card, spare' = spare PROVE CatInv'
<1>1. TableOk(Found) BY FoundIs DEF CatInv
<1>2. PICK n \in Nat : n = Len(Found) /\ DOMAIN Found = 1 .. n BY <1>1 DEF TableOk
<1>3. PICK es : es = ops' /\ TableOk(es) /\ Reordered(Found, es, n, p) /\ Shuffle(p, n) BY <1>2 DEF Loaded
<1>4. es \in Seq(EntrySet) /\ Len(es) \in Nat /\ Len(es) <= MaxOperators BY <1>3 DEF TableOk
<1>5. PICK cap : cap = capacity' /\ cap = Reserve(capacity, Needed(flash \o card)) BY <1>3 DEF Loaded
<1>6. cap \in Nat /\ Len(es) <= cap /\ cap <= MaxOperators
  <2>1. PICK need \in Nat : need = Needed(flash \o card) /\ n <= need /\ need <= MaxOperators BY <1>2, FoundFits DEF CatInv
  <2>2. Len(es) = n BY <1>3 DEF Reordered
  <2>3. capacity \in Nat /\ capacity <= MaxOperators BY DEF CatInv, CatTyped, ElementsOwned
  <2>4. cap \in Nat /\ need <= cap /\ cap <= MaxOperators BY <1>5, <2>1, <2>3, ReserveIs
  <2> QED BY <1>4, <2>1, <2>2, <2>4
<1>7. order' \in Seq(Line) BY <1>3, <1>4, UuidsAre DEF Loaded, CatInv, CatTyped
<1>8. DOMAIN heap' = Dirs /\ \A d \in Dirs : heap'[d] = Cardinality(Owning(Found, d)) BY DEF Loaded
<1>9. \A d \in Dirs : heap'[d] = Cardinality(Owning(es, d)) BY <1>2, <1>3, <1>8, SameOwners
<1>10. CatTyped' BY <1>3, <1>4, <1>5, <1>6, <1>7, <1>8 DEF CatInv, CatTyped
<1>11. ElementsOwned' BY <1>3, <1>5, <1>6, <1>9 DEF ElementsOwned
<1>12. Served(es, spare) BY <1>2, <1>3, FoundServed, ServedShuffled DEF CatInv
<1> QED BY <1>3, <1>10, <1>11, <1>12 DEF CatInv

\* Two neighbours change places with their lists.
LEMMA MoveDownKeeps == ASSUME CatInv, MoveDown, spare' = spare PROVE CatInv'
<1>1. PICK n \in Nat : n = Len(ops) /\ DOMAIN ops = 1 .. n /\ ops \in Seq(EntrySet)
  <2>1. ops \in Seq(EntrySet) BY DEF CatInv, CatTyped
  <2> QED BY <2>1
<1>2. PICK from \in DOMAIN ops :
    /\ from < Len(ops)
    /\ ops' = [ops EXCEPT ![from] = [ops[from + 1] EXCEPT !.index = from],
                          ![from + 1] = [ops[from] EXCEPT !.index = from + 1]]
    /\ UNCHANGED <<flash, card, order, capacity, heap>>
  BY DEF MoveDown
<1>3. from \in 1 .. n /\ from + 1 \in 1 .. n /\ from # from + 1 /\ from \in Nat /\ from + 1 \in Nat BY <1>1, <1>2
<1>4. PICK a, b, x, y : a = ops[from] /\ b = ops[from + 1] /\ x = [b EXCEPT !.index = from] /\ y = [a EXCEPT !.index = from + 1] OBVIOUS
<1>5. PICK new : new = [ops EXCEPT ![from] = x, ![from + 1] = y] /\ new = ops' BY <1>2, <1>4
<1>6. a \in EntrySet /\ b \in EntrySet BY <1>1, <1>3, <1>4
<1>7. x \in EntrySet /\ x.dir = b.dir /\ x.uuid = b.uuid /\ x.opinfo = b.opinfo BY <1>3, <1>4, <1>6, EntriesAre
<1>8. y \in EntrySet /\ y.dir = a.dir /\ y.uuid = a.uuid /\ y.opinfo = a.opinfo BY <1>3, <1>4, <1>6, EntriesAre
<1> DEFINE p == [i \in 1 .. n |-> IF i = from THEN from + 1 ELSE IF i = from + 1 THEN from ELSE i]
<1>9. Shuffle(p, n)
  <2>1. p \in [1 .. n -> 1 .. n] BY <1>3
  <2>2. \A i \in 1 .. n : p[p[i]] = i BY <1>3
  <2> HIDE DEF p
  <2> QED BY <2>1, <2>2 DEF Shuffle
<1>10. /\ DOMAIN new = 1 .. n /\ new[from] = x /\ new[from + 1] = y
       /\ \A i \in 1 .. n : i # from /\ i # from + 1 => new[i] = ops[i]
  BY <1>1, <1>3, <1>5
<1>11. new = [i \in 1 .. n |-> new[i]] BY <1>1, <1>5
<1>12. new \in [1 .. n -> EntrySet]
  <2>1. \A i \in 1 .. n : new[i] \in EntrySet BY <1>1, <1>7, <1>8, <1>10
  <2> QED BY <1>11, <2>1
<1>13. new \in Seq(EntrySet) /\ Len(new) = n BY <1>12
<1>14. Reordered(ops, new, n, p)
  <2>1. p[from] = from + 1 /\ p[from + 1] = from /\ \A i \in 1 .. n : i # from /\ i # from + 1 => p[i] = i BY <1>3
  <2> HIDE DEF p
  <2>2. ASSUME NEW j \in 1 .. n
        PROVE  new[j].dir = ops[p[j]].dir /\ new[j].uuid = ops[p[j]].uuid /\ new[j].opinfo = ops[p[j]].opinfo
    <3>1. CASE j = from BY <1>4, <1>7, <1>10, <2>1, <3>1
    <3>2. CASE j = from + 1 BY <1>4, <1>8, <1>10, <2>1, <3>2
    <3>3. CASE j # from /\ j # from + 1 BY <1>10, <2>1, <3>3
    <3> QED BY <3>1, <3>2, <3>3
  <2> QED BY <1>10, <2>2 DEF Reordered
<1> HIDE DEF p
<1>15. \A d \in Dirs : heap'[d] = Cardinality(Owning(new, d))
  <2>1. \A d \in Dirs : heap[d] = Cardinality(Owning(ops, d)) BY DEF CatInv, ElementsOwned
  <2> QED BY <1>1, <1>2, <1>9, <1>14, <2>1, SameOwners
<1>16. CatTyped' BY <1>2, <1>5, <1>13 DEF CatInv, CatTyped
<1>17. ElementsOwned' BY <1>1, <1>2, <1>5, <1>13, <1>15 DEF CatInv, ElementsOwned
<1>18. Served(new, spare) BY <1>1, <1>9, <1>14, ServedShuffled DEF CatInv
<1> QED BY <1>5, <1>16, <1>17, <1>18 DEF CatInv

LEMMA CatStep == ASSUME CatInv, [CatNext]_catVars PROVE CatInv'
<1>1. CASE UNCHANGED catVars
  <2>1. spare' = spare /\ flash' = flash /\ card' = card /\ order' = order /\ ops' = ops /\ capacity' = capacity /\ heap' = heap BY <1>1 DEF catVars
  <2> QED BY <2>1 DEF CatInv, CatTyped, ElementsOwned
<1>0. ~(UNCHANGED catVars) => spare' = spare BY DEF CatNext
<1>8. SUFFICES ASSUME spare' = spare PROVE CatInv' BY <1>0, <1>1
<1>2. CASE FirstLoad \/ Reload
  <2>1. PICK memory : Load(memory) /\ flash' = flash /\ card' = card BY <1>2 DEF FirstLoad, Reload
  <2> QED BY <1>8, <2>1, LoadLeaves, LostKeeps, LoadedKeeps
<1>3. CASE PowerCut
  <2>1. Lost /\ order' = order /\ flash' = flash /\ card' = card BY <1>3 DEF PowerCut
  <2>2. order' \in Seq(Line) BY <2>1 DEF CatInv, CatTyped
  <2> QED BY <1>8, <2>1, <2>2, LostKeeps
<1>4. CASE InsertCard \/ PullCard
  <2>1. /\ card' \in {<<>>, Card} /\ flash' = flash /\ order' = order /\ ops' = ops /\ capacity' = capacity /\ heap' = heap
    BY <1>4 DEF InsertCard, PullCard
  <2> QED BY <1>8, <2>1 DEF CatInv, CatTyped, ElementsOwned
<1>5. CASE RemoveDir \/ AddDir
  <2>1. card' = card /\ order' = order /\ ops' = ops /\ capacity' = capacity /\ heap' = heap BY <1>5 DEF RemoveDir, AddDir
  <2>2. flash \in Seq(OnFlash) /\ Distinct(flash) BY DEF CatInv, CatTyped
  <2>3. PICK new : new = flash' OBVIOUS
  <2>4. new \in Seq(OnFlash) /\ Distinct(new)
    <3>1. CASE RemoveDir
      <4>1. PICK i \in DOMAIN flash : new = SubSeq(flash, 1, i - 1) \o SubSeq(flash, i + 1, Len(flash)) BY <2>3, <3>1 DEF RemoveDir
      <4> QED BY <2>2, <4>1, Removed
    <3>2. CASE AddDir
      <4>1. PICK i \in DOMAIN Flash, cut \in 0 .. Len(flash) :
              /\ \A j \in DOMAIN flash : flash[j] # Flash[i]
              /\ new = SubSeq(flash, 1, cut) \o <<Flash[i]>> \o SubSeq(flash, cut + 1, Len(flash))
        BY <2>3, <3>2 DEF AddDir
      <4>2. PICK x : x = Flash[i] /\ x \in OnFlash BY <4>1 DEF OnFlash
      <4>3. IsNew(flash, x) /\ new = Insertion(flash, cut, x) BY <4>1, <4>2 DEF IsNew, Insertion
      <4> QED BY <2>2, <4>2, <4>3, PutBetween
    <3> QED BY <1>5, <3>1, <3>2, Zenon
  <2> QED BY <1>8, <2>1, <2>3, <2>4 DEF CatInv, CatTyped, ElementsOwned, Distinct
<1>6. CASE MoveDown BY <1>6, <1>8, MoveDownKeeps
<1>7. CASE OrderSave
  <2>1. ops \in Seq(EntrySet) BY DEF CatInv, CatTyped
  <2>2. flash' = flash /\ card' = card /\ (order' = Uuids(ops) \/ order' \in Torn(Uuids(ops))) BY <1>7 DEF OrderSave
  <2>3. order' \in Seq(Line) BY <2>1, <2>2, UuidsAre, TornAre
  <2>4. CASE Lost BY <1>8, <2>2, <2>3, <2>4, LostKeeps
  <2>5. CASE UNCHANGED <<ops, capacity, heap>> BY <1>8, <2>2, <2>3, <2>5 DEF CatInv, CatTyped, ElementsOwned
  <2> QED BY <1>7, <2>4, <2>5 DEF OrderSave
<1> QED BY <1>1, <1>2, <1>3, <1>4, <1>5, <1>6, <1>7 DEF CatNext

LEMMA InvIsSound == CatInv => CatalogueSound
<1> SUFFICES ASSUME CatInv PROVE CatalogueSound OBVIOUS
<1>1. AcceptsPlayable
  <2> SUFFICES ASSUME NEW d \in Dirs, NEW c \in Configs, TryLoad(d, c) # <<>> PROVE Plays(TryLoad(d, c)[1]) BY DEF AcceptsPlayable
  <2>1. PICK e : TryLoad(d, c) = <<e>> /\ Plays(e) BY TryLoadPlays
  <2> QED BY <2>1
<1>2. OnlyRemains \/ \A i \in DOMAIN ops : Plays(ops[i])
  <2>1. \A i \in DOMAIN ops : Faithful(ops[i])
    <3>1. \A i \in DOMAIN ops : ops[i] \in EntrySet BY DEF CatInv, CatTyped
    <3> QED BY <3>1, EntriesAre
  <2>2. CASE \A i \in DOMAIN ops : Got(ops[i].dir) # <<>> BY <2>1, <2>2 DEF Faithful
  <2>3. CASE Len(ops) = 1 /\ ops[1].dir = spare /\ Got(spare) = <<>> BY <2>3 DEF OnlyRemains, Got
  <2> QED BY <2>2, <2>3 DEF CatInv, Served
<1> QED BY <1>1, <1>2 DEF CatInv, CatalogueSound

(* Whatever the configs say and whatever comes and goes on flash and card, also
   with power cuts in between, what operator_try_load accepts can be played, and
   the table holds nothing else, unless the fallback is all it holds and was itself
   refused. The element lists on the heap, of those that were allocated for configs
   that were accepted or refused, are the ones the entries of the table own, one
   each: nothing that operator_try_load, prts_reload_assets, the reordering and
   prts_operator_entry_free do leaves one behind or gives one back twice. And the
   table has room for its entries (prts/operators.c, prts/prts.c).               *)
THEOREM CatalogueSoundCorrect == CatSpec => []CatalogueSound
<1>1. CatInit => CatInv BY CatInitially
<1>2. CatInv /\ [CatNext]_catVars => CatInv' BY CatStep
<1>3. CatInv => CatalogueSound BY InvIsSound
<1> QED BY <1>1, <1>2, <1>3, PTL DEF CatSpec

(* Each directory once *)

LEMMA LoadsOnce ==
  ASSUME CatInv, FirstLoad \/ Reload, ops' # <<>>
  PROVE  AllLoaded
<1>1. CatTyped BY DEF CatInv
<1>2. PICK memory : Load(memory) BY DEF FirstLoad, Reload
<1>3. ~Lost BY DEF Lost
<1>4. PICK p : Loaded(Found, p) BY <1>2, <1>3, LoadLeaves
<1>5. PICK n \in Nat : n = Len(Found) /\ DOMAIN Found = 1 .. n BY <1>1, FoundIs DEF TableOk
<1>6. PICK es : es = ops' /\ TableOk(es) /\ Reordered(Found, es, n, p) /\ Shuffle(p, n) BY <1>4, <1>5 DEF Loaded
<1>7. PICK good : /\ good = OrElse(Loadable(flash \o card), Spare)
                  /\ \A d \in Dirs : Count(Found, d) = (IF d \in Owed(good) THEN 1 ELSE 0)
  BY <1>1, FoundOnce
<1>8. \A d \in Dirs : Count(es, d) = (IF d \in Owed(good) THEN 1 ELSE 0) BY <1>5, <1>6, <1>7, SameOwners
<1>9. \A i \in DOMAIN es : es[i].index = i BY <1>6 DEF TableOk
<1>10. /\ \A d \in Dirs : Count(ops', d) = (IF d \in Owed(good) THEN 1 ELSE 0)
       /\ \A i \in DOMAIN ops' : ops'[i].index = i
  BY <1>6, <1>8, <1>9
<1> QED BY <1>7, <1>10 DEF AllLoaded

(* In the order of the lines *)

\* q begins with p
Extends(p, q) == \A m \in DOMAIN p : m \in DOMAIN q /\ q[m] = p[m]

LEMMA PlaceExtends ==
  ASSUME NEW es, NEW n \in Nat, DOMAIN es = 1 .. n, NEW p \in Inj(n), NEW u
  PROVE  Extends(p, Place(es, p, u))
<1>1. CASE Place(es, p, u) = p BY <1>1 DEF Extends
<1>2. CASE \E i \in Free(es, p, u) : Place(es, p, u) = Append(p, i)
  <2>1. PICK i \in 1 .. n : ~Taken(p, i) /\ Place(es, p, u) = Append(p, i) BY <1>2 DEF Free
  <2>2. PICK q : q = Append(p, i) OBVIOUS
  <2>3. DOMAIN q = 1 .. Len(p) + 1 /\ \A m \in DOMAIN p : q[m] = p[m] BY <2>1, <2>2, Appends
  <2>4. p \in Seq(1 .. n) BY DEF Inj
  <2>5. \A m \in DOMAIN p : m \in 1 .. Len(p) + 1 BY <2>4
  <2> QED BY <2>1, <2>2, <2>3, <2>5 DEF Extends
<1> QED BY <1>1, <1>2, PlaceIs

LEMMA PlaceLastExtends ==
  ASSUME NEW n \in Nat, NEW p \in Inj(n), NEW i \in 1 .. n
  PROVE  Extends(p, PlaceLast(p, i))
<1>1. CASE Taken(p, i) BY <1>1 DEF Extends, PlaceLast
<1>2. CASE ~Taken(p, i)
  <2>1. PlaceLast(p, i) = Append(p, i) BY <1>2 DEF PlaceLast
  <2>2. PICK q : q = Append(p, i) OBVIOUS
  <2>3. DOMAIN q = 1 .. Len(p) + 1 /\ \A m \in DOMAIN p : q[m] = p[m] BY <1>2, <2>2, Appends
  <2>4. p \in Seq(1 .. n) BY DEF Inj
  <2>5. \A m \in DOMAIN p : m \in 1 .. Len(p) + 1 BY <2>4
  <2> QED BY <2>1, <2>2, <2>3, <2>5 DEF Extends
<1> QED BY <1>1, <1>2

\* What was placed after k lines keeps its place.
LEMMA PermExtends ==
  ASSUME NEW es, NEW n \in Nat, DOMAIN es = 1 .. n, Len(es) = n, NEW lines \in Seq(Line), NEW k \in 0 .. Len(lines)
  PROVE  Extends(Named(es, lines)[k], Perm(es, lines))
<1>1. PICK N \in Nat : N = Len(lines) OBVIOUS
<1>2. PICK P : P = Named(es, lines) OBVIOUS
<1>3. (\A a \in 0 .. N : P[a] \in Inj(n)) /\ \A a \in 1 .. N : P[a] = Place(es, P[a - 1], lines[a]) BY <1>1, <1>2, NamedIs
<1> DEFINE T == {b \in 0 .. N - k : Extends(P[k], P[k + b])}
<1>4. N - k \in Nat /\ k \in 0 .. N /\ k + (N - k) = N BY <1>1
<1>5. 0 \in T
  <2>1. k + 0 = k BY <1>4
  <2> QED BY <1>4, <2>1 DEF Extends
<1>6. ASSUME NEW b \in 1 .. N - k, b - 1 \in T PROVE b \in T
  <2>1. k + b \in 1 .. N /\ k + (b - 1) = k + b - 1 /\ k + b - 1 \in 0 .. N BY <1>4
  <2>2. Extends(P[k], P[k + b - 1]) BY <1>6, <2>1
  <2>3. Extends(P[k + b - 1], P[k + b]) BY <1>3, <2>1, PlaceExtends
  <2>4. Extends(P[k], P[k + b]) BY <2>2, <2>3 DEF Extends
  <2> QED BY <1>4, <2>4
<1> HIDE DEF T
<1>7. N - k \in T
  <2>1. \A b \in 0 .. N - k : b \in T BY <1>4, <1>5, <1>6, UpTo
  <2> QED BY <1>4, <2>1
<1>8. PICK named : named = P[N] /\ named \in Inj(n) /\ Extends(P[k], named)
  <2>1. N \in 0 .. N OBVIOUS
  <2> QED BY <1>3, <1>4, <1>7, <2>1 DEF T
<1>9. PICK C : C = Completed(n, named) OBVIOUS
<1>10. C[0] = named /\ (\A a \in 0 .. n : C[a] \in Inj(n)) /\ \A a \in 1 .. n : C[a] = PlaceLast(C[a - 1], a)
  BY <1>8, <1>9, CompletedIs
<1> DEFINE R == {b \in 0 .. n : Extends(P[k], C[b])}
<1>11. 0 \in R BY <1>8, <1>10
<1>12. ASSUME NEW b \in 1 .. n, b - 1 \in R PROVE b \in R
  <2>1. b - 1 \in 0 .. n /\ C[b - 1] \in Inj(n) /\ C[b] = PlaceLast(C[b - 1], b) BY <1>10
  <2>2. Extends(C[b - 1], C[b]) BY <2>1, PlaceLastExtends
  <2>3. Extends(P[k], C[b]) BY <1>12, <2>2 DEF Extends
  <2> QED BY <2>3
<1> HIDE DEF R
<1>13. n \in R
  <2>1. \A b \in 0 .. n : b \in R BY <1>11, <1>12, UpTo
  <2> QED BY <2>1
<1>14. Perm(es, lines) = C[n] BY <1>1, <1>2, <1>8, <1>9 DEF Perm
<1> QED BY <1>2, <1>13, <1>14 DEF R

\* one of the first k lines names the entry x of es
NamedBy(lines, es, k, x) == \E m \in 1 .. k : lines[m] = es[x].uuid

\* What is placed is named by a line so far.
LEMMA TakenByLine ==
  ASSUME NEW es, NEW n \in Nat, DOMAIN es = 1 .. n, NEW lines \in Seq(Line), NEW k \in 0 .. Len(lines),
         NEW x, Taken(Named(es, lines)[k], x)
  PROVE  NamedBy(lines, es, k, x)
<1>1. PICK N \in Nat : N = Len(lines) OBVIOUS
<1>2. PICK P : P = Named(es, lines) OBVIOUS
<1>3. P[0] = <<>> /\ (\A a \in 0 .. N : P[a] \in Inj(n)) /\ \A a \in 1 .. N : P[a] = Place(es, P[a - 1], lines[a])
  BY <1>1, <1>2, NamedIs
<1> DEFINE By(a) == \A y : Taken(P[a], y) => \E m \in 1 .. a : lines[m] = es[y].uuid
           T == {a \in 0 .. N : By(a)}
<1>4. 0 \in T BY <1>3 DEF Taken
<1>5. ASSUME NEW a \in 1 .. N, a - 1 \in T PROVE a \in T
  <2>1. a - 1 \in 0 .. N /\ P[a - 1] \in Inj(n) /\ P[a] = Place(es, P[a - 1], lines[a]) BY <1>3
  <2>2. a \in 1 .. a /\ \A m \in 1 .. a - 1 : m \in 1 .. a OBVIOUS
  <2>3. \A y : Taken(P[a], y) => Taken(P[a - 1], y) \/ es[y].uuid = lines[a]
    <3>1. CASE P[a] = P[a - 1] BY <3>1
    <3>2. CASE \E i \in Free(es, P[a - 1], lines[a]) : P[a] = Append(P[a - 1], i)
      <4>1. PICK i \in 1 .. n : ~Taken(P[a - 1], i) /\ es[i].uuid = lines[a] /\ P[a] = Append(P[a - 1], i) BY <3>2 DEF Free
      <4> QED BY <2>1, <4>1, Appends
    <3> QED BY <2>1, <3>1, <3>2, PlaceIs
  <2>4. By(a - 1) BY <1>5
  <2>5. By(a) BY <2>2, <2>3, <2>4
  <2> HIDE DEF By
  <2> QED BY <2>5
<1> HIDE DEF T
<1>6. k \in T BY <1>1, <1>4, <1>5, UpTo
<1> QED BY <1>2, <1>6 DEF T, NamedBy

\* What the first line of an entry places is behind what earlier lines placed.
LEMMA BehindNamed ==
  ASSUME NEW es, NEW n \in Nat, DOMAIN es = 1 .. n, Len(es) = n, NEW lines \in Seq(Line), NEW k \in 1 .. Len(lines),
         NEW y \in 1 .. n, lines[k] = es[y].uuid, \A m \in 1 .. k - 1 : lines[m] # es[y].uuid,
         \A x \in 1 .. n : es[x].uuid = es[y].uuid => x = y,
         NEW p, p = Perm(es, lines), NEW i \in 1 .. n, NEW j \in 1 .. n, i < j, p[j] = y
  PROVE  NamedBy(lines, es, k - 1, p[i])
<1>1. k - 1 \in 0 .. Len(lines) /\ k \in 0 .. Len(lines) OBVIOUS
<1>2. PICK before, after : before = Named(es, lines)[k - 1] /\ after = Named(es, lines)[k] OBVIOUS
<1>3. before \in Inj(n) /\ after = Place(es, before, lines[k]) BY <1>1, <1>2, NamedIs
<1>4. Extends(before, p) /\ Extends(after, p) BY <1>1, <1>2, PermExtends
<1>5. Shuffle(p, n) BY PermIs
<1>6. ~Taken(before, y) BY <1>1, <1>2, TakenByLine DEF NamedBy
<1>7. PICK l \in Nat : l = Len(before) /\ DOMAIN before = 1 .. l
  <2>1. before \in Seq(1 .. n) BY <1>3 DEF Inj
  <2> QED BY <2>1
<1>8. l # n
  <2> SUFFICES ASSUME l = n PROVE FALSE OBVIOUS
  <2>1. PICK m \in 1 .. n : p[m] = y BY <1>5 DEF Shuffle
  <2>2. m \in DOMAIN before /\ before[m] = y BY <1>4, <1>7, <2>1 DEF Extends
  <2> QED BY <1>6, <2>2 DEF Taken
<1>9. y \in Free(es, before, lines[k]) /\ \A x \in Free(es, before, lines[k]) : x = y BY <1>6 DEF Free
<1>10. after = Append(before, y)
  <2>1. Len(before) # Len(es) /\ Free(es, before, lines[k]) # {} BY <1>7, <1>8, <1>9
  <2> QED BY <1>3, <1>9, <2>1, PlaceIs
<1>11. DOMAIN after = 1 .. l + 1 /\ after[l + 1] = y BY <1>3, <1>6, <1>7, <1>10, Appends
<1>12. l + 1 \in DOMAIN p /\ p[l + 1] = y
  <2>1. l + 1 \in DOMAIN after BY <1>7, <1>11
  <2> QED BY <1>4, <1>11, <2>1 DEF Extends
<1>13. j = l + 1 BY <1>5, <1>12 DEF Shuffle
<1>14. i \in DOMAIN before BY <1>7, <1>13
<1>15. Taken(before, p[i]) BY <1>4, <1>14 DEF Extends, Taken
<1>16. PICK x : x = p[i] /\ Taken(Named(es, lines)[k - 1], x) BY <1>2, <1>15
<1>17. NamedBy(lines, es, k - 1, x) BY <1>1, <1>16, TakenByLine
<1> QED BY <1>16, <1>17

LEMMA LoadsInOrder ==
  ASSUME CatInv, FirstLoad \/ Reload, ops' # <<>>, order # <<"nofile">>, order' = Uuids(ops')
  PROVE  InLineOrder
<1>1. CatTyped /\ order \in Seq(Line) BY DEF CatInv, CatTyped
<1>2. PICK memory : Load(memory) BY DEF FirstLoad, Reload
<1>3. ~Lost BY DEF Lost
<1>4. PICK p : Loaded(Found, p) BY <1>2, <1>3, LoadLeaves
<1>5. PICK tbl : tbl = Found /\ TableOk(tbl) BY <1>1, FoundIs
<1>6. PICK n \in Nat : n = Len(tbl) /\ DOMAIN tbl = 1 .. n BY <1>5 DEF TableOk
<1>7. PICK es : es = ops' /\ TableOk(es) /\ Reordered(tbl, es, n, p) /\ Shuffle(p, n) BY <1>4, <1>5, <1>6 DEF Loaded
<1>8. DOMAIN es = 1 .. n /\ \A a \in 1 .. n : p[a] \in 1 .. n /\ es[a].uuid = tbl[p[a]].uuid BY <1>7 DEF Reordered, Shuffle
<1>9. \/ order = Uuids(es)
      \/ p = Perm(tbl, order)
  BY <1>4, <1>5, <1>7 DEF Loaded
<1>10. SUFFICES ASSUME NEW i \in 1 .. n, NEW j \in 1 .. n, i < j, Sole(es, es[i].uuid), Sole(es, es[j].uuid), LinesOf(es[j].uuid) # {}
       PROVE  LinesOf(es[i].uuid) # {} /\ FirstLine(es[i].uuid) < FirstLine(es[j].uuid)
  BY <1>7, <1>8 DEF InLineOrder
<1>11. PICK N \in Nat : N = Len(order) /\ DOMAIN order = 1 .. N BY <1>1
<1>12. ASSUME NEW u, LinesOf(u) # {}
       PROVE  /\ FirstLine(u) \in 1 .. N /\ order[FirstLine(u)] = u
              /\ \A m \in 1 .. N : order[m] = u => FirstLine(u) <= m
  <2>1. LinesOf(u) = {k \in 1 .. N : order[k] = u} BY <1>11 DEF LinesOf
  <2>2. LinesOf(u) \subseteq Nat BY <2>1
  <2>3. \E k \in LinesOf(u) : \A m \in LinesOf(u) : k <= m BY <1>12, <2>2, LeastNat
  <2>4. FirstLine(u) \in LinesOf(u) /\ \A m \in LinesOf(u) : FirstLine(u) <= m BY <2>3 DEF FirstLine
  <2> QED BY <2>1, <2>4
<1>13. ASSUME NEW a \in 1 .. n, Sole(es, es[a].uuid), NEW b \in 1 .. n, es[b].uuid = es[a].uuid PROVE a = b
  <2>1. PICK D : D = {k \in 1 .. n : es[k].uuid = es[a].uuid} OBVIOUS
  <2>2. Cardinality(D) = 1 BY <1>8, <1>13, <2>1 DEF Sole
  <2>3. IsFiniteSet(1 .. n) BY FS_Interval
  <2>4. IsFiniteSet(D) BY <2>1, <2>3, FS_Subset
  <2>5. PICK x : D = {x} BY <2>2, <2>4, FS_Singleton
  <2>6. a \in D /\ b \in D BY <1>13, <2>1
  <2> QED BY <2>5, <2>6
<1>14. PICK k \in 1 .. N : k = FirstLine(es[j].uuid) /\ order[k] = es[j].uuid /\ \A m \in 1 .. N : order[m] = es[j].uuid => k <= m
  BY <1>10, <1>12
<1>15. \E m \in 1 .. k - 1 : order[m] = es[i].uuid
  <2>1. CASE order = Uuids(es)
    <3>1. N = n /\ \A a \in 1 .. n : order[a] = es[a].uuid
      <4>1. es \in Seq(EntrySet) BY <1>7 DEF TableOk
      <4>2. Len(es) = n BY <1>7 DEF Reordered
      <4> QED BY <1>11, <2>1, <4>1, <4>2, UuidsAre
    <3>2. k \in 1 .. n /\ es[k].uuid = es[j].uuid BY <1>14, <3>1
    <3>3. k = j BY <1>10, <1>13, <3>2
    <3>4. i \in 1 .. k - 1 BY <1>10, <3>3
    <3> QED BY <3>1, <3>4
  <2>2. CASE p = Perm(tbl, order)
    <3>1. PICK y \in 1 .. n : y = p[j] /\ tbl[y].uuid = es[j].uuid BY <1>8
    <3>2. ASSUME NEW x \in 1 .. n, tbl[x].uuid = tbl[y].uuid PROVE x = y
      <4>1. PICK a \in 1 .. n : p[a] = x BY <1>7 DEF Shuffle
      <4>2. es[a].uuid = es[j].uuid BY <1>8, <3>1, <3>2, <4>1
      <4>3. a = j BY <1>10, <1>13, <4>2
      <4> QED BY <3>1, <4>1, <4>3
    <3>3. \A m \in 1 .. k - 1 : order[m] # tbl[y].uuid
      <4>1. \A m \in 1 .. k - 1 : m \in 1 .. N /\ ~(k <= m) BY <1>14
      <4> QED BY <1>14, <3>1, <4>1
    <3>4. k \in 1 .. Len(order) /\ order[k] = tbl[y].uuid BY <1>11, <1>14, <3>1
    <3>5. NamedBy(order, tbl, k - 1, p[i])
      BY <1>1, <1>6, <1>10, <2>2, <3>1, <3>2, <3>3, <3>4, BehindNamed
    <3> QED BY <1>8, <3>5 DEF NamedBy
  <2> QED BY <1>9, <2>1, <2>2
<1>16. PICK m \in 1 .. k - 1 : order[m] = es[i].uuid BY <1>15
<1>17. m \in 1 .. N /\ m < k BY <1>14
<1>18. LinesOf(es[i].uuid) # {} BY <1>11, <1>16, <1>17 DEF LinesOf
<1>19. FirstLine(es[i].uuid) <= m /\ FirstLine(es[i].uuid) \in 1 .. N BY <1>12, <1>16, <1>17, <1>18
<1> QED BY <1>14, <1>17, <1>18, <1>19

LEMMA LoadStep ==
  ASSUME CatInv, [CatNext]_catVars
  PROVE  /\ [Loads => AllLoaded]_catVars
         /\ [Loads /\ order # <<"nofile">> /\ order' = Uuids(ops') => InLineOrder]_catVars
BY LoadsOnce, LoadsInOrder DEF Loads

(* Whatever lines the order file has, and whatever came and went since it was
   written, prts_reload_assets leaves every directory that can be loaded in the
   table once, each entry with its number, and the operators the file names in the
   order in which it first names them, before those it does not name
   (prts_order_apply).                                                           *)
THEOREM OrderHoldsCorrect == CatSpec => OrderHolds
<1>1. CatInit => CatInv BY CatInitially
<1>2. CatInv /\ [CatNext]_catVars => CatInv' BY CatStep
<1>3. CatInv /\ [CatNext]_catVars => [Loads => AllLoaded]_catVars BY LoadStep
<1>4. CatInv /\ [CatNext]_catVars => [Loads /\ order # <<"nofile">> /\ order' = Uuids(ops') => InLineOrder]_catVars BY LoadStep
<1> QED BY <1>1, <1>2, <1>3, <1>4, PTL DEF CatSpec, OrderHolds, EachOnce, OrderKept

------------------------------------------------------------------------------
(* Pictures *)

LEMMA SequenceIs ==
  ASSUME NEW n \in Nat, NEW Q, NEW s \in [1 .. n -> Q]
  PROVE  s \in Seq(Q) /\ Len(s) = n /\ DOMAIN s = 1 .. n
OBVIOUS

Smallest(f, n, i) == i \in 1 .. n /\ \A j \in 1 .. n : f[i] < f[j] \/ (f[i] = f[j] /\ i <= j)

\* One of finitely many numbers is the first of the smallest.
LEMMA FirstSmallest == ASSUME NEW n \in Nat \ {0}, NEW f \in [1 .. n -> Int] PROVE \E i : Smallest(f, n, i)
<1> DEFINE T == {k \in 0 .. n : k = 0 \/ \E i : Smallest(f, k, i)}
<1>1. 0 \in T OBVIOUS
<1>2. ASSUME NEW k \in 1 .. n, k - 1 \in T PROVE k \in T
  <2>1. CASE k = 1
    <3>1. Smallest(f, k, 1) BY <2>1 DEF Smallest
    <3> QED BY <3>1
  <2>2. CASE k # 1
    <3>1. PICK i : Smallest(f, k - 1, i) BY <1>2, <2>2
    <3>2. f[i] \in Int /\ f[k] \in Int /\ i \in 1 .. k - 1 BY <3>1 DEF Smallest
    <3>3. CASE f[k] < f[i]
      <4>1. \A j \in 1 .. k : j # k => j \in 1 .. k - 1 OBVIOUS
      <4>2. ASSUME NEW j \in 1 .. k PROVE f[k] < f[j] \/ (f[k] = f[j] /\ k <= j)
        <5>1. CASE j = k BY <5>1
        <5>2. CASE j # k
          <6>1. f[i] <= f[j] /\ f[j] \in Int BY <3>1, <3>2, <4>1, <5>2 DEF Smallest
          <6> QED BY <3>2, <3>3, <6>1
        <5> QED BY <5>1, <5>2
      <4> QED BY <4>2 DEF Smallest
    <3>4. CASE ~(f[k] < f[i])
      <4>1. Smallest(f, k, i) BY <3>1, <3>2, <3>4 DEF Smallest
      <4> QED BY <4>1
    <3> QED BY <3>3, <3>4
  <2> QED BY <2>1, <2>2
<1> HIDE DEF T
<1>3. n \in Nat /\ n # 0 OBVIOUS
<1>4. \A k \in 1 .. n : k - 1 \in T => k \in T BY <1>2
<1>5. \A k \in 0 .. n : k \in T
  <2>1. n \in Nat BY <1>3
  <2> QED BY <1>1, <1>4, <2>1, UpTo, Zenon
<1>6. n \in T BY <1>3, <1>5
<1> QED BY <1>3, <1>6 DEF T

LEMMA ExtremesThere ==
  ASSUME NEW n \in Nat \ {0}, NEW f \in [1 .. n -> Int], NEW Q, Q = {f[i] : i \in 1 .. n}
  PROVE  Least3(Q) \in Q /\ Most3(Q) \in Q /\ Q \subseteq Int
<1>1. PICK i : Smallest(f, n, i) BY FirstSmallest
<1>2. f[i] \in Q /\ \A b \in Q : f[i] <= b BY <1>1 DEF Smallest
<1> DEFINE g == [j \in 1 .. n |-> -f[j]]
<1>3. g \in [1 .. n -> Int] OBVIOUS
<1>4. PICK k : Smallest(g, n, k)
  <2> HIDE DEF g
  <2> QED BY <1>3, FirstSmallest
<1>5. f[k] \in Q /\ \A b \in Q : b <= f[k]
  <2>1. k \in 1 .. n /\ \A j \in 1 .. n : -f[k] <= -f[j] BY <1>4 DEF Smallest
  <2>2. \A j \in 1 .. n : f[j] <= f[k] BY <2>1
  <2> QED BY <2>1, <2>2
<1> QED BY <1>2, <1>5 DEF Least3, Most3

LEMMA DistanceIs == \A c, d \in Colour : PalDist(c, d) \in Int BY DEF Colour, PalDist, Square, Value, Alpha

\* Of colours one is the nearest, the first of them.
LEMMA NearestIs ==
  ASSUME NEW colours \in Seq(Colour), colours # <<>>, NEW d \in Colour
  PROVE  Nearest(colours, d) \in 1 .. Len(colours)
<1> DEFINE n == Len(colours)
           f == [i \in 1 .. n |-> PalDist(colours[i], d)]
<1>1. n \in Nat \ {0} /\ f \in [1 .. n -> Int] /\ DOMAIN colours = 1 .. n BY DistanceIs
<1>2. PICK i : Smallest(f, n, i)
  <2> HIDE DEF f, n
  <2> QED BY <1>1, FirstSmallest
<1>3. i \in DOMAIN colours /\ \A j \in DOMAIN colours :
        PalDist(colours[i], d) < PalDist(colours[j], d) \/ (PalDist(colours[i], d) = PalDist(colours[j], d) /\ i <= j)
  BY <1>1, <1>2 DEF Smallest
<1> HIDE DEF n, f
<1> QED BY <1>1, <1>3, Zenon DEF Nearest, n

(* Scaling *)

\* row y, column x
LEMMA Inside ==
  ASSUME NEW w \in Nat \ {0}, NEW h \in Nat \ {0}, NEW x \in 0 .. w - 1, NEW y \in 0 .. h - 1
  PROVE  y * w + x \in 0 .. w * h - 1
<1>1. y * w <= (h - 1) * w /\ y * w \in Nat /\ w * h \in Nat BY SMTT(30)
<1>2. (h - 1) * w = w * h - w BY SMTT(30)
<1> QED BY <1>1, <1>2

LEMMA RowColumn ==
  ASSUME NEW w \in Nat \ {0}, NEW h \in Nat \ {0}, NEW k \in 0 .. w * h - 1
  PROVE  k % w \in 0 .. w - 1 /\ k \div w \in 0 .. h - 1
<1>1. k \in Nat /\ w * h \in Nat BY SMTT(30)
<1>2. k = w * (k \div w) + (k % w) /\ k % w \in 0 .. w - 1 /\ k \div w \in Nat BY <1>1, SMTT(30)
<1> DEFINE q == k \div w
<1>3. w * q < w * h BY <1>1, <1>2
<1>4. q < h
  <2> SUFFICES ASSUME h <= q PROVE FALSE BY <1>2
  <2>1. w * h <= w * q BY <1>2, SMTT(30)
  <2> QED BY <1>1, <1>2, <1>3, <2>1
<1> QED BY <1>2, <1>4

\* w x h pixels, each one of p
Picked(p, w, h, spot) == [w |-> w, h |-> h, px |-> [i \in 1 .. w * h |-> p.px[spot[<<(i - 1) % w, (i - 1) \div w>>] + 1]]]

LEMMA PickedIs ==
  ASSUME NEW p, IsPicture(p), NEW w \in Nat \ {0}, NEW h \in Nat \ {0},
         NEW spot \in [(0 .. w - 1) \X (0 .. h - 1) -> 0 .. p.w * p.h - 1]
  PROVE  IsPicture(Picked(p, w, h, spot))
<1> DEFINE q == Picked(p, w, h, spot)
<1>1. q.w = w /\ q.h = h /\ q.px = [i \in 1 .. w * h |-> p.px[spot[<<(i - 1) % w, (i - 1) \div w>>] + 1]] BY DEF Picked
<1>2. w * h \in Nat /\ p.w * p.h \in Nat BY SMTT(30) DEF IsPicture
<1>3. ASSUME NEW i \in 1 .. w * h PROVE q.px[i] \in Colour
  <2>1. i - 1 \in 0 .. w * h - 1 BY <1>2
  <2>2. (i - 1) % w \in 0 .. w - 1 /\ (i - 1) \div w \in 0 .. h - 1 BY <2>1, RowColumn
  <2>3. spot[<<(i - 1) % w, (i - 1) \div w>>] \in 0 .. p.w * p.h - 1 BY <2>2
  <2>4. spot[<<(i - 1) % w, (i - 1) \div w>>] + 1 \in 1 .. Len(p.px) BY <1>2, <2>3 DEF IsPicture
  <2> DEFINE k == spot[<<(i - 1) % w, (i - 1) \div w>>] + 1
  <2>5. q.px[i] = p.px[k] BY <1>1
  <2>6. p.px \in Seq(Colour) /\ k \in 1 .. Len(p.px) BY <2>4 DEF IsPicture
  <2> HIDE DEF k, q
  <2>7. p.px[k] \in Colour BY <2>6
  <2> QED BY <2>5, <2>7
<1> HIDE DEF q
<1>4. q.px \in [1 .. w * h -> Colour] BY <1>1, <1>3
<1>5. q.px \in Seq(Colour) /\ Len(q.px) = w * h
  <2> DEFINE n == w * h
  <2>1. n \in Nat /\ q.px \in [1 .. n -> Colour] BY <1>2, <1>4
  <2> HIDE DEF n
  <2>2. q.px \in Seq(Colour) /\ Len(q.px) = n BY <2>1, SequenceIs
  <2> QED BY <2>2 DEF n
<1>6. IsPicture(q) BY <1>1, <1>5 DEF IsPicture
<1> QED BY <1>6 DEF q

\* A picture is doubled.
LEMMA UpscaleIs ==
  ASSUME NEW p, IsPicture(p)
  PROVE  /\ Upscale(p, 1) = p
         /\ IsPicture(Upscale(p, 2))
<1>1. Upscale(p, 1) = p BY DEF Upscale, Scale2
<1> DEFINE W == p.w * 2
           H == p.h * 2
           spot == [x \in (0 .. W - 1) \X (0 .. H - 1) |-> (x[2] \div 2) * p.w + x[1] \div 2]
<1>2. p.w \in Nat \ {0} /\ p.h \in Nat \ {0} /\ W \in Nat \ {0} /\ H \in Nat \ {0} BY DEF IsPicture
<1>3. ASSUME NEW x \in 0 .. W - 1, NEW y \in 0 .. H - 1 PROVE (y \div 2) * p.w + x \div 2 \in 0 .. p.w * p.h - 1
  <2>1. x \div 2 \in 0 .. p.w - 1 /\ y \div 2 \in 0 .. p.h - 1 BY <1>2
  <2> QED BY <1>2, <2>1, Inside
<1>4. spot \in [(0 .. W - 1) \X (0 .. H - 1) -> 0 .. p.w * p.h - 1]
  <2>1. \A x \in (0 .. W - 1) \X (0 .. H - 1) : (x[2] \div 2) * p.w + x[1] \div 2 \in 0 .. p.w * p.h - 1 BY <1>3
  <2> QED BY <2>1
<1>5. Upscale(p, 2) = [w |-> W, h |-> H, px |-> [i \in 1 .. W * H |-> p.px[((((i - 1) \div W) \div 2) * p.w + ((i - 1) % W) \div 2) + 1]]]
  BY DEF Upscale, Scale2
<1>6. ASSUME NEW i \in 1 .. W * H
      PROVE  spot[<<(i - 1) % W, (i - 1) \div W>>] = (((i - 1) \div W) \div 2) * p.w + ((i - 1) % W) \div 2
  <2>1. W * H \in Nat BY <1>2, SMTT(30)
  <2>2. i - 1 \in 0 .. W * H - 1
    <3> DEFINE n == W * H
    <3>1. n \in Nat /\ i \in 1 .. n BY <2>1
    <3> HIDE DEF n
    <3>2. i - 1 \in 0 .. n - 1 BY <3>1
    <3> QED BY <3>2 DEF n
  <2>3. (i - 1) % W \in 0 .. W - 1 /\ (i - 1) \div W \in 0 .. H - 1
    <3> HIDE DEF W, H
    <3> QED BY <1>2, <2>2, RowColumn
  <2> QED BY <2>3
<1>7. Upscale(p, 2) = Picked(p, W, H, spot)
  <2> HIDE DEF W, H, spot
  <2> QED BY <1>5, <1>6 DEF Picked
<1>8. IsPicture(Upscale(p, 2))
  <2> HIDE DEF W, H, spot
  <2>1. IsPicture(Picked(p, W, H, spot))
    <3>1. W \in Nat \ {0} /\ H \in Nat \ {0} BY <1>2
    <3> QED BY <1>4, <3>1, PickedIs, Zenon
  <2> QED BY <1>7, <2>1
<1> QED BY <1>1, <1>2, <1>8

\* A picture is halved, unless nothing would be left.
LEMMA DownscaleIs ==
  ASSUME NEW p, IsPicture(p)
  PROVE  /\ Downscale(p, 1) = p
         /\ IsPicture(Downscale(p, 2))
<1>1. Downscale(p, 1) = p BY DEF Downscale, Scale2
<1> DEFINE W == p.w \div 2
           H == p.h \div 2
           spot == [x \in (0 .. W - 1) \X (0 .. H - 1) |-> (x[2] * 2) * p.w + x[1] * 2]
<1>2. p.w \in Nat \ {0} /\ p.h \in Nat \ {0} /\ W \in Nat /\ H \in Nat BY DEF IsPicture
<1>3. CASE W = 0 \/ H = 0 BY <1>1, <1>3 DEF Downscale
<1>4. CASE W # 0 /\ H # 0
  <2>1. W \in Nat \ {0} /\ H \in Nat \ {0} BY <1>2, <1>4
  <2>3. ASSUME NEW x \in 0 .. W - 1, NEW y \in 0 .. H - 1 PROVE (y * 2) * p.w + x * 2 \in 0 .. p.w * p.h - 1
    <3>1. x * 2 \in 0 .. p.w - 1 /\ y * 2 \in 0 .. p.h - 1 BY <1>2
    <3> QED BY <1>2, <3>1, Inside
  <2>4. spot \in [(0 .. W - 1) \X (0 .. H - 1) -> 0 .. p.w * p.h - 1]
    <3>1. \A x \in (0 .. W - 1) \X (0 .. H - 1) : (x[2] * 2) * p.w + x[1] * 2 \in 0 .. p.w * p.h - 1 BY <2>3
    <3> QED BY <3>1
  <2>5. Downscale(p, 2) = [w |-> W, h |-> H, px |-> [i \in 1 .. W * H |-> p.px[((((i - 1) \div W) * 2) * p.w + ((i - 1) % W) * 2) + 1]]]
    BY <1>4 DEF Downscale, Scale2
  <2>6. ASSUME NEW i \in 1 .. W * H
        PROVE  spot[<<(i - 1) % W, (i - 1) \div W>>] = (((i - 1) \div W) * 2) * p.w + ((i - 1) % W) * 2
    <3> HIDE DEF W, H
    <3>1. W * H \in Nat BY <2>1, SMTT(30)
    <3>2. i - 1 \in 0 .. W * H - 1
      <4> DEFINE n == W * H
      <4>1. n \in Nat /\ i \in 1 .. n BY <3>1
      <4> HIDE DEF n
      <4>2. i - 1 \in 0 .. n - 1 BY <4>1
      <4> QED BY <4>2 DEF n
    <3>3. (i - 1) % W \in 0 .. W - 1 /\ (i - 1) \div W \in 0 .. H - 1 BY <2>1, <3>2, RowColumn
    <3> QED BY <3>3
  <2>7. Downscale(p, 2) = Picked(p, W, H, spot)
    <3> HIDE DEF W, H, spot
    <3> QED BY <2>5, <2>6 DEF Picked
  <2>8. IsPicture(Downscale(p, 2))
    <3> HIDE DEF W, H, spot
    <3>1. IsPicture(Picked(p, W, H, spot)) BY <2>1, <2>4, PickedIs, Zenon
    <3> QED BY <2>7, <3>1
  <2> QED BY <1>1, <2>8
<1> QED BY <1>1, <1>3, <1>4

\* by how much a picture is enlarged, and by how much it is reduced
Factors == {<<1, 1>>, <<2, 1>>, <<1, 2>>}

\* What is scaled is a picture.
LEMMA RescaleIs ==
  ASSUME NEW p, IsPicture(p), NEW f \in Factors
  PROVE  IsPicture(Rescale(p, f[1], f[2]))
<1>1. /\ Rescale(p, 1, 1) = p
      /\ Rescale(p, 2, 1) = Upscale(p, 2)
      /\ Rescale(p, 1, 2) = Downscale(p, 2)
  <2>1. IsPicture(Upscale(p, 2)) BY UpscaleIs
  <2>2. Downscale(Upscale(p, 2), 1) = Upscale(p, 2) BY <2>1, DownscaleIs
  <2> QED BY <2>2, UpscaleIs, DownscaleIs DEF Rescale
<1> QED BY <1>1, UpscaleIs, DownscaleIs DEF Factors

(* Quantisation *)

\* A function that is computed from one number to the next, and stays in a set.
LEMMA Computes ==
  ASSUME NEW N \in Nat, NEW D, NEW init \in D, NEW step \in [(1 .. N) \X D -> D],
         NEW F, DOMAIN F = 0 .. N, F = [k \in 0 .. N |-> F[k]], F[0] = init,
         \A k \in 1 .. N : F[k - 1] \in D => F[k] = step[<<k, F[k - 1]>>]
  PROVE  Stepwise(F, N, D, init, step)
<1> DEFINE T == {k \in 0 .. N : F[k] \in D}
<1>1. 0 \in T OBVIOUS
<1>2. ASSUME NEW k \in 1 .. N, k - 1 \in T PROVE k \in T
  <2>1. F[k - 1] \in D /\ F[k] = step[<<k, F[k - 1]>>] BY <1>2
  <2>2. step[<<k, F[k - 1]>>] \in D BY <2>1
  <2> QED BY <2>1, <2>2
<1> HIDE DEF T
<1>3. \A k \in 0 .. N : k \in T BY <1>1, <1>2, UpTo, Zenon
<1>4. \A k \in 0 .. N : F[k] \in D BY <1>3 DEF T
<1>5. F \in [0 .. N -> D] BY <1>4
<1>6. \A k \in 1 .. N : F[k - 1] \in D BY <1>4
<1> QED BY <1>5, <1>6 DEF Stepwise

LEMMA SamplesAre == ASSUME NEW p, IsPicture(p) PROVE Samples(p) \in Seq(Colour)
<1> DEFINE N == p.w * p.h
           D == Seq(Colour)
           init == <<>>
           stride == (p.w * p.h) \div MaxSamples + 1
           E(k, v) == IF (k - 1) % stride = 0 /\ Seen(p.px[k]) THEN Append(v, p.px[k]) ELSE v
           step == [x \in (1 .. N) \X D |-> E(x[1], x[2])]
           F == CHOOSE h : h = [k \in 0 .. N |-> IF k = 0 THEN init ELSE E(k, h[k - 1])]
<1>1. N \in Nat /\ init \in D
  <2>1. p.w * p.h \in Nat BY SMTT(30) DEF IsPicture
  <2> QED BY <2>1
<1>2. ASSUME NEW k \in 1 .. N, NEW v \in D PROVE E(k, v) \in D
  <2>1. p.px[k] \in Colour BY <1>1 DEF IsPicture
  <2> HIDE DEF N
  <2> QED BY <2>1
<1>3. step \in [(1 .. N) \X D -> D]
  <2> HIDE DEF N, D, E
  <2>1. \A x \in (1 .. N) \X D : E(x[1], x[2]) \in D BY <1>2
  <2> QED BY <2>1
<1>4. PICK g : Stepwise(g, N, D, init, step)
  <2> HIDE DEF N, D, init, step
  <2> QED BY <1>1, <1>3, StepByStep
<1>5. F = [k \in 0 .. N |-> IF k = 0 THEN init ELSE E(k, F[k - 1])]
  <2> HIDE DEF N, D, init, E
  <2>1. g = [k \in 0 .. N |-> IF k = 0 THEN init ELSE E(k, g[k - 1])]
    <3>1. g \in [0 .. N -> D] /\ g[0] = init /\ \A k \in 1 .. N : g[k] = step[<<k, g[k - 1]>>] BY <1>4 DEF Stepwise
    <3>2. \A k \in 0 .. N : k # 0 => k \in 1 .. N /\ k - 1 \in 0 .. N BY <1>1
    <3>3. \A k \in 0 .. N : g[k] = IF k = 0 THEN init ELSE E(k, g[k - 1]) BY <3>1, <3>2
    <3> QED BY <3>1, <3>3
  <2> QED BY <2>1
<1>6. Stepwise(F, N, D, init, step)
  <2> HIDE DEF N, D, init, E, F
  <2>1. 0 \in 0 .. N /\ \A k \in 1 .. N : k \in 0 .. N /\ k # 0 BY <1>1
  <2>2. DOMAIN F = 0 .. N /\ F = [k \in 0 .. N |-> F[k]] /\ F[0] = init BY <1>5, <2>1
  <2>3. \A k \in 1 .. N : F[k - 1] \in D => F[k] = step[<<k, F[k - 1]>>] BY <1>5, <2>1
  <2> HIDE DEF step
  <2> QED BY <1>1, <1>3, <2>2, <2>3, Computes
<1>7. Samples(p) = F[N] BY DEF Samples
<1>8. F[N] \in D
  <2> HIDE DEF N, D, F, step, init
  <2> QED BY <1>1, <1>6 DEF Stepwise
<1> QED BY <1>7, <1>8

LEMMA MeanIs ==
  ASSUME NEW box \in Seq(Colour), box # <<>>, NEW channel \in {1, 2}
  PROVE  Mean(box, channel) \in Int
<1> DEFINE N == Len(box)
           D == Int
           init == 0
           E(k, v) == v + box[k][channel]
           step == [x \in (1 .. N) \X D |-> E(x[1], x[2])]
           F == CHOOSE h : h = [k \in 0 .. N |-> IF k = 0 THEN init ELSE E(k, h[k - 1])]
<1>1. N \in Nat /\ init \in D OBVIOUS
<1>2. ASSUME NEW k \in 1 .. N, NEW v \in D PROVE E(k, v) \in D
  <2>1. box[k] \in Colour OBVIOUS
  <2>2. box[k][channel] \in Int BY <2>1 DEF Colour
  <2> QED BY <2>2
<1>3. step \in [(1 .. N) \X D -> D]
  <2> HIDE DEF N, D, E
  <2>1. \A x \in (1 .. N) \X D : E(x[1], x[2]) \in D BY <1>2
  <2> QED BY <2>1
<1>4. PICK g : Stepwise(g, N, D, init, step)
  <2> HIDE DEF N, D, init, step
  <2> QED BY <1>1, <1>3, StepByStep
<1>5. F = [k \in 0 .. N |-> IF k = 0 THEN init ELSE E(k, F[k - 1])]
  <2> HIDE DEF N, D, init, E
  <2>1. g = [k \in 0 .. N |-> IF k = 0 THEN init ELSE E(k, g[k - 1])]
    <3>1. g \in [0 .. N -> D] /\ g[0] = init /\ \A k \in 1 .. N : g[k] = step[<<k, g[k - 1]>>] BY <1>4 DEF Stepwise
    <3>2. \A k \in 0 .. N : k # 0 => k \in 1 .. N /\ k - 1 \in 0 .. N BY <1>1
    <3>3. \A k \in 0 .. N : g[k] = IF k = 0 THEN init ELSE E(k, g[k - 1]) BY <3>1, <3>2
    <3> QED BY <3>1, <3>3
  <2> QED BY <2>1
<1>6. Stepwise(F, N, D, init, step)
  <2> HIDE DEF N, D, init, E, F
  <2>1. 0 \in 0 .. N /\ \A k \in 1 .. N : k \in 0 .. N /\ k # 0 BY <1>1
  <2>2. DOMAIN F = 0 .. N /\ F = [k \in 0 .. N |-> F[k]] /\ F[0] = init BY <1>5, <2>1
  <2>3. \A k \in 1 .. N : F[k - 1] \in D => F[k] = step[<<k, F[k - 1]>>] BY <1>5, <2>1
  <2> HIDE DEF step
  <2> QED BY <1>1, <1>3, <2>2, <2>3, Computes
<1>7. Mean(box, channel) = (F[N] + N \div 2) \div N BY DEF Mean
<1>8. F[N] \in D
  <2> HIDE DEF N, D, F, step, init
  <2> QED BY <1>1, <1>6 DEF Stepwise
<1>9. N \in Nat \ {0} OBVIOUS
<1> HIDE DEF N, F
<1>10. \A a \in Int : a \div N \in Int BY <1>9, SMT
<1>11. F[N] + N \div 2 \in Int BY <1>8, <1>9
<1> QED BY <1>7, <1>10, <1>11

LEMMA InsertedIs ==
  ASSUME NEW s \in Seq(Colour), NEW c \in Colour, NEW byAlpha
  PROVE  Inserted(s, c, byAlpha) \in Seq(Colour) /\ Len(Inserted(s, c, byAlpha)) = Len(s) + 1
<1> DEFINE Q == {i \in DOMAIN s : ~Before(c, s[i], byAlpha)}
           n == Cardinality(Q)
           m == Len(s)
<1>1. m \in Nat /\ DOMAIN s = 1 .. m OBVIOUS
<1>2. IsFiniteSet(1 .. m) /\ Cardinality(1 .. m) = m BY <1>1, FS_Interval
<1>3. Q \subseteq 1 .. m BY <1>1
<1>4. n \in 0 .. m
  <2> HIDE DEF m, Q
  <2>1. IsFiniteSet(Q) /\ Cardinality(Q) <= Cardinality(1 .. m) BY <1>2, <1>3, FS_Subset
  <2>2. n \in Nat BY <2>1, FS_CardinalityType
  <2> QED BY <1>1, <1>2, <2>1, <2>2
<1> HIDE DEF n, Q
<1>5. SubSeq(s, 1, n) \in Seq(Colour) /\ Len(SubSeq(s, 1, n)) = n BY <1>4, SubSeqProperties
<1>6. SubSeq(s, n + 1, m) \in Seq(Colour) /\ Len(SubSeq(s, n + 1, m)) = m - n BY <1>4, SubSeqProperties
<1>7. <<c>> \in Seq(Colour) /\ Len(<<c>>) = 1 OBVIOUS
<1>8. Inserted(s, c, byAlpha) = SubSeq(s, 1, n) \o <<c>> \o SubSeq(s, n + 1, m) BY DEF Inserted, n, Q
<1> DEFINE a == SubSeq(s, 1, n)
           b == SubSeq(s, n + 1, m)
<1> HIDE DEF m
<1>9. a \in Seq(Colour) /\ b \in Seq(Colour) /\ Len(a) = n /\ Len(b) = m - n BY <1>5, <1>6
<1> HIDE DEF a, b
<1>10. a \o <<c>> \in Seq(Colour) /\ Len(a \o <<c>>) = n + 1 BY <1>4, <1>7, <1>9, ConcatProperties
<1>11. (a \o <<c>>) \o b \in Seq(Colour) /\ Len((a \o <<c>>) \o b) = n + 1 + (m - n)
  <2> DEFINE u == a \o <<c>>
  <2>1. u \in Seq(Colour) /\ Len(u) = n + 1 BY <1>10
  <2> HIDE DEF u
  <2>2. u \o b \in Seq(Colour) /\ Len(u \o b) = Len(u) + Len(b) BY <1>9, <2>1, ConcatProperties
  <2>3. u \o b \in Seq(Colour) /\ Len(u \o b) = n + 1 + (m - n) BY <1>9, <2>1, <2>2
  <2> QED BY <2>3 DEF u
<1>12. n + 1 + (m - n) = m + 1 BY <1>1, <1>4
<1>13. Inserted(s, c, byAlpha) = (a \o <<c>>) \o b BY <1>8 DEF a, b
<1> QED BY <1>11, <1>12, <1>13 DEF m

LEMMA OrderedIs ==
  ASSUME NEW box \in Seq(Colour), NEW byAlpha
  PROVE  Ordered(box, byAlpha) \in Seq(Colour) /\ Len(Ordered(box, byAlpha)) = Len(box)
<1> DEFINE N == Len(box)
           D == Seq(Colour)
           init == <<>>
           E(k, v) == Inserted(v, box[k], byAlpha)
           step == [x \in (1 .. N) \X D |-> E(x[1], x[2])]
           F == CHOOSE h : h = [k \in 0 .. N |-> IF k = 0 THEN init ELSE E(k, h[k - 1])]
<1>1. N \in Nat /\ init \in D OBVIOUS
<1>2. ASSUME NEW k \in 1 .. N, NEW v \in D PROVE E(k, v) \in D
  <2>1. box[k] \in Colour OBVIOUS
  <2> QED BY <2>1, InsertedIs
<1>3. step \in [(1 .. N) \X D -> D]
  <2> HIDE DEF N, D, E
  <2>1. \A x \in (1 .. N) \X D : E(x[1], x[2]) \in D BY <1>2
  <2> QED BY <2>1
<1>4. PICK g : Stepwise(g, N, D, init, step)
  <2> HIDE DEF N, D, init, step
  <2> QED BY <1>1, <1>3, StepByStep
<1>5. F = [k \in 0 .. N |-> IF k = 0 THEN init ELSE E(k, F[k - 1])]
  <2> HIDE DEF N, D, init, E
  <2>1. g = [k \in 0 .. N |-> IF k = 0 THEN init ELSE E(k, g[k - 1])]
    <3>1. g \in [0 .. N -> D] /\ g[0] = init /\ \A k \in 1 .. N : g[k] = step[<<k, g[k - 1]>>] BY <1>4 DEF Stepwise
    <3>2. \A k \in 0 .. N : k # 0 => k \in 1 .. N /\ k - 1 \in 0 .. N BY <1>1
    <3>3. \A k \in 0 .. N : g[k] = IF k = 0 THEN init ELSE E(k, g[k - 1]) BY <3>1, <3>2
    <3> QED BY <3>1, <3>3
  <2> QED BY <2>1
<1>6. Stepwise(F, N, D, init, step)
  <2> HIDE DEF N, D, init, E, F
  <2>1. 0 \in 0 .. N /\ \A k \in 1 .. N : k \in 0 .. N /\ k # 0 BY <1>1
  <2>2. DOMAIN F = 0 .. N /\ F = [k \in 0 .. N |-> F[k]] /\ F[0] = init BY <1>5, <2>1
  <2>3. \A k \in 1 .. N : F[k - 1] \in D => F[k] = step[<<k, F[k - 1]>>] BY <1>5, <2>1
  <2> HIDE DEF step
  <2> QED BY <1>1, <1>3, <2>2, <2>3, Computes
<1>7. Ordered(box, byAlpha) = F[N] BY DEF Ordered
<1>8. F \in [0 .. N -> D] /\ F[0] = init /\ \A k \in 1 .. N : F[k] = E(k, F[k - 1])
  <2> HIDE DEF N, D, F, init, E
  <2>1. \A k \in 1 .. N : k - 1 \in 0 .. N BY <1>1
  <2> QED BY <1>1, <1>6, <2>1 DEF Stepwise
<1> DEFINE T == {k \in 0 .. N : Len(F[k]) = k}
<1>9. 0 \in T BY <1>1, <1>8
<1>10. \A k \in 1 .. N : k - 1 \in T => k \in T
  <2> SUFFICES ASSUME NEW k \in 1 .. N, k - 1 \in T PROVE k \in T OBVIOUS
  <2>1. box[k] \in Colour OBVIOUS
  <2> HIDE DEF F, N
  <2>2. F[k - 1] \in Seq(Colour) /\ Len(F[k - 1]) = k - 1 BY <1>8
  <2>3. Len(F[k]) = (k - 1) + 1 BY <1>8, <2>1, <2>2, InsertedIs
  <2> QED BY <2>3
<1> HIDE DEF T
<1>11. \A k \in 0 .. N : k \in T BY <1>1, <1>9, <1>10, UpTo, Zenon
<1>12. Len(F[N]) = N BY <1>1, <1>11 DEF T
<1>13. F[N] \in D
  <2> HIDE DEF F, N, D
  <2> QED BY <1>1, <1>8
<1> QED BY <1>7, <1>12, <1>13

LEMMA SpreadIs ==
  ASSUME NEW box \in Seq(Colour), NEW channel \in {1, 2}
  PROVE  Spread(box, channel) \in Int /\ (Len(box) < 2 => Spread(box, channel) = 0)
<1> DEFINE n == Len(box)
           f == [i \in 1 .. n |-> box[i][channel]]
<1>1. n \in Nat /\ DOMAIN box = 1 .. n OBVIOUS
<1>2. \A i \in 1 .. n : box[i] \in Colour BY <1>1
<1>3. f \in [1 .. n -> Int] BY <1>2 DEF Colour
<1>4. Parts(box, channel) = {f[i] : i \in 1 .. n} BY <1>1 DEF Parts
<1>5. CASE n < 2 BY <1>5 DEF Spread
<1>6. CASE ~(n < 2)
  <2>1. n \in Nat \ {0} BY <1>1, <1>6
  <2> HIDE DEF n, f
  <2>2. /\ Least3(Parts(box, channel)) \in Parts(box, channel) /\ Most3(Parts(box, channel)) \in Parts(box, channel)
        /\ Parts(box, channel) \subseteq Int
    BY <1>3, <1>4, <2>1, ExtremesThere, Zenon
  <2>3. Least3(Parts(box, channel)) \in Int /\ Most3(Parts(box, channel)) \in Int BY <2>2
  <2>4. Spread(box, channel) = Most3(Parts(box, channel)) - Least3(Parts(box, channel)) BY <1>6 DEF Spread, n
  <2> QED BY <1>6, <2>3, <2>4 DEF n
<1> QED BY <1>5, <1>6

LEMMA ScoreIs ==
  ASSUME NEW box \in Seq(Colour)
  PROVE  Score(box) \in Int /\ (Len(box) < 2 => Score(box) = 0)
<1>1. ASSUME NEW a \in Int, NEW b \in Int PROVE Most3({a, b}) \in {a, b} BY DEF Most3
<1> DEFINE a == Spread(box, 2)
           b == 2 * Spread(box, 1)
<1>2. a \in Int /\ b \in Int /\ (Len(box) < 2 => a = 0 /\ b = 0) BY SpreadIs
<1>3. Score(box) = Most3({a, b}) BY DEF Score
<1> HIDE DEF a, b
<1>4. Score(box) \in {a, b} BY <1>1, <1>2, <1>3
<1> QED BY <1>2, <1>4

\* boxes with something in each
Boxes == {b \in Seq(Seq(Colour)) : b # <<>> /\ \A i \in DOMAIN b : b[i] # <<>>}

LEMMA HalvedIs ==
  ASSUME NEW boxes \in Boxes, NEW spot \in DOMAIN boxes, NEW box \in Seq(Colour), Len(box) >= 2
  PROVE  Halved(boxes, spot, box) \in Boxes
<1> DEFINE m == Len(boxes)
           n == Len(box)
           half == n \div 2
           h == Halved(boxes, spot, box)
<1>1. m \in Nat \ {0} /\ DOMAIN boxes = 1 .. m /\ boxes \in Seq(Seq(Colour)) BY DEF Boxes
<1>2. n \in Nat /\ n >= 2 OBVIOUS
<1>3. half \in 1 .. n - 1 BY <1>2
<1> HIDE DEF half
<1>4. SubSeq(box, 1, half) \in Seq(Colour) /\ Len(SubSeq(box, 1, half)) = half BY <1>2, <1>3, SubSeqProperties
<1>5. SubSeq(box, half + 1, n) \in Seq(Colour) /\ Len(SubSeq(box, half + 1, n)) = n - half BY <1>2, <1>3, SubSeqProperties
<1>6. h = [i \in 1 .. m + 1 |-> CASE i = spot -> SubSeq(box, 1, half)
                                  [] i = m + 1 -> SubSeq(box, half + 1, n)
                                  [] OTHER -> boxes[i]]
  BY DEF Halved, half
<1>7. \A s \in Seq(Colour) : Len(s) > 0 => s # <<>> OBVIOUS
<1>8. SubSeq(box, 1, half) # <<>> /\ SubSeq(box, half + 1, n) # <<>>
  <2> HIDE DEF n
  <2>1. half > 0 /\ n - half > 0 BY <1>2, <1>3
  <2> QED BY <1>4, <1>5, <1>7, <2>1
<1> HIDE DEF h
<1>9. ASSUME NEW i \in 1 .. m + 1 PROVE h[i] \in Seq(Colour) /\ h[i] # <<>>
  <2>1. CASE i = spot
    <3>1. spot \in 1 .. m /\ spot # m + 1 BY <1>1
    <3>2. h[i] = SubSeq(box, 1, half) BY <1>6, <2>1, <3>1
    <3> QED BY <1>4, <1>8, <3>2
  <2>2. CASE i = m + 1
    <3>1. i # spot BY <1>1, <2>2
    <3>2. h[i] = SubSeq(box, half + 1, n) BY <1>6, <2>2, <3>1
    <3> QED BY <1>5, <1>8, <3>2
  <2>3. CASE i # spot /\ i # m + 1
    <3>1. h[i] = boxes[i] BY <1>6, <2>3
    <3>2. i \in DOMAIN boxes BY <1>1, <2>3
    <3> QED BY <1>1, <3>1, <3>2 DEF Boxes
  <2> QED BY <2>1, <2>2, <2>3
<1>10. h \in [1 .. m + 1 -> Seq(Colour)]
  <2>1. DOMAIN h = 1 .. m + 1 /\ h = [i \in 1 .. m + 1 |-> h[i]] BY <1>6
  <2> QED BY <1>9, <2>1
<1>11. m + 1 \in Nat /\ m + 1 # 0 BY <1>1
<1> HIDE DEF m
<1>12. h \in Seq(Seq(Colour)) /\ Len(h) = m + 1 /\ DOMAIN h = 1 .. m + 1 BY <1>10, <1>11, SequenceIs, Zenon
<1>13. h # <<>> BY <1>11, <1>12
<1>14. h \in Boxes BY <1>9, <1>12, <1>13 DEF Boxes
<1> QED BY <1>14 DEF h

LEMMA CutIs == ASSUME NEW boxes \in Boxes PROVE Cut(boxes) \in Boxes
<1> DEFINE m == Len(boxes)
           scores == [i \in DOMAIN boxes |-> Score(boxes[i])]
           g == [i \in 1 .. m |-> -scores[i]]
           pick == CHOOSE i \in DOMAIN scores : \A j \in DOMAIN scores :
                            scores[j] < scores[i] \/ (scores[j] = scores[i] /\ i <= j)
<1>1. m \in Nat \ {0} /\ DOMAIN boxes = 1 .. m /\ \A i \in 1 .. m : boxes[i] \in Seq(Colour) BY DEF Boxes
<1>2. \A i \in 1 .. m : scores[i] \in Int BY <1>1, ScoreIs
<1>3. g \in [1 .. m -> Int] /\ DOMAIN scores = 1 .. m BY <1>1, <1>2
<1>4. PICK k : Smallest(g, m, k)
  <2> HIDE DEF g, m
  <2> QED BY <1>1, <1>3, FirstSmallest
<1>5. k \in 1 .. m /\ \A j \in 1 .. m : g[k] < g[j] \/ (g[k] = g[j] /\ k <= j)
  <2> HIDE DEF g
  <2> QED BY <1>4 DEF Smallest
<1>6. \A j \in DOMAIN scores : scores[j] < scores[k] \/ (scores[j] = scores[k] /\ k <= j)
  <2>1. \A j \in 1 .. m : g[j] = -scores[j] OBVIOUS
  <2> HIDE DEF scores, g, m
  <2> QED BY <1>2, <1>3, <1>5, <2>1
<1>7. pick \in DOMAIN boxes
  <2>1. pick \in DOMAIN scores
    <3> HIDE DEF scores
    <3> QED BY <1>3, <1>5, <1>6
  <2> QED BY <2>1
<1>8. Cut(boxes) = IF Score(boxes[pick]) = 0 THEN boxes
                   ELSE Halved(boxes, pick, Ordered(boxes[pick], 2 * Spread(boxes[pick], 1) > Spread(boxes[pick], 2)))
  BY DEF Cut
<1> DEFINE byAlpha == 2 * Spread(boxes[pick], 1) > Spread(boxes[pick], 2)
<1> HIDE DEF pick, m, scores, g
<1>9. boxes[pick] \in Seq(Colour) BY <1>1, <1>7
<1>10. CASE Score(boxes[pick]) = 0 BY <1>8, <1>10
<1>11. CASE Score(boxes[pick]) # 0
  <2>1. ~(Len(boxes[pick]) < 2) BY <1>9, <1>11, ScoreIs
  <2>2. Cut(boxes) = Halved(boxes, pick, Ordered(boxes[pick], byAlpha)) BY <1>8, <1>11
  <2> HIDE DEF byAlpha
  <2>3. Ordered(boxes[pick], byAlpha) \in Seq(Colour) /\ Len(Ordered(boxes[pick], byAlpha)) = Len(boxes[pick]) BY <1>9, OrderedIs
  <2>4. Len(Ordered(boxes[pick], byAlpha)) >= 2
    <3>1. Len(boxes[pick]) \in Nat BY <1>9
    <3> QED BY <2>1, <2>3, <3>1
  <2> QED BY <1>7, <2>2, <2>3, <2>4, HalvedIs
<1> QED BY <1>10, <1>11

LEMMA CutsAre ==
  ASSUME NEW samples \in Seq(Colour), NEW n \in Nat \ {0}, samples # <<>>
  PROVE  \E b \in Boxes : MedianCut(samples, n) = [i \in DOMAIN b |-> <<Mean(b[i], 1), Mean(b[i], 2)>>]
<1> DEFINE N == n - 1
           D == Boxes
           init == <<samples>>
           E(k, v) == Cut(v)
           step == [x \in (1 .. N) \X D |-> E(x[1], x[2])]
           F == CHOOSE h : h = [k \in 0 .. N |-> IF k = 0 THEN init ELSE E(k, h[k - 1])]
<1>1. N \in Nat /\ init \in D BY DEF Boxes
<1>2. ASSUME NEW k \in 1 .. N, NEW v \in D PROVE E(k, v) \in D BY CutIs
<1>3. step \in [(1 .. N) \X D -> D]
  <2> HIDE DEF N, D, E
  <2>1. \A x \in (1 .. N) \X D : E(x[1], x[2]) \in D BY <1>2
  <2> QED BY <2>1
<1>4. PICK g : Stepwise(g, N, D, init, step)
  <2> HIDE DEF N, D, init, step
  <2> QED BY <1>1, <1>3, StepByStep
<1>5. F = [k \in 0 .. N |-> IF k = 0 THEN init ELSE E(k, F[k - 1])]
  <2> HIDE DEF N, D, init, E
  <2>1. g = [k \in 0 .. N |-> IF k = 0 THEN init ELSE E(k, g[k - 1])]
    <3>1. g \in [0 .. N -> D] /\ g[0] = init /\ \A k \in 1 .. N : g[k] = step[<<k, g[k - 1]>>] BY <1>4 DEF Stepwise
    <3>2. \A k \in 0 .. N : k # 0 => k \in 1 .. N /\ k - 1 \in 0 .. N BY <1>1
    <3>3. \A k \in 0 .. N : g[k] = IF k = 0 THEN init ELSE E(k, g[k - 1]) BY <3>1, <3>2
    <3> QED BY <3>1, <3>3
  <2> QED BY <2>1
<1>6. Stepwise(F, N, D, init, step)
  <2> HIDE DEF N, D, init, E, F
  <2>1. 0 \in 0 .. N /\ \A k \in 1 .. N : k \in 0 .. N /\ k # 0 BY <1>1
  <2>2. DOMAIN F = 0 .. N /\ F = [k \in 0 .. N |-> F[k]] /\ F[0] = init BY <1>5, <2>1
  <2>3. \A k \in 1 .. N : F[k - 1] \in D => F[k] = step[<<k, F[k - 1]>>] BY <1>5, <2>1
  <2> HIDE DEF step
  <2> QED BY <1>1, <1>3, <2>2, <2>3, Computes
<1>7. MedianCut(samples, n) = [i \in DOMAIN F[N] |-> <<Mean(F[N][i], 1), Mean(F[N][i], 2)>>] BY DEF MedianCut
<1>8. F[N] \in D
  <2> HIDE DEF N, D, F, step, init
  <2> QED BY <1>1, <1>6 DEF Stepwise
<1> HIDE DEF F, N
<1> QED BY <1>7, <1>8

\* The samples are cut down to colours, unless there are none.
LEMMA MedianCutIs ==
  ASSUME NEW samples \in Seq(Colour), NEW n \in Nat \ {0}
  PROVE  MedianCut(samples, n) \in Seq(Colour) /\ (MedianCut(samples, n) = <<>> <=> samples = <<>>)
<1>0. CASE samples = <<>> BY <1>0 DEF MedianCut
<1>00. CASE samples # <<>>
  <2>1. PICK b \in Boxes : MedianCut(samples, n) = [i \in DOMAIN b |-> <<Mean(b[i], 1), Mean(b[i], 2)>>]
    BY <1>00, CutsAre
  <2>2. \A i \in DOMAIN b : b[i] \in Seq(Colour) /\ b[i] # <<>> BY DEF Boxes
  <2>3. \A i \in DOMAIN b : <<Mean(b[i], 1), Mean(b[i], 2)>> \in Colour BY <2>2, MeanIs DEF Colour
  <2> DEFINE m == Len(b)
             s == MedianCut(samples, n)
  <2>4. m \in Nat \ {0} /\ DOMAIN b = 1 .. m BY DEF Boxes
  <2>5. s \in [1 .. m -> Colour]
    <3> HIDE DEF s, m
    <3> QED BY <2>1, <2>3, <2>4 DEF s
  <2> HIDE DEF m, s
  <2>6. s \in Seq(Colour) /\ Len(s) = m BY <2>4, <2>5, SequenceIs
  <2>7. s # <<>> BY <2>4, <2>6
  <2> QED BY <1>00, <2>6, <2>7 DEF s
<1> QED BY <1>0, <1>00

(* Dithering *)

DitherStates(n) ==
  [idx : Seq(0 .. n), err : UNION {[Q -> Int] : Q \in SUBSET Int}, found : UNION {[Q -> 1 .. n] : Q \in SUBSET (Int \X Int)}]

LEMMA PartialIs ==
  ASSUME NEW A, NEW B, NEW f
  PROVE  f \in UNION {[Q -> B] : Q \in SUBSET A} <=> \E Q : Q \subseteq A /\ f \in [Q -> B]
OBVIOUS

LEMMA GivenIs ==
  ASSUME NEW p, IsPicture(p), NEW pal \in Seq(Colour), NEW n, n = Len(pal), NEW s \in DitherStates(n),
         NEW i \in Nat, NEW c \in Colour, NEW spot \in 1 .. n
  PROVE  Given(p, pal, s, i, c, spot) \in DitherStates(n) /\ Given(p, pal, s, i, c, spot).idx = Append(s.idx, spot)
<1> DEFINE idx == Append(s.idx, spot)
           err == [j \in i + 1 .. i + p.w + 1 |-> ErrorAt(s, j) + Gets(p, i, j) * (Value(c) - Value(pal[spot]))]
           key == DitherKey(c)
           found == Put(s.found, key, spot)
<1>1. /\ s.idx \in Seq(0 .. n) /\ s.err \in UNION {[Q -> Int] : Q \in SUBSET Int}
      /\ s.found \in UNION {[Q -> 1 .. n] : Q \in SUBSET (Int \X Int)}
  BY DEF DitherStates
<1>2. n \in Nat /\ p.w \in Nat BY DEF IsPicture
<1>3. idx \in Seq(0 .. n)
  <2>1. spot \in 0 .. n BY <1>2
  <2> QED BY <1>1, <2>1
<1>4. err \in UNION {[Q -> Int] : Q \in SUBSET Int}
  <2>1. PICK Q : Q \subseteq Int /\ s.err \in [Q -> Int] BY <1>1, PartialIs
  <2>2. \A j : ErrorAt(s, j) \in Int
    <3> DEFINE e == s.err
    <3>1. e \in [Q -> Int] BY <2>1
    <3>2. \A j : ErrorAt(s, j) = IF j \in DOMAIN e THEN e[j] ELSE 0 BY DEF ErrorAt
    <3> HIDE DEF e
    <3> QED BY <3>1, <3>2
  <2>3. \A j : Gets(p, i, j) \in Int BY DEF Gets
  <2>4. Value(c) \in Int /\ Value(pal[spot]) \in Int BY DEF Value, Colour
  <2>5. \A x, y, z \in Int : x + y * z \in Int OBVIOUS
  <2>6. Value(c) - Value(pal[spot]) \in Int BY <2>4
  <2> DEFINE T == i + 1 .. i + p.w + 1
             z == Value(c) - Value(pal[spot])
  <2>7. err = [j \in T |-> ErrorAt(s, j) + Gets(p, i, j) * z] OBVIOUS
  <2>8. z \in Int /\ T \subseteq Int BY <1>2, <2>6
  <2> HIDE DEF T, z, err
  <2>9. err \in [T -> Int] BY <2>2, <2>3, <2>5, <2>7, <2>8
  <2> QED BY <2>8, <2>9, PartialIs
<1>5. found \in UNION {[Q -> 1 .. n] : Q \in SUBSET (Int \X Int)}
  <2>1. PICK Q : Q \subseteq Int \X Int /\ s.found \in [Q -> 1 .. n] BY <1>1, PartialIs
  <2>2. key \in Int \X Int
    <3>1. Alpha(c) \in Int /\ Value(c) \in Int BY DEF Alpha, Value, Colour
    <3> QED BY <3>1 DEF DitherKey
  <2> DEFINE f == s.found
  <2>3. f \in [Q -> 1 .. n] /\ found = [x \in DOMAIN f \cup {key} |-> IF x = key THEN spot ELSE f[x]] BY <2>1 DEF Put
  <2> HIDE DEF key, found, f
  <2>4. found \in [Q \cup {key} -> 1 .. n] BY <2>3
  <2>5. Q \cup {key} \subseteq Int \X Int BY <2>1, <2>2
  <2> QED BY <2>4, <2>5, PartialIs
<1>6. Given(p, pal, s, i, c, spot) = [idx |-> idx, err |-> err, found |-> found] BY DEF Given
<1> HIDE DEF idx, err, found
<1>7. Given(p, pal, s, i, c, spot) \in DitherStates(n) /\ Given(p, pal, s, i, c, spot).idx = idx BY <1>3, <1>4, <1>5, <1>6 DEF DitherStates
<1> QED BY <1>7 DEF idx

LEMMA DitherPixelIs ==
  ASSUME NEW p, IsPicture(p), NEW pal \in Seq(Colour), pal # <<>>, NEW n, n = Len(pal), NEW s \in DitherStates(n),
         NEW i \in 0 .. p.w * p.h - 1
  PROVE  DitherPixel(p, pal, s, i) \in DitherStates(n)
         /\ \E spot \in 0 .. n : DitherPixel(p, pal, s, i).idx = Append(s.idx, spot)
<1> DEFINE px == p.px[i + 1]
           c == <<Alpha(px), Clamped(Value(px) + Per16(ErrorAt(s, i)))>>
           spot == IF DitherKey(c) \in DOMAIN s.found THEN s.found[DitherKey(c)] ELSE Nearest(pal, c)
<1>0. p.w * p.h \in Nat BY SMTT(30) DEF IsPicture
<1>1. px \in Colour
  <2> DEFINE m == p.w * p.h
  <2>1. m \in Nat /\ p.px \in Seq(Colour) /\ Len(p.px) = m /\ i \in 0 .. m - 1 BY <1>0 DEF IsPicture
  <2> HIDE DEF m
  <2> QED BY <2>1
<1>2. /\ s.idx \in Seq(0 .. n) /\ s.err \in UNION {[Q -> Int] : Q \in SUBSET Int}
      /\ s.found \in UNION {[Q -> 1 .. n] : Q \in SUBSET (Int \X Int)}
      /\ s = [idx |-> s.idx, err |-> s.err, found |-> s.found]
  BY DEF DitherStates
<1>3. n \in Nat /\ 0 \in 0 .. n OBVIOUS
<1>4. CASE ~Seen(px)
  <2>1. DitherPixel(p, pal, s, i) = [s EXCEPT !.idx = Append(@, 0)] BY <1>4 DEF DitherPixel
  <2>2. Append(s.idx, 0) \in Seq(0 .. n) BY <1>2, <1>3
  <2>3. [s EXCEPT !.idx = Append(@, 0)] = [idx |-> Append(s.idx, 0), err |-> s.err, found |-> s.found]
    <3>1. DOMAIN s = {"idx", "err", "found"} BY DEF DitherStates
    <3> DEFINE a == Append(s.idx, 0)
    <3>2. [s EXCEPT !.idx = Append(@, 0)] = [s EXCEPT !.idx = a] OBVIOUS
    <3> HIDE DEF a
    <3>3. [s EXCEPT !.idx = a] = [idx |-> a, err |-> s.err, found |-> s.found] BY <3>1, <1>2
    <3> QED BY <3>2, <3>3 DEF a
  <2> QED BY <1>2, <1>3, <2>1, <2>2, <2>3 DEF DitherStates
<1>5. CASE Seen(px)
  <2>1. c \in Colour
    <3>1. PICK Q : Q \subseteq Int /\ s.err \in [Q -> Int] BY <1>2, PartialIs
    <3>2. ErrorAt(s, i) \in Int BY <3>1 DEF ErrorAt
    <3>3. \A e \in Int : Per16(e) \in Int BY DEF Per16
    <3>4. \A v \in Int : Clamped(v) \in Int BY DEF Clamped
    <3>5. Alpha(px) \in Int /\ Value(px) \in Int BY <1>1 DEF Alpha, Value, Colour
    <3>6. Value(px) + Per16(ErrorAt(s, i)) \in Int BY <3>2, <3>3, <3>5
    <3>7. Clamped(Value(px) + Per16(ErrorAt(s, i))) \in Int BY <3>4, <3>6
    <3> QED BY <3>5, <3>7 DEF Colour
  <2>2. DitherPixel(p, pal, s, i) = Given(p, pal, s, i, c, spot) BY <1>5 DEF DitherPixel
  <2> HIDE DEF c
  <2>3. spot \in 1 .. n
    <3>1. PICK Q : Q \subseteq Int \X Int /\ s.found \in [Q -> 1 .. n] BY <1>2, PartialIs
    <3>2. Nearest(pal, c) \in 1 .. n BY <2>1, NearestIs
    <3> QED BY <3>1, <3>2
  <2>4. i \in Nat /\ spot \in 0 .. n BY <1>0, <1>3, <2>3
  <2> HIDE DEF spot
  <2>5. Given(p, pal, s, i, c, spot) \in DitherStates(n) /\ Given(p, pal, s, i, c, spot).idx = Append(s.idx, spot) BY <2>1, <2>3, <2>4, GivenIs
  <2> QED BY <2>2, <2>4, <2>5
<1> QED BY <1>4, <1>5

\* Every pixel has the index of a colour, or none.
LEMMA DitheredIs ==
  ASSUME NEW p, IsPicture(p), NEW pal \in Seq(Colour), pal # <<>>
  PROVE  Dithered(p, pal) \in Seq(0 .. Len(pal)) /\ Len(Dithered(p, pal)) = p.w * p.h
<1> DEFINE N == p.w * p.h
           n == Len(pal)
           D == DitherStates(n)
           init == NoneFound
           E(k, v) == DitherPixel(p, pal, v, k - 1)
           step == [x \in (1 .. N) \X D |-> E(x[1], x[2])]
           F == CHOOSE h : h = [k \in 0 .. N |-> IF k = 0 THEN init ELSE E(k, h[k - 1])]
<1>1. N \in Nat /\ init \in D
  <2>1. N \in Nat BY SMTT(30) DEF IsPicture
  <2> DEFINE e == <<>>
  <2>2. e \in [{} -> Int] /\ e \in [{} -> 1 .. n] /\ e \in Seq(0 .. n) OBVIOUS
  <2>3. {} \subseteq Int /\ {} \subseteq Int \X Int OBVIOUS
  <2> HIDE DEF e
  <2>4. e \in UNION {[Q -> Int] : Q \in SUBSET Int} /\ e \in UNION {[Q -> 1 .. n] : Q \in SUBSET (Int \X Int)} BY <2>2, <2>3, PartialIs
  <2>5. NoneFound = [idx |-> e, err |-> e, found |-> e] BY DEF NoneFound, e
  <2> QED BY <2>1, <2>2, <2>4, <2>5 DEF DitherStates
<1>2. ASSUME NEW k \in 1 .. N, NEW v \in D PROVE E(k, v) \in D
  <2>1. k - 1 \in 0 .. N - 1
    <3> HIDE DEF N
    <3> QED BY <1>1
  <2> QED BY <2>1, DitherPixelIs
<1>3. step \in [(1 .. N) \X D -> D]
  <2> HIDE DEF N, D, E
  <2>1. \A x \in (1 .. N) \X D : E(x[1], x[2]) \in D BY <1>2
  <2> QED BY <2>1
<1>4. PICK g : Stepwise(g, N, D, init, step)
  <2> HIDE DEF N, D, init, step
  <2> QED BY <1>1, <1>3, StepByStep
<1>5. F = [k \in 0 .. N |-> IF k = 0 THEN init ELSE E(k, F[k - 1])]
  <2> HIDE DEF N, D, init, E
  <2>1. g = [k \in 0 .. N |-> IF k = 0 THEN init ELSE E(k, g[k - 1])]
    <3>1. g \in [0 .. N -> D] /\ g[0] = init /\ \A k \in 1 .. N : g[k] = step[<<k, g[k - 1]>>] BY <1>4 DEF Stepwise
    <3>2. \A k \in 0 .. N : k # 0 => k \in 1 .. N /\ k - 1 \in 0 .. N BY <1>1
    <3>3. \A k \in 0 .. N : g[k] = IF k = 0 THEN init ELSE E(k, g[k - 1]) BY <3>1, <3>2
    <3> QED BY <3>1, <3>3
  <2> QED BY <2>1
<1>6. Stepwise(F, N, D, init, step)
  <2> HIDE DEF N, D, init, E, F
  <2>1. 0 \in 0 .. N /\ \A k \in 1 .. N : k \in 0 .. N /\ k # 0 BY <1>1
  <2>2. DOMAIN F = 0 .. N /\ F = [k \in 0 .. N |-> F[k]] /\ F[0] = init BY <1>5, <2>1
  <2>3. \A k \in 1 .. N : F[k - 1] \in D => F[k] = step[<<k, F[k - 1]>>] BY <1>5, <2>1
  <2> HIDE DEF step
  <2> QED BY <1>1, <1>3, <2>2, <2>3, Computes
<1>7. Dithered(p, pal) = F[N].idx BY DEF Dithered
<1>8. F \in [0 .. N -> D] /\ F[0] = init /\ \A k \in 1 .. N : F[k] = E(k, F[k - 1])
  <2> HIDE DEF N, D, F, init, E
  <2>1. \A k \in 1 .. N : k - 1 \in 0 .. N BY <1>1
  <2> QED BY <1>1, <1>6, <2>1 DEF Stepwise
<1> DEFINE T == {k \in 0 .. N : Len(F[k].idx) = k}
<1>9. 0 \in T
  <2> HIDE DEF F, N
  <2>1. F[0].idx = <<>> BY <1>8 DEF NoneFound
  <2> QED BY <1>1, <2>1
<1>10. \A k \in 1 .. N : k - 1 \in T => k \in T
  <2> SUFFICES ASSUME NEW k \in 1 .. N, k - 1 \in T PROVE k \in T OBVIOUS
  <2>1. k - 1 \in 0 .. N - 1 /\ k - 1 \in 0 .. N
    <3> HIDE DEF N
    <3> QED BY <1>1
  <2> HIDE DEF F
  <2>2. F[k - 1] \in DitherStates(n) /\ Len(F[k - 1].idx) = k - 1 BY <1>8, <2>1
  <2>3. PICK spot \in 0 .. n : DitherPixel(p, pal, F[k - 1], k - 1).idx = Append(F[k - 1].idx, spot) BY <2>1, <2>2, DitherPixelIs
  <2>4. F[k].idx = Append(F[k - 1].idx, spot) BY <1>8, <2>3
  <2>5. F[k - 1].idx \in Seq(0 .. n) BY <2>2 DEF DitherStates
  <2> HIDE DEF N
  <2> QED BY <2>2, <2>4, <2>5
<1> HIDE DEF T
<1>11. \A k \in 0 .. N : k \in T BY <1>1, <1>9, <1>10, UpTo, Zenon
<1>12. N \in 0 .. N /\ Len(F[N].idx) = N BY <1>1, <1>11 DEF T
<1>13. F[N].idx \in Seq(0 .. n)
  <2> HIDE DEF F, N
  <2>1. F[N] \in DitherStates(n) BY <1>8, <1>12
  <2> QED BY <2>1 DEF DitherStates
<1> QED BY <1>7, <1>12, <1>13

(* What is computed of a picture *)

Has(s, c) == \E j \in DOMAIN s : s[j] = c

LEMMA UnfoldedIs ==
  ASSUME NEW pal \in Seq(Colour), NEW idx \in Seq(0 .. Len(pal))
  PROVE  /\ Unfolded(idx, pal) \in Seq(Colour)
         /\ \A k \in DOMAIN Unfolded(idx, pal) : Seen(Unfolded(idx, pal)[k]) => Has(pal, Unfolded(idx, pal)[k])
<1> DEFINE m == Len(idx)
           n == Len(pal)
           u == Unfolded(idx, pal)
<1>1. m \in Nat /\ DOMAIN idx = 1 .. m /\ n \in Nat /\ DOMAIN pal = 1 .. n /\ \A i \in 1 .. m : idx[i] \in 0 .. n OBVIOUS
<1>2. u = [i \in 1 .. m |-> IF idx[i] = 0 THEN Nothing ELSE pal[idx[i]]] BY DEF Unfolded
<1>3. Nothing \in Colour /\ ~Seen(Nothing) BY DEF Nothing, Colour, Seen, Alpha
<1> HIDE DEF m, n, u
<1>4. \A i \in 1 .. m : idx[i] # 0 => idx[i] \in 1 .. n BY <1>1
<1>5. \A i \in 1 .. n : pal[i] \in Colour BY <1>1
<1>6. \A i \in 1 .. m : u[i] \in Colour BY <1>2, <1>3, <1>4, <1>5
<1>7. u \in [1 .. m -> Colour] BY <1>2, <1>6
<1>8. u \in Seq(Colour) /\ DOMAIN u = 1 .. m BY <1>1, <1>7, SequenceIs
<1>9. ASSUME NEW k \in 1 .. m, Seen(u[k]) PROVE Has(pal, u[k])
  <2>1. idx[k] # 0 BY <1>2, <1>3, <1>9
  <2>2. idx[k] \in DOMAIN pal /\ u[k] = pal[idx[k]] BY <1>1, <1>2, <1>4, <2>1
  <2> QED BY <2>2 DEF Has
<1> QED BY <1>8, <1>9 DEF u

\* The colours and pixels that p is cut down to.
Result(p, got) ==
  /\ got.pal \in Seq(Colour) /\ got.px \in Seq(Colour)
  /\ got.pal # <<>> => got = Shown(got.idx, got.pal)
  /\ Samples(p) # <<>> => \A k \in DOMAIN got.px : Seen(got.px[k]) => Has(got.pal, got.px[k])

LEMMA ComputedIs ==
  ASSUME NEW p, IsPicture(p), NEW quota \in Nat \ {0}
  PROVE  Result(p, Computed(p, quota))
<1> DEFINE pal == Palette(p, quota)
           got == Computed(p, quota)
<1>1. Samples(p) \in Seq(Colour) BY SamplesAre
<1>2. pal \in Seq(Colour) /\ (pal = <<>> <=> Samples(p) = <<>>) BY <1>1, MedianCutIs DEF Palette
<1>3. got = With(p, pal) BY DEF Computed
<1> HIDE DEF pal, got
<1>4. CASE pal = <<>>
  <2>1. got = [pal |-> <<>>, idx |-> <<>>, px |-> p.px] BY <1>3, <1>4 DEF With
  <2>2. got.pal = <<>> /\ got.px = p.px BY <2>1
  <2>3. p.px \in Seq(Colour) BY DEF IsPicture
  <2>4. Result(p, got) BY <1>2, <1>4, <2>2, <2>3 DEF Result
  <2> QED BY <2>4 DEF got
<1>5. CASE pal # <<>>
  <2> DEFINE idx == Dithered(p, pal)
  <2>1. got = Shown(idx, pal) BY <1>3, <1>5 DEF With
  <2>2. idx \in Seq(0 .. Len(pal)) BY <1>2, <1>5, DitheredIs
  <2> HIDE DEF idx
  <2>3. got.pal = pal /\ got.idx = idx /\ got.px = Unfolded(idx, pal) BY <2>1 DEF Shown
  <2>4. got.px \in Seq(Colour) /\ \A k \in DOMAIN got.px : Seen(got.px[k]) => Has(pal, got.px[k]) BY <1>2, <2>2, <2>3, UnfoldedIs
  <2>5. Result(p, got) BY <1>2, <2>1, <2>3, <2>4 DEF Result
  <2> QED BY <2>5 DEF got
<1> QED BY <1>4, <1>5

(* The pools *)

Longer(a, b) == Len(a) <= Len(b) /\ \A i \in 1 .. Len(a) : b[i] = a[i]

\* r is the pool with the first k of the colours, as far as there was room
TakenIn(pool, cap, colours, k, r) ==
  /\ r \in Seq(Colour) /\ Longer(pool, r)
  /\ Len(r) <= Len(pool) + k
  /\ Len(pool) <= cap => Len(r) <= cap
  /\ (Len(r) < cap \/ Len(pool) + k <= cap) => \A i \in 1 .. k : Has(r, colours[i])

AddOne(r, cap, c) == IF Len(r) >= cap \/ \E j \in DOMAIN r : r[j] = c THEN r ELSE Append(r, c)

LEMMA AddOneIs ==
  ASSUME NEW pool \in Seq(Colour), NEW cap \in Nat, NEW colours \in Seq(Colour), NEW k \in 1 .. Len(colours),
         NEW r, TakenIn(pool, cap, colours, k - 1, r)
  PROVE  TakenIn(pool, cap, colours, k, AddOne(r, cap, colours[k]))
<1> DEFINE c == colours[k]
           q == AddOne(r, cap, c)
           a == Len(pool)
           n == Len(r)
<1>1. r \in Seq(Colour) /\ Longer(pool, r) /\ n <= a + (k - 1) /\ (a <= cap => n <= cap)
      /\ ((n < cap \/ a + (k - 1) <= cap) => \A i \in 1 .. k - 1 : Has(r, colours[i]))
  BY DEF TakenIn
<1>2. c \in Colour /\ a \in Nat /\ n \in Nat /\ k \in Nat /\ k > 0 /\ DOMAIN r = 1 .. n BY <1>1
<1>3. \A i \in 1 .. k : i # k => i \in 1 .. k - 1 BY <1>2
<1>4. CASE n >= cap \/ Has(r, c)
  <2>1. q = r BY <1>4 DEF AddOne, Has
  <2>2. n <= a + k BY <1>1, <1>2
  <2>3. ASSUME n < cap \/ a + k <= cap, NEW i \in 1 .. k PROVE Has(r, colours[i])
    <3>1. n < cap \/ a + (k - 1) <= cap BY <1>2, <2>3
    <3>2. CASE i # k BY <1>1, <1>3, <3>1, <3>2
    <3>3. CASE i = k
      <4>1. n < cap BY <1>1, <1>2, <2>3
      <4>2. Has(r, c) BY <1>2, <1>4, <4>1
      <4> QED BY <3>3, <4>2
    <3> QED BY <3>2, <3>3
  <2> HIDE DEF q, c
  <2>4. TakenIn(pool, cap, colours, k, r) BY <1>1, <2>2, <2>3 DEF TakenIn
  <2> QED BY <2>1, <2>4 DEF q, c
<1>5. CASE ~(n >= cap) /\ ~Has(r, c)
  <2>1. q = Append(r, c) BY <1>5 DEF AddOne, Has
  <2> HIDE DEF q, c
  <2>2. q \in Seq(Colour) /\ Len(q) = n + 1 /\ DOMAIN q = 1 .. n + 1 /\ q[n + 1] = c /\ \A i \in 1 .. n : q[i] = r[i]
    BY <1>1, <1>2, <2>1
  <2>3. Longer(pool, q)
    <3>1. a <= n /\ \A i \in 1 .. a : r[i] = pool[i] BY <1>1 DEF Longer
    <3> HIDE DEF a, n
    <3>2. \A i \in 1 .. a : i \in 1 .. n BY <1>2, <3>1
    <3>3. \A i \in 1 .. a : q[i] = pool[i] BY <2>2, <3>1, <3>2
    <3>4. a <= Len(q) BY <1>2, <2>2, <3>1
    <3> QED BY <3>3, <3>4 DEF Longer, a
  <2>4. \A d : Has(r, d) => Has(q, d)
    <3> HIDE DEF n
    <3>1. \A j \in 1 .. n : j \in 1 .. n + 1 BY <1>2
    <3> QED BY <1>2, <2>2, <3>1 DEF Has
  <2>5. Has(q, c)
    <3> HIDE DEF n
    <3>1. n + 1 \in DOMAIN q BY <1>2, <2>2
    <3> QED BY <2>2, <3>1 DEF Has
  <2> HIDE DEF a, n
  <2>6. \A i \in 1 .. k : Has(q, colours[i])
    <3>1. n < cap BY <1>2, <1>5
    <3>2. \A i \in 1 .. k - 1 : Has(q, colours[i]) BY <1>1, <2>4, <3>1
    <3> QED BY <1>3, <2>5, <3>2 DEF c
  <2>7. Len(q) <= a + k /\ (a <= cap => Len(q) <= cap) BY <1>1, <1>2, <1>5, <2>2
  <2>8. TakenIn(pool, cap, colours, k, q) BY <2>2, <2>3, <2>6, <2>7 DEF TakenIn, a
  <2> QED BY <2>8 DEF q, c
<1> QED BY <1>4, <1>5

LEMMA PooledIs ==
  ASSUME NEW pool \in Seq(Colour), NEW cap \in Nat, NEW colours \in Seq(Colour)
  PROVE  TakenIn(pool, cap, colours, Len(colours), Pooled(pool, cap, colours))
<1> DEFINE N == Len(colours)
           D == Seq(Colour)
           init == pool
           E(k, v) == AddOne(v, cap, colours[k])
           step == [x \in (1 .. N) \X D |-> E(x[1], x[2])]
           F == CHOOSE h : h = [k \in 0 .. N |-> IF k = 0 THEN init ELSE E(k, h[k - 1])]
<1>1. N \in Nat /\ init \in D OBVIOUS
<1>2. ASSUME NEW k \in 1 .. N, NEW v \in D PROVE E(k, v) \in D
  <2>1. colours[k] \in Colour OBVIOUS
  <2> QED BY <2>1 DEF AddOne
<1>3. step \in [(1 .. N) \X D -> D]
  <2> HIDE DEF N, D, E
  <2>1. \A x \in (1 .. N) \X D : E(x[1], x[2]) \in D BY <1>2
  <2> QED BY <2>1
<1>4. PICK g : Stepwise(g, N, D, init, step)
  <2> HIDE DEF N, D, init, step
  <2> QED BY <1>1, <1>3, StepByStep
<1>5. F = [k \in 0 .. N |-> IF k = 0 THEN init ELSE E(k, F[k - 1])]
  <2> HIDE DEF N, D, init, E
  <2>1. g = [k \in 0 .. N |-> IF k = 0 THEN init ELSE E(k, g[k - 1])]
    <3>1. g \in [0 .. N -> D] /\ g[0] = init /\ \A k \in 1 .. N : g[k] = step[<<k, g[k - 1]>>] BY <1>4 DEF Stepwise
    <3>2. \A k \in 0 .. N : k # 0 => k \in 1 .. N /\ k - 1 \in 0 .. N BY <1>1
    <3>3. \A k \in 0 .. N : g[k] = IF k = 0 THEN init ELSE E(k, g[k - 1]) BY <3>1, <3>2
    <3> QED BY <3>1, <3>3
  <2> QED BY <2>1
<1>6. Stepwise(F, N, D, init, step)
  <2> HIDE DEF N, D, init, E, F
  <2>1. 0 \in 0 .. N /\ \A k \in 1 .. N : k \in 0 .. N /\ k # 0 BY <1>1
  <2>2. DOMAIN F = 0 .. N /\ F = [k \in 0 .. N |-> F[k]] /\ F[0] = init BY <1>5, <2>1
  <2>3. \A k \in 1 .. N : F[k - 1] \in D => F[k] = step[<<k, F[k - 1]>>] BY <1>5, <2>1
  <2> HIDE DEF step
  <2> QED BY <1>1, <1>3, <2>2, <2>3, Computes
<1>7. Pooled(pool, cap, colours) = F[N] BY DEF Pooled, AddOne
<1>8. F \in [0 .. N -> D] /\ F[0] = init /\ \A k \in 1 .. N : F[k] = E(k, F[k - 1])
  <2> HIDE DEF N, D, F, init, E
  <2>1. \A k \in 1 .. N : k - 1 \in 0 .. N BY <1>1
  <2> QED BY <1>1, <1>6, <2>1 DEF Stepwise
<1> DEFINE T == {k \in 0 .. N : TakenIn(pool, cap, colours, k, F[k])}
<1>9. 0 \in T
  <2>1. TakenIn(pool, cap, colours, 0, pool) BY DEF TakenIn, Longer
  <2> HIDE DEF F, N
  <2> QED BY <1>1, <1>8, <2>1
<1>10. \A k \in 1 .. N : k - 1 \in T => k \in T
  <2> SUFFICES ASSUME NEW k \in 1 .. N, k - 1 \in T PROVE k \in T OBVIOUS
  <2> HIDE DEF F
  <2>1. TakenIn(pool, cap, colours, k - 1, F[k - 1]) OBVIOUS
  <2>2. TakenIn(pool, cap, colours, k, AddOne(F[k - 1], cap, colours[k])) BY <2>1, AddOneIs
  <2>3. F[k] = AddOne(F[k - 1], cap, colours[k]) BY <1>8
  <2> QED BY <2>2, <2>3
<1> HIDE DEF T
<1>11. \A k \in 0 .. N : k \in T BY <1>1, <1>9, <1>10, UpTo, Zenon
<1>12. N \in T BY <1>1, <1>11
<1>13. TakenIn(pool, cap, colours, N, F[N])
  <2> HIDE DEF F, N
  <2> QED BY <1>12 DEF T
<1> QED BY <1>7, <1>13

\* The constants.
LEMMA Sizes ==
  /\ Entries \in Nat /\ DynBase \in Nat /\ DynBase + 1 < Entries /\ RampsMax \in Nat /\ RampsMax > 0
  /\ Baked \in Seq(Colour) /\ Len(Baked) <= DynBase /\ Blended \subseteq Colour
  /\ RampLevels("arknights") <= 255 /\ RampLevels("arknights") < Entries - DynBase
<1>1. RampsMax \in Nat \ {0} BY PicturesAssumption
<1> QED BY <1>1, PicturesAssumption

Images == [path : Paths, quota : Nat \ {0, 1}, up : {1, 2}, down : {1, 2}]

LEMMA OwnersAre ==
  ASSUME NEW o \in Owners
  PROVE  /\ o # NoOwner
         /\ RampLevels(OwnerOf(o).type) \in Nat
         /\ OwnerOf(o).colours \in Seq(Colour)
         /\ OwnerOf(o).images \in Seq(Images)
         /\ (OwnerOf(o).type = "arknights") => Len(OwnerOf(o).colours) = 1 /\ Alpha(OwnerOf(o).colours[1]) = 255
BY PicturesAssumption DEF NoOwner, Images

LEMMA ImageIs == ASSUME NEW o \in Owners, NEW i \in DOMAIN OwnerOf(o).images PROVE OwnerOf(o).images[i] \in Images
<1> DEFINE s == OwnerOf(o).images
<1>1. s \in Seq(Images) /\ i \in DOMAIN s BY OwnersAre
<1> HIDE DEF s
<1>2. s[i] \in Images BY <1>1
<1> QED BY <1>2 DEF s

LEMMA RoomIs == ASSUME NEW t PROVE RoomOf(t) \in Nat /\ BaseOf(t) \in Nat /\ BaseOf(t) + RoomOf(t) = Entries - 1
BY Sizes DEF RoomOf, BaseOf

\* what a picture of an owner is scaled to
LEMMA ScaledIs ==
  ASSUME NEW o \in Owners, NEW i \in DOMAIN OwnerOf(o).images, NEW v \in Versions
  PROVE  IsPicture(ScaledOf(OwnerOf(o).images[i], v))
<1> DEFINE pict == OwnerOf(o).images[i]
           f == <<pict.up, pict.down>>
<1>1. pict \in Images BY ImageIs
<1>2. pict.up = 1 \/ pict.down = 1 BY PicturesAssumption
<1> HIDE DEF pict
<1>3. f \in Factors BY <1>1, <1>2 DEF Factors, Images
<1>4. IsPicture(ContentOf(pict.path, v))
  <2>1. pict.path \in Paths BY <1>1 DEF Images
  <2> QED BY <2>1, PicturesAssumption
<1>5. f[1] = pict.up /\ f[2] = pict.down OBVIOUS
<1> HIDE DEF f
<1>6. IsPicture(Rescale(ContentOf(pict.path, v), f[1], f[2])) BY <1>3, <1>4, RescaleIs
<1> QED BY <1>5, <1>6 DEF ScaledOf, pict

\* all steps of c are in a sequence of colours
FadesIn(s, c, levels) == \A i \in 1 .. levels - 1 : Has(s, <<(255 * (levels - i)) \div levels, Value(c)>>)

LEMMA RampIs ==
  ASSUME NEW c \in Colour, NEW levels \in Nat, levels > 0
  PROVE  /\ Ramp(c, levels) \in Seq(Colour)
         /\ Alpha(c) = 255 /\ levels <= 255 => Len(Ramp(c, levels)) = levels /\ FadesIn(Ramp(c, levels), c, levels)
<1> DEFINE faded(i) == (Alpha(c) * (levels - i)) \div levels
           Q == {n \in 1 .. levels : faded(n) # 0}
           n == Cardinality(Q)
           tail == [i \in 1 .. n |-> <<faded(i), Value(c)>>]
<1>1. IsFiniteSet(1 .. levels) /\ Cardinality(1 .. levels) = levels BY FS_Interval
<1>2. IsFiniteSet(Q) /\ Cardinality(Q) <= levels BY <1>1, FS_Subset
<1>3. n \in 0 .. levels BY <1>2, FS_CardinalityType
<1>4. Ramp(c, levels) = <<c>> \o tail BY DEF Ramp
<1>5. Alpha(c) \in Int /\ Value(c) \in Int BY DEF Colour, Alpha, Value
<1>6. \A i \in Int : faded(i) \in Int
  <2>1. \A x, y \in Int : x * y \in Int OBVIOUS
  <2>2. \A x \in Int : x \div levels \in Int BY SMT
  <2>3. \A i \in Int : levels - i \in Int OBVIOUS
  <2> QED BY <1>5, <2>1, <2>2, <2>3
<1>7. tail \in Seq(Colour) /\ Len(tail) = n /\ DOMAIN tail = 1 .. n
  <2> HIDE DEF faded, n
  <2>1. \A i \in 1 .. n : <<faded(i), Value(c)>> \in Colour BY <1>3, <1>5, <1>6 DEF Colour
  <2>2. tail \in [1 .. n -> Colour] BY <2>1
  <2> HIDE DEF tail
  <2> QED BY <1>3, <2>2, SequenceIs
<1>8. <<c>> \in Seq(Colour) /\ Len(<<c>>) = 1 OBVIOUS
<1> DEFINE r == Ramp(c, levels)
<1>9. r \in Seq(Colour) /\ Len(r) = 1 + n /\ \A i \in 1 .. n : r[1 + i] = tail[i]
  <2> HIDE DEF tail, n
  <2>1. (<<c>> \o tail) \in Seq(Colour) /\ Len(<<c>> \o tail) = Len(<<c>>) + Len(tail) BY <1>7, <1>8, ConcatProperties
  <2>2. \A i \in 1 .. n : (<<c>> \o tail)[1 + i] = tail[i] BY <1>3, <1>7, <1>8
  <2> QED BY <1>4, <1>7, <1>8, <2>1, <2>2
<1>10. ASSUME Alpha(c) = 255, levels <= 255 PROVE Q = 1 .. levels - 1 /\ n = levels - 1
  <2>1. ASSUME NEW i \in 1 .. levels - 1 PROVE faded(i) # 0
    <3> DEFINE d == levels - i
               a == 255 * d
    <3>1. d \in Nat /\ d >= 1 /\ a \in Nat /\ a >= levels BY <1>10
    <3>2. faded(i) = a \div levels BY <1>10
    <3> HIDE DEF a, d
    <3>3. a = levels * (a \div levels) + (a % levels) /\ a % levels \in 0 .. levels - 1 /\ a \div levels \in Nat BY <3>1, SMTT(30)
    <3>4. a \div levels = 0 => levels * (a \div levels) = 0 OBVIOUS
    <3> QED BY <3>1, <3>2, <3>3, <3>4
  <2>2. faded(levels) = 0
    <3>1. Alpha(c) * (levels - levels) = 0 BY <1>10
    <3>2. 0 \div levels = 0 BY SMT
    <3> QED BY <3>1, <3>2
  <2> HIDE DEF faded
  <2>3. Q = 1 .. levels - 1 BY <2>1, <2>2
  <2>4. Cardinality(1 .. levels - 1) = levels - 1 BY FS_Interval
  <2> QED BY <2>3, <2>4
<1>11. ASSUME Alpha(c) = 255, levels <= 255, NEW i \in 1 .. levels - 1 PROVE Has(r, <<(255 * (levels - i)) \div levels, Value(c)>>)
  <2>1. i \in 1 .. n BY <1>10, <1>11
  <2>2. r[1 + i] = <<faded(i), Value(c)>>
    <3> HIDE DEF faded, r, n
    <3> QED BY <1>9, <2>1
  <2>3. 1 + i \in DOMAIN r
    <3> HIDE DEF r, n
    <3> QED BY <1>3, <1>9, <2>1
  <2>4. faded(i) = (255 * (levels - i)) \div levels BY <1>11
  <2> HIDE DEF r, faded
  <2> QED BY <2>2, <2>3, <2>4 DEF Has
<1>12. Alpha(c) = 255 /\ levels <= 255 => Len(r) = levels
  <2> HIDE DEF r, n, Q
  <2> QED BY <1>9, <1>10
<1>13. Alpha(c) = 255 /\ levels <= 255 => FadesIn(r, c, levels)
  <2> HIDE DEF r
  <2> QED BY <1>11 DEF FadesIn
<1> QED BY <1>9, <1>12, <1>13

\* The colours of an owner, in the order they are taken.
KnownIn(pool, c) == c \in {<<255, 0>>, <<255, 255>>} \/ \E j \in DOMAIN pool : pool[j] = c
AddedColour(type, s, c) ==
  IF type = "custom" /\ KnownIn(s.pool, c) THEN s
  ELSE [pool |-> Pooled(s.pool, RoomOf(type), IF s.ramps < RampsMax /\ RampLevels(type) > 0 THEN Ramp(c, RampLevels(type)) ELSE <<c>>),
        ramps |-> IF s.ramps < RampsMax /\ RampLevels(type) > 0 THEN s.ramps + 1 ELSE s.ramps]

PoolsOf(type) == {q \in Seq(Colour) : Len(q) <= RoomOf(type)}

\* the steps from black or white to the colour of the theme are in the pool
ThemeIn(o, pool) ==
  OwnerOf(o).type = "arknights" => FadesIn(pool, OwnerOf(o).colours[1], RampLevels("arknights"))

LEMMA ColouredIs ==
  ASSUME NEW o \in Owners
  PROVE  Coloured(o) \in PoolsOf(OwnerOf(o).type) /\ ThemeIn(o, Coloured(o))
<1> DEFINE cs == OwnerOf(o).colours
           type == OwnerOf(o).type
           levels == RampLevels(type)
           N == Len(cs)
           D == [pool : PoolsOf(type), ramps : Nat]
           init == [pool |-> <<>>, ramps |-> 0]
           E(k, v) == AddedColour(type, v, cs[k])
           step == [x \in (1 .. N) \X D |-> E(x[1], x[2])]
           F == CHOOSE h : h = [k \in 0 .. N |-> IF k = 0 THEN init ELSE E(k, h[k - 1])]
<1>0. cs \in Seq(Colour) /\ levels \in Nat /\ RoomOf(type) \in Nat BY OwnersAre, RoomIs
<1>1. N \in Nat /\ init \in D
  <2>1. <<>> \in PoolsOf(type) BY <1>0 DEF PoolsOf
  <2> QED BY <1>0, <2>1
<1> DEFINE Adds(v, c) == IF v.ramps < RampsMax /\ levels > 0 THEN Ramp(c, levels) ELSE <<c>>
<1>21. ASSUME NEW v \in D, NEW c \in Colour
      PROVE  /\ Adds(v, c) \in Seq(Colour)
             /\ TakenIn(v.pool, RoomOf(type), Adds(v, c), Len(Adds(v, c)), Pooled(v.pool, RoomOf(type), Adds(v, c)))
             /\ Pooled(v.pool, RoomOf(type), Adds(v, c)) \in PoolsOf(type)
  <2>1. Adds(v, c) \in Seq(Colour) BY <1>0, RampIs
  <2>2. v.pool \in Seq(Colour) /\ Len(v.pool) <= RoomOf(type) BY DEF PoolsOf
  <2> HIDE DEF Adds
  <2>3. TakenIn(v.pool, RoomOf(type), Adds(v, c), Len(Adds(v, c)), Pooled(v.pool, RoomOf(type), Adds(v, c))) BY <1>0, <2>1, <2>2, PooledIs
  <2> QED BY <2>1, <2>2, <2>3 DEF TakenIn, PoolsOf
<1>2. ASSUME NEW k \in 1 .. N, NEW v \in D PROVE E(k, v) \in D
  <2>1. cs[k] \in Colour BY <1>0
  <2>2. Pooled(v.pool, RoomOf(type), Adds(v, cs[k])) \in PoolsOf(type) BY <1>21, <2>1
  <2>3. E(k, v) = v \/ E(k, v) = [pool |-> Pooled(v.pool, RoomOf(type), Adds(v, cs[k])),
                                  ramps |-> IF v.ramps < RampsMax /\ levels > 0 THEN v.ramps + 1 ELSE v.ramps]
    BY DEF AddedColour
  <2>4. v.ramps \in Nat OBVIOUS
  <2> HIDE DEF Adds, E, levels
  <2> QED BY <2>2, <2>3, <2>4
<1>3. step \in [(1 .. N) \X D -> D]
  <2> HIDE DEF N, D, E
  <2>1. \A x \in (1 .. N) \X D : E(x[1], x[2]) \in D BY <1>2
  <2> QED BY <2>1
<1>4. PICK g : Stepwise(g, N, D, init, step)
  <2> HIDE DEF N, D, init, step
  <2> QED BY <1>1, <1>3, StepByStep
<1>5. F = [k \in 0 .. N |-> IF k = 0 THEN init ELSE E(k, F[k - 1])]
  <2> HIDE DEF N, D, init, E
  <2>1. g = [k \in 0 .. N |-> IF k = 0 THEN init ELSE E(k, g[k - 1])]
    <3>1. g \in [0 .. N -> D] /\ g[0] = init /\ \A k \in 1 .. N : g[k] = step[<<k, g[k - 1]>>] BY <1>4 DEF Stepwise
    <3>2. \A k \in 0 .. N : k # 0 => k \in 1 .. N /\ k - 1 \in 0 .. N BY <1>1
    <3>3. \A k \in 0 .. N : g[k] = IF k = 0 THEN init ELSE E(k, g[k - 1]) BY <3>1, <3>2
    <3> QED BY <3>1, <3>3
  <2> QED BY <2>1
<1>6. Stepwise(F, N, D, init, step)
  <2> HIDE DEF N, D, init, E, F
  <2>1. 0 \in 0 .. N /\ \A k \in 1 .. N : k \in 0 .. N /\ k # 0 BY <1>1
  <2>2. DOMAIN F = 0 .. N /\ F = [k \in 0 .. N |-> F[k]] /\ F[0] = init BY <1>5, <2>1
  <2>3. \A k \in 1 .. N : F[k - 1] \in D => F[k] = step[<<k, F[k - 1]>>] BY <1>5, <2>1
  <2> HIDE DEF step
  <2> QED BY <1>1, <1>3, <2>2, <2>3, Computes
<1>7. Coloured(o) = F[N].pool BY DEF Coloured, AddedColour, KnownIn
<1>8. F \in [0 .. N -> D] /\ F[0] = init /\ \A k \in 1 .. N : F[k] = E(k, F[k - 1])
  <2> HIDE DEF N, D, F, init, E
  <2>1. \A k \in 1 .. N : k - 1 \in 0 .. N BY <1>1
  <2> QED BY <1>1, <1>6, <2>1 DEF Stepwise
<1>9. Coloured(o) \in PoolsOf(type)
  <2> HIDE DEF F, N
  <2>1. F[N] \in D BY <1>1, <1>8
  <2> HIDE DEF type
  <2> QED BY <1>7, <2>1
<1>10. ThemeIn(o, Coloured(o))
  <2> SUFFICES ASSUME type = "arknights", NEW i \in 1 .. levels - 1
               PROVE  Has(Coloured(o), <<(255 * (levels - i)) \div levels, Value(cs[1])>>)
    BY DEF ThemeIn, FadesIn
  <2>1. N = 1 /\ Alpha(cs[1]) = 255 BY OwnersAre
  <2>2. cs[1] \in Colour BY <1>0, <2>1
  <2>3. levels > 0 /\ levels <= 255 /\ levels <= RoomOf(type) BY <1>0, Sizes DEF RoomOf
  <2>4. F[1] = E(1, F[0]) /\ F[0] = init
    <3> HIDE DEF F, E, init
    <3>1. 1 \in 1 .. N /\ 1 - 1 = 0 BY <2>1
    <3> QED BY <1>8, <3>1
  <2>5. E(1, init).pool = Pooled(<<>>, RoomOf(type), Ramp(cs[1], levels)) BY <2>3, Sizes DEF AddedColour
  <2> DEFINE r == Ramp(cs[1], levels)
             pool == Pooled(<<>>, RoomOf(type), r)
  <2>6. r \in Seq(Colour) /\ Len(r) = levels /\ Has(r, <<(255 * (levels - i)) \div levels, Value(cs[1])>>)
    <3>1. levels \in Nat BY <1>0
    <3> HIDE DEF levels, cs
    <3>2. r \in Seq(Colour) /\ Len(r) = levels /\ FadesIn(r, cs[1], levels) BY <2>1, <2>2, <2>3, <3>1, RampIs
    <3> HIDE DEF r
    <3> QED BY <3>2 DEF FadesIn
  <2>7. TakenIn(<<>>, RoomOf(type), r, levels, pool)
    <3> HIDE DEF r, levels
    <3>1. <<>> \in Seq(Colour) OBVIOUS
    <3> QED BY <1>0, <2>6, <3>1, PooledIs
  <2> HIDE DEF r, pool, levels
  <2>8. \A k \in 1 .. levels : Has(pool, r[k])
    <3>1. Len(<<>>) + levels <= RoomOf(type) BY <1>0, <2>3
    <3> QED BY <2>7, <3>1 DEF TakenIn
  <2>9. Coloured(o) = pool
    <3> HIDE DEF F, E, init
    <3> QED BY <1>7, <2>1, <2>4, <2>5 DEF r, pool
  <2>10. DOMAIN r = 1 .. levels BY <2>6
  <2>11. PICK k \in 1 .. levels : r[k] = <<(255 * (levels - i)) \div levels, Value(cs[1])>> BY <2>6, <2>10 DEF Has
  <2> QED BY <2>8, <2>9, <2>11
<1> QED BY <1>9, <1>10

(* Picture by picture *)

KeptStates(o) == [pool : PoolsOf(OwnerOf(o).type), px : Seq(Seq(Colour))]
NextKept(o, k, i, v) ==
  LET p == ScaledOf(OwnerOf(o).images[i], v)
      quota == Quota(o, k.pool, OwnerOf(o).images[i].quota)
  IN  WithPicture(k, o, p, quota, IF quota < 2 THEN <<>> ELSE Computed(p, quota))

\* With room for two more, what is seen of the pixels is in the pool, if any of those that were looked at is.
InPool(o, pool, p, px) ==
  Len(pool) + 1 < RoomOf(OwnerOf(o).type) /\ Samples(p) # <<>> => \A x \in DOMAIN px : Seen(px[x]) => Has(pool, px[x])

LEMMA PictureAdded ==
  ASSUME NEW o \in Owners, NEW k \in KeptStates(o), NEW i \in DOMAIN OwnerOf(o).images, NEW v \in Versions
  PROVE  LET r == NextKept(o, k, i, v)
         IN  /\ r \in KeptStates(o) /\ Longer(k.pool, r.pool)
             /\ \E px \in Seq(Colour) : r.px = Append(k.px, px) /\ InPool(o, r.pool, ScaledOf(OwnerOf(o).images[i], v), px)
<1> DEFINE p == ScaledOf(OwnerOf(o).images[i], v)
           quota == Quota(o, k.pool, OwnerOf(o).images[i].quota)
           room == RoomOf(OwnerOf(o).type)
           r == NextKept(o, k, i, v)
<1>1. IsPicture(p) BY ScaledIs
<1>2. room \in Nat BY RoomIs
<1>3. k.pool \in PoolsOf(OwnerOf(o).type) /\ k.px \in Seq(Seq(Colour)) BY DEF KeptStates
<1>4. k.pool \in Seq(Colour) /\ Len(k.pool) <= room BY <1>3 DEF PoolsOf
<1>5. OwnerOf(o).images[i].quota \in Nat /\ OwnerOf(o).images[i].quota >= 2
  <2> DEFINE pict == OwnerOf(o).images[i]
  <2>1. pict \in Images BY ImageIs
  <2> HIDE DEF pict
  <2>2. pict.quota \in Nat \ {0, 1} BY <2>1 DEF Images
  <2>3. pict.quota \in Nat /\ pict.quota >= 2 BY <2>2
  <2> QED BY <2>3 DEF pict
<1>6. quota \in Int /\ (quota < 2 => Len(k.pool) + 1 >= room) BY <1>2, <1>4, <1>5 DEF Quota
<1>7. r = WithPicture(k, o, p, quota, IF quota < 2 THEN <<>> ELSE Computed(p, quota)) BY DEF NextKept
<1>8. p.px \in Seq(Colour) BY <1>1 DEF IsPicture
<1> HIDE DEF p, quota, r
<1>9. CASE quota < 2
  <2>1. r = [pool |-> k.pool, px |-> Append(k.px, p.px)] BY <1>7, <1>9 DEF WithPicture
  <2>2. r.pool = k.pool /\ r.px = Append(k.px, p.px) BY <2>1
  <2>3. Append(k.px, p.px) \in Seq(Seq(Colour)) BY <1>3, <1>8
  <2>4. r \in KeptStates(o) BY <1>3, <2>1, <2>3 DEF KeptStates
  <2>5. Longer(k.pool, r.pool) BY <1>4, <2>2 DEF Longer
  <2>6. InPool(o, r.pool, p, p.px) BY <1>2, <1>4, <1>6, <1>9, <2>2 DEF InPool
  <2> QED BY <1>8, <2>2, <2>4, <2>5, <2>6 DEF p, r
<1>10. CASE ~(quota < 2)
  <2> DEFINE got == Computed(p, quota)
  <2>1. quota \in Nat \ {0} BY <1>6, <1>10
  <2>2. Result(p, got) BY <1>1, <2>1, ComputedIs
  <2>3. r = WithPicture(k, o, p, quota, got) BY <1>7, <1>10
  <2> HIDE DEF got
  <2>4. got.pal \in Seq(Colour) /\ got.px \in Seq(Colour) BY <2>2 DEF Result
  <2> DEFINE pool == Pooled(k.pool, room, got.pal)
  <2>5. r = [pool |-> pool, px |-> Append(k.px, got.px)] BY <1>10, <2>3 DEF WithPicture
  <2>6. TakenIn(k.pool, room, got.pal, Len(got.pal), pool) BY <1>2, <1>4, <2>4, PooledIs
  <2> HIDE DEF pool
  <2>7. r.pool = pool /\ r.px = Append(k.px, got.px) BY <2>5
  <2>8. pool \in PoolsOf(OwnerOf(o).type) /\ Longer(k.pool, pool) BY <1>4, <2>6 DEF TakenIn, PoolsOf
  <2>9. Append(k.px, got.px) \in Seq(Seq(Colour)) BY <1>3, <2>4
  <2>10. r \in KeptStates(o) BY <2>5, <2>8, <2>9 DEF KeptStates
  <2>11. InPool(o, pool, p, got.px)
    <3> SUFFICES ASSUME Len(pool) + 1 < room, Samples(p) # <<>>, NEW x \in DOMAIN got.px, Seen(got.px[x])
                 PROVE  Has(pool, got.px[x])
      BY DEF InPool
    <3>1. Has(got.pal, got.px[x]) BY <2>2 DEF Result
    <3>2. PICK j \in DOMAIN got.pal : got.pal[j] = got.px[x] BY <3>1 DEF Has
    <3>3. Len(pool) < room
      <4>1. Len(pool) \in Nat BY <2>8 DEF PoolsOf
      <4> QED BY <1>2, <4>1
    <3>4. j \in 1 .. Len(got.pal) BY <2>4, <3>2
    <3>5. Has(pool, got.pal[j]) BY <2>6, <3>3, <3>4 DEF TakenIn
    <3> QED BY <3>2, <3>5
  <2> QED BY <2>4, <2>7, <2>8, <2>10, <2>11 DEF p, r
<1> QED BY <1>9, <1>10

LEMMA HasMore ==
  ASSUME NEW a, NEW b, DOMAIN a = 1 .. Len(a), DOMAIN b = 1 .. Len(b), Len(a) \in Nat, Len(b) \in Nat, Longer(a, b), NEW c, Has(a, c)
  PROVE  Has(b, c)
<1>1. PICK j \in DOMAIN a : a[j] = c BY DEF Has
<1>2. j \in DOMAIN b /\ b[j] = a[j] BY DEF Longer
<1> QED BY <1>1, <1>2 DEF Has

\* What is kept of the first pictures.
KeptOf(o, k, of) ==
  /\ k \in KeptStates(o) /\ Longer(Coloured(o), k.pool)
  /\ Len(k.px) = Len(of)
  /\ \A i \in 1 .. Len(of) : InPool(o, k.pool, ScaledOf(OwnerOf(o).images[i], of[i]), k.px[i])

LEMMA NextKeptIs ==
  ASSUME NEW o \in Owners, NEW of \in Seq(Versions), Len(of) + 1 \in DOMAIN OwnerOf(o).images,
         NEW k, KeptOf(o, k, of), NEW v \in Versions
  PROVE  KeptOf(o, NextKept(o, k, Len(of) + 1, v), Append(of, v))
<1> DEFINE n == Len(of)
           r == NextKept(o, k, n + 1, v)
           of2 == Append(of, v)
           P(i, w) == ScaledOf(OwnerOf(o).images[i], w)
<1>1. k \in KeptStates(o) BY DEF KeptOf
<1>2. r \in KeptStates(o) /\ Longer(k.pool, r.pool)
      /\ \E px \in Seq(Colour) : r.px = Append(k.px, px) /\ InPool(o, r.pool, P(n + 1, v), px)
  BY <1>1, PictureAdded
<1>3. PICK px \in Seq(Colour) : r.px = Append(k.px, px) /\ InPool(o, r.pool, P(n + 1, v), px) BY <1>2
<1>4. n \in Nat /\ Len(of2) = n + 1 /\ of2[n + 1] = v /\ \A i \in 1 .. n : of2[i] = of[i] OBVIOUS
<1> HIDE DEF r, of2, P
<1>5. k.px \in Seq(Seq(Colour)) /\ Len(k.px) = n BY <1>1 DEF KeptOf, KeptStates
<1> DEFINE pxs == k.px
<1>6. pxs \in Seq(Seq(Colour)) /\ Len(pxs) = n /\ r.px = Append(pxs, px) BY <1>3, <1>5
<1> HIDE DEF pxs
<1>7. Len(r.px) = n + 1 /\ r.px[n + 1] = px /\ \A i \in 1 .. n : r.px[i] = pxs[i] BY <1>4, <1>6
<1> DEFINE a == k.pool
           b == r.pool
<1>8. a \in Seq(Colour) /\ b \in Seq(Colour) /\ Len(b) <= RoomOf(OwnerOf(o).type) BY <1>1, <1>2 DEF KeptStates, PoolsOf
<1>9. Longer(a, b) /\ Longer(Coloured(o), a) BY <1>2 DEF KeptOf
<1>10. Coloured(o) \in Seq(Colour) BY ColouredIs DEF PoolsOf
<1>11. RoomOf(OwnerOf(o).type) \in Nat BY RoomIs
<1>12. \A i \in 1 .. n : InPool(o, a, P(i, of[i]), pxs[i]) BY DEF KeptOf, P, pxs
<1> HIDE DEF a, b
<1>13. DOMAIN a = 1 .. Len(a) /\ DOMAIN b = 1 .. Len(b) /\ Len(a) \in Nat /\ Len(b) \in Nat /\ Len(a) <= Len(b) BY <1>8, <1>9 DEF Longer
<1>14. Longer(Coloured(o), b)
  <2> DEFINE c == Coloured(o)
  <2>1. Len(c) \in Nat BY <1>10
  <2>2. Len(c) <= Len(a) /\ (\A i \in 1 .. Len(c) : a[i] = c[i]) /\ \A i \in 1 .. Len(a) : b[i] = a[i] BY <1>9 DEF Longer
  <2> HIDE DEF c
  <2>3. Longer(c, b) BY <1>13, <2>1, <2>2 DEF Longer
  <2> QED BY <2>3 DEF c
<1>15. ASSUME NEW i \in 1 .. n + 1 PROVE InPool(o, b, P(i, of2[i]), r.px[i])
  <2>1. CASE i = n + 1 BY <1>3, <1>4, <1>7, <2>1 DEF b
  <2>2. CASE i # n + 1
    <3>1. i \in 1 .. n BY <1>4, <2>2
    <3>2. InPool(o, a, P(i, of[i]), pxs[i]) BY <1>12, <3>1
    <3>3. r.px[i] = pxs[i] /\ of2[i] = of[i] BY <1>4, <1>7, <3>1
    <3>4. InPool(o, b, P(i, of[i]), pxs[i])
      <4> SUFFICES ASSUME Len(b) + 1 < RoomOf(OwnerOf(o).type), Samples(P(i, of[i])) # <<>>, NEW x \in DOMAIN pxs[i], Seen(pxs[i][x])
                   PROVE  Has(b, pxs[i][x])
        BY DEF InPool
      <4>1. Len(a) + 1 < RoomOf(OwnerOf(o).type) BY <1>11, <1>13
      <4>2. Has(a, pxs[i][x]) BY <3>2, <4>1 DEF InPool
      <4> QED BY <1>9, <1>13, <4>2, HasMore
    <3> QED BY <3>3, <3>4
  <2> QED BY <2>1, <2>2
<1>16. KeptOf(o, r, of2) BY <1>2, <1>4, <1>7, <1>14, <1>15 DEF KeptOf, P, b
<1> QED BY <1>16 DEF r, of2

Chain(o, of, h) ==
  /\ h \in [0 .. Len(of) -> KeptStates(o)]
  /\ h[0] = [pool |-> Coloured(o), px |-> <<>>]
  /\ \A i \in 1 .. Len(of) : h[i] = NextKept(o, h[i - 1], i, of[i])

LEMMA FreshIs ==
  ASSUME NEW o \in Owners, NEW of \in Seq(Versions), Len(of) <= Len(OwnerOf(o).images)
  PROVE  \E h : Chain(o, of, h) /\ Fresh(o, of) = h[Len(of)]
<1> DEFINE N == Len(of)
           D == KeptStates(o)
           init == [pool |-> Coloured(o), px |-> <<>>]
           E(k, v) == NextKept(o, v, k, of[k])
           step == [x \in (1 .. N) \X D |-> E(x[1], x[2])]
           F == CHOOSE h : h = [k \in 0 .. N |-> IF k = 0 THEN init ELSE E(k, h[k - 1])]
<1>1. N \in Nat /\ init \in D
  <2>1. Coloured(o) \in PoolsOf(OwnerOf(o).type) BY ColouredIs
  <2>2. <<>> \in Seq(Seq(Colour)) OBVIOUS
  <2> QED BY <2>1, <2>2 DEF KeptStates
<1>2. ASSUME NEW k \in 1 .. N, NEW v \in D PROVE E(k, v) \in D
  <2>1. of[k] \in Versions OBVIOUS
  <2>2. k \in DOMAIN OwnerOf(o).images
    <3> DEFINE s == OwnerOf(o).images
    <3>1. s \in Seq(Images) /\ N <= Len(s) BY OwnersAre
    <3> HIDE DEF s, N
    <3>2. k \in DOMAIN s BY <1>1, <3>1
    <3> QED BY <3>2 DEF s
  <2> QED BY <2>1, <2>2, PictureAdded
<1>3. step \in [(1 .. N) \X D -> D]
  <2> HIDE DEF N, D, E
  <2>1. \A x \in (1 .. N) \X D : E(x[1], x[2]) \in D BY <1>2
  <2> QED BY <2>1
<1>4. PICK g : Stepwise(g, N, D, init, step)
  <2> HIDE DEF N, D, init, step
  <2> QED BY <1>1, <1>3, StepByStep
<1>5. F = [k \in 0 .. N |-> IF k = 0 THEN init ELSE E(k, F[k - 1])]
  <2> HIDE DEF N, D, init, E
  <2>1. g = [k \in 0 .. N |-> IF k = 0 THEN init ELSE E(k, g[k - 1])]
    <3>1. g \in [0 .. N -> D] /\ g[0] = init /\ \A k \in 1 .. N : g[k] = step[<<k, g[k - 1]>>] BY <1>4 DEF Stepwise
    <3>2. \A k \in 0 .. N : k # 0 => k \in 1 .. N /\ k - 1 \in 0 .. N BY <1>1
    <3>3. \A k \in 0 .. N : g[k] = IF k = 0 THEN init ELSE E(k, g[k - 1]) BY <3>1, <3>2
    <3> QED BY <3>1, <3>3
  <2> QED BY <2>1
<1>6. Stepwise(F, N, D, init, step)
  <2> HIDE DEF N, D, init, E, F
  <2>1. 0 \in 0 .. N /\ \A k \in 1 .. N : k \in 0 .. N /\ k # 0 BY <1>1
  <2>2. DOMAIN F = 0 .. N /\ F = [k \in 0 .. N |-> F[k]] /\ F[0] = init BY <1>5, <2>1
  <2>3. \A k \in 1 .. N : F[k - 1] \in D => F[k] = step[<<k, F[k - 1]>>] BY <1>5, <2>1
  <2> HIDE DEF step
  <2> QED BY <1>1, <1>3, <2>2, <2>3, Computes
<1>7. Fresh(o, of) = F[N] BY DEF Fresh, NextKept
<1>8. Chain(o, of, F)
  <2> HIDE DEF D, F, E
  <2>1. F \in [0 .. N -> D] /\ F[0] = init BY <1>6 DEF Stepwise
  <2>2. \A k \in 1 .. N : F[k] = E(k, F[k - 1])
    <3> HIDE DEF N, init
    <3>1. \A k \in 1 .. N : k - 1 \in 0 .. N BY <1>1
    <3> QED BY <1>1, <1>6, <3>1 DEF Stepwise
  <2> QED BY <2>1, <2>2 DEF Chain, D, E
<1> QED BY <1>7, <1>8

LEMMA FreshNone == ASSUME NEW o \in Owners PROVE Fresh(o, <<>>) = [pool |-> Coloured(o), px |-> <<>>]
<1> DEFINE e == <<>>
<1>1. e \in Seq(Versions) /\ Len(e) = 0 OBVIOUS
<1>2. Len(OwnerOf(o).images) \in Nat BY OwnersAre
<1> HIDE DEF e
<1>3. e \in Seq(Versions) /\ Len(e) <= Len(OwnerOf(o).images) BY <1>1, <1>2
<1>4. PICK h : Chain(o, e, h) /\ Fresh(o, e) = h[Len(e)] BY <1>3, FreshIs
<1> QED BY <1>1, <1>4 DEF Chain, e

LEMMA FreshNext ==
  ASSUME NEW o \in Owners, NEW of \in Seq(Versions), Len(of) + 1 <= Len(OwnerOf(o).images), NEW v \in Versions
  PROVE  Fresh(o, Append(of, v)) = NextKept(o, Fresh(o, of), Len(of) + 1, v)
<1> DEFINE n == Len(of)
           of2 == Append(of, v)
<1>1. n \in Nat /\ of2 \in Seq(Versions) /\ Len(of2) = n + 1 /\ of2[n + 1] = v /\ \A i \in 1 .. n : of2[i] = of[i] OBVIOUS
<1>2. Len(OwnerOf(o).images) \in Nat BY OwnersAre
<1>3. n <= Len(OwnerOf(o).images) /\ Len(of2) <= Len(OwnerOf(o).images) BY <1>1, <1>2
<1>4. PICK g : Chain(o, of, g) /\ Fresh(o, of) = g[n] BY <1>3, FreshIs
<1> HIDE DEF of2
<1>5. PICK h : Chain(o, of2, h) /\ Fresh(o, of2) = h[Len(of2)] BY <1>1, <1>3, FreshIs
<1> HIDE DEF n
<1>6. /\ g[0] = h[0] /\ \A i \in 1 .. n : g[i] = NextKept(o, g[i - 1], i, of[i])
      /\ \A i \in 1 .. n + 1 : h[i] = NextKept(o, h[i - 1], i, of2[i])
  BY <1>1, <1>4, <1>5 DEF Chain, n
<1> DEFINE T == {i \in 0 .. n : h[i] = g[i]}
<1>7. 0 \in T BY <1>1, <1>6
<1>8. \A i \in 1 .. n : i - 1 \in T => i \in T
  <2> SUFFICES ASSUME NEW i \in 1 .. n, i - 1 \in T PROVE i \in T OBVIOUS
  <2>1. i \in 1 .. n + 1 /\ of2[i] = of[i] BY <1>1
  <2>2. h[i - 1] = g[i - 1] OBVIOUS
  <2>3. h[i] = g[i] BY <1>6, <2>1, <2>2
  <2> QED BY <1>1, <2>3
<1> HIDE DEF T
<1>9. \A i \in 0 .. n : i \in T BY <1>1, <1>7, <1>8, UpTo, Zenon
<1>10. h[n] = g[n] BY <1>1, <1>9 DEF T
<1>11. n + 1 \in 1 .. n + 1 /\ (n + 1) - 1 = n BY <1>1
<1>12. h[n + 1] = NextKept(o, h[n], n + 1, v) BY <1>1, <1>6, <1>11
<1> QED BY <1>1, <1>4, <1>5, <1>10, <1>12 DEF of2, n

(* The invariant *)

\* What was kept of an owner is what the pictures as they were read are cut down to.
KeptTyped ==
  /\ kept = [o \in Owners |-> kept[o]]
  /\ \A o \in Owners :
       \/ kept[o] = NotKept
       \/ /\ kept[o] = [pool |-> kept[o].pool, px |-> kept[o].px, of |-> kept[o].of]
          /\ kept[o].of \in Seq(Versions) /\ Len(kept[o].of) <= Len(OwnerOf(o).images)
          /\ Fresh(o, kept[o].of) = [pool |-> kept[o].pool, px |-> kept[o].px]
          /\ KeptOf(o, [pool |-> kept[o].pool, px |-> kept[o].px], kept[o].of)

\* A file that can be read holds what the picture of its version is cut down to.
FileHolds(img, quota, files) ==
  /\ files = [pal |-> files.pal, idx |-> files.idx]
  /\ files.pal.of # 0 =>
       /\ files.pal.of \in Versions /\ files.pal.pal # <<>>
       /\ files.pal.pal = Computed(ScaledOf(img, files.pal.of), quota).pal
  /\ files.idx.of # 0 =>
       files.idx.of \in Versions /\ files.idx.idx = Computed(ScaledOf(img, files.idx.of), quota).idx

FilesHold ==
  \A o \in Owners : \A i \in DOMAIN OwnerOf(o).images : \A quota \in Nat \ {0} :
    FileHolds(OwnerOf(o).images[i], quota, FilesOf(OwnerOf(o).images[i].path, quota))

\* What was looked up is near in the palette as it is.
LookedUp(key, entry) == entry \in 0 .. Entries - 2 /\ \E c \in Bucket(key) : entry = Nearest(Usable, c) - 1

\* The palette is that of the owner in view.
InPlace ==
  \/ inView = NoOwner
  \/ /\ inView \in Owners /\ kept[inView] # NotKept /\ Len(kept[inView].of) = Len(OwnerOf(inView).images)
     /\ \A i \in DOMAIN kept[inView].pool : table[BaseOf(OwnerOf(inView).type) + i - 1] = kept[inView].pool[i]
     /\ OwnerOf(inView).type # "image" => \A i \in DOMAIN Baked : table[i - 1] = Baked[i]
     /\ \A key \in DOMAIN lut : LookedUp(key, lut[key])

PicInv ==
  /\ media \in [Paths -> Versions]
  /\ table \in [0 .. Entries - 1 -> Colour]
  /\ KeptTyped /\ FilesHold /\ InPlace

Start(o) == [pool |-> Coloured(o), px |-> <<>>, of |-> <<>>]

\* what is kept of one owner
OneKept(o, k) ==
  \/ k = NotKept
  \/ /\ k = [pool |-> k.pool, px |-> k.px, of |-> k.of]
     /\ k.of \in Seq(Versions) /\ Len(k.of) <= Len(OwnerOf(o).images)
     /\ Fresh(o, k.of) = [pool |-> k.pool, px |-> k.px]
     /\ KeptOf(o, [pool |-> k.pool, px |-> k.px], k.of)

LEMMA StartKept == ASSUME NEW o \in Owners PROVE OneKept(o, Start(o)) /\ Start(o) # NotKept
<1> DEFINE k == [pool |-> Coloured(o), px |-> <<>>]
           e == <<>>
<1>1. Coloured(o) \in PoolsOf(OwnerOf(o).type) BY ColouredIs
<1>2. Len(OwnerOf(o).images) \in Nat BY OwnersAre
<1>3. Fresh(o, e) = k BY FreshNone
<1>4. Start(o) = [pool |-> Coloured(o), px |-> e, of |-> e] BY DEF Start
<1>5. Start(o).pool = Coloured(o) /\ Start(o).px = e /\ Start(o).of = e BY <1>4
<1>6. e \in Seq(Versions) /\ e \in Seq(Seq(Colour)) /\ Len(e) = 0 /\ e # << 0 >> OBVIOUS
<1>7. Longer(Coloured(o), Coloured(o))
  <2>1. Len(Coloured(o)) \in Nat BY <1>1 DEF PoolsOf
  <2> QED BY <2>1 DEF Longer
<1>8. KeptOf(o, k, e)
  <2> DEFINE pool == Coloured(o)
  <2>1. k = [pool |-> pool, px |-> e] OBVIOUS
  <2> HIDE DEF e, k, pool
  <2>2. k.pool = pool /\ k.px = e BY <2>1
  <2>3. k \in KeptStates(o) BY <1>1, <1>6, <2>1 DEF KeptStates, pool
  <2> QED BY <1>6, <1>7, <2>2, <2>3 DEF KeptOf, pool
<1>9. NotKept.of = << 0 >> BY DEF NotKept
<1>10. [pool |-> Start(o).pool, px |-> Start(o).px] = k BY <1>5
<1> HIDE DEF e, k
<1>11. Start(o).of \in Seq(Versions) /\ Len(Start(o).of) <= Len(OwnerOf(o).images) BY <1>2, <1>5, <1>6
<1>12. Start(o) = [pool |-> Start(o).pool, px |-> Start(o).px, of |-> Start(o).of] BY <1>4, <1>5
<1>13. OneKept(o, Start(o)) BY <1>3, <1>5, <1>8, <1>10, <1>11, <1>12 DEF OneKept
<1> QED BY <1>5, <1>6, <1>9, <1>13

LEMMA BakedTableIs == BakedTable \in [0 .. Entries - 1 -> Colour]
<1>1. <<255, 0>> \in Colour /\ Nothing \in Colour BY DEF Colour, Nothing
<1>2. \A i \in 0 .. Entries - 1 : i < Len(Baked) => Baked[i + 1] \in Colour
  <2>1. Len(Baked) \in Nat /\ DOMAIN Baked = 1 .. Len(Baked) BY Sizes
  <2> SUFFICES ASSUME NEW i \in 0 .. Entries - 1, i < Len(Baked) PROVE Baked[i + 1] \in Colour OBVIOUS
  <2>2. i + 1 \in DOMAIN Baked BY <2>1, Sizes
  <2> QED BY <2>2, Sizes
<1> QED BY <1>1, <1>2 DEF BakedTable

LEMMA NoFilesHold == ASSUME NEW img, NEW quota PROVE FileHolds(img, quota, [pal |-> NoFile, idx |-> NoFile])
<1>1. NoFile.of = 0 BY DEF NoFile
<1> QED BY <1>1 DEF FileHolds

LEMMA PicStarts == ASSUME PicInit PROVE PicInv
<1>1. media \in [Paths -> Versions] BY PicturesAssumption DEF PicInit
<1>2. table \in [0 .. Entries - 1 -> Colour] BY BakedTableIs DEF PicInit
<1>3. KeptTyped
  <2>1. kept = [o \in Owners |-> NotKept] BY DEF PicInit
  <2> QED BY <2>1 DEF KeptTyped
<1>4. FilesHold
  <2>1. \A path, quota : FilesOf(path, quota) = [pal |-> NoFile, idx |-> NoFile] BY DEF FilesOf, PicInit
  <2> QED BY <2>1, NoFilesHold DEF FilesHold
<1>5. InPlace BY DEF PicInit, InPlace
<1> QED BY <1>1, <1>2, <1>3, <1>4, <1>5 DEF PicInv

LEMMA KeptOne ==
  ASSUME KeptTyped, NEW o \in Owners
  PROVE  OneKept(o, kept[o]) /\ (kept[o] = NotKept <=> kept[o].of = << 0 >>)
<1>1. OneKept(o, kept[o]) BY DEF KeptTyped, OneKept
<1>2. NotKept.of = << 0 >> BY DEF NotKept
<1>3. 0 \notin Versions BY PicturesAssumption
<1>4. << 0 >> \notin Seq(Versions)
  <2> DEFINE s == << 0 >>
  <2> SUFFICES ASSUME s \in Seq(Versions) PROVE FALSE OBVIOUS
  <2>1. s \in Seq(Versions) /\ 1 \in DOMAIN s /\ s[1] = 0 OBVIOUS
  <2> HIDE DEF s
  <2>2. s[1] \in Versions BY <2>1
  <2> QED BY <1>3, <2>1, <2>2
<1> QED BY <1>1, <1>2, <1>4 DEF OneKept

\* Something else is kept of an owner who is not in view.
LEMMA KeptChanges ==
  ASSUME KeptTyped, NEW o \in Owners, NEW k, OneKept(o, k), kept' = [kept EXCEPT ![o] = k]
  PROVE  KeptTyped' /\ (inView # o /\ InPlace /\ UNCHANGED <<table, lut, inView>> => InPlace')
<1>1. kept = [q \in Owners |-> kept[q]] BY DEF KeptTyped
<1>2. kept' = [q \in Owners |-> IF q = o THEN k ELSE kept[q]] BY <1>1
<1>3. kept'[o] = k /\ \A q \in Owners : q # o => kept'[q] = kept[q] BY <1>2
<1>4. \A q \in Owners : OneKept(q, kept'[q]) BY <1>3, KeptOne
<1>5. KeptTyped'
  <2>1. kept' = [q \in Owners |-> kept'[q]] BY <1>2
  <2> QED BY <1>4, <2>1 DEF KeptTyped, OneKept
<1>6. ASSUME inView # o, InPlace, UNCHANGED <<table, lut, inView>> PROVE InPlace'
  <2>1. CASE inView = NoOwner BY <1>6, <2>1 DEF InPlace
  <2>2. CASE inView # NoOwner
    <3>1. inView \in Owners /\ kept'[inView] = kept[inView] BY <1>3, <1>6, <2>2 DEF InPlace
    <3>2. \A key, entry : LookedUp(key, entry)' <=> LookedUp(key, entry) BY <1>6 DEF LookedUp, Usable
    <3> QED BY <1>6, <2>2, <3>1, <3>2 DEF InPlace
  <2> QED BY <2>1, <2>2
<1> QED BY <1>5, <1>6
\* What lies in one place is scaled in one way.
LEMMA OneScale ==
  ASSUME NEW o \in Owners, NEW i \in DOMAIN OwnerOf(o).images, NEW q \in Owners, NEW j \in DOMAIN OwnerOf(q).images,
         OwnerOf(q).images[j].path = OwnerOf(o).images[i].path
  PROVE  OwnerOf(q).images[j].up = OwnerOf(o).images[i].up /\ OwnerOf(q).images[j].down = OwnerOf(o).images[i].down
<1>1. \A a, b \in Owners : \A x \in DOMAIN OwnerOf(a).images, y \in DOMAIN OwnerOf(b).images :
        OwnerOf(a).images[x].path = OwnerOf(b).images[y].path
          => OwnerOf(a).images[x].up = OwnerOf(b).images[y].up /\ OwnerOf(a).images[x].down = OwnerOf(b).images[y].down
  BY PicturesAssumption
<1> QED BY <1>1

LEMMA FilesAfter ==
  ASSUME NEW path, NEW quota, NEW left, cache' = Put(cache, <<path, quota>>, left)
  PROVE  /\ FilesOf(path, quota)' = left
         /\ \A a, b : <<a, b>> # <<path, quota>> => FilesOf(a, b)' = FilesOf(a, b)
<1>1. DOMAIN cache' = DOMAIN cache \cup {<<path, quota>>} BY DEF Put
<1>2. cache'[<<path, quota>>] = left BY DEF Put
<1>3. \A x \in DOMAIN cache : x # <<path, quota>> => cache'[x] = cache[x] BY DEF Put
<1> QED BY <1>1, <1>2, <1>3 DEF FilesOf

\* Whatever storing leaves can be trusted where it can be read.
LEMMA StoredHold ==
  ASSUME NEW img, NEW quota, NEW v \in Versions, NEW files, FileHolds(img, quota, files),
         NEW p, p = ScaledOf(img, v), NEW left \in Stored(files, v, p, Computed(p, quota))
  PROVE  FileHolds(img, quota, left)
<1> DEFINE got == Computed(p, quota)
           pal == PalFile(v, got)
           idx == IdxFile(v, p, got)
<1>1. pal.of = v /\ pal.pal = got.pal BY DEF PalFile
<1>2. idx.of = v /\ idx.idx = got.idx BY DEF IdxFile
<1>3. NoFile.of = 0 BY DEF NoFile
<1>4. files = [pal |-> files.pal, idx |-> files.idx] BY DEF FileHolds
<1>5. got.pal = Computed(ScaledOf(img, v), quota).pal /\ got.idx = Computed(ScaledOf(img, v), quota).idx OBVIOUS
<1>6. CASE got.pal = <<>> BY <1>6 DEF Stored
<1>7. CASE got.pal # <<>>
  <2> HIDE DEF got, pal, idx
  <2>1. \/ left = files \/ left = [files EXCEPT !.pal = NoFile] \/ left = [files EXCEPT !.pal = pal]
        \/ left = [pal |-> pal, idx |-> NoFile] \/ left = [pal |-> pal, idx |-> idx]
    BY <1>7 DEF Stored, got, pal, idx
  <2>2. CASE left = files BY <2>2
  <2>3. CASE left = [files EXCEPT !.pal = NoFile]
    <3>1. left = [pal |-> NoFile, idx |-> files.idx] BY <1>4, <2>3
    <3>2. left.pal = NoFile /\ left.idx = files.idx BY <3>1
    <3> QED BY <1>3, <3>1, <3>2 DEF FileHolds
  <2>4. CASE left = [files EXCEPT !.pal = pal]
    <3>1. left = [pal |-> pal, idx |-> files.idx] BY <1>4, <2>4
    <3>2. left.pal = pal /\ left.idx = files.idx BY <3>1
    <3> QED BY <1>1, <1>5, <1>7, <3>1, <3>2 DEF FileHolds
  <2>5. CASE left = [pal |-> pal, idx |-> NoFile]
    <3>1. left.pal = pal /\ left.idx = NoFile BY <2>5
    <3> QED BY <1>1, <1>3, <1>5, <1>7, <2>5, <3>1 DEF FileHolds
  <2>6. CASE left = [pal |-> pal, idx |-> idx]
    <3>1. left.pal = pal /\ left.idx = idx BY <2>6
    <3> QED BY <1>1, <1>2, <1>5, <1>7, <2>6, <3>1 DEF FileHolds
  <2> QED BY <2>1, <2>2, <2>3, <2>4, <2>5, <2>6
<1> QED BY <1>6, <1>7

\* The first picture that is not there yet, as it is read now.
Expected(o, i) == NextKept(o, [pool |-> kept[o].pool, px |-> kept[o].px], i, media[OwnerOf(o).images[i].path])

LEMMA KeepIs ==
  ASSUME NEW o, NEW i, i = Len(kept[o].of) + 1, NEW quota, quota = Quota(o, kept[o].pool, OwnerOf(o).images[i].quota),
         NEW p, p = ScaledOf(OwnerOf(o).images[i], media[OwnerOf(o).images[i].path]),
         NEW got, ~(quota < 2) => got = Computed(p, quota), quota < 2 => got = <<>>, Keep(o, p, quota, got)
  PROVE  kept' = [kept EXCEPT ![o] = [pool |-> Expected(o, i).pool, px |-> Expected(o, i).px,
                                      of |-> Append(kept[o].of, media[OwnerOf(o).images[i].path])]]
<1> DEFINE k == [pool |-> kept[o].pool, px |-> kept[o].px]
<1>1. k.pool = kept[o].pool /\ k.px = kept[o].px OBVIOUS
<1> HIDE DEF k
<1>2. got = IF quota < 2 THEN <<>> ELSE Computed(p, quota) BY Zenon
<1>3. WithPicture(kept[o], o, p, quota, got) = WithPicture(k, o, p, quota, got) BY <1>1 DEF WithPicture
<1>4. Expected(o, i) = WithPicture(k, o, p, quota, got) BY <1>1, <1>2 DEF Expected, NextKept, k
<1> QED BY <1>3, <1>4 DEF Keep

\* Whether it is computed or read from the two files, the next picture is what it is cut down to.
LEMMA NextLoaded ==
  ASSUME PicInv, NEW o \in Owners, NEW writable, LoadNext(o, writable)
  PROVE  PicInv'
<1> DEFINE of == kept[o].of
           i == Len(of) + 1
           pict == OwnerOf(o).images[i]
           v == media[pict.path]
           p == ScaledOf(pict, v)
           quota == Quota(o, kept[o].pool, pict.quota)
           files == FilesOf(pict.path, quota)
           k == [pool |-> kept[o].pool, px |-> kept[o].px]
           r == Expected(o, i)
           k2 == [pool |-> r.pool, px |-> r.px, of |-> Append(of, v)]
<1>1. KeptTyped /\ FilesHold /\ InPlace /\ media \in [Paths -> Versions] BY DEF PicInv
<1>2. kept[o] # NotKept /\ Len(of) # Len(OwnerOf(o).images)
  <2>1. kept[o].of # << 0 >> BY DEF LoadNext
  <2> QED BY <1>1, <2>1, KeptOne DEF LoadNext, IsKept
<1>3. /\ of \in Seq(Versions) /\ Len(of) <= Len(OwnerOf(o).images)
      /\ Fresh(o, of) = k /\ KeptOf(o, k, of)
  BY <1>1, <1>2, KeptOne DEF OneKept
<1>4. Len(of) \in Nat /\ Len(OwnerOf(o).images) \in Nat /\ i \in DOMAIN OwnerOf(o).images /\ i <= Len(OwnerOf(o).images)
  <2> DEFINE s == OwnerOf(o).images
  <2>1. s \in Seq(Images) BY OwnersAre
  <2>2. Len(of) \in Nat BY <1>3
  <2>3. Len(of) <= Len(s) /\ Len(of) # Len(s) BY <1>2, <1>3
  <2> HIDE DEF s, of
  <2> QED BY <2>1, <2>2, <2>3 DEF s
<1>5. pict \in Images BY <1>4, ImageIs
<1>6. v \in Versions
  <2>1. pict.path \in Paths BY <1>5 DEF Images
  <2> QED BY <1>1, <2>1
<1>7. IsPicture(p) BY <1>4, <1>6, ScaledIs
<1>8. quota \in Int
  <2>1. Len(kept[o].pool) \in Nat
    <3>1. k \in KeptStates(o) BY <1>3 DEF KeptOf
    <3>2. k.pool \in PoolsOf(OwnerOf(o).type) BY <3>1 DEF KeptStates
    <3> QED BY <3>2 DEF PoolsOf
  <2>2. RoomOf(OwnerOf(o).type) \in Nat BY RoomIs
  <2> HIDE DEF pict
  <2>3. pict.quota \in Nat BY <1>5 DEF Images
  <2> QED BY <2>1, <2>2, <2>3 DEF Quota
<1>9. inView # o BY <1>1, <1>2, OwnersAre DEF InPlace
<1>10. OneKept(o, k2)
  <2> HIDE DEF v, k, of
  <2>1. r = NextKept(o, k, Len(of) + 1, v) BY DEF Expected, v, k
  <2>2. KeptOf(o, r, Append(of, v)) BY <1>3, <1>4, <1>6, <2>1, NextKeptIs
  <2>3. Fresh(o, Append(of, v)) = r BY <1>3, <1>4, <1>6, <2>1, FreshNext
  <2> HIDE DEF r, i
  <2>4. r \in KeptStates(o) BY <2>2 DEF KeptOf
  <2>5. r = [pool |-> r.pool, px |-> r.px] BY <2>4 DEF KeptStates
  <2>6. Append(of, v) \in Seq(Versions) /\ Len(Append(of, v)) = i BY <1>3, <1>6 DEF i
  <2>7. k2.pool = r.pool /\ k2.px = r.px /\ k2.of = Append(of, v) OBVIOUS
  <2> HIDE DEF k2
  <2>8. k2 = [pool |-> k2.pool, px |-> k2.px, of |-> k2.of] BY <2>7 DEF k2
  <2> QED BY <1>4, <2>2, <2>3, <2>5, <2>6, <2>7, <2>8 DEF OneKept
<1>11. LoadOrQuantize(o, pict.path, p, quota, writable) /\ UNCHANGED <<media, table, lut, inView, looked>> BY DEF LoadNext
<1>12. ASSUME quota >= 2 PROVE quota \in Nat \ {0} /\ FileHolds(pict, quota, files)
  <2>1. quota \in Nat \ {0} BY <1>8, <1>12
  <2> QED BY <1>1, <1>4, <2>1 DEF FilesHold
<1>13. kept' = [kept EXCEPT ![o] = k2] /\ (cache' = cache \/ (quota >= 2 /\ \E left \in Stored(files, v, p, Computed(p, quota)) \cup {files} : cache' = Put(cache, <<pict.path, quota>>, left)))
  <2> DEFINE Kept2 == kept' = [kept EXCEPT ![o] = k2]
  <2>0. ASSUME NEW got, ~(quota < 2) => got = Computed(p, quota), quota < 2 => got = <<>>, Keep(o, p, quota, got) PROVE Kept2
    <3> HIDE DEF p, quota, i
    <3> QED BY <1>8, <2>0, KeepIs DEF i, p, quota
  <2> HIDE DEF Kept2, p, quota, v, files, pict
  <2>1. CASE quota < 2 /\ Keep(o, p, quota, <<>>) /\ UNCHANGED cache
    <3>1. Kept2 BY <1>8, <2>0, <2>1
    <3> QED BY <2>1, <3>1 DEF Kept2
  <2>2. CASE quota >= 2 /\ Hit(files, v, p) /\ Keep(o, p, quota, Shown(files.idx.idx, files.pal.pal)) /\ UNCHANGED cache
    <3>1. 0 \notin Versions BY PicturesAssumption
    <3>2. files.pal.of = v /\ files.idx.of = v /\ v # 0 BY <1>6, <2>2, <3>1 DEF Hit
    <3> DEFINE got == Computed(p, quota)
    <3>3. files.pal.pal = got.pal /\ files.idx.idx = got.idx /\ got.pal # <<>> BY <1>12, <2>2, <3>2 DEF FileHolds, p
    <3>4. Result(p, got) BY <1>7, <1>12, <2>2, ComputedIs
    <3>5. got = Shown(got.idx, got.pal) BY <3>3, <3>4 DEF Result
    <3>6. Keep(o, p, quota, got) BY <2>2, <3>3, <3>5
    <3>7. Kept2 BY <1>8, <2>0, <2>2, <3>6
    <3> QED BY <2>2, <3>7 DEF Kept2
  <2>3. CASE /\ quota >= 2 /\ Keep(o, p, quota, Computed(p, quota))
             /\ \E left \in IF writable THEN Stored(files, v, p, Computed(p, quota)) ELSE {files} : cache' = Put(cache, <<pict.path, quota>>, left)
    <3>1. Kept2 BY <1>8, <2>0, <2>3
    <3>2. \E left \in Stored(files, v, p, Computed(p, quota)) \cup {files} : cache' = Put(cache, <<pict.path, quota>>, left) BY <2>3
    <3> QED BY <2>3, <3>1, <3>2 DEF Kept2
  <2> QED BY <1>11, <2>1, <2>2, <2>3 DEF LoadOrQuantize, v, files
<1>14. KeptTyped' /\ InPlace'
  <2> HIDE DEF k2
  <2> QED BY <1>1, <1>9, <1>10, <1>11, <1>13, KeptChanges
<1>15. FilesHold'
  <2>1. CASE cache' = cache
    <3>1. \A a, b : FilesOf(a, b)' = FilesOf(a, b) BY <2>1 DEF FilesOf
    <3> QED BY <1>1, <3>1 DEF FilesHold
  <2>2. ASSUME quota >= 2, NEW left \in Stored(files, v, p, Computed(p, quota)) \cup {files}, cache' = Put(cache, <<pict.path, quota>>, left)
        PROVE  FilesHold'
    <3> SUFFICES ASSUME NEW q \in Owners, NEW j \in DOMAIN OwnerOf(q).images, NEW n \in Nat \ {0}
                 PROVE  FileHolds(OwnerOf(q).images[j], n, FilesOf(OwnerOf(q).images[j].path, n)')
      BY DEF FilesHold
    <3> DEFINE img == OwnerOf(q).images[j]
    <3>1. FileHolds(img, n, FilesOf(img.path, n)) BY <1>1 DEF FilesHold
    <3>2. CASE <<img.path, n>> # <<pict.path, quota>>
      <4>1. FilesOf(img.path, n)' = FilesOf(img.path, n)
        <5> HIDE DEF img, pict, quota, p, v, files
        <5> QED BY <2>2, <3>2, FilesAfter
      <4> QED BY <3>1, <4>1
    <3>3. CASE <<img.path, n>> = <<pict.path, quota>>
      <4>1. img.path = pict.path /\ n = quota BY <3>3
      <4>2. img.up = pict.up /\ img.down = pict.down BY <1>4, <4>1, OneScale
      <4>3. p = ScaledOf(img, v) BY <4>1, <4>2 DEF ScaledOf
      <4>4. FilesOf(img.path, n)' = left
        <5> HIDE DEF img, pict, quota, p, v, files
        <5> QED BY <2>2, <4>1, FilesAfter
      <4>5. FileHolds(img, quota, files) BY <3>1, <4>1
      <4> HIDE DEF img, pict, quota, p, v, files
      <4>6. FileHolds(img, quota, left) BY <1>6, <2>2, <4>3, <4>5, StoredHold
      <4> QED BY <4>1, <4>4, <4>6 DEF img
    <3> QED BY <3>2, <3>3
  <2> QED BY <1>13, <2>1, <2>2
<1>16. media' \in [Paths -> Versions] /\ table' \in [0 .. Entries - 1 -> Colour] BY <1>1, <1>11 DEF PicInv
<1> QED BY <1>14, <1>15, <1>16 DEF PicInv

LEMMA InViewKept ==
  ASSUME PicInv, NEW o \in Owners, kept[o] # NotKept
  PROVE  /\ kept[o].pool \in Seq(Colour) /\ Len(kept[o].pool) <= RoomOf(OwnerOf(o).type) /\ kept[o].px \in Seq(Seq(Colour))
         /\ Longer(Coloured(o), kept[o].pool)
<1> DEFINE k == [pool |-> kept[o].pool, px |-> kept[o].px]
<1>1. KeptOf(o, k, kept[o].of) BY KeptOne DEF PicInv, OneKept
<1>2. k.pool = kept[o].pool /\ k.px = kept[o].px OBVIOUS
<1> HIDE DEF k
<1>3. k \in KeptStates(o) /\ Longer(Coloured(o), k.pool) BY <1>1 DEF KeptOf
<1> QED BY <1>2, <1>3 DEF KeptStates, PoolsOf

\* The palette is filled for the one who is shown.
LEMMA ShownInPlace ==
  ASSUME PicInv, NEW o \in Owners, ShowOwner(o)
  PROVE  PicInv'
<1> DEFINE type == OwnerOf(o).type
           base == BaseOf(type)
           pool == kept[o].pool
           n == Len(pool)
<1>1. UNCHANGED <<media, cache, kept>> /\ inView' = o /\ lut' = <<>> BY DEF ShowOwner, Commit
<1>2. kept[o] # NotKept /\ Len(kept[o].of) = Len(OwnerOf(o).images)
  <2>1. KeptTyped BY DEF PicInv
  <2> QED BY <2>1, KeptOne DEF ShowOwner, IsKept
<1>3. pool \in Seq(Colour) /\ n <= RoomOf(type) BY <1>2, InViewKept
<1>4. n \in Nat /\ DOMAIN pool = 1 .. n /\ \A i \in 1 .. n : pool[i] \in Colour BY <1>3
<1>5. base \in Nat /\ base + n <= Entries - 1
  <2>1. RoomOf(type) \in Nat /\ base \in Nat /\ base + RoomOf(type) = Entries - 1 BY RoomIs
  <2> HIDE DEF base, n, type
  <2> QED BY <1>3, <1>4, <2>1, Sizes
<1>6. table' = [i \in 0 .. Entries - 1 |->
                  IF i >= base /\ i < base + n THEN pool[i - base + 1]
                  ELSE IF i < Len(Baked) THEN Baked[i + 1] ELSE table[i]]
  BY DEF ShowOwner
<1>7. Len(Baked) \in Nat /\ DOMAIN Baked = 1 .. Len(Baked) /\ \A i \in 1 .. Len(Baked) : Baked[i] \in Colour BY Sizes
<1>8. type # "image" => Len(Baked) <= base BY Sizes DEF BaseOf
<1>9. table \in [0 .. Entries - 1 -> Colour] BY DEF PicInv
<1> HIDE DEF type, base, pool, n
<1>10. table' \in [0 .. Entries - 1 -> Colour]
  <2>1. ASSUME NEW i \in 0 .. Entries - 1 PROVE table'[i] \in Colour
    <3>1. CASE i >= base /\ i < base + n
      <4>1. i - base + 1 \in 1 .. n BY <1>4, <1>5, <3>1
      <4> QED BY <1>4, <1>6, <3>1, <4>1
    <3>2. CASE ~(i >= base /\ i < base + n) /\ i < Len(Baked)
      <4>1. i + 1 \in 1 .. Len(Baked) BY <1>7, <3>2
      <4> QED BY <1>6, <1>7, <3>2, <4>1
    <3>3. CASE ~(i >= base /\ i < base + n) /\ ~(i < Len(Baked)) BY <1>6, <1>9, <3>3
    <3> QED BY <3>1, <3>2, <3>3
  <2>2. table' = [i \in 0 .. Entries - 1 |-> table'[i]] BY <1>6
  <2> QED BY <2>1, <2>2
<1>11. \A i \in 1 .. n : table'[base + i - 1] = pool[i]
  <2> SUFFICES ASSUME NEW i \in 1 .. n PROVE table'[base + i - 1] = pool[i] OBVIOUS
  <2>1. base + i - 1 \in 0 .. Entries - 1 /\ base + i - 1 >= base /\ base + i - 1 < base + n /\ (base + i - 1) - base + 1 = i
    BY <1>4, <1>5, Sizes
  <2> QED BY <1>6, <2>1
<1>12. type # "image" => \A i \in DOMAIN Baked : table'[i - 1] = Baked[i]
  <2> SUFFICES ASSUME type # "image", NEW i \in 1 .. Len(Baked) PROVE table'[i - 1] = Baked[i] BY <1>7
  <2>1. i - 1 \in 0 .. Entries - 1 /\ ~(i - 1 >= base) /\ i - 1 < Len(Baked) /\ (i - 1) + 1 = i BY <1>5, <1>7, <1>8, Sizes
  <2> QED BY <1>6, <2>1
<1>13. InPlace'
  <2>1. DOMAIN lut' = {} BY <1>1
  <2>2. \A i \in DOMAIN kept'[o].pool : table'[base + i - 1] = kept'[o].pool[i] BY <1>1, <1>4, <1>11 DEF pool
  <2> QED BY <1>1, <1>2, <1>12, <2>1, <2>2 DEF InPlace, base, type
<1>14. FilesHold' /\ KeptTyped'
  <2>1. \A a, b : FilesOf(a, b)' = FilesOf(a, b) BY <1>1 DEF FilesOf
  <2> QED BY <1>1, <2>1 DEF PicInv, FilesHold, KeptTyped
<1> QED BY <1>1, <1>10, <1>13, <1>14 DEF PicInv

LEMMA UsableIs ==
  ASSUME table \in [0 .. Entries - 1 -> Colour]
  PROVE  Usable \in Seq(Colour) /\ Len(Usable) = Entries - 1 /\ Usable # <<>>
<1> DEFINE n == Entries - 1
<1>1. n \in Nat /\ n # 0 BY Sizes
<1>2. Usable = [i \in 1 .. n |-> table[i - 1]] BY DEF Usable
<1>3. \A i \in 1 .. n : table[i - 1] \in Colour BY Sizes
<1> HIDE DEF n
<1>4. Usable \in [1 .. n -> Colour] BY <1>2, <1>3
<1>5. Usable \in Seq(Colour) /\ Len(Usable) = n BY <1>1, <1>4, SequenceIs
<1> QED BY <1>1, <1>5 DEF n

LEMMA SearchedIs == ASSUME NEW c \in Colour PROVE SearchedFor(c) \in Colour /\ SearchedFor(c) \in Bucket(Key(c))
<1> DEFINE a == Alpha(c)
           v == Value(c)
<1>1. a \in Int /\ v \in Int BY DEF Colour, Alpha, Value
<1>2. CASE a >= 240
  <2>1. Key(c) = <<16, v \div 8>> /\ SearchedFor(c) = <<255, v>> BY <1>2 DEF Key, SearchedFor
  <2>2. v % 8 \in 0 .. 7 /\ v = 8 * (v \div 8) + (v % 8) BY <1>1
  <2>3. Bucket(Key(c)) = {<<255, 8 * (v \div 8) + n>> : n \in 0 .. 7} BY <2>1 DEF Bucket
  <2> HIDE DEF v, a
  <2>4. <<255, v>> \in {<<255, 8 * (v \div 8) + n>> : n \in 0 .. 7} BY <2>2
  <2> QED BY <1>1, <2>1, <2>3, <2>4 DEF Colour
<1>3. CASE ~(a >= 240)
  <2> DEFINE x == a \div 16
             y == v \div 16
  <2>1. Key(c) = <<x, y>> /\ SearchedFor(c) = <<16 * x + 8, 16 * y + 8>> BY <1>3 DEF Key, SearchedFor
  <2>2. x \in Int /\ y \in Int /\ x # 16 BY <1>1, <1>3
  <2> HIDE DEF x, y
  <2>3. Bucket(Key(c)) = {<<16 * x + 8, 16 * y + 8>>} BY <2>1, <2>2 DEF Bucket
  <2> QED BY <2>1, <2>2, <2>3 DEF Colour
<1> QED BY <1>2, <1>3

LEMMA PixelsAre == ASSUME NEW o, kept[o].px \in Seq(Seq(Colour)) PROVE PixelsOf(o) \subseteq Colour
<1> DEFINE px == kept[o].px
<1>1. ASSUME NEW i \in DOMAIN px, NEW k \in DOMAIN px[i] PROVE px[i][k] \in Colour
  <2>1. px[i] \in Seq(Colour) OBVIOUS
  <2> HIDE DEF px
  <2> QED BY <2>1
<1> QED BY <1>1 DEF PixelsOf

\* What is looked up is found in the palette as it is.
LEMMA DrawnNear ==
  ASSUME PicInv, inView # NoOwner, Draw
  PROVE  PicInv'
<1>1. PICK c \in Blended \cup PixelsOf(inView) : lut' = IF Seen(c) THEN Put(lut, Key(c), PalIndex(c)) ELSE lut BY DEF Draw
<1>2. UNCHANGED <<media, cache, kept, table, inView>> BY DEF Draw
<1>3. InPlace /\ inView \in Owners /\ kept[inView] # NotKept /\ table \in [0 .. Entries - 1 -> Colour] BY DEF PicInv, InPlace
<1>4. \A key \in DOMAIN lut : LookedUp(key, lut[key]) BY <1>3 DEF InPlace
<1>5. c \in Colour BY <1>3, InViewKept, PixelsAre, Sizes
<1>6. Seen(c) => LookedUp(Key(c), PalIndex(c))
  <2>1. CASE Seen(c) /\ Key(c) \in DOMAIN lut BY <1>4, <2>1 DEF PalIndex
  <2>2. CASE Seen(c) /\ Key(c) \notin DOMAIN lut
    <3> DEFINE d == SearchedFor(c)
               near == Nearest(Usable, d)
    <3>1. PalIndex(c) = near - 1 BY <2>2 DEF PalIndex
    <3>2. d \in Colour /\ d \in Bucket(Key(c)) BY <1>5, SearchedIs
    <3>3. near \in 1 .. Entries - 1
      <4> HIDE DEF d
      <4>1. Usable \in Seq(Colour) /\ Len(Usable) = Entries - 1 /\ Usable # <<>> BY <1>3, UsableIs
      <4>2. Nearest(Usable, d) \in 1 .. Len(Usable) BY <3>2, <4>1, NearestIs
      <4> QED BY <4>1, <4>2
    <3>4. near - 1 \in 0 .. Entries - 2
      <4> HIDE DEF near
      <4> QED BY <3>3, Sizes
    <3> HIDE DEF d
    <3> QED BY <3>1, <3>2, <3>4 DEF LookedUp
  <2> QED BY <2>1, <2>2
<1>7. \A key \in DOMAIN lut' : LookedUp(key, lut'[key])
  <2>1. CASE ~Seen(c) BY <1>1, <1>4, <2>1
  <2>2. CASE Seen(c)
    <3>1. DOMAIN lut' = DOMAIN lut \cup {Key(c)} /\ lut'[Key(c)] = PalIndex(c) BY <1>1, <2>2 DEF Put
    <3>2. \A key \in DOMAIN lut : key # Key(c) => lut'[key] = lut[key] BY <1>1, <2>2 DEF Put
    <3> QED BY <1>4, <1>6, <2>2, <3>1, <3>2
  <2> QED BY <2>1, <2>2
<1>8. InPlace'
  <2>1. \A key, entry : LookedUp(key, entry)' <=> LookedUp(key, entry) BY <1>2 DEF LookedUp, Usable
  <2> QED BY <1>2, <1>3, <1>7, <2>1 DEF InPlace
<1>9. FilesHold' /\ KeptTyped'
  <2>1. \A a, b : FilesOf(a, b)' = FilesOf(a, b) BY <1>2 DEF FilesOf
  <2> QED BY <1>2, <2>1 DEF PicInv, FilesHold, KeptTyped
<1> QED BY <1>2, <1>3, <1>8, <1>9 DEF PicInv

\* Every step.
LEMMA PicStep ==
  ASSUME PicInv, NEW cast, cast \subseteq Owners, NEW writable, [PicNext(cast, writable)]_picVars
  PROVE  PicInv'
<1>0. KeptTyped /\ FilesHold /\ InPlace /\ media \in [Paths -> Versions] /\ table \in [0 .. Entries - 1 -> Colour] BY DEF PicInv
<1>00. ASSUME UNCHANGED cache PROVE FilesHold'
  <2>1. \A a, b : FilesOf(a, b)' = FilesOf(a, b) BY <1>00 DEF FilesOf
  <2> QED BY <1>0, <2>1 DEF FilesHold
<1>1. ASSUME NEW o \in cast, LoadImage(o) /\ inView # o PROVE PicInv'
  <2>1. kept' = [kept EXCEPT ![o] = Start(o)] /\ UNCHANGED <<media, cache, table, lut, inView>> BY <1>1 DEF LoadImage, Start
  <2>2. OneKept(o, Start(o)) BY StartKept
  <2>3. KeptTyped' /\ InPlace'
    <3>1. o \in Owners OBVIOUS
    <3> QED BY <1>0, <1>1, <2>1, <2>2, <3>1, KeptChanges
  <2> QED BY <1>0, <1>00, <2>1, <2>3 DEF PicInv
<1>2. ASSUME NEW o \in cast, LoadNext(o, writable) PROVE PicInv'
  <2>1. o \in Owners OBVIOUS
  <2> QED BY <1>2, <2>1, NextLoaded
<1>3. ASSUME NEW o \in cast, ShowOwner(o) PROVE PicInv'
  <2>1. o \in Owners OBVIOUS
  <2> QED BY <1>3, <2>1, ShownInPlace
<1>4. ASSUME ReplacePicture PROVE PicInv'
  <2>1. PICK p \in Paths : media[p] + 1 \in Versions /\ media' = [media EXCEPT ![p] = @ + 1] BY <1>4 DEF ReplacePicture
  <2>2. media' \in [Paths -> Versions] BY <1>0, <2>1
  <2>3. UNCHANGED <<cache, kept, table, lut, inView>> BY <1>4 DEF ReplacePicture
  <2>4. InPlace'
    <3>1. \A key, entry : LookedUp(key, entry)' <=> LookedUp(key, entry) BY <2>3 DEF LookedUp, Usable
    <3> QED BY <1>0, <2>3, <3>1 DEF InPlace
  <2> QED BY <1>0, <1>00, <2>2, <2>3, <2>4 DEF PicInv, KeptTyped
<1>5. ASSUME PicPowerCut PROVE PicInv'
  <2>1. kept' = [o \in Owners |-> NotKept] /\ table' = BakedTable /\ inView' = NoOwner /\ UNCHANGED <<media, cache>> BY <1>5 DEF PicPowerCut
  <2>2. KeptTyped' BY <2>1 DEF KeptTyped
  <2>3. InPlace' BY <2>1 DEF InPlace
  <2> QED BY <1>0, <1>00, <2>1, <2>2, <2>3, BakedTableIs DEF PicInv
<1>6. ASSUME inView # NoOwner, Draw PROVE PicInv' BY <1>6, DrawnNear
<1>7. ASSUME UNCHANGED picVars PROVE PicInv'
  <2>1. UNCHANGED <<media, cache, kept, table, lut, inView>> BY <1>7 DEF picVars
  <2>2. InPlace'
    <3>1. \A key, entry : LookedUp(key, entry)' <=> LookedUp(key, entry) BY <2>1 DEF LookedUp, Usable
    <3> QED BY <1>0, <2>1, <3>1 DEF InPlace
  <2> QED BY <1>0, <1>00, <2>1, <2>2 DEF PicInv, KeptTyped
<1> QED BY <1>1, <1>2, <1>3, <1>4, <1>5, <1>6, <1>7 DEF PicNext

LEMMA AsFresh == ASSUME PicInv PROVE LoadedAsFresh
<1> SUFFICES ASSUME NEW o \in Owners, kept[o].of # << 0 >>, NEW fresh \in {Fresh(o, kept[o].of)}
             PROVE  /\ kept[o].pool = fresh.pool /\ kept[o].px = fresh.px
                    /\ Len(fresh.pool) <= RoomOf(OwnerOf(o).type)
                    /\ \A i \in DOMAIN fresh.px :
                          Len(fresh.pool) + 1 < RoomOf(OwnerOf(o).type) /\ Samples(ScaledOf(OwnerOf(o).images[i], kept[o].of[i])) # <<>> =>
                          \A k \in DOMAIN fresh.px[i] : Seen(fresh.px[i][k]) => \E j \in DOMAIN fresh.pool : fresh.pool[j] = fresh.px[i][k]
  BY Zenon DEF LoadedAsFresh
<1> DEFINE k == [pool |-> kept[o].pool, px |-> kept[o].px]
<1>1. kept[o] # NotKept BY KeptOne DEF PicInv
<1>2. fresh = k /\ KeptOf(o, k, kept[o].of) BY <1>1, KeptOne DEF PicInv, OneKept
<1>3. k.pool = kept[o].pool /\ k.px = kept[o].px OBVIOUS
<1>4. Len(kept[o].pool) <= RoomOf(OwnerOf(o).type) /\ kept[o].px \in Seq(Seq(Colour)) BY <1>1, InViewKept
<1> HIDE DEF k
<1>5. DOMAIN fresh.px = 1 .. Len(kept[o].of) BY <1>2, <1>3, <1>4 DEF KeptOf
<1>6. \A i \in DOMAIN fresh.px : InPool(o, fresh.pool, ScaledOf(OwnerOf(o).images[i], kept[o].of[i]), fresh.px[i])
  BY <1>2, <1>3, <1>5 DEF KeptOf
<1>7. kept[o].pool = fresh.pool /\ kept[o].px = fresh.px BY <1>2, <1>3
<1>8. ASSUME NEW i \in DOMAIN fresh.px, Len(fresh.pool) + 1 < RoomOf(OwnerOf(o).type),
             Samples(ScaledOf(OwnerOf(o).images[i], kept[o].of[i])) # <<>>,
             NEW x \in DOMAIN fresh.px[i], Seen(fresh.px[i][x])
      PROVE  \E j \in DOMAIN fresh.pool : fresh.pool[j] = fresh.px[i][x]
  BY <1>6, <1>8, Zenon DEF InPool, Has
<1> QED BY <1>4, <1>7, <1>8

LEMMA ColoursThere == ASSUME PicInv PROVE ColoursHold
<1> SUFFICES ASSUME inView # NoOwner PROVE ColoursHold BY DEF ColoursHold
<1> DEFINE type == OwnerOf(inView).type
           pool == kept[inView].pool
<1>1. /\ inView \in Owners /\ kept[inView] # NotKept
      /\ \A i \in DOMAIN pool : table[BaseOf(type) + i - 1] = pool[i]
      /\ type # "image" => \A i \in DOMAIN Baked : table[i - 1] = Baked[i]
      /\ \A key \in DOMAIN lut : LookedUp(key, lut[key])
  BY DEF PicInv, InPlace
<1>2. ASSUME NEW key \in DOMAIN lut PROVE lut[key] # Entries - 1 /\ \E c \in Bucket(key) : lut[key] = Nearest(Usable, c) - 1
  <2>1. LookedUp(key, lut[key]) BY <1>1
  <2>2. Entries \in Nat BY Sizes
  <2> QED BY <2>1, <2>2 DEF LookedUp
<1>3. ASSUME type = "arknights", NEW i \in 1 .. RampLevels(type) - 1
      PROVE  \E j \in 0 .. Entries - 2 : table[j] = <<(255 * (RampLevels(type) - i)) \div RampLevels(type), Value(OwnerOf(inView).colours[1])>>
  <2> DEFINE c == <<(255 * (RampLevels(type) - i)) \div RampLevels(type), Value(OwnerOf(inView).colours[1])>>
             a == Coloured(inView)
  <2>1. a \in PoolsOf(type) /\ ThemeIn(inView, a) BY <1>1, ColouredIs
  <2>2. Has(a, c) BY <1>3, <2>1 DEF ThemeIn, FadesIn
  <2>3. pool \in Seq(Colour) /\ Len(pool) <= RoomOf(type) /\ Longer(a, pool) BY <1>1, InViewKept
  <2> HIDE DEF a, c, pool
  <2>4. a \in Seq(Colour) BY <2>1 DEF PoolsOf
  <2>5. Has(pool, c) BY <2>2, <2>3, <2>4, HasMore
  <2>6. PICK k \in DOMAIN pool : pool[k] = c BY <2>5 DEF Has
  <2>7. table[BaseOf(type) + k - 1] = c BY <1>1, <2>6
  <2>8. k \in Nat /\ k >= 1 /\ k <= Len(pool) /\ Len(pool) \in Nat BY <2>3
  <2>9. BaseOf(type) + k - 1 \in 0 .. Entries - 2
    <3>1. RoomOf(type) \in Nat /\ BaseOf(type) \in Nat /\ BaseOf(type) + RoomOf(type) = Entries - 1 BY RoomIs
    <3> HIDE DEF type
    <3> QED BY <2>3, <2>8, <3>1, Sizes
  <2> QED BY <2>7, <2>9 DEF c
<1> QED BY <1>1, <1>2, <1>3 DEF ColoursHold

\* However often the power is cut between the two files of a picture, whatever it is
\* replaced with and whoever was shown before: what is on screen comes from the
\* pictures as they were read, in colours of the palette that is in place.
THEOREM PicturesHoldCorrect ==
  ASSUME NEW cast, cast \subseteq Owners, NEW writable
  PROVE  PicSpec(cast, writable) => []PicturesHold
<1>1. PicInit => PicInv BY PicStarts
<1>2. PicInv /\ [PicNext(cast, writable)]_picVars => PicInv' BY PicStep
<1>3. PicInv => PicturesHold BY AsFresh, ColoursThere DEF PicturesHold
<1> QED BY <1>1, <1>2, <1>3, PTL DEF PicSpec
==============================================================================
