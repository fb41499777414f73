--------------------------- MODULE ScreensProofs ---------------------------
(***************************************************************************)
(* Proofs about what the user sees, for any values of the constants.  Of   *)
(* the screens: when nothing is on its way any more, what is shown is what *)
(* was asked for, although the timers overlap and are late.  Of the lists: *)
(* each slot shows the entry it selects, and one key moves the focus by    *)
(* one entry, for any table and any number of slots from five.  Of the     *)
(* planes: what the threads ask of a plane is what it comes to, although   *)
(* the requests are taken in lots, of which only the last of each kind is  *)
(* committed.                                                              *)
(***************************************************************************)
EXTENDS Screens, Lists, Display, FiniteSetTheorems, WellFoundedInduction, TLAPS

----------------------------------------------------------------------------
(* Screens *)

Ys == {PanelY[id] : id \in ScreenIds} \cup {Intro}
SwapTyped == swap \in [to : ScreenIds \cup {"none"}, left : Int]
CurtainTyped ==
  /\ curtain \in [at : {"hidden", "down", "lifting"}, left : Int]
  /\ curtain.at # "lifting" => curtain.left = 0
MovesTyped == moves \subseteq [to : Ys, left : Nat \ {0}]
ScreensTyped ==
  /\ {current, loaded} \subseteq ScreenIds /\ SwapTyped /\ CurtainTyped /\ MovesTyped
  /\ muted \in BOOLEAN /\ parked \in BOOLEAN /\ spinning \in BOOLEAN

\* The curtain is down as long as the content waits to be changed, and the keys are
\* muted as long as it is in the way.
Curtained ==
  /\ swap # NoSwap <=> curtain = Down
  /\ muted <=> curtain # Hidden

\* What is in front is what was asked for, or is on its way.
OnItsWay ==
  /\ swap = NoSwap => loaded = current
  /\ swap # NoSwap => swap.to = current

\* The spinner is parked when it has come to rest, and built anew after it was.
Parking ==
  /\ parked <=> curtain = Hidden /\ current = Spinner
  /\ parked \/ ~spinning => Spinner \in stale

\* Of the timers that move the plane, that of the last rise is the last to end.
Arrives ==
  /\ swap # NoSwap => \A m \in moves : m.left < RiseTime + swap.left
  /\ swap = NoSwap =>
       \/ moves = {} /\ plane = PanelY[current]
       \/ \E r \in moves : /\ r.to = PanelY[current] /\ r.left <= RiseTime
                           /\ \A m \in moves \ {r} : m.left < r.left

Showing == ScreensTyped /\ Curtained /\ OnItsWay /\ Parking /\ Arrives

\* A press that nobody has read is of a key that is down, or its release follows;
\* and so for the press that LVGL was told of last.
Events == [key : Keys, value : {0, 1}]
KeysTyped ==
  /\ queue \in [Devices -> Seq(Events)]
  /\ held \subseteq Devices \X Keys
  /\ cache.state \in {"released", "pressed"} /\ cache \in [key : Keys \cup {"none"}, state : {"released", "pressed"}]
Followed ==
  \A d \in Devices : \A i \in DOMAIN queue[d] :
    queue[d][i].value = 1 =>
      \/ <<d, queue[d][i].key>> \in held
      \/ \E j \in DOMAIN queue[d] : i < j /\ queue[d][j].key = queue[d][i].key /\ queue[d][j].value = 0
ReleaseToCome == held # {} \/ \E d \in Devices : \E i \in DOMAIN queue[d] : queue[d][i].value = 0
Keyed == KeysTyped /\ Followed /\ (cache.state = "pressed" => ReleaseToCome)

ScreensInv == Showing /\ Keyed

----------------------------------------------------------------------------

LEMMA TimesAndScreens ==
  /\ DipTime \in Nat \ {0} /\ RiseTime \in Nat \ {0} /\ RetractTime \in Nat
  /\ Spinner \in ScreenIds /\ Requested \subseteq ScreenIds /\ \A id \in ScreenIds : id # "none"
  /\ {"mainmenu", "oplist", "displayimg"} \subseteq ScreenIds
  BY ScreensAssumption

LEMMA ScreensStart == ScreensInit => ScreensInv
  <1> SUFFICES ASSUME ScreensInit PROVE ScreensInv
    OBVIOUS
  <1> USE DEF ScreensInit
  <1>1. ScreensTyped
    <2>1. SwapTyped /\ CurtainTyped
      BY DEF SwapTyped, CurtainTyped, NoSwap, Hidden
    <2>2. MovesTyped /\ {current, loaded} \subseteq ScreenIds
      BY TimesAndScreens DEF MovesTyped
    <2> QED
      BY <2>1, <2>2 DEF ScreensTyped
  <1>2. Curtained /\ OnItsWay /\ Parking /\ Arrives
    BY DEF Curtained, OnItsWay, Parking, Arrives, NoSwap, Hidden, Down
  <1>3. Keyed
    <2>1. \A d \in Devices : queue[d] = <<>>
      OBVIOUS
    <2>2. KeysTyped
      BY DEF KeysTyped, Released
    <2> QED
      BY <2>1, <2>2 DEF Keyed, Followed, Released
  <1> QED
    BY <1>1, <1>2, <1>3 DEF ScreensInv, Showing

\* screen_show, whoever calls it
LEMMA ShowKeeps ==
  ASSUME Showing, NEW id \in ScreenIds, ScreenShow(id), UNCHANGED <<loaded, stale, plane>>
  PROVE  Showing'
  <1> USE DEF Showing, ScreensTyped, SwapTyped, CurtainTyped, MovesTyped
  <1>1. CASE id = current
    <2>1. UNCHANGED <<screenVars, muted>>
      BY <1>1 DEF ScreenShow, screenVars
    <2> QED
      BY <2>1, Zenon DEF screenVars, Curtained, OnItsWay, Parking, Arrives
  <1>2. CASE id # current
    <2>1. /\ parked' = FALSE /\ curtain' = Down /\ muted' = TRUE /\ current' = id
          /\ spinning' = (spinning \/ (id = Spinner /\ Spinner \notin built))
          /\ IF swap = NoSwap THEN Dip(id) ELSE Retarget(id)
      BY <1>2 DEF ScreenShow, CurtainShow
    <2>2. DipTime \in Nat \ {0} /\ RiseTime \in Nat \ {0} /\ id # "none"
      BY TimesAndScreens
    <2>3. CASE swap = NoSwap
      <3>1. swap' = [to |-> id, left |-> DipTime] /\ moves' = moves \cup {[to |-> Intro, left |-> DipTime]}
        BY <2>1, <2>3 DEF Dip, PlaneMove
      <3>2. \A m \in moves : m.left \in Nat \ {0} /\ m.left <= RiseTime
        BY <2>2, <2>3 DEF Arrives
      <3>3. SwapTyped' /\ MovesTyped' /\ CurtainTyped'
        <4>1. Intro \in Ys
          BY DEF Ys
        <4>2. SwapTyped'
          BY <2>2, <3>1
        <4>3. MovesTyped'
          BY <2>2, <3>1, <4>1
        <4>4. CurtainTyped'
          BY <2>1 DEF Down
        <4> QED
          BY <4>2, <4>3, <4>4
      <3>4. swap' # NoSwap /\ swap'.to = id /\ swap'.left = DipTime
        BY <2>2, <3>1 DEF NoSwap
      <3>5. \A m \in moves' : m.left < RiseTime + swap'.left
        BY <2>2, <3>1, <3>2, <3>4
      <3>6. {current', loaded'} \subseteq ScreenIds /\ spinning' \in BOOLEAN
        BY <2>1
      <3> QED
        BY <2>1, <3>3, <3>4, <3>5, <3>6 DEF Curtained, OnItsWay, Parking, Arrives, Down, Hidden
    <2>4. CASE swap # NoSwap
      <3>1. swap' = [swap EXCEPT !.to = id] /\ moves' = moves
        BY <2>1, <2>4 DEF Retarget
      <3>2. swap' # NoSwap /\ swap'.to = id /\ swap'.left = swap.left /\ SwapTyped'
        BY <2>2, <3>1 DEF NoSwap
      <3>3. CurtainTyped' /\ MovesTyped' /\ {current', loaded'} \subseteq ScreenIds /\ spinning' \in BOOLEAN
        BY <2>1, <3>1 DEF Down
      <3> QED
        BY <2>1, <2>4, <3>1, <3>2, <3>3 DEF Curtained, OnItsWay, Parking, Arrives, Down, Hidden
    <2> QED
      BY <2>3, <2>4
  <1> QED
    BY <1>1, <1>2

LEMMA SwapKeeps ==
  ASSUME Showing, SwapCb
  PROVE  Showing'
  <1> USE DEF Showing, ScreensTyped, SwapTyped, CurtainTyped, MovesTyped
  <1>1. swap # NoSwap /\ swap.left <= 0 /\ swap.to = current /\ curtain = Down /\ muted /\ ~parked
    BY DEF SwapCb, Curtained, OnItsWay, Parking, Down, Hidden
  <1>2. RiseTime \in Nat \ {0} /\ RetractTime \in Nat
    BY TimesAndScreens
  <1>3. /\ swap' = NoSwap /\ loaded' = current /\ stale' = stale \ {current}
        /\ spinning' = (spinning \/ (current = Spinner /\ current \in stale))
        /\ curtain' = [at |-> "lifting", left |-> RiseTime + RetractTime]
        /\ UNCHANGED <<current, muted, parked>>
    BY <1>1 DEF SwapCb, LoadNow, CurtainRetract
  <1> DEFINE r == [to |-> PanelY[current], left |-> RiseTime]
  <1>4. moves' = moves \cup {r}
    BY <1>1 DEF SwapCb, PlaneMove
  <1>5. \A m \in moves : m.left < RiseTime
    BY <1>1, <1>2 DEF Arrives
  <1>6. SwapTyped' /\ CurtainTyped' /\ MovesTyped' /\ spinning' \in BOOLEAN
    <2>1. PanelY[current] \in Ys
      BY DEF Ys
    <2> QED
      BY <1>2, <1>3, <1>4, <2>1 DEF NoSwap
  <1>7. Arrives'
    <2>1. r \in moves' /\ r.to = PanelY[current]' /\ r.left <= RiseTime /\ r.left = RiseTime
      BY <1>2, <1>3, <1>4
    <2>2. \A m \in moves' \ {r} : m.left < r.left
      BY <1>4, <1>5
    <2> HIDE DEF r
    <2> QED
      BY <1>3, <2>1, <2>2, Zenon DEF Arrives
  <1>8. curtain' # Down /\ curtain' # Hidden
    BY <1>3 DEF Down, Hidden
  <1> QED
    BY <1>1, <1>3, <1>6, <1>7, <1>8 DEF Curtained, OnItsWay, Parking

LEMMA RetractKeeps ==
  ASSUME Showing, RetractDone
  PROVE  Showing'
  <1> USE DEF Showing, ScreensTyped
  <1>1. curtain # Hidden /\ curtain # Down /\ curtain' = Hidden /\ Hidden # Down /\ muted' = FALSE
    BY DEF RetractDone, Hidden, Down
  <1>2. swap = NoSwap /\ ~parked
    BY <1>1 DEF Curtained, Parking
  <1>3. UNCHANGED <<current, loaded, swap, moves, plane>>
    BY DEF RetractDone
  <1>4. CurtainTyped'
    BY <1>1 DEF CurtainTyped, Hidden
  <1>5. /\ current = Spinner => parked' = TRUE /\ stale' = stale \cup {Spinner} /\ spinning' = FALSE
        /\ current # Spinner => UNCHANGED <<parked, stale, spinning>>
    BY <1>2 DEF RetractDone, PlanePark
  <1>6. SwapTyped' /\ MovesTyped' /\ Arrives' /\ OnItsWay'
    BY <1>3 DEF SwapTyped, MovesTyped, Arrives, OnItsWay
  <1>7. Curtained'
    BY <1>1, <1>2, <1>3 DEF Curtained
  <1>8. Parking' /\ parked' \in BOOLEAN /\ spinning' \in BOOLEAN
    <2>1. CASE current = Spinner
      BY <1>1, <1>3, <1>5, <2>1 DEF Parking
    <2>2. CASE current # Spinner
      <3>1. parked' = parked /\ stale' = stale /\ spinning' = spinning /\ current' # Spinner
        BY <1>3, <1>5, <2>2
      <3> QED
        BY <1>2, <3>1 DEF Parking
    <2> QED
      BY <2>1, <2>2
  <1> QED
    BY <1>1, <1>3, <1>4, <1>6, <1>7, <1>8

LEMMA TickKeeps ==
  ASSUME Showing, Tick
  PROVE  Showing'
  <1> USE DEF Showing, ScreensTyped
  <1>1. /\ moves' = {Older(m) : m \in {m \in moves : m.left > 1}}
        /\ IF moves = {} THEN UNCHANGED plane ELSE plane' \in Steps
        /\ swap' = IF swap = NoSwap THEN swap ELSE Older(swap)
        /\ curtain' = IF curtain.at = "lifting" THEN Older(curtain) ELSE curtain
        /\ UNCHANGED <<current, loaded, stale, parked, spinning, muted>>
    BY DEF Tick
  <1>2. \A m \in moves : /\ m.left \in Nat \ {0} /\ m.to \in Ys
                         /\ Older(m) = [to |-> m.to, left |-> m.left - 1]
    BY DEF MovesTyped, Older
  <1>3. MovesTyped'
    BY <1>1, <1>2 DEF MovesTyped
  <1>4. /\ SwapTyped' /\ (swap' = NoSwap <=> swap = NoSwap) /\ swap'.to = swap.to
        /\ swap # NoSwap => swap'.left = swap.left - 1
    <2>1. CASE swap = NoSwap
      BY <1>1, <2>1 DEF SwapTyped
    <2>2. CASE swap # NoSwap
      <3>1. swap.to # "none"
        BY <2>2, TimesAndScreens DEF OnItsWay
      <3> QED
        BY <1>1, <2>2, <3>1 DEF SwapTyped, Older, NoSwap
    <2> QED
      BY <2>1, <2>2
  <1>5. CurtainTyped' /\ (curtain' = Down <=> curtain = Down) /\ (curtain' = Hidden <=> curtain = Hidden)
    BY <1>1 DEF CurtainTyped, Older, Down, Hidden
  <1>6. RiseTime \in Nat
    BY TimesAndScreens
  <1>7. Arrives'
    <2>1. CASE swap # NoSwap
      <3> SUFFICES ASSUME NEW n \in moves' PROVE n.left < RiseTime + swap'.left
        BY <1>4, <2>1 DEF Arrives
      <3>1. PICK m \in moves : n = [to |-> m.to, left |-> m.left - 1]
        BY <1>1, <1>2
      <3>2. m.left < RiseTime + swap.left
        BY <2>1 DEF Arrives
      <3>3. n.left = m.left - 1 /\ m.left \in Nat /\ swap.left \in Int
        BY <1>2, <3>1 DEF SwapTyped
      <3> QED
        BY <1>4, <1>6, <2>1, <3>2, <3>3
    <2>2. CASE swap = NoSwap /\ moves = {}
      BY <1>1, <1>4, <2>2 DEF Arrives
    <2>3. CASE swap = NoSwap /\ moves # {}
      <3>1. PICK r \in moves : /\ r.to = PanelY[current] /\ r.left <= RiseTime
                               /\ \A m \in moves \ {r} : m.left < r.left
        BY <2>3 DEF Arrives
      <3>2. CASE r.left = 1
        <4>1. moves = {r}
          BY <1>2, <3>1, <3>2
        <4>2. moves' = {}
          BY <1>1, <3>2, <4>1
        <4>3. plane' = PanelY[current]
          BY <1>1, <3>1, <3>2, <4>1 DEF Steps
        <4> QED
          BY <1>1, <1>4, <2>3, <4>2, <4>3 DEF Arrives
      <3>3. CASE r.left # 1
        <4> DEFINE s == [to |-> r.to, left |-> r.left - 1]
        <4>1. s \in moves'
          BY <1>1, <1>2, <3>3
        <4>2. \A n \in moves' \ {s} : n.left < s.left
          <5> SUFFICES ASSUME NEW n \in moves', n # s PROVE n.left < r.left - 1
            OBVIOUS
          <5>1. PICK m \in moves : n = [to |-> m.to, left |-> m.left - 1]
            BY <1>1, <1>2
          <5>2. m # r
            BY <5>1
          <5> QED
            BY <1>2, <3>1, <5>1, <5>2
        <4>3. s.to = PanelY[current] /\ s.left <= RiseTime
          BY <1>2, <1>6, <3>1
        <4> QED
          BY <1>1, <1>4, <2>3, <4>1, <4>2, <4>3 DEF Arrives
      <3> QED
        BY <3>2, <3>3
    <2> QED
      BY <2>1, <2>2, <2>3
  <1>8. Curtained' /\ OnItsWay' /\ Parking'
    BY <1>1, <1>4, <1>5 DEF Curtained, OnItsWay, Parking
  <1> QED
    BY <1>1, <1>3, <1>4, <1>5, <1>7, <1>8

\* A key that is read shows a screen or shows none.
LEMMA KeyShows ==
  ASSUME Showing, NEW k, HandleKey(k)
  PROVE  \/ UNCHANGED <<current, built, parked, spinning, curtain, muted, swap, moves>>
         \/ \E id \in ScreenIds : ScreenShow(id)
  <1>1. Leads(k) \subseteq ScreenIds
    BY TimesAndScreens DEF Leads, Showing, ScreensTyped
  <1> QED
    BY <1>1, Zenon DEF HandleKey

LEMMA ScreensKeepShowing == Showing /\ [ScreensNext]_screensVars => Showing'
  <1> SUFFICES ASSUME Showing, [ScreensNext]_screensVars PROVE Showing'
    OBVIOUS
  <1>1. CASE UNCHANGED <<screenVars, muted>>
    BY <1>1, Zenon DEF screenVars, Showing, ScreensTyped, SwapTyped, CurtainTyped, MovesTyped, Curtained, OnItsWay,
                       Parking, Arrives
  <1>2. CASE SwapCb
    BY <1>2, SwapKeeps
  <1>3. CASE RetractDone
    BY <1>3, RetractKeeps
  <1>4. CASE Tick
    BY <1>4, TickKeeps
  <1>5. ASSUME NEW id \in Requested, Request(id) PROVE Showing'
    <2>1. id \in ScreenIds
      BY TimesAndScreens
    <2> QED
      BY <1>5, <2>1, ShowKeeps DEF Request
  <1>6. ASSUME NEW id \in Rebuilt, ScreensRebuild(id) PROVE Showing'
    <2>1. /\ UNCHANGED <<current, loaded, swap, curtain, muted, parked, spinning, moves, plane>>
          /\ stale' = stale \cup {id}
      BY <1>6 DEF ScreensRebuild
    <2> QED
      BY <2>1 DEF Showing, ScreensTyped, SwapTyped, CurtainTyped, MovesTyped, Curtained, OnItsWay, Parking, Arrives
  <1>7. ASSUME NEW d \in Devices, ReadKey(d) PROVE Showing'
    <2>1. UNCHANGED <<loaded, stale, plane>>
      BY <1>7 DEF ReadKey
    <2>2. \/ UNCHANGED <<current, built, parked, spinning, curtain, muted, swap, moves>>
          \/ \E id \in ScreenIds : ScreenShow(id)
      BY <1>7, KeyShows, Zenon DEF ReadKey
    <2>3. CASE UNCHANGED <<current, built, parked, spinning, curtain, muted, swap, moves>>
      BY <1>1, <2>1, <2>3 DEF screenVars
    <2> QED
      BY <2>1, <2>2, <2>3, ShowKeeps
  <1>8. ASSUME NEW d \in Devices, NEW k \in Keys, Press(d, k) \/ Release(d, k) PROVE Showing'
    BY <1>1, <1>8 DEF Press, Release
  <1>9. CASE ReadMuted \/ BootEnds \/ UNCHANGED screensVars
    BY <1>1, <1>9 DEF ReadMuted, BootEnds, screensVars
  <1> QED
    BY <1>2, <1>3, <1>4, <1>5, <1>6, <1>7, <1>8, <1>9, Zenon DEF ScreensNext

LEMMA ShowingIsWell == Showing => TransitionsEnd
  BY DEF Showing, ScreensTyped, Curtained, OnItsWay, Parking, Arrives, TransitionsEnd, Settled, Down, Hidden


----------------------------------------------------------------------------
(* Keys *)

LEMMA PressKeyed ==
  ASSUME Keyed, NEW d \in Devices, NEW k \in Keys, Press(d, k)
  PROVE  Keyed'
  <1> DEFINE e == [key |-> k, value |-> 1]
  <1>1. /\ held' = held \cup {<<d, k>>} /\ queue' = [queue EXCEPT ![d] = Append(queue[d], e)]
        /\ cache' = cache /\ queue \in [Devices -> Seq(Events)]
    BY DEF Press, Keyed, KeysTyped
  <1>2. e \in Events /\ e.key = k /\ e.value = 1
    BY DEF Events
  <1>3. KeysTyped'
    BY <1>1, <1>2 DEF Keyed, KeysTyped
  <1> HIDE DEF e
  <1>4. ASSUME NEW c \in Devices, NEW i \in DOMAIN queue'[c], queue'[c][i].value = 1
        PROVE  \/ <<c, queue'[c][i].key>> \in held'
               \/ \E j \in DOMAIN queue'[c] : i < j /\ queue'[c][j].key = queue'[c][i].key /\ queue'[c][j].value = 0
    <2>1. CASE i \in DOMAIN queue[c]
      <3>1. \A j \in DOMAIN queue[c] : j \in DOMAIN queue'[c] /\ queue'[c][j] = queue[c][j]
        BY <1>1, <1>2
      <3>2. \/ <<c, queue[c][i].key>> \in held
            \/ \E j \in DOMAIN queue[c] : i < j /\ queue[c][j].key = queue[c][i].key /\ queue[c][j].value = 0
        BY <1>4, <2>1, <3>1 DEF Keyed, Followed
      <3> QED
        BY <1>1, <2>1, <3>1, <3>2
    <2>2. CASE i \notin DOMAIN queue[c]
      <3>1. c = d /\ queue'[c][i] = e
        BY <1>1, <1>2, <2>2
      <3> QED
        BY <1>1, <1>2, <3>1
    <2> QED
      BY <2>1, <2>2
  <1>5. ReleaseToCome'
    BY <1>1 DEF ReleaseToCome
  <1> QED
    BY <1>3, <1>4, <1>5 DEF Keyed, Followed

LEMMA ReleaseKeyed ==
  ASSUME Keyed, NEW d \in Devices, NEW k \in Keys, Release(d, k)
  PROVE  Keyed'
  <1> DEFINE e == [key |-> k, value |-> 0]
             n == Len(queue[d]) + 1
  <1>1. /\ held' = held \ {<<d, k>>} /\ queue' = [queue EXCEPT ![d] = Append(queue[d], e)]
        /\ cache' = cache /\ queue \in [Devices -> Seq(Events)]
    BY DEF Release, Keyed, KeysTyped
  <1>2. e \in Events /\ e.key = k /\ e.value = 0
    BY DEF Events
  <1>3. KeysTyped'
    BY <1>1, <1>2 DEF Keyed, KeysTyped
  <1> HIDE DEF e
  <1>4. n \in DOMAIN queue'[d] /\ queue'[d][n] = e /\ \A i \in DOMAIN queue[d] : i < n
    BY <1>1, <1>2
  <1>5. ASSUME NEW c \in Devices, NEW i \in DOMAIN queue'[c], queue'[c][i].value = 1
        PROVE  \/ <<c, queue'[c][i].key>> \in held'
               \/ \E j \in DOMAIN queue'[c] : i < j /\ queue'[c][j].key = queue'[c][i].key /\ queue'[c][j].value = 0
    <2>1. i \in DOMAIN queue[c]
      <3>1. CASE c = d
        BY <1>1, <1>2, <1>5, <3>1
      <3>2. CASE c # d
        BY <1>1, <1>5, <3>2
      <3> QED
        BY <3>1, <3>2
    <2>2. \A j \in DOMAIN queue[c] : j \in DOMAIN queue'[c] /\ queue'[c][j] = queue[c][j]
      BY <1>1, <1>2
    <2>3. \/ <<c, queue[c][i].key>> \in held
          \/ \E j \in DOMAIN queue[c] : i < j /\ queue[c][j].key = queue[c][i].key /\ queue[c][j].value = 0
      BY <1>5, <2>1, <2>2 DEF Keyed, Followed
    <2>4. CASE c = d /\ queue[c][i].key = k
      BY <1>2, <1>4, <2>1, <2>2, <2>4
    <2>5. CASE ~ (c = d /\ queue[c][i].key = k)
      BY <1>1, <2>1, <2>2, <2>3, <2>5
    <2> QED
      BY <2>4, <2>5
  <1>6. ReleaseToCome'
    BY <1>2, <1>4 DEF ReleaseToCome
  <1> QED
    BY <1>3, <1>5, <1>6 DEF Keyed, Followed

LEMMA MutedKeyed ==
  ASSUME Keyed, ReadMuted
  PROVE  Keyed'
  <1>1. /\ \A d \in Devices : queue'[d] = <<>>
        /\ cache'.state = "released"
    BY DEF ReadMuted, Released
  <1>2. KeysTyped'
    BY DEF ReadMuted, Released, Keyed, KeysTyped
  <1> QED
    BY <1>1, <1>2 DEF Keyed, Followed

LEMMA ReadKeyed ==
  ASSUME Keyed, NEW d \in Devices, ReadKey(d)
  PROVE  Keyed'
  <1> DEFINE e == Head(queue[d])
  <1>1. /\ queue[d] # <<>> /\ queue' = [queue EXCEPT ![d] = Tail(queue[d])] /\ held' = held
        /\ queue \in [Devices -> Seq(Events)]
    BY DEF ReadKey, Keyed, KeysTyped
  <1>2. /\ e = queue[d][1] /\ e \in Events /\ 1 \in DOMAIN queue[d]
        /\ \A i \in DOMAIN queue[d] : i # 1 => i - 1 \in DOMAIN queue'[d] /\ queue'[d][i - 1] = queue[d][i]
        /\ \A i \in DOMAIN queue'[d] : i + 1 \in DOMAIN queue[d] /\ queue'[d][i] = queue[d][i + 1]
    <2>1. queue[d] \in Seq(Events) /\ queue'[d] = Tail(queue[d])
      BY <1>1
    <2>2. PICK n \in Nat : n = Len(queue[d]) /\ n > 0 /\ DOMAIN queue[d] = 1 .. n
      BY <1>1, <2>1
    <2>3. DOMAIN queue'[d] = 1 .. n - 1 /\ \A i \in 1 .. n - 1 : queue'[d][i] = queue[d][i + 1]
      BY <2>1, <2>2
    <2>4. e = queue[d][1] /\ 1 \in DOMAIN queue[d] /\ e \in Events
      BY <2>1, <2>2
    <2>5. ASSUME NEW i \in 1 .. n, i # 1
          PROVE  i - 1 \in 1 .. n - 1 /\ (i - 1) + 1 = i
      BY <2>2, <2>5
    <2>6. ASSUME NEW i \in 1 .. n - 1 PROVE i + 1 \in 1 .. n
      BY <2>2
    <2> QED
      BY <2>2, <2>3, <2>4, <2>5, <2>6
  <1>3. cache' = IF e.value = 1 THEN [key |-> e.key, state |-> "pressed"] ELSE [cache EXCEPT !.state = "released"]
    BY DEF ReadKey
  <1>4. KeysTyped'
    <2>1. queue' \in [Devices -> Seq(Events)]
      BY <1>1
    <2>2. e.key \in Keys
      BY <1>2 DEF Events
    <2> HIDE DEF e
    <2>3. /\ cache' \in [key : Keys \cup {"none"}, state : {"released", "pressed"}]
          /\ cache'.state \in {"released", "pressed"}
      BY <1>3, <2>2 DEF Keyed, KeysTyped
    <2> QED
      BY <1>1, <2>1, <2>3 DEF Keyed, KeysTyped
  <1>5. ASSUME NEW c \in Devices, NEW i \in DOMAIN queue'[c], queue'[c][i].value = 1
        PROVE  \/ <<c, queue'[c][i].key>> \in held'
               \/ \E j \in DOMAIN queue'[c] : i < j /\ queue'[c][j].key = queue'[c][i].key /\ queue'[c][j].value = 0
    <2>1. CASE c = d
      <3>1. i + 1 \in DOMAIN queue[d] /\ queue'[d][i] = queue[d][i + 1] /\ i \in Nat
        BY <1>1, <1>2, <2>1
      <3>2. \/ <<d, queue[d][i + 1].key>> \in held
            \/ \E j \in DOMAIN queue[d] : i + 1 < j /\ queue[d][j].key = queue[d][i + 1].key /\ queue[d][j].value = 0
        BY <1>5, <2>1, <3>1 DEF Keyed, Followed
      <3>3. ASSUME NEW j \in DOMAIN queue[d], i + 1 < j, queue[d][j].key = queue[d][i + 1].key, queue[d][j].value = 0
            PROVE  \E n \in DOMAIN queue'[c] : i < n /\ queue'[c][n].key = queue'[c][i].key /\ queue'[c][n].value = 0
        <4>1. j \in Nat /\ j # 1
          BY <1>1, <3>1, <3>3
        <4>2. j - 1 \in DOMAIN queue'[d] /\ queue'[d][j - 1] = queue[d][j] /\ i < j - 1
          BY <1>2, <3>1, <3>3, <4>1
        <4> QED
          BY <2>1, <3>1, <3>3, <4>2
      <3> QED
        BY <1>1, <2>1, <3>1, <3>2, <3>3
    <2>2. CASE c # d
      <3>1. queue'[c] = queue[c]
        BY <1>1, <2>2
      <3> QED
        BY <1>1, <1>5, <3>1 DEF Keyed, Followed
    <2> QED
      BY <2>1, <2>2
  <1>6. cache'.state = "pressed" => ReleaseToCome'
    <2>1. CASE e.value = 1
      <3>1. \/ <<d, e.key>> \in held
            \/ \E j \in DOMAIN queue[d] : 1 < j /\ queue[d][j].value = 0
        BY <1>2, <2>1 DEF Keyed, Followed
      <3>2. ASSUME NEW j \in DOMAIN queue[d], 1 < j, queue[d][j].value = 0 PROVE ReleaseToCome'
        <4>1. j # 1
          BY <1>1, <3>2
        <4>2. j - 1 \in DOMAIN queue'[d] /\ queue'[d][j - 1].value = 0
          BY <1>2, <3>2, <4>1
        <4> QED
          BY <4>2 DEF ReleaseToCome
      <3> QED
        BY <1>1, <3>1, <3>2 DEF ReleaseToCome
    <2>2. CASE e.value # 1
      BY <1>3, <2>2 DEF Keyed, KeysTyped
    <2> QED
      BY <2>1, <2>2
  <1> QED
    BY <1>4, <1>5, <1>6 DEF Keyed, Followed

LEMMA ScreensKeepKeyed == Keyed /\ [ScreensNext]_screensVars => Keyed'
  <1> SUFFICES ASSUME Keyed, [ScreensNext]_screensVars PROVE Keyed'
    OBVIOUS
  <1>1. CASE UNCHANGED <<queue, held, cache>>
    <2>1. queue' = queue /\ held' = held /\ cache' = cache
      BY <1>1
    <2>2. KeysTyped'
      BY <2>1, Zenon DEF Keyed, KeysTyped
    <2>3. Followed'
      BY <2>1, Zenon DEF Keyed, Followed
    <2>4. ReleaseToCome' <=> ReleaseToCome
      BY <2>1, Zenon DEF ReleaseToCome
    <2> QED
      BY <2>1, <2>2, <2>3, <2>4, Zenon DEF Keyed
  <1>2. CASE SwapCb \/ RetractDone \/ Tick \/ BootEnds \/ UNCHANGED screensVars
    BY <1>1, <1>2 DEF SwapCb, RetractDone, Tick, BootEnds, screensVars, keyVars
  <1>3. ASSUME NEW id, Request(id) \/ ScreensRebuild(id) PROVE Keyed'
    <2>1. UNCHANGED keyVars
      BY <1>3, Zenon DEF Request, ScreensRebuild
    <2>2. UNCHANGED <<queue, held, cache>>
      BY <2>1 DEF keyVars
    <2> QED
      BY <1>1, <2>2
  <1>4. ASSUME NEW d \in Devices, NEW k \in Keys, Press(d, k) \/ Release(d, k) PROVE Keyed'
    BY <1>4, PressKeyed, ReleaseKeyed
  <1> QED
    BY <1>2, <1>3, <1>4, MutedKeyed, ReadKeyed, Zenon DEF ScreensNext

LEMMA KeyedIsNotStuck == Keyed => NoKeyStuck
  <1> SUFFICES ASSUME Keyed, held = {}, \A d \in Devices : queue[d] = <<>> PROVE cache.state = "released"
    BY DEF NoKeyStuck
  <1>1. ~ ReleaseToCome
    BY DEF ReleaseToCome
  <1> QED
    BY <1>1 DEF Keyed, KeysTyped

\* Whatever is asked and pressed, and in the middle of which transition: the keys are
\* muted and the curtain is down until the content is changed, and once all has come
\* to rest the screen asked for last is loaded, its plane is in its place, the keys
\* are back and none of them stays pressed (screen_show, swap_cb,
\* curtain_retract_done_cb, key_enc_evdev_read_cb).
THEOREM ScreensRestCorrect == ScreensSpec => []ScreensRest
  <1>1. ScreensInit => ScreensInv
    BY ScreensStart
  <1>2. ScreensInv /\ [ScreensNext]_screensVars => ScreensInv'
    BY ScreensKeepShowing, ScreensKeepKeyed DEF ScreensInv
  <1>3. ScreensInv => ScreensRest
    BY ShowingIsWell, KeyedIsNotStuck DEF ScreensInv, ScreensRest
  <1> QED
    BY <1>1, <1>2, <1>3, PTL DEF ScreensSpec

----------------------------------------------------------------------------
(* Lists *)

IsTable(t) == \E n \in Nat : t = [i \in 0 .. n - 1 |-> t[i]]
Size(t) == Cardinality(DOMAIN t)
IsView(v) ==
  v = [total |-> v.total, start |-> v.start, group |-> v.group, focus |-> v.focus, slots |-> v.slots]

\* The window is inside the table, and each slot is bound to its entry.
Shows(v, t) ==
  /\ IsView(v) /\ v.total = Size(t)
  /\ v.start \in Nat /\ (v.start = 0 \/ v.start + Slots <= v.total)
  /\ \A i \in Slot : LET k == v.start + i
                     IN  /\ v.slots[i].idx = (IF k < v.total THEN k ELSE None)
                         /\ k < v.total => v.slots[i].shown = t[k]

\* The slots that are bound, and the buttons behind them
Objects(n, l) ==
  LET m == Least(n, Slots)
  IN  [p \in 1 .. m + Len(Below[l]) |-> IF p <= m THEN p - 1 ELSE Slots + p - m - 1]

\* The focus is in the group, and what is in the group is bound, or a button.
Bounded(g, n) == \A i \in DOMAIN g : g[i] \in Slot => g[i] < n
Grouped(v) == In(v.focus, v.group) /\ Bounded(v.group, v.total)

Seen ==
  ~marked /\ Count > 0 => /\ Shows(view, table) /\ picked \in {None} \cup 0 .. Count - 1
                          /\ open => Grouped(view)
ListsTyped ==
  /\ list \in {"op", "app"} /\ IsTable(table) /\ now \in Nat
  /\ list = "op" => Count > 0
  /\ picked # None => list = "op"
Empty == ~marked /\ ~(Count > 0) => IsView(view) /\ view.total = 0
ListsInv == ListsTyped /\ Seen

----------------------------------------------------------------------------

LEMMA TableSize ==
  ASSUME NEW t, IsTable(t)
  PROVE  Size(t) \in Nat /\ DOMAIN t = 0 .. Size(t) - 1
  <1>1. PICK n \in Nat : DOMAIN t = 0 .. n - 1
    BY DEF IsTable
  <1>2. Cardinality(0 .. n - 1) = n
    BY FS_Interval
  <1> QED
    BY <1>1, <1>2 DEF Size

LEMMA ClampedIn ==
  ASSUME NEW n \in Nat, NEW k \in Int
  PROVE  /\ Clamped(n, k) \in Nat
         /\ Clamped(n, k) = 0 \/ Clamped(n, k) + Slots <= n
         /\ k \in Nat /\ k + Slots <= n => Clamped(n, k) = k
         /\ k \in Nat /\ k = 0 => Clamped(n, k) = 0
  <1>1. Slots \in Nat \ {0}
    BY ListsAssumption
  <1>2. CASE k < n - Slots
    <2>1. Clamped(n, k) = Most(0, k)
      BY <1>2 DEF Clamped, Least
    <2>2. Clamped(n, k) = IF 0 > k THEN 0 ELSE k
      BY <2>1 DEF Most
    <2> QED
      BY <1>1, <1>2, <2>2
  <1>3. CASE ~ (k < n - Slots)
    <2>1. Clamped(n, k) = Most(0, n - Slots)
      BY <1>3 DEF Clamped, Least
    <2>2. Clamped(n, k) = IF 0 > n - Slots THEN 0 ELSE n - Slots
      BY <2>1 DEF Most
    <2> QED
      BY <1>1, <1>3, <2>2
  <1> QED
    BY <1>2, <1>3

LEMMA ViewFields ==
  ASSUME NEW v, IsView(v), NEW x, NEW y
  PROVE  /\ [v EXCEPT !.start = x, !.slots = y]
              = [total |-> v.total, start |-> x, group |-> v.group, focus |-> v.focus, slots |-> y]
         /\ [v EXCEPT !.group = x, !.focus = y]
              = [total |-> v.total, start |-> v.start, group |-> x, focus |-> y, slots |-> v.slots]
  <1>1. PICK n, s, g, f, l : v = [total |-> n, start |-> s, group |-> g, focus |-> f, slots |-> l]
    BY DEF IsView
  <1>2. v.total = n /\ v.start = s /\ v.group = g /\ v.focus = f /\ v.slots = l
    BY <1>1
  <1>3. [v EXCEPT !.start = x, !.slots = y] = [total |-> n, start |-> x, group |-> g, focus |-> f, slots |-> y]
    <2> DEFINE u == [v EXCEPT !.start = x]
    <2>1. u = [total |-> n, start |-> x, group |-> g, focus |-> f, slots |-> l]
      BY <1>1
    <2>2. [v EXCEPT !.start = x, !.slots = y] = [u EXCEPT !.slots = y]
      BY Zenon
    <2> HIDE DEF u
    <2>3. [u EXCEPT !.slots = y] = [total |-> n, start |-> x, group |-> g, focus |-> f, slots |-> y]
      BY <2>1
    <2> QED
      BY <2>2, <2>3, Zenon
  <1>4. [v EXCEPT !.group = x, !.focus = y] = [total |-> n, start |-> s, group |-> x, focus |-> y, slots |-> l]
    <2> DEFINE u == [v EXCEPT !.group = x]
    <2>1. u = [total |-> n, start |-> s, group |-> x, focus |-> f, slots |-> l]
      BY <1>1
    <2>2. [v EXCEPT !.group = x, !.focus = y] = [u EXCEPT !.focus = y]
      BY Zenon
    <2> HIDE DEF u
    <2>3. [u EXCEPT !.focus = y] = [total |-> n, start |-> s, group |-> x, focus |-> y, slots |-> l]
      BY <2>1
    <2> QED
      BY <2>2, <2>3, Zenon
  <1> QED
    BY <1>2, <1>3, <1>4

\* update_visible_range binds every slot anew.
LEMMA WindowShows ==
  ASSUME NEW v, NEW t, NEW k \in Int, IsView(v), IsTable(t), v.total = Size(t)
  PROVE  /\ Shows(Window(v, t, k), t) /\ Window(v, t, k).start = Clamped(v.total, k)
         /\ Window(v, t, k).group = v.group /\ Window(v, t, k).focus = v.focus
         /\ Window(v, t, k).total = v.total
  <1> DEFINE w == Window(v, t, k)
             first == Clamped(v.total, k)
             slots == [i \in Slot |-> IF first + i < v.total THEN Bound(v.slots[i], t, first + i)
                                      ELSE Unbound(v.slots[i].shown)]
  <1>1. w = [total |-> v.total, start |-> first, group |-> v.group, focus |-> v.focus, slots |-> slots]
    <2>1. w = [v EXCEPT !.start = first, !.slots = slots]
      BY DEF Window
    <2> HIDE DEF w, first, slots
    <2> QED
      BY <2>1, ViewFields, Zenon
  <1>2. first \in Nat /\ (first = 0 \/ first + Slots <= v.total) /\ v.total \in Nat /\ DOMAIN t = 0 .. v.total - 1
    BY ClampedIn, TableSize
  <1> HIDE DEF first
  <1>3. ASSUME NEW i \in Slot
        PROVE  /\ slots[i].idx = (IF first + i < v.total THEN first + i ELSE None)
               /\ first + i < v.total => slots[i].shown = t[first + i]
    <2>1. i \in Nat
      BY ListsAssumption DEF Slot
    <2>2. first + i < v.total => first + i \in DOMAIN t
      BY <1>2, <2>1
    <2> QED
      BY <2>2 DEF Bound, Unbound
  <1> HIDE DEF slots, w
  <1>4. /\ w.total = v.total /\ w.start = first /\ w.group = v.group /\ w.focus = v.focus /\ w.slots = slots
        /\ IsView(w)
    BY <1>1 DEF IsView
  <1>5. Shows(w, t)
    BY <1>2, <1>3, <1>4 DEF Shows
  <1> QED
    BY <1>4, <1>5 DEF w, first

LEMMA WindowGroups ==
  ASSUME NEW v, NEW t, NEW k \in Int, Shows(v, t), IsTable(t)
  PROVE  /\ Shows(Window(v, t, k), t) /\ Window(v, t, k).group = v.group
         /\ Grouped(v) => Grouped(Window(v, t, k))
  <1>1. IsView(v) /\ v.total = Size(t)
    BY DEF Shows
  <1> QED
    BY <1>1, WindowShows, Zenon DEF Grouped

\* Bound are the slots in front, all of them when the table has as many entries.
LEMMA BoundInFront ==
  ASSUME NEW v, NEW t, Shows(v, t), IsTable(t), NEW i \in Slot
  PROVE  v.slots[i].idx >= 0 <=> i < v.total
  <1>1. i \in Nat /\ i < Slots /\ v.start \in Nat /\ v.total \in Nat /\ Slots \in Nat
    BY TableSize, ListsAssumption DEF Slot, Shows
  <1>2. v.slots[i].idx = (IF v.start + i < v.total THEN v.start + i ELSE None)
    BY DEF Shows
  <1>3. v.start = 0 \/ v.start + Slots <= v.total
    BY DEF Shows
  <1> QED
    BY <1>1, <1>2, <1>3 DEF None

LEMMA FollowKeeps ==
  ASSUME NEW v, NEW t, NEW k, Shows(v, t), Grouped(v)
  PROVE  /\ Shows(Follow(v, k), t) /\ Grouped(Follow(v, k)) /\ Follow(v, k).group = v.group
  <1>1. Follow(v, k) = v \/ \E s : In(s, v.group) /\ Follow(v, k) = [v EXCEPT !.focus = s]
    BY DEF Follow
  <1>2. ASSUME NEW s, In(s, v.group), Follow(v, k) = [v EXCEPT !.focus = s]
        PROVE  Shows(Follow(v, k), t) /\ Grouped(Follow(v, k)) /\ Follow(v, k).group = v.group
    <2> DEFINE w == Follow(v, k)
    <2>1. IsView(v)
      BY DEF Shows
    <2>2. /\ w.total = v.total /\ w.start = v.start /\ w.group = v.group /\ w.focus = s /\ w.slots = v.slots
          /\ IsView(w)
      BY <1>2, <2>1 DEF IsView
    <2> HIDE DEF w
    <2>3. Shows(w, t) /\ Grouped(w)
      BY <1>2, <2>2 DEF Shows, Grouped
    <2> QED
      BY <2>2, <2>3 DEF w
  <1> QED
    BY <1>1, <1>2

LEMMA SlotFocusedKeeps ==
  ASSUME NEW v, NEW t, Shows(v, t), Grouped(v), IsTable(t)
  PROVE  /\ Shows(SlotFocused(v, t), t) /\ Grouped(SlotFocused(v, t)) /\ SlotFocused(v, t).group = v.group
  <1>1. v.start - 1 \in Int /\ v.start + 1 \in Int
    BY DEF Shows
  <1>2. \/ SlotFocused(v, t) = v
        \/ SlotFocused(v, t) = Follow(Window(v, t, v.start - 1), v.slots[v.focus].idx)
        \/ SlotFocused(v, t) = Follow(Window(v, t, v.start + 1), v.slots[v.focus].idx)
    BY DEF SlotFocused
  <1>3. ASSUME NEW k \in Int, NEW x
        PROVE  /\ Shows(Follow(Window(v, t, k), x), t) /\ Grouped(Follow(Window(v, t, k), x))
               /\ Follow(Window(v, t, k), x).group = v.group
    <2>1. Shows(Window(v, t, k), t) /\ Window(v, t, k).group = v.group /\ Grouped(Window(v, t, k))
      BY WindowGroups
    <2> QED
      BY <2>1, FollowKeeps, Zenon
  <1>4. CASE SlotFocused(v, t) = v
    BY <1>4
  <1>5. CASE SlotFocused(v, t) = Follow(Window(v, t, v.start - 1), v.slots[v.focus].idx)
    BY <1>1, <1>3, <1>5
  <1>6. CASE SlotFocused(v, t) = Follow(Window(v, t, v.start + 1), v.slots[v.focus].idx)
    BY <1>1, <1>3, <1>6
  <1> QED
    BY <1>2, <1>4, <1>5, <1>6

LEMMA FocusKeeps ==
  ASSUME NEW v, NEW t, NEW obj, Shows(v, t), Grouped(v), IsTable(t)
  PROVE  /\ Shows(Focus(v, t, obj), t) /\ Grouped(Focus(v, t, obj)) /\ Focus(v, t, obj).group = v.group
  <1>1. CASE ~ In(obj, v.group)
    BY <1>1 DEF Focus
  <1>2. CASE In(obj, v.group)
    <2> DEFINE w == [v EXCEPT !.focus = obj]
    <2>1. IsView(v)
      BY DEF Shows
    <2>2. /\ w.total = v.total /\ w.start = v.start /\ w.group = v.group /\ w.focus = obj /\ w.slots = v.slots
          /\ IsView(w)
      BY <2>1 DEF IsView
    <2>3. Focus(v, t, obj) = SlotFocused(w, t)
      BY <1>2 DEF Focus
    <2> HIDE DEF w
    <2>4. Shows(w, t) /\ Grouped(w)
      BY <1>2, <2>2 DEF Shows, Grouped
    <2> QED
      BY <2>2, <2>3, <2>4, SlotFocusedKeeps
  <1> QED
    BY <1>1, <1>2

LEMMA RefocusKeeps ==
  ASSUME NEW v, NEW t, NEW k, Shows(v, t), Grouped(v), IsTable(t)
  PROVE  Shows(Refocus(v, t, k), t) /\ Grouped(Refocus(v, t, k))
  <1>1. Refocus(v, t, k) = v \/ \E s : Refocus(v, t, k) = Focus(v, t, s)
    BY DEF Refocus
  <1> QED
    BY <1>1, FocusKeeps

\* A group whose first object is bound
LEMMA GroupKeeps ==
  ASSUME NEW v, NEW t, NEW objs, Shows(v, t), IsTable(t), 1 \in DOMAIN objs, Bounded(objs, v.total)
  PROVE  /\ Shows(Group(v, t, objs), t) /\ Grouped(Group(v, t, objs))
         /\ Group(v, t, objs).group = objs /\ Group(v, t, objs).focus = objs[1]
  <1> DEFINE u == [v EXCEPT !.group = <<objs[1]>>, !.focus = objs[1]]
             w == SlotFocused(u, t)
             z == [w EXCEPT !.group = objs]
  <1>1. IsView(v)
    BY DEF Shows
  <1>2. /\ u.total = v.total /\ u.start = v.start /\ u.group = <<objs[1]>> /\ u.focus = objs[1] /\ u.slots = v.slots
        /\ IsView(u)
    <2>1. u = [total |-> v.total, start |-> v.start, group |-> <<objs[1]>>, focus |-> objs[1], slots |-> v.slots]
      BY <1>1, ViewFields, Zenon
    <2> HIDE DEF u
    <2> QED
      BY <2>1 DEF IsView
  <1>3. Group(v, t, objs) = z
    BY DEF Group
  <1> HIDE DEF u
  <1>4. In(u.focus, u.group) /\ Bounded(u.group, u.total)
    BY <1>2 DEF In, Bounded
  <1>5. Shows(u, t) /\ Grouped(u)
    BY <1>2, <1>4 DEF Shows, Grouped
  <1>6. Shows(w, t) /\ Grouped(w) /\ w.group = <<objs[1]>>
    BY <1>2, <1>5, SlotFocusedKeeps
  <1> HIDE DEF w
  <1>7. w.focus = objs[1] /\ w.total = v.total
    BY <1>6 DEF Grouped, In, Shows
  <1>8. /\ z.total = w.total /\ z.start = w.start /\ z.group = objs /\ z.focus = w.focus /\ z.slots = w.slots
        /\ IsView(z)
    BY <1>6 DEF IsView, Shows
  <1> HIDE DEF z
  <1>9. Shows(z, t)
    BY <1>6, <1>8 DEF Shows
  <1>10. Grouped(z)
    BY <1>7, <1>8 DEF Grouped, In
  <1> QED
    BY <1>3, <1>7, <1>8, <1>9, <1>10


LEMMA BoundSlotsInFront ==
  ASSUME NEW v, NEW t, Shows(v, t), IsTable(t), v.total > 0
  PROVE  BoundSlots(v) = [n \in 1 .. Least(v.total, Slots) |-> n - 1]
  <1> DEFINE bound == {i \in Slot : v.slots[i].idx >= 0}
             m == Least(v.total, Slots)
             nth(n) == CHOOSE i \in bound : Cardinality({j \in bound : j < i}) = n - 1
  <1>1. v.total \in Nat /\ Slots \in Nat /\ m \in Nat /\ m > 0 /\ m <= Slots /\ m <= v.total
    BY TableSize, ListsAssumption DEF Shows, Least
  <1>2. bound = 0 .. m - 1
    <2>1. \A i \in Slot : v.slots[i].idx >= 0 <=> i < v.total
      BY BoundInFront
    <2> QED
      BY <1>1, <2>1 DEF Slot, Least
  <1> HIDE DEF bound, m
  <1>3. Cardinality(bound) = m
    BY <1>1, <1>2, FS_Interval
  <1>4. ASSUME NEW i \in bound PROVE Cardinality({j \in bound : j < i}) = i
    <2>1. i \in Nat /\ {j \in bound : j < i} = 0 .. i - 1
      BY <1>1, <1>2
    <2>2. Cardinality(0 .. i - 1) = i
      BY <2>1, FS_Interval
    <2> QED
      BY <2>1, <2>2
  <1>5. ASSUME NEW n \in 1 .. m PROVE nth(n) = n - 1
    <2>1. n - 1 \in bound
      BY <1>1, <1>2
    <2>2. Cardinality({j \in bound : j < n - 1}) = n - 1
      BY <1>4, <2>1
    <2>3. nth(n) \in bound /\ Cardinality({j \in bound : j < nth(n)}) = n - 1
      BY <2>1, <2>2
    <2> HIDE DEF nth
    <2> QED
      BY <1>4, <2>3
  <1>6. BoundSlots(v) = [n \in 1 .. m |-> nth(n)]
    BY <1>3 DEF BoundSlots, bound
  <1> HIDE DEF nth
  <1> QED
    BY <1>5, <1>6 DEF m

LEMMA ButtonsAfter ==
  ASSUME NEW l \in {"op", "app"}
  PROVE  Len(Below[l]) \in Nat /\ ButtonIds(l) = [i \in 1 .. Len(Below[l]) |-> Slots + i - 1]
  <1>1. Below[l] \in Seq(STRING)
    BY ListsAssumption
  <1> QED
    BY <1>1 DEF ButtonIds

\* The whole of a group: the slots that are bound, and the buttons.
LEMMA GroupIsObjects ==
  ASSUME NEW v, NEW t, Shows(v, t), IsTable(t), v.total > 0, NEW l \in {"op", "app"}
  PROVE  BoundSlots(v) \o ButtonIds(l) = Objects(v.total, l)
  <1> DEFINE m == Least(v.total, Slots)
             n == Len(Below[l])
             a == [i \in 1 .. m |-> i - 1]
             b == [i \in 1 .. n |-> Slots + i - 1]
             c == a \o b
             d == [p \in 1 .. m + n |-> IF p <= m THEN p - 1 ELSE Slots + p - m - 1]
  <1>1. m \in Nat /\ n \in Nat /\ Slots \in Nat
    BY TableSize, ListsAssumption, ButtonsAfter DEF Shows, Least
  <1>2. BoundSlots(v) = a /\ ButtonIds(l) = b
    BY BoundSlotsInFront, ButtonsAfter
  <1>3. Objects(v.total, l) = d
    BY Zenon DEF Objects
  <1> HIDE DEF m, n
  <1>4. a \in Seq(Int) /\ b \in Seq(Int) /\ Len(a) = m /\ Len(b) = n
    BY <1>1
  <1>5. c \in Seq(Int) /\ Len(c) = m + n
    BY <1>1, <1>4
  <1>6. ASSUME NEW p \in 1 .. m + n PROVE c[p] = d[p]
    <2>1. CASE p <= m
      BY <1>1, <2>1
    <2>2. CASE ~ (p <= m)
      <3>1. p - m \in 1 .. n /\ b[p - m] = Slots + p - m - 1
        BY <1>1, <2>2
      <3>2. c[p] = b[p - m]
        BY <1>1, <1>4, <2>2
      <3> QED
        BY <2>2, <3>1, <3>2
    <2> QED
      BY <2>1, <2>2
  <1>7. c = [p \in 1 .. m + n |-> c[p]]
    BY <1>1, <1>5
  <1> HIDE DEF a, b, c
  <1>8. c = d
    BY <1>6, <1>7
  <1> QED
    BY <1>2, <1>3, <1>8 DEF c

LEMMA ObjectsBounded ==
  ASSUME NEW n \in Nat, n > 0, NEW l \in {"op", "app"}
  PROVE  1 \in DOMAIN Objects(n, l) /\ Objects(n, l)[1] = 0 /\ Bounded(Objects(n, l), n)
  <1> DEFINE m == Least(n, Slots)
             b == Len(Below[l])
             d == [p \in 1 .. m + b |-> IF p <= m THEN p - 1 ELSE Slots + p - m - 1]
  <1>1. m \in Nat /\ m > 0 /\ m <= n /\ b \in Nat /\ Slots \in Nat
    BY ListsAssumption, ButtonsAfter DEF Least
  <1>2. Objects(n, l) = d
    BY Zenon DEF Objects
  <1> HIDE DEF m, b
  <1>3. 1 \in DOMAIN d /\ d[1] = 0
    BY <1>1
  <1>4. \A p \in DOMAIN d : d[p] \in Slot => d[p] < n
    BY <1>1 DEF Slot
  <1> QED
    BY <1>2, <1>3, <1>4 DEF Bounded

LEMMA BuildGroupShows ==
  ASSUME NEW v, NEW t, NEW k \in Int, Shows(v, t), IsTable(t), v.total > 0
  PROVE  Shows(BuildGroup(v, t, k), t) /\ Grouped(BuildGroup(v, t, k))
  <1> DEFINE w == IF k \notin v.start .. v.start + Slots - 1 THEN Window(v, t, k) ELSE v
             g == Group(w, t, Objects(w.total, "op"))
  <1>1. Shows(w, t) /\ w.total = v.total
    <2>1. IsView(v) /\ v.total = Size(t)
      BY DEF Shows
    <2> QED
      BY <2>1, WindowShows
  <1>2. BuildGroup(v, t, k) = Refocus(g, t, k)
    <2>1. BuildGroup(v, t, k) = Refocus(Group(w, t, BoundSlots(w) \o ButtonIds("op")), t, k)
      BY DEF BuildGroup
    <2> HIDE DEF w
    <2> QED
      BY <1>1, <2>1, GroupIsObjects
  <1> HIDE DEF w
  <1>3. Shows(g, t) /\ Grouped(g)
    <2>1. w.total \in Nat /\ w.total > 0
      BY <1>1, TableSize DEF Shows
    <2> QED
      BY <1>1, <2>1, ObjectsBounded, GroupKeeps
  <1> HIDE DEF g
  <1> QED
    BY <1>2, <1>3, RefocusKeeps

LEMMA BuildAppsShows ==
  ASSUME NEW v, NEW t, Shows(v, t), IsTable(t), v.total > 0
  PROVE  Shows(BuildApps(v, t), t) /\ Grouped(BuildApps(v, t))
  <1> DEFINE g == Group(v, t, Objects(v.total, "app"))
  <1>1. v.total # 0 /\ v.total \in Nat
    BY TableSize DEF Shows
  <1>2. BuildApps(v, t) = Focus(g, t, 0)
    <2>1. BuildApps(v, t) = Focus(Group(v, t, BoundSlots(v) \o ButtonIds("app")), t, 0)
      BY <1>1 DEF BuildApps
    <2> QED
      BY <2>1, GroupIsObjects
  <1>3. Shows(g, t) /\ Grouped(g)
    BY <1>1, ObjectsBounded, GroupKeeps
  <1> HIDE DEF g
  <1> QED
    BY <1>2, <1>3, FocusKeeps

LEMMA CreatedShows ==
  ASSUME NEW t, IsTable(t), Size(t) > 0
  PROVE  Shows(Created(t), t)
  <1> DEFINE none == [total |-> Size(t), start |-> 0, group |-> <<>>, focus |-> None,
                      slots |-> [i \in Slot |-> [idx |-> None, shown |-> "nothing"]]]
  <1>1. Size(t) # 0
    BY TableSize
  <1>2. Created(t) = Window(none, t, 0)
    BY <1>1 DEF Created, Size
  <1>3. IsView(none) /\ none.total = Size(t)
    BY DEF IsView
  <1> HIDE DEF none
  <1> QED
    BY <1>2, <1>3, WindowShows

\* An entry is in one slot.
LEMMA SlotOf ==
  ASSUME NEW v, NEW t, Shows(v, t), NEW i \in Slot, NEW op \in Nat, v.slots[i].idx = op
  PROVE  LET at == {j \in Slot : v.slots[j].idx = op}
         IN  at = {i} /\ (CHOOSE x \in at : \A j \in at : x <= j) = i
  <1> DEFINE at == {j \in Slot : v.slots[j].idx = op}
  <1>1. \A j \in Slot : j \in Int
    BY ListsAssumption DEF Slot
  <1>2. \A j \in at : j = i
    <2> SUFFICES ASSUME NEW j \in Slot, v.slots[j].idx = op PROVE j = i
      OBVIOUS
    <2>1. v.slots[j].idx \in {v.start + j, None} /\ v.slots[i].idx \in {v.start + i, None}
      BY DEF Shows
    <2>2. v.start \in Nat
      BY DEF Shows
    <2> QED
      BY <1>1, <2>1, <2>2 DEF None
  <1>3. at = {i}
    BY <1>2
  <1> HIDE DEF at
  <1>4. \E x \in at : \A j \in at : x <= j
    BY <1>1, <1>3
  <1>5. (CHOOSE x \in at : \A j \in at : x <= j) = i
    BY <1>3, <1>4
  <1> QED
    BY <1>3, <1>5 DEF at

\* The entry that is carried is in a slot.
LEMMA AloneShows ==
  ASSUME NEW v, NEW t, NEW op \in Nat, NEW guarded \in BOOLEAN, Shows(v, t), IsTable(t),
         \E i \in Slot : v.slots[i].idx = op
  PROVE  Shows(Alone(v, t, op, guarded), t) /\ Grouped(Alone(v, t, op, guarded))
  <1> DEFINE at == {i \in Slot : v.slots[i].idx = op}
             s == CHOOSE i \in at : \A j \in at : i <= j
             g == [v EXCEPT !.group = <<s>>, !.focus = s]
  <1>1. PICK i \in Slot : v.slots[i].idx = op
    OBVIOUS
  <1>2. at = {i} /\ s = i
    BY <1>1, SlotOf
  <1> HIDE DEF at, s
  <1>3. i < v.total
    <2>1. v.slots[i].idx >= 0
      BY <1>1
    <2> QED
      BY <2>1, BoundInFront
  <1>4. 1 \in DOMAIN <<s>> /\ Bounded(<<s>>, v.total)
    BY <1>2, <1>3 DEF Bounded
  <1>5. CASE guarded
    <2>1. Alone(v, t, op, guarded) = g
      BY <1>2, <1>5 DEF Alone, at, s
    <2>2. g = [total |-> v.total, start |-> v.start, group |-> <<s>>, focus |-> s, slots |-> v.slots]
      BY ViewFields, Zenon DEF Shows
    <2> HIDE DEF g
    <2>3. /\ g.total = v.total /\ g.start = v.start /\ g.group = <<s>> /\ g.focus = s /\ g.slots = v.slots
          /\ IsView(g)
      BY <2>2 DEF IsView
    <2>4. In(g.focus, g.group)
      BY <2>3 DEF In
    <2>5. Shows(g, t) /\ Grouped(g)
      BY <1>4, <2>3, <2>4 DEF Shows, Grouped
    <2> QED
      BY <2>1, <2>5
  <1>6. CASE ~ guarded
    <2>1. Alone(v, t, op, guarded) = Focus(Group(v, t, <<s>>), t, s)
      BY <1>2, <1>6 DEF Alone, at, s
    <2> QED
      BY <1>4, <2>1, GroupKeeps, FocusKeeps
  <1> QED
    BY <1>5, <1>6

\* screen_oplist_reorder_move brings the entry into view.
LEMMA WindowForShows ==
  ASSUME NEW v, NEW t, NEW u, NEW to \in 0 .. v.total - 1,
         Shows(v, t), IsTable(t), IsTable(u), Size(u) = Size(t)
  PROVE  /\ Shows(WindowFor(v, u, to), u)
         /\ \E i \in Slot : WindowFor(v, u, to).slots[i].idx = to
  <1>1. /\ IsView(v) /\ v.total = Size(u) /\ v.start \in Nat /\ v.total \in Nat /\ Slots \in Nat \ {0} /\ to \in Nat
        /\ v.start = 0 \/ v.start + Slots <= v.total
    BY TableSize, ListsAssumption DEF Shows
  <1>2. PICK k \in Int : /\ WindowFor(v, u, to) = Window(v, u, k)
                         /\ \/ to < v.start /\ k = to
                            \/ to >= v.start + Slots /\ k = to - Slots + 1
                            \/ to >= v.start /\ to < v.start + Slots /\ k = v.start
    BY <1>1 DEF WindowFor
  <1> DEFINE w == Window(v, u, k)
  <1>3. Shows(w, u) /\ w.start = Clamped(v.total, k) /\ w.total = v.total
    BY <1>1, WindowShows
  <1>4. w.start = k
    <2>1. k \in Nat /\ (k = 0 \/ k + Slots <= v.total)
      BY <1>1, <1>2
    <2> QED
      BY <1>1, <1>3, <2>1, ClampedIn
  <1> HIDE DEF w
  <1>5. to - k \in Slot /\ k + (to - k) = to
    BY <1>1, <1>2 DEF Slot
  <1>6. w.slots[to - k].idx = to
    BY <1>1, <1>3, <1>4, <1>5 DEF Shows
  <1> QED
    BY <1>2, <1>3, <1>5, <1>6 DEF w


----------------------------------------------------------------------------

LEMMA ScannedTable ==
  ASSUME NEW t \in Tables
  PROVE  IsTable(t) /\ DOMAIN t \subseteq Nat
  BY ListsAssumption, FS_CardinalityType DEF IsTable

LEMMA MovedIsTable ==
  ASSUME NEW t, IsTable(t), NEW i, NEW j
  PROVE  IsTable(Moved(t, i, j)) /\ Size(Moved(t, i, j)) = Size(t)
  <1>1. DOMAIN Moved(t, i, j) = DOMAIN t /\ Moved(t, i, j) = [n \in DOMAIN t |-> Moved(t, i, j)[n]]
    BY DEF Moved
  <1> QED
    BY <1>1, Zenon DEF IsTable, Size

LEMMA ListsStart == ListsInit => ListsInv
  <1> SUFFICES ASSUME ListsInit PROVE ListsInv
    OBVIOUS
  <1>1. IsTable(table) /\ DOMAIN table \subseteq Nat
    BY ScannedTable DEF ListsInit
  <1>2. now \in Nat /\ list \in {"op", "app"} /\ (list = "op" => Count > 0) /\ marked /\ picked = None
    BY <1>1 DEF ListsInit
  <1> QED
    BY <1>1, <1>2 DEF ListsInv, ListsTyped, Seen

LEMMA LoadKeeps ==
  ASSUME ListsInv, Load
  PROVE  ListsInv'
  <1> DEFINE v == IF marked THEN Created(table) ELSE view
  <1>1. /\ UNCHANGED <<list, table, now>> /\ open' /\ picked' = None
        /\ view' = IF list = "op" THEN BuildGroup(v, table, now) ELSE BuildApps(v, table)
    BY DEF Load
  <1>2. ListsTyped /\ ListsTyped'
    BY <1>1 DEF ListsInv, ListsTyped, Count
  <1>3. CASE Count > 0
    <2>1. Shows(v, table) /\ IsTable(table) /\ now \in Int /\ list \in {"op", "app"}
      BY <1>2, <1>3, CreatedShows DEF ListsInv, ListsTyped, Seen, Count, Size
    <2>2. v.total > 0
      BY <1>3, <2>1 DEF Shows, Count, Size
    <2> HIDE DEF v
    <2>3. Shows(view', table) /\ Grouped(view')
      BY <1>1, <2>1, <2>2, BuildGroupShows, BuildAppsShows
    <2> QED
      BY <1>1, <1>2, <2>3 DEF ListsInv, Seen
  <1>4. CASE ~ (Count > 0)
    BY <1>1, <1>2, <1>4 DEF ListsInv, Seen, Count
  <1> QED
    BY <1>3, <1>4

LEMMA RescannedKeeps ==
  ASSUME ListsInv, Rescanned
  PROVE  ListsInv'
  <1>1. table' \in Tables /\ (list = "op" => DOMAIN table' # {}) /\ marked' /\ UNCHANGED <<list, picked>>
    BY DEF Rescanned
  <1>2. IsTable(table') /\ DOMAIN table' \subseteq Nat
    BY <1>1, ScannedTable
  <1>3. now' \in Nat
    BY <1>2 DEF Rescanned, Of
  <1>4. DOMAIN table' # {} => Cardinality(DOMAIN table') > 0
    <2>1. Size(table') \in Nat /\ DOMAIN table' = 0 .. Size(table') - 1
      BY <1>2, TableSize
    <2> QED
      BY <2>1 DEF Size
  <1> QED
    BY <1>1, <1>2, <1>3, <1>4 DEF ListsInv, ListsTyped, Seen, Count

\* Whoever moves the focus or what is in the group, while the table stays
LEMMA SameTableKeeps ==
  ASSUME ListsInv, UNCHANGED <<list, table, now, marked>>, picked' \in {picked, None} \/ list = "op",
         ~marked /\ Count > 0 => Shows(view', table) /\ picked' \in {None} \cup 0 .. Count - 1 /\ (open' => Grouped(view'))
  PROVE  ListsInv'
  BY DEF ListsInv, ListsTyped, Seen, Count

LEMMA MoveFocusKeeps ==
  ASSUME ListsInv, NEW k, MoveFocus(k)
  PROVE  ListsInv'
  <1>1. UNCHANGED <<list, table, now, marked, open, picked>> /\ open
    BY DEF MoveFocus
  <1>2. view' = view \/ \E obj : view' = Focus(view, table, obj)
    BY DEF MoveFocus
  <1>3. IsTable(table)
    BY DEF ListsInv, ListsTyped
  <1>4. ~marked /\ Count > 0 => Shows(view, table) /\ picked \in {None} \cup 0 .. Count - 1 /\ Grouped(view)
    BY <1>1 DEF ListsInv, Seen
  <1>5. ~marked /\ Count > 0 => Shows(view', table) /\ Grouped(view')
    BY <1>2, <1>3, <1>4, FocusKeeps
  <1> QED
    BY <1>1, <1>4, <1>5, SameTableKeeps

LEMMA PickUpKeeps ==
  ASSUME ListsInv, PickUp
  PROVE  ListsInv'
  <1>1. /\ UNCHANGED <<list, table, now, marked, open>> /\ open /\ list = "op" /\ view.focus \in Slot
        /\ picked' = view.slots[view.focus].idx /\ picked' >= 0 /\ view' = Alone(view, table, picked', FALSE)
    BY DEF PickUp
  <1>2. IsTable(table)
    BY DEF ListsInv, ListsTyped
  <1>3. ASSUME ~marked, Count > 0 PROVE Shows(view', table) /\ picked' \in 0 .. Count - 1 /\ Grouped(view')
    <2>1. Shows(view, table)
      BY <1>3 DEF ListsInv, Seen
    <2>2. picked' \in 0 .. Count - 1
      <3>1. view.start \in Nat /\ view.focus \in Int
        BY <1>1, <2>1, ListsAssumption DEF Shows, Slot
      <3>2. view.total = Count /\ Count \in Nat
        BY <1>2, <2>1, TableSize DEF Shows, Count, Size
      <3>3. view.slots[view.focus].idx = (IF view.start + view.focus < view.total THEN view.start + view.focus ELSE -1)
        BY <1>1, <2>1 DEF Shows, None
      <3>4. view.slots[view.focus].idx >= 0
        BY <1>1
      <3>5. view.slots[view.focus].idx \in 0 .. Count - 1
        BY <3>1, <3>2, <3>3, <3>4
      <3> QED
        BY <1>1, <3>5
    <2>3. Shows(Alone(view, table, picked', FALSE), table) /\ Grouped(Alone(view, table, picked', FALSE))
      <3>1. picked' \in Nat /\ picked' = view.slots[view.focus].idx
        BY <1>1, <2>2
      <3> QED
        BY <1>1, <1>2, <2>1, <3>1, AloneShows
    <2> QED
      BY <1>1, <2>2, <2>3, Zenon
  <1> QED
    BY <1>1, <1>3, SameTableKeeps

LEMMA PutDownKeeps ==
  ASSUME ListsInv, PutDown
  PROVE  ListsInv'
  <1>1. /\ UNCHANGED <<list, table, now, marked, open>> /\ open /\ picked' = None
        /\ view' = BuildGroup(view, table, picked)
    BY DEF PutDown
  <1>2. IsTable(table)
    BY DEF ListsInv, ListsTyped
  <1>3. ASSUME ~marked, Count > 0 PROVE Shows(view', table) /\ Grouped(view')
    <2>1. Shows(view, table) /\ picked \in Int /\ view.total > 0
      BY <1>3 DEF ListsInv, Seen, Shows, Count, Size, None
    <2> QED
      BY <1>1, <1>2, <2>1, BuildGroupShows
  <1> QED
    BY <1>1, <1>3, SameTableKeeps

LEMMA MovePickedKeeps ==
  ASSUME ListsInv, NEW k, MovePicked(k)
  PROVE  ListsInv'
  <1> DEFINE to == picked + (IF k = "right" THEN 1 ELSE -1)
             w == WindowFor(view, table', to)
  <1>1. open /\ picked # None /\ UNCHANGED <<list, open, marked>>
    BY DEF MovePicked
  <1>2. CASE to \notin 0 .. view.total - 1
    <2>1. UNCHANGED <<table, now, picked, view>>
      BY <1>2 DEF MovePicked
    <2> QED
      BY <1>1, <2>1 DEF ListsInv, ListsTyped, Seen, Count
  <1>3. CASE to \in 0 .. view.total - 1
    <2>1. /\ \/ {picked, to} \subseteq DOMAIN table /\ table' = Moved(table, picked, to) /\ now' = NowAfter(picked, to)
             \/ UNCHANGED <<table, now>>
          /\ picked' = to /\ view' = Alone(w, table', to, TRUE)
      BY <1>3 DEF MovePicked
    <2>2. IsTable(table) /\ now \in Nat /\ DOMAIN table \subseteq Nat
      BY TableSize DEF ListsInv, ListsTyped
    <2>3. to \in Nat
      BY <1>3
    <2> HIDE DEF to
    <2>4. IsTable(table') /\ Size(table') = Size(table)
      BY <2>1, <2>2, MovedIsTable
    <2>5. now' \in Nat
      <3>1. ASSUME {picked, to} \subseteq DOMAIN table PROVE NowAfter(picked, to) \in Nat
        BY <2>2, <2>3, <3>1 DEF NowAfter
      <3> QED
        BY <2>1, <2>2, <3>1
    <2>6. ASSUME ~marked, Count > 0 PROVE Shows(view', table') /\ Grouped(view')
      <3>1. Shows(view, table)
        BY <2>6 DEF ListsInv, Seen
      <3>2. Shows(w, table') /\ \E i \in Slot : w.slots[i].idx = to
        BY <1>3, <2>2, <2>4, <3>1, WindowForShows
      <3> HIDE DEF w
      <3> QED
        BY <2>1, <2>3, <2>4, <3>2, AloneShows
    <2>7. ListsTyped'
      BY <1>1, <2>4, <2>5 DEF ListsInv, ListsTyped, Count, Size
    <2>8. Seen'
      <3>1. Count' = Count /\ marked' = marked /\ picked' = to
        BY <1>1, <2>1, <2>4 DEF Count, Size
      <3>2. ASSUME ~marked, Count > 0 PROVE to \in 0 .. Count - 1
        BY <1>3, <3>2 DEF ListsInv, Seen, Shows, Count, Size
      <3> QED
        BY <2>6, <3>1, <3>2 DEF Seen
    <2> QED
      BY <2>7, <2>8 DEF ListsInv
  <1> QED
    BY <1>2, <1>3

LEMMA LeavingKeeps ==
  ASSUME ListsInv, Interrupted \/ Leave
  PROVE  ListsInv'
  <1>1. UNCHANGED <<list, table, marked, view, picked>> /\ open' = FALSE
    BY DEF Interrupted, Leave
  <1>2. now' \in Nat
    <2>1. now \in Nat /\ DOMAIN table \subseteq Nat
      BY TableSize DEF ListsInv, ListsTyped
    <2> QED
      BY <2>1 DEF Interrupted, Leave
  <1> QED
    BY <1>1, <1>2 DEF ListsInv, ListsTyped, Seen, Count

LEMMA ListsKeep == ListsInv /\ [ListsNext]_listVars => ListsInv'
  <1> SUFFICES ASSUME ListsInv, [ListsNext]_listVars PROVE ListsInv'
    OBVIOUS
  <1>1. CASE UNCHANGED listVars
    BY <1>1, Zenon DEF listVars, ListsInv, ListsTyped, Seen, Count
  <1> QED
    BY <1>1, LoadKeeps, RescannedKeeps, MoveFocusKeeps, PickUpKeeps, PutDownKeeps, MovePickedKeeps, LeavingKeeps,
       Zenon DEF ListsNext

LEMMA SeenIsSelected == ListsInv => WhatIsSeenIsSelected
  <1> SUFFICES ASSUME ListsInv, open, ~marked, Count > 0
               PROVE  /\ \A i \in Slot : LET n == view.start + i
                                         IN  /\ view.slots[i].idx = (IF n < Count THEN n ELSE None)
                                             /\ n < Count => view.slots[i].shown = table[n]
                      /\ In(view.focus, view.group)
                      /\ \A i \in DOMAIN view.group : view.group[i] \in Slot => view.slots[view.group[i]].idx >= 0
    BY DEF WhatIsSeenIsSelected
  <1>1. Shows(view, table) /\ Grouped(view) /\ IsTable(table) /\ view.total = Count
    BY DEF ListsInv, ListsTyped, Seen, Shows, Count, Size
  <1>2. \A i \in DOMAIN view.group : view.group[i] \in Slot => view.slots[view.group[i]].idx >= 0
    BY <1>1, BoundInFront DEF Grouped, Bounded
  <1> QED
    BY <1>1, <1>2 DEF Shows, Grouped

\* However the focus, the window and the operator that is carried have moved: each
\* slot shows the entry it selects, the window has no gap, and the focus is on
\* something in view, as long as the table is the one the list was built of
\* (update_visible_range, slot_focus_cb, build_group, screen_oplist_reorder_move).
THEOREM WhatIsSeenIsSelectedCorrect == ListSpec => []WhatIsSeenIsSelected
  <1>1. ListsInit => ListsInv
    BY ListsStart
  <1>2. ListsInv /\ [ListsNext]_listVars => ListsInv'
    BY ListsKeep
  <1>3. ListsInv => WhatIsSeenIsSelected
    BY SeenIsSelected
  <1> QED
    BY <1>1, <1>2, <1>3, PTL DEF ListSpec


----------------------------------------------------------------------------
(* One key moves the focus by one entry.  This needs five slots: with fewer, the *)
(* focus can be near both ends of the window.                                   *)

AtEnd(v) == v.start + Slots >= v.total

\* The focus comes to the last slot, and behind it, at the end of the table only.
Near(v) == v.focus \in 0 .. Slots - 2 \/ AtEnd(v)
Navigable(v, l) == v.group = Objects(v.total, l) /\ Near(v)
Navigation == ~marked /\ Count > 0 /\ open /\ picked = None => Navigable(view, list)

LEMMA ObjectsAre ==
  ASSUME NEW n \in Nat, n > 0, NEW l \in {"op", "app"}
  PROVE  LET m == Least(n, Slots) b == Len(Below[l])
         IN  /\ m \in 1 .. Slots /\ m <= n /\ (m = n \/ m = Slots) /\ b \in Nat /\ Slots \in Nat
             /\ DOMAIN Objects(n, l) = 1 .. m + b
             /\ \A p \in 1 .. m : Objects(n, l)[p] = p - 1
             /\ \A p \in m + 1 .. m + b : Objects(n, l)[p] = Slots + p - m - 1
  <1> DEFINE m == Least(n, Slots)
             b == Len(Below[l])
             d == [p \in 1 .. m + b |-> IF p <= m THEN p - 1 ELSE Slots + p - m - 1]
  <1>1. m \in 1 .. Slots /\ m <= n /\ (m = n \/ m = Slots) /\ b \in Nat /\ Slots \in Nat
    BY ListsAssumption, ButtonsAfter DEF Least
  <1>2. Objects(n, l) = d
    BY Zenon DEF Objects
  <1> HIDE DEF m, b
  <1>3. /\ DOMAIN d = 1 .. m + b /\ \A p \in 1 .. m : d[p] = p - 1
        /\ \A p \in m + 1 .. m + b : d[p] = Slots + p - m - 1
    BY <1>1
  <1> HIDE DEF d
  <1>4. /\ DOMAIN Objects(n, l) = 1 .. m + b
        /\ \A p \in 1 .. m : Objects(n, l)[p] = p - 1
        /\ \A p \in m + 1 .. m + b : Objects(n, l)[p] = Slots + p - m - 1
    BY <1>2, <1>3, Zenon
  <1> QED
    BY <1>1, <1>4 DEF m, b

LEMMA InObjects ==
  ASSUME NEW n \in Nat, n > 0, NEW l \in {"op", "app"}, NEW s \in Slot, s < n
  PROVE  In(s, Objects(n, l))
  <1> DEFINE m == Least(n, Slots)
             o == Objects(n, l)
  <1>1. s \in Nat /\ s < Slots
    BY ListsAssumption DEF Slot
  <1>2. /\ m \in 1 .. Slots /\ (m = n \/ m = Slots) /\ Len(Below[l]) \in Nat
        /\ DOMAIN o = 1 .. m + Len(Below[l]) /\ \A p \in 1 .. m : o[p] = p - 1
    BY ObjectsAre
  <1> HIDE DEF m, o
  <1>3. s + 1 \in 1 .. m /\ s + 1 \in DOMAIN o
    BY <1>1, <1>2
  <1>4. o[s + 1] = s
    BY <1>1, <1>2, <1>3
  <1> QED
    BY <1>3, <1>4 DEF In, o

\* refocus_op, while the entry is in a slot of the window
LEMMA FollowTo ==
  ASSUME NEW w, NEW t, Shows(w, t), IsTable(t), NEW l \in {"op", "app"}, w.total > 0,
         w.group = Objects(w.total, l), NEW i \in Slot, w.start + i < w.total
  PROVE  /\ Follow(w, w.start + i).focus = i /\ Follow(w, w.start + i).start = w.start
         /\ Follow(w, w.start + i).group = w.group
  <1> DEFINE k == w.start + i
             at == {j \in Slot : w.slots[j].idx = k}
  <1>1. i \in Nat /\ w.start \in Nat /\ w.total \in Nat /\ IsView(w) /\ i < w.total
    BY ListsAssumption, TableSize DEF Shows, Slot
  <1>2. w.slots[i].idx = k /\ k \in Nat
    BY <1>1 DEF Shows
  <1> HIDE DEF k
  <1>3. at = {i} /\ (CHOOSE x \in at : \A j \in at : x <= j) = i
    BY <1>2, SlotOf
  <1>4. In(i, w.group)
    BY <1>1, InObjects
  <1>5. Follow(w, k) = [w EXCEPT !.focus = i]
    BY <1>3, <1>4 DEF Follow
  <1>6. [w EXCEPT !.focus = i].focus = i /\ [w EXCEPT !.focus = i].start = w.start /\ [w EXCEPT !.focus = i].group = w.group
    BY <1>1 DEF IsView
  <1> QED
    BY <1>5, <1>6 DEF k

\* slot_focus_cb moves the window by one when the focus is near an end of it, and
\* leaves the focus on its entry.
Shifted(v, w, s) ==
  \/ s <= 1 /\ v.start > 0 /\ w.start = v.start - 1 /\ w.focus = s + 1
  \/ ~ (s <= 1 /\ v.start > 0) /\ s >= Slots - 2 /\ ~ AtEnd(v) /\ w.start = v.start + 1 /\ w.focus = s - 1
  \/ ~ (s <= 1 /\ v.start > 0) /\ ~ (s >= Slots - 2 /\ ~ AtEnd(v)) /\ w.start = v.start /\ w.focus = s

LEMMA SlotFocusedShifts ==
  ASSUME NEW v, NEW t, Shows(v, t), IsTable(t), NEW l \in {"op", "app"}, v.group = Objects(v.total, l),
         Slots >= 5, v.focus \in Slot, v.focus < v.total
  PROVE  Shifted(v, SlotFocused(v, t), v.focus)
  <1> DEFINE s == v.focus
  <1>1. /\ s \in Nat /\ s < Slots /\ Slots \in Nat /\ v.start \in Nat /\ v.total \in Nat /\ IsView(v)
        /\ v.total = Size(t) /\ v.total > 0 /\ (v.start = 0 \/ v.start + Slots <= v.total) /\ None = -1
    BY ListsAssumption, TableSize DEF Shows, Slot, None
  <1>2. v.slots[s].idx = v.start + s /\ v.start + s < v.total
    BY <1>1 DEF Shows
  <1> DEFINE w(d) == Window(v, t, v.start + d)
  <1>3. ASSUME NEW d \in {-1, 1}, v.start + d \in Nat, v.start + d + Slots <= v.total, NEW i \in Slot, i = s - d
        PROVE  /\ Follow(w(d), v.slots[s].idx).focus = i /\ Follow(w(d), v.slots[s].idx).start = v.start + d
    <2> DEFINE x == w(d)
    <2>1. v.start + d \in Int
      BY <1>3
    <2>2. Shows(x, t) /\ x.start = Clamped(v.total, v.start + d) /\ x.group = v.group /\ x.total = v.total
      BY <1>1, <2>1, WindowShows
    <2>3. x.start = v.start + d
      BY <1>1, <1>3, <2>1, <2>2, ClampedIn
    <2>4. x.start + i = v.start + s /\ x.start + i < x.total
      BY <1>1, <1>2, <1>3, <2>2, <2>3
    <2> HIDE DEF x
    <2>5. Follow(x, x.start + i).focus = i /\ Follow(x, x.start + i).start = x.start
      BY <1>1, <2>2, <2>4, FollowTo
    <2> QED
      BY <1>2, <2>3, <2>4, <2>5 DEF x
  <1>4. CASE s <= 1 /\ v.start > 0
    <2>1. SlotFocused(v, t) = Follow(Window(v, t, v.start - 1), v.slots[s].idx)
      BY <1>1, <1>2, <1>4 DEF SlotFocused
    <2>2. v.start - 1 = v.start + (-1) /\ v.start + (-1) \in Nat /\ v.start + (-1) + Slots <= v.total /\ s + 1 \in Slot
          /\ s + 1 = s - (-1)
      BY <1>1, <1>4 DEF Slot
    <2>3. /\ Follow(w(-1), v.slots[s].idx).focus = s + 1 /\ Follow(w(-1), v.slots[s].idx).start = v.start + (-1)
      BY <1>3, <2>2
    <2> QED
      BY <1>4, <2>1, <2>2, <2>3 DEF Shifted
  <1>5. CASE ~ (s <= 1 /\ v.start > 0) /\ s >= Slots - 2 /\ ~ AtEnd(v)
    <2>1. SlotFocused(v, t) = Follow(Window(v, t, v.start + 1), v.slots[s].idx)
      BY <1>1, <1>2, <1>5 DEF SlotFocused, AtEnd
    <2>2. v.start + 1 \in Nat /\ v.start + 1 + Slots <= v.total /\ s - 1 \in Slot
      BY <1>1, <1>5 DEF Slot, AtEnd
    <2>3. /\ Follow(w(1), v.slots[s].idx).focus = s - 1 /\ Follow(w(1), v.slots[s].idx).start = v.start + 1
      BY <1>3, <2>2
    <2> QED
      BY <1>5, <2>1, <2>3 DEF Shifted
  <1>6. CASE ~ (s <= 1 /\ v.start > 0) /\ ~ (s >= Slots - 2 /\ ~ AtEnd(v))
    <2>1. SlotFocused(v, t) = v
      BY <1>1, <1>2, <1>6 DEF SlotFocused, AtEnd
    <2> QED
      BY <1>6, <2>1 DEF Shifted
  <1> QED
    BY <1>4, <1>5, <1>6

LEMMA FocusShifts ==
  ASSUME NEW v, NEW t, Shows(v, t), Grouped(v), IsTable(t), NEW l \in {"op", "app"}, v.group = Objects(v.total, l),
         Slots >= 5, NEW s \in Slot, s < v.total
  PROVE  /\ Shifted(v, Focus(v, t, s), s) /\ Shows(Focus(v, t, s), t) /\ Grouped(Focus(v, t, s))
         /\ Navigable(Focus(v, t, s), l)
  <1> DEFINE u == [v EXCEPT !.focus = s]
             w == Focus(v, t, s)
  <1>1. /\ s \in Nat /\ s < Slots /\ Slots \in Nat /\ v.start \in Nat /\ v.total \in Nat /\ IsView(v) /\ v.total > 0
        /\ v.total = Size(t)
    BY ListsAssumption, TableSize DEF Shows, Slot
  <1>2. w = SlotFocused(u, t)
    BY <1>1, InObjects DEF Focus
  <1>3. u.total = v.total /\ u.start = v.start /\ u.group = v.group /\ u.focus = s /\ u.slots = v.slots /\ IsView(u)
    BY <1>1 DEF IsView
  <1> HIDE DEF u
  <1>4. Shows(u, t)
    BY <1>3 DEF Shows
  <1>5. Shifted(u, SlotFocused(u, t), u.focus)
    BY <1>3, <1>4, SlotFocusedShifts
  <1>6. Shifted(v, w, s)
    BY <1>2, <1>3, <1>5 DEF Shifted, AtEnd
  <1>7. Shows(w, t) /\ Grouped(w) /\ w.group = v.group
    BY FocusKeeps
  <1>8. w.total = v.total
    BY <1>1, <1>7 DEF Shows
  <1> HIDE DEF w
  <1>9. Near(w)
    BY <1>1, <1>6, <1>8 DEF Shifted, AtEnd, Near
  <1> QED
    BY <1>6, <1>7, <1>8, <1>9 DEF Navigable, w


\* Whoever builds the group, it is whole, and the focus in front or where it was asked for.
LEMMA GroupNavigable ==
  ASSUME NEW v, NEW t, Shows(v, t), IsTable(t), v.total > 0, NEW l \in {"op", "app"}, Slots >= 5
  PROVE  LET g == Group(v, t, Objects(v.total, l))
         IN  Shows(g, t) /\ Grouped(g) /\ Navigable(g, l) /\ g.total = v.total
  <1> DEFINE g == Group(v, t, Objects(v.total, l))
  <1>1. v.total \in Nat /\ v.total = Size(t) /\ Slots \in Nat
    BY TableSize, ListsAssumption DEF Shows
  <1>2. Shows(g, t) /\ Grouped(g) /\ g.group = Objects(v.total, l) /\ g.focus = 0
    BY <1>1, ObjectsBounded, GroupKeeps
  <1> HIDE DEF g
  <1>3. g.total = v.total
    BY <1>1, <1>2 DEF Shows
  <1>4. Near(g)
    BY <1>1, <1>2 DEF Near
  <1> QED
    BY <1>2, <1>3, <1>4 DEF Navigable, g

LEMMA BuildGroupNavigable ==
  ASSUME NEW v, NEW t, NEW k \in Nat, Shows(v, t), IsTable(t), v.total > 0, Slots >= 5
  PROVE  Navigable(BuildGroup(v, t, k), "op")
  <1> DEFINE w == IF k \notin v.start .. v.start + Slots - 1 THEN Window(v, t, k) ELSE v
             g == Group(w, t, Objects(w.total, "op"))
             at == {i \in Slot : g.slots[i].idx = k}
  <1>1. Shows(w, t) /\ w.total = v.total
    <2>1. IsView(v) /\ v.total = Size(t)
      BY DEF Shows
    <2> QED
      BY <2>1, WindowShows
  <1>2. BuildGroup(v, t, k) = Refocus(g, t, k)
    <2>1. BuildGroup(v, t, k) = Refocus(Group(w, t, BoundSlots(w) \o ButtonIds("op")), t, k)
      BY DEF BuildGroup
    <2> HIDE DEF w
    <2> QED
      BY <1>1, <2>1, GroupIsObjects
  <1> HIDE DEF w
  <1>3. Shows(g, t) /\ Grouped(g) /\ Navigable(g, "op") /\ g.total = v.total
    BY <1>1, GroupNavigable
  <1> HIDE DEF g
  <1>4. CASE at = {}
    BY <1>2, <1>3, <1>4 DEF Refocus
  <1>5. CASE at # {}
    <2>1. PICK i \in Slot : g.slots[i].idx = k
      BY <1>5
    <2>2. at = {i} /\ (CHOOSE x \in at : \A j \in at : x <= j) = i
      BY <1>3, <2>1, SlotOf
    <2>3. Refocus(g, t, k) = Focus(g, t, i)
      BY <2>2 DEF Refocus
    <2>4. i < g.total
      <3>1. g.slots[i].idx >= 0
        BY <2>1
      <3> QED
        BY <1>3, <3>1, BoundInFront
    <2> QED
      BY <1>2, <1>3, <2>3, <2>4, FocusShifts DEF Navigable
  <1> QED
    BY <1>4, <1>5

LEMMA BuildAppsNavigable ==
  ASSUME NEW v, NEW t, Shows(v, t), IsTable(t), v.total > 0, Slots >= 5
  PROVE  Navigable(BuildApps(v, t), "app")
  <1> DEFINE g == Group(v, t, Objects(v.total, "app"))
  <1>1. v.total # 0 /\ v.total \in Nat /\ 0 \in Slot
    BY TableSize, ListsAssumption DEF Shows, Slot
  <1>2. BuildApps(v, t) = Focus(g, t, 0)
    <2>1. BuildApps(v, t) = Focus(Group(v, t, BoundSlots(v) \o ButtonIds("app")), t, 0)
      BY <1>1 DEF BuildApps
    <2> QED
      BY <2>1, GroupIsObjects
  <1>3. Shows(g, t) /\ Grouped(g) /\ Navigable(g, "app") /\ g.total = v.total
    BY GroupNavigable
  <1> HIDE DEF g
  <1> QED
    BY <1>1, <1>2, <1>3, FocusShifts DEF Navigable

\* Where the focus is, and that the window is ahead of it, in any view
FocusedIn(v) == IF v.focus \in Slot THEN v.slots[v.focus].idx ELSE v.total + v.focus - Slots
AheadIn(v) == v.focus \in Slot => /\ v.focus <= 1 => v.start = 0
                                  /\ v.focus >= Slots - 2 => v.start + Slots >= v.total

LEMMA FocusedOnSlot ==
  ASSUME NEW v, NEW t, Shows(v, t), IsTable(t), v.focus \in Slot, v.focus < v.total
  PROVE  FocusedIn(v) = v.start + v.focus
  <1>1. v.focus \in Nat /\ v.focus < Slots /\ v.start \in Nat /\ v.total \in Nat /\ Slots \in Nat
        /\ (v.start = 0 \/ v.start + Slots <= v.total)
    BY ListsAssumption, TableSize DEF Shows, Slot
  <1>2. v.start + v.focus < v.total
    BY <1>1
  <1> QED
    BY <1>2 DEF FocusedIn, Shows

\* The same for a button, which moves no window
LEMMA FocusButton ==
  ASSUME NEW v, NEW t, IsView(v), NEW o, In(o, v.group), o \notin Slot
  PROVE  /\ Focus(v, t, o).focus = o /\ Focus(v, t, o).start = v.start /\ Focus(v, t, o).total = v.total
         /\ Focus(v, t, o).group = v.group
  <1> DEFINE u == [v EXCEPT !.focus = o]
  <1>1. u.focus = o /\ u.start = v.start /\ u.total = v.total /\ u.group = v.group
    BY DEF IsView
  <1> HIDE DEF u
  <1>2. SlotFocused(u, t) = u
    BY <1>1 DEF SlotFocused
  <1>3. Focus(v, t, o) = u
    BY <1>2 DEF Focus, u
  <1> QED
    BY <1>1, <1>3

\* Where a key leads: with position p of the group in focus
KeyLeads(v, t, to) == IF to \in DOMAIN v.group THEN Focus(v, t, v.group[to]) ELSE v
MovesOne(v, w, l, step) ==
  FocusedIn(w) = Most(0, Least(v.total + Len(Below[l]) - 1, FocusedIn(v) + step)) /\ AheadIn(w)

LEMMA KeyMoves ==
  ASSUME NEW v, NEW t, Shows(v, t), Grouped(v), IsTable(t), v.total > 0, NEW l \in {"op", "app"}, Navigable(v, l),
         Slots >= 5, NEW step \in {-1, 1}
  PROVE  LET w == KeyLeads(v, t, Place(v) + step)
         IN  Navigable(w, l) /\ (AheadIn(v) => MovesOne(v, w, l, step))
  <1>1. PICK T \in Nat, s \in Nat :
          T = v.total /\ s = v.start /\ IsView(v) /\ T = Size(t) /\ T > 0 /\ (s = 0 \/ s + Slots <= T)
    BY TableSize DEF Shows
  <1>2. Objects(T, l) = v.group /\ Near(v)
    BY <1>1 DEF Navigable
  <1>3. PICK m \in 1 .. Slots, b \in Nat :
          /\ b = Len(Below[l]) /\ m <= T /\ (m = T \/ m = Slots) /\ Slots \in Nat
          /\ DOMAIN v.group = 1 .. m + b
          /\ \A p \in 1 .. m : v.group[p] = p - 1
          /\ \A p \in m + 1 .. m + b : v.group[p] = Slots + p - m - 1
    <2>1. LET x == Least(T, Slots) y == Len(Below[l])
          IN  /\ x \in 1 .. Slots /\ x <= T /\ (x = T \/ x = Slots) /\ y \in Nat /\ Slots \in Nat
              /\ DOMAIN Objects(T, l) = 1 .. x + y
              /\ \A p \in 1 .. x : Objects(T, l)[p] = p - 1
              /\ \A p \in x + 1 .. x + y : Objects(T, l)[p] = Slots + p - x - 1
      BY <1>1, ObjectsAre
    <2> QED
      BY <1>2, <2>1, Zenon
  \* Where the window is, when it is at the end of the table
  <1>4. /\ m \in Nat /\ m >= 1 /\ m <= Slots /\ (m # Slots => s = 0 /\ m = T)
        /\ s + Slots >= T => s + m = T
        /\ Slots \in Nat /\ T \in Nat /\ T > 0 /\ s \in Nat /\ b \in Nat /\ (s = 0 \/ s + Slots <= T)
        /\ m <= T /\ (m = T \/ m = Slots) /\ Slots >= 5
    <2>1. Slots \in Nat /\ m \in Nat /\ m >= 1 /\ m <= Slots /\ m <= T /\ (m = T \/ m = Slots)
      BY <1>3
    <2>2. s = 0 \/ s + Slots <= T
      BY <1>1
    <2>3. T > 0
      BY <1>1
    <2> QED
      BY <2>1, <2>2, <2>3
  <1>5. PICK p \in 1 .. m + b : v.group[p] = v.focus
    BY <1>3 DEF Grouped, In
  <1>6. p \in Nat /\ p >= 1 /\ p <= m + b /\ step \in Int
    BY <1>3
  <1>7. ASSUME NEW q \in 1 .. m + b
        PROVE  /\ q <= m => v.group[q] = q - 1
               /\ q > m => v.group[q] = Slots + q - m - 1
    BY <1>3, <1>4
  <1>8. Place(v) = p
    <2>1. ASSUME NEW q \in 1 .. m + b, v.group[q] = v.focus PROVE q = p
      <3>1. /\ q <= m => v.group[q] = q - 1
            /\ q > m => v.group[q] = Slots + q - m - 1
            /\ p <= m => v.group[p] = p - 1
            /\ p > m => v.group[p] = Slots + p - m - 1
            /\ v.group[q] = v.group[p]
        BY <1>5, <1>7, <2>1
      <3>2. q \in Nat /\ Slots \in Nat
        BY <1>3
      <3> QED
        BY <1>4, <1>6, <3>1, <3>2
    <2> QED
      BY <1>3, <1>5, <2>1 DEF Place
  <1> DEFINE w == KeyLeads(v, t, p + step)
  \* The focus is on a slot, or on a button.
  <1>9. ASSUME p <= m
        PROVE  v.focus = p - 1 /\ v.focus \in Slot /\ FocusedIn(v) = s + p - 1
    <2>1. v.focus = p - 1
      BY <1>5, <1>7, <1>9
    <2>2. p - 1 \in Slot /\ p - 1 < T
      BY <1>3, <1>4, <1>6, <1>9 DEF Slot
    <2>3. FocusedIn(v) = v.start + v.focus
      BY <1>1, <2>1, <2>2, FocusedOnSlot
    <2> QED
      BY <1>1, <1>6, <2>1, <2>2, <2>3
  <1>10. ASSUME p > m
         PROVE  v.focus = Slots + p - m - 1 /\ v.focus \notin Slot /\ FocusedIn(v) = T + p - m - 1 /\ s + m = T
    <2>1. v.focus = Slots + p - m - 1
      BY <1>5, <1>7, <1>10
    <2>2. Slots + p - m - 1 \notin Slot /\ Slots + p - m - 1 \notin 0 .. Slots - 2
      BY <1>4, <1>6, <1>10 DEF Slot
    <2>3. s + Slots >= T
      BY <1>1, <1>2, <2>1, <2>2 DEF Near, AtEnd
    <2>4. FocusedIn(v) = T + (Slots + p - m - 1) - Slots
      BY <1>1, <2>1, <2>2 DEF FocusedIn
    <2>5. T + (Slots + p - m - 1) - Slots = T + p - m - 1
      BY <1>3, <1>4, <1>6
    <2> QED
      BY <1>4, <2>1, <2>2, <2>3, <2>4, <2>5
  \* The last slot and what is behind it are at the end of the table.
  <1>11. p >= m => s + m = T
    <2>1. CASE p = m
      <3>1. v.focus = m - 1
        BY <1>6, <1>9, <2>1
      <3>2. m = Slots => s + Slots >= T
        BY <1>1, <1>2, <1>3, <3>1 DEF Near, AtEnd
      <3> QED
        BY <1>1, <1>4, <3>2
    <2> QED
      BY <1>4, <1>6, <1>10, <2>1
  \* To a slot
  <1>12. ASSUME p + step \in 1 .. m
         PROVE  Navigable(w, l) /\ (AheadIn(v) => MovesOne(v, w, l, step))
    <2>1. PICK x \in 0 .. m - 1 : x = p + step - 1
      BY <1>4, <1>6, <1>12
    <2>2. x \in Nat /\ x < m /\ x < T /\ x < Slots /\ x \in Slot /\ p = x + 1 - step
      <3>1. x \in Nat /\ x < m
        BY <1>4, <2>1
      <3> QED
        BY <1>4, <1>6, <2>1, <3>1 DEF Slot
    <2>3. w = Focus(v, t, x)
      <3>1. p + step \in DOMAIN v.group /\ v.group[p + step] = x
        BY <1>3, <1>4, <1>6, <1>12, <2>1
      <3> QED
        BY <3>1 DEF KeyLeads
    <2>4. Shifted(v, w, x) /\ Shows(w, t) /\ Navigable(w, l)
      BY <1>1, <1>2, <2>2, <2>3, FocusShifts
    <2> HIDE DEF w
    <2>5. PICK s1 \in Nat, f \in Slot :
            /\ w.start = s1 /\ w.focus = f /\ w.total = T
            /\ \/ x <= 1 /\ s > 0 /\ s1 = s - 1 /\ f = x + 1
               \/ ~ (x <= 1 /\ s > 0) /\ x >= Slots - 2 /\ s + Slots < T /\ s1 = s + 1 /\ f = x - 1
               \/ ~ (x <= 1 /\ s > 0) /\ ~ (x >= Slots - 2 /\ s + Slots < T) /\ s1 = s /\ f = x
      <3>1. \/ x <= 1 /\ s > 0 /\ w.start = s - 1 /\ w.focus = x + 1
            \/ ~ (x <= 1 /\ s > 0) /\ x >= Slots - 2 /\ s + Slots < T /\ w.start = s + 1 /\ w.focus = x - 1
            \/ ~ (x <= 1 /\ s > 0) /\ ~ (x >= Slots - 2 /\ s + Slots < T) /\ w.start = s /\ w.focus = x
        <4>1. ~ AtEnd(v) <=> s + Slots < T
          <5>1. v.start = s /\ v.total = T
            BY <1>1
          <5> QED
            BY <1>4, <5>1 DEF AtEnd
        <4> QED
          BY <1>1, <2>4, <4>1 DEF Shifted
      <3>2. w.start \in Nat /\ w.total = T
        BY <1>1, <2>4 DEF Shows
      <3>3. w.focus \in Slot
        <4>1. Slots >= 5 /\ Slots \in Nat /\ x \in Nat /\ x < Slots
          BY <1>4, <2>2
        <4>2. \/ x <= 1 /\ w.focus = x + 1
              \/ x >= Slots - 2 /\ w.focus = x - 1
              \/ w.focus = x
          BY <3>1
        <4>3. x <= 1 => x + 1 \in Slot
          BY <4>1 DEF Slot
        <4>4. x >= Slots - 2 => x - 1 \in Slot
          BY <4>1 DEF Slot
        <4>5. x \in Slot
          BY <2>2
        <4> QED
          BY <4>2, <4>3, <4>4, <4>5
      <3> QED
        BY <3>1, <3>2, <3>3
    <2>6. f \in Nat /\ f < Slots /\ s1 + f = s + x /\ s + x < T /\ f < T
      <3>1. f \in Nat /\ f < Slots
        BY <1>4 DEF Slot
      <3>2. \/ x <= 1 /\ s > 0 /\ s1 = s - 1 /\ f = x + 1
            \/ x >= Slots - 2 /\ s + Slots < T /\ s1 = s + 1 /\ f = x - 1
            \/ s1 = s /\ f = x
        BY <2>5
      <3> QED
        BY <1>4, <2>2, <3>1, <3>2
    <2>7. FocusedIn(w) = s + x
      <3>1. FocusedIn(w) = w.start + w.focus
        BY <2>4, <2>5, <2>6, FocusedOnSlot
      <3> QED
        BY <2>5, <2>6, <3>1
    <2>8. FocusedIn(v) + step = s + x
      <3>1. CASE p <= m
        BY <1>6, <1>9, <2>2, <3>1
      <3>2. CASE p > m
        \* back from the first button, to the last entry
        <4>1. step = -1 /\ p = m + 1 /\ x = m - 1
          BY <1>4, <1>6, <1>12, <2>1, <3>2
        <4> QED
          BY <1>1, <1>4, <1>10, <3>2, <4>1
      <3> QED
        BY <1>4, <1>6, <3>1, <3>2
    <2>9. ASSUME AheadIn(v) PROVE AheadIn(w)
      <3>1. CASE p <= m
        <4>1. v.focus = p - 1 /\ v.focus \in Slot
          BY <1>9, <3>1
        <4>2. (p - 1 <= 1 => s = 0) /\ (p - 1 >= Slots - 2 => s + Slots >= T)
          BY <1>1, <2>9, <4>1 DEF AheadIn
        <4>3. (f <= 1 => s1 = 0) /\ (f >= Slots - 2 => s1 + Slots >= T)
          <5>1. CASE step = 1
            BY <1>4, <2>2, <2>5, <4>2, <5>1
          <5>2. CASE step = -1
            BY <1>4, <2>2, <2>5, <4>2, <5>2
          <5> QED
            BY <5>1, <5>2
        <4> QED
          BY <2>5, <4>3 DEF AheadIn
      <3>2. CASE p > m
        <4>1. x = m - 1 /\ s + m = T
          BY <1>4, <1>6, <1>10, <1>12, <2>1, <3>2
        <4>2. (f <= 1 => s1 = 0) /\ (f >= Slots - 2 => s1 + Slots >= T)
          BY <1>4, <2>2, <2>5, <4>1
        <4> QED
          BY <2>5, <4>2 DEF AheadIn
      <3> QED
        BY <1>4, <1>6, <3>1, <3>2
    <2>10. s + x = Most(0, Least(T + b - 1, s + x))
      BY <1>4, <2>2, <2>6 DEF Most, Least
    <2> QED
      BY <1>1, <1>3, <2>4, <2>7, <2>8, <2>9, <2>10 DEF MovesOne
  \* To a button
  <1>13. ASSUME p + step \in m + 1 .. m + b
         PROVE  Navigable(w, l) /\ (AheadIn(v) => MovesOne(v, w, l, step))
    <2>1. PICK j \in 0 .. b - 1 : p + step = m + 1 + j
      <3>1. p + step - m - 1 \in 0 .. b - 1 /\ p + step = m + 1 + (p + step - m - 1)
        BY <1>4, <1>6, <1>13
      <3> QED
        BY <3>1
    <2>2. Slots + j \notin Slot /\ Slots + j \notin 0 .. Slots - 2 /\ j \in Nat /\ j < b
      <3>1. j \in Nat /\ j < b
        BY <1>4
      <3> QED
        BY <1>4, <3>1 DEF Slot
    <2>3. w = Focus(v, t, Slots + j) /\ In(Slots + j, v.group)
      <3>1. p + step \in 1 .. m + b /\ p + step > m
        BY <1>3, <1>4, <1>6, <1>13
      <3>2. v.group[p + step] = Slots + (p + step) - m - 1
        BY <1>7, <3>1
      <3>3. Slots + (p + step) - m - 1 = Slots + j
        BY <1>3, <1>4, <1>6, <2>1, <2>2
      <3> QED
        BY <1>3, <3>1, <3>2, <3>3 DEF KeyLeads, In
    <2> HIDE DEF w
    <2>4. w.focus = Slots + j /\ w.start = s /\ w.total = T /\ w.group = v.group
      <3> DEFINE o == Slots + j
      <3>1. In(o, v.group) /\ o \notin Slot /\ w = Focus(v, t, o)
        BY <2>2, <2>3
      <3> HIDE DEF o
      <3>2. w.focus = o /\ w.start = v.start /\ w.total = v.total /\ w.group = v.group
        <4>1. IsView(v)
          BY <1>1
        <4>2. /\ Focus(v, t, o).focus = o /\ Focus(v, t, o).start = v.start /\ Focus(v, t, o).total = v.total
              /\ Focus(v, t, o).group = v.group
          BY <3>1, <4>1, FocusButton
        <4> QED
          BY <3>1, <4>2, Zenon
      <3> QED
        BY <1>1, <3>2 DEF o
    <2>5. p >= m /\ s + m = T
      BY <1>4, <1>6, <1>11, <1>13
    <2>6. s + Slots >= T
      BY <1>1, <1>3, <1>4, <2>5
    <2>7. Navigable(w, l)
      BY <1>2, <2>4, <2>6 DEF Navigable, Near, AtEnd
    <2>8. FocusedIn(w) = T + j
      <3>1. FocusedIn(w) = T + (Slots + j) - Slots
        BY <2>2, <2>4 DEF FocusedIn
      <3> QED
        BY <1>1, <1>3, <2>2, <3>1
    <2>9. FocusedIn(v) + step = T + j
      <3>1. CASE p <= m
        <4>1. p = m /\ step = 1 /\ j = 0
          BY <1>4, <1>6, <2>1, <2>2, <2>5, <3>1
        <4> QED
          BY <1>1, <1>4, <1>9, <2>5, <3>1, <4>1
      <3>2. CASE p > m
        <4>1. p - m - 1 + step = j
          BY <1>4, <1>6, <2>1, <2>2
        <4> QED
          BY <1>1, <1>4, <1>6, <1>10, <3>2, <4>1
      <3> QED
        BY <1>4, <1>6, <3>1, <3>2
    <2>10. T + j = Most(0, Least(T + b - 1, T + j))
      BY <1>4, <2>2 DEF Most, Least
    <2>11. AheadIn(w)
      BY <2>2, <2>4 DEF AheadIn
    <2> QED
      BY <1>1, <1>3, <2>7, <2>8, <2>9, <2>10, <2>11 DEF MovesOne
  \* At an end of the group
  <1>14. ASSUME p + step \notin 1 .. m + b
         PROVE  Navigable(w, l) /\ (AheadIn(v) => MovesOne(v, w, l, step))
    <2>1. w = v
      BY <1>3, <1>14 DEF KeyLeads
    <2>2. (step = -1 /\ p = 1) \/ (step = 1 /\ p = m + b)
      BY <1>3, <1>4, <1>6, <1>14
    <2> HIDE DEF w
    <2>3. ASSUME AheadIn(v) PROVE FocusedIn(v) = Most(0, Least(T + b - 1, FocusedIn(v) + step))
      <3>1. CASE step = -1 /\ p = 1
        <4>1. p <= m
          BY <1>4, <3>1
        <4>2. v.focus = 0 /\ v.focus \in Slot /\ FocusedIn(v) = s
          BY <1>1, <1>9, <3>1, <4>1
        <4>3. s = 0
          BY <1>1, <2>3, <4>2 DEF AheadIn
        <4> QED
          BY <1>4, <3>1, <4>2, <4>3 DEF Most, Least
      <3>2. CASE step = 1 /\ p = m + b
        <4>1. FocusedIn(v) = T + b - 1
          <5>1. CASE p <= m
            <6>1. b = 0 /\ p = m
              BY <1>3, <1>4, <3>2, <5>1
            <6>2. s + m = T
              BY <1>4, <1>11, <6>1
            <6> QED
              BY <1>1, <1>4, <1>9, <5>1, <6>1, <6>2
          <5>2. CASE p > m
            BY <1>1, <1>3, <1>4, <1>10, <3>2, <5>2
          <5> QED
            BY <1>4, <1>6, <5>1, <5>2
        <4> QED
          BY <1>4, <3>2, <4>1 DEF Most, Least
      <3> QED
        BY <2>2, <3>1, <3>2
    <2> QED
      BY <1>1, <1>3, <2>1, <2>3 DEF MovesOne
  <1>15. \/ p + step \in 1 .. m \/ p + step \in m + 1 .. m + b \/ p + step \notin 1 .. m + b
    BY <1>3, <1>4, <1>6
  <1> QED
    BY <1>8, <1>12, <1>13, <1>14, <1>15


----------------------------------------------------------------------------

LEMMA ListsKeepNavigation ==
  Slots >= 5 /\ ListsInv /\ ListsInv' /\ Navigation /\ [ListsNext]_listVars => Navigation'
  <1> SUFFICES ASSUME Slots >= 5, ListsInv, ListsInv', Navigation, [ListsNext]_listVars,
                      ~marked', Count' > 0, open', picked' = None
               PROVE  Navigable(view', list')
    BY DEF Navigation
  <1>1. IsTable(table) /\ list \in {"op", "app"} /\ (list = "op" => Count > 0) /\ now \in Nat
    BY DEF ListsInv, ListsTyped
  <1>2. CASE Load
    <2> DEFINE v == IF marked THEN Created(table) ELSE view
    <2>1. /\ UNCHANGED <<list, table, now>>
          /\ view' = IF list = "op" THEN BuildGroup(v, table, now) ELSE BuildApps(v, table)
      BY <1>2 DEF Load
    <2>2. Count > 0
      BY <2>1 DEF Count
    <2>3. Shows(v, table)
      BY <1>1, <2>2, CreatedShows DEF ListsInv, Seen, Count, Size
    <2>4. v.total > 0
      BY <2>2, <2>3 DEF Shows, Count, Size
    <2> HIDE DEF v
    <2>5. CASE list = "op"
      BY <1>1, <2>1, <2>3, <2>4, <2>5, BuildGroupNavigable
    <2>6. CASE list = "app"
      BY <1>1, <2>1, <2>3, <2>4, <2>6, BuildAppsNavigable
    <2> QED
      BY <1>1, <2>5, <2>6
  <1>3. CASE Interrupted \/ Rescanned \/ Leave
    BY <1>3 DEF Interrupted, Rescanned, Leave
  <1>4. CASE PickUp
    BY <1>4 DEF PickUp, None
  <1>5. CASE PutDown
    <2>1. UNCHANGED <<list, table, marked, open>> /\ open /\ picked # None /\ view' = BuildGroup(view, table, picked)
      BY <1>5 DEF PutDown
    <2>2. ~marked /\ Count > 0
      BY <2>1 DEF Count
    <2>3. Shows(view, table) /\ picked \in {None} \cup 0 .. Count - 1 /\ view.total > 0
      BY <2>2 DEF ListsInv, Seen, Shows, Count, Size
    <2>4. picked \in Nat
      <3>1. picked \in 0 .. Count - 1
        BY <2>1, <2>3
      <3> QED
        BY <3>1
    <2>5. Navigable(view', "op")
      BY <1>1, <2>1, <2>3, <2>4, BuildGroupNavigable
    <2>6. list = "op"
      BY <2>1 DEF ListsInv, ListsTyped
    <2> QED
      BY <2>1, <2>5, <2>6
  <1>6. ASSUME NEW k \in {"left", "right"}, MoveFocus(k) PROVE Navigable(view', list')
    <2> DEFINE step == IF k = "right" THEN 1 ELSE -1
    <2>1. /\ UNCHANGED <<list, table, marked, open, picked>> /\ open
          /\ view' = KeyLeads(view, table, Place(view) + step)
      BY <1>6 DEF MoveFocus, KeyLeads
    <2>2. ~marked /\ Count > 0 /\ picked = None
      BY <2>1 DEF Count
    <2>3. Shows(view, table) /\ Grouped(view) /\ view.total > 0 /\ Navigable(view, list)
      BY <2>1, <2>2 DEF ListsInv, Seen, Shows, Count, Size, Navigation
    <2>4. step \in {-1, 1}
      OBVIOUS
    <2> HIDE DEF step
    <2>5. Navigable(KeyLeads(view, table, Place(view) + step), list)
      BY <1>1, <2>3, <2>4, KeyMoves
    <2>6. PICK w : w = KeyLeads(view, table, Place(view) + step)
      OBVIOUS
    <2>7. Navigable(w, list)
      BY <2>5, <2>6, Zenon
    <2>8. view' = w /\ list' = list
      BY <2>1, <2>6, Zenon
    <2> QED
      BY <2>7, <2>8 DEF Navigable, Near, AtEnd
  <1>7. ASSUME NEW k \in {"left", "right"}, MovePicked(k) PROVE Navigable(view', list')
    <2> DEFINE to == picked + (IF k = "right" THEN 1 ELSE -1)
    <2>1. picked # None /\ (to \notin 0 .. view.total - 1 \/ picked' = to)
          /\ (to \in 0 .. view.total - 1 \/ picked' = picked)
      BY <1>7 DEF MovePicked
    <2>2. ~marked /\ Count > 0
      BY <1>7 DEF MovePicked, Count, Moved
    <2>3. view.total \in Nat
      BY <1>1, <2>2, TableSize DEF ListsInv, Seen, Shows, IsView, Count, Size
    <2>4. ASSUME to \in 0 .. view.total - 1 PROVE to # None
      <3> HIDE DEF to
      <3> QED
        BY <2>3, <2>4 DEF None
    <2> HIDE DEF to
    <2> QED
      BY <2>1, <2>4
  <1>8. CASE UNCHANGED listVars
    BY <1>8 DEF listVars, Navigation, Count
  <1> QED
    BY <1>2, <1>3, <1>4, <1>5, <1>6, <1>7, <1>8, Zenon DEF ListsNext


\* A list without entries stays without.
LEMMA TotalStays ==
  ASSUME NEW v, IsView(v), NEW t
  PROVE  /\ \A k : IsView(Window(v, t, k)) /\ Window(v, t, k).total = v.total
         /\ \A k : IsView(Follow(v, k)) /\ Follow(v, k).total = v.total
  <1>1. ASSUME NEW k PROVE IsView(Window(v, t, k)) /\ Window(v, t, k).total = v.total
    <2>1. PICK x, y : Window(v, t, k) = [v EXCEPT !.start = x, !.slots = y]
      BY DEF Window
    <2>2. Window(v, t, k) = [total |-> v.total, start |-> x, group |-> v.group, focus |-> v.focus, slots |-> y]
      BY <2>1, ViewFields, Zenon
    <2> QED
      BY <2>2 DEF IsView
  <1>2. ASSUME NEW k PROVE IsView(Follow(v, k)) /\ Follow(v, k).total = v.total
    <2>1. Follow(v, k) = v \/ \E s : Follow(v, k) = [v EXCEPT !.focus = s]
      BY DEF Follow
    <2>2. \A s : IsView([v EXCEPT !.focus = s]) /\ [v EXCEPT !.focus = s].total = v.total
      BY DEF IsView
    <2> QED
      BY <2>1, <2>2
  <1> QED
    BY <1>1, <1>2

LEMMA SlotFocusedTotal ==
  ASSUME NEW v, IsView(v), NEW t
  PROVE  IsView(SlotFocused(v, t)) /\ SlotFocused(v, t).total = v.total
  <1>1. SlotFocused(v, t) = v \/ \E k, x : SlotFocused(v, t) = Follow(Window(v, t, k), x)
    BY DEF SlotFocused
  <1>2. ASSUME NEW k, NEW x
        PROVE IsView(Follow(Window(v, t, k), x)) /\ Follow(Window(v, t, k), x).total = v.total
    <2>1. IsView(Window(v, t, k)) /\ Window(v, t, k).total = v.total
      BY TotalStays
    <2> QED
      BY <2>1, TotalStays
  <1> QED
    BY <1>1, <1>2

LEMMA FocusTotal ==
  ASSUME NEW v, IsView(v), NEW t, NEW o
  PROVE  IsView(Focus(v, t, o)) /\ Focus(v, t, o).total = v.total
  <1>1. IsView([v EXCEPT !.focus = o]) /\ [v EXCEPT !.focus = o].total = v.total
    BY DEF IsView
  <1>2. Focus(v, t, o) = v \/ Focus(v, t, o) = SlotFocused([v EXCEPT !.focus = o], t)
    BY DEF Focus
  <1> QED
    BY <1>1, <1>2, SlotFocusedTotal

LEMMA BuildAppsTotal ==
  ASSUME NEW v, IsView(v), v.total = 0, NEW t
  PROVE  IsView(BuildApps(v, t)) /\ BuildApps(v, t).total = 0
  <1> DEFINE objs == <<>> \o ButtonIds("app")
             u == [v EXCEPT !.group = <<objs[1]>>, !.focus = objs[1]]
             w == SlotFocused(u, t)
  <1>1. BuildApps(v, t) = [w EXCEPT !.group = objs]
    BY DEF BuildApps, Group
  <1> HIDE DEF objs
  <1>2. u = [total |-> v.total, start |-> v.start, group |-> <<objs[1]>>, focus |-> objs[1], slots |-> v.slots]
    BY ViewFields, Zenon
  <1> HIDE DEF u
  <1>3. IsView(u) /\ u.total = 0
    BY <1>2 DEF IsView
  <1>4. IsView(w) /\ w.total = 0
    BY <1>3, SlotFocusedTotal
  <1> HIDE DEF w
  <1>5. IsView([w EXCEPT !.group = objs]) /\ [w EXCEPT !.group = objs].total = 0
    BY <1>4 DEF IsView
  <1> QED
    BY <1>1, <1>5

LEMMA ListsKeepEmpty == ListsInv /\ Empty /\ [ListsNext]_listVars => Empty'
  <1> SUFFICES ASSUME ListsInv, Empty, [ListsNext]_listVars, ~marked', ~(Count > 0)' PROVE IsView(view') /\ (view').total = 0
    BY DEF Empty
  <1>1. list \in {"op", "app"} /\ (list = "op" => Count > 0) /\ (picked # None => list = "op") /\ IsTable(table)
    BY DEF ListsInv, ListsTyped
  <1>2. CASE Load
    <2> DEFINE v == IF marked THEN Created(table) ELSE view
    <2>1. table' = table /\ view' = IF list = "op" THEN BuildGroup(v, table, now) ELSE BuildApps(v, table)
      BY <1>2 DEF Load
    <2>2. ~(Count > 0) /\ list = "app"
      BY <1>1, <2>1 DEF Count
    <2>3. Count = 0
      <3>1. Size(table) \in Nat
        BY <1>1, TableSize
      <3> QED
        BY <2>2, <3>1 DEF Size, Count
    <2>4. IsView(v) /\ v.total = 0
      <3>1. CASE marked
        BY <2>3, <3>1 DEF Created, Count, IsView
      <3>2. CASE ~marked
        BY <2>2, <3>2 DEF Empty
      <3> QED
        BY <3>1, <3>2
    <2> HIDE DEF v
    <2> QED
      BY <2>1, <2>2, <2>4, BuildAppsTotal
  <1>3. CASE Rescanned \/ Interrupted \/ Leave
    BY <1>3 DEF Rescanned, Interrupted, Leave, Empty, Count
  <1>4. CASE PickUp \/ PutDown
    BY <1>1, <1>4 DEF PickUp, PutDown, Count
  <1>5. ASSUME NEW k, MoveFocus(k) PROVE IsView(view') /\ (view').total = 0
    <2>1. UNCHANGED <<table, marked>> /\ (view' = view \/ \E o : view' = Focus(view, table, o))
      BY <1>5 DEF MoveFocus
    <2>2. IsView(view) /\ view.total = 0
      BY <2>1 DEF Empty, Count
    <2> QED
      BY <2>1, <2>2, FocusTotal
  <1>6. ASSUME NEW k, MovePicked(k) PROVE IsView(view') /\ (view').total = 0
    <2>1. Count > 0 /\ UNCHANGED list
      BY <1>1, <1>6 DEF MovePicked
    <2>2. Count' = Count
      <3>1. UNCHANGED table \/ \E i, j : table' = Moved(table, i, j)
        BY <1>6 DEF MovePicked
      <3> QED
        BY <1>1, <3>1, MovedIsTable DEF Count, Size
    <2> QED
      BY <2>1, <2>2
  <1>7. CASE UNCHANGED listVars
    BY <1>7 DEF listVars, Empty, Count
  <1> QED
    BY <1>2, <1>3, <1>4, <1>5, <1>6, <1>7, Zenon DEF ListsNext

\* An operator that is picked up moves by one as well, and stays in view and lit.
LEMMA CarriedMoves ==
  ASSUME ListsInv, Empty, NEW k \in {"left", "right"}, MovePicked(k), ~marked,
         NEW to, to = picked + (IF k = "right" THEN 1 ELSE -1), to \in 0 .. Count - 1
  PROVE  /\ picked' = to /\ Focused' = to /\ lit' = {(view').focus}
         /\ table'[to] = table[picked] /\ table'[picked] = table[to]
  <1> DEFINE w == WindowFor(view, table', to)
             at == {i \in Slot : w.slots[i].idx = to}
             s == CHOOSE i \in at : \A j \in at : i <= j
             g == [w EXCEPT !.group = <<s>>, !.focus = s]
  <1>1. IsTable(table) /\ picked # None
    BY DEF ListsInv, ListsTyped, MovePicked
  <1>2. Count > 0 /\ Count \in Nat /\ DOMAIN table = 0 .. Count - 1 /\ to \in Nat
    <2>1. Size(table) \in Nat /\ DOMAIN table = 0 .. Size(table) - 1 /\ Size(table) = Count
      BY <1>1, TableSize DEF Size, Count
    <2> QED
      BY <2>1
  <1>3. Shows(view, table) /\ view.total = Count /\ picked \in 0 .. Count - 1
    BY <1>1, <1>2 DEF ListsInv, Seen, Shows, Size, Count
  <1>4. {picked, to} \subseteq DOMAIN table
    BY <1>2, <1>3
  <1>5. /\ table' = Moved(table, picked, to) /\ picked' = to
        /\ view' = Alone(w, table', to, TRUE) /\ lit' = LitFor(w, to)
    <2>1. to \in 0 .. view.total - 1
      BY <1>3
    <2> QED
      BY <1>4, <2>1 DEF MovePicked
  <1>6. table'[to] = table[picked] /\ table'[picked] = table[to]
    <2>1. picked \in Nat /\ picked # to /\ (to = picked + 1 \/ to = picked - 1)
      BY <1>3
    <2>2. Moved(table, picked, to)[to] = table[picked]
      BY <1>4 DEF Moved
    <2>3. Moved(table, picked, to)[picked] = table[to]
      <3>1. CASE to = picked + 1
        BY <1>2, <1>4, <2>1, <3>1 DEF Moved
      <3>2. CASE to = picked - 1
        BY <1>2, <1>4, <2>1, <3>2 DEF Moved
      <3> QED
        BY <2>1, <3>1, <3>2
    <2> QED
      BY <1>5, <2>2, <2>3
  <1>7. Shows(w, table') /\ \E i \in Slot : w.slots[i].idx = to
    <2>1. IsTable(table') /\ Size(table') = Size(table)
      BY <1>1, <1>5, MovedIsTable
    <2>2. to \in 0 .. view.total - 1
      BY <1>3
    <2> QED
      BY <1>1, <1>3, <2>1, <2>2, WindowForShows
  <1> HIDE DEF w
  <1>8. PICK i \in Slot : w.slots[i].idx = to
    BY <1>7
  <1>9. at = {i} /\ s = i
    BY <1>2, <1>7, <1>8, SlotOf
  <1>10. Alone(w, table', to, TRUE) = g
    BY <1>9 DEF Alone
  <1> HIDE DEF at, s
  <1>11. g = [total |-> w.total, start |-> w.start, group |-> <<s>>, focus |-> s, slots |-> w.slots]
    BY <1>7, ViewFields, Zenon DEF Shows
  <1> HIDE DEF g
  <1>12. (view').focus = i /\ (view').slots = w.slots
    <2>1. view' = g
      BY <1>5, <1>10, Zenon
    <2>2. g.focus = s /\ g.slots = w.slots
      BY <1>11
    <2> QED
      BY <1>9, <2>1, <2>2
  <1>13. Focused' = to
    BY <1>8, <1>12 DEF Focused
  <1>14. lit' = {i}
    <2>1. LitFor(w, to) = {x \in at : \A j \in at : x <= j}
      BY DEF LitFor, at
    <2>2. i <= i
      BY ListsAssumption DEF Slot
    <2> QED
      BY <1>5, <1>9, <2>1, <2>2
  <1> QED
    BY <1>5, <1>6, <1>12, <1>13, <1>14

\* The step of OneByOne
OneStep ==
  (key' \in {"left", "right"} /\ ~marked /\ view.total > 0) =>
    LET step == IF key' = "right" THEN 1 ELSE -1
        last == Count + Len(Below[list]) - 1
    IN  IF picked = None THEN Ahead => Focused' = Most(0, Least(last, Focused + step)) /\ Ahead'
        ELSE LET to == picked + step
             IN  to \in 0 .. Count - 1 =>
                 /\ picked' = to /\ Focused' = to /\ lit' = {view'.focus}
                 /\ table'[to] = table[picked] /\ table'[picked] = table[to]

LEMMA ListsMoveByOne ==
  ASSUME Slots >= 5, ListsInv, Empty, Navigation, ListsNext
  PROVE  OneStep
  <1> SUFFICES ASSUME key' \in {"left", "right"}, ~marked, view.total > 0
               PROVE  LET step == IF key' = "right" THEN 1 ELSE -1
                          last == Count + Len(Below[list]) - 1
                      IN  IF picked = None THEN Ahead => Focused' = Most(0, Least(last, Focused + step)) /\ Ahead'
                          ELSE LET to == picked + step
                               IN  to \in 0 .. Count - 1 =>
                                   /\ picked' = to /\ Focused' = to /\ lit' = {(view').focus}
                                   /\ table'[to] = table[picked] /\ table'[picked] = table[to]
    BY DEF OneStep
  <1> DEFINE step == IF key' = "right" THEN 1 ELSE -1
  <1>1. PICK k \in {"left", "right"} : (MoveFocus(k) \/ MovePicked(k)) /\ key' = k
    BY DEF ListsNext, Load, Interrupted, Rescanned, PickUp, PutDown, Leave, MoveFocus, MovePicked
  <1>2. CASE MoveFocus(k)
    <2>1. open /\ picked = None /\ view' = KeyLeads(view, table, Place(view) + step)
      BY <1>1, <1>2 DEF MoveFocus, KeyLeads
    <2>2. Count > 0
      BY DEF Empty
    <2>3. Shows(view, table) /\ Grouped(view) /\ Navigable(view, list) /\ view.total = Count /\ IsTable(table)
          /\ list \in {"op", "app"}
      BY <2>1, <2>2 DEF ListsInv, ListsTyped, Seen, Shows, Count, Size, Navigation
    <2>4. step \in {-1, 1}
      OBVIOUS
    <2> HIDE DEF step
    <2>5. AheadIn(view) => MovesOne(view, KeyLeads(view, table, Place(view) + step), list, step)
      BY <2>3, <2>4, KeyMoves
    <2>6. AheadIn(view) => MovesOne(view, view', list, step)
      BY <2>1, <2>5, Zenon
    <2>7. /\ AheadIn(view) = Ahead /\ AheadIn(view') = Ahead'
          /\ FocusedIn(view) = Focused /\ FocusedIn(view') = Focused'
      BY DEF AheadIn, Ahead, FocusedIn, Focused
    <2>8. Ahead => Focused' = Most(0, Least(Count + Len(Below[list]) - 1, Focused + step)) /\ Ahead'
      BY <2>3, <2>6, <2>7 DEF MovesOne
    <2> QED
      BY <2>1, <2>8 DEF step
  <1>3. CASE MovePicked(k)
    <2>1. picked # None
      BY <1>3 DEF MovePicked
    <2>2. ASSUME NEW to, to = picked + step, to \in 0 .. Count - 1
          PROVE  /\ picked' = to /\ Focused' = to /\ lit' = {(view').focus}
                 /\ table'[to] = table[picked] /\ table'[picked] = table[to]
      BY <1>1, <1>3, <2>2, CarriedMoves
    <2> QED
      BY <2>1, <2>2
  <1> QED
    BY <1>1, <1>2, <1>3


\* Where the list is of five slots or more, as those of the program are, one key
\* moves the focus by one entry and leaves the window ahead of it, and moves the
\* operator that is picked up by one, lit and in view (slot_focus_cb, build_group,
\* screen_oplist_reorder_move): whatever the table, and after any sequence of keys.
THEOREM OneByOneCorrect == ASSUME Slots >= 5 PROVE ListSpec => OneByOne
  <1> DEFINE Inv == ListsInv /\ Empty /\ Navigation
  <1>1. ListsInit => Inv
    <2>1. ListsInit => Empty /\ Navigation
      BY DEF ListsInit, Empty, Navigation
    <2> QED
      BY <2>1, ListsStart
  <1>2. Inv /\ [ListsNext]_listVars => Inv'
    <2>1. Inv /\ [ListsNext]_listVars => ListsInv' /\ Empty'
      BY ListsKeep, ListsKeepEmpty
    <2> QED
      BY <2>1, ListsKeepNavigation
  <1>3. Inv /\ [ListsNext]_listVars => [OneStep]_listVars
    BY ListsMoveByOne
  <1>4. [][OneStep]_listVars => OneByOne
    BY PTL DEF OneByOne, OneStep
  <1> HIDE DEF Inv
  <1> QED
    BY <1>1, <1>2, <1>3, <1>4, PTL DEF ListSpec

----------------------------------------------------------------------------
(* Planes *)

Frames == Buffers \cup {NoFrame}
Ats == {0, 1} \cup Places
Alphas == {0, Opaque}
Requests == [type : {"coord"}, to : Places] \cup [type : {"alpha"}, to : Alphas] \cup [type : {"flip"}, to : Buffers]
Planes == [on : BOOLEAN, at : Ats, alpha : Alphas, z : {-1} \cup Layers, frame : Frames]
Lots == [at : {-1} \cup Places, alpha : {-1} \cup Alphas, frame : Frames, full : BOOLEAN]
Wants == [at : Ats, alpha : Alphas]
Budgets == [asked : [Layers -> Nat], refused : Nat, stops : Nat]

PlanesTyped == planes \in [Layers -> Planes]
QueuesTyped == wishes \in [Layers -> Seq(Requests)]
LotTyped == drained \in [Layers -> Lots]
WantedTyped == wanted \in [Layers -> Wants]
RestTyped ==
  /\ used \subseteq Layers /\ lost \subseteq Layers /\ free \subseteq Buffers /\ scanned \in Frames
  /\ remount \in BOOLEAN /\ playing \in BOOLEAN /\ budget \in Budgets
Typed == PlanesTyped /\ QueuesTyped /\ LotTyped /\ WantedTyped /\ RestTyped

\* Frames are for the video, coordinates and alphas for the others, and only the
\* overlay fades.
Fits(l, w) ==
  /\ (w.type = "flip") <=> (l = Video)
  /\ w.type = "alpha" /\ w.to # Opaque => l = Overlay
OwnKinds ==
  /\ \A l \in Layers : \A i \in DOMAIN wishes[l] : Fits(l, wishes[l][i])
  /\ \A l \in Layers : /\ l = Video => drained[l].at = -1 /\ drained[l].alpha = -1
                       /\ l # Video => drained[l].frame = NoFrame /\ ~drained[l].full
                       /\ drained[l].alpha \notin {-1, Opaque} => l = Overlay
\* A layer that is not in use asks for nothing.
Silent == bringup # "over" => \A l \in Layers \ used : wishes[l] = <<>> /\ drained[l] = Unasked

\* Every frame of the video is in one place.
Drawn == drained[Video].frame
OnePlace ==
  /\ \A i, j \in OfType(wishes[Video], "flip") : wishes[Video][i].to = wishes[Video][j].to => i = j
  /\ \A f \in Buffers :
       \/ f \in free /\ f \notin Queued /\ f # Drawn /\ f # scanned
       \/ f \notin free /\ f \in Queued /\ f # Drawn /\ f # scanned
       \/ f \notin free /\ f \notin Queued /\ f = Drawn /\ f # scanned
       \/ f \notin free /\ f \notin Queued /\ f # Drawn /\ f = scanned

\* What a plane will come to when what is queued and what is drained is done.
ComingAt(l) ==
  IF OfType(wishes[l], "coord") # {} THEN LastOf(wishes[l], "coord")
  ELSE IF drained[l].at # -1 THEN drained[l].at ELSE planes[l].at
ComingAlpha(l) ==
  IF OfType(wishes[l], "alpha") # {} THEN LastOf(wishes[l], "alpha")
  ELSE IF drained[l].alpha # -1 THEN drained[l].alpha ELSE planes[l].alpha
AsAsked ==
  \A l \in Layers \ ({Video} \cup lost) : ComingAt(l) = wanted[l].at /\ ComingAlpha(l) = wanted[l].alpha

\* Before the first stop a frame that is queued finds the video mounted, or mounts it.
Mounting ==
  /\ budget.stops = 0 =>
       /\ playing \/ wishes[Video] # <<>> => remount \/ planes[Video].on
       /\ drained[Video].frame # NoFrame => drained[Video].full \/ planes[Video].on
  /\ budget.stops = 0 /\ budget.refused = 0 => lost = {}

\* The planes are mounted at the height of their layers, and only the overlay fades.
Stacked == \A l \in Layers : (planes[l].on => planes[l].z = l) /\ (planes[l].alpha # Opaque => l = Overlay)

\* What each step of drm_warpper_init finds.
Before ==
  [open |-> {}, atomic |-> {"fd"}, resources |-> {"fd"}, universal |-> {"fd", "res"}, planes |-> {"fd", "res"},
   properties |-> {"fd", "res", "planes"}, connector |-> {"fd", "res", "planes"},
   crtc |-> {"fd", "res", "planes", "connector"}, thread |-> {"fd", "res", "planes", "connector"},
   failed |-> {}, headless |-> {"res"}, over |-> {}]
BroughtUp ==
  /\ bringup \in DOMAIN Before \cup {"running", "crashed"}
  /\ bringup \in DOMAIN Before => device = Before[bringup] /\ used = {} /\ dumb = NoBuffers

PlanesInv == Typed /\ OwnKinds /\ Silent /\ OnePlace /\ AsAsked /\ Mounting /\ Stacked /\ BroughtUp

----------------------------------------------------------------------------
\* The requests of one type in a queue.

LEMMA LeastNat ==
  ASSUME NEW S \in SUBSET Nat, S # {}
  PROVE  \E x \in S : \A y \in S : x <= y
  <1>1. PICK x \in S : \A y \in S : <<y, x>> \notin OpToRel(<, Nat)
    <2>1. IsWellFoundedOn(OpToRel(<, Nat), Nat)
      BY NatLessThanWellFounded
    <2> HIDE DEF IsWellFoundedOn
    <2> QED
      BY <2>1, WFMin, Zenon
  <1>2. \A y \in S : ~ (y < x)
    BY <1>1 DEF OpToRel
  <1> QED
    BY <1>2

LEMMA LastIsLast ==
  ASSUME NEW q \in Seq(Requests), NEW t, OfType(q, t) # {}
  PROVE  /\ Last(q, t) \in OfType(q, t) /\ \A j \in OfType(q, t) : j <= Last(q, t)
         /\ Last(q, t) \in DOMAIN q /\ q[Last(q, t)].type = t
  <1> DEFINE S == OfType(q, t)
             D == {Len(q) - i : i \in S}
  <1>1. S \subseteq 1 .. Len(q) /\ Len(q) \in Nat
    BY DEF OfType
  <1>2. D \in SUBSET Nat /\ D # {}
    BY <1>1
  <1>3. PICK d \in D : \A e \in D : d <= e
    <2> HIDE DEF D
    <2> QED
      BY <1>2, LeastNat
  <1>4. PICK i \in S : d = Len(q) - i
    BY <1>3
  <1>5. \A j \in S : j <= i
    <2> SUFFICES ASSUME NEW j \in S PROVE j <= i
      OBVIOUS
    <2>1. Len(q) - i <= Len(q) - j
      BY <1>3, <1>4
    <2> HIDE DEF S, D
    <2> QED
      BY <1>1, <1>4, <2>1
  <1>6. Last(q, t) \in S /\ \A j \in S : j <= Last(q, t)
    BY <1>5 DEF Last
  <1> QED
    BY <1>6 DEF OfType

LEMMA RequestsTyped ==
  ASSUME NEW w \in Requests
  PROVE  /\ w.type \in {"coord", "alpha", "flip"}
         /\ w.type = "coord" => w.to \in Places
         /\ w.type = "alpha" => w.to \in Alphas
         /\ w.type = "flip" => w.to \in Buffers
  BY DEF Requests

LEMMA LastTyped ==
  ASSUME NEW q \in Seq(Requests)
  PROVE  /\ OfType(q, "coord") # {} => LastOf(q, "coord") \in Places
         /\ OfType(q, "alpha") # {} => LastOf(q, "alpha") \in Alphas
         /\ OfType(q, "flip") # {} => LastOf(q, "flip") \in Buffers
  <1>1. ASSUME NEW t, OfType(q, t) # {} PROVE q[Last(q, t)] \in Requests /\ q[Last(q, t)].type = t
    BY <1>1, LastIsLast
  <1> QED
    BY <1>1, RequestsTyped DEF LastOf

\* One more request.
LEMMA LastAppended ==
  ASSUME NEW q \in Seq(Requests), NEW w \in Requests, NEW t
  PROVE  IF w.type = t THEN OfType(Append(q, w), t) # {} /\ LastOf(Append(q, w), t) = w.to
         ELSE OfType(Append(q, w), t) = OfType(q, t)
              /\ (OfType(q, t) # {} => LastOf(Append(q, w), t) = LastOf(q, t))
  <1> DEFINE a == Append(q, w)
  <1>1. /\ a \in Seq(Requests) /\ Len(a) = Len(q) + 1 /\ a[Len(q) + 1] = w /\ Len(q) \in Nat
        /\ \A i \in 1 .. Len(q) : a[i] = q[i]
    OBVIOUS
  <1>2. DOMAIN a = 1 .. Len(q) + 1 /\ DOMAIN q = 1 .. Len(q)
    BY <1>1
  <1> HIDE DEF a
  <1>3. CASE w.type = t
    <2>1. Len(q) + 1 \in OfType(a, t)
      BY <1>1, <1>2, <1>3 DEF OfType
    <2>2. Last(a, t) \in 1 .. Len(q) + 1 /\ Len(q) + 1 <= Last(a, t)
      BY <1>1, <1>2, <2>1, LastIsLast
    <2>3. Last(a, t) = Len(q) + 1
      BY <1>1, <2>2
    <2> QED
      BY <1>1, <1>3, <2>1, <2>3 DEF LastOf, a
  <1>4. CASE w.type # t
    <2>1. OfType(a, t) = OfType(q, t)
      BY <1>1, <1>2, <1>4 DEF OfType
    <2>2. ASSUME OfType(q, t) # {} PROVE LastOf(a, t) = LastOf(q, t)
      <3>1. Last(a, t) = Last(q, t)
        BY <2>1 DEF Last
      <3>2. Last(q, t) \in 1 .. Len(q)
        BY <1>2, <2>2, LastIsLast
      <3> QED
        BY <1>1, <3>1, <3>2 DEF LastOf
    <2> QED
      BY <1>4, <2>1, <2>2 DEF a
  <1> QED
    BY <1>3, <1>4

LEMMA NoneInEmpty ==
  ASSUME NEW t
  PROVE  OfType(<<>>, t) = {}
  BY DEF OfType

----------------------------------------------------------------------------
\* Types.

\* A request goes into the queue of a layer that is in use.
LEMMA PushTyped ==
  ASSUME QueuesTyped, NEW l \in Layers, NEW w \in Requests, Push(l, w)
  PROVE  /\ QueuesTyped' /\ l \in used
         /\ \A m \in Layers : wishes'[m] = IF m = l THEN Append(wishes[l], w) ELSE wishes[m]
  BY DEF QueuesTyped, Push

LEMMA AskTyped ==
  ASSUME budget \in Budgets, NEW l \in Layers, Asks(l)
  PROVE  budget' \in Budgets /\ budget'.refused = budget.refused /\ budget'.stops = budget.stops
  BY DEF Budgets, Asks

LEMMA CollectedTyped ==
  ASSUME QueuesTyped, remount \in BOOLEAN, NEW l \in Layers
  PROVE  Collected(l) \in Lots
  <1>1. wishes[l] \in Seq(Requests)
    BY DEF QueuesTyped
  <1> QED
    BY <1>1, LastTyped DEF Collected, Lots, Frames, LastCoord

LEMMA AppliedTyped ==
  ASSUME PlanesTyped, LotTyped, NEW l \in Layers
  PROVE  Applied(l) \in Planes
  <1>1. planes[l] \in Planes /\ drained[l] \in Lots
    BY DEF PlanesTyped, LotTyped
  <1> QED
    BY <1>1 DEF Applied, Planes, Lots, MountedZ, Ats, Layers

LEMMA UnaskedTyped == Unasked \in Lots /\ Idle \in [Layers -> Lots]
  BY DEF Unasked, Idle, Lots, Frames

LEMMA LayersAre == Video \in Layers /\ Overlay \in Layers /\ Ui \in Layers /\ Overlay # Video /\ Ui # Video /\ Ui # Overlay
  BY DEF Layers, Video, Overlay, Ui

LEMMA InitTyped == DisplayInit => Typed
  <1> SUFFICES ASSUME DisplayInit PROVE Typed
    OBVIOUS
  <1>1. PlanesTyped
    BY DEF DisplayInit, PlanesTyped, Planes, Off, Ats, Alphas, Frames
  <1>2. QueuesTyped /\ LotTyped
    BY UnaskedTyped DEF DisplayInit, QueuesTyped, LotTyped
  <1>3. WantedTyped /\ RestTyped
    BY DEF DisplayInit, WantedTyped, RestTyped, Wants, Ats, Alphas, Budgets, Frames
  <1> QED
    BY <1>1, <1>2, <1>3 DEF Typed

LEMMA AskedTyped ==
  ASSUME Typed, NEW l \in {Overlay, Ui},
         \/ \E to \in Places : SetCoord(l, to)
         \/ \E to \in Alphas : SetAlpha(l, to)
  PROVE  Typed'
  <1>0. PlanesTyped /\ QueuesTyped /\ LotTyped /\ WantedTyped /\ RestTyped /\ l \in Layers
    BY LayersAre DEF Typed
  <1>1. CASE \E to \in Places : SetCoord(l, to)
    <2>1. PICK to \in Places : SetCoord(l, to)
      BY <1>1
    <2>2. [type |-> "coord", to |-> to] \in Requests
      BY DEF Requests
    <2>3. QueuesTyped'
      BY <1>0, <2>1, <2>2, PushTyped DEF SetCoord
    <2>4. budget' \in Budgets
      BY <1>0, <2>1, AskTyped DEF SetCoord, RestTyped
    <2>5. WantedTyped'
      <3>1. wanted' = [wanted EXCEPT ![l].at = to] /\ to \in Ats
        BY <2>1 DEF SetCoord, Ats
      <3> QED
        BY <1>0, <3>1 DEF WantedTyped, Wants
    <2> QED
      BY <1>0, <2>1, <2>3, <2>4, <2>5 DEF Typed, PlanesTyped, LotTyped, RestTyped, SetCoord, resources
  <1>2. CASE \E to \in Alphas : SetAlpha(l, to)
    <2>1. PICK to \in Alphas : SetAlpha(l, to)
      BY <1>2
    <2>2. [type |-> "alpha", to |-> to] \in Requests
      BY DEF Requests
    <2>3. QueuesTyped'
      <3>1. CASE MayFade(l, to)
        BY <1>0, <2>1, <2>2, <3>1, PushTyped DEF SetAlpha
      <3>2. CASE ~MayFade(l, to)
        BY <1>0, <2>1, <3>2 DEF SetAlpha, QueuesTyped
      <3> QED
        BY <3>1, <3>2
    <2>4. budget' \in Budgets
      BY <1>0, <2>1, AskTyped DEF SetAlpha, RestTyped
    <2>5. WantedTyped'
      <3>1. wanted' = [wanted EXCEPT ![l].alpha = to] \/ wanted' = wanted
        BY <2>1 DEF SetAlpha
      <3> QED
        BY <1>0, <3>1 DEF WantedTyped, Wants
    <2> QED
      BY <1>0, <2>1, <2>3, <2>4, <2>5 DEF Typed, PlanesTyped, LotTyped, RestTyped, SetAlpha, resources
  <1> QED
    BY <1>1, <1>2

LEMMA StartTyped ==
  ASSUME Typed, NEW l \in Layers, StartLayer(l)
  PROVE  Typed'
  <1>0. PlanesTyped /\ QueuesTyped /\ LotTyped /\ WantedTyped /\ RestTyped
    BY DEF Typed
  <1>1. \/ UNCHANGED <<planes, wanted>>
        \/ planes' = [planes EXCEPT ![l] = Mounted(l)] /\ wanted' = [wanted EXCEPT ![l].at = 1]
    BY DEF StartLayer, OverlayInit
  <1>2. Mounted(l) \in Planes
    <2>1. planes[l] \in Planes
      BY <1>0 DEF PlanesTyped
    <2> QED
      BY <2>1 DEF Mounted, Planes, Ats
  <1>3. PlanesTyped' /\ WantedTyped'
    <2>1. PlanesTyped'
      BY <1>0, <1>1, <1>2 DEF PlanesTyped
    <2>2. 1 \in Ats
      BY DEF Ats
    <2>3. WantedTyped'
      BY <1>0, <1>1, <2>2 DEF WantedTyped, Wants
    <2> QED
      BY <2>1, <2>3
  <1> QED
    BY <1>0, <1>3 DEF Typed, QueuesTyped, LotTyped, RestTyped, StartLayer

LEMMA OvertakenTyped ==
  ASSUME QueuesTyped
  PROVE  Overtaken(wishes[Video]) \subseteq Buffers
  <1>1. wishes[Video] \in Seq(Requests)
    BY LayersAre DEF QueuesTyped
  <1>2. \A i \in OfType(wishes[Video], "flip") : wishes[Video][i] \in Requests /\ wishes[Video][i].type = "flip"
    BY <1>1 DEF OfType
  <1> QED
    BY <1>2, RequestsTyped DEF Overtaken

LEMMA CommitTyped ==
  ASSUME Typed, Commit
  PROVE  Typed'
  <1>0. PlanesTyped /\ QueuesTyped /\ LotTyped /\ WantedTyped /\ RestTyped
    BY DEF Typed
  <1>1. PlanesTyped'
    BY <1>0, AppliedTyped DEF PlanesTyped, Commit
  <1>2. LotTyped'
    BY UnaskedTyped DEF LotTyped, Commit
  <1>3. drained[Video].frame \in Frames
    <2>1. drained[Video] \in Lots
      BY <1>0, LayersAre DEF LotTyped
    <2> QED
      BY <2>1 DEF Lots
  <1>4. RestTyped'
    BY <1>0, <1>3 DEF RestTyped, Commit, resources, Frames, Held
  <1> QED
    BY <1>0, <1>1, <1>2, <1>4 DEF Typed, QueuesTyped, WantedTyped, Commit

LEMMA RefusedTyped ==
  ASSUME Typed, Refused
  PROVE  Typed'
  <1>0. PlanesTyped /\ QueuesTyped /\ LotTyped /\ WantedTyped /\ RestTyped
    BY DEF Typed
  <1>1. LotTyped'
    BY UnaskedTyped DEF LotTyped, Refused
  <1>2. drained[Video].frame \in Frames
    <2>1. drained[Video] \in Lots
      BY <1>0, LayersAre DEF LotTyped
    <2> QED
      BY <2>1 DEF Lots
  <1>3. budget' \in Budgets
    BY <1>0 DEF RestTyped, Budgets, Refused
  <1>4. RestTyped'
    BY <1>0, <1>2, <1>3 DEF RestTyped, Refused, resources, Frames, Held
  <1> QED
    BY <1>0, <1>1, <1>4 DEF Typed, PlanesTyped, QueuesTyped, WantedTyped, Refused

LEMMA NextTyped ==
  ASSUME Typed, DisplayNext
  PROVE  Typed'
  <1>0. PlanesTyped /\ QueuesTyped /\ LotTyped /\ WantedTyped /\ RestTyped
    BY DEF Typed
  <1>1. CASE InitStep \/ Destroy
    BY <1>0, <1>1 DEF InitStep, Destroy, Typed, PlanesTyped, QueuesTyped, LotTyped, WantedTyped, RestTyped
  <1>2. CASE Flip
    <2>1. PICK f \in free : Push(Video, [type |-> "flip", to |-> f]) /\ free' = free \ {f}
      BY <1>2 DEF Flip
    <2>2. [type |-> "flip", to |-> f] \in Requests
      BY <1>0 DEF Requests, RestTyped
    <2>3. QueuesTyped'
      BY <1>0, <2>1, <2>2, PushTyped, LayersAre
    <2>4. budget' \in Budgets
      BY <1>0, <1>2, AskTyped, LayersAre DEF Flip, RestTyped
    <2> QED
      BY <1>0, <1>2, <2>1, <2>3, <2>4 DEF Typed, PlanesTyped, LotTyped, WantedTyped, RestTyped, Flip, resources
  <1>3. CASE SetGeometry
    BY <1>0, <1>3 DEF SetGeometry, Typed, PlanesTyped, QueuesTyped, LotTyped, WantedTyped, RestTyped, resources
  <1>4. CASE DisplayDrains
    <2>1. LotTyped'
      BY <1>0, <1>4, CollectedTyped DEF DisplayDrains, LotTyped, RestTyped
    <2>2. QueuesTyped'
      BY <1>4 DEF DisplayDrains, QueuesTyped
    <2>3. RestTyped'
      BY <1>0, <1>4, OvertakenTyped DEF DisplayDrains, RestTyped, resources
    <2> QED
      BY <1>0, <1>4, <2>1, <2>2, <2>3 DEF DisplayDrains, Typed, PlanesTyped, WantedTyped
  <1>5. CASE Commit \/ Refused
    BY <1>5, CommitTyped, RefusedTyped
  <1>6. CASE Disable
    <2>1. PlanesTyped'
      <3>1. /\ planes' = [planes EXCEPT ![Video] = [planes[Video] EXCEPT !.on = FALSE, !.frame = NoFrame]]
            /\ planes[Video] \in Planes
        BY <1>0, <1>6, LayersAre DEF Disable, PlanesTyped
      <3>2. [planes[Video] EXCEPT !.on = FALSE, !.frame = NoFrame] \in Planes
        BY <3>1 DEF Planes, Frames
      <3> QED
        BY <1>0, <3>1, <3>2 DEF PlanesTyped
    <2>2. budget' \in Budgets
      BY <1>0, <1>6 DEF RestTyped, Budgets, Disable
    <2> QED
      BY <1>0, <1>6, <2>1, <2>2 DEF Disable, Typed, QueuesTyped, LotTyped, WantedTyped, RestTyped, resources
  <1>7. CASE \E l \in Layers : StartLayer(l)
    BY <1>7, StartTyped
  <1>8. CASE \E l \in {Overlay, Ui} : \/ \E to \in Places : SetCoord(l, to)
                                      \/ \E to \in Alphas : SetAlpha(l, to)
    BY <1>8, AskedTyped
  <1> QED
    BY <1>1, <1>2, <1>3, <1>4, <1>5, <1>6, <1>7, <1>8 DEF DisplayNext, Alphas

----------------------------------------------------------------------------
\* Bring-up, and who may ask.

LEMMA AfterIs ==
  /\ After("open") = "atomic" /\ After("atomic") = "resources" /\ After("resources") = "universal"
  /\ After("universal") = "planes" /\ After("planes") = "properties" /\ After("properties") = "connector"
  /\ After("connector") = "crtc" /\ After("crtc") = "thread" /\ After("thread") = "running"
  <1>1. ASSUME NEW i \in 1 .. 9
        PROVE  After(InitSteps[i]) = IF i = 9 THEN "running" ELSE InitSteps[i + 1]
    <2>1. DOMAIN InitSteps = 1 .. 9 /\ Len(InitSteps) = 9
      BY DEF InitSteps
    <2>2. \A j \in 1 .. 9 : InitSteps[j] = InitSteps[i] => j = i
      BY DEF InitSteps
    <2>3. (CHOOSE j \in DOMAIN InitSteps : InitSteps[j] = InitSteps[i]) = i
      <3> HIDE DEF InitSteps
      <3> QED
        BY <2>1, <2>2
    <2> QED
      BY <2>1, <2>3 DEF After
  <1>2. /\ InitSteps[1] = "open" /\ InitSteps[2] = "atomic" /\ InitSteps[3] = "resources"
        /\ InitSteps[4] = "universal" /\ InitSteps[5] = "planes" /\ InitSteps[6] = "properties"
        /\ InitSteps[7] = "connector" /\ InitSteps[8] = "crtc" /\ InitSteps[9] = "thread"
    BY DEF InitSteps
  <1> QED
    BY <1>1, <1>2

LEMMA NextBroughtUp ==
  ASSUME BroughtUp, DisplayNext
  PROVE  BroughtUp'
  <1>1. CASE InitStep
    <2>1. /\ bringup \in DOMAIN Takes /\ bringup \in DOMAIN Before /\ device = Before[bringup]
          /\ UNCHANGED <<used, dumb>> /\ used = {} /\ dumb = NoBuffers
      BY <1>1 DEF InitStep, BroughtUp, Takes, Before
    <2>2. CASE device' = device \cup Takes[bringup] /\ bringup' = After(bringup)
      <3>1. bringup' \in DOMAIN Before \cup {"running"} /\ (bringup' # "running" => device' = Before[bringup'])
        BY <2>1, <2>2, AfterIs DEF Takes, Before
      <3> QED
        BY <2>1, <3>1 DEF BroughtUp, Before
    <2>3. CASE device' = device \ GivesBack(bringup) /\ bringup' = "failed"
      <3>1. device' = {}
        BY <2>1, <2>3 DEF Takes, Before, GivesBack
      <3> QED
        BY <2>1, <2>3, <3>1 DEF BroughtUp, Before
    <2>4. CASE NothingToDrive
      <3>1. device' = {"res"} /\ bringup' = "headless"
        BY <2>1, <2>4 DEF NothingToDrive, Takes, Before, GivesBack
      <3> QED
        BY <2>1, <3>1 DEF BroughtUp, Before
    <2> QED
      BY <1>1, <2>2, <2>3, <2>4 DEF InitStep
  <1>2. CASE Destroy
    BY <1>2 DEF Destroy, BroughtUp, Before
  <1>3. CASE \E l \in Layers : StartLayer(l)
    <2>1. bringup' \in {"running", "crashed"}
      BY <1>3 DEF StartLayer, OverlayInit
    <2> QED
      BY <2>1 DEF BroughtUp, Before
  <1>4. CASE UNCHANGED resources
    BY <1>4 DEF BroughtUp, resources
  <1> QED
    BY <1>1, <1>2, <1>3, <1>4 DEF DisplayNext, Flip, SetGeometry, DisplayDrains, Commit, Refused, Disable,
       SetCoord, SetAlpha

\* What a layer queues and what is drained of it, as long as nothing is drained anew.
LEMMA KindsKept ==
  ASSUME OwnKinds, wishes' = wishes, drained' = drained \/ drained' = Idle
  PROVE  OwnKinds'
  BY DEF OwnKinds, Fits, Idle, Unasked

LEMMA KindsPushed ==
  ASSUME Typed, OwnKinds, NEW l \in Layers, NEW w \in Requests, Fits(l, w), Push(l, w), drained' = drained
  PROVE  OwnKinds'
  <1>1. \A m \in Layers : wishes'[m] = IF m = l THEN Append(wishes[l], w) ELSE wishes[m]
    BY PushTyped DEF Typed
  <1>2. wishes[l] \in Seq(Requests)
    BY DEF Typed, QueuesTyped
  <1>3. ASSUME NEW m \in Layers, NEW i \in DOMAIN wishes'[m] PROVE Fits(m, wishes'[m][i])
    <2>1. CASE m # l
      BY <1>1, <1>3, <2>1 DEF OwnKinds
    <2>2. CASE m = l
      <3>1. wishes'[m] = Append(wishes[l], w)
        BY <1>1, <2>2
      <3>2. (i \in DOMAIN wishes[l] /\ wishes'[m][i] = wishes[l][i]) \/ wishes'[m][i] = w
        BY <1>2, <1>3, <3>1
      <3> QED
        BY <2>2, <3>2 DEF OwnKinds
    <2> QED
      BY <2>1, <2>2
  <1> QED
    BY <1>3 DEF OwnKinds, Fits

LEMMA NextOwnKinds ==
  ASSUME Typed, OwnKinds, DisplayNext
  PROVE  OwnKinds'
  <1>1. CASE DisplayDrains
    <2>1. wishes' = [l \in Layers |-> <<>>] /\ drained' = [l \in Layers |-> Collected(l)]
      BY <1>1 DEF DisplayDrains
    <2>2. ASSUME NEW l \in Layers
          PROVE  /\ l = Video => Collected(l).at = -1 /\ Collected(l).alpha = -1
                 /\ l # Video => Collected(l).frame = NoFrame /\ ~Collected(l).full
                 /\ Collected(l).alpha \notin {-1, Opaque} => l = Overlay
      <3> DEFINE q == wishes[l]
      <3>1. q \in Seq(Requests)
        BY DEF Typed, QueuesTyped
      <3>2. \A i \in DOMAIN q : Fits(l, q[i]) /\ q[i].type \in {"coord", "alpha", "flip"}
        BY <3>1, RequestsTyped DEF OwnKinds
      <3>3. l = Video => OfType(q, "coord") = {} /\ OfType(q, "alpha") = {}
        BY <3>2 DEF OfType, Fits
      <3>4. l # Video => OfType(q, "flip") = {}
        BY <3>2 DEF OfType, Fits
      <3>5. OfType(q, "alpha") # {} /\ LastOf(q, "alpha") # Opaque => l = Overlay
        BY <3>1, <3>2, LastIsLast DEF LastOf, Fits
      <3> HIDE DEF q
      <3> QED
        BY <3>3, <3>4, <3>5 DEF Collected, q
    <2> QED
      BY <2>1, <2>2 DEF OwnKinds
  <1>2. CASE Flip
    <2>1. PICK f \in free : Push(Video, [type |-> "flip", to |-> f])
      BY <1>2 DEF Flip
    <2>2. [type |-> "flip", to |-> f] \in Requests
      BY DEF Requests, Typed, RestTyped
    <2>3. Fits(Video, [type |-> "flip", to |-> f])
      BY DEF Fits
    <2> QED
      BY <1>2, <2>1, <2>2, <2>3, LayersAre, KindsPushed DEF Flip
  <1>3. ASSUME NEW l \in {Overlay, Ui}, NEW to \in Places, SetCoord(l, to) PROVE OwnKinds'
    <2>1. [type |-> "coord", to |-> to] \in Requests /\ Fits(l, [type |-> "coord", to |-> to])
      BY LayersAre DEF Requests, Fits
    <2> QED
      BY <1>3, <2>1, LayersAre, KindsPushed DEF SetCoord
  <1>4. ASSUME NEW l \in {Overlay, Ui}, NEW to \in Alphas, SetAlpha(l, to) PROVE OwnKinds'
    <2>1. CASE ~MayFade(l, to)
      BY <1>4, <2>1, KindsKept DEF SetAlpha
    <2>2. CASE MayFade(l, to)
      <3>1. [type |-> "alpha", to |-> to] \in Requests /\ Fits(l, [type |-> "alpha", to |-> to])
        BY <2>2, LayersAre DEF Requests, Fits, MayFade
      <3> QED
        BY <1>4, <2>2, <3>1, LayersAre, KindsPushed DEF SetAlpha
    <2> QED
      BY <2>1, <2>2
  <1>5. CASE \/ InitStep \/ Destroy \/ SetGeometry \/ Commit \/ Refused \/ Disable
             \/ \E l \in Layers : StartLayer(l)
    BY <1>5, KindsKept DEF InitStep, Destroy, SetGeometry, Commit, Refused, Disable, StartLayer, resources
  <1> QED
    BY <1>1, <1>2, <1>3, <1>4, <1>5 DEF DisplayNext, Alphas

LEMMA NextSilent ==
  ASSUME Typed, BroughtUp, Silent, DisplayNext
  PROVE  Silent'
  <1>1. CASE DisplayDrains
    <2>1. \A l \in Layers \ used : Collected(l) = Unasked /\ wishes'[l] = <<>> /\ drained'[l] = Collected(l)
      BY <1>1, NoneInEmpty DEF Silent, DisplayDrains, Collected, Unasked
    <2> QED
      BY <1>1, <2>1 DEF Silent, DisplayDrains, resources
  <1>2. ASSUME NEW l \in Layers, NEW w \in Requests, Push(l, w), UNCHANGED <<resources, drained>> PROVE Silent'
    BY <1>2, PushTyped DEF Silent, Typed, resources
  <1>3. CASE Flip
    <2>1. PICK f \in free : Push(Video, [type |-> "flip", to |-> f])
      BY <1>3 DEF Flip
    <2>2. [type |-> "flip", to |-> f] \in Requests
      BY DEF Requests, Typed, RestTyped
    <2> QED
      BY <1>2, <1>3, <2>1, <2>2, LayersAre DEF Flip
  <1>4. ASSUME NEW l \in {Overlay, Ui}, NEW to \in Places, SetCoord(l, to) PROVE Silent'
    <2>1. [type |-> "coord", to |-> to] \in Requests
      BY DEF Requests
    <2> QED
      BY <1>2, <1>4, <2>1, LayersAre DEF SetCoord
  <1>5. ASSUME NEW l \in {Overlay, Ui}, NEW to \in Alphas, SetAlpha(l, to) PROVE Silent'
    <2>1. [type |-> "alpha", to |-> to] \in Requests
      BY DEF Requests
    <2>2. CASE MayFade(l, to)
      BY <1>2, <1>5, <2>1, <2>2, LayersAre DEF SetAlpha
    <2>3. CASE ~MayFade(l, to)
      BY <1>5, <2>3 DEF SetAlpha, Silent, resources
    <2> QED
      BY <2>2, <2>3
  <1>6. CASE InitStep \/ Destroy \/ SetGeometry \/ Disable
    <2>1. CASE InitStep
      <3>1. bringup # "over" /\ UNCHANGED <<used, wishes, drained>>
        BY <2>1 DEF InitStep, NothingToDrive, Takes
      <3> QED
        BY <3>1 DEF Silent
    <2>2. CASE Destroy
      BY <2>2 DEF Destroy, Silent
    <2>3. CASE SetGeometry \/ Disable
      BY <2>3 DEF SetGeometry, Disable, Silent, resources
    <2> QED
      BY <1>6, <2>1, <2>2, <2>3
  <1>7. CASE Commit \/ Refused
    BY <1>7 DEF Commit, Refused, Silent, resources, Idle
  <1>8. CASE \E l \in Layers : StartLayer(l)
    BY <1>8 DEF StartLayer, Silent
  <1> QED
    BY <1>1, <1>3, <1>4, <1>5, <1>6, <1>7, <1>8 DEF DisplayNext, Alphas

----------------------------------------------------------------------------
\* The planes.

LEMMA NextStacked ==
  ASSUME Typed, OwnKinds, Stacked, DisplayNext
  PROVE  Stacked'
  <1>0. planes \in [Layers -> Planes]
    BY DEF Typed, PlanesTyped
  <1>1. CASE UNCHANGED planes
    BY <1>1 DEF Stacked
  <1>2. ASSUME NEW l \in Layers, StartLayer(l) PROVE Stacked'
    <2>1. planes' = planes \/ planes' = [planes EXCEPT ![l] = Mounted(l)]
      BY <1>2 DEF StartLayer, OverlayInit
    <2>2. Mounted(l).z = l /\ Mounted(l).alpha = planes[l].alpha
      <3>1. planes[l] \in Planes
        BY <1>0
      <3> QED
        BY <3>1 DEF Mounted, Planes
    <2> HIDE DEF Mounted
    <2>3. \A m \in Layers : planes'[m] = planes[m] \/ (m = l /\ planes'[m] = Mounted(l))
      BY <1>0, <2>1
    <2> QED
      BY <2>2, <2>3 DEF Stacked
  <1>3. CASE Commit
    <2>1. ASSUME NEW l \in Layers
          PROVE  (Applied(l).on => Applied(l).z = l) /\ (Applied(l).alpha # Opaque => l = Overlay)
      BY DEF Applied, MountedZ, Stacked, OwnKinds
    <2>2. \A l \in Layers : planes'[l] = Applied(l)
      BY <1>3 DEF Commit
    <2> HIDE DEF Applied
    <2> QED
      BY <2>1, <2>2 DEF Stacked
  <1>4. CASE Disable
    <2>1. planes' = [planes EXCEPT ![Video] = [planes[Video] EXCEPT !.on = FALSE, !.frame = NoFrame]]
      BY <1>0, <1>4, LayersAre DEF Disable
    <2> DEFINE n == [planes[Video] EXCEPT !.on = FALSE, !.frame = NoFrame]
    <2>2. ~n.on /\ n.alpha = planes[Video].alpha
      <3>1. planes[Video] \in Planes
        BY <1>0, LayersAre
      <3> QED
        BY <3>1 DEF Planes
    <2>3. \A m \in Layers : planes'[m] = IF m = Video THEN n ELSE planes[m]
      BY <1>0, <2>1, LayersAre
    <2> HIDE DEF n
    <2> QED
      BY <2>2, <2>3 DEF Stacked
  <1> QED
    BY <1>1, <1>2, <1>3, <1>4 DEF DisplayNext, InitStep, Destroy, Flip, SetGeometry, DisplayDrains, Refused,
       SetCoord, SetAlpha, resources

----------------------------------------------------------------------------
\* The frames of the video.

LEMMA QueueOfVideo ==
  ASSUME Typed
  PROVE  /\ wishes[Video] \in Seq(Requests) /\ drained[Video].frame \in Frames /\ NoFrame \notin Buffers
         /\ Queued \subseteq Buffers
  <1>1. wishes[Video] \in Seq(Requests) /\ drained[Video] \in Lots
    BY LayersAre DEF Typed, QueuesTyped, LotTyped
  <1>2. \A i \in OfType(wishes[Video], "flip") : wishes[Video][i] \in Requests /\ wishes[Video][i].type = "flip"
    BY <1>1 DEF OfType
  <1> QED
    BY <1>1, <1>2, RequestsTyped, DisplayAssumption DEF Lots, Queued, NoFrame

LEMMA PlacesKept ==
  ASSUME OnePlace, wishes'[Video] = wishes[Video], UNCHANGED <<free, drained, scanned>>
  PROVE  OnePlace'
  <1>1. Queued' = Queued /\ Drawn' = Drawn
    BY DEF Queued, Drawn
  <1> HIDE DEF Queued, Drawn
  <1> QED
    BY <1>1 DEF OnePlace

LEMMA FlipOnePlace ==
  ASSUME Typed, OnePlace, Flip
  PROVE  OnePlace'
  <1>1. PICK f \in free : Push(Video, [type |-> "flip", to |-> f]) /\ free' = free \ {f}
    BY DEF Flip
  <1> DEFINE w == [type |-> "flip", to |-> f]
             q == wishes[Video]
             a == Append(q, w)
  <1>2. f \in Buffers /\ w \in Requests /\ q \in Seq(Requests)
    BY QueueOfVideo DEF Typed, RestTyped, Requests
  <1>3. wishes'[Video] = a
    BY <1>1, <1>2, PushTyped, LayersAre DEF Typed
  <1>4. /\ Len(q) \in Nat /\ DOMAIN a = 1 .. Len(q) + 1 /\ DOMAIN q = 1 .. Len(q)
        /\ a[Len(q) + 1] = w /\ \A i \in 1 .. Len(q) : a[i] = q[i]
    BY <1>2
  <1>5. w.type = "flip" /\ w.to = f
    OBVIOUS
  <1> HIDE DEF w, q, a
  <1>6. /\ OfType(a, "flip") = OfType(q, "flip") \cup {Len(q) + 1}
        /\ \A i \in OfType(q, "flip") : a[i] = q[i] /\ i # Len(q) + 1
    BY <1>4, <1>5 DEF OfType
  <1>7. Queued' = Queued \cup {f}
    BY <1>3, <1>4, <1>5, <1>6 DEF Queued, q
  <1>8. \A i \in OfType(q, "flip") : q[i].to # f
    BY <1>1, <1>2 DEF OnePlace, Queued, q
  <1>9. \A i, j \in OfType(wishes'[Video], "flip") : wishes'[Video][i].to = wishes'[Video][j].to => i = j
    <2>1. \A i, j \in OfType(q, "flip") : q[i].to = q[j].to => i = j
      BY DEF OnePlace, q
    <2> QED
      BY <1>3, <1>4, <1>5, <1>6, <1>8, <2>1
  <1>10. Drawn' = Drawn /\ scanned' = scanned
    BY DEF Flip, Drawn
  <1> HIDE DEF Queued, Drawn
  <1> QED
    BY <1>1, <1>2, <1>7, <1>9, <1>10 DEF OnePlace

LEMMA DrainOnePlace ==
  ASSUME Typed, OnePlace, DisplayDrains
  PROVE  OnePlace'
  <1> DEFINE q == wishes[Video]
             F == OfType(q, "flip")
             k == Last(q, "flip")
  <1>0. q \in Seq(Requests)
    BY QueueOfVideo
  <1>1. Drawn = NoFrame /\ Drawn' = Collected(Video).frame
    BY LayersAre DEF DisplayDrains, Drawn, Idle, Unasked
  <1>2. wishes'[Video] = <<>> /\ free' = free \cup Overtaken(q) /\ scanned' = scanned
    BY LayersAre DEF DisplayDrains
  <1>3. Queued' = {} /\ OfType(wishes'[Video], "flip") = {}
    BY <1>2, NoneInEmpty DEF Queued
  <1>4. F = {} => Overtaken(q) = {} /\ Drawn' = NoFrame /\ Queued = {}
    BY <1>1 DEF Overtaken, Collected, Queued
  <1>5. ASSUME F # {}
        PROVE  /\ k \in F /\ Drawn' = q[k].to
               /\ Overtaken(q) = {q[i].to : i \in F \ {k}} /\ Queued = {q[i].to : i \in F}
    <2>1. k \in F /\ \A j \in F : j <= k
      BY <1>0, <1>5, LastIsLast
    <2>2. F \subseteq Nat
      BY <1>0 DEF OfType
    <2>3. {i \in F : \E j \in F : i < j} = F \ {k}
      <3>1. ASSUME NEW i \in F PROVE (\E j \in F : i < j) <=> i # k
        <4>1. i \in Nat /\ k \in Nat /\ i <= k
          BY <2>1, <2>2
        <4>2. ASSUME NEW j \in F, i < j PROVE i # k
          <5>1. j <= k /\ j \in Nat
            BY <2>1, <2>2
          <5> HIDE DEF F, k
          <5> QED
            BY <4>1, <4>2, <5>1
        <4>3. i # k => i < k
          <5> HIDE DEF F, k
          <5> QED
            BY <4>1
        <4> HIDE DEF F, k
        <4> QED
          BY <2>1, <4>2, <4>3
      <3> HIDE DEF F, k
      <3> QED
        BY <3>1
    <2>4. Overtaken(q) = {q[i].to : i \in F \ {k}}
      BY <2>3 DEF Overtaken
    <2>5. Drawn' = q[k].to
      BY <1>1, <1>5 DEF Collected, LastOf
    <2> QED
      BY <2>1, <2>4, <2>5 DEF Queued
  <1>6. \A i, j \in F : q[i].to = q[j].to => i = j
    BY DEF OnePlace
  <1>7. NoFrame \notin Buffers
    BY QueueOfVideo
  <1>8. \A f \in Buffers :
          \/ f \in free /\ f \notin Queued /\ f # scanned
          \/ f \notin free /\ f \in Queued /\ f # scanned
          \/ f \notin free /\ f \notin Queued /\ f = scanned
    BY <1>1, <1>7 DEF OnePlace
  <1> HIDE DEF q, F, k, Queued, Drawn
  <1>9. CASE F = {}
    <2>1. Overtaken(q) = {} /\ Drawn' = NoFrame /\ Queued = {}
      BY <1>4, <1>9
    <2> QED
      BY <1>2, <1>3, <1>7, <1>8, <2>1 DEF OnePlace
  <1>10. CASE F # {}
    <2>1. \A f \in Buffers : f \in Queued <=> (f \in Overtaken(q) \/ f = Drawn')
      BY <1>5, <1>10
    <2>2. \A f \in Buffers : ~(f \in Overtaken(q) /\ f = Drawn')
      BY <1>5, <1>6, <1>10
    <2> HIDE DEF Overtaken
    <2> QED
      BY <1>2, <1>3, <1>8, <2>1, <2>2 DEF OnePlace
  <1> QED
    BY <1>9, <1>10

LEMMA CommittedOnePlace ==
  ASSUME Typed, OnePlace, Commit \/ Refused
  PROVE  OnePlace'
  <1>1. /\ wishes' = wishes /\ Queued' = Queued /\ Drawn' = NoFrame
        /\ IF Drawn = NoFrame \/ Refused
           THEN scanned' = scanned /\ free' = free \cup Held(Drawn)
           ELSE free' = free \cup Held(scanned) /\ scanned' = Drawn
    <2>1. wishes' = wishes /\ drained' = Idle
      BY DEF Commit, Refused
    <2>2. Queued' = Queued /\ Drawn' = NoFrame
      BY <2>1, LayersAre DEF Queued, Drawn, Idle, Unasked
    <2> QED
      BY <2>1, <2>2 DEF Commit, Refused, Drawn, Held
  <1>2. NoFrame \notin Buffers
    BY QueueOfVideo
  <1> HIDE DEF Queued, Drawn
  <1> QED
    BY <1>1, <1>2 DEF OnePlace, Held

LEMMA NextOnePlace ==
  ASSUME Typed, OnePlace, DisplayNext
  PROVE  OnePlace'
  <1>1. CASE \/ InitStep \/ Destroy \/ SetGeometry \/ Disable \/ \E l \in Layers : StartLayer(l)
    BY <1>1, PlacesKept DEF InitStep, Destroy, SetGeometry, Disable, StartLayer
  <1>2. ASSUME NEW l \in {Overlay, Ui}, \/ \E to \in Places : SetCoord(l, to)
                                        \/ \E to \in Alphas : SetAlpha(l, to)
        PROVE  OnePlace'
    <2>1. UNCHANGED <<free, drained, scanned>>
      BY <1>2 DEF SetCoord, SetAlpha
    <2>2. wishes' = wishes \/ \E w : wishes' = [wishes EXCEPT ![l] = Append(@, w)]
      BY <1>2 DEF SetCoord, SetAlpha, Push
    <2>3. wishes'[Video] = wishes[Video]
      BY <2>2, LayersAre DEF Typed, QueuesTyped
    <2> QED
      BY <2>1, <2>3, PlacesKept
  <1> QED
    BY <1>1, <1>2, FlipOnePlace, DrainOnePlace, CommittedOnePlace DEF DisplayNext, Alphas

\* The first frame mounts the video, and no commit is refused for one that does not.
LEMMA NextMounting ==
  ASSUME Typed, OwnKinds, BroughtUp, Silent, Mounting, DisplayNext
  PROVE  Mounting'
  <1>0. planes \in [Layers -> Planes] /\ planes[Video] \in Planes /\ budget \in Budgets
    BY LayersAre DEF Typed, PlanesTyped, RestTyped
  <1>1. CASE InitStep \/ Destroy
    BY <1>1 DEF Mounting, InitStep, Destroy
  <1>2. ASSUME NEW l \in Layers, StartLayer(l) PROVE Mounting'
    <2>1. planes' = planes \/ planes' = [planes EXCEPT ![l] = Mounted(l)]
      BY <1>2 DEF StartLayer, OverlayInit
    <2>2. planes[Video].on => planes'[Video].on
      <3>1. planes[l] \in Planes
        BY <1>0
      <3>2. Mounted(l).on
        BY <3>1 DEF Mounted, Planes
      <3> HIDE DEF Mounted
      <3> QED
        BY <1>0, <2>1, <3>2, LayersAre
    <2> QED
      BY <1>2, <2>2 DEF Mounting, StartLayer
  <1>3. CASE Flip
    <2>1. budget'.refused = budget.refused /\ budget'.stops = budget.stops
      BY <1>0, <1>3, AskTyped, LayersAre DEF Flip
    <2> QED
      BY <1>3, <2>1 DEF Flip, Mounting
  <1>4. CASE SetGeometry
    BY <1>4 DEF SetGeometry, Mounting
  <1>5. CASE DisplayDrains
    <2>1. Collected(Video).frame # NoFrame => wishes[Video] # <<>> /\ Collected(Video).full = remount
      <3>1. OfType(wishes[Video], "flip") = {} => Collected(Video).frame = NoFrame
        BY DEF Collected
      <3>2. OfType(wishes[Video], "flip") # {} => wishes[Video] # <<>> /\ Collected(Video).full = remount
        BY NoneInEmpty DEF Collected, Typed, RestTyped
      <3> QED
        BY <3>1, <3>2
    <2>2. drained'[Video] = Collected(Video) /\ wishes'[Video] = <<>>
      BY <1>5, LayersAre DEF DisplayDrains
    <2> HIDE DEF Collected
    <2> QED
      BY <1>5, <2>1, <2>2 DEF DisplayDrains, Mounting
  <1>6. CASE Commit
    <2>1. planes'[Video].on = (planes[Video].on \/ drained[Video].full)
      BY <1>6, LayersAre DEF Commit, Applied
    <2>2. drained'[Video].frame = NoFrame
      BY <1>6, LayersAre DEF Commit, Idle, Unasked
    <2> QED
      BY <1>6, <2>1, <2>2 DEF Commit, Mounting
  <1>7. CASE Refused
    <2>1. drained'[Video].frame = NoFrame
      BY <1>7, LayersAre DEF Refused, Idle, Unasked
    <2>2. budget'.stops = budget.stops /\ (budget.stops = 0 => budget'.refused # 0)
      <3>1. CASE \E l \in Layers : ~Valid(l) /\ UNCHANGED budget
        <4>1. PICK l \in Layers : ~Valid(l)
          BY <3>1
        <4>2. l = Video
          BY <4>1 DEF Valid, OwnKinds
        <4>3. budget.stops # 0
          BY <4>1, <4>2 DEF Valid, Mounting
        <4> QED
          BY <3>1, <4>3
      <3>2. CASE budget' = [budget EXCEPT !.refused = @ + 1]
        BY <1>0, <3>2 DEF Budgets
      <3> QED
        BY <1>7, <3>1, <3>2 DEF Refused
    <2> QED
      BY <1>7, <2>1, <2>2 DEF Refused, Mounting
  <1>8. CASE Disable
    <2>1. budget'.stops # 0
      BY <1>0, <1>8 DEF Disable, Budgets
    <2> QED
      BY <2>1 DEF Mounting
  <1>9. ASSUME NEW l \in {Overlay, Ui}, \/ \E to \in Places : SetCoord(l, to)
                                        \/ \E to \in Alphas : SetAlpha(l, to)
        PROVE  Mounting'
    <2>1. UNCHANGED <<planes, drained, remount, playing, lost>>
      BY <1>9 DEF SetCoord, SetAlpha
    <2>2. wishes' = wishes \/ \E w : wishes' = [wishes EXCEPT ![l] = Append(@, w)]
      BY <1>9 DEF SetCoord, SetAlpha, Push
    <2>3. wishes'[Video] = wishes[Video]
      BY <2>2, LayersAre DEF Typed, QueuesTyped
    <2>4. budget'.refused = budget.refused /\ budget'.stops = budget.stops
      BY <1>0, <1>9, AskTyped, LayersAre DEF SetCoord, SetAlpha
    <2> QED
      BY <2>1, <2>3, <2>4 DEF Mounting
  <1> QED
    BY <1>1, <1>2, <1>3, <1>4, <1>5, <1>6, <1>7, <1>8, <1>9 DEF DisplayNext, Alphas

----------------------------------------------------------------------------
\* What a plane comes to.

\* A request becomes the last of its type.
LEMMA ComingPushed ==
  ASSUME Typed, NEW l \in Layers, NEW w \in Requests, Push(l, w), UNCHANGED <<planes, drained>>,
         NEW m \in Layers
  PROVE  /\ ComingAt(m)' = IF m = l /\ w.type = "coord" THEN w.to ELSE ComingAt(m)
         /\ ComingAlpha(m)' = IF m = l /\ w.type = "alpha" THEN w.to ELSE ComingAlpha(m)
  <1>1. wishes'[m] = IF m = l THEN Append(wishes[l], w) ELSE wishes[m]
    BY PushTyped DEF Typed
  <1>2. wishes[l] \in Seq(Requests)
    BY DEF Typed, QueuesTyped
  <1>3. CASE m # l
    <2>1. wishes'[m] = wishes[m]
      BY <1>1, <1>3
    <2> QED
      BY <1>3, <2>1 DEF ComingAt, ComingAlpha
  <1>4. CASE m = l
    <2> DEFINE a == Append(wishes[l], w)
    <2>1. \A t \in {"coord", "alpha"} :
            IF w.type = t THEN OfType(a, t) # {} /\ LastOf(a, t) = w.to
            ELSE OfType(a, t) = OfType(wishes[l], t)
                 /\ (OfType(wishes[l], t) # {} => LastOf(a, t) = LastOf(wishes[l], t))
      BY <1>2, LastAppended
    <2>2. wishes'[m] = a
      BY <1>1, <1>4
    <2> HIDE DEF a
    <2> QED
      BY <1>4, <2>1, <2>2 DEF ComingAt, ComingAlpha
  <1> QED
    BY <1>3, <1>4

LEMMA ComingKept ==
  ASSUME NEW l \in Layers, wishes'[l] = wishes[l], drained'[l] = drained[l],
         planes'[l].at = planes[l].at, planes'[l].alpha = planes[l].alpha
  PROVE  ComingAt(l)' = ComingAt(l) /\ ComingAlpha(l)' = ComingAlpha(l)
  BY DEF ComingAt, ComingAlpha

\* Draining and committing is what the plane was coming to.
LEMMA ComingDrained ==
  ASSUME Typed, DisplayDrains, NEW l \in Layers
  PROVE  ComingAt(l)' = ComingAt(l) /\ ComingAlpha(l)' = ComingAlpha(l)
  <1>1. /\ drained[l].at = -1 /\ drained[l].alpha = -1
        /\ wishes'[l] = <<>> /\ drained'[l] = Collected(l) /\ planes' = planes
    BY DEF DisplayDrains, Idle, Unasked
  <1>2. wishes[l] \in Seq(Requests)
    BY DEF Typed, QueuesTyped
  <1>3. /\ OfType(wishes[l], "coord") # {} => LastOf(wishes[l], "coord") # -1
        /\ OfType(wishes[l], "alpha") # {} => LastOf(wishes[l], "alpha") # -1
    BY <1>2, LastTyped, DisplayAssumption DEF Alphas
  <1>4. /\ Collected(l).at = IF OfType(wishes[l], "coord") = {} THEN -1 ELSE LastOf(wishes[l], "coord")
        /\ Collected(l).alpha = IF OfType(wishes[l], "alpha") = {} THEN -1 ELSE LastOf(wishes[l], "alpha")
    BY DEF Collected, LastCoord
  <1>5. OfType(wishes'[l], "coord") = {} /\ OfType(wishes'[l], "alpha") = {}
    BY <1>1, NoneInEmpty
  <1> HIDE DEF Collected
  <1> QED
    BY <1>1, <1>3, <1>4, <1>5 DEF ComingAt, ComingAlpha

LEMMA ComingCommitted ==
  ASSUME Typed, OwnKinds, Commit, NEW l \in Layers, l # Video
  PROVE  ComingAt(l)' = ComingAt(l) /\ ComingAlpha(l)' = ComingAlpha(l)
  <1>1. wishes' = wishes /\ drained'[l].at = -1 /\ drained'[l].alpha = -1
    BY DEF Commit, Idle, Unasked
  <1>2. ~drained[l].full
    BY DEF OwnKinds
  <1>3. /\ planes'[l].at = IF drained[l].at = -1 THEN planes[l].at ELSE drained[l].at
        /\ planes'[l].alpha = IF drained[l].alpha = -1 THEN planes[l].alpha ELSE drained[l].alpha
    BY <1>2 DEF Commit, Applied
  <1> QED
    BY <1>1, <1>3 DEF ComingAt, ComingAlpha

LEMMA AskedAsAsked ==
  ASSUME Typed, AsAsked, NEW l \in {Overlay, Ui},
         \/ \E to \in Places : SetCoord(l, to)
         \/ \E to \in Alphas : SetAlpha(l, to)
  PROVE  AsAsked'
  <1>0. l \in Layers /\ wanted \in [Layers -> Wants] /\ wanted[l] \in Wants
    BY LayersAre DEF Typed, WantedTyped
  <1>1. ASSUME NEW to \in Places, SetCoord(l, to) PROVE AsAsked'
    <2> DEFINE w == [type |-> "coord", to |-> to]
    <2>1. w \in Requests /\ w.type = "coord" /\ w.to = to
      BY DEF Requests
    <2>2. /\ Push(l, w) /\ lost' = lost /\ UNCHANGED <<planes, drained>>
          /\ wanted' = [wanted EXCEPT ![l].at = to]
      BY <1>1 DEF SetCoord
    <2>3. \A m \in Layers : /\ wanted'[m].at = IF m = l THEN to ELSE wanted[m].at
                            /\ wanted'[m].alpha = wanted[m].alpha
      BY <1>0, <2>2 DEF Wants
    <2> HIDE DEF w
    <2>4. ASSUME NEW m \in Layers PROVE ComingAt(m)' = (IF m = l THEN to ELSE ComingAt(m))
                                         /\ ComingAlpha(m)' = ComingAlpha(m)
      BY <1>0, <2>1, <2>2, ComingPushed
    <2>5. ASSUME NEW m \in Layers \ ({Video} \cup lost')
          PROVE  ComingAt(m)' = wanted'[m].at /\ ComingAlpha(m)' = wanted'[m].alpha
      BY <2>2, <2>3, <2>4 DEF AsAsked
    <2> QED
      BY <2>5 DEF AsAsked
  <1>2. ASSUME NEW to \in Alphas, SetAlpha(l, to) PROVE AsAsked'
    <2>1. lost' = lost /\ UNCHANGED <<planes, drained>>
      BY <1>2 DEF SetAlpha
    <2>2. CASE ~MayFade(l, to)
      <3>1. wishes' = wishes /\ wanted' = wanted
        BY <1>2, <2>2 DEF SetAlpha
      <3>2. ASSUME NEW m \in Layers PROVE ComingAt(m)' = ComingAt(m) /\ ComingAlpha(m)' = ComingAlpha(m)
        BY <2>1, <3>1, ComingKept
      <3> QED
        BY <2>1, <3>1, <3>2 DEF AsAsked
    <2>3. CASE MayFade(l, to)
      <3> DEFINE w == [type |-> "alpha", to |-> to]
      <3>1. w \in Requests /\ w.type = "alpha" /\ w.to = to
        BY DEF Requests
      <3>2. Push(l, w) /\ wanted' = [wanted EXCEPT ![l].alpha = to]
        BY <1>2, <2>3 DEF SetAlpha
      <3>3. \A m \in Layers : /\ wanted'[m].alpha = IF m = l THEN to ELSE wanted[m].alpha
                              /\ wanted'[m].at = wanted[m].at
        BY <1>0, <3>2 DEF Wants
      <3> HIDE DEF w
      <3>4. ASSUME NEW m \in Layers PROVE ComingAlpha(m)' = (IF m = l THEN to ELSE ComingAlpha(m))
                                           /\ ComingAt(m)' = ComingAt(m)
        BY <1>0, <2>1, <3>1, <3>2, ComingPushed
      <3>5. ASSUME NEW m \in Layers \ ({Video} \cup lost')
            PROVE  ComingAt(m)' = wanted'[m].at /\ ComingAlpha(m)' = wanted'[m].alpha
        BY <2>1, <3>3, <3>4 DEF AsAsked
      <3> QED
        BY <3>5 DEF AsAsked
    <2> QED
      BY <2>2, <2>3
  <1> QED
    BY <1>1, <1>2

\* A mount of its own says where the plane is to be.
LEMMA StartAsAsked ==
  ASSUME Typed, Silent, AsAsked, NEW l \in Layers, StartLayer(l)
  PROVE  AsAsked'
  <1>0. planes \in [Layers -> Planes] /\ wanted \in [Layers -> Wants] /\ planes[l] \in Planes /\ wanted[l] \in Wants
    BY DEF Typed, PlanesTyped, WantedTyped
  <1>1. UNCHANGED <<wishes, drained, lost>>
    BY DEF StartLayer
  <1>2. CASE UNCHANGED <<planes, wanted>>
    <2>1. ASSUME NEW m \in Layers PROVE ComingAt(m)' = ComingAt(m) /\ ComingAlpha(m)' = ComingAlpha(m)
      BY <1>1, <1>2, ComingKept
    <2> QED
      BY <1>1, <1>2, <2>1 DEF AsAsked
  <1>3. CASE planes' = [planes EXCEPT ![l] = Mounted(l)] /\ wanted' = [wanted EXCEPT ![l].at = 1] /\ l # Video
    <2>1. /\ \A m \in Layers : m # l => planes'[m] = planes[m] /\ wanted'[m] = wanted[m]
          /\ planes'[l].at = 1 /\ planes'[l].alpha = planes[l].alpha
          /\ wanted'[l].at = 1 /\ wanted'[l].alpha = wanted[l].alpha
      BY <1>0, <1>3 DEF Mounted, Planes, Wants
    <2>2. l \notin used
      BY DEF StartLayer, Layers, Video, Overlay, Ui
    <2>3. bringup # "over"
      BY DEF StartLayer
    <2>4. wishes[l] = <<>> /\ drained[l].at = -1 /\ drained[l].alpha = -1
      BY <2>2, <2>3 DEF Silent, Unasked
    <2>5. OfType(wishes[l], "coord") = {} /\ OfType(wishes[l], "alpha") = {}
      BY <2>4, NoneInEmpty
    <2>6. ASSUME NEW m \in Layers \ ({Video} \cup lost')
          PROVE  ComingAt(m)' = wanted'[m].at /\ ComingAlpha(m)' = wanted'[m].alpha
      <3>1. CASE m # l
        BY <1>1, <2>1, <3>1, ComingKept DEF AsAsked
      <3>2. CASE m = l
        <4>1. m \in Layers \ ({Video} \cup lost)
          BY <1>1
        <4> QED
          BY <1>1, <2>1, <2>4, <2>5, <3>2, <4>1 DEF AsAsked, ComingAt, ComingAlpha
      <3> QED
        BY <3>1, <3>2
    <2> QED
      BY <2>6 DEF AsAsked
  <1> QED
    BY <1>2, <1>3 DEF StartLayer, OverlayInit

LEMMA NextAsAsked ==
  ASSUME Typed, OwnKinds, Silent, AsAsked, DisplayNext
  PROVE  AsAsked'
  <1>1. ASSUME UNCHANGED <<wanted, lost>>,
               \A m \in Layers \ {Video} : ComingAt(m)' = ComingAt(m) /\ ComingAlpha(m)' = ComingAlpha(m)
        PROVE  AsAsked'
    BY <1>1 DEF AsAsked
  <1>2. CASE InitStep \/ Destroy \/ SetGeometry
    <2>1. UNCHANGED <<wishes, drained, planes, wanted, lost>>
      BY <1>2 DEF InitStep, Destroy, SetGeometry
    <2>2. ASSUME NEW m \in Layers PROVE ComingAt(m)' = ComingAt(m) /\ ComingAlpha(m)' = ComingAlpha(m)
      BY <2>1, ComingKept
    <2> QED
      BY <1>1, <2>1, <2>2
  <1>3. CASE Flip
    <2>1. PICK f \in free : Push(Video, [type |-> "flip", to |-> f])
      BY <1>3 DEF Flip
    <2>2. [type |-> "flip", to |-> f] \in Requests
      BY DEF Requests, Typed, RestTyped
    <2>3. UNCHANGED <<planes, drained, wanted, lost>>
      BY <1>3 DEF Flip
    <2>4. ASSUME NEW m \in Layers PROVE ComingAt(m)' = ComingAt(m) /\ ComingAlpha(m)' = ComingAlpha(m)
      BY <2>1, <2>2, <2>3, LayersAre, ComingPushed
    <2> QED
      BY <1>1, <2>3, <2>4
  <1>4. CASE DisplayDrains
    <2>1. ASSUME NEW m \in Layers PROVE ComingAt(m)' = ComingAt(m) /\ ComingAlpha(m)' = ComingAlpha(m)
      BY <1>4, ComingDrained
    <2> QED
      BY <1>1, <1>4, <2>1 DEF DisplayDrains
  <1>5. CASE Commit
    <2>1. ASSUME NEW m \in Layers \ {Video} PROVE ComingAt(m)' = ComingAt(m) /\ ComingAlpha(m)' = ComingAlpha(m)
      BY <1>5, ComingCommitted
    <2> QED
      BY <1>1, <1>5, <2>1 DEF Commit
  <1>6. CASE Refused
    <2>1. /\ UNCHANGED <<wishes, planes, wanted>> /\ drained' = Idle
          /\ lost' = lost \cup {l \in Layers : drained[l] # Unasked}
      BY <1>6 DEF Refused
    <2>2. ASSUME NEW m \in Layers \ ({Video} \cup lost')
          PROVE  ComingAt(m)' = wanted'[m].at /\ ComingAlpha(m)' = wanted'[m].alpha
      <3>1. drained'[m] = drained[m] /\ m \in Layers \ ({Video} \cup lost)
        BY <2>1 DEF Idle
      <3> QED
        BY <2>1, <3>1, ComingKept DEF AsAsked
    <2> QED
      BY <2>2 DEF AsAsked
  <1>7. CASE Disable
    <2>1. UNCHANGED <<wishes, drained, wanted, lost>> /\ \A m \in Layers \ {Video} : planes'[m] = planes[m]
      BY <1>7 DEF Disable, Typed, PlanesTyped
    <2>2. ASSUME NEW m \in Layers \ {Video} PROVE ComingAt(m)' = ComingAt(m) /\ ComingAlpha(m)' = ComingAlpha(m)
      BY <2>1, ComingKept
    <2> QED
      BY <1>1, <2>1, <2>2
  <1> QED
    BY <1>2, <1>3, <1>4, <1>5, <1>6, <1>7, StartAsAsked, AskedAsAsked DEF DisplayNext, Alphas

----------------------------------------------------------------------------
\* The specification.

LEMMA InitPlanesInv == DisplayInit => PlanesInv
  <1> SUFFICES ASSUME DisplayInit PROVE PlanesInv
    OBVIOUS
  <1> USE DEF DisplayInit
  <1>1. Typed
    BY InitTyped
  <1>2. \A l \in Layers : wishes[l] = <<>> /\ drained[l] = Unasked /\ planes[l] = Off
    BY DEF Idle
  <1>3. OwnKinds /\ Silent
    <2>1. \A l \in Layers : DOMAIN wishes[l] = {}
      BY <1>2
    <2>2. OwnKinds
      BY <1>2, <2>1 DEF OwnKinds, Unasked
    <2> QED
      BY <1>2, <2>2 DEF Silent
  <1>4. OnePlace
    <2>1. OfType(wishes[Video], "flip") = {} /\ Drawn = NoFrame
      BY <1>2, LayersAre, NoneInEmpty DEF Drawn, Unasked
    <2>2. Queued = {} /\ NoFrame \notin Buffers
      BY <1>1, <2>1, QueueOfVideo DEF Queued
    <2> HIDE DEF Queued, Drawn
    <2> QED
      BY <2>1, <2>2 DEF OnePlace
  <1>5. AsAsked
    <2>1. ASSUME NEW l \in Layers PROVE ComingAt(l) = 0 /\ ComingAlpha(l) = Opaque
      BY <1>2, NoneInEmpty DEF ComingAt, ComingAlpha, Unasked, Off
    <2> QED
      BY <2>1 DEF AsAsked
  <1>6. Mounting
    BY <1>2, LayersAre DEF Mounting, Unasked
  <1>7. Stacked
    BY <1>2 DEF Stacked, Off
  <1>8. BroughtUp
    BY DEF BroughtUp, Before
  <1> QED
    BY <1>1, <1>3, <1>4, <1>5, <1>6, <1>7, <1>8 DEF PlanesInv

LEMMA NextPlanesInv == PlanesInv /\ [DisplayNext]_displayVars => PlanesInv'
  <1>1. PlanesInv /\ DisplayNext => PlanesInv'
    BY NextTyped, NextOwnKinds, NextSilent, NextOnePlace, NextAsAsked, NextMounting, NextStacked, NextBroughtUp DEF PlanesInv
  <1>2. ASSUME PlanesInv, UNCHANGED displayVars PROVE PlanesInv'
    <2> USE <1>2 DEF PlanesInv, displayVars, resources
    <2>1. Typed'
      BY DEF Typed, PlanesTyped, QueuesTyped, LotTyped, WantedTyped, RestTyped
    <2>2. OwnKinds' /\ Silent'
      BY DEF OwnKinds, Silent, Fits
    <2>3. OnePlace'
      BY PlacesKept
    <2>4. AsAsked'
      <3>1. ASSUME NEW l \in Layers PROVE ComingAt(l)' = ComingAt(l) /\ ComingAlpha(l)' = ComingAlpha(l)
        BY ComingKept
      <3> QED
        BY <3>1 DEF AsAsked
    <2>5. Mounting' /\ Stacked' /\ BroughtUp'
      BY DEF Mounting, Stacked, BroughtUp
    <2> QED
      BY <2>1, <2>2, <2>3, <2>4, <2>5
  <1> QED
    BY <1>1, <1>2

\* Exactly one place out of four.
LEMMA OneOfFour ==
  ASSUME NEW f, NEW a, NEW b, NEW c, NEW d,
         \/ f \in a /\ f \notin b /\ f \notin c /\ f \notin d
         \/ f \notin a /\ f \in b /\ f \notin c /\ f \notin d
         \/ f \notin a /\ f \notin b /\ f \in c /\ f \notin d
         \/ f \notin a /\ f \notin b /\ f \notin c /\ f \in d
  PROVE  Cardinality({p \in {<<"free", a>>, <<"queued", b>>, <<"drained", c>>, <<"scanned", d>>} : f \in p[2]}) = 1
  <1> DEFINE S == {p \in {<<"free", a>>, <<"queued", b>>, <<"drained", c>>, <<"scanned", d>>} : f \in p[2]}
  <1>1. \E x : S = {x}
    <2>1. CASE f \in a
      <3>1. S = {<<"free", a>>}
        BY <2>1
      <3> QED
        BY <3>1
    <2>2. CASE f \in b
      <3>1. S = {<<"queued", b>>}
        BY <2>2
      <3> QED
        BY <3>1
    <2>3. CASE f \in c
      <3>1. S = {<<"drained", c>>}
        BY <2>3
      <3> QED
        BY <3>1
    <2>4. CASE f \in d
      <3>1. S = {<<"scanned", d>>}
        BY <2>4
      <3> QED
        BY <3>1
    <2> QED
      BY <2>1, <2>2, <2>3, <2>4
  <1> HIDE DEF S
  <1>2. Cardinality(S) = 1
    BY <1>1, FS_Singleton
  <1> QED
    BY <1>2 DEF S

LEMMA PlanesInvMeans == PlanesInv => PlanesAsAsked
  <1> SUFFICES ASSUME PlanesInv PROVE PlanesAsAsked
    OBVIOUS
  <1>1. \A l \in Layers : (planes[l].on => planes[l].z = l) /\ (planes[l].alpha # Opaque => l = Overlay)
    BY DEF PlanesInv, Stacked
  <1>2. ASSUME NEW f \in Buffers
        PROVE  Cardinality({p \in {<<"free", free>>, <<"queued", Queued>>, <<"drained", {drained[Video].frame}>>,
                                   <<"scanned", {scanned}>>} : f \in p[2]}) = 1
    <2> DEFINE c == {drained[Video].frame}
               d == {scanned}
    <2>1. \/ f \in free /\ f \notin Queued /\ f \notin c /\ f \notin d
          \/ f \notin free /\ f \in Queued /\ f \notin c /\ f \notin d
          \/ f \notin free /\ f \notin Queued /\ f \in c /\ f \notin d
          \/ f \notin free /\ f \notin Queued /\ f \notin c /\ f \in d
      <3> HIDE DEF Queued
      <3> QED
        BY DEF PlanesInv, OnePlace, Drawn
    <2> HIDE DEF Queued, c, d
    <2>2. Cardinality({p \in {<<"free", free>>, <<"queued", Queued>>, <<"drained", c>>, <<"scanned", d>>} : f \in p[2]}) = 1
      BY <2>1, OneOfFour, Zenon
    <2> QED
      BY <2>2 DEF c, d
  <1>3. ASSUME NEW l \in used \ ({Video} \cup lost), wishes[l] = <<>>, drained = Idle
        PROVE  planes[l].at = wanted[l].at /\ planes[l].alpha = wanted[l].alpha
    <2>1. l \in Layers \ ({Video} \cup lost)
      BY DEF PlanesInv, Typed, RestTyped
    <2>2. drained[l].at = -1 /\ drained[l].alpha = -1 /\ OfType(wishes[l], "coord") = {} /\ OfType(wishes[l], "alpha") = {}
      BY <1>3, <2>1, NoneInEmpty DEF Idle, Unasked
    <2> QED
      BY <2>1, <2>2 DEF PlanesInv, AsAsked, ComingAt, ComingAlpha
  <1>4. budget.refused = 0 /\ budget.stops = 0 => lost = {}
    BY DEF PlanesInv, Mounting
  <1>5. bringup \in {"failed", "headless", "over"} =>
          /\ device = IF bringup = "headless" THEN {"res"} ELSE {}
          /\ \A l \in Layers : dumb[l] = {}
    BY DEF PlanesInv, BroughtUp, Before, NoBuffers
  <1> QED
    BY <1>1, <1>2, <1>3, <1>4, <1>5 DEF PlanesAsAsked

\* For any frames and places, any room in the queues and any number of requests, stops
\* and refused commits: a plane whose requests are done is where, and as opaque as, it
\* was asked to be last, unless a commit with its request was refused; no frame of the
\* video is in two places or in none; the planes keep the order of the layers; before
\* the video is stopped no commit is one the kernel has to refuse; and a display that was
\* closed holds nothing, and one that could not be opened nothing but, where no CRTC or
\* connector was found, the list of resources (drm_warpper_display_thread,
\* drm_warpper_init).
THEOREM PlanesAsAskedCorrect == DisplaySpec => []PlanesAsAsked
  BY InitPlanesInv, NextPlanesInv, PlanesInvMeans, PTL DEF DisplaySpec
=============================================================================
