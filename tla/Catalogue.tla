------------------------------ MODULE Catalogue ------------------------------
(* The operators of the device: what a directory must hold to become one
   (prts/operators.c, utils/misc.c), and the table prts_reload_assets builds of
   the directories of flash and card, in the order the user gave them
   (prts/prts.c).

   A directory is known by its name; CfgOf gives the epconfig.json in it. A file
   a config names is "" (not named), a member of Files (there and readable), or
   something else (not there). An absent number is 0, as json_get_int has it; only
   the version has to be there.
   The parsers answer <<result>>, or <<>> for a refusal.                       *)
EXTENDS Integers, Sequences, FiniteSets

CONSTANTS
    Files,            \* names of files that are in the directory of their operator
    Configs,          \* what an epconfig.json may hold
    CfgOf(_),         \* directory -> config
    Flash, Card,      \* the directories that may be in /assets and /sd/assets
    Fallbacks,        \* what may be installed as the directory of RES_FALLBACK
    MaxOperators,     \* PRTS_OPERATORS_MAX
    FirstCapacity,    \* 16
    MaxElements,      \* OPINFO_ELEMENTS_MAX
    UiScale           \* UI_SCALE

Dirs == {Flash[i] : i \in DOMAIN Flash} \cup {Card[i] : i \in DOMAIN Card} \cup Fallbacks

\* A list of elements may be any list; a number in a config is a number, and an
\* element names what there is to name.
JsonElement(j) ==
    /\ {j.w, j.h, j.start, j.end, j.dx, j.dy, j.frames, j.speed} \subseteq Int
JsonTransition(t) == t.duration \in Int
Json(c) ==
    /\ c.version \in Int /\ c.uuid \in STRING
    /\ c.intro.duration \in Int
    /\ JsonTransition(c.transIn) /\ JsonTransition(c.transLoop)
    /\ {c.overlay.appear, c.overlay.duration} \subseteq Int
    /\ Len(c.overlay.elements) \in Nat /\ DOMAIN c.overlay.elements = 1 .. Len(c.overlay.elements)
    /\ \A i \in DOMAIN c.overlay.elements : JsonElement(c.overlay.elements[i])

ASSUME CatalogueAssumption ==
    /\ \A c \in Configs : Json(c)
    /\ \A d \in Dirs : d # "" /\ CfgOf(d) \in Configs
    /\ Flash \in Seq(Dirs) /\ Card \in Seq(Dirs)
    /\ \A i, j \in DOMAIN (Flash \o Card) : (Flash \o Card)[i] = (Flash \o Card)[j] => i = j
    /\ "" \notin Files /\ Fallbacks # {}
    /\ MaxOperators \in Nat \ {0} /\ FirstCapacity \in Nat \ {0} /\ MaxElements \in Nat \ {0}

VARIABLES
    spare,            \* the fallback that is installed
    flash, card,      \* the directories, in the order readdir gives them
    order,            \* the lines of PRTS_ORDER_FILE, or <<"nofile">>
    ops,              \* prts->operators; <<>>: the power is off
    capacity,         \* prts->operator_capacity
    heap              \* directory -> element lists allocated for it and not freed

catVars == <<spare, flash, card, order, ops, capacity, heap>>

------------------------------------------------------------------------------
(* One operator *)

There(f) == f \in Files
ValidUuid(u) == u \notin {"", "notauuid"}
ValidImage(f) == IF There(f) THEN f ELSE ""
Text(t, default) == IF t = "" THEN default ELSE t
Color(c, default) == IF c = "hex" THEN c ELSE default

NoTransition == [type |-> "none", duration |-> 0, color |-> "black", image |-> ""]

Transition(t) ==
    IF t.is = "absent" THEN <<NoTransition>>
    ELSE IF t.is = "other" THEN <<>>
    ELSE IF t.type = "none" THEN <<NoTransition>>
    ELSE IF t.type \notin {"fade", "move", "swipe"} \/ ~t.options \/ t.duration <= 0 THEN <<>>
    ELSE <<[type |-> t.type, duration |-> t.duration,
            color |-> Color(t.color, "black"), image |-> ValidImage(t.image)]>>

ElementTypes == {"text", "text_rot90", "image", "rect", "barcode", "corner_fade"}
DefaultSpeed ==
    [none |-> 0, typewriter |-> 3, eink |-> 15, fade |-> 8, wipe |-> 40, scroll |-> 1,
     grow |-> 10, move |-> 15, scramble |-> 2, blink |-> 15, sprite |-> 4, sway |-> 60]

AnimFits(anim, type) ==
    CASE anim = "none" -> TRUE
      [] anim \in {"typewriter", "scramble"} -> type = "text"
      [] anim = "eink" -> type \in {"image", "rect", "barcode"}
      [] anim = "fade" -> type \in {"image", "text", "rect"}
      [] anim = "wipe" -> type \in {"rect", "image"}
      [] anim \in {"scroll", "sprite"} -> type = "image"
      [] anim = "grow" -> type = "corner_fade"
      [] OTHER -> type # "corner_fade"

AtLeast0(n) == IF n < 0 THEN 0 ELSE n
EndFrame(start, end) == IF end <= start THEN 0 ELSE end

\* what animates an element that has what the animation needs
Anim(j, frames) ==
    IF /\ j.anim \in DOMAIN DefaultSpeed
       /\ AnimFits(j.anim, j.type)
       /\ j.anim \in {"move", "sway"} => j.dx # 0 \/ j.dy # 0
       /\ j.anim = "sprite" => frames >= 2
    THEN j.anim ELSE "none"

\* parse_custom_element
ElementOf(j, start, frames, anim) ==
    LET sized == j.w > 0 /\ j.h > 0
    IN IF \/ j.is # "object"
          \/ j.type \notin ElementTypes
          \/ j.type \in {"rect", "text_rot90"} /\ ~sized
          \/ j.type = "barcode" /\ j.text = ""
       THEN <<>>
       ELSE <<[type |-> j.type, anim |-> anim, anchor |-> IF j.anchor \in {"tr", "bl", "br"} THEN j.anchor ELSE "tl",
               x |-> j.x, y |-> j.y,
               w |-> CASE j.type = "barcode" /\ j.w <= 0 -> 50
                       [] j.type = "corner_fade" /\ j.w <= 1 -> 192
                       [] OTHER -> j.w,
               h |-> IF j.type = "barcode" /\ j.h <= 0 THEN 180 ELSE j.h,
               start |-> start, end |-> EndFrame(start, AtLeast0(j.end)),
               speed |-> IF j.speed > 0 THEN j.speed ELSE IF anim = "none" THEN 0 ELSE DefaultSpeed[anim],
               dir |-> IF j.dir \in {"rtl", "ttb", "btt"} THEN j.dir ELSE "ltr",
               dx |-> j.dx, dy |-> j.dy, frames |-> frames, border |-> AtLeast0(j.border),
               text |-> j.text, image |-> ValidImage(j.image), color |-> Color(j.color, "white")]>>
Element(j) == ElementOf(j, AtLeast0(j.start), AtLeast0(j.frames), Anim(j, AtLeast0(j.frames)))

NoOverlay == [type |-> "none", appear |-> 0, duration |-> 0, name |-> "", logo |-> "",
              elements |-> <<>>]
PlainImage == [is |-> "object", type |-> "image", anim |-> "none", anchor |-> "tl", x |-> 0, y |-> 0,
               w |-> 0, h |-> 0, start |-> 0, end |-> 0, speed |-> 0, dir |-> "ltr", dx |-> 0, dy |-> 0,
               frames |-> 0, border |-> 0, text |-> "", image |-> "", color |-> "none"]
BuildImageElements(f) == Element([PlainImage EXCEPT !.image = f])

AllOrNone(each) ==
    IF each = <<>> \/ \E i \in DOMAIN each : each[i] = <<>> THEN <<>> ELSE <<[i \in DOMAIN each |-> each[i][1]]>>
Elements(list) ==
    AllOrNone([i \in 1 .. (IF Len(list) > MaxElements THEN MaxElements ELSE Len(list)) |-> Element(list[i])])

OverlayWith(o, elements) ==
    IF o.is # "object" \/ o.type \in {"absent", "none"} THEN <<NoOverlay>>
    ELSE IF \/ o.type \notin {"arknights", "custom", "image"}
            \/ ~o.options
            \/ o.appear <= 0
            \/ o.type = "image" /\ o.duration <= 0
            \/ o.type = "custom" /\ elements = <<>> THEN <<>>
    ELSE CASE o.type = "arknights" ->
            <<[NoOverlay EXCEPT !.type = "arknights", !.appear = o.appear, !.name = Text(o.name, "OPERATOR"),
                                !.logo = ValidImage(o.image)]>>
      [] o.type = "custom" ->
            <<[NoOverlay EXCEPT !.type = "custom", !.appear = o.appear, !.duration = o.duration,
                                !.elements = elements[1]]>>
      [] OTHER ->
            <<[NoOverlay EXCEPT !.type = "image", !.appear = o.appear, !.duration = o.duration,
                                !.elements = BuildImageElements(ValidImage(o.image))]>>
Overlay(o) == OverlayWith(o, IF o.type = "custom" THEN Elements(o.elements) ELSE <<>>)

\* The intro: <<>> refuses the operator
Intro(v) ==
    IF v.is # "object" \/ ~v.enabled THEN <<[enabled |-> FALSE, duration |-> 0, file |-> ""]>>
    ELSE IF ~There(v.file) \/ v.duration <= 0 THEN <<>>
    ELSE <<[enabled |-> TRUE, duration |-> v.duration, file |-> v.file]>>

Scales(screen, fw) ==
    LET asset == IF screen = "720x1280" THEN 2 ELSE 1
    IN [up |-> IF fw > asset THEN fw \div asset ELSE 1, down |-> IF asset > fw THEN asset \div fw ELSE 1]

AssetVersion == 2      \* PRTS_ASSET_VERSION_NUMBER
\* there is a file, it is JSON, and its uuid is read
Identified(c) == c.is = "object" /\ c.versioned /\ c.version <= AssetVersion /\ ValidUuid(c.uuid)
\* and nothing before the overlay refuses it
ReachesOverlay(c, intro, in, loop) ==
    Identified(c) /\ There(c.loop) /\ intro # <<>> /\ in # <<>> /\ loop # <<>>

\* operator_try_load_inner, of the parts of the config
Accepted(dir, c, intro, in, loop, overlay) ==
    IF ~ReachesOverlay(c, intro, in, loop) \/ overlay = <<>> THEN <<>>
    ELSE <<[dir |-> dir, index |-> 0, uuid |-> c.uuid, name |-> Text(c.name, dir), icon |-> Text(ValidImage(c.icon), "default"),
            loop |-> c.loop, intro |-> intro[1], transIn |-> in[1], transLoop |-> loop[1],
            opinfo |-> overlay[1], scale |-> Scales(c.screen, UiScale)]>>
TryLoad(dir, c) ==
    Accepted(dir, c, Intro(c.intro), Transition(c.transIn), Transition(c.transLoop), Overlay(c.overlay))

\* What a refusal leaves in the entry: it was cleared before, and the uuid is among the
\* first that is read (what it is after a text that is no uuid, "zero" stands for). All else that
\* was read before the refusal is left out. No
\* list is there: a custom one is put into the entry when all of its elements are read.
Remains(dir, c) ==
    [dir |-> dir, index |-> 0, uuid |-> IF Identified(c) THEN c.uuid ELSE "zero", name |-> "", icon |-> "",
     loop |-> "", intro |-> [enabled |-> FALSE, duration |-> 0, file |-> ""], transIn |-> NoTransition,
     transLoop |-> NoTransition, opinfo |-> NoOverlay, scale |-> [up |-> 0, down |-> 0]]

\* The list of a custom overlay is allocated before its elements are read, that of an
\* image when all else is.
Allocates(o) ==
    /\ o.is = "object" /\ o.options /\ o.appear > 0
    /\ \/ o.type = "custom" /\ o.elements # <<>>
       \/ o.type = "image" /\ o.duration > 0
FreesNone(o) == FALSE     \* mutant: the config is refused, and its list stays
\* an element that is refused takes the list with it
Frees(o) == o.type = "custom" /\ Elements(o.elements) = <<>>
\* the lists that reading a config leaves on the heap, whether it is accepted or refused
Leaves(c) ==
    IF ReachesOverlay(c, Intro(c.intro), Transition(c.transIn), Transition(c.transLoop)) /\ Allocates(c.overlay)
    THEN 1 - (IF Frees(c.overlay) THEN 1 ELSE 0) ELSE 0

------------------------------------------------------------------------------
(* The table *)

\* an entry owns an element list on the heap, if it has one
Owns(entry) == entry.opinfo.elements # <<>>
Owning(es, d) == {i \in DOMAIN es : es[i].dir = d /\ Owns(es[i])}
EntryFree(h, es) == [d \in DOMAIN h |-> h[d] - Cardinality(Owning(es, d))]

\* prts_operators_reserve: doubled until it is enough
Reserve(cap, need) ==
    LET grown[k \in 0 .. need] ==
            IF k = 0 THEN (IF cap > 0 THEN cap ELSE FirstCapacity)
            ELSE IF grown[k - 1] >= need THEN grown[k - 1] ELSE 2 * grown[k - 1]
    IN IF need <= cap THEN cap ELSE IF grown[need] > MaxOperators THEN MaxOperators ELSE grown[need]

\* prts_operator_scan_assets over the directories of both sources
Scanned(dirs) ==
    LET found[k \in 0 .. Len(dirs)] == IF k = 0 THEN <<>> ELSE found[k - 1] \o TryLoad(dirs[k], CfgOf(dirs[k]))
    IN found
Loadable(dirs) == Scanned(dirs)[Len(dirs)]
Numbered(good) ==
    [i \in 1 .. (IF Len(good) > MaxOperators THEN MaxOperators ELSE Len(good)) |-> [good[i] EXCEPT !.index = i]]
OrElse(good, else) == IF good = <<>> THEN else ELSE good
\* The fallback is an entry of the table also when it is refused: nobody looks at what
\* prts_operator_try_load returns for it.
Spare == OrElse(TryLoad(spare, CfgOf(spare)), <<Remains(spare, CfgOf(spare))>>)
Found == Numbered(OrElse(Loadable(flash \o card), Spare))

\* the directories that are read: until the table is full, and the fallback for want of all others
Tried(dirs) ==
    LET before == Scanned(dirs) IN {dirs[k] : k \in {k \in DOMAIN dirs : Len(before[k - 1]) < MaxOperators}}
Read(dirs) == Tried(dirs) \cup (IF Loadable(dirs) = <<>> THEN {spare} ELSE {})
\* each of them has its entry reserved before it is read
Needed(dirs) ==
    LET n == Len(Loadable(dirs))
    IN  IF n >= MaxOperators THEN MaxOperators
        ELSE IF n = 0 \/ TryLoad(dirs[Len(dirs)], CfgOf(dirs[Len(dirs)])) = <<>> THEN n + 1 ELSE n

Taken(perm, i) == \E m \in DOMAIN perm : perm[m] = i       \* placed[]
\* a line takes the first entry of its uuid that no earlier line took
Free(es, perm, u) == {i \in DOMAIN es : es[i].uuid = u /\ ~Taken(perm, i)}
Place(es, perm, u) ==
    IF Len(perm) = Len(es) \/ Free(es, perm, u) = {} THEN perm
    ELSE Append(perm, CHOOSE i \in Free(es, perm, u) : \A j \in Free(es, perm, u) : i <= j)
Named(es, lines) ==
    LET perm[k \in 0 .. Len(lines)] == IF k = 0 THEN <<>> ELSE Place(es, perm[k - 1], lines[k]) IN perm
\* and those that are left come behind
PlaceLast(perm, i) == IF Taken(perm, i) THEN perm ELSE Append(perm, i)
Completed(n, named) ==
    LET perm[i \in 0 .. n] == IF i = 0 THEN named ELSE PlaceLast(perm[i - 1], i) IN perm
Perm(es, lines) == Completed(Len(es), Named(es, lines)[Len(lines)])[Len(es)]

PermutedBack(es, perm) == [j \in DOMAIN es |-> [es[CHOOSE m \in DOMAIN es : perm[m] = j] EXCEPT !.index = j]]   \* mutant: the inverse
\* result[j] = old[perm[j]], along the cycles with one temporary entry
Permuted(es, perm) == [j \in DOMAIN es |-> [es[perm[j]] EXCEPT !.index = j]]

Uuids(es) == [i \in DOMAIN es |-> es[i].uuid]
\* what a power cut leaves of a file that is being written: whole lines, and perhaps part of one
Torn(lines) == {SubSeq(lines, 1, n) \o t : n \in 0 .. Len(lines), t \in {<<>>, <<"notauuid">>}} \ {lines}

------------------------------------------------------------------------------
Freed == [d \in Dirs |-> 0]

CatInit ==
    /\ spare \in Fallbacks
    /\ flash = Flash
    /\ card = <<>>
    /\ order = <<"nofile">>
    /\ ops = <<>>
    /\ capacity = 0
    /\ heap = Freed

\* Memory goes with the power
Lost == ops' = <<>> /\ capacity' = 0 /\ heap' = Freed

\* prts_reload_assets from the scan on; the power may go while prts_order_save writes
Listed(table, perm, memory) ==
    LET moved == \E i \in DOMAIN perm : perm[i] # i
        new   == IF moved THEN Permuted(table, perm) ELSE table
        kept  == EntryFree(heap, ops)
        read  == Read(flash \o card)
        need  == Needed(flash \o card)
        Done(es) == /\ ops' = es
                    /\ capacity' = Reserve(capacity, need)
                    /\ heap' = [d \in Dirs |-> kept[d] + (IF d \in read THEN Leaves(CfgOf(d)) ELSE 0)]
    IN IF order = <<"nofile">> \/ (moved /\ ~memory)
       THEN Done(table) /\ UNCHANGED order
       ELSE \/ Done(new) /\ order' = Uuids(new)
            \/ Lost /\ order' \in Torn(Uuids(new))
Load(memory) == \E table \in {Found} : \E perm \in {Perm(table, order)} : Listed(table, perm, memory)

FirstLoad == ops = <<>> /\ Load(TRUE) /\ UNCHANGED <<flash, card>>
Reload == ops # <<>> /\ (\E memory \in BOOLEAN : Load(memory)) /\ UNCHANGED <<flash, card>>
PowerCut == ops # <<>> /\ Lost /\ UNCHANGED <<flash, card, order>>

InsertCard == card = <<>> /\ card' = Card /\ UNCHANGED <<flash, order, ops, capacity, heap>>
PullCard == card # <<>> /\ card' = <<>> /\ UNCHANGED <<flash, order, ops, capacity, heap>>
\* over USB: a directory goes, or comes back where readdir happens to show it
RemoveDir == \E i \in DOMAIN flash :
    /\ flash' = SubSeq(flash, 1, i - 1) \o SubSeq(flash, i + 1, Len(flash))
    /\ UNCHANGED <<card, order, ops, capacity, heap>>
AddDir == \E i \in DOMAIN Flash, at \in 0 .. Len(flash) :
    /\ \A j \in DOMAIN flash : flash[j] # Flash[i]
    /\ flash' = SubSeq(flash, 1, at) \o <<Flash[i]>> \o SubSeq(flash, at + 1, Len(flash))
    /\ UNCHANGED <<card, order, ops, capacity, heap>>

\* prts_move_operator one place down, and prts_order_save when the user is done
MoveDown == \E from \in DOMAIN ops :
    /\ from < Len(ops)
    /\ ops' = [ops EXCEPT ![from] = [ops[from + 1] EXCEPT !.index = from],
                          ![from + 1] = [ops[from] EXCEPT !.index = from + 1]]
    /\ UNCHANGED <<flash, card, order, capacity, heap>>
OrderSave ==
    /\ ops # <<>>
    /\ \/ order' = Uuids(ops) /\ UNCHANGED <<ops, capacity, heap>>
       \/ order' \in Torn(Uuids(ops)) /\ Lost
    /\ UNCHANGED <<flash, card>>

CatNext ==
    /\ UNCHANGED spare
    /\ \/ FirstLoad \/ Reload \/ PowerCut
       \/ InsertCard \/ PullCard \/ RemoveDir \/ AddDir
       \/ MoveDown \/ OrderSave

CatSpec == CatInit /\ [][CatNext]_catVars

------------------------------------------------------------------------------
Loads == (FirstLoad \/ Reload) /\ ops' # <<>>
Count(es, d) == Cardinality({i \in DOMAIN es : es[i].dir = d})

\* what a load owes the directories: to have those that fit once
Owed(good) == {good[i].dir : i \in {k \in DOMAIN good : k <= MaxOperators}}
AllLoaded ==
    LET due == Owed(OrElse(Loadable(flash \o card), Spare))
    IN /\ \A d \in Dirs : Count(ops', d) = (IF d \in due THEN 1 ELSE 0)
       /\ \A i \in DOMAIN ops' : ops'[i].index = i

\* Whatever the order file says, holds twice, or lost in a power cut, every
\* directory that can be loaded is in the table once (up to the limit, in the
\* order of the scan) and each entry knows its place; the fallback is there when
\* nothing else is, and only then (prts_order_apply, prts_reload_assets).
EachOnce == [][Loads => AllLoaded]_catVars

\* and the lines of the order file: that an entry is behind those named before it
LinesOf(u) == {k \in DOMAIN order : order[k] = u}
FirstLine(u) == CHOOSE k \in LinesOf(u) : \A m \in LinesOf(u) : k <= m
Sole(es, u) == Cardinality({i \in DOMAIN es : es[i].uuid = u}) = 1
InLineOrder == \A i, j \in DOMAIN ops' :
    i < j /\ Sole(ops', ops'[i].uuid) /\ Sole(ops', ops'[j].uuid) /\ LinesOf(ops'[j].uuid) # {} =>
       LinesOf(ops'[i].uuid) # {} /\ FirstLine(ops'[i].uuid) < FirstLine(ops'[j].uuid)

\* Two operators the file names stay in the order the file names them, and an
\* operator it does not name is behind those it names, unless memory is short ("清单里没有的干员(新增)排到末尾").
OrderKept == [][Loads /\ order # <<"nofile">> /\ order' = Uuids(ops') => InLineOrder]_catVars

\* The element lists on the heap are those the entries own, one each: a config that
\* is refused leaves none, the table is freed, rebuilt and permuted entry by entry
\* without losing or doubling one, and has the room for them.
ElementsOwned ==
    /\ Len(ops) <= capacity /\ capacity <= MaxOperators
    /\ \A d \in Dirs : heap[d] = Cardinality(Owning(ops, d))

\* What the player, the transitions and the engine take for granted of an entry
\* that was accepted: files that are there, times that pass, elements that are
\* seen at some frame, animations that move.
ElementPlays(el) ==
    /\ el.start >= 0 /\ (el.end = 0 \/ el.end > el.start)
    /\ (el.anim # "none") => el.speed > 0
    /\ el.anim \in {"move", "sway"} => <<el.dx, el.dy>> # <<0, 0>>
    /\ (el.anim = "sprite") => el.frames >= 2
    /\ el.type \in {"rect", "text_rot90", "barcode"} => el.w > 0 /\ el.h > 0
Plays(e) ==
    /\ There(e.loop) /\ e.name # "" /\ e.icon # ""
    /\ e.intro.enabled => There(e.intro.file) /\ e.intro.duration > 0
    /\ \A t \in {e.transIn, e.transLoop} : (t.type # "none") => t.duration > 0
    /\ (e.opinfo.type # "none") => e.opinfo.appear > 0
    /\ e.opinfo.type \in {"custom", "image"} => Len(e.opinfo.elements) \in 1 .. MaxElements
    /\ \A i \in DOMAIN e.opinfo.elements : ElementPlays(e.opinfo.elements[i])

AcceptsPlayable == \A d \in Dirs, c \in Configs : \A got \in {TryLoad(d, c)} : got # <<>> => Plays(got[1])

\* the table of a device on which nothing could be loaded, the fallback neither
OnlyRemains == Len(ops) = 1 /\ ops[1].dir = spare /\ TryLoad(spare, CfgOf(spare)) = <<>>

\* What is accepted, whatever the config, can be played, and so can all that is in the
\* table, unless this is a fallback that was itself refused, and alone; and of the
\* lists that were allocated for configs, accepted or refused, there are those that the
\* entries own (operator_try_load_inner, prts_reload_assets).
CatalogueSound ==
    /\ AcceptsPlayable
    /\ OnlyRemains \/ \A i \in DOMAIN ops : Plays(ops[i])
    /\ ElementsOwned

\* What a load makes of the directories and the order file.
OrderHolds == EachOnce /\ OrderKept
==============================================================================
