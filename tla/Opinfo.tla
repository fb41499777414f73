------------------------------- MODULE Opinfo --------------------------------
(* The element engine of the overlay (overlay/opinfo.c): what a list of elements
   that the parser accepted shows, frame by frame, drawn into a shadow buffer with
   the primitives of render/fbdraw.c and copied to the buffer the plane scans.

   A cell of the screen stands for a square of pixels; what it holds is the
   sequence of inks that were blended there since something opaque was written.
   A glyph is one cell wide and its ink reaches Ink rows over its line. The
   cubic Bezier curve is the smoothstep polynomial, the sine a table.          *)
EXTENDS Integers, Sequences, FiniteSets

CONSTANTS
    Width, Height,    \* OVERLAY_WIDTH and OVERLAY_HEIGHT in cells
    Chars(_),         \* the characters of a text: "c", "space", "newline"
    ImageSize(_),     \* [w, h] of an image that was loaded; [w |-> 0, h |-> 0] otherwise
    Ink,              \* rows a glyph reaches over its line, S(3)
    Scale,            \* UI_SCALE
    Opaque,           \* 255
    MaxFrame          \* frames a list without an end is watched

ASSUME OpinfoAssumption ==
    /\ Width \in Nat /\ Height \in Nat /\ MaxFrame \in Nat
    /\ Ink \in Nat /\ Scale \in Nat \ {0} /\ Opaque \in Nat \ {0}

VARIABLES
    els,              \* the list: records as the parser leaves them
    place,            \* of d->st, what el_resolve and build_groups find: content, bbox, group
    st,               \* of d->st, what moves
    cells,            \* cell -> inks in the shadow buffer and in the one that is scanned
    frame,            \* d->curr_frame
    phase             \* "playing", "ended", "aborted"

opinfoVars == <<els, place, st, cells, frame, phase>>

S(n) == n * Scale
Cells == (0 .. Width - 1) \X (0 .. Height - 1)

------------------------------------------------------------------------------
(* Rectangles *)

Rect(x, y, w, h) == [x |-> x, y |-> y, w |-> w, h |-> h]
Higher(a, b) == IF a > b THEN a ELSE b
Lower(a, b) == IF a < b THEN a ELSE b
Shifted(r, dx, dy) == Rect(r.x + dx, r.y + dy, r.w, r.h)
In(c, r) == c[1] >= r.x /\ c[1] < r.x + r.w /\ c[2] >= r.y /\ c[2] < r.y + r.h
Empty(r) == r.w <= 0 \/ r.h <= 0

Intersect(a, b) ==
    /\ ~Empty(a) /\ ~Empty(b)
    /\ a.x < b.x + b.w /\ b.x < a.x + a.w /\ a.y < b.y + b.h /\ b.y < a.y + a.h

Spanned(x, y, right, bottom) == Rect(x, y, right - x, bottom - y)
Union(u, r) ==
    IF Empty(r) THEN u
    ELSE IF Empty(u) THEN r
    ELSE Spanned(Lower(u.x, r.x), Lower(u.y, r.y), Higher(u.x + u.w, r.x + r.w), Higher(u.y + u.h, r.y + r.h))

------------------------------------------------------------------------------
(* Where an element is (el_resolve) *)

Lines(t) == 1 + Cardinality({k \in DOMAIN Chars(t) : Chars(t)[k] = "newline"})
FontHeight == Scale
RightAnchored(e) == e.anchor \in {"tr", "br"}
BottomAnchored(e) == e.anchor \in {"bl", "br"}

Size(e) ==
    CASE e.type = "image" ->
            [w |-> IF e.anim = "sprite" /\ e.frames > 1 THEN ImageSize(e.image).w \div e.frames ELSE ImageSize(e.image).w,
             h |-> ImageSize(e.image).h]
      [] e.type = "text" -> [w |-> IF e.w > 0 THEN S(e.w) ELSE 0,
                             h |-> IF e.h > 0 THEN S(e.h) ELSE Lines(e.text) * FontHeight]
      [] e.type = "corner_fade" -> [w |-> S(e.w - 1), h |-> S(e.w - 1)]
      [] OTHER -> [w |-> S(e.w), h |-> S(e.h)]

\* the corner fade fills the lower right; a text without a width goes on to the edge
Placed(e, size) ==
    LET corner == e.type = "corner_fade"
        x == IF corner THEN Width - size.w ELSE IF RightAnchored(e) THEN Width - S(e.x) - size.w ELSE S(e.x)
        y == IF corner THEN Height - size.h ELSE IF BottomAnchored(e) THEN Height - S(e.y) - size.h ELSE S(e.y)
    IN Rect(x, y, IF e.type = "text" /\ e.w <= 0 THEN Width - x ELSE size.w, size.h)
Content(e) == Placed(e, Size(e))

BBoxAtRest(e) == Content(e)     \* mutant: the way to the place of rest is left out
\* what an element may ever draw on: the way it moves, and ink over the first line
BBox(e) ==
    LET Way(c) == CASE e.anim = "move" -> Union(c, Shifted(c, S(e.dx), S(e.dy)))
                    [] e.anim = "sway" -> Union(Union(c, Shifted(c, S(e.dx), S(e.dy))), Shifted(c, -S(e.dx), -S(e.dy)))
                    [] OTHER -> c
        Inked(way) == IF e.type = "text" THEN Rect(way.x, way.y - Ink, way.w, way.h + Ink) ELSE way
    IN Inked(Way(Content(e)))

\* build_groups: the representative is the lowest index that overlapping boxes lead to
Group(boxes, i) ==
    LET reach[k \in 0 .. Len(boxes)] ==
            IF k = 0 THEN {i}
            ELSE reach[k - 1] \cup {j \in DOMAIN boxes : \E m \in reach[k - 1] : Intersect(boxes[m], boxes[j])}
    IN CHOOSE g \in reach[Len(boxes)] : \A j \in reach[Len(boxes)] : g <= j

Resolve(e) == [cp |-> 0, eink |-> 0, fade |-> 0, wipe |-> 0, grow |-> 0, scroll |-> 0, sprite |-> 0, tick |-> 0,
               dx |-> IF e.anim = "move" THEN S(e.dx) ELSE 0, dy |-> IF e.anim = "move" THEN S(e.dy) ELSE 0,
               blink |-> FALSE, visible |-> FALSE, dirty |-> FALSE, done |-> FALSE]
Loops(e) == e.anim \in {"scroll", "blink", "sprite", "sway"} /\ e.end = 0

------------------------------------------------------------------------------
(* A frame (el_advance) *)

EinkContent == 5      \* ANIMATION_EINK_CONTENT
Ease(f, total, target) == (target * (3 * f * f * total - 2 * f * f * f)) \div (total * total * total)
Sine(deg) == CASE deg = 90 -> 100 [] deg = 270 -> -100 [] deg \in {60, 120} -> 87 [] deg \in {240, 300} -> -87 [] OTHER -> 0
Towards0(n, d) == IF n >= 0 THEN n \div d ELSE -((-n) \div d)

\* the frame a text moves on is counted from the start of the list
Beat(e) == frame % e.speed = 0

Typed(e, s) ==
    IF s.done THEN s
    ELSE IF s.cp >= Len(Chars(e.text)) THEN [s EXCEPT !.done = TRUE]
    ELSE IF Beat(e) THEN [s EXCEPT !.cp = @ + 1, !.dirty = TRUE, !.done = s.cp + 1 >= Len(Chars(e.text))]
    ELSE s
Unscrambled(e, s) ==
    LET cp == IF Beat(e) /\ s.cp < Len(Chars(e.text)) THEN s.cp + 1 ELSE s.cp
    IN IF s.done THEN s ELSE [s EXCEPT !.cp = cp, !.dirty = TRUE, !.done = cp >= Len(Chars(e.text))]
Flashed(e, s) ==
    IF ~s.done /\ Beat(e) THEN [s EXCEPT !.eink = @ + 1, !.dirty = TRUE, !.done = s.eink + 1 >= EinkContent] ELSE s
FadedOver(e, s) ==     \* mutant: the last step goes beyond the opaque
    IF s.done THEN s ELSE [s EXCEPT !.fade = @ + e.speed, !.dirty = TRUE, !.done = s.fade + e.speed >= Opaque]
Faded(e, s) ==
    IF s.done THEN s ELSE [s EXCEPT !.fade = Lower(@ + e.speed, Opaque), !.dirty = TRUE, !.done = s.fade + e.speed >= Opaque]
Grown(e, s) ==
    IF s.done THEN s ELSE [s EXCEPT !.grow = Lower(@ + e.speed, e.w), !.dirty = TRUE, !.done = s.grow + e.speed >= e.w]
WipeTarget(e) == IF e.dir \in {"ttb", "btt"} THEN Content(e).h ELSE Content(e).w
Wiped(e, s) ==
    LET f == frame - e.start
        target == WipeTarget(e)
    IN IF s.done THEN s
       ELSE [s EXCEPT !.wipe = IF f >= e.speed THEN target ELSE Ease(f, e.speed, target), !.dirty = TRUE, !.done = f >= e.speed]
Moved(e, s) ==
    LET f == frame - e.start
        left(d) == IF f >= e.speed THEN 0 ELSE S(d) - Ease(f, e.speed, S(d))
    IN IF s.done THEN s ELSE [s EXCEPT !.dx = left(e.dx), !.dy = left(e.dy), !.dirty = TRUE, !.done = f >= e.speed]
Blinked(e, s) == IF (frame - e.start) % e.speed = 0 THEN [s EXCEPT !.blink = ~@, !.dirty = TRUE] ELSE s
Scrolled(e, s) ==
    LET next == s.scroll - S(e.speed)
    IN [s EXCEPT !.scroll = IF next <= 0 THEN ImageSize(e.image).h ELSE next, !.dirty = TRUE]
Stepped(e, s) ==
    IF s.tick + 1 < e.speed THEN [s EXCEPT !.tick = @ + 1]
    ELSE [s EXCEPT !.tick = 0, !.sprite = (@ + 1) % e.frames, !.dirty = TRUE]
Swayed(e, s) ==
    LET tick == IF s.tick + 1 >= e.speed THEN 0 ELSE s.tick + 1
        sine == Sine((tick * 360) \div e.speed)
        dx == Towards0(S(e.dx) * sine, 100)
        dy == Towards0(S(e.dy) * sine, 100)
    IN [s EXCEPT !.tick = tick, !.dx = dx, !.dy = dy, !.dirty = @ \/ dx # s.dx \/ dy # s.dy]

Animated(e, s) ==
    CASE e.anim = "none" -> IF s.done THEN s ELSE [s EXCEPT !.dirty = TRUE, !.done = TRUE]
      [] e.anim = "typewriter" -> Typed(e, s)
      [] e.anim = "scramble" -> Unscrambled(e, s)
      [] e.anim = "eink" -> Flashed(e, s)
      [] e.anim = "fade" -> Faded(e, s)
      [] e.anim = "grow" -> Grown(e, s)
      [] e.anim = "wipe" -> Wiped(e, s)
      [] e.anim = "move" -> Moved(e, s)
      [] e.anim = "blink" -> Blinked(e, s)
      [] e.anim = "scroll" -> Scrolled(e, s)
      [] e.anim = "sprite" -> Stepped(e, s)
      [] e.anim = "sway" -> Swayed(e, s)

Appeared(s) == [s EXCEPT !.visible = @ \/ s.dirty]
AdvanceStays(e, s) ==     \* mutant: an element that leaves before it was done does not count as played
    IF e.end > 0 /\ frame >= e.end THEN (IF s.visible THEN [s EXCEPT !.visible = FALSE, !.dirty = TRUE] ELSE s)
    ELSE IF frame < e.start THEN s
    ELSE Appeared(Animated(e, s))
Advance(e, s) ==
    IF e.end > 0 /\ frame >= e.end
    THEN (IF s.visible \/ ~s.done THEN [s EXCEPT !.visible = FALSE, !.dirty = TRUE, !.done = TRUE] ELSE s)
    ELSE IF frame < e.start THEN s
    ELSE Appeared(Animated(e, s))

------------------------------------------------------------------------------
(* Drawing (el_draw): the inks an element puts on a cell, and whether they hide what is below *)

\* the glyphs of a text, in the order of fbdraw_text: column, row, character
Glyphs(t) ==
    LET cs == Chars(t)
        set[k \in 0 .. Len(cs)] ==
            IF k = 0 THEN [col |-> 0, row |-> 0, out |-> <<>>]
            ELSE LET p == set[k - 1] IN
                 IF cs[k] = "newline" THEN [p EXCEPT !.col = 0, !.row = @ + 1]
                 ELSE [p EXCEPT !.col = @ + 1, !.out = Append(@, <<p.col, p.row, cs[k]>>)]
    IN set[Len(cs)].out

\* fbdraw_text_range: the glyphs of a span (counted from 1) that reach the cell, clipped right and
\* below, not above; those behind the settled ones are random (scramble_build_text)
TextInk(i, r, t, span, c, settled, shade) ==
    LET g == Glyphs(t)
        Reaches(k) ==
            /\ k \in span /\ g[k][3] = "c"
            /\ LET top == r.y + g[k][2] * FontHeight IN
               c[2] \in top - Ink .. top + FontHeight - 1 /\ c[2] < r.y + r.h
            /\ LET left == r.x + g[k][1] * Scale IN c[1] \in left .. Lower(left + Scale, r.x + r.w) - 1
        reached == SelectSeq([k \in DOMAIN g |-> k], Reaches)
    IN [m \in DOMAIN reached |-> <<i, IF reached[m] > settled THEN "random" ELSE "glyph", reached[m], c[2] - r.y, shade>>]

\* fbdraw_text_rot90: lines run down, the first one at the right
Turned90(r, c) == <<c[2] - r.y, r.w - 1 - (c[1] - r.x)>>
Rot90Ink(i, r, t, c) ==
    IF ~In(c, r) THEN <<>>
    ELSE TextInk(i, Rect(0, 0, r.h, r.w), t, DOMAIN Glyphs(t), Turned90(r, c), Len(Glyphs(t)), Opaque)

\* fbdraw_barcode_rot90: bars beside the line of text, read from the bottom up
BarcodeInk(i, r, t, c) ==
    LET x == r.h - 1 - (c[2] - r.y)
        y == c[1] - r.x
        bars == r.w - FontHeight - Ink
        text == TextInk(i, Rect(0, bars + Ink, r.h, FontHeight), t, DOMAIN Glyphs(t), <<x, y>>, Len(Glyphs(t)), Opaque)
    IN IF ~In(c, r) \/ bars < 0 THEN <<>>
       ELSE IF y < bars THEN <<<<i, "bar", x, y>>>>
       ELSE <<<<i, "paper", 0, 0>>>> \o text

\* the part of r that a wipe has come over
WipeWindow(r, dir, v) ==
    CASE dir = "rtl" -> Rect(r.x + r.w - v, r.y, v, r.h)
      [] dir = "ttb" -> Rect(r.x, r.y, r.w, v)
      [] dir = "btt" -> Rect(r.x, r.y + r.h - v, r.w, v)
      [] OTHER -> Rect(r.x, r.y, v, r.h)

AlphaInk(i, alpha, pixel) == <<<<i, "image", alpha, pixel>>>>     \* fbdraw_alpha_opacity_rect
ImageInk(i, e, s, r, c) ==
    LET full == ImageSize(e.image)
        off  == Lower(Higher(s.scroll, 0), full.h)
        x == c[1] - r.x
        y == c[2] - r.y
    IN IF ~In(c, r) \/ (e.anim = "wipe" /\ ~In(c, WipeWindow(r, e.dir, s.wipe))) \/ (e.anim = "fade" /\ s.fade = 0) THEN <<>>
       ELSE CASE e.anim = "scroll" -> <<<<i, "image", x, IF y < full.h - off THEN y + off ELSE y - (full.h - off)>>>>
         [] e.anim = "sprite" -> <<<<i, "image", s.sprite * r.w + x, y>>>>
         [] e.anim = "fade" -> AlphaInk(i, s.fade, y * full.w + x)
         [] OTHER -> <<<<i, "image", x, y>>>>

RectInk(i, e, s, r, c) ==
    LET bw == S(e.border)
        inner == Rect(r.x + bw, r.y + bw, r.w - 2 * bw, r.h - 2 * bw)
        fade == IF e.anim = "fade" THEN s.fade ELSE Opaque
    IN IF \/ ~In(c, r) \/ fade = 0
          \/ e.anim = "wipe" /\ ~In(c, WipeWindow(r, e.dir, s.wipe))
          \/ e.border > 0 /\ In(c, inner)
       THEN <<>> ELSE <<<<i, "colour", fade, 0>>>>

\* el_draw_corner_fade: a triangle at the lower right of the screen
CornerInk(i, s, c) ==
    LET right == (Width - 1 - c[1]) \div Scale
        up    == (Height - 1 - c[2]) \div Scale
    IN IF s.grow >= 2 /\ right + up <= s.grow - 2 THEN <<<<i, "corner", s.grow, right + up>>>> ELSE <<>>

Flashing(e, s) == e.anim = "eink" /\ s.eink # EinkContent
InkOf(i, c) ==
    LET e == els[i]
        s == st'[i]
        r == Shifted(place[i].content, s.dx, s.dy)
    IN IF e.anim = "blink" /\ ~s.blink THEN <<>>
       ELSE IF Flashing(e, s) THEN (IF In(c, r) THEN <<<<i, IF s.eink \in {0, 2} THEN "black" ELSE "white", 0, 0>>>> ELSE <<>>)
       ELSE CASE e.type = "text" ->
               TextInk(i, r, e.text, IF e.anim = "typewriter" THEN 1 .. s.cp ELSE DOMAIN Glyphs(e.text), c,
                       IF e.anim = "scramble" /\ ~s.done THEN s.cp ELSE Len(Glyphs(e.text)),
                       IF e.anim = "fade" THEN s.fade ELSE Opaque)
         [] e.type = "text_rot90" -> Rot90Ink(i, r, e.text, c)
         [] e.type = "image" -> ImageInk(i, e, s, r, c)
         [] e.type = "rect" -> RectInk(i, e, s, r, c)
         [] e.type = "barcode" -> BarcodeInk(i, r, e.text, c)
         [] e.type = "corner_fade" -> CornerInk(i, s, c)
Hides(i) ==
    LET e == els[i] IN
    \/ Flashing(e, st'[i])
    \/ e.type \in {"image", "rect"} /\ (e.anim = "fade" => e.type = "rect" /\ st'[i].fade = Opaque)
    \/ e.type \in {"barcode", "corner_fade"}

\* what members, drawn in z-order over the inks below, leave of a cell
Drawn(below, members, c) ==
    LET Over(inks, ink, hides) == IF ink = <<>> THEN inks ELSE IF hides THEN ink ELSE inks \o ink
        over[i \in 0 .. Len(els)] ==
            IF i = 0 THEN below
            ELSE IF i \notin members \/ ~st'[i].visible THEN over[i - 1]
            ELSE Over(over[i - 1], InkOf(i, c), Hides(i))
    IN over[Len(els)]

------------------------------------------------------------------------------
(* The frames (engine_compose, engine_worker) *)

\* fbdraw_fill_rect of the members' boxes, fbdraw_copy_rect of one box
Cleared(members, c, inks) == IF \E i \in members : In(c, place[i].bbox) THEN <<>> ELSE inks
Copied(box, c, inks, cell) == [shadow |-> inks, vram |-> IF In(c, box) THEN inks ELSE cell.vram]

\* a cell after the groups were composed one after the other; turned: the elements after el_advance
Composed(turned, c) ==
    LET members(g) == {i \in DOMAIN els : place[i].group = g}
        union(g) == LET u[i \in 0 .. Len(els)] ==
                            IF i = 0 THEN Rect(0, 0, 0, 0)
                            ELSE IF place[i].group = g THEN Union(u[i - 1], place[i].bbox) ELSE u[i - 1]
                    IN u[Len(els)]
        \* a typewriter on its own: the new glyph is enough
        Typing(g) == members(g) = {g} /\ els[g].anim = "typewriter" /\ turned[g].visible
        Typed1(g, cell) ==
            Copied(place[g].bbox, c,
                   cell.shadow \o TextInk(g, place[g].content, els[g].text, {turned[g].cp}, c, Len(Glyphs(els[g].text)), Opaque),
                   cell)
        Redrawn(g, cell) ==
            Copied(union(g), c, Drawn(Cleared(members(g), c, cell.shadow), members(g), c), cell)
        run[g \in 0 .. Len(els)] ==
            IF g = 0 THEN cells[c]
            ELSE IF \A i \in members(g) : ~turned[i].dirty THEN run[g - 1]
            ELSE IF Typing(g) THEN Typed1(g, run[g - 1])
            ELSE Redrawn(g, run[g - 1])
    IN run[Len(els)]

Turned == [i \in DOMAIN els |-> Advance(els[i], st[i])]

\* overlay_opinfo_show_elements composes frame 0 itself and drops the verdict; the others are the worker's
Endless == \E i \in DOMAIN els : Loops(els[i])
Frame == \E turned \in {Turned} :
    /\ phase = "playing"
    /\ frame < MaxFrame
    /\ st' = [i \in DOMAIN els |-> [turned[i] EXCEPT !.dirty = FALSE]]
    /\ cells' = [c \in Cells |-> Composed(turned, c)]
    /\ frame' = frame + 1
    /\ phase' = IF frame > 0 /\ ~Endless /\ \A i \in DOMAIN els : turned[i].done THEN "ended" ELSE "playing"
    /\ UNCHANGED <<els, place>>

\* request_abort is seen instead of a frame
Abort ==
    /\ phase = "playing" /\ frame > 0
    /\ phase' = "aborted"
    /\ UNCHANGED <<els, place, st, cells, frame>>

\* the worker gets its frames from a timer
ShowElements(lists) ==
    /\ els \in lists
    /\ st = [i \in DOMAIN els |-> Resolve(els[i])]
    /\ \E boxes \in {[i \in DOMAIN els |-> BBox(els[i])]} :
          place = [i \in DOMAIN els |-> [content |-> Content(els[i]), bbox |-> boxes[i], group |-> Group(boxes, i)]]
    /\ cells = [c \in Cells |-> [shadow |-> <<>>, vram |-> <<>>]]
    /\ frame = 0
    /\ phase = "playing"
EngineNext == Frame \/ Abort
EngineSpec(lists) == ShowElements(lists) /\ [][EngineNext]_opinfoVars

------------------------------------------------------------------------------
\* After every frame the buffer on screen is what drawing all that is visible,
\* from a blank buffer and in the order of the list, would give: no trail of what
\* moved or left, nothing of a neighbour wiped out, no glyph forgotten, though
\* only groups that changed are redrawn ("每个元素都能按当前动画状态从头重画").
ScreenIsReference == [][phase = "playing" /\ frame' # frame =>
    \A c \in Cells : \E inks \in {Drawn(<<>>, DOMAIN els, c)} : cells'[c] = [shadow |-> inks, vram |-> inks]]_opinfoVars

\* Elements that stay are there in full
Complete == \A i \in DOMAIN els :
    LET e == els[i]
        s == st[i]
    IN \/ e.end > 0
       \/ /\ s.visible = (e.anim = "typewriter" => Chars(e.text) # <<>>)
          /\ s.dx = 0 /\ s.dy = 0
          /\ e.anim \in {"typewriter", "scramble"} => s.cp = Len(Chars(e.text))
          /\ (e.anim = "eink") => s.eink = EinkContent
          /\ (e.anim = "fade") => s.fade = Opaque
          /\ (e.anim = "grow") => s.grow = e.w
          /\ (e.anim = "wipe") => s.wipe = WipeTarget(e)

\* When the worker stops by itself every element that stays is shown in full, and
\* no element was still in its loop (engine_compose's verdict): the last frame is
\* the one that is left on screen.
EndsComplete == phase = "ended" => ~Endless /\ Complete

\* A list without an endless loop stops the worker and its timer by itself.
PlaysToEnd == (phase = "playing" /\ ~Endless) ~> (phase # "playing")

\* "end_frame; // >0: 到该帧隐藏元素并视为播放完毕" (opinfo.h:78): from its end on,
\* an element is not seen.
LeavesAtEnd == phase = "ended" => \A i \in DOMAIN els : els[i].end > 0 => ~st[i].visible
==============================================================================
