------------------------------ MODULE Arknights ------------------------------
(* The pass of the arknights overlay (overlay/opinfo.c): a template drawn once,
   and a worker that adds to it frame by frame, straight into the buffer that is
   scanned. Its parts lie beside each other but for the corner, where logo and
   colour share the cells and are put together before they are written.

   Parts of the picture are drawn on what is there: nothing is ever cleared, so
   each must be drawn when it changes and a glyph only once.                   *)
EXTENDS Integers, Sequences

CONSTANTS
    Texts,            \* name, code, staff, aux
    StartOf(_),       \* part -> first frame      (OVERLAY_ANIMATION_OPINFO_*_START_FRAME)
    PerStep(_),       \* part -> frames of a step, or increment of a frame
    Length(_),        \* text -> code points
    CornerEnd,        \* OVERLAY_ANIMATION_OPINFO_COLOR_FADE_END_VALUE
    FullLogo,         \* 255
    SweepFrames,      \* frames of the bar and of a division line
    SweepWidth,       \* columns of the bar and of a line
    ArrowHeight,
    LastFrame         \* frames it is watched

ASSUME ArkAssumption ==
    /\ \A part \in Texts \cup {"barcode", "class", "colour", "logo"} : StartOf(part) \in Nat /\ PerStep(part) \in Nat \ {0}
    /\ \A text \in Texts : Length(text) \in Nat
    /\ \A line \in {"bar", "upper", "lower"} : StartOf(line) \in Nat
    /\ CornerEnd \in Nat \ {0, 1} /\ FullLogo \in Nat
    /\ SweepFrames \in Nat \ {0} /\ ArrowHeight \in Nat

VARIABLES
    paper,            \* what the template made of the texts of the operator
    at,               \* curr_frame
    typed,            \* text -> *_cpidx
    eink,             \* barcode_state and class_icon_state
    corner,           \* color_fade_value and logo_fade_value
    arrow,            \* arrow_y_value
    picture           \* what is on the screen

arkVars == <<paper, at, typed, eink, corner, arrow, picture>>

Panels == {"barcode", "class"}
Sweeps == {"bar", "upper", "lower"}
States == <<"firstBlack", "firstWhite", "secondBlack", "secondWhite", "idle", "content">>

------------------------------------------------------------------------------
(* The template *)

\* TOP_RIGHT_BAR: the words in the picture are painted over; bold up to the space, what follows only if there is room
BarText(words, room) ==
    CASE words = <<>> -> <<"asset">>
      [] Len(words) = 1 -> <<"asset", "black", "bold">>
      [] OTHER -> <<"asset", "black", "bold">> \o (IF room THEN <<"regular">> ELSE <<>>)
Rhodes(text) == IF text THEN "text" ELSE "asset"

Template(words, room, text) ==
    [topLeft |-> "asset", bottomLeft |-> "asset", topRight |-> BarText(words, room), rhodes |-> Rhodes(text)]

Papers == {Template(words, room, text) : words \in {<<>>, <<"w">>, <<"w", "w">>}, room \in BOOLEAN, text \in BOOLEAN}

ShowArknights(papers) ==
    /\ paper \in papers
    /\ at = 0
    /\ typed = [t \in Texts |-> 0]
    /\ eink = [p \in Panels |-> 1]
    /\ corner = [colour |-> 0, logo |-> 0]
    /\ arrow = 0
    /\ picture = [glyphs |-> [t \in Texts |-> <<>>], panel |-> [p \in Panels |-> "nothing"],
                  corner |-> corner, sweep |-> [s \in Sweeps |-> 0], arrow |-> 0]

------------------------------------------------------------------------------
(* arknights_overlay_worker: first the state, then what changed is drawn *)

Due(part) == at >= StartOf(part) /\ at % PerStep(part) = 0
TypesOn(t) == Due(t) /\ typed[t] # Length(t)
Flashes(p) == Due(p) /\ States[eink[p]] # "content"
Least(a, b) == IF a < b THEN a ELSE b
Ramps(part, value, full) == at >= StartOf(part) /\ value < full

\* the columns of a bar or a line that have been swept in frame f of it
Swept(f) == (SweepWidth * (3 * f * f * SweepFrames - 2 * f * f * f)) \div (SweepFrames * SweepFrames * SweepFrames)
Sweeping(s) == at - StartOf(s) \in 0 .. SweepFrames - 1

PanelDrawnIdle(state, was) ==     \* mutant: the idle state draws the content
    CASE state \in {"firstBlack", "secondBlack"} -> "black"
      [] state \in {"firstWhite", "secondWhite"} -> "white"
      [] OTHER -> "content"
PanelDrawn(state, was) ==
    CASE state \in {"firstBlack", "secondBlack"} -> "black"
      [] state \in {"firstWhite", "secondWhite"} -> "white"
      [] state = "idle" -> was
      [] OTHER -> "content"

\* draw_color_fade_and_logo: nothing for a radius under 2
CornerDrawn(to) == IF to.colour < 2 THEN picture.corner ELSE to

\* the arrows, drawn in every frame, climb and start over
ArrowNext == IF arrow - 1 <= 0 THEN ArrowHeight ELSE arrow - 1

ArkFrame ==
    LET types == {t \in Texts : TypesOn(t)}
        flash == {p \in Panels : Flashes(p)}
        grows == Ramps("colour", corner.colour, CornerEnd)
        fades == Ramps("logo", corner.logo, FullLogo)
    IN /\ at < LastFrame
       /\ at' = at + 1
       /\ typed' = [t \in Texts |-> IF t \in types THEN typed[t] + 1 ELSE typed[t]]
       /\ eink' = [p \in Panels |-> IF p \in flash THEN eink[p] + 1 ELSE eink[p]]
       /\ corner' = [colour |-> IF grows THEN Least(corner.colour + PerStep("colour"), CornerEnd) ELSE corner.colour,
                     logo |-> IF fades THEN Least(corner.logo + PerStep("logo"), FullLogo) ELSE corner.logo]
       /\ arrow' = ArrowNext
       /\ picture' =
            [glyphs |-> [t \in Texts |-> IF t \in types THEN Append(picture.glyphs[t], typed'[t]) ELSE picture.glyphs[t]],
             panel |-> [p \in Panels |-> IF p \in flash THEN PanelDrawn(States[eink'[p]], picture.panel[p]) ELSE picture.panel[p]],
             corner |-> IF grows \/ fades THEN CornerDrawn(corner') ELSE picture.corner,
             sweep |-> [s \in Sweeps |-> IF Sweeping(s) THEN Swept(at - StartOf(s)) ELSE picture.sweep[s]],
             arrow |-> arrow]
       /\ UNCHANGED paper

ArkSpec == ShowArknights(Papers) /\ [][ArkFrame]_arkVars

------------------------------------------------------------------------------
Looks(state) == CASE state = "firstBlack" -> "nothing"     \* it is left before it is ever drawn
                  [] state = "secondBlack" -> "black"
                  [] state = "content" -> "content"
                  [] OTHER -> "white"
Settled(part, steps) == at > StartOf(part) + steps * PerStep(part)

\* What is only ever added to adds up: the glyphs typed so far, each once and in
\* order; panels as their state wants them; the logo never on another triangle
\* than the one it was blended with; and when the last animation is over the pass
\* is whole, but for the last column of the swept lines, which no frame draws.
PassIsWhole ==
    /\ \A t \in Texts :
          /\ picture.glyphs[t] = [k \in 1 .. typed[t] |-> k]
          /\ Settled(t, Length(t)) => typed[t] = Length(t)
    /\ \A p \in Panels :
          /\ picture.panel[p] = Looks(States[eink[p]])
          /\ Settled(p, 5) => picture.panel[p] = "content"
    /\ corner.colour >= 2 => picture.corner = corner
    /\ at > StartOf("logo") + FullLogo /\ at > StartOf("colour") + CornerEnd =>
          picture.corner = [colour |-> CornerEnd, logo |-> FullLogo]
    /\ \A s \in Sweeps : at >= StartOf(s) + SweepFrames => picture.sweep[s] = Swept(SweepFrames - 1)
    /\ picture.arrow \in 0 .. ArrowHeight
==============================================================================
