------------------------------- MODULE MCAssets -------------------------------
(* The assets of the operators, in one run: the configs and the table built of
   them, the screen that accepted lists of elements make, the pass of the
   arknights overlay, the transitions between operators, the pictures and the
   palette.                                                                    *)
EXTENDS Catalogue, Opinfo, Arknights, Transitions, Pictures, TLC

VARIABLES layer, cast

------------------------------------------------------------------------------
(* Configs *)

NoTr == [is |-> "absent", type |-> "none", options |-> FALSE, duration |-> 0, color |-> "none", image |-> ""]
El(type, anim) == [PlainImage EXCEPT !.type = type, !.anim = anim, !.image = "here", !.text = "t", !.w = 2, !.h = 2]
NoOv == [is |-> "absent", type |-> "none", options |-> FALSE, appear |-> 0, duration |-> 0, name |-> "",
         image |-> "", elements |-> <<>>]
Custom(list) == [NoOv EXCEPT !.is = "object", !.type = "custom", !.options = TRUE, !.appear = 3, !.elements = list]
Plain == [is |-> "object", versioned |-> TRUE, version |-> 1, name |-> "n", uuid |-> "u1", icon |-> "here", screen |-> "360x640",
          loop |-> "here", intro |-> [is |-> "absent", enabled |-> FALSE, duration |-> 0, file |-> ""],
          transIn |-> NoTr, transLoop |-> NoTr, overlay |-> NoOv]

MCFiles == {"here", "logo"}
MCCfgOf(d) ==
    CASE d = "a" -> [Plain EXCEPT !.overlay = Custom(<<El("text", "move"), El("image", "sprite")>>)]
      [] d = "b" -> [Plain EXCEPT !.uuid = "u2"]
      [] d = "broken" -> [Plain EXCEPT !.uuid = "u3", !.overlay = Custom(<<El("text", "none"), El("blob", "none")>>)]
      [] d = "twin" -> [Plain EXCEPT !.overlay = [NoOv EXCEPT !.is = "object", !.type = "image", !.options = TRUE, !.appear = 1, !.duration = 2]]
      [] d = "c" -> [Plain EXCEPT !.uuid = "u3", !.overlay = Custom(<<El("rect", "none")>>)]
      [] d = "unfit" -> [Plain EXCEPT !.uuid = "u0", !.loop = "gone"]
      [] OTHER -> [Plain EXCEPT !.uuid = "u0"]
MCFlash == <<"a", "b", "broken">>
MCCard == <<"twin", "c">>

Elems == {[El(t, a) EXCEPT !.start = f[1], !.end = f[2], !.dx = f[3], !.frames = f[4], !.w = f[5], !.text = f[6]] :
          t \in ElementTypes \cup {"blob"}, a \in (DOMAIN DefaultSpeed) \cup {"spin"},
          f \in {<<0, 0, 0, 0, 2, "t">>, <<-1, 2, 1, 2, 0, "t">>, <<3, 3, 0, 1, 2, "">>, <<3, 2, -1, 3, 1, "">>}}
Trs == {[is |-> i, type |-> t, options |-> o, duration |-> d, color |-> "hex", image |-> f] :
        i \in {"other", "object"}, t \in {"none", "fade", "flip"}, o \in BOOLEAN, d \in {-1, 0, 5}, f \in {"gone", "here"}}
Ovs == {[NoOv EXCEPT !.is = "object", !.type = t, !.options = o, !.appear = a, !.duration = d, !.image = f, !.elements = e] :
        t \in {"absent", "none", "arknights", "custom", "image", "blob"}, o \in BOOLEAN, a \in {0, 3}, d \in {0, 4},
        f \in {"", "gone", "logo"}, e \in {<<>>, <<El("text", "none"), El("barcode", "eink")>>, <<El("text", "none"), El("blob", "none")>>,
              [i \in 1 .. 4 |-> El("rect", "fade")]}}
Intros == {[is |-> i, enabled |-> e, duration |-> d, file |-> f] : i \in {"other", "object"}, e \in BOOLEAN, d \in {0, 2}, f \in {"", "gone", "here"}}
MCTrials ==
    {[Plain EXCEPT !.overlay = Custom(<<e>>)] : e \in Elems} \cup {[Plain EXCEPT !.transIn = t] : t \in Trs}
    \cup {[Plain EXCEPT !.transLoop = t, !.name = ""] : t \in Trs} \cup {[Plain EXCEPT !.overlay = o] : o \in Ovs}
    \cup {[Plain EXCEPT !.intro = v] : v \in Intros}
    \cup {[Plain EXCEPT !.is = i, !.versioned = n, !.version = v, !.uuid = u, !.loop = l, !.icon = c] :
          i \in {"object", "absent"}, n \in BOOLEAN, v \in {0, 2, 3}, u \in {"", "notauuid", "u1"},
          l \in {"", "gone", "here"}, c \in {"", "gone", "here"}}

MCConfigs == MCTrials \cup {MCCfgOf(d) : d \in Dirs}

------------------------------------------------------------------------------
(* Lists of elements *)

MCChars(t) == CASE t = "t" -> <<"c", "newline", "c", "space", "c">> [] t = "ab" -> <<"c", "c">> [] OTHER -> <<>>
MCImageSize(f) == CASE f = "here" -> [w |-> 2, h |-> 2] [] f = "logo" -> [w |-> 3, h |-> 1] [] OTHER -> [w |-> 0, h |-> 0]

At(type, anim, x, y, speed) == [El(type, anim) EXCEPT !.x = x, !.y = y, !.speed = speed]
Pool == {
    At("text", "typewriter", 0, 1, 2), [At("text", "typewriter", 2, 1, 1) EXCEPT !.end = 9],
    [At("text", "fade", 1, 1, 100) EXCEPT !.start = 2], [At("text", "scramble", 3, 2, 1) EXCEPT !.w = 0, !.h = 0, !.start = 1],
    [At("text", "move", 1, 2, 3) EXCEPT !.dx = 2, !.dy = -1, !.text = "ab"],
    [At("text_rot90", "none", 2, 0, 0) EXCEPT !.start = 3, !.h = 3], [At("text_rot90", "sway", 2, 1, 4) EXCEPT !.dy = 1, !.end = 7],
    At("image", "eink", 1, 1, 1), At("image", "fade", 2, 1, 90), [At("image", "wipe", 3, 0, 4) EXCEPT !.dir = "rtl"],
    [At("image", "scroll", 0, 1, 1) EXCEPT !.start = 1], [At("image", "sprite", 2, 2, 2) EXCEPT !.image = "logo", !.frames = 3],
    [At("image", "move", 0, 2, 2) EXCEPT !.dx = -3, !.anchor = "tr"],
    [At("rect", "wipe", 1, 0, 3) EXCEPT !.dir = "btt", !.w = 3, !.h = 3, !.border = 1, !.start = 2],
    [At("rect", "blink", 1, 1, 2) EXCEPT !.end = 8], [At("barcode", "none", 0, 1, 0) EXCEPT !.w = 3, !.end = 6],
    [At("corner_fade", "grow", 0, 0, 1) EXCEPT !.w = 4, !.start = 1]}
Triples == {<<At("rect", "fade", 0, 0, 128), p, q>> :
    p \in {[At("rect", "none", 1, 1, 0) EXCEPT !.w = 1, !.h = 1, !.start = 2], [At("image", "none", 0, 0, 0) EXCEPT !.anchor = "br", !.end = 5]},
    q \in {[At("image", "sway", 3, 1, 4) EXCEPT !.dx = -1], [At("rect", "move", 4, 3, 2) EXCEPT !.dx = -2, !.dy = -2], At("text", "typewriter", 2, 3, 1)}}
\* as the parser leaves them
MCLists == {[i \in DOMAIN l |-> Element(l[i])[1]] : l \in {<<a, b>> : a \in Pool, b \in Pool} \cup Triples}

NoEngine == els = <<>> /\ place = <<>> /\ st = <<>> /\ cells = <<>> /\ frame = 0 /\ phase = "off"
------------------------------------------------------------------------------

MCStartOf(part) ==
    CASE part = "name" -> 3 [] part = "code" -> 4 [] part = "staff" -> 4 [] part = "aux" -> 10 [] part = "barcode" -> 3
      [] part = "class" -> 5 [] part = "logo" -> 6 [] part = "colour" -> 2 [] part = "bar" -> 10 [] part = "upper" -> 8 [] OTHER -> 9
MCPerStep(part) == IF part \in {"barcode", "class"} THEN 4 ELSE IF part = "code" THEN 2 ELSE 3
MCLength(text) == CASE text = "name" -> 3 [] text = "aux" -> 0 [] OTHER -> 4
MCTexts == {"name", "code", "staff", "aux"}

Resting ==
    /\ kind = "none" /\ duration = 0 /\ image = FALSE /\ now = 0 /\ timers = {} /\ plane = [alpha |-> 0, x |-> 0]
    /\ cols = Clear /\ swipe = -1 /\ dropped = 0 /\ called = [middle |-> 0, end |-> 0, freed |-> 0]
OnePaper == {Template(<<"w">>, FALSE, FALSE)}
------------------------------------------------------------------------------
(* Pictures *)

Pixels(w, h, px) == [w |-> w, h |-> h, px |-> px]
Full(v) == <<255, v>>
MCContentOf(p, v) ==
    CASE p = "pic" /\ v = 1 -> Pixels(3, 2, <<Full(0), Full(3), Full(100), <<4, 9>>, Full(110), <<128, 60>>>>)
      [] p = "pic" /\ v # 1 -> Pixels(3, 2, <<Full(7), Full(200), Full(200), Full(7), <<240, 7>>, Full(1)>>)
      [] p = "logo" /\ v = 1 -> Pixels(2, 2, <<<<0, 1>>, <<7, 1>>, <<3, 3>>, <<0, 0>>>>)
      [] p = "logo" /\ v # 1 -> Pixels(2, 1, <<Full(50), <<200, 52>>>>)
      [] OTHER -> Pixels(1, 3, <<Full(50), <<200, 52>>, Full(5 * v)>>)
Picture(p, q, u, d) == [path |-> p, quota |-> q, up |-> u, down |-> d]
MCOwnerOf(x) ==
    CASE x = "ark" -> [type |-> "arknights", colours |-> <<Full(90)>>, images |-> <<Picture("pic", 2, 1, 1), Picture("logo", 2, 2, 1)>>]
      [] x = "custom" -> [type |-> "custom", colours |-> <<Full(255), Full(40), Full(40), Full(90)>>, images |-> <<Picture("pic", 3, 1, 1), Picture("tiny", 3, 1, 2)>>]
      [] x = "image" -> [type |-> "image", colours |-> <<>>, images |-> <<Picture("pic", 8, 1, 1)>>]
      [] x = "tr" -> [type |-> "transition", colours |-> <<Full(0)>>, images |-> <<Picture("logo", 2, 2, 1)>>]
MCBlended == {<<255, 93>>}
MCRamps(t) == CASE t = "arknights" -> 4 [] t = "custom" -> 2 [] OTHER -> 0
MCBaked == <<<<0,0>>, Full(0), Full(255)>>
\* on a medium that can be written, and on one that cannot
NoCast == <<{}, FALSE>>
MCCasts == {<<{"ark", "tr"}, TRUE>>, <<{"image"}, TRUE>>, <<{"ark", "image"}, FALSE>>, <<{"custom", "image"}, FALSE>>, <<{"tr", "image"}, FALSE>>}
------------------------------------------------------------------------------

Init ==
    /\ CatInit /\ PicInit
    /\ \/ layer = "table" /\ cast = NoCast /\ NoEngine /\ ShowArknights(OnePaper) /\ Resting
       \/ layer = "engine" /\ spare = "fallback" /\ cast = NoCast /\ ShowElements(MCLists) /\ ShowArknights(OnePaper) /\ Resting
       \/ layer = "arknights" /\ spare = "fallback" /\ cast = NoCast /\ NoEngine /\ ShowArknights(Papers) /\ Resting
       \/ layer = "transition" /\ spare = "fallback" /\ cast = NoCast /\ NoEngine /\ ShowArknights(OnePaper) /\ TrInit
       \/ layer = "pictures" /\ spare = "fallback" /\ cast \in MCCasts /\ NoEngine /\ ShowArknights(OnePaper) /\ Resting

\* a bound: a device whose fallback is refused is tried without a card
BareWithoutCard == (spare = "unfit") => card' = <<>>

Next ==
    \/ layer = "table" /\ CatNext /\ BareWithoutCard /\ UNCHANGED <<layer, cast, opinfoVars, arkVars, trVars, picVars>>
    \/ layer = "engine" /\ EngineNext /\ UNCHANGED <<layer, cast, catVars, arkVars, trVars, picVars>>
    \/ layer = "arknights" /\ ArkFrame /\ UNCHANGED <<layer, cast, catVars, opinfoVars, trVars, picVars>>
    \/ layer = "transition" /\ TrNext /\ UNCHANGED <<layer, cast, catVars, opinfoVars, arkVars, picVars>>
    \/ layer = "pictures" /\ PicNext(cast[1], cast[2]) /\ UNCHANGED <<layer, cast, catVars, opinfoVars, arkVars, trVars>>

vars == <<layer, cast, catVars, opinfoVars, arkVars, trVars, picVars>>
Spec ==
    /\ Init /\ [][Next]_vars
    /\ WF_vars(layer = "engine" /\ Frame /\ UNCHANGED <<layer, cast, catVars, arkVars, trVars, picVars>>)
    /\ WF_vars(layer = "transition" /\ TrNext /\ UNCHANGED <<layer, cast, catVars, opinfoVars, arkVars, picVars>>)

\* What starts on the overlay comes to its end by itself: a list that has no loop, and
\* every transition.
EffectsEnd == PlaysToEnd /\ TransitionEnds
==============================================================================
