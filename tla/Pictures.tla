------------------------------- MODULE Pictures -------------------------------
(* The pictures of an operator and the palette they are shown with
   (render/c8pal.c, utils/imgscale.c, the load_image functions of
   overlay/opinfo.c and overlay/transitions.c): a picture is read, scaled, cut
   down to a few colours and dithered, the result is kept in two files beside it,
   and the colours go into the pool of their owner. The overlay plane has one
   palette: who is shown next writes his pool into it, and what is drawn is
   looked up in tables that are filled as colours come.

   A colour is <<alpha, value>>: of red, green and blue one stands for all.    *)
EXTENDS Integers, Sequences, FiniteSets

CONSTANTS
    Paths,            \* of pictures
    Versions,         \* how often a picture is replaced: 1 .. n
    ContentOf(_, _),  \* path, version -> [w, h, px]
    Owners,           \* those that are shown with a palette of their own
    OwnerOf(_),       \* owner -> [type, colours, images: <<[path, quota, up, down], ...>>]
    Baked,            \* c8pal_baked: what the assets of the program need
    Entries,          \* 256: the last is never given away
    DynBase,          \* C8PAL_DYN_BASE
    RampLevels(_),    \* type -> levels of a ramp of alpha
    RampsMax,         \* C8PAL_COLOR_RAMPS_MAX
    MaxSamples,       \* QUANT_MAX_SAMPLES
    Blended,          \* colours that blending makes
    MaxDraws          \* lookups that are watched

VARIABLES
    media,            \* path -> version of the picture on the medium
    cache,            \* of .qN.c8pal and .qN.c8i: what can be read of them
    kept,             \* owner -> c8_pool, pixels of its pictures, media they were read from
    table,            \* s_shadow, and the palette of the plane after a commit
    lut,              \* s_lut_op and s_lut_tr: key -> entry, where filled
    inView,           \* whose palette is in place
    looked            \* the colours looked up since, and their entries

picVars == <<media, cache, kept, table, lut, inView, looked>>

Put(f, key, value) == [x \in DOMAIN f \cup {key} |-> IF x = key THEN value ELSE f[x]]
Colour == Int \X Int
Alpha(c) == c[1]
Value(c) == c[2]
Seen(c) == Alpha(c) >= 8
Nothing == <<0, 0>>
Square(n) == n * n
PalDist(c, d) == Square(Value(c) - Value(d)) + 4 * Square(Alpha(c) - Alpha(d))
Nearest(colours, d) ==
    CHOOSE i \in DOMAIN colours : \A j \in DOMAIN colours :
        PalDist(colours[i], d) < PalDist(colours[j], d) \/ (PalDist(colours[i], d) = PalDist(colours[j], d) /\ i <= j)

IsPicture(p) == p.w \in Nat \ {0} /\ p.h \in Nat \ {0} /\ p.px \in Seq(Colour) /\ Len(p.px) = p.w * p.h

\* The palette has room for the colours of the program and one that is never given
\* away, and a ramp of the theme fits beside them; the sizes of operators and of the
\* program are one or two, so that a picture is doubled, halved or neither.
ASSUME PicturesAssumption ==
    /\ Versions \subseteq Nat \ {0} /\ 1 \in Versions
    /\ \A p \in Paths, v \in Versions : IsPicture(ContentOf(p, v))
    /\ Entries \in Nat /\ DynBase \in Nat /\ DynBase + 1 < Entries
    /\ Baked \in Seq(Colour) /\ Len(Baked) <= DynBase /\ Blended \subseteq Colour
    /\ RampsMax \in Nat \ {0} /\ MaxSamples \in Nat \ {0}
    /\ RampLevels("arknights") <= 255 /\ RampLevels("arknights") < Entries - DynBase
    /\ "nobody" \notin Owners
    /\ \A o \in Owners : LET is == OwnerOf(o) IN
         /\ RampLevels(is.type) \in Nat
         /\ is.colours \in Seq(Colour)
         /\ is.images \in Seq([path : Paths, quota : Nat \ {0, 1}, up : {1, 2}, down : {1, 2}])
         /\ \A i \in DOMAIN is.images : is.images[i].up = 1 \/ is.images[i].down = 1
         /\ (is.type = "arknights") => Len(is.colours) = 1 /\ Alpha(is.colours[1]) = 255
    \* a picture lies in the directory of an operator, whose config has one size
    /\ \A o, p \in Owners : \A i \in DOMAIN OwnerOf(o).images, j \in DOMAIN OwnerOf(p).images :
         LET a == OwnerOf(o).images[i]
             b == OwnerOf(p).images[j]
         IN  a.path = b.path => a.up = b.up /\ a.down = b.down

------------------------------------------------------------------------------
(* Scaling: the nearest neighbour *)

Scale2(p, w, h, at(_, _)) == [w |-> w, h |-> h, px |-> [i \in 1 .. w * h |-> p.px[at((i - 1) % w, (i - 1) \div w) + 1]]]
Upscale(p, f) == IF f <= 1 THEN p ELSE Scale2(p, p.w * f, p.h * f, LAMBDA x, y : (y \div f) * p.w + x \div f)
\* what has no pixel left stays as it is
Downscale(p, f) ==
    IF f <= 1 \/ p.w \div f = 0 \/ p.h \div f = 0 THEN p
    ELSE Scale2(p, p.w \div f, p.h \div f, LAMBDA x, y : (y * f) * p.w + x * f)
Rescale(p, up, down) == Downscale(Upscale(p, up), down)

------------------------------------------------------------------------------
(* Quantisation: median cut, then Floyd-Steinberg *)

Samples(p) ==
    LET stride == (p.w * p.h) \div MaxSamples + 1
        taken[i \in 0 .. p.w * p.h] ==
            IF i = 0 THEN <<>>
            ELSE IF (i - 1) % stride = 0 /\ Seen(p.px[i]) THEN Append(taken[i - 1], p.px[i])
            ELSE taken[i - 1]
    IN taken[p.w * p.h]

Least3(S) == CHOOSE a \in S : \A b \in S : a <= b
Most3(S) == CHOOSE a \in S : \A b \in S : b <= a
Parts(box, channel) == {box[i][channel] : i \in DOMAIN box}
Spread(box, channel) == IF Len(box) < 2 THEN 0 ELSE Most3(Parts(box, channel)) - Least3(Parts(box, channel))
Score(box) == Most3({Spread(box, 2), 2 * Spread(box, 1)})

\* sample_cmp: the channel, then the whole pixel
Before(c, d, byAlpha) ==
    IF byAlpha /\ Alpha(c) # Alpha(d) THEN Alpha(c) < Alpha(d)
    ELSE Value(c) < Value(d) \/ (Value(c) = Value(d) /\ Alpha(c) < Alpha(d))
Inserted(s, c, byAlpha) ==
    LET n == Cardinality({i \in DOMAIN s : ~Before(c, s[i], byAlpha)})
    IN SubSeq(s, 1, n) \o <<c>> \o SubSeq(s, n + 1, Len(s))
Ordered(box, byAlpha) ==
    LET sorted[i \in 0 .. Len(box)] == IF i = 0 THEN <<>> ELSE Inserted(sorted[i - 1], box[i], byAlpha)
    IN sorted[Len(box)]

\* the first of the boxes with the largest spread is cut in two halves, the second half goes to the end
Halved(boxes, at, box) ==
    LET half == Len(box) \div 2 IN
    [i \in 1 .. Len(boxes) + 1 |->
        CASE i = at -> SubSeq(box, 1, half)
          [] i = Len(boxes) + 1 -> SubSeq(box, half + 1, Len(box))
          [] OTHER -> boxes[i]]
Cut(boxes) ==
    LET First(scores) == CHOOSE i \in DOMAIN scores : \A j \in DOMAIN scores :
                            scores[j] < scores[i] \/ (scores[j] = scores[i] /\ i <= j)
        At(pick) ==
            IF Score(boxes[pick]) = 0 THEN boxes
            ELSE Halved(boxes, pick, Ordered(boxes[pick], 2 * Spread(boxes[pick], 1) > Spread(boxes[pick], 2)))
    IN At(First([i \in DOMAIN boxes |-> Score(boxes[i])]))

Mean(box, channel) ==
    LET sum[i \in 0 .. Len(box)] == IF i = 0 THEN 0 ELSE sum[i - 1] + box[i][channel]
    IN (sum[Len(box)] + Len(box) \div 2) \div Len(box)

MedianCut(samples, n) ==
    LET cut[k \in 0 .. n - 1] == IF k = 0 THEN <<samples>> ELSE Cut(cut[k - 1])
        Means(boxes) == [i \in DOMAIN boxes |-> <<Mean(boxes[i], 1), Mean(boxes[i], 2)>>]
    IN IF samples = <<>> THEN <<>> ELSE Means(cut[n - 1])
Palette(p, n) == MedianCut(Samples(p), n)

Clamped(v) == IF v < 0 THEN 0 ELSE IF v > 255 THEN 255 ELSE v
DitherKey(c) == <<Alpha(c) \div 16, Value(c) \div 16>>
Per16(n) == IF n >= 0 THEN n \div 16 ELSE -((-n) \div 16)

\* what was found so far, the error handed on, and the colour of every key that was looked for
NoneFound == [idx |-> <<>>, err |-> <<>>, found |-> <<>>]
ErrorAt(s, i) == IF i \in DOMAIN s.err THEN s.err[i] ELSE 0
\* the error of pixel i goes right, and to three below: how many sixteenths of it pixel j gets
Gets(p, i, j) ==
    LET x == i % p.w
    IN CASE j = i + 1 /\ x < p.w - 1 -> 7
         [] j = i + p.w - 1 /\ x > 0 -> 3
         [] j = i + p.w -> 5
         [] j = i + p.w + 1 /\ x < p.w - 1 -> 1
         [] OTHER -> 0
Given(p, pal, s, i, c, at) ==
    [idx |-> Append(s.idx, at),
     err |-> [j \in i + 1 .. i + p.w + 1 |-> ErrorAt(s, j) + Gets(p, i, j) * (Value(c) - Value(pal[at]))],
     found |-> Put(s.found, DitherKey(c), at)]
\* a transparent pixel neither takes nor gives any error; what was found is found again for its key
DitherPixel(p, pal, s, i) ==
    LET px == p.px[i + 1]
        c == <<Alpha(px), Clamped(Value(px) + Per16(ErrorAt(s, i)))>>
    IN IF ~Seen(px) THEN [s EXCEPT !.idx = Append(@, 0)]
       ELSE Given(p, pal, s, i, c, IF DitherKey(c) \in DOMAIN s.found THEN s.found[DitherKey(c)] ELSE Nearest(pal, c))
\* index of every pixel, 0 for a transparent one
Dithered(p, pal) ==
    LET step[k \in 0 .. p.w * p.h] == IF k = 0 THEN NoneFound ELSE DitherPixel(p, pal, step[k - 1], k - 1)
    IN step[p.w * p.h].idx

Unfolded(idx, pal) == [i \in DOMAIN idx |-> IF idx[i] = 0 THEN Nothing ELSE pal[idx[i]]]

------------------------------------------------------------------------------
(* The two files (c8pal_load_or_quantize) *)

\* what is computed: colours, pixels; a picture without a visible pixel stays as it is
Shown(idx, pal) == [pal |-> pal, idx |-> idx, px |-> Unfolded(idx, pal)]
With(p, pal) == IF pal = <<>> THEN [pal |-> <<>>, idx |-> <<>>, px |-> p.px] ELSE Shown(Dithered(p, pal), pal)
Computed(p, quota) == With(p, Palette(p, quota))

NoFile == [of |-> 0]
PalFile(version, got) == [of |-> version, pal |-> got.pal]
IdxFile(version, p, got) == [of |-> version, count |-> Len(got.pal), w |-> p.w, h |-> p.h, idx |-> got.idx]

\* both files are there, of this very picture, and fit each other
HitOfOne(files, version, p) ==     \* mutant: the picture of the second is not compared
    /\ files.pal.of = version /\ files.idx.of # 0
    /\ files.idx.count = Len(files.pal.pal)
    /\ files.idx.w = p.w /\ files.idx.h = p.h
Hit(files, version, p) ==
    /\ files.pal.of = version /\ files.idx.of = version
    /\ files.idx.count = Len(files.pal.pal)
    /\ files.idx.w = p.w /\ files.idx.h = p.h

\* what storing may leave: power cuts, a full or a read-only medium; what was written in part cannot be read
Stored(files, version, p, got) ==
    IF got.pal = <<>> THEN {files}
    ELSE {files, [files EXCEPT !.pal = NoFile], [files EXCEPT !.pal = PalFile(version, got)],
          [pal |-> PalFile(version, got), idx |-> NoFile],
          [pal |-> PalFile(version, got), idx |-> IdxFile(version, p, got)]}

------------------------------------------------------------------------------
(* The pools *)

RoomOf(type) == IF type = "image" THEN Entries - 2 ELSE Entries - 1 - DynBase
BaseOf(type) == IF type = "image" THEN 1 ELSE DynBase

\* c8pal_pool_add: no colour twice, none over the capacity
Pooled(pool, cap, colours) ==
    LET add[i \in 0 .. Len(colours)] ==
            IF i = 0 THEN pool
            ELSE IF Len(add[i - 1]) >= cap \/ \E j \in DOMAIN add[i - 1] : add[i - 1][j] = colours[i] THEN add[i - 1]
            ELSE Append(add[i - 1], colours[i])
    IN add[Len(colours)]

\* c8pal_pool_add_ramp: the colour, and ever more transparent
Ramp(c, levels) ==
    LET faded(i) == (Alpha(c) * (levels - i)) \div levels
    IN <<c>> \o [i \in 1 .. Cardinality({n \in 1 .. levels : faded(n) # 0}) |-> <<faded(i), Value(c)>>]

\* the colours of the owner come first: a ramp for the first few, but for black and white
Coloured(o) ==
    LET cs == OwnerOf(o).colours
        type == OwnerOf(o).type
        levels == RampLevels(type)
        Known(pool, c) == c \in {<<255, 0>>, <<255, 255>>} \/ \E j \in DOMAIN pool : pool[j] = c
        Ramped(s) == s.ramps < RampsMax /\ levels > 0
        Added(s, c) ==
            IF type = "custom" /\ Known(s.pool, c) THEN s
            ELSE [pool |-> Pooled(s.pool, RoomOf(type), IF Ramped(s) THEN Ramp(c, levels) ELSE <<c>>),
                  ramps |-> IF Ramped(s) THEN s.ramps + 1 ELSE s.ramps]
        add[i \in 0 .. Len(cs)] == IF i = 0 THEN [pool |-> <<>>, ramps |-> 0] ELSE Added(add[i - 1], cs[i])
    IN add[Len(cs)].pool

\* pool_quantize_image: what room there is, or not at all under two colours
Quota(o, pool, quota) == LET room == RoomOf(OwnerOf(o).type) - Len(pool) IN IF quota > room THEN room ELSE quota

ScaledOf(image, version) == Rescale(ContentOf(image.path, version), image.up, image.down)

\* what the pool and the pixels become with the next picture: got, by whatever way
WithPicture(k, o, p, quota, got) ==
    IF quota < 2 THEN [pool |-> k.pool, px |-> Append(k.px, p.px)]
    ELSE [pool |-> Pooled(k.pool, RoomOf(OwnerOf(o).type), got.pal), px |-> Append(k.px, got.px)]

------------------------------------------------------------------------------
(* Loading, showing, drawing *)

NotKept == [pool |-> <<>>, px |-> <<>>, of |-> <<0>>]
NoOwner == "nobody"
IsKept(o) == kept[o].of # <<0>> /\ Len(kept[o].of) = Len(OwnerOf(o).images)
FilesOf(path, quota) == IF <<path, quota>> \in DOMAIN cache THEN cache[<<path, quota>>] ELSE [pal |-> NoFile, idx |-> NoFile]

BakedTable == [i \in 0 .. Entries - 1 |-> IF i < Len(Baked) THEN Baked[i + 1] ELSE IF i = Entries - 1 THEN <<255, 0>> ELSE Nothing]
PicInit ==     \* c8pal_init
    /\ media = [p \in Paths |-> 1]
    /\ cache = <<>>
    /\ kept = [o \in Owners |-> NotKept]
    /\ table = BakedTable
    /\ lut = <<>>
    /\ inView = NoOwner
    /\ looked = <<>>

\* the pictures of an owner are loaded at a switch, while another is in view
LoadImage(o) ==
    /\ kept' = [kept EXCEPT ![o] = [pool |-> Coloured(o), px |-> <<>>, of |-> <<>>]]
    /\ UNCHANGED <<media, cache, table, lut, inView, looked>>

Keep(o, p, quota, got) ==
    LET k == WithPicture(kept[o], o, p, quota, got)
        image == OwnerOf(o).images[Len(kept[o].of) + 1]
    IN kept' = [kept EXCEPT ![o] = [pool |-> k.pool, px |-> k.px, of |-> Append(@.of, media[image.path])]]

LoadOrQuantize(o, path, p, quota, writable) ==
    LET v == media[path]
        files == FilesOf(path, quota)
    IN \/ /\ quota < 2
          /\ Keep(o, p, quota, <<>>) /\ UNCHANGED cache
       \/ /\ quota >= 2 /\ Hit(files, v, p)
          /\ Keep(o, p, quota, Shown(files.idx.idx, files.pal.pal)) /\ UNCHANGED cache
       \/ /\ quota >= 2 /\ ~Hit(files, v, p)
          /\ \E got \in {Computed(p, quota)} :
             /\ Keep(o, p, quota, got)
             /\ \E left \in IF writable THEN Stored(files, v, p, got) ELSE {files} : cache' = Put(cache, <<path, quota>>, left)

LoadNext(o, writable) ==
    /\ kept[o].of # <<0>> /\ ~IsKept(o)
    /\ LET image == OwnerOf(o).images[Len(kept[o].of) + 1] IN
       \E p \in {ScaledOf(image, media[image.path])}, quota \in {Quota(o, kept[o].pool, image.quota)} :
          LoadOrQuantize(o, image.path, p, quota, writable)
    /\ UNCHANGED <<media, table, lut, inView, looked>>

\* the user copies another picture over it
ReplacePicture == \E p \in Paths :
    /\ media[p] + 1 \in Versions
    /\ media' = [media EXCEPT ![p] = @ + 1]
    /\ UNCHANGED <<cache, kept, table, lut, inView, looked>>

\* of what was kept nothing is left after the power was cut
PicPowerCut ==
    /\ kept' = [o \in Owners |-> NotKept] /\ table' = BakedTable /\ lut' = <<>> /\ inView' = NoOwner /\ looked' = <<>>
    /\ UNCHANGED <<media, cache>>

CommitKeeps == lut     \* mutant: the palette changes, the tables of what was found in it stay
Commit == <<>>

\* c8pal_restore_baked, c8pal_write_range, c8pal_commit: the rest of the table is what others left
ShowOwner(o) ==
    LET base == BaseOf(OwnerOf(o).type)
        pool == kept[o].pool
    IN /\ IsKept(o) /\ inView # o
       /\ table' = [i \in 0 .. Entries - 1 |->
                       IF i >= base /\ i < base + Len(pool) THEN pool[i - base + 1]
                       ELSE IF i < Len(Baked) THEN Baked[i + 1] ELSE table[i]]
       /\ lut' = Commit
       /\ inView' = o
       /\ looked' = <<>>
       /\ UNCHANGED <<media, cache, kept>>

Usable == [i \in 1 .. Entries - 1 |-> table[i - 1]]     \* scan_nearest: the last entry does not take part
Key(c) == IF Alpha(c) >= 240 THEN <<16, Value(c) \div 8>> ELSE <<Alpha(c) \div 16, Value(c) \div 16>>
SearchedFor(c) == IF Alpha(c) >= 240 THEN <<255, Value(c)>> ELSE <<16 * (Alpha(c) \div 16) + 8, 16 * (Value(c) \div 16) + 8>>

\* c8pal_index
PalIndex(c) ==
    IF ~Seen(c) THEN 0
    ELSE IF Key(c) \in DOMAIN lut THEN lut[Key(c)]
    ELSE Nearest(Usable, SearchedFor(c)) - 1

PixelsOf(o) == UNION {{kept[o].px[i][k] : k \in DOMAIN kept[o].px[i]} : i \in DOMAIN kept[o].px}
Draw == \E c \in Blended \cup PixelsOf(inView) :
    /\ Len(looked) < MaxDraws
    /\ looked' = Append(looked, <<c, PalIndex(c)>>)
    /\ lut' = IF Seen(c) THEN Put(lut, Key(c), PalIndex(c)) ELSE lut
    /\ UNCHANGED <<media, cache, kept, table, inView>>

\* whose pictures they are, and whether they are on a medium that can be written
PicNext(cast, writable) ==
    \/ \E o \in cast : (LoadImage(o) /\ inView # o) \/ LoadNext(o, writable) \/ ShowOwner(o)
    \/ writable /\ ReplacePicture
    \/ PicPowerCut
    \/ inView # NoOwner /\ Draw

PicSpec(cast, writable) == PicInit /\ [][PicNext(cast, writable)]_picVars

------------------------------------------------------------------------------
\* What would be loaded if nothing were kept on the medium
Fresh(o, of) ==
    LET Next1(k, p, quota) == WithPicture(k, o, p, quota, IF quota < 2 THEN <<>> ELSE Computed(p, quota))
        run[i \in 0 .. Len(of)] ==
            IF i = 0 THEN [pool |-> Coloured(o), px |-> <<>>]
            ELSE LET image == OwnerOf(o).images[i] IN
                 Next1(run[i - 1], ScaledOf(image, of[i]), Quota(o, run[i - 1].pool, image.quota))
    IN run[Len(of)]

\* However often the power was cut between the two files of a picture, whoever
\* else keeps it with another number of colours, and whatever it was replaced
\* with: what is loaded is what this very picture is cut down to, as many colours as
\* were allowed, and every visible pixel one of them while there is room for two
\* more and one of the pixels looked at was visible
\* ("每像素都是 out_pal 中的精确色", c8pal.h).
LoadedAsFresh == \A o \in Owners : kept[o].of # <<0>> => \A fresh \in {Fresh(o, kept[o].of)} :
    /\ kept[o].pool = fresh.pool /\ kept[o].px = fresh.px
    /\ Len(fresh.pool) <= RoomOf(OwnerOf(o).type)
    /\ \A i \in DOMAIN fresh.px :
          Len(fresh.pool) + 1 < RoomOf(OwnerOf(o).type) /\ Samples(ScaledOf(OwnerOf(o).images[i], kept[o].of[i])) # <<>> =>
          \A k \in DOMAIN fresh.px[i] : Seen(fresh.px[i][k]) => \E j \in DOMAIN fresh.pool : fresh.pool[j] = fresh.px[i][k]

Bucket(key) ==
    IF key[1] = 16 THEN {<<255, 8 * key[2] + n>> : n \in 0 .. 7} ELSE {<<16 * key[1] + 8, 16 * key[2] + 8>>}

\* Whoever was shown before, also full screen over the colours of the program: the
\* owner in view finds his pool in the palette, with every step of a ramp
\* ("find_exact 必中", opinfo.c), the colours of the program are back unless he
\* fills the screen himself, and what was looked up is near in this palette, never
\* in one that was there before, and never the entry that is not given away.
ColoursHold == inView # NoOwner =>
    LET type == OwnerOf(inView).type
        pool == kept[inView].pool
    IN /\ IsKept(inView) => \A i \in DOMAIN pool : table[BaseOf(type) + i - 1] = pool[i]
       /\ (type # "image") => \A i \in DOMAIN Baked : table[i - 1] = Baked[i]
       /\ type = "arknights" =>
             \A i \in 1 .. RampLevels(type) - 1 :
                \E j \in 0 .. Entries - 2 : table[j] = <<(255 * (RampLevels(type) - i)) \div RampLevels(type), Value(OwnerOf(inView).colours[1])>>
       /\ \A key \in DOMAIN lut :
             lut[key] # Entries - 1 /\ \E c \in Bucket(key) : lut[key] = Nearest(Usable, c) - 1

\* "落盘 LUT 反查时无损往返" (c8pal.h:46): what was cut down to the colours of the
\* palette is found in it again without a loss.
\* It does not hold: README, section 6.
RoundTrip == \A i \in DOMAIN looked :
    inView # NoOwner /\ looked[i][1] \in PixelsOf(inView) /\ (\E j \in 0 .. Entries - 2 : table[j] = looked[i][1]) =>
        (Seen(looked[i][1]) => table[looked[i][2]] = looked[i][1])

\* What is on screen comes from the files as they are, in colours of this palette.
PicturesHold == LoadedAsFresh /\ ColoursHold
==============================================================================
