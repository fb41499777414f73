----------------------------- MODULE H264Parser ------------------------------
(* The H.264 headers as h264_parser.c reads them: sequence and picture
   parameter sets, avcC, slice headers, the picture order count, and the
   controls that are filled for the device.

   A NAL unit is a sequence of syntax elements [f |-> name, v |-> value]: the
   module BitReader is about the bits of one. A reader that asks for another
   element than the one that comes next is out of step for the rest of the unit
   (off), which in the bits is garbage. Elements that are read by a loop are one
   element with a sequence as its value. A scaling list is "no" (not present),
   "def" (the escape to the default) or a name for its values.

   The syntax is a table: an order of names, and for each name the condition
   under which it is read. A field that is not read keeps the 0 of memset.     *)
EXTENDS Integers, Sequences, SequencesExt

CONSTANTS None,
          SpsIds, PpsIds,   \* the ids below 32 and 256 that occur, and some above
          MaxSpsId, MaxPpsId,
          MaxOps            \* entries of rplm and of mmco that are kept: 32 in the code

------------------------------------------------------------------------------
(* Reading *)

\* The fields that a loop fills
Loops == {"lists", "offsets", "nalCpbs", "vclCpbs", "rplm0", "rplm1", "weights", "marking"}

\* The memset of the structure, and br_init on the unit behind its header byte
Zeroed(fields) == [f \in fields |-> IF f \in Loops THEN <<>> ELSE 0]
ReaderOf(unit, fields) == [tok |-> unit, at |-> 1, off |-> FALSE, h |-> Zeroed(fields)]

\* One element is read; at the end of the unit br_u and br_ue_v return 0.
Take(c, f) ==
    IF c.at > Len(c.tok) THEN [c EXCEPT !.off = TRUE]
    ELSE [c EXCEPT !.at = @ + 1, !.h[f] = c.tok[c.at].v, !.off = @ \/ c.tok[c.at].f # f]

\* A group whose loop reads n elements
TakeLoop(c, f, n) ==
    LET d == Take(c, f)
    IN  IF d.off \/ Len(d.h[f]) # n THEN [d EXCEPT !.off = TRUE, !.h[f] = <<>>] ELSE d

ReadIn(order, Read(_, _), c) == FoldLeft(LAMBDA d, f : Read(d, f), c, order)

------------------------------------------------------------------------------
(* Scaling lists, 1 .. 6 of 4x4 and 7 .. 12 of 8x8 *)

\* set_default_4x4 and set_default_8x8
DefaultList(i) ==
    IF i <= 6 THEN (IF i <= 3 THEN "intra4" ELSE "inter4")
    ELSE IF i % 2 = 1 THEN "intra8" ELSE "inter8"

\* How many lists parse_scaling_lists reads
ListCount(t8x8, chroma) == 6 + (IF t8x8 THEN (IF chroma = 3 THEN 6 ELSE 2) ELSE 0)

\* Mutant: an 8x8 list falls back on the list before it, as a 4x4 list does.
ScalingListsNeighbour(v, sps) ==
    LET out[i \in 1 .. 12] ==
            IF i > Len(v) THEN "zero"
            ELSE IF v[i] = "def" THEN DefaultList(i)
            ELSE IF v[i] # "no" THEN v[i]
            ELSE IF i \in {1, 4, 7, 8}
                 THEN IF sps # None /\ sps.matrix = 1 THEN sps.out[i] ELSE DefaultList(i)
            ELSE out[i - 1]
    IN  [i \in 1 .. 12 |-> out[i]]

\* parse_scaling_lists: fall-back rule set A, or B where sps has a matrix.
ScalingLists(v, sps) ==
    LET out[i \in 1 .. 12] ==
            IF i > Len(v) THEN "zero"
            ELSE IF v[i] = "def" THEN DefaultList(i)
            ELSE IF v[i] # "no" THEN v[i]
            ELSE IF i \in {1, 4, 7, 8}
                 THEN IF sps # None /\ sps.matrix = 1 THEN sps.out[i] ELSE DefaultList(i)
            ELSE IF i <= 6 THEN out[i - 1] ELSE out[i - 2]
    IN  [i \in 1 .. 12 |-> out[i]]

------------------------------------------------------------------------------
(* Sequence parameter sets *)

HighProfiles == {100, 110, 122, 244, 44, 83, 86, 118, 128, 138, 139, 134, 135}

SpsOrder == <<"id", "chroma", "separate", "depths", "matrix", "lists", "log2fn", "pocType",
              "log2lsb", "alwaysZero", "nonRef", "topBottom", "cycle", "offsets",
              "maxRef", "gaps", "size", "mbsOnly", "mbaff", "direct8x8", "crop", "crops", "vui">>
VuiOrder == <<"aspect", "aspectIdc", "sar", "overscan", "overscanOk", "signal", "format",
              "colour", "colours", "location", "locations", "timing", "times",
              "nalHrd", "nalCpbs", "vclHrd", "vclCpbs", "lowDelay", "picStruct",
              "restriction", "limits", "reorder", "decBuf">>
SpsFields == {"profile"} \cup ToSet(SpsOrder) \cup ToSet(VuiOrder)

\* parse_vui: what it reads depends on the flag read just before
VuiHas(f, h) ==
    /\ f = "aspectIdc" => h["aspect"] = 1
    /\ f = "sar" => h["aspectIdc"] = 255
    /\ f = "overscanOk" => h["overscan"] = 1
    /\ f \in {"format", "colour"} => h["signal"] = 1
    /\ f = "colours" => h["colour"] = 1
    /\ f = "locations" => h["location"] = 1
    /\ f = "times" => h["timing"] = 1
    /\ f = "nalCpbs" => h["nalHrd"] = 1
    /\ f = "vclCpbs" => h["vclHrd"] = 1
    /\ f = "lowDelay" => h["nalHrd"] = 1 \/ h["vclHrd"] = 1
    /\ f \in {"limits", "reorder", "decBuf"} => h["restriction"] = 1

\* The reorder depth of the VUI is believed only where it can be true.
VuiValid(h) ==
    /\ h["decBuf"] \in 1 .. 16 /\ h["reorder"] <= h["decBuf"] /\ h["decBuf"] >= h["maxRef"]

SpsHas(f, h) ==
    /\ f \in {"chroma", "depths", "matrix"} => h["profile"] \in HighProfiles
    /\ f = "separate" => h["chroma"] = 3
    /\ f = "lists" => h["matrix"] = 1
    /\ f = "log2lsb" => h["pocType"] = 0
    /\ f \in {"alwaysZero", "nonRef", "topBottom", "cycle", "offsets"} => h["pocType"] = 1
    /\ f = "mbaff" => h["mbsOnly"] = 0
    /\ f = "crops" => h["crop"] = 1

ReadSpsField(c, f) ==
    IF ~SpsHas(f, c.h) THEN c
    ELSE CASE f = "lists"   -> TakeLoop(c, f, ListCount(TRUE, c.h["chroma"]))
           [] f = "offsets" -> TakeLoop(c, f, c.h["cycle"])
           [] f \in {"log2fn", "log2lsb"} ->
                  LET d == Take(c, f) IN [d EXCEPT !.h[f] = IF @ > 12 THEN 12 ELSE @]
           [] OTHER -> Take(c, f)

ReadVuiField(c, f) ==
    IF ~VuiHas(f, c.h) THEN c
    ELSE IF f \in {"nalCpbs", "vclCpbs"} THEN TakeLoop(c, f, c.tok[c.at].v[1] + 2)
    ELSE Take(c, f)

\* The SPS branch of h264_parser_parse_param_nal: [ok, off, sps]
SpsOf(c) ==
    [ok |-> TRUE, off |-> c.off,
     sps |-> [h |-> c.h, matrix |-> c.h["matrix"],
              out |-> IF c.h["matrix"] = 1 THEN ScalingLists(c.h["lists"], None) ELSE [i \in 1 .. 12 |-> "zero"],
              depth |-> IF c.h["restriction"] = 1 /\ VuiValid(c.h) THEN c.h["reorder"] ELSE None]]
ParseSps(unit) ==
    LET WithVui(c) == IF c.h["vui"] = 1 THEN ReadIn(VuiOrder, ReadVuiField, c) ELSE c
        Known(c) == IF c.h["id"] >= MaxSpsId THEN [ok |-> FALSE, off |-> FALSE, sps |-> None]
                    ELSE SpsOf(WithVui(ReadIn(Tail(SpsOrder), ReadSpsField, [c EXCEPT !.h["chroma"] = 1])))
    IN  Known(Take(Take(ReaderOf(unit, SpsFields), "profile"), "id"))

------------------------------------------------------------------------------
(* Picture parameter sets *)

PpsOrder == <<"id", "spsId", "entropy", "bottomPoc", "groups", "l0", "l1", "wpred", "wbipred",
              "qps", "deblockCtl", "constrained", "redundantPres">>
PpsTail  == <<"t8x8", "matrix", "lists", "cqp2">>
PpsFields == ToSet(PpsOrder) \cup ToSet(PpsTail)

\* The tail is read only where br_more_rbsp_data finds one; its lists are counted
\* and fall back with the SPS that is known while the PPS is read.
ReadPpsTail(c, sps) ==
    LET Lists(a) == IF a.h["matrix"] = 1
                    THEN TakeLoop(a, "lists", ListCount(a.h["t8x8"] = 1, IF sps = None THEN 1 ELSE sps.h["chroma"]))
                    ELSE a
    IN  IF c.at > Len(c.tok) THEN c ELSE Take(Lists(Take(Take(c, "t8x8"), "matrix")), "cqp2")

\* The PPS branch of h264_parser_parse_param_nal. The map of slice groups is not read.
PpsOf(c, sps) ==
    [ok |-> TRUE, off |-> c.off,
     pps |-> [h |-> c.h, matrix |-> c.h["matrix"],
              out |-> IF c.h["matrix"] = 1 THEN ScalingLists(c.h["lists"], sps) ELSE [i \in 1 .. 12 |-> "zero"]]]
ParsePps(p, unit) ==
    LET Whole(c, sps) == PpsOf(ReadPpsTail(ReadIn(SubSeq(PpsOrder, 3, Len(PpsOrder)), Take, c), sps), sps)
        Known(c) == IF c.h["id"] >= MaxPpsId \/ c.h["spsId"] >= MaxSpsId
                    THEN [ok |-> FALSE, off |-> FALSE, pps |-> None]
                    ELSE Whole(c, p.sps[c.h["spsId"]])
    IN  Known(Take(Take(ReaderOf(unit, PpsFields), "id"), "spsId"))

\* h264_parser_init
NewParser == [sps |-> [i \in SpsIds |-> None], pps |-> [i \in PpsIds |-> None],
              prev |-> [msb |-> 0, lsb |-> 0, frameNum |-> 0, offset |-> 0]]

\* h264_parser_parse_param_nal: a set replaces the one with its id at once.
StoreSps(p, s) == IF s.ok THEN [p EXCEPT !.sps[s.sps.h["id"]] = s.sps] ELSE p
StorePps(p, q) == IF q.ok THEN [p EXCEPT !.pps[q.pps.h["id"]] = q.pps] ELSE p
ParseParam(p, type, unit) ==
    CASE type = "sps" -> StoreSps(p, ParseSps(unit))
      [] type = "pps" -> StorePps(p, ParsePps(p, unit))
      [] OTHER -> p

\* h264_parser_parse_avcc: all sequence sets, then all picture sets; whether one
\* of them fails is not looked at.
ParseAvcc(p, avcc) ==
    FoldLeft(LAMBDA q, set : ParseParam(q, set[1], set[2]), p,
             [i \in DOMAIN avcc.sps |-> <<"sps", avcc.sps[i]>>] \o [i \in DOMAIN avcc.pps |-> <<"pps", avcc.pps[i]>>])

------------------------------------------------------------------------------
(* Slice headers. Slice types: 0 P, 1 B, 2 I, 3 SP, 4 SI, and 5 more of each. *)

BeforePoc == <<"colourPlane", "frameNum", "field", "bottom", "idrPicId">>
PocFields == <<"lsb", "deltaBottom", "delta0", "delta1">>
AfterPoc  == <<"redundant", "direct", "override", "l0", "l1", "rplm0", "rplm1", "weights">>
AfterMark == <<"cabac", "qpDelta", "spSwitch", "qsDelta", "deblock", "alphaBeta">>
SliceFields == {"firstMb", "type", "ppsId", "marking"} \cup ToSet(BeforePoc) \cup ToSet(PocFields)
               \cup ToSet(AfterPoc) \cup ToSet(AfterMark)

Kind(h) == h["type"] % 5

\* The conditions of h264_parser_parse_slice
SliceHas(f, h, n, s, q) ==
    LET frame == h["field"] = 0
    IN  /\ f = "colourPlane" => s["separate"] = 1
        /\ f = "field" => s["mbsOnly"] = 0
        /\ f = "bottom" => s["mbsOnly"] = 0 /\ h["field"] = 1
        /\ f = "idrPicId" => n.idr
        /\ f = "lsb" => s["pocType"] = 0
        /\ f = "deltaBottom" => s["pocType"] = 0 /\ q["bottomPoc"] = 1 /\ frame
        /\ f \in {"delta0", "delta1"} => s["pocType"] = 1 /\ s["alwaysZero"] = 0
        /\ f = "delta1" => q["bottomPoc"] = 1 /\ frame
        /\ f = "redundant" => q["redundantPres"] = 1
        /\ f = "direct" => Kind(h) = 1
        /\ f = "override" => Kind(h) \in {0, 1, 3}
        /\ f = "l0" => h["override"] = 1
        /\ f = "l1" => h["override"] = 1 /\ Kind(h) = 1
        /\ f = "rplm0" => Kind(h) \notin {2, 4}
        /\ f = "rplm1" => Kind(h) = 1
        /\ f = "weights" => \/ q["wpred"] = 1 /\ Kind(h) \in {0, 3}
                            \/ q["wbipred"] = 1 /\ Kind(h) = 1
        /\ f = "cabac" => q["entropy"] = 1 /\ Kind(h) \notin {2, 4}
        /\ f = "spSwitch" => Kind(h) = 3
        /\ f = "qsDelta" => Kind(h) \in {3, 4}
        /\ f = "deblock" => q["deblockCtl"] = 1
        /\ f = "alphaBeta" => q["deblockCtl"] = 1 /\ h["deblock"] # 1

\* Of a list the first MaxOps entries are kept.
UpToMax(ops) == SubSeq(ops, 1, IF Len(ops) < MaxOps THEN Len(ops) ELSE MaxOps)

\* parse_one_rplm: pairs up to the 3, the first MaxOps of them kept; at the end
\* of the data it leaves, so that it always ends.
Modifications(v) ==
    LET pairs == {k \in 1 .. Len(v) \div 2 : \A j \in 1 .. k : v[2 * j] # 3}
        n     == CHOOSE k \in 0 .. Len(v) : pairs = 1 .. k
    IN  [end |-> IF v[1] = 0 THEN 1 ELSE 2 * n + 2,
         ops |-> IF v[1] = 0 THEN <<>>
                 ELSE UpToMax([k \in 1 .. n |-> <<v[2 * k], v[2 * k + 1]>>])]

\* The arguments of a memory management operation, in the order they are read
Args(op) == CASE op \in {1, 2, 4} -> <<1>> [] op = 3 -> <<1, 2>> [] op = 6 -> <<2>> [] OTHER -> <<>>

\* The loop of parse_dec_ref_pic_marking, up to the 0. A value is [op, a1, a2].
RECURSIVE Operations(_, _)
Operations(v, at) ==
    IF at > Len(v) \/ v[at] = 0 THEN [end |-> at, ops |-> <<>>]
    ELSE LET args == Args(v[at])
             arg(k) == IF \E i \in DOMAIN args : args[i] = k
                       THEN v[at + (CHOOSE i \in DOMAIN args : args[i] = k)] ELSE 0
             rest == Operations(v, at + 1 + Len(args))
         IN  [rest EXCEPT !.ops = <<<<v[at], arg(1), arg(2)>>>> \o @]

\* parse_pred_weight_table: the entries of list 0, those of list 1 for B, and
\* whether the chroma is there
WeightShape(h, s) ==
    <<h["l0"] + 1, IF Kind(h) = 1 THEN h["l1"] + 1 ELSE 0,
      IF s["separate"] = 1 THEN 0 ELSE s["chroma"]>>

ReadSliceField(c, f, n, s, q) ==
    LET Modified(d, m) == [d EXCEPT !.h[f] = m.ops, !.off = m.end # Len(d.h[f])]
        Loop(d) == IF d.off THEN d
                   ELSE CASE f \in {"rplm0", "rplm1"} -> Modified(d, Modifications(d.h[f]))
                          [] f = "weights" -> [d EXCEPT !.off = d.h[f] # WeightShape(d.h, s)]
                          [] OTHER -> d
    IN  IF SliceHas(f, c.h, n, s, q) THEN Loop(Take(c, f)) ELSE c

Marked(d, n, v, o) ==
    IF d.off THEN [d EXCEPT !.h["marking"] = <<>>]
    ELSE IF n.idr THEN [d EXCEPT !.off = Len(v) # 2]
    ELSE IF v[1] = 0 THEN [d EXCEPT !.h["marking"] = <<>>, !.off = Len(v) # 1]
    ELSE [d EXCEPT !.h["marking"] = UpToMax(o.ops), !.off = o.end # Len(v)]

\* Mutant: the marking is looked for also in a picture that is no reference.
ReadMarkingAlways(c, n) ==
    LET Goes(d) == Marked(d, n, d.h["marking"], Operations(d.h["marking"], 2))
    IN  Goes(Take(c, "marking"))

\* parse_dec_ref_pic_marking: two flags for an IDR picture, else the operations
ReadMarking(c, n) ==
    LET Goes(d) == Marked(d, n, d.h["marking"], Operations(d.h["marking"], 2))
    IN  IF n.ref = 0 THEN [c EXCEPT !.h["marking"] = <<>>] ELSE Goes(Take(c, "marking"))

\* h264_parser_parse_slice; n is [idr, ref] of the header byte. The sizes that
\* the device needs are counted in syntax elements here.
SliceOf(c0, pps, sps, n) ==
    LET Read(c, f) == ReadSliceField(c, f, n, sps.h, pps.h)
        Whole(poc, mark, c) == [ok |-> TRUE, off |-> c.off, h |-> c.h, pocSize |-> poc, markSize |-> mark, size |-> c.at - 1]
        Ending(poc, c, d)   == Whole(poc, d.at - c.at, ReadIn(AfterMark, Read, d))
        Marking(poc, c)     == Ending(poc, c, ReadMarking(c, n))
        Lists(c, d)         == Marking(d.at - c.at, ReadIn(AfterPoc, Read, [d EXCEPT !.h["l0"] = pps.h["l0"], !.h["l1"] = pps.h["l1"]]))
        Order(c)            == Lists(c, ReadIn(PocFields, Read, c))
    IN  Order(ReadIn(BeforePoc, Read, c0))

\* the sets a picture refers to, where they are known
PpsFor(p, id) == IF id < MaxPpsId THEN p.pps[id] ELSE None
SpsFor(p, pps) == IF pps = None THEN None ELSE p.sps[pps.h["spsId"]]

ParseSlice(p, n, unit) ==
    LET bad == [ok |-> FALSE, off |-> FALSE, h |-> Zeroed(SliceFields),
                pocSize |-> 0, markSize |-> 0, size |-> 0]
        Under(c, pps, sps) == IF sps = None THEN bad ELSE SliceOf(c, pps, sps, n)
        Begun(c) == Under(c, PpsFor(p, c.h["ppsId"]), SpsFor(p, PpsFor(p, c.h["ppsId"])))
    IN  Begun(ReadIn(<<"firstMb", "type", "ppsId">>, Take, ReaderOf(unit, SliceFields)))

------------------------------------------------------------------------------
(* h264_parser_compute_poc *)

\* Mutant: half a period forward and half a period back are taken for the same.
MsbSymmetric(lsb, prevMsb, prevLsb, max) ==
    IF lsb < prevLsb /\ prevLsb - lsb > max \div 2 THEN prevMsb + max
    ELSE IF lsb > prevLsb /\ lsb - prevLsb > max \div 2 THEN prevMsb - max
    ELSE prevMsb

\* The most significant part that lies nearest to the one before
Msb(lsb, prevMsb, prevLsb, max) ==
    IF lsb < prevLsb /\ prevLsb - lsb >= max \div 2 THEN prevMsb + max
    ELSE IF lsb > prevLsb /\ lsb - prevLsb > max \div 2 THEN prevMsb - max
    ELSE prevMsb

\* Type 0: only a reference picture is remembered.
PocType0(prev, h, n, s, bottomDelta) ==
    LET max == 2^(s["log2lsb"] + 4)
        msb == IF n.idr THEN Msb(h["lsb"], 0, 0, max)
               ELSE Msb(h["lsb"], prev.msb, prev.lsb, max)
        top == msb + h["lsb"]
    IN  [top |-> top, bottom |-> IF h["field"] = 1 THEN top ELSE top + bottomDelta,
         prev |-> IF n.ref # 0 THEN [prev EXCEPT !.msb = msb, !.lsb = h["lsb"]] ELSE prev]

\* The frame numbers that were wrapped so far (types 1 and 2)
FrameNumOffset(prev, h, n, s) ==
    IF n.idr THEN 0
    ELSE IF prev.frameNum > h["frameNum"] THEN prev.offset + 2^(s["log2fn"] + 4)
    ELSE prev.offset

\* Type 1: the offsets of the cycle are summed up.
PocType1(prev, h, n, s) ==
    LET offset == FrameNumOffset(prev, h, n, s)
        sum[i \in 0 .. s["cycle"]] == IF i = 0 THEN 0 ELSE sum[i - 1] + s["offsets"][i]
        abs0 == IF s["cycle"] # 0 THEN offset + h["frameNum"] ELSE 0
        abs  == IF n.ref = 0 /\ abs0 > 0 THEN abs0 - 1 ELSE abs0
        base == IF abs = 0 THEN 0
                ELSE ((abs - 1) \div s["cycle"]) * sum[s["cycle"]] + sum[((abs - 1) % s["cycle"]) + 1]
        top  == base + (IF n.ref = 0 THEN s["nonRef"] ELSE 0) + h["delta0"]
    IN  [top |-> top, bottom |-> top + s["topBottom"] + h["delta1"],
         prev |-> [prev EXCEPT !.frameNum = h["frameNum"], !.offset = offset]]

\* Type 2: output order is decoding order.
PocType2(prev, h, n, s) ==
    LET offset == FrameNumOffset(prev, h, n, s)
        poc == IF n.idr THEN 0
               ELSE 2 * (offset + h["frameNum"]) - (IF n.ref = 0 THEN 1 ELSE 0)
    IN  [top |-> poc, bottom |-> poc,
         prev |-> [prev EXCEPT !.frameNum = h["frameNum"], !.offset = offset]]

\* [p, poc]: without its sets a picture has the POC 0.
ComputePoc(p, h, n) ==
    LET s    == SpsFor(p, p.pps[h["ppsId"]]).h
        With(r) ==
            [p   |-> [p EXCEPT !.prev = r.prev],
             poc |-> CASE h["field"] = 0 -> (IF r.top < r.bottom THEN r.top ELSE r.bottom)
                       [] h["bottom"] = 1 -> r.bottom
                       [] OTHER -> r.top]
    IN  IF SpsFor(p, p.pps[h["ppsId"]]) = None THEN [p |-> p, poc |-> 0]
        ELSE With(CASE s["pocType"] = 0 -> PocType0(p.prev, h, n, s, h["deltaBottom"])
                    [] s["pocType"] = 1 -> PocType1(p.prev, h, n, s)
                    [] OTHER -> PocType2(p.prev, h, n, s))

------------------------------------------------------------------------------
(* h264_parser_fill_controls: the copies of the fields, the choice of the
   scaling lists, and the parts of the header that the device is told about   *)

Flat == [i \in 1 .. 12 |-> "flat16"]

\* The slice and decode parameters
SliceControls(r, n, poc) ==
    [type  |-> Kind(r.h),
     slice |-> r.h,
     sizes |-> <<r.size, r.pocSize, r.markSize>>,
     ref   |-> n.ref,
     idr   |-> n.idr,
     poc   |-> poc]

FillControls(p, r, n, poc) ==
    LET pps == p.pps[r.h["ppsId"]]
        sps == SpsFor(p, pps)
    IN  IF sps = None THEN None
        ELSE [sps     |-> sps.h,
              pps     |-> pps.h,
              matrix  |-> pps.matrix = 1 \/ sps.matrix = 1,
              lists   |-> IF pps.matrix = 1 THEN pps.out ELSE IF sps.matrix = 1 THEN sps.out ELSE Flat,
              weights |-> r.h["weights"],
              slice   |-> SliceControls(r, n, poc)]

==============================================================================
