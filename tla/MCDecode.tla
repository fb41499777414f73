------------------------------- MODULE MCDecode -------------------------------
(* What stands below and beside the decoder, in one run: the boxes of a file, the bits
   of an access unit, the headers of a stream, the pictures it refers to, and the
   session that opens and gives back the drivers. They share no state, so a behaviour
   is one of the five.                                                            *)
EXTENDS BitReader, H264Stream, Mp4Demux, H264Dpb, DecodeSession

VARIABLE layer

------------------------------------------------------------------------------
(* Access units: one or two units with escapes at every place *)

Units(bytes, n) == {<<n + 1, 7>> \o d : d \in [1 .. n -> bytes]}
MCAccessUnits ==
    Units({0, 3, 84}, 5) \cup {<<2, 7, 128>> \o u : u \in Units({0, 3, 1}, 4)}
        \cup {u \o <<9, 1>> : u \in Units({0, 3, 160}, 3)}
MCWidths == {1, 3, 8, 12}

------------------------------------------------------------------------------
(* Streams *)

With(h, changes) == [f \in DOMAIN h |-> IF f \in DOMAIN changes THEN changes[f] ELSE h[f]]
BaseSps == With(Zeroed(SpsFields), [profile |-> 66, chroma |-> 1, maxRef |-> 2, mbsOnly |-> 1, lists |-> <<>>, offsets |-> <<>>, nalCpbs |-> <<>>, vclCpbs |-> <<>>])
High == With(BaseSps, [profile |-> 100])
MCSps == {BaseSps,
  With(BaseSps, [pocType |-> 1, cycle |-> 2, offsets |-> <<2, 4>>, nonRef |-> -1, topBottom |-> 1]),
  With(BaseSps, [pocType |-> 2]),
  With(High, [matrix |-> 1, lists |-> <<"no", "a", "def", "no", "b", "no", "c", "no">>, vui |-> 1, aspect |-> 1, aspectIdc |-> 255, signal |-> 1, nalHrd |-> 1, nalCpbs |-> <<0, 7>>, restriction |-> 1, reorder |-> 1, decBuf |-> 3]),
  With(High, [chroma |-> 3, separate |-> 1, matrix |-> 1, mbsOnly |-> 0, pocType |-> 1, cycle |-> 1, offsets |-> <<2>>, lists |-> <<"no", "a", "def", "no", "b", "no", "no", "c", "no", "no", "d", "no">>])}
BasePps == With(Zeroed(PpsFields), [lists |-> <<>>])
Own(n) == [i \in 1 .. n |-> IF i = 3 THEN "e" ELSE IF i = 5 THEN "def" ELSE IF i = 8 THEN "f" ELSE "no"]
MCPps(s) ==
  {BasePps} \cup IF s["vui"] + s["separate"] = 0 THEN {} ELSE
  {With(BasePps, [bottomPoc |-> 1, entropy |-> 1, wpred |-> 1, deblockCtl |-> 1, l0 |-> 1]),
   With(BasePps, [matrix |-> 1, cqp2 |-> 1, lists |-> Own(6)]),
   With(BasePps, [wbipred |-> 1, redundantPres |-> 1, t8x8 |-> 1, matrix |-> 1, cqp2 |-> 1,
                  lists |-> Own(IF s["chroma"] = 3 THEN 12 ELSE 8)])}
\* fields that hold by the syntax
Fit(h, s, q, n) ==
  LET t == h["type"] % 5
      wt   == \/ q["wpred"] = 1 /\ t \in {0, 3}
              \/ q["wbipred"] = 1 /\ t = 1
      sized == With(h, [l0 |-> IF h["override"] = 1 THEN 2 ELSE q["l0"], l1 |-> IF h["override"] = 1 /\ t = 1 THEN 1 ELSE q["l1"]])
  IN With(sized, [marking |-> IF n.idr THEN <<0, 1>> ELSE IF n.ref = 0 THEN <<>> ELSE h["marking"],
       rplm0 |-> IF t \in {2, 4} THEN <<>> ELSE h["rplm0"], rplm1 |-> IF t = 1 THEN <<<<1, 4>>>> ELSE <<>>,
       weights |-> IF wt THEN WeightShape(sized, s) ELSE <<>>])
Rich(s, q, n) ==
  {Fit(With(Zeroed(SliceFields),
     [type |-> t, override |-> IF t \in {0,1,3} THEN o ELSE 0, rplm0 |-> m, marking |-> k, field |-> f, bottom |-> f,
      direct |-> IF t = 1 THEN 1 ELSE 0, deblock |-> q["deblockCtl"] * o, qpDelta |-> 3]), s, q, n) :
   t \in IF n.idr THEN {7} ELSE {0, 1, 2, 3, 4}, o \in IF n.idr THEN {0} ELSE {0, 1}, m \in IF n.idr THEN {<<>>} ELSE {<<<<0, 1>>, <<2, 5>>>>},
   k \in IF n.idr THEN {<<>>} ELSE {<<>>, <<<<1, 4, 0>>, <<3, 2, 1>>, <<4, 2, 0>>>>, <<<<6, 0, 1>>, <<2, 7, 0>>>>}, f \in IF n.idr THEN {0} ELSE {1 - s["mbsOnly"]}}
MCFlags(s, q, n) == IF s["vui"] + s["separate"] = 0
   THEN {Fit(With(Zeroed(SliceFields), [type |-> IF n.idr THEN 2 ELSE 0, rplm0 |-> <<>>, marking |-> <<>>]), s, q, n)}
   ELSE Rich(s, q, n)
MCPics(s) == IF s["vui"] + s["separate"] # 0 THEN 2 ELSE IF s["pocType"] = 0 THEN 6 ELSE 36
MCSteps == {-7, -3, -1, 0, 1, 2, 5, 8}
------------------------------------------------------------------------------
(* Files *)

Box(t, b) == [t |-> t, size |-> "exact", body |-> b]
Table(n, rows) == [head |-> TRUE, n |-> n, rows |-> rows]
Stsd(fmt, cfg) == [head |-> TRUE, n |-> 1, fmt |-> fmt, width |-> 4, whole |-> TRUE, children |-> cfg]
Good == Stsd("avc1", <<Box("avcC", [size |-> 7, lenSize |-> 4])>>)
Trak(kind, stsd, tables) == Box("trak", <<Box("tkhd", 6), Box("mdia", <<Box("mdhd", 5), Box("hdlr", kind), Box("minf", <<Box("stbl", <<Box("stsd", stsd)>> \o tables)>>)>>)>>)
Tables == {<<Box("stsz", [head |-> TRUE, size |-> d, n |-> n, rows |-> <<2, 1, 3, 1>>]),
             Box("stsc", Table(k, <<[first |-> 1, per |-> a], [first |-> f, per |-> b]>>)),
             Box("stco", Table(c, <<10, 30, 20>>))>> \o z :
             d \in {0, 2}, n \in {3, 4, 5}, k \in {1, 2, 3}, a \in {0, 1, 2}, f \in {2, 3, 4}, b \in {1, 3}, c \in {2, 3}, z \in {<<>>, <<Box("stss", Table(2, <<1, 3>>)), Box("stts", Table(1, <<50>>))>>}}
MCFiles == {[boxes |-> <<Box("ftyp", 0), Box("moov", pre \o <<Trak("vide", Good, t)>>)>>] : t \in Tables, 
   pre \in {<<>>, <<Trak("soun", Good, <<>>), Trak("vide", Stsd("mp4v", <<>>), <<>>)>>, <<Trak("vide", Good, <<Box("stsz", [head |-> TRUE, size |-> 0, n |-> 1, rows |-> <<9>>]), Box("stsc", Table(0, <<>>)), Box("stco", Table(1, <<1>>))>>)>>}}
------------------------------------------------------------------------------
(* Sessions: a stream with reorder information, one without, one beyond its budget *)

MCStreams == {[vui |-> TRUE, dec |-> 1, reorder |-> 0, ref |-> 1, large |-> FALSE],
              [vui |-> FALSE, dec |-> 0, reorder |-> 0, ref |-> 1, large |-> TRUE],
              [vui |-> TRUE, dec |-> 16, reorder |-> 2, ref |-> 16, large |-> TRUE]}
------------------------------------------------------------------------------

Init ==
    /\ layer \in {"bits", "headers", "pictures", "boxes", "session"}
    /\ StreamInit
    /\ IF layer = "bits" THEN BitInit ELSE au = <<>> /\ cursor = 0 /\ br = Reader(<<>>) /\ got = Nothing
    /\ IF layer = "boxes" THEN Mp4Init ELSE file = Nil /\ mp4 = Nil /\ card = "in" /\ read = Unread
    /\ SessionInit /\ (layer # "session" => ~mp.inverted /\ mp.smooth = Reserve(0))
    /\ DpbInit

Next ==
    \/ layer = "bits" /\ BitNext /\ UNCHANGED <<streamVars, dpbVars, mp4Vars, sessionVars>>
    \/ layer = "headers" /\ StreamNext /\ UNCHANGED <<bitVars, dpbVars, mp4Vars, sessionVars>>
    \/ layer = "pictures" /\ DpbNext /\ UNCHANGED <<bitVars, streamVars, mp4Vars, sessionVars>>
    \/ layer = "boxes" /\ Mp4Next /\ UNCHANGED <<bitVars, streamVars, dpbVars, sessionVars>>
    \/ layer = "session" /\ SessionNext /\ UNCHANGED <<bitVars, streamVars, dpbVars, mp4Vars>>

allVars == <<layer, bitVars, streamVars, dpbVars, mp4Vars, sessionVars>>

Spec == Init /\ [][Next /\ UNCHANGED layer]_allVars

\* What the parser takes from a stream is what was written into it: every value of any
\* width from the bits, and from the elements every header with its lists and counts.
InputRight == ReadsRight /\ StreamRight

==============================================================================
