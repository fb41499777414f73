----------------------------- MODULE H264Stream ------------------------------
(* An encoder writes parameter sets and pictures the way the standard lays them
   out, mp_decode_au (mediaplayer.c) hands each NAL unit to H264Parser, and what
   the parser made of it is compared with what the encoder meant.

   The encoder is the reference here: it writes the syntax tables of 7.3, counts
   reference frames and knows the place of each picture in the output. A picture
   set is sent again after its sequence set, as encoders and avcC do.          *)
EXTENDS H264Parser

CONSTANTS SpsSet, PpsSet(_), \* the parameter sets it may send, the second under the first
          Flags(_, _, _),  \* the free parts of the slice headers under two sets
          MaxPics(_),      \* pictures it sends under a sequence set
          Steps,           \* distances in output order from picture to picture
          Periods          \* wraps of the POC's least significant part

VARIABLES p,      \* the parser
          enc,    \* the encoder
          seen    \* ghost: the last slice, as meant and as read

streamVars == <<p, enc, seen>>

------------------------------------------------------------------------------
(* The syntax of the standard, 7.3.2.1.1, 7.3.2.2, 7.3.3 and E.1.1 *)

E(h, f) == <<[f |-> f, v |-> h[f]]>>
Es(h, fs) == [i \in DOMAIN fs |-> [f |-> fs[i], v |-> h[fs[i]]]]
If(cond, elements) == IF cond THEN elements ELSE <<>>

WriteVui(h) ==
    E(h, "aspect") \o If(h["aspect"] = 1, E(h, "aspectIdc") \o If(h["aspectIdc"] = 255, E(h, "sar")))
    \o E(h, "overscan") \o If(h["overscan"] = 1, E(h, "overscanOk"))
    \o E(h, "signal")
    \o If(h["signal"] = 1, Es(h, <<"format", "colour">>) \o If(h["colour"] = 1, E(h, "colours")))
    \o E(h, "location") \o If(h["location"] = 1, E(h, "locations"))
    \o E(h, "timing") \o If(h["timing"] = 1, E(h, "times"))
    \o E(h, "nalHrd") \o If(h["nalHrd"] = 1, E(h, "nalCpbs"))
    \o E(h, "vclHrd") \o If(h["vclHrd"] = 1, E(h, "vclCpbs"))
    \o If(h["nalHrd"] + h["vclHrd"] > 0, E(h, "lowDelay"))
    \o Es(h, <<"picStruct", "restriction">>)
    \o If(h["restriction"] = 1, Es(h, <<"limits", "reorder", "decBuf">>))

WriteSps(h) ==
    Es(h, <<"profile", "id">>)
    \o If(h["profile"] = 100,
          E(h, "chroma") \o If(h["chroma"] = 3, E(h, "separate")) \o Es(h, <<"depths", "matrix">>)
          \o If(h["matrix"] = 1, E(h, "lists")))
    \o Es(h, <<"log2fn", "pocType">>)
    \o (CASE h["pocType"] = 0 -> E(h, "log2lsb")
          [] h["pocType"] = 1 -> Es(h, <<"alwaysZero", "nonRef", "topBottom", "cycle", "offsets">>)
          [] OTHER -> <<>>)
    \o Es(h, <<"maxRef", "gaps", "size", "mbsOnly">>) \o If(h["mbsOnly"] = 0, E(h, "mbaff"))
    \o Es(h, <<"direct8x8", "crop">>) \o If(h["crop"] = 1, E(h, "crops"))
    \o E(h, "vui") \o If(h["vui"] = 1, WriteVui(h))

WritePps(h) ==
    Es(h, <<"id", "spsId", "entropy", "bottomPoc", "groups", "l0", "l1", "wpred", "wbipred",
            "qps", "deblockCtl", "constrained", "redundantPres">>)
    \o If(h["t8x8"] + h["matrix"] + h["cqp2"] > 0,
          Es(h, <<"t8x8", "matrix">>) \o If(h["matrix"] = 1, E(h, "lists")) \o E(h, "cqp2"))

Flatten(ops, end) == FoldLeft(LAMBDA all, op : all \o op, <<1>>, ops) \o <<end>>

\* memory_management_control_operation with the arguments Table 7-9 gives it
MmcoCode(op) ==
    <<op[1]>> \o If(op[1] \in {1, 3}, <<op[2]>>) \o If(op[1] = 2, <<op[2]>>)
              \o If(op[1] \in {3, 6}, <<op[3]>>) \o If(op[1] = 4, <<op[2]>>)

WriteSlice(h, n, s, q) ==
    LET type == h["type"] % 5
        wt   == \/ q["wpred"] = 1 /\ type \in {0, 3}
                \/ q["wbipred"] = 1 /\ type = 1
        list(f) == <<[f |-> f, v |-> IF h[f] = <<>> THEN <<0>> ELSE Flatten(h[f], 3)]>>
        mark == [f |-> "marking",
                 v |-> IF n.idr THEN h["marking"] ELSE IF h["marking"] = <<>> THEN <<0>>
                       ELSE FoldLeft(LAMBDA all, op : all \o MmcoCode(op), <<1>>, h["marking"]) \o <<0>>]
    IN  Es(h, <<"firstMb", "type", "ppsId">>)
        \o If(s["separate"] = 1, E(h, "colourPlane")) \o E(h, "frameNum")
        \o If(s["mbsOnly"] = 0, E(h, "field") \o If(h["field"] = 1, E(h, "bottom")))
        \o If(n.idr, E(h, "idrPicId"))
        \o If(s["pocType"] = 0,
              E(h, "lsb") \o If(q["bottomPoc"] = 1 /\ h["field"] = 0, E(h, "deltaBottom")))
        \o If(s["pocType"] = 1 /\ s["alwaysZero"] = 0,
              E(h, "delta0") \o If(q["bottomPoc"] = 1 /\ h["field"] = 0, E(h, "delta1")))
        \o If(q["redundantPres"] = 1, E(h, "redundant"))
        \o If(type = 1, E(h, "direct"))
        \o If(type \in {0, 1, 3},
              E(h, "override")
              \o If(h["override"] = 1, E(h, "l0") \o If(type = 1, E(h, "l1"))))
        \o If(type \in {0, 1, 3}, list("rplm0")) \o If(type = 1, list("rplm1"))
        \o If(wt, E(h, "weights"))
        \o If(n.ref # 0, <<mark>>)
        \o If(q["entropy"] = 1 /\ type \in {0, 1, 3}, E(h, "cabac")) \o E(h, "qpDelta")
        \o If(type \in {3, 4}, If(type = 3, E(h, "spSwitch")) \o E(h, "qsDelta"))
        \o If(q["deblockCtl"] = 1, E(h, "deblock") \o If(h["deblock"] # 1, E(h, "alphaBeta")))

------------------------------------------------------------------------------
(* The encoder *)

MaxLsb(s) == 2^(s["log2lsb"] + 4)

\* Pictures, reference frames and the POC of the last reference frame since the
\* last IDR picture; the POC before the current one.
NewEncoder == [sps |-> None, pps |-> None, pics |-> 0, refs |-> 0, refPoc |-> 0, poc |-> 0, ref |-> 1]

NoSlice == [want |-> None, sps |-> None, pps |-> None, poc |-> 0, read |-> None, have |-> 0, ctrl |-> None]

StreamInit == /\ p = NewParser
              /\ enc = NewEncoder
              /\ seen = NoSlice

\* The sets of avcC, when the file is opened
SendAvcc(s, q) ==
    /\ enc.pics = 0 /\ enc.sps = None
    /\ p' = ParseAvcc(p, [sps |-> <<WriteSps(s)>>, pps |-> <<WritePps(q)>>])
    /\ enc' = [enc EXCEPT !.sps = s, !.pps = q]
    /\ UNCHANGED seen

\* Another picture set with the same id, between two pictures
SendPps(q) ==
    /\ enc.pics > 0 /\ enc.pps # q
    /\ p' = ParseParam(p, "pps", WritePps(q))
    /\ enc' = [enc EXCEPT !.pps = q]
    /\ UNCHANGED seen

\* The POC of 8.2.1 for a frame, from what the encoder counts
MeantPoc(n, delta, h) ==
    LET s == enc.sps
        sum[i \in 0 .. enc.refs] ==
            IF i = 0 THEN 0 ELSE sum[i - 1] + s["offsets"][((i - 1) % s["cycle"]) + 1]
        top == CASE s["pocType"] = 0 -> (IF n.idr THEN 0 ELSE enc.refPoc) + delta
                 [] s["pocType"] = 1 ->
                      (IF n.idr THEN 0
                       ELSE IF n.ref # 0 THEN sum[enc.refs]
                       ELSE sum[enc.refs - 1] + s["nonRef"]) + h["delta0"]
                 [] OTHER -> IF n.idr THEN 0 ELSE enc.poc + (IF n.ref # 0 /\ enc.ref # 0 THEN 2 ELSE 1)
        bottom == top + (IF s["pocType"] = 0 THEN h["deltaBottom"]
                         ELSE IF s["pocType"] = 1 THEN s["topBottom"] + h["delta1"] ELSE 0)
    IN  [top |-> top, poc |-> IF bottom < top THEN bottom ELSE top]

\* A picture is coded, read and its order computed.
Coded(n, m, h, r, c) ==
    LET s == enc.sps
    IN  /\ m.top \in -MaxLsb(s) .. Periods * MaxLsb(s)
        /\ p' = c.p
        /\ enc' = [enc EXCEPT !.pics = @ + 1, !.poc = m.poc, !.ref = n.ref,
                              !.refs = (IF n.idr THEN 0 ELSE @) + (IF n.ref # 0 THEN 1 ELSE 0),
                              !.refPoc = IF n.ref # 0 THEN m.top ELSE @]
        /\ seen' = [want |-> h, sps |-> s, pps |-> enc.pps, poc |-> m.poc, read |-> r, have |-> c.poc,
                    ctrl |-> FillControls(c.p, r, n, c.poc)]

SendFrame(n, delta, flags) ==
    LET s == enc.sps
        Header(m) == [flags EXCEPT !["frameNum"] = (IF n.idr THEN 0 ELSE enc.refs) % 2^(s["log2fn"] + 4),
                                   !["lsb"] = IF s["pocType"] = 0 THEN m.top % MaxLsb(s) ELSE 0]
    IN  /\ enc.pics < MaxPics(s)
        /\ enc.pics = 0 => n.idr
        /\ n.idr => n.ref # 0
        /\ s["pocType"] = 2 /\ n.ref = 0 => enc.ref # 0
        /\ \E m \in {MeantPoc(n, delta, flags)} : \E h \in {Header(m)} :
           \E r \in {ParseSlice(p, n, WriteSlice(h, n, s, enc.pps))} : \E c \in {ComputePoc(p, r.h, n)} :
              Coded(n, m, h, r, c)

\* How far a picture may lie from the reference picture before it (7.4.3)
Deltas(s, n) ==
    IF n.idr \/ s["pocType"] # 0 THEN {0} ELSE Steps \cap (1 - MaxLsb(s) \div 2 .. MaxLsb(s) \div 2)

Headers == [idr : BOOLEAN, ref : {0, 1}]

StreamNext ==
    \/ \E s \in SpsSet : \E q \in PpsSet(s) : SendAvcc(s, q)
    \/ enc.sps # None /\ \E q \in PpsSet(enc.sps) : SendPps(q)
    \/ enc.sps # None /\ enc.pics < MaxPics(enc.sps)
       /\ \E n \in Headers : \E flags \in Flags(enc.sps, enc.pps, n), delta \in Deltas(enc.sps, n) :
            SendFrame(n, delta, flags)

------------------------------------------------------------------------------
(* What the parser promises *)

\* Every picture gets the place in the output that the encoder gave it, over any
\* mix of reference and other pictures, wraps of frame_num and of the least
\* significant part in both directions, and IDR pictures (h264_parser_compute_poc).
PocRight == seen.want # None => seen.have = seen.poc

\* The parser stays in step with every header the standard allows here, and hands
\* the device the fields the encoder wrote (h264_parser_parse_slice, parse_param_nal).
HeaderRight ==
    seen.want # None => /\ seen.read.ok /\ ~seen.read.off
                        /\ seen.read.h = seen.want
                        /\ seen.ctrl.sps = seen.sps /\ seen.ctrl.pps = seen.pps

\* The list Table 7-2 falls back on: the nearest one before it of its own kind
\* that was sent, else the base of the kind.
FallBack(sent, i, Base(_)) ==
    LET kind  == CASE i \in 1 .. 3 -> {1, 2, 3} [] i \in 4 .. 6 -> {4, 5, 6}
                   [] OTHER -> {k \in 7 .. 12 : k % 2 = i % 2}
        there == {k \in kind : k <= i /\ sent[k] # "no"}
        last  == CHOOSE k \in there : \A j \in there : j <= k
        first == CHOOSE k \in kind : \A j \in kind : k <= j
    IN  IF there = {} THEN Base(first) ELSE IF sent[last] = "def" THEN DefaultList(i) ELSE sent[last]

\* The scaling lists the device is given are those of 7.4.2.1.1.1 and 7.4.2.2 under
\* the two sets in force (parse_scaling_lists, h264_parser_fill_controls).
ListsRight ==
    LET ofSps(i) == FallBack(seen.sps["lists"], i, DefaultList)
        base(i)  == IF seen.sps["matrix"] = 1 THEN ofSps(i) ELSE DefaultList(i)
        want(i)  == IF seen.pps["matrix"] = 1 THEN FallBack(seen.pps["lists"], i, base)
                    ELSE IF seen.sps["matrix"] = 1 THEN ofSps(i) ELSE "flat16"
        used     == IF seen.pps["matrix"] = 1 THEN 1 .. Len(seen.pps["lists"])
                    ELSE IF seen.sps["matrix"] = 1 THEN 1 .. Len(seen.sps["lists"]) ELSE 1 .. 12
    IN  seen.want # None => \A i \in used : seen.ctrl.lists[i] = want(i)

\* What the device and the output order are given is what the encoder meant.
StreamRight == HeaderRight /\ PocRight /\ ListsRight
==============================================================================
