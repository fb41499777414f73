------------------------------ MODULE Mp4Demux -------------------------------
(* The demuxer of mp4_demux.c: the boxes of a file, the choice of the video
   track, the sample table, and the reading of samples while the card may go.

   A box is [t |-> type, size |-> how its size field is written, body]: "exact"
   also stands for the 64-bit form, "rest" for the 0 that means "to the end of
   what is around it", "bad" for a size below its own header or beyond the data
   around it. A table is [head |-> whether its fixed part is there, n |-> the
   count it declares, rows |-> the rows that lie inside the box].             *)
EXTENDS Integers, Sequences, SequencesExt

CONSTANTS Nil,
          Files,         \* the files that may be played
          FileBytes,     \* st_size
          MaxSampleSize, \* MP4_MAX_SAMPLE_SIZE
          MaxExtradata   \* MP4_MAX_EXTRADATA

VARIABLES file,   \* the file that is opened
          mp4,    \* struct mp4_demux, Nil when closed
          card,   \* "in" or "out": the card the file is on
          read    \* ghost: the last sample that was read: [index, result, from, size]

mp4Vars == <<file, mp4, card, read>>

------------------------------------------------------------------------------
(* Boxes *)

\* box_next until it fails: a bad size ends the walk, also for what comes behind.
Boxes(data) ==
    LET stops == {i \in DOMAIN data : data[i].size # "exact"}
        first == CHOOSE i \in stops : \A j \in stops : i <= j
    IN  IF stops = {} THEN data
        ELSE IF data[first].size = "rest" THEN SubSeq(data, 1, first)
        ELSE SubSeq(data, 1, first - 1)

\* find_box: the body of the first box of a type, Nil without one
FindBox(data, t) ==
    LET there == {i \in DOMAIN Boxes(data) : Boxes(data)[i].t = t}
    IN  IF there = {} THEN Nil ELSE data[CHOOSE i \in there : \A j \in there : i <= j].body

------------------------------------------------------------------------------
(* The sample description *)

Codecs == [avc1 |-> "h264", avc3 |-> "h264", hvc1 |-> "h265", hev1 |-> "h265"]
ConfigOf == [h264 |-> "avcC", h265 |-> "hvcC"]
ConfigMin == [h264 |-> 5, h265 |-> 23]

\* parse_stsd: [ok, m]; m keeps what was stored before a failure. The config is
\* only pointed to: it lies in the mapping.
WithConfig(m, codec, cfg) ==
    LET found == [m EXCEPT !.extra = "mapped", !.extraSize = cfg.size]
    IN  IF cfg = Nil THEN [ok |-> FALSE, m |-> m]
        ELSE IF cfg.size < ConfigMin[codec] THEN [ok |-> FALSE, m |-> found]
        ELSE [ok |-> TRUE, m |-> [found EXCEPT !.lenSize = cfg.lenSize]]
ParseStsd(m, d) ==
    LET codec == Codecs[d.fmt]
        sized == [m EXCEPT !.codec = codec, !.width = d.width]
    IN  IF d.n = 0 \/ ~d.head \/ d.fmt \notin DOMAIN Codecs THEN [ok |-> FALSE, m |-> m]
        ELSE IF ~d.whole THEN [ok |-> FALSE, m |-> sized]
        ELSE WithConfig(sized, codec, FindBox(d.children, ConfigOf[codec]))

------------------------------------------------------------------------------
(* The sample table *)

\* Mutant: a row whose first chunk is reached is taken from the chunk after it on.
SamplesPerChunkLate(stsc, chunk) ==
    LET seen == {k \in 1 .. stsc.n : k <= Len(stsc.rows)}
        ends == {k \in seen : stsc.rows[k].first >= chunk}
        k0   == CHOOSE k \in ends : \A j \in ends : k <= j
        last == IF ends = {} THEN stsc.n ELSE k0 - 1
    IN  IF ends = {} /\ stsc.n > Len(stsc.rows) THEN Nil
        ELSE IF last = 0 THEN 0 ELSE stsc.rows[last].per

\* The inner loop of build_samples: the last row whose first_chunk is not behind
\* the chunk; rows are looked at up to the first that is, Nil when that leaves the box.
SamplesPerChunk(stsc, chunk) ==
    LET seen == {k \in 1 .. stsc.n : k <= Len(stsc.rows)}
        ends == {k \in seen : stsc.rows[k].first > chunk}
        k0   == CHOOSE k \in ends : \A j \in ends : k <= j
        last == IF ends = {} THEN stsc.n ELSE k0 - 1
    IN  IF ends = {} /\ stsc.n > Len(stsc.rows) THEN Nil
        ELSE IF last = 0 THEN 0 ELSE stsc.rows[last].per

\* The walk over the chunks: [ok, offs], the offsets given out so far. A chunk
\* without samples is passed over.
WalkChunks(sizes, stsc, stco) ==
    LET Given(acc, c, per) ==
            LET left  == Len(sizes) - Len(acc.offs)
                n     == IF per < left THEN per ELSE left
                at[k \in 1 .. n] ==
                    IF k = 1 THEN stco.rows[c] ELSE at[k - 1] + sizes[Len(acc.offs) + k - 1]
            IN  IF per = Nil THEN [acc EXCEPT !.ok = FALSE]
                ELSE [acc EXCEPT !.offs = @ \o [k \in 1 .. n |-> at[k]]]
        OneChunk(acc, c) ==
            IF ~acc.ok \/ Len(acc.offs) = Len(sizes) THEN acc ELSE Given(acc, c, SamplesPerChunk(stsc, c))
    IN  IF stsc.n = 0 THEN [ok |-> FALSE, offs |-> <<>>]
        ELSE FoldLeft(OneChunk, [ok |-> TRUE, offs |-> <<>>], [c \in 1 .. stco.n |-> c])

\* What the counts may be: they are bounded by the tables, and the data of samples
\* of one size by the file.
CountsFit(stsz, stco) ==
    /\ stsz.head /\ stsz.n > 0
    /\ IF stsz.size = 0 THEN stsz.n <= Len(stsz.rows) ELSE stsz.n * stsz.size <= FileBytes
    /\ stco.head /\ stco.n > 0 /\ stco.n <= Len(stco.rows)

\* stss: without it every sample is a sync sample; numbers out of range are ignored.
SyncOf(stss, count) ==
    [s \in 1 .. count |->
        \/ stss = Nil
        \/ stss.head /\ \E i \in 1 .. stss.n : i <= Len(stss.rows) /\ stss.rows[i] = s]

\* Mutant: the largest sample is asked of the first only.
LargestFirst(m, sizes) == IF sizes[1] > m.maxSize THEN sizes[1] ELSE m.maxSize

\* max_sample_size: over every sample of every track that was looked at
Largest(m, sizes) == FoldLeft(LAMBDA a, b : IF b > a THEN b ELSE a, m.maxSize, sizes)

\* build_samples: [ok, m]. max_sample_size grows also when the walk fails.
SamplesOf(m, sizes, walk, stss, stts) ==
    LET count == Len(walk.offs)
        sync  == SyncOf(stss, count)
    IN  IF ~walk.ok THEN [ok |-> FALSE, m |-> [m EXCEPT !.maxSize = Largest(m, sizes)]]
        ELSE [ok |-> TRUE,
              m  |-> [m EXCEPT !.maxSize = Largest(m, sizes),
                               !.samples = [s \in 1 .. count |->
                                   [from |-> walk.offs[s], size |-> sizes[s], sync |-> sync[s]]],
                               !.delta = IF stts # Nil /\ stts.n >= 1 THEN stts.rows[1] ELSE @]]
BuildSamples(m, stbl) ==
    LET Sized(sizes, stsc, stco) ==
            SamplesOf(m, sizes, WalkChunks(sizes, stsc, stco), FindBox(stbl, "stss"), FindBox(stbl, "stts"))
        From(stsz, stsc, stco) ==
            IF Nil \in {stsz, stsc, stco} \/ ~CountsFit(stsz, stco) THEN [ok |-> FALSE, m |-> m]
            ELSE Sized([s \in 1 .. stsz.n |-> IF stsz.size # 0 THEN stsz.size ELSE stsz.rows[s]], stsc, stco)
        Offsets(stco) == IF stco # Nil THEN stco ELSE FindBox(stbl, "co64")
    IN  From(FindBox(stbl, "stsz"), FindBox(stbl, "stsc"), Offsets(FindBox(stbl, "stco")))

------------------------------------------------------------------------------
(* The track and the file *)

\* The path of parse_trak down to stbl, Nil where a box is missing or it is no video
StblOf(trak) ==
    LET Within(minf) == IF minf = Nil THEN Nil ELSE FindBox(minf, "stbl")
        Video(mdia) == IF mdia = Nil THEN Nil ELSE IF FindBox(mdia, "hdlr") # "vide" THEN Nil ELSE Within(FindBox(mdia, "minf"))
    IN  Video(FindBox(trak, "mdia"))

\* parse_trak: [ok, m]; the track header may have another width, the media header a scale of time
Timed(b, mdhd) ==
    IF ~b.ok \/ mdhd \in {Nil, 0} \/ b.m.delta = 0 THEN b ELSE [b EXCEPT !.m.duration = (b.m.delta * 1000) \div mdhd]
ParseTrak(m, trak) ==
    LET Wide(n, tkhd) == IF tkhd \in {Nil, 0} THEN n ELSE [n EXCEPT !.width = tkhd]
        Described(d, stbl) ==
            IF ~d.ok THEN d
            ELSE Timed(BuildSamples(Wide(d.m, FindBox(trak, "tkhd")), stbl), FindBox(FindBox(trak, "mdia"), "mdhd"))
        Of(stbl, stsd) == IF stsd = Nil THEN [ok |-> FALSE, m |-> m] ELSE Described(ParseStsd(m, stsd), stbl)
        Down(stbl) == IF stbl = Nil THEN [ok |-> FALSE, m |-> m] ELSE Of(stbl, FindBox(stbl, "stsd"))
    IN  Down(StblOf(trak))

\* The loop of mp4_open over the tracks, up to the first that is usable
PickTrack(m, moov) ==
    FoldLeft(LAMBDA acc, box : IF acc.ok \/ box.t # "trak" THEN acc ELSE ParseTrak(acc.m, box.body),
             [ok |-> FALSE, m |-> m], Boxes(moov))

\* The memset of mp4_open
Empty == [codec |-> Nil, width |-> 0, extra |-> Nil, extraSize |-> 0, lenSize |-> 0, samples |-> <<>>,
          maxSize |-> 0, bufCap |-> 0, delta |-> 0, duration |-> 0]

\* mp4_open after open, fstat and mmap: the headers, the ceilings, and then a
\* buffer for the largest sample; the mapping is given up. Nil when it fails.
OpenedFrom(f) ==
    LET Checked(t) ==
            IF ~t.ok \/ t.m.maxSize > MaxSampleSize \/ t.m.extraSize > MaxExtradata THEN Nil
            ELSE [t.m EXCEPT !.extra = IF t.m.extraSize > 0 THEN "owned" ELSE Nil, !.bufCap = t.m.maxSize]
        Within(moov) == IF moov = Nil THEN Nil ELSE Checked(PickTrack(Empty, moov))
    IN  Within(FindBox(f.boxes, "moov"))

Mp4Open ==
    /\ mp4 = Nil /\ card = "in"
    /\ mp4' = OpenedFrom(file)
    /\ mp4' # Nil
    /\ UNCHANGED <<file, card, read>>

\* mp4_close
Mp4Close ==
    /\ mp4 # Nil
    /\ mp4' = Nil
    /\ UNCHANGED <<file, card, read>>

\* mp4_read_sample: a short read is a lost source; data behind the end of a file
\* that is there cannot be told from that.
ReadSample(i) ==
    LET s == mp4.samples[i]
    IN  /\ mp4 # Nil
        /\ read' = [index |-> i, from |-> s.from, size |-> s.size,
                    result |-> IF i > Len(mp4.samples) THEN "range"
                               ELSE IF s.size > mp4.bufCap THEN "range"
                               ELSE IF card = "out" \/ s.from + s.size > FileBytes THEN "io" ELSE "ok"]
        /\ UNCHANGED <<file, mp4, card>>

\* The samples are read in order, again and again
PullCard == card = "in" /\ card' = "out" /\ UNCHANGED <<file, mp4, read>>
PutCard  == card = "out" /\ mp4 = Nil /\ card' = "in" /\ UNCHANGED <<file, mp4, read>>

Unread == [index |-> 0, from |-> 0, size |-> 0, result |-> Nil]

Mp4Init == file \in Files /\ mp4 = Nil /\ card = "in" /\ read = Unread

Mp4Next ==
    \/ Mp4Open \/ Mp4Close \/ PullCard \/ PutCard
    \/ mp4 # Nil /\ \E i \in DOMAIN mp4.samples : ReadSample(i)

------------------------------------------------------------------------------
(* What the demuxer promises *)

\* The table of ISO 14496-12: the rows are runs of chunks, the samples of a chunk
\* lie one behind the other.
StblIn(f, k) == StblOf(FindBox(f.boxes, "moov")[k].body)
PerChunk(stsc, c) ==
    LET at == {k \in 1 .. stsc.n : k <= Len(stsc.rows) /\ stsc.rows[k].first <= c}
    IN  IF at = {} THEN 0 ELSE stsc.rows[CHOOSE k \in at : \A j \in at : j <= k].per
Before(stsc, c) == LET sum[i \in 0 .. c] == IF i = 0 THEN 0 ELSE sum[i - 1] + PerChunk(stsc, i) IN sum[c]

RightTable(stbl, samples) ==
    LET stsz == FindBox(stbl, "stsz")
        stsc == FindBox(stbl, "stsc")
        stco == FindBox(stbl, "stco")
        size(s) == IF stsz.size # 0 THEN stsz.size ELSE stsz.rows[s]
        total == Before(stsc, stco.n)
        chunk(s) == CHOOSE c \in 1 .. stco.n : Before(stsc, c - 1) < s /\ s <= Before(stsc, c)
        upto[s \in 1 .. stsz.n + 1] == IF s = 1 THEN 0 ELSE upto[s - 1] + size(s - 1)
    IN  /\ Len(samples) = IF total < stsz.n THEN total ELSE stsz.n
        /\ \A s \in DOMAIN samples :
              /\ samples[s].size = size(s)
              /\ samples[s].from = stco.rows[chunk(s)] + upto[s] - upto[Before(stsc, chunk(s) - 1) + 1]

\* An opened file plays samples of one of its tracks, each from the place and with
\* the size its tables give it, whatever tracks were tried before (build_samples).
TableRight ==
    mp4 # Nil =>
        \E k \in DOMAIN FindBox(file.boxes, "moov") :
            /\ FindBox(file.boxes, "moov")[k].t = "trak" /\ StblIn(file, k) # Nil
            /\ Nil \notin {FindBox(StblIn(file, k), t) : t \in {"stsz", "stsc", "stco"}}
            /\ RightTable(StblIn(file, k), mp4.samples)

\* "can't happen: buf == max_sample_size" (mp4_demux.c:506): no sample is larger
\* than the buffer, and what is read is what lies inside the file.
SamplesFit ==
    /\ mp4 # Nil => \A s \in DOMAIN mp4.samples : mp4.samples[s].size <= mp4.bufCap
    /\ read.result # "range"
    /\ read.result = "ok" => read.from + read.size <= FileBytes

\* A file that opens is read as its tables say.
FileRight == TableRight /\ SamplesFit
==============================================================================
