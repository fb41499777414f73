------------------------------ MODULE BitReader ------------------------------
(* The bit reader of the H.264 parser (bitreader.c) and the splitting of an
   access unit into NAL units (nalu.c).

   A reader is a record with the fields of struct bitreader; a byte is a number
   below 256. Reads of at most 16 bits are modelled, so that 16 bits of the
   64-bit cache are enough (Kept) and TLC's integers do not overflow: the
   syntax elements of the parser that are wider are two reads in the model.

   The machine at the end reads one NAL unit after another of an access unit,
   in pieces of any width, the way a parser does.                            *)
EXTENDS Integers, Sequences, FiniteSets

CONSTANTS AccessUnits,  \* the access units the machine reads: sequences of bytes
          LenSize,      \* bytes of a length prefix (nal_length_size)
          Widths        \* the fixed widths it reads

VARIABLES au,           \* the access unit
          cursor,       \* mp_decode_au's cursor into it
          br,           \* the reader of the current unit
          got           \* ghost: the last read: kind, where it began, what it returned

bitVars == <<au, cursor, br, got>>

Kept == 65536

------------------------------------------------------------------------------
(* bitreader.c *)

\* Mutant: the history begins with zeros, so a first byte 3 is taken for an escape.
ReaderZeros(data) ==
    [data |-> data, byte |-> 0, cached |-> 0, first |-> 255, cache |-> 255,
     last |-> <<0, 0>>, epb |-> 0]

\* br_init: epb_cache starts at 0xff, so nothing before the data counts as zero.
Reader(data) ==
    [data |-> data, byte |-> 0, cached |-> 0, first |-> 255, cache |-> 255,
     last |-> <<0, 255>>, epb |-> 0]

\* The loop of br_read: bytes are fetched until n bits are there. The byte 3 of
\* 00 00 03 is skipped and counted. Running out of data in the middle leaves the
\* reader empty, whatever it held before.
RECURSIVE Fill(_, _)
Fill(b, n) ==
    IF b.cached >= n THEN [ok |-> TRUE, br |-> b]
    ELSE IF b.byte >= Len(b.data) THEN [ok |-> FALSE, br |-> [b EXCEPT !.cached = 0]]
    ELSE LET x == b.data[b.byte + 1]
             r == [b EXCEPT !.byte = @ + 1, !.last = <<b.last[2], x>>]
         IN  IF b.last = <<0, 0>> /\ x = 3
             THEN Fill([r EXCEPT !.epb = @ + 1], n)
             ELSE Fill([r EXCEPT !.cache = (b.cache * 256 + b.first) % Kept,
                                 !.first = x, !.cached = @ + 8], n)

\* br_read: val is untouched by a failure, which br_u and br_ue_v read as 0.
BitsIn(f, n) ==
    LET shift == f.br.cached - n
    IN  IF ~f.ok THEN [ok |-> FALSE, val |-> 0, br |-> f.br]
        ELSE [ok  |-> TRUE,
              val |-> (f.br.first \div 2^shift + f.br.cache * 2^(8 - shift)) % 2^n,
              br  |-> [f.br EXCEPT !.cached = shift]]

BrRead(b, n) ==
    IF n = 0 THEN [ok |-> TRUE, val |-> 0, br |-> b]
    ELSE IF n > 32 \/ b.byte * 8 + n - b.cached > Len(b.data) * 8
    THEN [ok |-> FALSE, val |-> 0, br |-> b]
    ELSE BitsIn(Fill(b, n), n)

\* The leading zeros of br_ue, up to and with the 1 that ends them.
RECURSIVE Zeros(_, _)
Zeros(b, i) ==
    LET Goes(r) == IF ~r.ok \/ r.val = 1 THEN [ok |-> r.ok, n |-> i, br |-> r.br] ELSE Zeros(r.br, i + 1)
    IN  Goes(BrRead(b, 1))

\* br_ue
BrUe(b) ==
    LET Code(z, r) == IF ~z.ok \/ z.n > 31 THEN [ok |-> FALSE, val |-> 0, br |-> z.br]
                      ELSE [r EXCEPT !.val = IF r.ok THEN 2^z.n - 1 + @ ELSE 0]
        Rest(z) == Code(z, BrRead(z.br, z.n))
    IN  Rest(Zeros(b, 0))

\* br_se
BrSe(b) ==
    LET Signed(r) == [r EXCEPT !.val = IF @ % 2 = 1 THEN @ \div 2 + 1 ELSE -(@ \div 2)]
    IN  Signed(BrUe(b))

\* br_pos, br_epb_count and br_remaining
BrPos(b)       == b.byte * 8 - b.cached
BrRemaining(b) == (Len(b.data) - b.byte) * 8 + b.cached

\* The loop of br_more_rbsp_data: the rest of the byte, then byte after byte.
RECURSIVE AnyOne(_, _, _)
AnyOne(b, n, remaining) ==
    LET Goes(r) == r.ok /\ (r.val # 0 \/ AnyOne(r.br, 8, remaining - n))
    IN  remaining > 0 /\ Goes(BrRead(b, n))

\* br_more_rbsp_data, on a copy of the reader
BrMore(b) ==
    LET n == BrRemaining(b) - 1
        Goes(r) == r.ok /\ (r.val = 0 \/ AnyOne(r.br, n % 8, n))
    IN  BrRemaining(b) # 0 /\ Goes(BrRead(b, 1))

------------------------------------------------------------------------------
(* nalu.c *)

\* nalu_next_length_prefixed; the remaining room is what sizes are compared with.
NextUnit(data, at) ==
    LET none  == [ok |-> FALSE, from |-> 0, size |-> 0, cursor |-> at]
        len[i \in 0 .. LenSize] == IF i = 0 THEN 0 ELSE len[i - 1] * 256 + data[at + i]
        from  == at + LenSize
    IN  IF LenSize \notin 1 .. 4 \/ at > Len(data) \/ Len(data) - at < LenSize THEN none
        ELSE IF len[LenSize] = 0 \/ len[LenSize] > Len(data) - from THEN none
        ELSE [ok |-> TRUE, from |-> from, size |-> len[LenSize], cursor |-> from + len[LenSize]]

------------------------------------------------------------------------------
(* An access unit is read: unit after unit, and in a unit piece after piece *)

Nothing == [kind |-> "none", at |-> 0, n |-> 0, ok |-> TRUE, val |-> 0]

BitInit ==
    /\ au \in AccessUnits
    /\ cursor = 0
    /\ br = Reader(<<>>)
    /\ got = Nothing

\* The loop of mp_decode_au takes the next unit; its parser skips the header byte.
TakeUnit ==
    LET u == NextUnit(au, cursor)
    IN  /\ u.ok
        /\ cursor' = u.cursor
        /\ br' = Reader(SubSeq(au, u.from + 2, u.from + u.size))
        /\ got' = Nothing
        /\ UNCHANGED au

\* Bits of payload that were read: raw bits less the bytes that were skipped.
Consumed(b) == BrPos(b) - 8 * b.epb

Reads(kind, n, r) ==
    /\ br' = r.br
    /\ got' = [kind |-> kind, at |-> Consumed(br), n |-> n, ok |-> r.ok, val |-> r.val]
    /\ UNCHANGED <<au, cursor>>

ReadBits(n) == Reads("u", n, BrRead(br, n))
ReadUe == \E r \in {BrUe(br)} : Reads("ue", Consumed(r.br) - Consumed(br), r)
ReadSe == \E r \in {BrSe(br)} : Reads("se", Consumed(r.br) - Consumed(br), r)

BitNext == TakeUnit \/ ReadUe \/ ReadSe \/ \E n \in Widths : ReadBits(n)

------------------------------------------------------------------------------
(* What the reader promises *)

\* The payload: the bytes of the unit without those that follow two zeros and are 3.
Payload(data) ==
    LET keep == {i \in 1 .. Len(data) :
                    ~(i > 2 /\ data[i] = 3 /\ data[i - 1] = 0 /\ data[i - 2] = 0)}
        nth(k) == CHOOSE i \in keep : Cardinality({j \in keep : j <= i}) = k
    IN  [k \in 1 .. Cardinality(keep) |-> data[nth(k)]]

\* Bit i of a sequence of bytes, the most significant bit of the first byte being bit 1
Bit(bytes, i) == (bytes[((i - 1) \div 8) + 1] \div 2^(7 - ((i - 1) % 8))) % 2
BitsOf(bytes, from, n) ==
    LET v[i \in 0 .. n] == IF i = 0 THEN 0 ELSE 2 * v[i - 1] + Bit(bytes, from + i)
    IN  v[n]

\* A read that succeeds returns the bits of the payload at the place where the
\* reads before it ended, in whatever pieces they were made and wherever the
\* emulation prevention bytes lie; a code number is read whole and has the value
\* of 9.1. header_bit_size is computed from these positions (br_read, br_ue, br_se).
BitsRight ==
    LET pay == Payload(br.data)
        z   == (got.n - 1) \div 2
        ue  == BitsOf(pay, got.at, got.n) - 1
    IN  got.kind # "none" /\ got.ok =>
            /\ Consumed(br) = got.at + got.n
            /\ got.at + got.n <= 8 * Len(pay)
            /\ got.kind = "u"  => got.val = BitsOf(pay, got.at, got.n)
            /\ got.kind # "u"  => got.n = 2 * z + 1 /\ BitsOf(pay, got.at, z) = 0
            /\ got.kind = "ue" => got.val = ue
            /\ got.kind = "se" => (IF got.val > 0 THEN 2 * got.val - 1 ELSE -2 * got.val) = ue

\* The tail of a parameter set is looked for exactly where the stop bit has not
\* been reached, also behind emulation prevention bytes (br_more_rbsp_data).
MoreRight ==
    LET pay  == Payload(br.data)
        here == Consumed(br)
        ones == {i \in here + 1 .. 8 * Len(pay) : Bit(pay, i) = 1}
    IN  BrRemaining(br) > 0 /\ here < 8 * Len(pay) =>
            (BrMore(br) <=> (Bit(pay, here + 1) = 0 \/ Cardinality(ones) > 1))

\* Whatever the escapes, the reader is where it should be and sees what is there.
ReadsRight == BitsRight /\ MoreRight
==============================================================================
