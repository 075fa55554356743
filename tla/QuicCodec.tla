----------------------------- MODULE QuicCodec ------------------------------
(***************************************************************************)
(* QUIC images (capsaicin-quic/src/lib.rs): the encoder and the decoder,   *)
(* symbol by symbol, each with its copy of everything that adapts.  The    *)
(* encoder of the repository writes RGB32; the planes of the other formats *)
(* are written by the SPICE server (external) as their decoders expect     *)
(* them, without runs.                                                     *)
(*                                                                         *)
(* The encoder has finished before the decoder starts; as it never looks   *)
(* at what is decoded, they take turns here.  The image is chosen as it is *)
(* encoded.                                                                *)
(***************************************************************************)
EXTENDS QuicCode

CONSTANTS
    Bpc8, Bpc5,     \* 8, 5: bits of a channel; RGB16 has the fewer
    MinExtent,      \* DEFWMINEXT = 2048: pixels before the wait mask grows
    MaxWm,          \* DEFWMIMAX = 6: how often it does
    Triggers,       \* BESTTRIGTAB[1]: per size of the wait mask, from 0 on
    Chaos,          \* TABRAND_CHAOS
    MaxDim, MaxBytes,   \* MAX_IMAGE_DIM, MAX_IMAGE_BYTES
    Planes,         \* plane to its channels, in the order of their codewords
    QuicImages,     \* streams: header, and whether the body may be damaged
    Palette,        \* plane to the pixels the images are made of
    Damages,        \* sequences of bits that a damaged stream ends in
    Spares          \* zeros the reader gives out behind the last bit: 32,
                    \* and those of a word that is not complete

Formats == {"rgb24", "rgb32", "rgba", "gray", "rgb16"}
Bpc(plane) == IF plane = "rgb16" THEN Bpc5 ELSE Bpc8
Channels(plane) == {Planes[plane][k] : k \in DOMAIN Planes[plane]}

ASSUME QuicAssumption ==
    /\ MinExtent \in Nat \ {0} /\ MaxWm \in Nat
    /\ Triggers \in [0 .. MaxWm -> Nat] /\ Chaos \in Seq(Nat) /\ Chaos # <<>>
    /\ MaxDim \in Nat /\ MaxBytes \in Nat
    /\ DOMAIN Planes = {"rgb", "alpha", "gray", "rgb16"}
    /\ \A p \in DOMAIN Planes : /\ Planes[p] \in Seq(STRING) /\ Planes[p] # <<>>
                                /\ Palette[p] \subseteq [Channels(p) -> Symbols(Bpc(p))]
    /\ \A i \in QuicImages : i.width \in Nat /\ i.height \in Nat /\ i.format \in Formats
    /\ Damages \subseteq Seq({0, 1}) /\ Spares \subseteq Nat
    /\ \A bpc \in {Bpc8, Bpc5} : bpc \in 1 .. MaxCodeLen /\ 2^bpc <= XlatSize

VARIABLES
    quicImage,      \* the stream's header
    enc, dec,       \* the coders, see FreshCoder
    pixel,          \* encoder: the pixel being encoded
    breaks,         \* encoder: the next pixel differs from the last
    bits,           \* the stream from where the decoder is
    garbled,        \* the rest of the stream is not the encoder's
    spare,          \* bits that may still be read behind the end
    outcome         \* Result: "header", "body"; "done", "refused", "short", "panic"

quicVars == <<quicImage, enc, dec, pixel, breaks, bits, garbled, spare, outcome>>

Width == quicImage.width
Height == quicImage.height

-----------------------------------------------------------------------------
(***************************************************************************)
(* The planes of a format, decoded one behind the other from one reader,   *)
(* each with coders of its own.                                            *)
(***************************************************************************)
decompress_rgb32 == <<"rgb">>
decompress_rgba == <<"rgb", "alpha">>
decompress_gray == <<"gray">>
decompress_rgb16 == <<"rgb16">>

\* decode_quic's choice; RGB24 is RGB32.
PlanesOf(format) ==
    CASE format \in {"rgb24", "rgb32"} -> decompress_rgb32
      [] format = "rgba" -> decompress_rgba
      [] format = "gray" -> decompress_gray
      [] format = "rgb16" -> decompress_rgb16

Columns == 0 .. Width - 1
Blank(plane) == [x \in Columns |-> [ch \in Channels(plane) |-> 0]]

\* The next segment of a row: up to where the wait mask grows, or the rest.
Segment(c, pos) ==
    LET grows == c.wmidx < MaxWm /\ c.wmileft <= Width - pos IN
    [c EXCEPT !.start = pos, !.at = pos, !.grows = grows, !.run = -1,
              !.end = IF grows THEN pos + c.wmileft ELSE Width,
              !.stop = pos + c.waitcnt]

\* CommonState::default, ChannelDecoder::new, at the start of the first row.
FreshCoder(plane, left) ==
    Segment([plane |-> plane, left |-> left, row |-> 0, k |-> 1,
             start |-> 0, at |-> 0, end |-> 0, grows |-> FALSE, stop |-> 0, run |-> -1,
             waitcnt |-> 0, seed |-> Len(Chaos) - 1,
             wmidx |-> 0, wmileft |-> MinExtent, melcstate |-> 0,
             buckets |-> [ch \in Channels(plane) |->
                            [b \in Buckets(Bpc(plane)) |-> NewBucket(Bpc(plane))]],
             corr |-> [ch \in Channels(plane) |-> [x \in Columns |-> 0]],
             minus1 |-> [ch \in Channels(plane) |-> 0],
             prev |-> Blank(plane), cur |-> Blank(plane)], 0)

QuicInit ==
    /\ quicImage \in QuicImages
    /\ enc = <<>> /\ dec = <<>> /\ pixel = <<>> /\ breaks = FALSE
    /\ bits = <<>> /\ garbled = FALSE /\ spare = 0 /\ outcome = "header"

\* QuicHeader::decode and validate_dims, which takes 4 bytes for a pixel.
validate_dims ==
    /\ Width \in 1 .. MaxDim /\ Height \in 1 .. MaxDim
    /\ Width * Height * 4 <= MaxBytes

OpenStream ==
    /\ outcome = "header"
    /\ IF quicImage.sound /\ validate_dims
         THEN LET planes == PlanesOf(quicImage.format) IN
              /\ dec' = FreshCoder(Head(planes), Tail(planes)) /\ enc' = dec'
              /\ outcome' = "body"
         ELSE outcome' = "refused" /\ UNCHANGED <<enc, dec>>
    /\ UNCHANGED <<quicImage, pixel, breaks, bits, garbled, spare>>

-----------------------------------------------------------------------------
(***************************************************************************)
(* What both sides do behind a symbol.                                     *)
(***************************************************************************)
\* The rows of a plane end: the next plane, or the image is complete.
NextPlane(c) ==
    IF c.left = <<>> THEN [c EXCEPT !.plane = "done"]
    ELSE FreshCoder(Head(c.left), Tail(c.left))

\* decompress_rgb_phase: residuals stay where they are; the first one becomes
\* the one before the next row's first.
NextRow(c) ==
    IF c.row + 1 = Height THEN NextPlane(c)
    ELSE Segment([c EXCEPT !.row = @ + 1, !.prev = c.cur, !.cur = Blank(c.plane),
                           !.minus1 = [ch \in DOMAIN @ |-> c.corr[ch][0]]], 0)

NextSegment(c) == IF c.end = Width THEN NextRow(c) ELSE Segment(c, c.end)

\* decompress_row_rgb32 behind a segment.
SegmentOver(c) ==
    NextSegment(IF c.grows THEN [c EXCEPT !.wmidx = @ + 1, !.wmileft = MinExtent]
                ELSE IF c.wmidx < MaxWm THEN [c EXCEPT !.wmileft = @ - (c.end - c.start)]
                ELSE c)

\* What was coded before the pixel at x: the residual that chooses the bucket.
Before(c, ch, x) == IF x = 0 THEN c.minus1[ch] ELSE c.corr[ch][x - 1]

Adapted(c, ch, x) ==
    LET bpc == Bpc(c.plane) IN
    [c.buckets[ch] EXCEPT ![find_bucket(bpc, Before(c, ch, x))] =
        update_model(bpc, Triggers[c.wmidx], @, c.corr[ch][x])]

update_models_at(c, x) ==
    [c EXCEPT !.buckets = [ch \in DOMAIN @ |-> Adapted(c, ch, x)]]

\* tabrand, under the wait mask.
NextSeed(c) == (c.seed + 1) % Len(Chaos)
Wait(c) == Chaos[NextSeed(c) + 1] % 2^c.wmidx

\* decompress_seg_rgb32 behind the pixel at c.at: the first of a row counts
\* waitcnt down, the others stop at stopidx, and either then adapts.
PixelOver(c) ==
    IF c.at = 0
    THEN IF c.waitcnt > 0
         THEN [c EXCEPT !.waitcnt = @ - 1, !.at = 1, !.stop = c.waitcnt]
         ELSE [update_models_at(c, 0) EXCEPT
                 !.seed = NextSeed(c), !.waitcnt = Wait(c), !.at = 1, !.stop = 1 + Wait(c)]
    ELSE IF c.at = c.stop
         THEN [update_models_at(c, c.at) EXCEPT
                 !.seed = NextSeed(c), !.at = @ + 1, !.stop = c.at + 1 + Wait(c)]
         ELSE [c EXCEPT !.at = @ + 1]

\* The tail of a segment saves what is left to wait for.
AfterPixel(c) ==
    LET p == PixelOver(c) IN
    IF p.at = p.end THEN SegmentOver([p EXCEPT !.waitcnt = p.stop - p.end]) ELSE p

\* Behind the codeword of a channel.
AfterChannel(c) ==
    IF c.k < Len(Planes[c.plane]) THEN [c EXCEPT !.k = @ + 1]
    ELSE AfterPixel([c EXCEPT !.k = 1])

\* do_run_copy_rgb32
Copied(c, n) ==
    [x \in Columns |-> IF x \in c.at .. c.at + n - 1 THEN c.cur[c.at - 1] ELSE c.cur[x]]

\* Behind a run of n pixels: the wait goes on, also if the segment ends here.
AfterRun(c, n, melcstate) ==
    LET r == [c EXCEPT !.waitcnt = c.stop - c.at, !.run = c.at, !.melcstate = melcstate,
                       !.cur = Copied(c, n), !.at = @ + n] IN
    IF r.at = r.end THEN SegmentOver(r) ELSE [r EXCEPT !.stop = r.at + r.waitcnt]

\* Only the RGB decoder has runs.
HasRuns(plane) == plane = "rgb"

\* The predictor: left, above, or between the two.
Predicted(c, ch) ==
    IF c.at = 0 THEN IF c.row = 0 THEN 0 ELSE c.prev[0][ch]
    ELSE IF c.row = 0 THEN c.cur[c.at - 1][ch]
    ELSE (c.cur[c.at - 1][ch] + c.prev[c.at][ch]) \div 2

Channel(c) == Planes[c.plane][c.k]

\* The code of the bucket that the residual before chooses.
Code(c, ch) == c.buckets[ch][find_bucket(Bpc(c.plane), Before(c, ch, c.at))].bestcode

Coded(c, ch, residual, value) ==
    AfterChannel([c EXCEPT !.corr[ch][c.at] = residual, !.cur[c.at][ch] = value])

-----------------------------------------------------------------------------
(***************************************************************************)
(* compress_rgb32                                                          *)
(***************************************************************************)
Encoding == outcome = "body" /\ enc.plane # "done" /\ bits = <<>> /\ ~garbled

\* Mutated form: a run may start where one has just ended empty.
encode_rle_match_again(c) ==
    /\ c.k = 1 /\ HasRuns(c.plane) /\ c.row > 0 /\ c.at > 2
    /\ c.prev[c.at - 1] = c.prev[c.at] /\ c.cur[c.at - 1] = c.cur[c.at - 2]

encode_rle_match(c) ==
    /\ c.k = 1 /\ HasRuns(c.plane) /\ c.row > 0 /\ c.at > 2 /\ c.run # c.at
    /\ c.prev[c.at - 1] = c.prev[c.at] /\ c.cur[c.at - 1] = c.cur[c.at - 2]

encode_one_pixel(p) ==
    LET ch  == Channel(enc)
        bpc == Bpc(enc.plane)
        residual == xlat_u2l(bpc, (p[ch] - Predicted(enc, ch)) % 2^bpc)
        c   == golomb_encode(bpc, residual, Code(enc, ch))
    IN  /\ bits' = ToBits(c.word, c.len)
        /\ enc' = Coded(enc, ch, residual, p[ch])

EncodePixel ==
    /\ Encoding /\ ~encode_rle_match(enc)
    /\ \E p \in Palette[enc.plane] :
         /\ enc.k > 1 => p = pixel
         /\ enc.k = 1 /\ breaks => p # enc.cur[enc.at - 1]
         /\ pixel' = p
         /\ encode_one_pixel(p)
    /\ breaks' = FALSE
    /\ UNCHANGED <<quicImage, dec, garbled, spare, outcome>>

\* As many pixels as equal the one before: the next one differs, or is in the
\* next segment.
EncodeRun ==
    /\ Encoding /\ encode_rle_match(enc)
    /\ \E n \in 0 .. enc.end - enc.at :
         LET r == encode_state_run(n, enc.melcstate) IN
         /\ breaks => n = 0
         /\ bits' = r.bits
         /\ breaks' = (enc.at + n < enc.end)
         /\ enc' = AfterRun(enc, n, r.state)
    /\ UNCHANGED <<quicImage, dec, pixel, garbled, spare, outcome>>

\* The network: the rest of the body is something else.
Damage ==
    /\ Encoding /\ quicImage.damage
    /\ bits' \in Damages /\ spare' \in Spares /\ garbled' = TRUE
    /\ UNCHANGED <<quicImage, enc, dec, pixel, breaks, outcome>>

-----------------------------------------------------------------------------
(***************************************************************************)
(* The decoders.                                                           *)
(***************************************************************************)
Decoding == outcome = "body" /\ dec.plane # "done" /\ (bits # <<>> \/ garbled)

\* Mutated form: a run may start where one has just ended empty.
rle_match_again(c) ==
    /\ c.k = 1 /\ HasRuns(c.plane) /\ c.row > 0 /\ c.at > 2
    /\ c.prev[c.at - 1] = c.prev[c.at] /\ c.cur[c.at - 1] = c.cur[c.at - 2]

rle_match(c) ==
    /\ c.k = 1 /\ HasRuns(c.plane) /\ c.row > 0 /\ c.at > 2 /\ c.run # c.at
    /\ c.prev[c.at - 1] = c.prev[c.at] /\ c.cur[c.at - 1] = c.cur[c.at - 2]

Stops(how) == outcome' = how /\ UNCHANGED <<dec, bits, spare>>

\* BitReader::eat, a little way behind the end too; then the coder goes on.
Eats(len, coder) ==
    IF len > Len(bits) + spare THEN Stops("short")
    ELSE /\ bits' = SubSeq(bits, len + 1, Len(bits))
         /\ spare' = IF len > Len(bits) THEN spare - (len - Len(bits)) ELSE spare
         /\ dec' = coder
         /\ UNCHANGED outcome

\* Symbols beyond the depth, which only an escape can spell, index the tables
\* like any other: the translation now, the bucket at the next pixel.
decode_one_pixel ==
    LET ch  == Channel(dec)
        bpc == Bpc(dec.plane)
    IN  IF Before(dec, ch, dec.at) > bppmask(bpc) THEN Stops("panic")
        ELSE LET d == golomb_decode(bpc, Code(dec, ch), Peek(bits, Peeked))
                 value == (xlat_l2u(bpc, d.value) + Predicted(dec, ch)) % 2^bpc
             IN  IF d.value >= XlatSize THEN Stops("panic")
                 ELSE Eats(d.len, Coded(dec, ch, d.value, value))

DecodePixel(plane) ==
    /\ Decoding /\ dec.plane = plane /\ ~rle_match(dec)
    /\ decode_one_pixel
    /\ UNCHANGED <<quicImage, enc, pixel, breaks, garbled>>

\* Mutated form: nobody asks where the run ends.
DecodeRunUnchecked ==
    /\ Decoding /\ rle_match(dec)
    /\ LET r == decode_state_run(bits, dec.melcstate) IN
       Eats(r.len, AfterRun(dec, r.run, r.state))
    /\ UNCHANGED <<quicImage, enc, pixel, breaks, garbled>>

\* A run that leaves the segment is refused.
DecodeRun ==
    /\ Decoding /\ rle_match(dec)
    /\ LET r == decode_state_run(bits, dec.melcstate) IN
       IF r.len > Len(bits) + spare \/ dec.at + r.run > dec.end THEN Stops("short")
       ELSE Eats(r.len, AfterRun(dec, r.run, r.state))
    /\ UNCHANGED <<quicImage, enc, pixel, breaks, garbled>>

decompress_rgb_phase == DecodePixel("rgb") \/ DecodeRun
decompress_alpha_phase == DecodePixel("alpha")
decompress_gray_phase == DecodePixel("gray")
decompress_rgb16_phase == DecodePixel("rgb16")

Complete ==
    /\ outcome = "body" /\ dec.plane = "done"
    /\ outcome' = "done"
    /\ UNCHANGED <<quicImage, enc, dec, pixel, breaks, bits, garbled, spare>>

QuicNext ==
    \/ OpenStream \/ EncodePixel \/ EncodeRun \/ Damage \/ Complete
    \/ decompress_rgb_phase \/ decompress_alpha_phase
    \/ decompress_gray_phase \/ decompress_rgb16_phase

QuicSpec == QuicInit /\ [][QuicNext]_quicVars

-----------------------------------------------------------------------------
(***************************************************************************)
(* The two coders stay in step, in everything that adapts and in every     *)
(* pixel: when the decoder has read all that the encoder has written, they *)
(* are equal.  What the encoder writes is never refused.                   *)
(***************************************************************************)
CodersInStep ==
    ~garbled =>
        /\ bits = <<>> => dec = enc
        /\ outcome \in {"header", "refused", "body", "done"}

(***************************************************************************)
(* Where a coder is: before the end of its segment, which is in the row,   *)
(* and not behind the pixel it adapts at.                                  *)
(***************************************************************************)
InRow(c) ==
    /\ 0 <= c.start /\ c.start <= c.at /\ c.at < c.end /\ c.end <= Width
    /\ c.at <= c.stop /\ c.run <= c.at
    /\ c.row \in 0 .. Height - 1 /\ c.waitcnt >= 0 /\ c.wmileft > 0

(***************************************************************************)
(* Whatever the stream holds, both coders stay within the row: no index is *)
(* out of bounds but for a symbol that is none, which only a damaged       *)
(* stream spells; and no difference of positions is below zero             *)
(* (wrapping_sub).                                                         *)
(***************************************************************************)
CodersStayInRow ==
    /\ outcome = "body" => \A c \in {enc, dec} : c.plane # "done" => InRow(c)
    /\ outcome = "panic" => garbled

(***************************************************************************)
(* Nobody codes for ever: a symbol leads on, to the next channel, pixel,   *)
(* row or plane; an empty run, which leads nowhere, is not followed by     *)
(* another.                                                                *)
(***************************************************************************)
LeadsOn(c, d) ==
    \/ d.plane # c.plane
    \/ d.row > c.row
    \/ d.row = c.row /\ d.at > c.at
    \/ d.row = c.row /\ d.at = c.at /\ (d.k > c.k \/ (c.run # c.at /\ d.run = d.at))

CodersLeadOn ==
    [][/\ Encoding /\ bits' # bits /\ ~garbled' => LeadsOn(enc, enc')
       /\ Decoding /\ <<bits', spare'>> # <<bits, spare>> => LeadsOn(dec, dec')]_quicVars
=============================================================================
