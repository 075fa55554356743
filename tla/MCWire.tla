------------------------------- MODULE MCWire -------------------------------
(***************************************************************************)
(* The server's sessions, and the wire between the two ends: bodies and    *)
(* the frames around them.  Each by itself.                                *)
(***************************************************************************)
EXTENDS Sessions, Framing

VARIABLE part           \* "sessions", "bodies" or "frames"

wireVars == <<codecVars, framingVars>>

\* The least number, the greatest, and one with every byte different.
Fills == {"zeros", "ones", "count"}
Byte(fill, i) ==
    CASE fill = "zeros" -> 0 [] fill = "ones" -> Radix - 1 [] OTHER -> i % Radix
Sample(f, fill, i) ==
    Unsigned([k \in 1 .. f.size |-> Byte(fill, 3 * i + k)])
        - (IF f.signed THEN Radix^f.size \div 2 ELSE 0)
Samples(fields, fill, i) == [k \in DOMAIN fields |-> Sample(fields[k], fill, i + k)]

\* Tags, counts and lengths by pick: 0 .. 5 has every pair of a tag of two
\* values and one of three.
Picks == 0 .. 5
AtMost(n, limit) == IF n < limit THEN n ELSE limit
WithCount(f, n, fill, i) == <<n>> \o Samples(f.between \o Times(n, f.item), fill, i)
FieldSample(f, pick, fill, i) ==
    CASE f.kind = "num" -> <<Sample(f, fill, i)>>
      [] f.kind = "code" ->
           <<IF pick % 2 = 0 THEN Min(f.codes) ELSE Max(f.codes)>>
      [] f.kind = "tagged" ->
           LET tag == pick % Cardinality(DOMAIN f.of) IN <<tag>> \o Samples(f.of[tag], fill, i)
      [] f.kind = "packed" ->
           <<IF pick % 2 = 0 THEN Min(LzImageTypes) ELSE Max(LzImageTypes), pick \div 3>>
      [] f.kind = "list" -> WithCount(f, AtMost(pick, AtMost(f.limit, 3)), fill, i)
      [] f.kind = "sized" -> <<pick % 3>> \o [k \in 1 .. (pick % 3) |-> Byte(fill, i + k)]
      [] f.kind = "rest" -> [k \in 1 .. (pick % 3) |-> Byte(fill, i + k)]
      [] f.kind = "caps" ->
           <<pick % 3, pick \div 3>>
               \o [k \in 1 .. ((pick % 3) + (pick \div 3)) |-> (5 * k + pick) % 2^CapBits]
      [] f.kind = "sprite" ->
           <<2 * (pick % 3) + (pick % 2)>> \o Samples(<<U64>>, fill, i) \o <<(pick + 1) % 2>>
               \o <<pick \div 3, MaxCursorDim>> \o Samples(<<U16, U16>>, fill, i)
               \o (IF pick % 3 = 0
                     THEN [k \in 1 .. MaxCursorBytes - 1 + (pick % 2) |-> Byte(fill, i + k)]
                     ELSE <<>>)
      [] f.kind = "chunks" -> [k \in 1 .. MaxChunk - (pick % 2) |-> Byte(fill, i + k)]

\* The bodies of a struct; an image is one row of its data, 32 bits deep, where
\* the offsets say.
BodyOf(layout, pick, fill) ==
    [i \in DOMAIN layout |-> FieldSample(layout[i], pick, fill, i)]
BitmapOf(value) ==
    LET d == Len(DrawCopy)
        image == Len(encode(DrawCopy, value))
    IN [value EXCEPT ![Len(DrawBase) + 1] = <<image>>,
                     ![d + 2] = <<0>>, ![d + 6] = <<8>>,
                     ![d + 9] = <<1>>, ![d + 10] = <<Len(Last(value))>>,
                     ![d + 11] = <<0>>, ![d + 12] = <<image + 40>>]

\* A compressed image: its header behind the descriptor, and a byte of data.
Compressed(header, type, pick, fill) ==
    LET h == BodyOf(header, pick, fill) IN
    encode(header, SubSeq(h, 1, 2) \o <<type, <<1 + pick>>, <<2>>>> \o SubSeq(h, 6, Len(h)))
        \o <<Byte(fill, pick)>>
StreamOf(value, type, data) ==
    [value EXCEPT ![Len(DrawBase) + 1] = <<Len(encode(DrawCopy, value))>>,
                  ![Len(DrawCopy) + 2] = <<type>>,
                  ![Len(DrawCopy) + 6] = <<Len(data)>> \o data]

MCBody(name, pick, fill) ==
    LET value == BodyOf(Layout[name], pick, fill)
        lz == IF pick % 2 = 0 THEN Rgb32 ELSE Rgba
    IN CASE name \in {"DrawCopyBitmap1", "DrawCopyBitmap2"} -> BitmapOf(value)
         [] name = "DrawCopyLz" -> StreamOf(value, LzRgb, Compressed(LzHeader, <<lz>>, pick, fill))
         [] name = "DrawCopyGlz" ->
              StreamOf(value, GlzRgb, Compressed(GlzHeader, <<Rgb32, pick % 2>>, pick, fill))
         [] name = "DrawCopyQuic" ->
              StreamOf(value, 1, Compressed(QuicHeader, <<1 + (pick % 5)>>, pick, fill))
         [] OTHER -> value
MCBodies ==
    [name \in DOMAIN Layout |-> {MCBody(name, pick, fill) : pick \in Picks, fill \in Fills}]

MCMagics == [Link |-> 9, Lz |-> 17, Glz |-> 17, Quic |-> 200]
MCVersions == [Link |-> 2, Lz |-> 15, Glz |-> 15, Quic |-> 0]

\* The end the bodies and the frames start from in the other parts.
MCInit ==
    /\ Init /\ CodecsInit /\ FramingInit
    /\ part \in {"sessions", "bodies", "frames"}
    /\ part # "bodies" => struct = "AckSync" /\ sent = <<<<0>>>>
    /\ part # "frames" => mini /\ writeMax = 0 /\ readMax = 0

MCNext ==
    /\ \/ part = "sessions" /\ Next /\ UNCHANGED wireVars
       \/ part = "bodies" /\ CodecsNext /\ UNCHANGED <<vars, framingVars>>
       \/ part = "frames" /\ FramingNext /\ UNCHANGED <<vars, codecVars>>
    /\ UNCHANGED part

MCSpec == MCInit /\ [][MCNext]_<<vars, wireVars, part>>

MCMsgBodies == {<<>>, <<0>>, <<Radix - 1, 1>>, <<1, 2, 3>>}

\* Codecs, Framing: bodies and frames come back as they were.
MessagesComeBack == BodiesComeBack /\ FramesComeBack
=============================================================================
