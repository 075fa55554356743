------------------------------- MODULE Codecs -------------------------------
(***************************************************************************)
(* The messages' encodings (capsaicin-proto): what Writer and Reader put   *)
(* on the wire and take off it.                                            *)
(*                                                                         *)
(* A struct is a sequence of fields, in the order in which its encode      *)
(* writes them and its decode reads them.  The value of a field is a       *)
(* sequence of numbers: one for a plain number; the tag and what the tag   *)
(* calls for; the count and the items.  Numbers are little-endian (those   *)
(* of the LZ and GLZ headers big-endian) and have the code's widths, in    *)
(* bytes of Radix values.                                                  *)
(*                                                                         *)
(* A body is encoded and may then be cut, continued or changed before it   *)
(* is decoded.  What the server alone encodes (cursors, images in several  *)
(* chunks) is external.                                                    *)
(***************************************************************************)
EXTENDS Integers, SequencesExt

CONSTANTS
    Radix,          \* values of a byte
    CapBits,        \* bits of a capability word that are used
    PubKeyBytes,    \* SPICE_TICKET_PUBKEY_BYTES
    MaxCaps,        \* MAX_CAPS_ENTRIES
    MaxList,        \* MAX_CHANNELS_LIST
    MaxChunk,       \* MAX_CHUNK_BYTES
    MaxChunks,      \* MAX_CHUNK_COUNT
    MaxCursorDim, MaxCursorBytes,
    Magics, Versions,   \* what a link message, an LZ, GLZ or QUIC stream begins with
    LzRgb, GlzRgb,      \* image_type
    LzImageTypes, Rgb32, Rgba,
    Nibble,             \* values of half a byte
    Bodies              \* struct names to what encoders are given

ASSUME CodecsAssumption ==
    /\ Radix \in Nat \ {0, 1} /\ CapBits \in Nat \ {0}
    /\ PubKeyBytes \in Nat
    /\ {MaxCaps, MaxList, MaxChunk, MaxChunks, MaxCursorDim, MaxCursorBytes} \subseteq Nat
    /\ {Rgb32, Rgba} \subseteq LzImageTypes /\ LzImageTypes \subseteq 1 .. Nibble - 1
    /\ 2 * Nibble <= Radix
    /\ {LzRgb, GlzRgb} \subseteq 2 .. Radix - 1 /\ LzRgb # GlzRgb

VARIABLES
    struct, sent,   \* the struct and its value, as encoded
    body,           \* the bytes, as they arrive
    harm,           \* "none", "cut", "tail" or "change": what befell them
    parsed          \* the reader after decode

codecVars == <<struct, sent, body, harm, parsed>>

-----------------------------------------------------------------------------
\* Fields.
Num(size) == [kind |-> "num", size |-> size, signed |-> FALSE, big |-> FALSE]
U8 == Num(1)
U16 == Num(2)
U32 == Num(4)
U64 == Num(8)
Signed(f) == [f EXCEPT !.signed = TRUE]
I16 == Signed(U16)
I32 == Signed(U32)
I64 == Signed(U64)
Big(f) == [f EXCEPT !.big = TRUE]
B32 == Big(U32)
B64 == Big(U64)

\* A number that must be one of some; a tag that calls for more numbers, and
\* what an unknown tag is read as; a count, numbers between it and the items,
\* and the items; bytes behind their length; what is left of the body.
CodeOf(num, codes) == [kind |-> "code", num |-> num, codes |-> codes]
Code(size, codes) == CodeOf(Num(size), codes)
Tagged(size, of, other) == [kind |-> "tagged", num |-> Num(size), of |-> of, other |-> other]
ListOf(count, limit, between, item) ==
    [kind |-> "list", num |-> count, limit |-> limit, between |-> between, item |-> item]
Sized == [kind |-> "sized", num |-> U32]
Rest == [kind |-> "rest"]

ChannelType == Code(1, 1 .. 11)
LinkError == Code(4, 0 .. 9)
VideoCodec == Code(1, 1 .. 5)

Point == <<I32, I32>>
Rect == <<I32, I32, I32, I32>>
Clip == Tagged(1, [t \in {0, 1} |-> IF t = 1 THEN <<U32>> ELSE <<>>], <<1, 0>>)
Brush == Tagged(4, [t \in 0 .. 2 |-> CASE t = 0 -> <<>> [] t = 1 -> <<U32>>
                                       [] t = 2 -> <<U32>> \o Point], <<0>>)

\* Capability words, two counts and an offset in front, after `before` bytes of
\* other fields; a sprite; image data in so many chunks.
CapWords(before) == [kind |-> "caps", fixed |-> before + 12]
SpriteHeader == <<U16, U64, U16, U16, U16, U16, U16>>
Sprite == [kind |-> "sprite"]
Chunks(pieces) == [kind |-> "chunks", pieces |-> pieces]

\* A flag that is FALSE when 0; an image type and such a flag in one byte.
Flag == [Tagged(4, [t \in {0, 1} |-> <<>>], <<1>>) EXCEPT !.num = B32]
TypeAndFlag == [kind |-> "packed", num |-> U8]

-----------------------------------------------------------------------------
\* Structs: common.rs
SetAck == <<U32, U32>>
AckSync == <<U32>>
Ping == <<U32, U64, Rest>>
Pong == <<U32, U64>>
Disconnecting == <<U64, U32>>
\* link.rs
LinkHeader == <<Code(4, {Magics.Link}), Code(4, {Versions.Link}), U32, U32>>
LinkMess == <<U32, ChannelType, U8, CapWords(6)>>
LinkReply == <<LinkError>> \o [i \in 1 .. PubKeyBytes |-> U8] \o <<CapWords(4 + PubKeyBytes)>>
LinkResult == <<LinkError>>
\* main_chan.rs
MainInit == [i \in 1 .. 8 |-> U32]
ChannelsList == <<ListOf(U32, MaxList, <<>>, <<U8, U8>>)>>
ClientInfo == <<U64>>
MouseMode == <<U32, U32>>
MouseModeRequest == <<U32>>
MultiMediaTime == <<U32>>
\* display.rs; a count of 16 bits bounds the heads
DisplayInit == <<U8, I64, U8, I32>>
SurfaceCreate == <<U32, U32, U32, U32, U32>>
SurfaceDestroy == <<U32>>
DisplayMode == <<U32, U32, U32>>
MonitorHead == [i \in 1 .. 7 |-> U32]
MonitorsConfig == <<ListOf(U16, Radix^2 - 1, <<U16>>, MonitorHead)>>
\* draw.rs
QMask == <<U8>> \o Point \o <<U32>>
DrawBase == <<U32>> \o Rect \o <<Clip>>
DrawFill == DrawBase \o <<Brush, U16>> \o QMask
CopyBits == DrawBase \o Point
DrawCopy == DrawBase \o <<U32>> \o Rect \o <<U16, U8>> \o QMask
\* stream.rs
StreamCreate == <<U32, U32, U8, VideoCodec, U64, U32, U32, U32, U32>> \o Rect \o <<Clip>>
StreamDataHeader == <<U32, U32>>
StreamData == StreamDataHeader \o <<Sized>>
StreamDataSized == StreamDataHeader \o <<U32, U32>> \o Rect \o <<Sized>>
StreamDestroy == <<U32>>
StreamClip == <<U32, Clip>>
\* image.rs
ImageDescriptor == <<U64, U8, U8, U32, U32>>
Bitmap == <<U8, U8, U32, U32, U32, U32, U32>>
\* cursor.rs
CursorInit == <<I16, I16, U16, U16, U8, Sprite>>
CursorSet == <<I16, I16, U8, Sprite>>
CursorMove == <<I16, I16>>
CursorInvalOne == <<U64>>
\* inputs.rs
InputsInit == <<U32>>
KeyCode == <<U32>>
MouseMotion == <<I32, I32, U32>>
MousePosition == <<U32, U32, U32, U8>>
MouseButton == <<U8, U32>>
\* The headers of image streams: lz, glz and quic, each in its lib.rs.
LzHeader ==
    <<CodeOf(B32, {Magics.Lz}), CodeOf(B32, {Versions.Lz}), CodeOf(B32, LzImageTypes),
      B32, B32, B32, Flag>>
GlzHeader ==
    <<CodeOf(B32, {Magics.Glz}), CodeOf(B32, {Versions.Glz}), TypeAndFlag,
      B32, B32, B32, B64, B32>>
QuicHeader ==
    <<Code(4, {Magics.Quic}), Code(4, {Versions.Quic}), Code(4, 1 .. 5), U32, U32>>
\* DRAW_COPY of a BITMAP, and of a compressed image, its parts one behind the
\* other (client/display.rs).
DrawCopyBitmap(pieces) == DrawCopy \o ImageDescriptor \o Bitmap \o <<Chunks(pieces)>>
DrawCopyStream == DrawCopy \o ImageDescriptor \o <<Sized>>

Layout ==
    [SetAck |-> SetAck, AckSync |-> AckSync, Ping |-> Ping, Pong |-> Pong,
     Disconnecting |-> Disconnecting, LinkHeader |-> LinkHeader, LinkMess |-> LinkMess,
     LinkReply |-> LinkReply, LinkResult |-> LinkResult, MainInit |-> MainInit,
     ChannelsList |-> ChannelsList, ClientInfo |-> ClientInfo, MouseMode |-> MouseMode,
     MouseModeRequest |-> MouseModeRequest, MultiMediaTime |-> MultiMediaTime,
     DisplayInit |-> DisplayInit, SurfaceCreate |-> SurfaceCreate,
     SurfaceDestroy |-> SurfaceDestroy, DisplayMode |-> DisplayMode,
     MonitorsConfig |-> MonitorsConfig, DrawFill |-> DrawFill, CopyBits |-> CopyBits,
     DrawCopy |-> DrawCopy, StreamCreate |-> StreamCreate, StreamData |-> StreamData,
     StreamDataSized |-> StreamDataSized, StreamDestroy |-> StreamDestroy,
     StreamClip |-> StreamClip, CursorInit |-> CursorInit, CursorSet |-> CursorSet,
     CursorMove |-> CursorMove, CursorInvalOne |-> CursorInvalOne,
     InputsInit |-> InputsInit, KeyCode |-> KeyCode, MouseMotion |-> MouseMotion,
     MousePosition |-> MousePosition, MouseButton |-> MouseButton,
     LzHeader |-> LzHeader, GlzHeader |-> GlzHeader, QuicHeader |-> QuicHeader,
     DrawCopyBitmap1 |-> DrawCopyBitmap(1), DrawCopyBitmap2 |-> DrawCopyBitmap(2),
     DrawCopyLz |-> DrawCopyStream, DrawCopyGlz |-> DrawCopyStream,
     DrawCopyQuic |-> DrawCopyStream]

-----------------------------------------------------------------------------
\* Numbers and bytes; `as` makes a negative number one of the upper half.
InOrder(b, f) == IF f.big THEN Reverse(b) ELSE b

ToBytes(v, f) ==
    LET n == IF v < 0 THEN v + Radix^f.size ELSE v IN
    InOrder([i \in 1 .. f.size |-> (n \div Radix^(i - 1)) % Radix], f)

RECURSIVE Unsigned(_)
Unsigned(b) == IF b = <<>> THEN 0 ELSE Head(b) + Radix * Unsigned(Tail(b))

\* Mutated form: the sign is lost.
OfBytesUnsigned(b, f) == Unsigned(InOrder(b, f))

OfBytes(b, f) ==
    LET n == Unsigned(InOrder(b, f)) IN
    IF f.signed /\ n >= Radix^f.size \div 2 THEN n - Radix^f.size ELSE n

HasBit(n, b) == (n \div 2^b) % 2 = 1

\* CapSet: bit n of a capability list is in word n / CapBits.
has(words, cap) ==
    cap \div CapBits < Len(words) /\ HasBit(words[cap \div CapBits + 1], cap % CapBits)

set(words, cap) ==
    LET grown == words \o [i \in 1 .. cap \div CapBits + 1 - Len(words) |-> 0] IN
    IF has(grown, cap) THEN grown
    ELSE [grown EXCEPT ![cap \div CapBits + 1] = @ + 2^(cap % CapBits)]

with_caps(caps) == FoldLeft(set, <<>>, caps)

\* FROM_CACHE and FROM_CACHE_LOSSLESS: the sprite is not in the message.
FromCache(flags) == HasBit(flags, 1) \/ HasBit(flags, 2)

-----------------------------------------------------------------------------
\* Writer.
RECURSIVE Written(_, _)
Written(fields, values) ==
    IF fields = <<>> THEN <<>>
    ELSE ToBytes(Head(values), Head(fields)) \o Written(Tail(fields), Tail(values))

Times(n, item) == [i \in 1 .. n * Len(item) |-> item[((i - 1) % Len(item)) + 1]]

Chunked(data, pieces) ==
    LET Piece(i) == SubSeq(data, ((i - 1) * Len(data)) \div pieces + 1, (i * Len(data)) \div pieces) IN
    ToBytes(Len(data), U32) \o ToBytes(pieces, U32)
        \o FlattenSeq([i \in 1 .. pieces |-> ToBytes(Len(Piece(i)), U32) \o Piece(i)])

WrittenField(f, v) ==
    CASE f.kind = "num" -> ToBytes(v[1], f)
      [] f.kind = "code" -> ToBytes(v[1], f.num)
      [] f.kind = "tagged" -> Written(<<f.num>> \o f.of[v[1]], v)
      [] f.kind = "packed" -> ToBytes(v[1] + Nibble * v[2], f.num)
      [] f.kind = "list" -> Written(<<f.num>> \o f.between \o Times(v[1], f.item), v)
      [] f.kind = "sized" -> ToBytes(v[1], f.num) \o Tail(v)
      [] f.kind = "rest" -> v
      [] f.kind = "caps" ->
           Written([i \in 1 .. Len(v) + 1 |-> U32], SubSeq(v, 1, 2) \o <<f.fixed>> \o SubSeq(v, 3, Len(v)))
      [] f.kind = "sprite" ->
           Written(SpriteHeader, SubSeq(v, 1, 7)) \o SubSeq(v, 8, Len(v))
      [] f.kind = "chunks" -> Chunked(v, f.pieces)

RECURSIVE encode(_, _)
encode(layout, value) ==
    IF layout = <<>> THEN <<>>
    ELSE WrittenField(Head(layout), Head(value)) \o encode(Tail(layout), Tail(value))

-----------------------------------------------------------------------------
\* Reader: the field being read, those that were, and the largest number of
\* items for which room was made.
Reader(buf) ==
    [buf |-> buf, at |-> 0, ok |-> TRUE, field |-> <<>>, value |-> <<>>, reserved |-> 0]

remaining(r) == Len(r.buf) - r.at
Refused(r) == [r EXCEPT !.ok = FALSE]
\* Rust's operator ?.
Try(r, Then(_)) == IF r.ok THEN Then(r) ELSE r
Reserve(r, n) == [r EXCEPT !.reserved = IF n > @ THEN n ELSE @]
bounded_count(r, n, limit) == IF n > limit THEN Refused(r) ELSE r

\* Mutated form: what is missing is not noticed.
take_unchecked(r, n) == [r EXCEPT !.at = @ + n]

take(r, n) == IF r.ok /\ n <= remaining(r) THEN [r EXCEPT !.at = @ + n] ELSE Refused(r)

Slice(r, from, n) == [i \in 1 .. n |-> IF from + i <= Len(r.buf) THEN r.buf[from + i] ELSE 0]

bytes(r, n) == Try(take(r, n), LAMBDA t : [t EXCEPT !.field = @ \o Slice(r, r.at, n)])

number(r, f) ==
    Try(take(r, f.size), LAMBDA t : [t EXCEPT !.field = Append(@, OfBytes(Slice(r, r.at, f.size), f))])

RECURSIVE numbers(_, _)
numbers(r, fields) ==
    IF fields = <<>> \/ ~r.ok THEN r ELSE numbers(number(r, Head(fields)), Tail(fields))

from_code(r, f) ==
    Try(number(r, f.num), LAMBDA t : IF Last(t.field) \in f.codes THEN t ELSE Refused(t))

ReadTagged(r, f) ==
    Try(number(r, f.num), LAMBDA t :
        IF Last(t.field) \in DOMAIN f.of THEN numbers(t, f.of[Last(t.field)])
        ELSE [t EXCEPT !.field = f.other])

ReadPacked(r, f) ==
    LET Parts(n) == <<n % Nibble, IF n \div Nibble # 0 THEN 1 ELSE 0>> IN
    Try(number(r, f.num), LAMBDA t :
        IF Last(t.field) % Nibble \notin LzImageTypes THEN Refused(t)
        ELSE [t EXCEPT !.field = Parts(Last(t.field))])

ReadList(r, f) ==
    LET Items(t, n) ==
            Try(numbers(t, f.between), LAMBDA u : numbers(Reserve(u, n), Times(n, f.item)))
    IN Try(number(r, f.num), LAMBDA t :
           Try(bounded_count(t, Last(t.field), f.limit), LAMBDA u : Items(u, Last(u.field))))

ReadSized(r, f) == Try(number(r, f.num), LAMBDA t : bytes(t, Last(t.field)))

\* The words lie where the message says, behind the fixed part or anywhere.
read_caps(r, offset, count) ==
    IF offset + 4 * count > Len(r.buf) THEN Refused(r)
    ELSE [Reserve(r, count) EXCEPT
            !.field = @ \o [i \in 1 .. count |-> OfBytes(Slice(r, offset + 4 * (i - 1), 4), U32)]]

ReadCapWords(r) ==
    LET Both(t, common, channel, offset) ==
            LET u == read_caps([t EXCEPT !.field = <<common, channel>>], offset, common) IN
            Try(u, LAMBDA w : read_caps(w, offset + 4 * common, channel))
    IN Try(numbers(r, <<U32, U32, U32>>), LAMBDA t :
           IF t.field[1] > MaxCaps \/ t.field[2] > MaxCaps THEN Refused(t)
           ELSE Both(t, t.field[1], t.field[2], t.field[3]))

ReadSprite(r) ==
    LET Data(t) ==
            IF FromCache(t.field[1]) THEN t
            ELSE IF remaining(t) > MaxCursorBytes THEN Refused(t)
            ELSE bytes(t, remaining(t))
    IN Try(numbers(r, SpriteHeader), LAMBDA t :
           IF t.field[4] > MaxCursorDim \/ t.field[5] > MaxCursorDim THEN Refused(t) ELSE Data(t))

ReadChunk(r) ==
    Try(number([r EXCEPT !.field = <<>>], U32), LAMBDA t :
        IF t.field[1] > MaxChunk THEN Refused(t)
        ELSE bytes([t EXCEPT !.field = r.field], t.field[1]))

RECURSIVE ReadChunks(_, _)
ReadChunks(r, count) ==
    IF count = 0 \/ ~r.ok THEN r ELSE ReadChunks(ReadChunk(r), count - 1)

read_chunks(r) ==
    LET All(t, size, count) ==
            LET all == ReadChunks(Reserve([t EXCEPT !.field = <<>>], size), count) IN
            IF Len(all.field) = size THEN all ELSE Refused(all)
    IN Try(numbers(r, <<U32, U32>>), LAMBDA t :
           IF t.field[1] > MaxChunk \/ t.field[2] > MaxChunks THEN Refused(t)
           ELSE All(t, t.field[1], t.field[2]))

ReadField(r, f) ==
    CASE f.kind = "num" -> number(r, f)
      [] f.kind = "code" -> from_code(r, f)
      [] f.kind = "tagged" -> ReadTagged(r, f)
      [] f.kind = "packed" -> ReadPacked(r, f)
      [] f.kind = "list" -> ReadList(r, f)
      [] f.kind = "sized" -> ReadSized(r, f)
      [] f.kind = "rest" -> bytes(r, remaining(r))
      [] f.kind = "caps" -> ReadCapWords(r)
      [] f.kind = "sprite" -> ReadSprite(r)
      [] f.kind = "chunks" -> read_chunks(r)

RECURSIVE Fields(_, _)
Fields(r, layout) ==
    IF layout = <<>> \/ ~r.ok THEN r
    ELSE LET t == ReadField([r EXCEPT !.field = <<>>], Head(layout)) IN
         Fields([t EXCEPT !.value = Append(@, t.field)], Tail(layout))

decode(layout, buf) == Fields(Reader(buf), layout)

\* decode_draw_copy: image and data lie where the offsets say.
At(r, offset) ==
    IF ~r.ok \/ offset > Len(r.buf) THEN Refused(r) ELSE [r EXCEPT !.at = offset]

bitmap_bytes_per_pixel(format) ==
    CASE format = 6 -> 2 [] format = 7 -> 3 [] format \in {8, 9} -> 4
      [] format \in {5, 10} -> 1 [] OTHER -> 0

\* The number behind the descriptor; i counts from there.
Behind(r, i) == r.value[Len(DrawCopy) + Len(ImageDescriptor) + i][1]

\* A BITMAP: no palette, and all its rows.
AllRows(bitmap, data) ==
    IF ~data.ok \/ Len(data.field) < Behind(bitmap, 5) * Behind(bitmap, 4) THEN Refused(data)
    ELSE data
BitmapRows(bitmap) ==
    IF /\ bitmap.ok /\ Behind(bitmap, 6) = 0
       /\ bitmap_bytes_per_pixel(Behind(bitmap, 1)) \in 2 .. 4
    THEN AllRows(bitmap, Fields(At(bitmap, Behind(bitmap, 7)), <<Chunks(1)>>))
    ELSE Refused(bitmap)
decode_bitmap(image) == BitmapRows(Fields(image, Bitmap))

\* decode_lz_rgb, decode_glz, decode_quic, until the pixels are decoded: which
\* headers they go on with.
StreamHeader(type) ==
    IF type = LzRgb THEN LzHeader ELSE IF type = GlzRgb THEN GlzHeader ELSE QuicHeader
LzAccepts(h) == h[3][1] \in {Rgb32, Rgba} /\ h[4][1] * h[5][1] > 0
GlzAccepts(h) == h[3][1] = Rgb32
Accepted(type, header) ==
    /\ header.ok
    /\ type = LzRgb => LzAccepts(header.value)
    /\ type = GlzRgb => GlzAccepts(header.value)

CheckedData(type, data) ==
    IF data.ok /\ Accepted(type, decode(StreamHeader(type), Tail(data.field)))
    THEN data ELSE Refused(data)
decode_stream(type, image) == CheckedData(type, Fields(image, <<Sized>>))

decode_image(image) ==
    LET type == image.value[Len(DrawCopy) + 2][1] IN
    IF ~image.ok THEN image
    ELSE IF type = 0 THEN decode_bitmap(image)
    ELSE IF type \in {1, LzRgb, GlzRgb} THEN decode_stream(type, image)
    ELSE Refused(image)

\* The image lies where the offset says, if there is one.
ImageOf(copy) ==
    LET start == copy.value[Len(DrawBase) + 1][1] IN
    IF copy.ok /\ start # 0 THEN decode_image(Fields(At(copy, start), ImageDescriptor))
    ELSE Refused(copy)
decode_draw_copy(buf) == ImageOf(decode(DrawCopy, buf))

\* cursor_to_event (client/cursor.rs): what the embedder is told of a sprite.
NoEvent == [kind |-> "none"]
SetCursor(sprite, pixels) ==
    [kind |-> "set", unique |-> sprite[2], width |-> sprite[4], height |-> sprite[5],
     hot |-> <<sprite[6], sprite[7]>>, pixels |-> pixels, cacheable |-> HasBit(sprite[1], 0)]

cursor_to_event(sprite) ==
    LET expected == sprite[4] * sprite[5] * 4
        data == SubSeq(sprite, 8, Len(sprite))
        alpha == sprite[3] = 0
    IN IF FromCache(sprite[1]) THEN [kind |-> "from_cache", unique |-> sprite[2]]
       ELSE IF ~alpha THEN SetCursor(sprite, <<>>)
       ELSE IF Len(data) < expected THEN NoEvent
       ELSE SetCursor(sprite, SubSeq(data, 1, expected))

DrawCopies == {"DrawCopyBitmap1", "DrawCopyBitmap2", "DrawCopyLz", "DrawCopyGlz", "DrawCopyQuic"}
Decoded(name, buf) ==
    IF name \in DrawCopies THEN decode_draw_copy(buf) ELSE decode(Layout[name], buf)

-----------------------------------------------------------------------------
CodecsInit ==
    /\ struct \in DOMAIN Bodies /\ sent \in Bodies[struct]
    /\ body = encode(Layout[struct], sent)
    /\ harm = "sent" /\ parsed = Reader(<<>>)

Arrival(how, buf) == [how |-> how, buf |-> buf]
Whole == {Arrival("none", body)}
Cut == {Arrival("cut", SubSeq(body, 1, n)) : n \in 0 .. Len(body) - 1}
WithTail == {Arrival("tail", body \o more) : more \in {<<0>>, <<1, Radix - 1>>}}
Changed ==
    {Arrival("change", [body EXCEPT ![i] = b]) : i \in DOMAIN body, b \in {0, 1, Radix - 1}}
        \ {Arrival("change", body)}

Arrive ==
    /\ harm = "sent"
    /\ \E a \in Whole \cup Cut \cup WithTail \cup Changed :
         harm' = a.how /\ body' = a.buf /\ parsed' = Decoded(struct, a.buf)
    /\ UNCHANGED <<struct, sent>>

CodecsNext == Arrive

CodecsSpec == CodecsInit /\ [][CodecsNext]_codecVars

-----------------------------------------------------------------------------
\* The last field is whatever is left.
TakesRest ==
    \/ Last(Layout[struct]) = Rest
    \/ Last(Layout[struct]) = Sprite /\ ~FromCache(Last(sent)[1])

\* What the words of a capability list say.
CapsOf(words) ==
    SelectSeq([n \in 1 .. CapBits * Len(words) |-> n - 1], LAMBDA cap : has(words, cap))

(***************************************************************************)
(* What is encoded is decoded to the same, whatever follows the body; and  *)
(* whatever bytes a decoder accepts, damaged or not, it reads as something *)
(* that can be encoded and comes back.  Capability words, too, are those   *)
(* with_caps makes of what has finds in them, in any order.                *)
(***************************************************************************)
BodiesComeBack ==
    /\ harm = "none" \/ (harm = "tail" /\ ~TakesRest) => parsed.ok /\ parsed.value = sent
    /\ harm # "sent" /\ parsed.ok /\ struct \notin DrawCopies =>
         decode(Layout[struct], encode(Layout[struct], parsed.value)).value = parsed.value
    /\ harm = "none" /\ struct = "LinkMess" =>
         LET words == SubSeq(Last(sent), 3, 2 + Last(sent)[1])
             caps == CapsOf(words)
         IN words # <<>> /\ Last(words) # 0 =>
              with_caps(caps) = words /\ with_caps(Reverse(caps)) = words

(***************************************************************************)
(* Damage is contained: a decoder reads nothing behind the end of a body,  *)
(* refuses one that was cut short (or, where the last field is what is     *)
(* left, takes less of it), and makes room for no more items than the      *)
(* limits allow, whatever count the body announces.  A sprite the embedder *)
(* is given has all its pixels or none, and they are the server's.         *)
(***************************************************************************)
DamageIsContained ==
    /\ parsed.at <= Len(parsed.buf)
    /\ parsed.reserved <=
         IF struct = "MonitorsConfig" THEN Radix^2 - 1
         ELSE IF struct \in DrawCopies THEN MaxChunk
         ELSE IF struct = "ChannelsList" THEN MaxList ELSE MaxCaps
    /\ harm = "cut" /\ parsed.ok =>
         /\ TakesRest
         /\ Front(parsed.value) = Front(sent)
         /\ IsStrictPrefix(Last(parsed.value), Last(sent))
    /\ harm # "sent" /\ parsed.ok /\ struct \in {"CursorInit", "CursorSet"} =>
         LET event == cursor_to_event(Last(parsed.value))
             drawn == SubSeq(Last(sent), 8, Len(Last(sent)))
         IN event.kind = "set" =>
              /\ Len(event.pixels) \in {0, 4 * event.width * event.height}
              /\ harm \in {"none", "cut"} => IsPrefix(event.pixels, drawn)
=============================================================================
