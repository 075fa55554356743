----------------------------- MODULE GlzDecoder -----------------------------
(***************************************************************************)
(* The GLZ decoder (capsaicin-glz/src/lib.rs: decompress_rgb32_inner)      *)
(* against the server's encoder (external): as LZ, with matches in earlier *)
(* images too.  A stream may be damaged, or refer to an image that is not  *)
(* in the dictionary.                                                      *)
(*                                                                         *)
(* Distances take more bytes the larger they are, in two layouts.  The     *)
(* widths of the fields are parameters, so that all sizes occur in small   *)
(* images.                                                                 *)
(***************************************************************************)
EXTENDS LzTokens

CONSTANTS
    Low,            \* 16: values of the first field of a pixel offset
    Middle,         \* 32: values of its third field; the second is a byte
    GlzLenCodes,    \* 8: values of the length field
    Dictionary,     \* the window: identifier to the pixels of the image
    SelfId,         \* the image being decoded,
    GlzPixels,      \* and its number of pixels
    MaxTokens       \* bound: tokens sent

ASSUME GlzDecoderAssumption ==
    /\ Low \in Nat \ {0} /\ Middle \in Nat \ {0} /\ GlzLenCodes \in Nat \ {0, 1}
    /\ DOMAIN Dictionary \subseteq 1 .. SelfId - 1
    /\ \A id \in DOMAIN Dictionary : Dictionary[id] \in Seq(Nat)
    /\ SelfId \in 1 .. Byte * Byte * Byte /\ GlzPixels \in Nat \ {0} /\ MaxTokens \in Nat

VARIABLES
    glzImage,       \* server: what it has encoded
    glzOut,         \* decoder: what it has written
    glzStream,      \* bytes not read yet
    result,         \* "none", "ok", "cross_image" or "bad"
    flaw,           \* history: "none", or what is wrong with the last token
    tokens          \* tokens sent

glzVars == <<glzImage, glzOut, glzStream, result, flaw, tokens>>

\* Short and medium pixel offsets are below these.
Short == Low * Byte
Medium == Short * Middle

\* Decoding may have got anywhere by literals.
GlzInit ==
    /\ glzImage \in {Fresh(<<>>, k) : k \in 0 .. GlzPixels - 1} /\ glzOut = glzImage
    /\ glzStream = <<>> /\ result = "none" /\ flaw = "none" /\ tokens = 0

-----------------------------------------------------------------------------
(***************************************************************************)
(* SPICE server: the next token.                                           *)
(***************************************************************************)
GlzEncoderReady ==
    /\ result = "none" /\ flaw = "none" /\ glzStream = <<>>
    /\ Len(glzOut) < GlzPixels /\ tokens < MaxTokens

\* What the further bytes of a distance count for, by their places.
Places == <<1, Byte, Byte * Byte>>

\* v in the given number of bytes, lowest first.
Little(v, bytes) == [i \in 1 .. bytes |-> (v \div Places[i]) % Byte]

\* How many bytes v takes.
BytesOf(v) ==
    CHOOSE b \in 0 .. 3 : (b < 3 => v < Places[b + 1]) /\ (b > 0 => v >= Places[b])

\* A match of len pixels at offset ofs (within the image: counted back, from
\* 0) of the image dist before this one.
GlzMatch(len, ofs, dist) ==
    LET long   == ofs >= Short
        far    == ofs >= Medium
        more   == BytesOf(IF long THEN dist ELSE dist \div (2 * Middle))
        length == IF len < GlzLenCodes - 1 THEN len ELSE GlzLenCodes - 1
    IN  <<(length * 2 + (IF long THEN 1 ELSE 0)) * Low + (ofs % Low)>>
        \o (IF length < GlzLenCodes - 1 THEN <<>> ELSE Continued(len - length))
        \o <<(ofs \div Low) % Byte,
             more * 2 * Middle
               + (IF long THEN (IF far THEN Middle ELSE 0) + ((ofs \div Short) % Middle)
                          ELSE dist % (2 * Middle))>>
        \o Little(IF long THEN dist ELSE dist \div (2 * Middle), more)
        \o (IF far THEN <<ofs \div Medium>> ELSE <<>>)

\* The token as a whole, or cut off with the stream; pixels is what it adds.
GlzEmit(token, wrong, pixels) ==
    \E k \in 0 .. Len(token) :
        /\ glzStream' = SubSeq(token, 1, k)
        /\ flaw' = IF k < Len(token) THEN "bad" ELSE wrong
        /\ glzImage' = IF flaw' = "none" THEN glzImage \o pixels ELSE glzImage
        /\ tokens' = tokens + 1

SendGlzLiteral ==
    /\ GlzEncoderReady
    /\ \E count \in 1 .. 2 * Low :
         GlzEmit(<<count - 1>> \o Fresh(glzImage, count),
                 IF Len(glzImage) + count > GlzPixels THEN "bad" ELSE "none",
                 Fresh(glzImage, count))
    /\ UNCHANGED <<glzOut, result>>

\* Within the image: back pixels back.
SendIntraMatch ==
    /\ GlzEncoderReady
    /\ \E len, back \in 1 .. GlzPixels :
         LET fits == back <= Len(glzImage) /\ Len(glzImage) + len <= GlzPixels IN
         GlzEmit(GlzMatch(len, back - 1, 0), IF fits THEN "none" ELSE "bad",
                 IF fits THEN SubSeq(Repeated(glzImage, back, len),
                                     Len(glzImage) + 1, Len(glzImage) + len)
                         ELSE <<>>)
    /\ UNCHANGED <<glzOut, result>>

\* In an earlier image, which may have been evicted or never been there.
SendCrossMatch ==
    /\ GlzEncoderReady
    /\ \E len \in 1 .. GlzPixels, first \in 0 .. GlzPixels, id \in 1 .. SelfId - 1 :
         LET there == id \in DOMAIN Dictionary
             wrong == CASE Len(glzImage) + len > GlzPixels -> "bad"
                        [] Len(glzImage) + len <= GlzPixels /\ ~there -> "cross_image"
                        [] OTHER -> IF first + len > Len(Dictionary[id]) THEN "bad" ELSE "none"
         IN GlzEmit(GlzMatch(len, first, SelfId - id), wrong,
                    IF wrong = "none" THEN SubSeq(Dictionary[id], first + 1, first + len)
                                      ELSE <<>>)
    /\ UNCHANGED <<glzOut, result>>

-----------------------------------------------------------------------------
(***************************************************************************)
(* decompress_rgb32_inner: one turn of its loop.                           *)
(***************************************************************************)
Ends(how) == result' = how /\ UNCHANGED <<glzImage, glzOut, glzStream, flaw, tokens>>

GlzWrites(pixels) ==
    /\ glzOut' = pixels /\ glzStream' = <<>>
    /\ UNCHANGED <<glzImage, result, flaw, tokens>>

GlzTurn ==
    /\ result = "none" /\ Len(glzOut) < GlzPixels
    /\ glzStream # <<>> \/ flaw # "none"

\* take! at the end of the body.
NoGlzControlByte == GlzTurn /\ glzStream = <<>> /\ Ends("bad")

GlzLiteralRun ==
    /\ GlzTurn /\ glzStream # <<>> /\ Head(glzStream) < 2 * Low
    /\ LET count == Head(glzStream) + 1 IN
         IF Len(glzOut) + count > GlzPixels \/ Len(glzStream) < 1 + count
           THEN Ends("bad")
           ELSE GlzWrites(glzOut \o Tail(glzStream))

\* The sum of up to three bytes of the stream.
Gather(from, count) ==
    LET extra(i) == IF i <= count THEN glzStream[from + i - 1] * Places[i] ELSE 0
    IN  extra(1) + extra(2) + extra(3)

\* Mutated form: the further bytes have the same place in both layouts.
ImageDistOneLayout(long, rest, more) == 2 * Middle * more + (IF long THEN 0 ELSE rest)

\* The image distance begins in the third byte only in the short layout.
ImageDist(long, rest, more) == IF long THEN more ELSE rest + 2 * Middle * more

\* Offset and image distance, of which the first byte is at the given place;
\* end: where the last byte is, or should be.
MatchAt(at) ==
    LET long == (Head(glzStream) \div Low) % 2 = 1
        near == (Head(glzStream) % Low) + Low * glzStream[at]
        flag == glzStream[at + 1] \div (2 * Middle)
        rest == glzStream[at + 1] % (2 * Middle)
        far  == long /\ rest >= Middle
        end  == at + 1 + flag + (IF far THEN 1 ELSE 0)
    IN IF end > Len(glzStream) THEN [end |-> end]
       ELSE [dist |-> ImageDist(long, rest, Gather(at + 2, flag)),
             ofs  |-> near + (IF long THEN Short * (rest % Middle) ELSE 0)
                           + (IF far THEN Medium * glzStream[end] ELSE 0),
             end  |-> end]

\* src_end against the image in the window.
InWindow(ofs, len, entry) == ofs + len <= Len(entry)

GlzCopy(len, match) ==
    IF Len(glzOut) + len > GlzPixels THEN Ends("bad")
    ELSE IF match.dist = 0
      THEN LET back == match.ofs + 1 IN
           IF back > Len(glzOut) THEN Ends("bad")
                                 ELSE GlzWrites(CopyBack(glzOut, back, len))
    ELSE LET target == SelfId - match.dist IN
         IF target \notin DOMAIN Dictionary THEN Ends("cross_image")
         ELSE IF ~InWindow(match.ofs, len, Dictionary[target]) THEN Ends("bad")
         ELSE GlzWrites(glzOut \o SubSeq(Dictionary[target], match.ofs + 1, match.ofs + len))

GlzBackReference ==
    /\ GlzTurn /\ glzStream # <<>> /\ Head(glzStream) >= 2 * Low
    /\ LET field == Head(glzStream) \div (2 * Low)
           long  == field = GlzLenCodes - 1
           end   == IF long THEN ContinuedEnd(glzStream, 2) ELSE 1
       IN IF end = 0 \/ Len(glzStream) < end + 2 \/ MatchAt(end + 1).end > Len(glzStream)
            THEN Ends("bad")
            ELSE GlzCopy(field + (IF long THEN ContinuedSum(glzStream, 2, end) ELSE 0),
                         MatchAt(end + 1))

GlzDone == result = "none" /\ Len(glzOut) = GlzPixels /\ Ends("ok")

GlzNext ==
    SendGlzLiteral \/ SendIntraMatch \/ SendCrossMatch
    \/ NoGlzControlByte \/ GlzLiteralRun \/ GlzBackReference \/ GlzDone

GlzSpec == GlzInit /\ [][GlzNext]_glzVars

-----------------------------------------------------------------------------
GlzTypeOK ==
    /\ result \in {"none", "ok", "cross_image", "bad"}
    /\ Len(glzOut) <= GlzPixels /\ tokens \in 0 .. MaxTokens

(***************************************************************************)
(* Each token is decoded to the pixels it stands for, in this image or in  *)
(* an earlier one, whatever the sizes of its length, offset and distance.  *)
(***************************************************************************)
GlzRoundTrip == glzStream = <<>> /\ flaw = "none" => glzOut = glzImage

(***************************************************************************)
(* A stream is refused exactly when it is damaged or refers to an image    *)
(* that is not in the window, and the error says which of the two it is.   *)
(***************************************************************************)
GlzNamesTheCause ==
    /\ result \in {"cross_image", "bad"} => flaw = result
    /\ result = "ok" => flaw = "none"

\* Both: every token, at the limits of every field and in whatever image it points
\* to, is read as what it stands for, or refused for what is wrong with it.
GlzDecodesExactly == GlzRoundTrip /\ GlzNamesTheCause
=============================================================================
