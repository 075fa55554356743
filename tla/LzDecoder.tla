----------------------------- MODULE LzDecoder ------------------------------
(***************************************************************************)
(* The LZ decoder (capsaicin-lz/src/lib.rs: decompress_rgb32,              *)
(* decompress_rgba, decompress_pass) against the server's encoder          *)
(* (external), which chooses any division of an image into literals and    *)
(* matches.  A stream may be damaged: a token that does not fit, or an end *)
(* before its end.                                                         *)
(*                                                                         *)
(* The widths of the fields are parameters, so that their boundaries fall  *)
(* into small images.                                                      *)
(***************************************************************************)
EXTENDS LzTokens

CONSTANTS
    LenCodes,       \* 8: values of the length field
    High,           \* 32: values of the other field of a control byte
    Kinds           \* images: format "rgb32" or "rgba", and number of pixels

ASSUME LzAssumption ==
    /\ LenCodes \in Nat /\ LenCodes >= 3 /\ High \in Nat \ {0}
    /\ \A k \in Kinds : k.format \in {"rgb32", "rgba"} /\ k.n \in Nat \ {0}

VARIABLES
    kind,           \* the image being sent
    stage,          \* Stage: "bgr", "alpha"; or "done", "error"
    image,          \* server: what it has encoded, for each stage
    out,            \* decoder: what it has written, for each stage (op: its length)
    stream,         \* bytes not read yet
    damaged         \* history: a token was bad or cut off

lzVars == <<kind, stage, image, out, stream, damaged>>

Stages == {"bgr", "alpha"}
MaxDistance == High * Byte - 1
op == Len(out[stage])

\* Length bias depends on the stage.
Bias == IF stage = "bgr" THEN 1 ELSE 3

LzInit ==
    /\ kind \in Kinds /\ stage = "bgr"
    /\ image = [s \in Stages |-> <<>>] /\ out = image
    /\ stream = <<>> /\ damaged = FALSE

-----------------------------------------------------------------------------
(***************************************************************************)
(* SPICE server: the next token, which may be damaged.                     *)
(***************************************************************************)
EncoderReady == stage \in Stages /\ stream = <<>> /\ ~damaged /\ op < kind.n

Literal(count) == <<count - 1>> \o Fresh(image[stage], count)

\* The length comes first, then the distance, near or far.
Match(len, dist) ==
    LET m == len - Bias
        far == dist - 1 - MaxDistance
        escaped == m >= LenCodes - 2
    IN  <<(IF escaped THEN LenCodes - 1 ELSE m + 1) * High
            + (IF far >= 0 THEN High - 1 ELSE (dist - 1) \div Byte)>>
        \o (IF escaped THEN Continued(m - (LenCodes - 2)) ELSE <<>>)
        \o (IF far >= 0 THEN <<Byte - 1, far \div Byte, far % Byte>>
                        ELSE <<(dist - 1) % Byte>>)

\* The token as a whole, or cut off with the stream.
Emit(token, fits) ==
    \E k \in 0 .. Len(token) :
        /\ stream' = SubSeq(token, 1, k)
        /\ damaged' = (~fits \/ k < Len(token))

SendLiteral ==
    /\ EncoderReady
    /\ \E count \in 1 .. High :
         /\ Emit(Literal(count), op + count <= kind.n)
         /\ image' = [image EXCEPT ![stage] = @ \o Fresh(@, count)]
    /\ UNCHANGED <<kind, stage, out>>

SendMatch ==
    /\ EncoderReady
    /\ \E len \in Bias .. kind.n + 1, dist \in 1 .. kind.n :
         LET fits == dist <= Len(image[stage]) /\ Len(image[stage]) + len <= kind.n IN
         /\ Emit(Match(len, dist), fits)
         /\ image' = IF fits THEN [image EXCEPT ![stage] = Repeated(@, dist, len)]
                             ELSE image
    /\ UNCHANGED <<kind, stage, out>>

-----------------------------------------------------------------------------
(***************************************************************************)
(* decompress_pass: one turn of its loop.                                  *)
(***************************************************************************)
Fails == stage' = "error" /\ UNCHANGED <<kind, image, out, stream, damaged>>

Writes(pixels) ==
    /\ out' = [out EXCEPT ![stage] = pixels] /\ stream' = <<>>
    /\ UNCHANGED <<kind, stage, image, damaged>>

Turn == stage \in Stages /\ op < kind.n /\ (stream # <<>> \/ damaged)

\* read_byte! at the end of the input.
NoControlByte == Turn /\ stream = <<>> /\ Fails

LiteralRun ==
    /\ Turn /\ stream # <<>> /\ Head(stream) < High
    /\ LET count == Head(stream) + 1 IN
         IF op + count > kind.n \/ Len(stream) < 1 + count
           THEN Fails
           ELSE Writes(out[stage] \o Tail(stream))

\* Mutated form: the first pixel cannot be referred to.
FitsAfterFirst(len, ofs) == ofs < op /\ op + len <= kind.n

\* The source lies in what is written, the target in the image.
Fits(len, ofs) == ofs <= op /\ op + len <= kind.n

\* The largest near code announces a far distance.
Far(h, low) == low = Byte - 1 /\ h = High - 1

BackReference ==
    /\ Turn /\ stream # <<>> /\ Head(stream) >= High
    /\ LET field == Head(stream) \div High - 1
           h     == Head(stream) % High
           long  == field = LenCodes - 2
           end   == IF long THEN ContinuedEnd(stream, 2) ELSE 1
       IN
       IF end = 0 \/ Len(stream) < end + 1 THEN Fails
       ELSE LET len == field + Bias + (IF long THEN ContinuedSum(stream, 2, end) ELSE 0)
                low == stream[end + 1]
                far == Far(h, low)
            IN
            IF far /\ Len(stream) < end + 3 THEN Fails
            ELSE LET ofs == 1 + (IF far THEN stream[end + 2] * Byte + stream[end + 3] + MaxDistance
                                        ELSE h * Byte + low)
                 IN IF ~Fits(len, ofs)
                      THEN Fails
                      ELSE Writes(CopyBack(out[stage], ofs, len))

\* The loop ends when the image is full; RGBA has a second stream behind it.
PassEnds ==
    /\ stage \in Stages /\ op = kind.n
    /\ stage' = IF stage = "bgr" /\ kind.format = "rgba" THEN "alpha" ELSE "done"
    /\ UNCHANGED <<kind, image, out, stream, damaged>>

LzNext ==
    SendLiteral \/ SendMatch \/ NoControlByte \/ LiteralRun \/ BackReference \/ PassEnds

LzSpec == LzInit /\ [][LzNext]_lzVars

-----------------------------------------------------------------------------
LzTypeOK ==
    /\ kind \in Kinds /\ stage \in Stages \cup {"done", "error"}
    /\ \A s \in Stages : Len(out[s]) <= kind.n

(***************************************************************************)
(* However the encoder divides an image, with matches that overlap         *)
(* themselves and lengths and distances at the limits of every field, each *)
(* token is decoded to the pixels it stands for.                           *)
(***************************************************************************)
LzRoundTrip ==
    /\ stage \in Stages /\ stream = <<>> /\ ~damaged => out[stage] = image[stage]
    /\ stage = "done" => out = image /\ Len(out["bgr"]) = kind.n

(***************************************************************************)
(* A stream is refused exactly when it is damaged: a token that reaches    *)
(* before the first pixel or past the last, or an input that ends early.   *)
(***************************************************************************)
LzRefusesDamage ==
    /\ stage = "error" => damaged
    /\ stage = "done" => ~damaged

\* Both: every token at the limits of every field is read as what it stands for,
\* or refused because it is damaged, and for no other reason.
LzDecodesExactly == LzRoundTrip /\ LzRefusesDamage
=============================================================================
