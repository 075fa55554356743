------------------------------ MODULE LzTokens ------------------------------
(***************************************************************************)
(* What the LZ and GLZ streams have in common (capsaicin-lz/src/lib.rs,    *)
(* capsaicin-glz/src/lib.rs): literal runs, back-references that may       *)
(* overlap their own output, lengths continued in further bytes.  Pixels   *)
(* are names; a pixel takes one place in the stream.                       *)
(***************************************************************************)
EXTENDS Integers, SequencesExt, FiniteSetsExt

CONSTANT Byte       \* 256: values of a byte

ASSUME ByteAssumption == Byte \in Nat \ {0, 1}

\* SPICE server: v >= 0 in continued bytes, all full but the last.
Continued(v) == [i \in 1 .. v \div (Byte - 1) |-> Byte - 1] \o <<v % (Byte - 1)>>

\* The length loop: where the continuation that starts at from ends (0: the
\* input ends before it), and what it adds up to.
ContinuedEnd(s, from) == SelectInSubSeq(s, from, Len(s), LAMBDA b : b # Byte - 1)
ContinuedSum(s, from, to) == (to - from) * (Byte - 1) + s[to]

\* The copy loop: pixel by pixel, each read after those before it are written.
CopyBack(out, ofs, len) ==
    LET copied[i \in 1 .. Len(out) + len] ==
          IF i <= Len(out) THEN out[i] ELSE copied[i - ofs]
    IN copied

\* SPICE server: a match at distance dist repeats the last dist pixels.
Repeated(image, dist, len) ==
    image \o [i \in 1 .. len |-> image[Len(image) - dist + 1 + ((i - 1) % dist)]]

\* SPICE server: count pixels that have not been there before.
Fresh(image, count) == [i \in 1 .. count |-> Len(image) + i]
=============================================================================
