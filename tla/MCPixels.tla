------------------------------ MODULE MCPixels ------------------------------
(***************************************************************************)
(* Where pixels are made and kept, each place by itself: DRAW_COPY in all  *)
(* its forms on a few images; the GLZ dictionary under more insertions,    *)
(* with identifiers inserted again and with clear; the viewer's            *)
(* framebuffer, and the window that shows it and points back; the LZ and   *)
(* GLZ decoders; QUIC's coders, its words of bits, and its codes.  What    *)
(* the dictionary promises is checked in the first two.                    *)
(***************************************************************************)
EXTENDS DisplayImages, ViewerWindow, LzDecoder, GlzDecoder, QuicCodec, QuicTrial

ASSUME IdsAssumption == 1 .. MaxImages \subseteq Ids /\ MaxInserts >= MaxImages

VARIABLE part       \* a member of Parts

Parts == {"draw_copy", "dictionary", "framebuffer", "window", "keys",
          "lz", "glz", "quic", "quic_words", "quic_codes"}

\* Rectangles stick out of the framebuffer on every side, where it is not as
\* large as it may be.
MCLefts == -1 .. 3
MCTops == -1 .. 3

\* With the smallest fields, lengths from 3 on are continued, from 4 on in two
\* bytes and more, and distances are far from 4 on.
MCKinds ==
    {[format |-> "rgb32", n |-> 1], [format |-> "rgb32", n |-> 7],
     [format |-> "rgba", n |-> 4]}

\* Identifiers to pixels; one image is larger than the one being decoded.
MCDictionary ==
    [id \in {1, 3, 4, 7} |-> [i \in 1 .. IF id = 4 THEN 8 ELSE 3 |-> 10 * id + i]]

\* QUIC with channels of 3 and of 2 bits, codewords of up to 5, segments that
\* begin after 4 pixels, a wait mask that grows twice.
MCJTable == <<0, 0, 1, 2>>
MCTriggers == [wmidx \in 0 .. 2 |-> <<5, 9, 7>>[wmidx + 1]]
MCChaos == <<1, 0, 3, 2, 3>>
MCPlanes == [rgb |-> <<"r", "g", "b">>, rgb16 |-> <<"r", "g">>,
             alpha |-> <<"a">>, gray |-> <<"y">>]
MCPalette ==
    [rgb   |-> {[r |-> 0, g |-> 0, b |-> 0], [r |-> 5, g |-> 1, b |-> 0]},
     rgb16 |-> {[r |-> 0, g |-> 3], [r |-> 2, g |-> 1]},
     alpha |-> {[a |-> 0], [a |-> 7], [a |-> 3]},
     gray  |-> {[y |-> 0], [y |-> 6], [y |-> 1]}]
MCDamages ==
    UNION {[1 .. n -> {0, 1}] : n \in 0 .. 2} \cup {[k \in 1 .. 8 |-> 1], <<0, 0, 1, 1, 1, 0>>}
Stream(format, w, h, damage) ==
    [format |-> format, width |-> w, height |-> h, sound |-> TRUE, damage |-> damage]
MCQuicImages ==
    {Stream("rgb32", 6, 2, FALSE), Stream("rgb24", 4, 2, TRUE), Stream("rgba", 2, 2, FALSE),
     Stream("gray", 4, 2, FALSE), Stream("gray", 3, 2, TRUE),
     Stream("rgb16", 3, 2, FALSE), Stream("rgb16", 2, 2, TRUE),
     Stream("gray", 0, 1, FALSE), Stream("gray", 7, 1, FALSE), Stream("gray", 6, 6, FALSE),
     [Stream("gray", 1, 1, FALSE) EXCEPT !.sound = FALSE]}
MCFollowers == {<<>>, <<0, 0>>, <<1, 1>>, <<0, 1, 0, 1, 1, 0>>}
MCBitWrites == {w \in [word : 0 .. 7, len : 1 .. 3] : w.word < 2^w.len}

\* The parameters of the code are among those the theorems are about.
Real == INSTANCE QuicTrial WITH
    MaxCodeLen <- 26, Peeked <- 32, XlatSize <- 256, Depths <- {5, 8},
    JTable <- <<0, 0, 0, 0, 1, 1, 1, 1, 2, 2, 2, 2, 3, 3, 3, 3, 4, 4, 5, 5, 6, 6, 7, 7,
                8, 9, 10, 11, 12, 13, 14, 15>>

ASSUME RealParameters == Real!QuicCodeAssumption /\ Real!QuicTrialAssumption /\ 2^8 <= 256

\* The window: a paint less than the framebuffer alone; buttons come before the
\* first; the pointer goes along the first row or column, and between two places
\* something else happens.
WinBound ==
    /\ paints' < MaxPaints
    /\ told'.kind \in {"none", "position"} \/ paints = 0
    /\ told'.kind = "position" => told.kind # "position" /\ \E i \in {1, 2} : told'.event[i] = 0
MCViews == {[left |-> -1, top |-> 0, right |-> 3, bottom |-> 3]}
MCWindowSizes == {<<0, 2>>, <<2, 3>>, <<3, 2>>, <<5, 1>>}
MCKeys == KnownKeys \cup {"NumLock"}

\* The framebuffer by itself: no window, but for the redraws it is asked for.
PaintsAsk ==
    asked' = TRUE /\ UNCHANGED <<inner, resized, shown, failed, buttons, pressed, told>>

MCInit ==
    /\ Init /\ WinInit /\ LzInit /\ GlzInit /\ QuicInit /\ TrialInit
    /\ part \in Parts
    /\ part # "window" => inner = <<3, 2>>
    /\ part # "lz" => kind.n = 1
    /\ part # "glz" => glzOut = <<>>
    /\ part # "quic" => ~quicImage.sound

MCNext ==
    /\ \/ part = "draw_copy" /\ Next /\ UNCHANGED fbVars
       \/ part = "dictionary" /\ DictNext /\ UNCHANGED <<nextId, msg, events, fbVars>>
       \/ part = "framebuffer" /\ FbNext /\ PaintsAsk /\ UNCHANGED vars
       \/ part = "window" /\ WindowNext /\ WinBound /\ UNCHANGED vars
       \/ part = "keys" /\ KeyNext /\ UNCHANGED vars
       \/ part = "lz" /\ LzNext /\ UNCHANGED <<vars, fbVars>>
       \/ part = "glz" /\ GlzNext /\ UNCHANGED <<vars, fbVars>>
       \/ part = "quic" /\ QuicNext /\ UNCHANGED <<vars, fbVars>>
       \/ part = "quic_words" /\ BitsNext /\ UNCHANGED <<vars, fbVars>>
       \/ part = "quic_codes" /\ TryCode /\ UNCHANGED <<vars, fbVars>>
    /\ part \notin {"framebuffer", "window", "keys"} => UNCHANGED winVars
    /\ part # "lz" => UNCHANGED lzVars
    /\ part # "glz" => UNCHANGED glzVars
    /\ part # "quic" => UNCHANGED quicVars
    /\ part # "quic_words" => UNCHANGED bitsVars
    /\ part # "quic_codes" => UNCHANGED tried
    /\ UNCHANGED part

MCSpec ==
    MCInit /\ [][MCNext]_<<vars, fbVars, winVars, lzVars, glzVars, quicVars, bitsVars, tried, part>>
=============================================================================
