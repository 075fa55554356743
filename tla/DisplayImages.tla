--------------------------- MODULE DisplayImages ----------------------------
(***************************************************************************)
(* DRAW_COPY in the display task (capsaicin-client/src/display.rs:         *)
(* decode_draw_copy, decode_glz, decode_quic, decode_lz_rgb) and the GLZ   *)
(* dictionary the images of all types are kept in for later cross-image    *)
(* references.                                                             *)
(*                                                                         *)
(* The variable win is DisplayState::glz_window.                           *)
(* Pixels are abstracted to the order of their rows, and to whether they   *)
(* are the image the server drew (real) or zeros, or built on zeros.       *)
(***************************************************************************)
EXTENDS GlzWindow, Sequences

CONSTANTS
    MaxImages,          \* bound: images the server sends, numbered 1, 2, ...
    PlaceholderCap,     \* largest image the decoders and bounded_placeholder accept
    Types,              \* image types the server uses
    Faults              \* what may go wrong with an image

ASSUME ImagesAssumption ==
    /\ MaxImages \in Nat /\ PlaceholderCap \in Nat
    /\ Sizes # {}
    /\ Types \subseteq {"glz", "lz", "quic", "bitmap", "other"}
    /\ Faults \subseteq {"none", "envelope", "body"}

VARIABLES
    nextId,     \* server (external): identifier of the next image
    msg,        \* the DRAW_COPY on its way, or NoImage
    events      \* history: the events posted, one per DRAW_COPY

vars == <<nextId, msg, win, events>>

NoImage == [type |-> "none"]

\* fault: "envelope" is whatever is rejected before the pixels are decoded
\* (offsets, sizes, headers, a pixel type the task does not support), "body"
\* an error of the decoder.  refs: the images a GLZ image refers to.
Image(type, id, bytes, topDown, fault, refs) ==
    [type |-> type, id |-> id, bytes |-> bytes, topDown |-> topDown,
     fault |-> fault, refs |-> refs]

Pixels(rows, real) == [rows |-> rows, real |-> real]
RowsOf(m) == IF m.topDown THEN "topdown" ELSE "bottomup"

\* DisplayEvent::Region and ::UnhandledDraw, with the image they answer.
Region(m, p) == [kind |-> "region", image |-> m, pixels |-> p]
Unhandled(m) == [kind |-> "unhandled", image |-> m]

Init ==
    /\ nextId = 1 /\ msg = NoImage
    /\ win = EmptyWindow
    /\ events = <<>>

-----------------------------------------------------------------------------
\* The server draws the next image (external): a GLZ image may refer to any
\* image sent before, and only GLZ images refer to others.  Only decode_glz
\* tells a decoder's error from others.  What is rejected before it is decoded
\* is, whatever its size and its rows.
ServerDraws ==
    /\ msg = NoImage /\ nextId <= MaxImages
    /\ \E type \in Types, bytes \in Sizes, topDown \in BOOLEAN, fault \in Faults :
         \E refs \in {{}} \cup {{r} : r \in 1 .. nextId - 1} :
           /\ type # "glz" => refs = {}
           /\ type \in {"quic", "other"} => topDown
           /\ fault = "body" => type = "glz"
           /\ type = "other" \/ fault = "envelope" => bytes = Min(Sizes) /\ topDown
           /\ msg' = Image(type, nextId, bytes, topDown, fault, refs)
    /\ nextId' = nextId + 1
    /\ UNCHANGED <<win, events>>

-----------------------------------------------------------------------------
\* Mutated form: rows are handed on in the order the image has them.
FlipVerticalForgotten(m, p) == p

\* flip_vertical, applied when the image is bottom-up.
FlipVertical(m, p) == IF m.topDown THEN p ELSE [p EXCEPT !.rows = "topdown"]

\* Every step of a handler: one event, and perhaps one more image stored.
Post(e) == msg' = NoImage /\ events' = Append(events, e) /\ UNCHANGED nextId

Store(m, p) == win' = Insert(win, m.id, m.bytes, p)
StoreNothing == win' = win

\* Mutated form: the placeholder is never stored.
PlaceholderNone(m) == FALSE

\* bounded_placeholder: Some, unless the geometry is empty or too large.
Placeholder(m) == m.bytes > 0 /\ m.bytes <= PlaceholderCap

\* validate_dims and the cross-image lookups: what decompress_rgb32 needs.
Resolves(m) == m.refs \subseteq DOMAIN win.images
DecodesGlz(m) ==
    /\ m.fault # "body" /\ m.bytes > 0 /\ m.bytes <= PlaceholderCap
    /\ Resolves(m)

\* decode_glz, before the decoder runs: nothing is stored.
GlzRejected ==
    /\ msg.type = "glz" /\ msg.fault = "envelope"
    /\ Post(Unhandled(msg)) /\ StoreNothing

\* The decoder's output is stored as it is, and flipped for the embedder.
GlzDecoded ==
    /\ msg.type = "glz" /\ msg.fault # "envelope" /\ DecodesGlz(msg)
    /\ LET p == Pixels(RowsOf(msg), \A r \in msg.refs : win.images[r].pixels.real) IN
         /\ Store(msg, p)
         /\ Post(Region(msg, FlipVertical(msg, p)))

\* Any error of the decoder: zeros take the image's place, where sane.
GlzFailed ==
    /\ msg.type = "glz" /\ msg.fault # "envelope" /\ ~DecodesGlz(msg)
    /\ IF Placeholder(msg)
         THEN Store(msg, Pixels("topdown", FALSE))
         ELSE StoreNothing
    /\ Post(Unhandled(msg))

\* decode_lz_rgb, decode_quic and the BITMAP branch: flipped, then stored and
\* shown.  LZ and QUIC refuse empty images, BITMAP does not.
FlatDecoded ==
    /\ msg.type \in {"lz", "quic", "bitmap"} /\ msg.fault = "none"
    /\ msg.bytes > 0 \/ msg.type = "bitmap"
    /\ LET p == FlipVertical(msg, Pixels(RowsOf(msg), TRUE)) IN
         /\ Store(msg, p)
         /\ Post(Region(msg, p))

\* The same, on any error: nothing is stored.
FlatFailed ==
    /\ msg.type \in {"lz", "quic", "bitmap"}
    /\ msg.fault # "none" \/ (msg.bytes = 0 /\ msg.type # "bitmap")
    /\ Post(Unhandled(msg)) /\ StoreNothing

\* A type the task does not decode.
OtherType ==
    /\ msg.type = "other"
    /\ Post(Unhandled(msg)) /\ StoreNothing

DecodeDrawCopy ==
    GlzRejected \/ GlzDecoded \/ GlzFailed \/ FlatDecoded \/ FlatFailed \/ OtherType

Next == ServerDraws \/ DecodeDrawCopy

Spec == Init /\ [][Next]_vars

-----------------------------------------------------------------------------
TypeOK ==
    /\ nextId \in 1 .. MaxImages + 1
    /\ msg = NoImage \/ msg.id \in 1 .. MaxImages
    /\ DOMAIN win.images \subseteq 1 .. nextId - 1
    /\ win.used \in Nat
    /\ Len(events) = nextId - 1 - (IF msg = NoImage THEN 0 ELSE 1)

(***************************************************************************)
(* Whatever its type and orientation, an image reaches the embedder        *)
(* top-down ("so the embedder can blit into a top-down framebuffer without *)
(* knowing about SPICE conventions").                                      *)
(***************************************************************************)
RegionsAreTopDown ==
    \A i \in DOMAIN events : events[i].kind = "region" => events[i].pixels.rows = "topdown"

\* Images whose geometry the decoders accept, and whose decoder was run.
Sane(m) == m.bytes > 0 /\ m.bytes <= PlaceholderCap
DecoderRan(m) == m.fault # "envelope"

\* The budget has been used up by the i-th image and what came after it.
UsedUpSince(i) ==
    MapThenSumSet(LAMBDA j : events[j].image.bytes, {j \in DOMAIN events : j >= i}) > Capacity

Available(i) == events[i].image.id \in DOMAIN win.images \/ UsedUpSince(i)

(***************************************************************************)
(* The chain of GLZ images stays alive: an image the embedder was shown,   *)
(* and a sane GLZ image that was not because its decoder failed on it or   *)
(* on what it refers to, can be referred to until newer images have used   *)
(* up the budget.                                                          *)
(***************************************************************************)
GlzChainAlive ==
    \A i \in DOMAIN events :
        LET m == events[i].image IN
        events[i].kind = "region" \/ (m.type = "glz" /\ DecoderRan(m) /\ Sane(m))
            => Available(i)
=============================================================================
