---------------------------- MODULE Framebuffer ----------------------------
(***************************************************************************)
(* The framebuffer of the viewer's window (capsaicin-cli/src/viewer.rs:    *)
(* resize_fb, fill_rect, blit_raw, copy_rect, clamp_rect) under the        *)
(* messages drain_paint takes off the paint queue.  copy_rect works in     *)
(* place, pixel by pixel; its loop is a step per pixel here.               *)
(*                                                                         *)
(* A pixel's value is a name for it: where in which image it comes from.   *)
(***************************************************************************)
EXTENDS Integers, FiniteSets

CONSTANTS
    Widths, Heights,    \* sizes a SurfaceCreated may announce
    MaxAxis, MaxPixels, \* limits of resize_fb
    Lefts, Tops,        \* coordinates of the server's rectangles
    Pictures,           \* names of what is painted
    MaxPaints           \* bound: paint messages

ASSUME FramebufferAssumption ==
    /\ Widths \subseteq Nat /\ Heights \subseteq Nat
    /\ MaxAxis \in Nat /\ MaxPixels \in Nat
    /\ Lefts \subseteq Int /\ Tops \subseteq Int
    /\ MaxPaints \in Nat

VARIABLES
    fbW, fbH,       \* ViewerApp::fb_w, fb_h
    fb,             \* ViewerApp::fb, by column and row
    job,            \* the copy_rect under way, or Idle
    want,           \* history: what the surface shows after each operation
    paints          \* paint messages handled

fbVars == <<fbW, fbH, fb, job, want, paints>>

Idle == [w |-> 0]
Black == <<"black", 0, 0>>
Pixel(image, c, r) == <<image, c, r>>

Screen == (0 .. fbW - 1) \X (0 .. fbH - 1)

\* The server's rectangles are not inverted.
Rects == {r \in [left : Lefts, top : Tops, right : Lefts, bottom : Tops] :
             r.left <= r.right /\ r.top <= r.bottom}

FbInit ==
    /\ fbW = 0 /\ fbH = 0 /\ fb = [p \in {} |-> Black]
    /\ job = Idle /\ want = fb /\ paints = 0

-----------------------------------------------------------------------------
ClampTo(x, limit) == IF x < 0 THEN 0 ELSE IF x > limit THEN limit ELSE x

\* clamp_rect
ClampRect(r) ==
    [left  |-> ClampTo(r.left, fbW),  top    |-> ClampTo(r.top, fbH),
     right |-> ClampTo(r.right, fbW), bottom |-> ClampTo(r.bottom, fbH)]

Inside(p, r) == p[1] \in r.left .. r.right - 1 /\ p[2] \in r.top .. r.bottom - 1

\* The next message of the paint queue.
Paint == job = Idle /\ paints < MaxPaints /\ paints' = paints + 1

\* resize_fb: sizes out of range are passed over, and so is the size it has.
ResizeFb(w, h) ==
    /\ Paint
    /\ IF \/ w = fbW /\ h = fbH
          \/ w = 0 \/ h = 0 \/ w > MaxAxis \/ h > MaxAxis \/ w * h > MaxPixels
         THEN UNCHANGED <<fbW, fbH, fb>>
         ELSE /\ fbW' = w /\ fbH' = h
              /\ fb' = [p \in (0 .. w - 1) \X (0 .. h - 1) |-> Black]
    /\ want' = fb' /\ UNCHANGED job

\* fill_rect
FillRect(r, image) ==
    /\ Paint
    /\ LET c == ClampRect(r) IN
         fb' = [p \in Screen |-> IF Inside(p, c) THEN Pixel(image, 0, 0) ELSE fb[p]]
    /\ want' = [p \in Screen |-> IF Inside(p, r) THEN Pixel(image, 0, 0) ELSE want[p]]
    /\ UNCHANGED <<fbW, fbH, job>>

\* blit_raw: the image's pixel at the same place of the unclamped rectangle.
BlitRaw(r, image) ==
    /\ Paint
    /\ LET c == ClampRect(r) IN
         fb' = [p \in Screen |->
                  IF Inside(p, c) THEN Pixel(image, p[1] - r.left, p[2] - r.top) ELSE fb[p]]
    /\ want' = [p \in Screen |->
                  IF Inside(p, r) THEN Pixel(image, p[1] - r.left, p[2] - r.top) ELSE want[p]]
    /\ UNCHANGED <<fbW, fbH, job>>

-----------------------------------------------------------------------------
\* Where copy_rect copies to and from: the destination is clamped and the
\* source moved along with it.
Copy(srcX, srcY, r) ==
    LET c == ClampRect(r) IN
    [dl |-> c.left, dt |-> c.top, w |-> c.right - c.left, h |-> c.bottom - c.top,
     sx |-> srcX + c.left - r.left, sy |-> srcY + c.top - r.top,
     i |-> 0, k |-> 0]

\* Its early returns: nothing to copy, or a source not wholly on the screen.
Copies(j) ==
    /\ j.w # 0 /\ j.h # 0
    /\ j.sx >= 0 /\ j.sy >= 0
    /\ j.sx + j.w <= fbW /\ j.sy + j.h <= fbH

InDest(p, j) == p[1] \in j.dl .. j.dl + j.w - 1 /\ p[2] \in j.dt .. j.dt + j.h - 1
Source(p, j) == <<p[1] - j.dl + j.sx, p[2] - j.dt + j.sy>>

\* COPY_BITS as the server means it: all pixels at once.
Moved(old, j) == [p \in Screen |-> IF InDest(p, j) THEN old[Source(p, j)] ELSE old[p]]

CopyRect(srcX, srcY, r) ==
    /\ Paint
    /\ LET j == Copy(srcX, srcY, r) IN
         IF Copies(j) THEN job' = j /\ want' = Moved(want, j)
                      ELSE UNCHANGED <<job, want>>
    /\ UNCHANGED <<fbW, fbH, fb>>

\* Mutated form: rows and columns always from the first to the last.
CurrentForward(j) == <<j.dl + j.k, j.dt + j.i>>

\* The pixel of the k-th turn of the i-th row's loop: rows bottom-up when the
\* destination is below the source, columns right to left when it is to the
\* right.
Current(j) ==
    <<j.dl + (IF j.dl > j.sx THEN j.w - 1 - j.k ELSE j.k),
      j.dt + (IF j.dt > j.sy THEN j.h - 1 - j.i ELSE j.i)>>

LastOfRow == job.k = job.w - 1
LastRow == job.i = job.h - 1

CopyPixel ==
    /\ job # Idle
    /\ fb' = [fb EXCEPT ![Current(job)] = fb[Source(Current(job), job)]]
    /\ job' = IF ~LastOfRow THEN [job EXCEPT !.k = @ + 1]
              ELSE IF ~LastRow THEN [job EXCEPT !.k = 0, !.i = @ + 1]
              ELSE Idle
    /\ UNCHANGED <<fbW, fbH, want, paints>>

-----------------------------------------------------------------------------
FbNext ==
    \/ \E w \in Widths, h \in Heights : ResizeFb(w, h)
    \/ \E r \in Rects, image \in Pictures : FillRect(r, image) \/ BlitRaw(r, image)
    \/ \E r \in Rects, x \in Lefts, y \in Tops : CopyRect(x, y, r)
    \/ CopyPixel

FbSpec == FbInit /\ [][FbNext]_fbVars

-----------------------------------------------------------------------------
(***************************************************************************)
(* The framebuffer always has fb_w * fb_h pixels, and a copy under way     *)
(* reads and writes only those.                                            *)
(***************************************************************************)
FbTypeOK ==
    /\ fbW \in Nat /\ fbH \in Nat /\ paints \in 0 .. MaxPaints
    /\ DOMAIN fb = Screen /\ DOMAIN want = Screen
    /\ job # Idle => /\ job.i \in 0 .. job.h - 1 /\ job.k \in 0 .. job.w - 1
                     /\ Current(job) \in Screen
                     /\ Source(Current(job), job) \in Screen

(***************************************************************************)
(* viewer.rs, copy_rect: "choosing the iteration order that doesn't        *)
(* trample yet-to-be-read source pixels (memmove semantics)": between      *)
(* messages the framebuffer shows what the operations mean, however the    *)
(* source and destination of a copy overlap or stick out of the screen.    *)
(***************************************************************************)
PictureAgrees == job = Idle => fb = want
=============================================================================
