---------------------------- MODULE ViewerWindow ----------------------------
(***************************************************************************)
(* The viewer's window (capsaicin-cli/src/viewer.rs): redraw, which scales *)
(* the framebuffer to the window's size; and the inputs, which are scaled  *)
(* back (handle_cursor_moved, handle_mouse_button, handle_key).            *)
(*                                                                         *)
(* All of it runs in winit's event loop, one event after the other; the    *)
(* window's size changes by itself and is told later.  An input is what is *)
(* handed to send_input_nonblocking; Viewer has what becomes of it.        *)
(***************************************************************************)
EXTENDS Framebuffer

CONSTANTS
    WindowSizes,    \* sizes the window may get
    Views,          \* rectangles that are painted
    Keys,           \* keys the user presses and releases
    Buttons         \* mouse buttons: those of ButtonNames and others

ASSUME WindowAssumption ==
    WindowSizes \subseteq Nat \X Nat /\ Views \subseteq Rects

VARIABLES
    inner,          \* Window::inner_size
    resized,        \* a Resized event waits
    asked,          \* a redraw is requested
    shown,          \* what the window shows, by column and row
    failed,         \* the last redraw did not come through
    buttons,        \* ViewerApp::buttons_state
    pressed,        \* history: mouse buttons the user holds
    told            \* the event just handled, and the input sent for it

winVars == <<inner, resized, asked, shown, failed, buttons, pressed, told>>

NoInput == [kind |-> "none"]
AtLeastOne(n) == IF n = 0 THEN 1 ELSE n
WindowColumns(size) == AtLeastOne(size[1])
WindowRows(size) == AtLeastOne(size[2])
WindowPixels(size) == (0 .. WindowColumns(size) - 1) \X (0 .. WindowRows(size) - 1)

WinInit ==
    /\ FbInit
    /\ inner \in WindowSizes
    /\ shown = [p \in WindowPixels(inner) |-> Black]
    /\ resized = FALSE /\ asked = FALSE /\ failed = FALSE
    /\ buttons = {} /\ pressed = {} /\ told = NoInput

-----------------------------------------------------------------------------
(***************************************************************************)
(* Paint and redraw.                                                       *)
(***************************************************************************)

\* drain_paint, about_to_wait: a message is painted and a redraw asked for.
PaintMessage(step) ==
    /\ step /\ asked' = TRUE /\ told' = NoInput
    /\ UNCHANGED <<shown, failed, buttons, pressed>>

\* SurfaceCreated: the window is asked for that size as well, and may take it
\* at once, later with an event, or never.
PaintSurface(w, h) ==
    /\ PaintMessage(ResizeFb(w, h))
    /\ inner' \in {inner} \cup (WindowSizes \cap {<<w, h>>})
    /\ UNCHANGED resized

PaintRegion(step) == PaintMessage(step) /\ UNCHANGED <<inner, resized>>

WindowResizes ==
    /\ inner' \in WindowSizes \ {inner} /\ resized' = TRUE /\ told' = NoInput
    /\ UNCHANGED <<fbVars, asked, shown, failed, buttons, pressed>>

\* Mutated form: the new size is taken note of at the next redraw.
ResizedQuietly ==
    /\ resized /\ resized' = FALSE /\ told' = NoInput
    /\ UNCHANGED <<fbVars, asked, inner, shown, failed, buttons, pressed>>

Resized ==
    /\ resized /\ resized' = FALSE /\ asked' = TRUE /\ told' = NoInput
    /\ UNCHANGED <<fbVars, inner, shown, failed, buttons, pressed>>

\* Nearest neighbour, from a window's pixel to a framebuffer's.
FromWindow(x, size, fbSize) == (x * fbSize) \div size

Scaled(size) ==
    [p \in WindowPixels(size) |->
        IF fbW = 0 THEN Black
        ELSE fb[<<FromWindow(p[1], WindowColumns(size), fbW), FromWindow(p[2], WindowRows(size), fbH)>>]]

Redraw ==
    /\ asked /\ asked' = FALSE /\ told' = NoInput
    /\ shown' = Scaled(inner) /\ failed' = FALSE
    /\ UNCHANGED <<fbVars, inner, resized, buttons, pressed>>

\* The surface cannot be resized, locked or presented: a warning, and no more.
RedrawFails ==
    /\ asked /\ asked' = FALSE /\ told' = NoInput
    /\ failed' = TRUE
    /\ UNCHANGED <<fbVars, inner, resized, shown, buttons, pressed>>

-----------------------------------------------------------------------------
(***************************************************************************)
(* Inputs.                                                                 *)
(***************************************************************************)
Tells(event, input) ==
    /\ told' = [kind |-> input.kind, event |-> event, input |-> input]
    /\ UNCHANGED <<fbVars, inner, resized, asked, shown, failed>>

\* Mutated form: rounded to the nearest.
ToSurfaceRounded(x2, size, fbSize) ==
    LET scaled == IF x2 < 0 THEN 0 ELSE (x2 * fbSize + size) \div (2 * size) IN
    IF scaled > fbSize - 1 THEN fbSize - 1 ELSE scaled

\* `as i64` cuts towards zero, and what is outside is moved to the edge.
ToSurface(x2, size, fbSize) ==
    LET scaled == IF x2 < 0 THEN 0 ELSE (x2 * fbSize) \div (2 * size) IN
    IF scaled > fbSize - 1 THEN fbSize - 1 ELSE scaled

\* CursorMoved: a position in half pixels, inside the window or beside it.
CursorMoved(x2, y2) ==
    /\ fbW # 0 /\ fbH # 0 /\ inner[1] # 0 /\ inner[2] # 0
    /\ Tells(<<x2, y2>>,
             [kind |-> "position", x |-> ToSurface(x2, inner[1], fbW),
              y |-> ToSurface(y2, inner[2], fbH), buttons |-> buttons])
    /\ UNCHANGED <<buttons, pressed>>

\* The buttons SPICE has a mask for here; others are passed over.
ButtonNames == {"left", "middle", "right"}

MousePressed(b) ==
    /\ b \notin pressed /\ pressed' = pressed \cup {b}
    /\ IF b \in ButtonNames
         THEN /\ buttons' = buttons \cup {b}
              /\ Tells(b, [kind |-> "press", button |-> b, buttons |-> buttons'])
         ELSE Tells(b, NoInput) /\ UNCHANGED buttons

MouseReleased(b) ==
    /\ b \in pressed /\ pressed' = pressed \ {b}
    /\ IF b \in ButtonNames
         THEN /\ buttons' = buttons \ {b}
              /\ Tells(b, [kind |-> "release", button |-> b, buttons |-> buttons'])
         ELSE Tells(b, NoInput) /\ UNCHANGED buttons

\* winit_keycode_to_spice: plain codes row by row, and those behind 0xE0.
PlainKeys ==
    <<"Escape", "Digit1", "Digit2", "Digit3", "Digit4", "Digit5", "Digit6", "Digit7", "Digit8",
      "Digit9", "Digit0", "Minus", "Equal", "Backspace", "Tab", "KeyQ", "KeyW", "KeyE", "KeyR",
      "KeyT", "KeyY", "KeyU", "KeyI", "KeyO", "KeyP", "BracketLeft", "BracketRight", "Enter",
      "ControlLeft", "KeyA", "KeyS", "KeyD", "KeyF", "KeyG", "KeyH", "KeyJ", "KeyK", "KeyL",
      "Semicolon", "Quote", "Backquote", "ShiftLeft", "Backslash", "KeyZ", "KeyX", "KeyC", "KeyV",
      "KeyB", "KeyN", "KeyM", "Comma", "Period", "Slash", "ShiftRight", "", "AltLeft", "Space",
      "CapsLock", "F1", "F2", "F3", "F4", "F5", "F6", "F7", "F8", "F9", "F10">>
ExtendedKeys ==
    [ControlRight |-> 29, AltRight |-> 56, ArrowUp |-> 72, ArrowLeft |-> 75, ArrowRight |-> 77,
     ArrowDown |-> 80, Home |-> 71, End |-> 79, PageUp |-> 73, PageDown |-> 81, Insert |-> 82,
     Delete |-> 83, SuperLeft |-> 91, SuperRight |-> 92]
KnownKeys == (DOMAIN ExtendedKeys \cup {PlainKeys[i] : i \in DOMAIN PlainKeys}) \ {""}

Scancode(key) ==
    IF key \in DOMAIN ExtendedKeys THEN 224 * 256 + ExtendedKeys[key]
    ELSE CHOOSE i \in DOMAIN PlainKeys : PlainKeys[i] = key

\* KEY_UP has the break bit in the low byte; the key's own bit is lost in it.
Released(code) ==
    LET low == code % 256 IN code - low + (IF low < 128 THEN low + 128 ELSE low)

KeyPressed(key) ==
    /\ Tells(key, IF key \in KnownKeys THEN [kind |-> "down", code |-> Scancode(key)] ELSE NoInput)
    /\ UNCHANGED <<buttons, pressed>>
KeyReleased(key) ==
    /\ Tells(key, IF key \in KnownKeys THEN [kind |-> "up", code |-> Released(Scancode(key))]
                  ELSE NoInput)
    /\ UNCHANGED <<buttons, pressed>>

-----------------------------------------------------------------------------
\* Positions from beside the window to beside it on the other side.
HalfPixels(n) == -2 .. 2 * n + 2

WindowNext ==
    \/ \E w \in Widths, h \in Heights : PaintSurface(w, h)
    \/ \E r \in Views, image \in Pictures : PaintRegion(BlitRaw(r, image))
    \/ WindowResizes \/ Resized \/ Redraw \/ RedrawFails
    \/ \E x2 \in HalfPixels(inner[1]), y2 \in HalfPixels(inner[2]) : CursorMoved(x2, y2)
    \/ \E b \in Buttons : MousePressed(b) \/ MouseReleased(b)

KeyNext == \E key \in Keys : KeyPressed(key) \/ KeyReleased(key)

WinNext == WindowNext \/ KeyNext

WinSpec == WinInit /\ [][WinNext]_<<fbVars, winVars>>

-----------------------------------------------------------------------------
UpToDate == shown = Scaled(inner)

(***************************************************************************)
(* The window shows the framebuffer at its own size, unless a redraw is    *)
(* requested, a change of its size has still to be told, or the last       *)
(* redraw failed: no paint and no resize is forgotten.                     *)
(***************************************************************************)
WindowKeepsUp == job = Idle => asked \/ resized \/ failed \/ UpToDate

\* The pixel of the framebuffer shown in a window's pixel; beside the window,
\* its first or last.
ShownAt(n, size, fbSize) ==
    IF n < 0 THEN 0 ELSE IF n >= size THEN fbSize - 1 ELSE FromWindow(n, size, fbSize)

\* One points at what is shown in a window's pixel, or within the pixel between
\* that and what is shown in the next one.
PointsAt(at, x2, size, fbSize) ==
    LET n == x2 \div 2 IN
    at \in ShownAt(n, size, fbSize) .. ShownAt(n + (x2 % 2), size, fbSize)

\* The code that tells a key went down, or up.
CodeOf(key, up) == IF up THEN Released(Scancode(key)) ELSE Scancode(key)

(***************************************************************************)
(* Inputs mean what the user did: a position is that of what is shown      *)
(* there, the mask has the buttons that are held, and a key's two codes    *)
(* tell which key it is, and whether it went down or up.                   *)
(***************************************************************************)
InputsMeanWhatWasDone ==
    /\ told.kind = "position" =>
         /\ PointsAt(told.input.x, told.event[1], inner[1], fbW)
         /\ PointsAt(told.input.y, told.event[2], inner[2], fbH)
    /\ told.kind \in {"position", "press", "release"} =>
         told.input.buttons = pressed \cap ButtonNames
    /\ told.kind \in {"down", "up"} =>
         {move \in KnownKeys \X BOOLEAN : told.input.code = CodeOf(move[1], move[2])}
           = {<<told.event, told.kind = "up">>}

\* What the window shows is up to date, and inputs mean what the user did to
\* what is shown.
WindowTellsTrue == WindowKeepsUp /\ InputsMeanWhatWasDone
=============================================================================
