# capsaicin in TLA+

Specifications of capsaicin, a SPICE client and minimal SPICE server in Rust:
TLA+ modules translated from the source, TLC configurations that model-check
them on small instances, and theorems with proofs that TLAPS checks for every
value of the constants.

`PROJECT.json` is the index: components, runs, the source lines of every
definition ("map"), mutants (a plausible bug per property, which TLC must
find), findings, hazards and theorems.

    tlc -config DisplayFlow.cfg MCDisplayFlow     # a run: cfg and module are in PROJECT.json
    tlapm DisplayFlow_proofs.tla                  # a proof module

## 1. Inventory

Paths are below `crates/`.

| component | source | state | operations | talks to | models |
|---|---|---|---|---|---|
| display task | `capsaicin-client/src/display.rs` | surfaces, streams, GLZ dictionary, ACK countdown | `run`, `handle` (one arm per message), `decode_*`, `emit_stream_frame` | server (socket), embedder (event mailbox) | DisplayFlow, DisplayChannel, DisplayImages |
| main channel | `capsaicin-net/src/client.rs`, `capsaicin-client/src/client.rs` | INIT, channel list; ACK window and countdown | `bootstrap`, `run_main` | server, mailbox | MainBootstrap, MainFlow, Connection |
| cursor task | `capsaicin-client/src/cursor.rs` | none | `run`, `cursor_to_event` | server, mailbox | CursorFlow, Codecs |
| inputs task | `capsaicin-client/src/inputs.rs` | none but the half-read message | `run` (a `select!`), `send_event`, `handle_server_msg` | input queue, server | InputsFlow, InputsChannel |
| SpiceClient | `capsaicin-client/src/client.rs` | tasks, mailbox, input sender | `connect_with`, `next_event`, `send_input`, `close`, `drop` | all tasks, embedder | SpiceClient, Connection |
| framing | `capsaicin-net/src/channel.rs`, `capsaicin-proto/src/header.rs` | serial, header kind, limit | `read_message`, `write_message` | every task | InputsChannel (pieces), Framing (bytes), AckChannel (whole messages) |
| GLZ dictionary | `capsaicin-glz/src/lib.rs` | images, byte count, sequence number | `insert`, `get`, `clear` | display task | GlzDict, GlzWindow, GlzBudget |
| LZ and GLZ decoders | `capsaicin-lz`, `capsaicin-glz` | none | headers, `decompress_*` | display task | LzDecoder, GlzDecoder; Codecs (headers) |
| QUIC coders | `capsaicin-quic/src/lib.rs` | per channel: bucket counters; per image: wait mask, seed, run state | `compress_rgb32`, `decompress_*`, `BitWriter`, `BitReader` | display task | QuicCode, QuicCodec, QuicBits, QuicTrial; Codecs (header) |
| MJPEG decoder | `capsaicin-client/src/mjpeg.rs` | none | `decode` (an external library) | display task | by success or failure, in DisplayChannel |
| server | `capsaicin-server/src/lib.rs` | live session ids | `new_session_id`, `end_session`, `is_live_session`, `serve_main_bootstrap` | connection tasks | Sessions, MainBootstrap |
| serve command | `capsaicin-cli/src/main.rs` | semaphore of 64 slots | `serve_flow`, `handle_server_conn` | server | Sessions |
| link handshake, ticket | `capsaicin-net/src/{link,client,server,auth}.rs` | framing agreed on | `link_client`, `link_server` | each other | Connection, Sessions |
| TLS, TLS policy | `capsaicin-net/src/tls.rs`, `main.rs` | | `parse_tls_policy`, verifiers, `connect_with_policy` | link handshake | Connection |
| viewer | `capsaicin-cli/src/viewer.rs` | framebuffer, buttons, two queues | paint, `redraw`, pointer, buttons, keys, `spice_task` | SpiceClient | Viewer, ViewerWindow, Framebuffer |
| codecs | `capsaicin-proto` | | `encode`, `decode` of every message | all of the above | Codecs |
| wasm bindings | `capsaicin-wasm` | a GLZ dictionary | decoders for JavaScript | decoders | not modelled |

What is hard here, and which property watches it, is the list "hazards" of
`PROJECT.json`. In short:

* **Flow control** is a protocol kept by four hand-written loops. A count that
  is off by one, or a window dropped between two loops, shows as a stall much
  later.
* **Await points.** A task that waits for room in the shared mailbox, or for
  the socket, can be overtaken, aborted or outlive its client.
* **`select!`** in the inputs task drops whichever future loses.
* **Rings of queues.** Mailbox, paint queue, two input queues and a task that
  both drains and fills: who waits for whom when all are full.
* **Coders that adapt.** QUIC's two ends change their tables after every
  symbol; one that does so a pixel early decodes garbage without an error.
* **Layouts written twice**, in `encode` and in `decode`, with counts and
  offsets that the peer chooses.
* **In-place copies and bit fields.** `copy_rect` and the decoders' matches
  overlap themselves; lengths and distances spill into further bytes.
* **Tables at both ends** (surfaces, streams, dictionary) must stay in step
  through resets, re-creations and messages that do not decode.
* **The server's connections** run concurrently and leave by many exits.

Nothing is persisted, so there is no recovery to model; SPICE runs on TCP, so
messages are neither reordered nor duplicated, only cut off.

## 2. Modules

    AckChannel ── DisplayFlow ── DisplayFlow_proofs ── MCDisplayFlow
               ├─ MainFlow ──┐
               ├─ CursorFlow ┼─ ChannelFlows ── ChannelFlows_proofs
               └─ InputsFlow ┘
    GlzDict ── GlzWindow ── DisplayImages ─┐
        (GlzWindow implements GlzBudget)   │
    Framebuffer ── ViewerWindow ───────────┤
    LzTokens ─┬─ LzDecoder ────────────────┼─ MCPixels
              └─ GlzDecoder ───────────────┤
    QuicCode ─┬─ QuicCodec ────────────────┤
              └─ QuicBits ── QuicTrial ────┘
    GlzWindow, DisplayImages, LzDecoder, GlzDecoder, QuicCodec, QuicTrial ── Images_proofs
    Codecs ── Framing ─┐
    Sessions ──────────┼─ MCWire
       └─ Sessions_proofs
    MainBootstrap ── Connection ── Connection_proofs
    SpiceClient ── Viewer, ViewerWindow ── Viewer_proofs
    DisplayChannel ── DisplayChannel_proofs
    InputsChannel ── InputsChannel_proofs

**AckChannel** is one channel seen from flow control: the server's window (an
external component, modelled from what the client relies on), the two
directions of the socket, the mailbox, and the parts every client task shares
(`Take` is `read_message`, `Write` is `write_message`, `Post` is
`events_tx.send().await`). Messages carry history stamps; the tasks read only
what is on the wire. **DisplayFlow**, **MainFlow**, **CursorFlow** and
**InputsFlow** add one task each, with one action per arm of its `match`.
A program counter stands at each await: "read", "handle" (reply or event
still to be written) and "note" (the ACK still to be written). **ChannelFlows**
is any one of the three channels beside the display's.

**DisplayChannel** has the surface and stream tables, in the task, at the
server and in the embedder's head. A message's table change and the start of
its post are one action, since nobody else sees the tables; the wait for the
mailbox is a state of its own.

**GlzDict** is the dictionary as a value, with its insertion and eviction loop
(a recursive function over rounds). **GlzWindow** makes a component of it, a
dictionary that images are inserted into and that is cleared, and states that
it implements **GlzBudget**: images with a size and an order of age, of which
the latest that fit are kept, with no counters, no sequence numbers and no
loop. **DisplayImages** runs DRAW_COPY of every image type over the same
dictionary.

**LzDecoder** and **GlzDecoder** put the decoders' loops, one turn a step,
behind an encoder (the server's, external) that is free to choose any literals
and matches, and behind damage: a token that does not fit, a stream cut off in
any place. **LzTokens** holds what the two formats share. A pixel takes one
place in the stream, and the widths of all bit fields are constants, so that
their limits are met in images of a few pixels. GlzDecoder's dictionary is a
constant, since no image is inserted while another is decoded; which images
are in it is the matter of DisplayImages.

**Framebuffer** is the pixels of the viewer's window under the paint messages,
with `copy_rect` a step per pixel. `want` is what the surface shows if every
message does what it says. **ViewerWindow** puts the window around it:
`redraw` with its scaling, resizes that are told later, redraws that fail; and
the way back, pointer positions scaled to the framebuffer, the button mask and
the scancodes. It has no threads: all of it runs in winit's event loop.

**QuicCode** holds QUIC's codes, as operators: the Golomb-Rice family of a
channel depth with its escapes, the MELCODE run lengths, the bucket model.
**QuicCodec** runs the encoder and the decoder with them, a symbol a step, each
end with its own copy of everything that adapts (`FreshCoder`). The encoder of
the repository ends before a decoder starts, and never looks at what is
decoded, so letting them take turns changes nothing but the length of the
stream that must be kept; and the image can be chosen pixel by pixel as it is
encoded. RGB32 (and the colours of RGBA) has runs; the other planes come from
an external encoder that writes none, since their decoders read none. A damaged
stream ends in arbitrary bits, with the few more that the reader gives out
behind the end. **QuicBits** is the way from those bits to words of
little-endian bytes and back, `peek32` across two words included. **QuicTrial**
tries codes and words by themselves: any symbol in any code, any run from any
state, with any bits behind it.

**MCPixels** checks all these beside each other, one at a time (`part`), the
dictionary alone, and QUIC's codes and words alone.

**Codecs** is the encoding of the messages. A struct is a sequence of fields in
the order of its `encode` and `decode`; a field is a number, an enumeration, a
tag with what follows it, a list with its limit, the capability words, the
chunks of an image, and so on. Bodies are cut, continued or changed on their
way. It also has `decode_draw_copy` from the message to the pixels' decoder,
for all four ways an image comes, with the headers of LZ, GLZ and QUIC
streams, and `cursor_to_event`. **Framing** puts bodies behind full and mini
headers, with serials that wrap, a limit at each end, and a connection that
may break between any two bytes. **MCWire** checks both, beside Sessions.

**MainBootstrap** joins the client's bootstrap, the sub-channel phase of
`connect_with` and `run_main` with `serve_main_bootstrap`, or with an external
server that also pings and changes mouse modes (`Servers`). **Connection** puts
it behind the links: the TLS flags and the policy they make, servers without
TLS, with a self-signed or a well-known certificate, the fallback, mess,
reply, ticket and result for one channel after another, the framing each end
settles on, and the connection tasks of the server, which let a sub-channel in
only with a live session. MainBootstrap's own `Next`, where all links are there from the start,
serves the MouseMode run.

**InputsChannel** delivers server messages in pieces (two of header, one of
body), so that a `read_message` can be dropped half-way. What a task reads
after losing the framing may announce any length. The server sends whenever the
socket has room, without end.

**SpiceClient** is the life of the client object: what each task does is one
"post" or "stop", what the embedder does is `next_event`, `close` or `drop`.
**Viewer** adds who that embedder is: any application, or the viewer with its
window thread, `spice_task` and the queues between them, and follows an input
from the window to the server.

**Sessions** is the server: one task per connection, the semaphore, and the
table of live ids, each critical section one action.

Mutated forms (operators introduced by "Mutated form:") are not part of any
specification; they are the bugs the properties are tested against.

## 3. Runs

All of these systems may stop for good (a client is dropped, a bound is
reached, a connection ends), so the runs do not check deadlock; that nothing
is stuck which should not be is what NoStall and the liveness properties say.

| run | checks | shows |
|---|---|---|
| DisplayFlow | NoStall, CreditIsEarned, IInv; CreditReturns, GenerationSyncs | the display task and the server count alike, credit always comes back, every SET_ACK is answered |
| ChannelFlows | CreditIsEarned, RunPhaseNeverStalls | main, cursor and inputs never give credit they do not have; `run_main` counts right, once it has seen the window |
| Pixels | WindowTellsTrue, DictionaryAddsUp, RegionsAreTopDown, GlzChainAlive, PictureAgrees, LzDecodesExactly, GlzDecodesExactly, CodesComeBack, CodersInStep, CodersStayInRow; KeepsLatestThatFit, CodersLeadOn | orientation, which references resolve, that the dictionary implements its budget, that `copy_rect` is a memmove, that the window shows the framebuffer and points back at it, that the LZ and GLZ decoders undo the encoder and refuse damage only, that QUIC's two ends stay in step and, on any stream, within the row |
| DisplayChannel | SettledViewsAgree, FramesBelongToAStream, RegionsMatchTheirSurface; EndedStreamsGo | embedder and server agree, ended streams end for the embedder |
| Connection | BootstrapsMatch, KnownModeAgrees, FallsBackOnlyIfAllowed, LinksAgree; ConnectSettles | links, bootstrap and fallback fit together; a refused link is final, and no link is made in plain text, or over TLS, against the flags; every attempt ends |
| InputsChannel | InputsStayInOrder; InputsReachServer | inputs arrive once and in order, and arrive although the server never stops sending |
| Viewer | EndIsAnnounced, InputsKeepOrder; MainLossIsReported, ShutdownCompletes, PostsGetThrough | Closed once, None only after it; the end is reported and closes the window, shutdown ends; no ring of full queues closes |
| Wire | OpenSessionsAreDistinct, OpenSessionsAreLive, SlotsAddUp, MessagesComeBack, DamageIsContained | ids and slots over all interleavings; bodies and frames come back as they were written; damaged ones are read within their end and their limits |

(After the semicolon: temporal properties. IInv is DisplayFlow's inductive
invariant, see section 5, and contains TypeOK. CodesComeBack and MessagesComeBack
join what several modules say, in MCPixels and MCWire.) The type invariants (`TypeOK`,
`ConnTypeOK` and the like) document the variables of most modules. Those of
DisplayFlow, ChannelFlows, DisplayChannel, DisplayImages, Framebuffer, Sessions,
SpiceClient, Viewer, InputsChannel, Connection, QuicCodec, LzDecoder and
GlzDecoder are theorems
(section 5); the others hold of the specifications in the configurations.

Four runs end in a violation; each shows the code departing from what its own
comments or documents say.

| run | property | what happens |
|---|---|---|
| MainStall | NoStall | SET_ACK arrives in the bootstrap, which answers it and forgets the window; `run_main` never sends an ACK |
| MouseMode | ModeAgrees | the answer to the client's own MOUSE_MODE_REQUEST falls into the bootstrap and is dropped |
| InputsDesync | ControlMessagesAreDrained | an input arrives while a message is half read, and the framing is lost |
| SessionLeak | LiveSessionsAreOpen | `?` on a failed bootstrap skips `end_session` |

More disagreements were met while modelling and can be read off the
actions, so they have no run of their own:

* the cursor and inputs tasks answer SET_ACK and never send an ACK
  (`HandleSetAck` of CursorFlow and InputsFlow), so they stall as main does;
* a QUIC or LZ image that fails to decode leaves no placeholder in the
  dictionary, only GLZ does (`FlatFailed` against `GlzFailed`), where
  JOURNEY.md:130-134 speaks of every image;
* `decode_glz` stores the rows in stream order (`GlzDecoded`), where the
  comment at display.rs:574 says "always store top-down". Storing them so is
  what makes the decoder's cross-image references line up; it is the comment
  that is off;
* `looks_like_tls_handshake_failure` goes by words that include "connection
  reset", so the Auto policy also tries again without TLS after a reset of a
  connection whose TLS was up (`FallBack` after `OtherFailure`), where the
  comment speaks of servers that do not speak TLS;
* the comment on `decompress_rgb32` (quic lib.rs:2071-2078) says that runs are
  not wired into the decoder; they are (lines 745-836, `DecodeRun`);
* QUIC's header is said to be big-endian (quic lib.rs:110) and is read
  little-endian (`QuicHeader`), and the last bucket is said to have 128 values
  (lines 601-603), where `build_bucket_sizes` gives 129 (`find_bucket`);
* the GLZ crate's introduction (glz lib.rs:27-29) says that references to other
  images are an error; they are resolved (GlzDecoder);
* `LzImageType::from_u32` (lz lib.rs:116) reports an unknown type as a buffer
  too short, though there is an error for it, BadImageType;
* limits.rs:3-4 has every allocation bounded by one of its constants;
  `MonitorsConfig::decode` (proto display.rs:222) goes by the width of its count
  alone (`DamageIsContained` has an exception for it);
* draw.rs:61-62 says of an unknown clip type that the parser of the outer
  message will then fail on size; it does only if too little follows
  (`ReadTagged`);
* the layout of a cursor in proto cursor.rs:24-29 has a `data_size`; the code
  takes whatever is left of the body (`ReadSprite`). The comment on
  `cursor_to_event` (client cursor.rs:149-152) says that other types than ALPHA
  are skipped; they come as a sprite without pixels (`SetCursor`). "Truncate /
  pad" (client cursor.rs:170-172) is half true: longer data is truncated, shorter
  data is not padded, the message is dropped with no event;
* viewer.rs:210-211 keeps the cursor's position "for buttons we re-send
  position"; `handle_mouse_button` sends none (`MousePressed`);
* `blit_raw` (viewer.rs:360) takes the rows of an image to be as wide as the
  rectangle; `decode_*` hands on images of their own size. The two are the same
  here, as they are for a DRAW_COPY that does not scale;
* in the wasm bindings, `decodeRgb32` (wasm lib.rs:118-127) strips the GLZ
  header from a stream of which `decompress_rgb32` strips it again, and
  `insert` is documented with 32 for RGB32, where the dictionary counts bytes
  per pixel (display.rs passes 4);
* the viewer paints the regions of all surfaces into its one framebuffer, and
  a SurfaceCreated of the size it has keeps the old pixels (`ResizeFb`).

### Bounds, and why they are enough

* *Flow control.* Windows 0, 1 and 2 are "off", "ACK every message" and the
  smallest window with a message in the middle; two generations give one
  hand-over, with messages of the old generation in flight on both sides;
  three messages go past the first ACK of a window of two. Mailbox of one:
  every post can block. For the display task these bounds are a convenience,
  the theorems hold without them (section 5). ChannelFlows runs with windows 0
  and 2, and one frame up, to keep the product with the bootstrap small; a
  window of 1 acknowledges every message and has no countdown to lose.
* *The dictionary alone* (Pixels). Four ids, five insertions and a capacity of
  two units give replacement of the oldest, the newest and a middle image,
  evictions of several images by one insertion, an image larger than the
  budget, and images of no bytes (sizes 0, 1 and 3).
* *DRAW_COPY* (Pixels). Three images: one that fails, one that refers to it, one
  that evicts; a decoder limit of 2, which is the capacity too. An image that
  is rejected before it is decoded has one size and one orientation.
* *Framebuffer* (Pixels). Screens of up to three by two and two by three,
  rectangles from one before the first edge to one past the last, so that a
  copy overlaps itself in all directions and sticks out on all sides; three
  paint messages are a size, a picture and a copy. The theorems need none of
  these bounds.
* *The window* (Pixels). Windows smaller, larger and of the framebuffer's size,
  one without columns; two paint messages, which is a size and a picture over
  it. The pointer moves in half pixels, from beside the window on one side to
  beside it on the other, along the first row and the first column: the two
  axes are scaled alike and by themselves. All keys of the table, and one that
  is not in it.
* *Decoders* (Pixels). A byte has two values and the other fields two to four,
  so lengths continue into a second byte from 3 or 4 on and distances are far
  from 4 on; seven pixels (six for GLZ) go past every limit. For GLZ two tokens behind any
  number of literals, and distances to seven earlier images, of which four are
  in the dictionary.
* *QUIC* (Pixels). Channels of 3 and 2 bits, codewords of up to 5, segments
  that begin after 4 pixels, a wait mask that grows twice, images of up to 6 by
  2 pixels of two or three colours: a row has several segments, and runs of no
  pixels, of some, and up to the end of a segment and of a row.
  The codes by themselves: channels of 2, 3 and 5 bits, every code and symbol,
  runs up to 12 from every state, each with nothing, zeros, ones and a mixture
  behind it. With codewords of up to 5 bits the limit does not touch the family
  of 2 bits, shortens the escapes of 3, and leaves 5 nothing but escapes. Words of four bits and bytes of two,
  seven bits written, which is two words. The theorem needs none of these
  bounds (section 5); that the code's own parameters (26, 32, 256, `J_TABLE`)
  satisfy its assumptions is evaluated by TLC (`RealParameters` of MCPixels).
* *Codecs* (Wire). Fields have their true number of bytes. A byte has 14
  values, so that a number of eight of them fits TLC's integers; offsets of
  images and capability words stay below 14 squared. Limits are two or three
  items, a capability word three bits, the key of a ticket two bytes. Values
  are all zeros, all ones and all different, with every tag and every count up
  to the limit; damage is one cut, one tail or one changed byte.
* *Framing* (Wire). Three frames, bodies of up to three bytes, limits of 0, 2
  and 3, serials modulo 3, so that they wrap.
* *DisplayChannel.* Two streams and one surface: ids are not compared with
  each other, and the two streams make STREAM_DESTROY_ALL a loop. A socket and
  a mailbox of one message make every wait happen. Two formats tell a stale
  entry from a fresh one.
* *InputsChannel.* Three inputs, a queue of two and a socket of one frame up.
  The server's messages, of up to three pieces, have no bound: they are numbered
  round and round (1 to 3), and four pieces fit the socket. So while one message
  is read and handled the next can be there already, and the task can read for
  ever: with read_message preferred (`RecvInputLast`), or without the strong
  fairness of the queue arm, InputsReachServer is violated.
* *Connection.* One PING or NOTIFY, one mode change, two frames each way; all
  sequences of up to two TLS flags, so that two ways to verify the server
  compete, a right, a wrong and a too long password, a server without TLS and
  with each kind of certificate, mini headers and each sub-channel that may be
  missing.
* *Viewer.* Three tasks and queues of one place everywhere, so that each
  blocks; two inputs, the fewest that can change places.
* *Sessions* (Wire). Four connections, three slots, three ids: refusal, a slot
  reused, an id drawn again after its session ended.

### Fairness, and why the code justifies it

* Weak fairness of a task's steps: the tokio executor polls a task that has
  been woken.
* Weak fairness of the server reading its socket and of the embedder calling
  `next_event`: assumed of the environment; without them nothing is promised.
  Drop, close and hang-up are never assumed, the properties allow for them.
* Strong fairness of posts to the mailbox: several tasks compete for one
  place, and tokio's mpsc serves waiting senders in turn.
* Strong fairness of the queue arm in the inputs task: `select!` polls its
  arms in random order. Weak fairness of the task would let it read for ever;
  that the server sends, or that its bytes arrive, is not assumed.
* Strong fairness of the mailbox arm in the viewer's `select!`, for the same
  reason; weak fairness of the window draining its paint queue, which winit
  wakes, and of the server reading inputs.
* Connection: weak fairness of the client's moves, of the peer's answers, and
  of a peer that is spoken to in the wrong protocol hanging up. The code has
  no timeout on links or bootstrap, so without a peer that answers or hangs up
  ConnectSettles would be false, and nothing is promised.

## 4. Abstractions

Bodies decode or do not, but for Codecs; pixels are the order of their rows and whether they
are the image drawn or zeros; sizes are in units of the smallest capacity; the
socket is a bounded sequence of whole messages, except in InputsChannel and
Framing. QUIC's symbols beyond the channel's depth, which only the escape of a
damaged stream can spell, end decoding (`Stops`) as an index out of bounds does
in the code, where the tables end.
A struct of Codecs has one layout, which `encode` and `decode` of the source both
follow: what is checked is that such a layout can be read back, not that two
layouts agree, so a field swapped in one of them could not be said.
A failed write is possible only once the peer has gone. The server sends
PING and MIGRATE without credit and counts everything the display task counts,
as the client's comments have it; for the cursor and inputs channels the same
rule is assumed. A STREAM_DESTROY_ALL posts one event in DisplayFlow and one
per stream in DisplayChannel. The server's rectangles are not inverted
(left <= right, top <= bottom). In MainFlow, what the bootstrap writes in
answer to INIT is left out; it is in MainBootstrap, which in turn has no
windows.

## 5. Proofs

**DisplayFlow_proofs.** `NoStall` and `CreditIsEarned` for all windows, any
number of generations, messages and all capacities, from the assumptions of
AckChannel (windows and bounds are natural numbers, capacities positive).
Neither is inductive: a stall is prevented by messages that are still in
flight. The invariant `IInv` follows a generation through them. The task's
countdown says how many counted messages it has handled since its last ACK,
and `ackedTo` how many it has acknowledged; the SET_ACKs on their way down
carry consecutive generations that end at the server's, the counted messages
behind the last one carry consecutive numbers that end at `sent`; the ACKs on
their way up are those between `acked` and `ackedTo`, and stand behind the
ACK_SYNC of their generation. When nothing is in flight this leaves
`sent = done` and `done - acked` below the window. The proof has a step per
action and lemmas on what appending to and taking from the two queues keeps.

**ChannelFlows_proofs.** `CreditIsEarned` and `RunPhaseNeverStalls` for the main,
cursor and inputs channels, for all windows and capacities and any number of
messages. DisplayFlow's invariant does not hold for them: these tasks pass over a
message they cannot decode, a SET_ACK included, and may fall behind the
generation of what they handle. What is left is that whoever is in the same
generation has the same count (`Meets`), and that this is handed on from message
to message: each comes behind the counters before it (`Precedes`), and each ACK
answers the one written before it (`Answers`). All that the three tasks do is one
of a few steps (`CommonStep`), so a lemma on each serves all three.

**Sessions_proofs.** Distinct and live session ids and conserved slots for any
finite number of connections and any set of ids. The invariant adds that each
connection in its bootstrap or idle loop holds an id, and counts permits
against the set of connections that hold one. Every step but four leaves that
set alone (`MoveOnIInv`); the others are treated one by one.

**DisplayChannel_proofs.** The three properties of the embedder's view of
surfaces and streams, for any ids and formats, any number of messages, and a
socket and a mailbox of any size. `SettledViewsAgree` speaks of the rare state
in which nothing is in flight. The invariant speaks of all of them: the
messages in the socket, applied one after the other, lead from the task's
tables to the server's (`DownInv`), and the events in the mailbox, with those
the task has still to post, from the embedder's view to the task's
(`MailboxInv`). "One after the other" is a path of views that exists, one view
per place in the queue (`Path`), so that it needs no recursion; appending a
message or taking one extends the path or cuts it (`LeadsAppend`, `LeadsTail`).
Frames and regions fit the view at their place in the queue.

**InputsChannel_proofs.** `InputsStayInOrder` for queues of any capacity, any
number of inputs, a server that never stops sending, and a `read_message` dropped
as often as `select!` likes. With the types it is inductive as it stands: each step moves
one input over the border between two of its places.

**Viewer_proofs.** `EndIsAnnounced` for a SpiceClient with any tasks, any mailbox
and any embedder. It follows from what has been sent, delivered or not: nothing
of main stands behind Closed, and None is only possible when all senders have
gone (`EndInv`). That the viewer is such an embedder is a refinement,
`ViewerSpec => Spec` (`ViewerIsAnEmbedder`), so the property is the viewer's
too. `InputsKeepOrder` follows an input through the five queues from the window
to the server: taken together as one sequence they change only at the end,
where the newest is added, and at the front.

The framebuffer: `copy_rect` is a memmove, for screens, rectangles and
sources of every size and any number of paint messages. `PictureAgrees` says
nothing while a copy is under way, so the invariant does: a pixel whose turn
is still to come has its source intact, that is, equal to what the pixel shall
become; every other pixel is what it shall be already. The step that matters
is SourceIsDone: when a pixel is written, every pixel whose source it is has
had its turn, since the loops run against the direction of the copy. The
clamps enter by ClampCovers: a clamped rectangle covers what the rectangle
covers of the screen.

The window: `WindowTellsTrue`, for windows and framebuffers of every size. The
picture is right because whatever changes what `Scaled` depends on also asks for
a redraw. For the way back, `PositionPointsAtIt` bounds a quotient: the position
sent is that of the pixel the pointer is in. And no two keys, nor a key pressed and
released, have the same code (`CodesTellKeys`), for the whole table.

**Connection_proofs.** The four safety properties of a connection attempt, for
sockets of any size, any number of PINGs, notices and mode changes, any flags,
passwords, certificates and channels. Both parts of a bootstrap go out once and
in order, so what of them is still on its way tells how far the other end can
be (`PartsInOrder`, `AsksInOrder`, `ListComesLast`). That the embedder knows the mouse mode
once nothing is in flight is a matter of the last news of it in the socket
(`NewsInv`). A socket may hold one frame more than its capacity, the grant of a
request (`DownFits`), since the client asks only once (`MayAsk`). A
sub-channel is linked only behind the main bootstrap, hence after the session
has been entered (`MainComesFirst`, `SessionIsLive`).

**Images_proofs**, in sections.

QUIC's coders for images of every size and content, every
table, and every damage. Where a coder is (`Placed`: within a segment that ends
in the row, and not behind the pixel it adapts at) depends on nothing that it
codes; what adapts (`Loose`) is in range whatever symbol is read. So both hold
of a decoder that reads garbage, which is `CodersStayInRow`. Without damage the
decoder is where the encoder is, or one symbol behind, and then the bits
between them are that symbol's (`Ahead`); the decoder can but follow
(`CodersInStep`). Each step of a coder, through pixel, segment, row and plane,
has its lemma (`PixelOverFacts` to `AfterRunFacts`); the same lemmas say that a
symbol leads on, which gives the action property `CodersLeadOn`. The invariant,
`QuicInv`, was model-checked first, on the instance of the Pixels run.

*QUIC's codes and words*, for every depth, code, symbol, run, state and table,
words and bytes of any width, whatever bits follow, and a body cut off at any
byte: `CodesComeBack`, by `WhateverIsWrittenComesBack`. A window begins with the
codeword at the front of the stream (`PeekShows`), so its leading zeros tell a
Golomb-Rice code from the escape (`GolombComesBack`); a run is its ones, a zero
and the rest (`RunLayout`, `RunDecodes`). In the words, every bit written is at
its place, by its weight (`BitsInv`, `Holds`, `BitOf`).

Nothing is assumed of the codes: the theorems on the coders use these lemmas
(`CodewordComesBack`, `RunReads`), and that the tables are sound is proved too
(`FamilyFacts`: every escape fits its suffix; `BucketFound`: every symbol has a
bucket; `GolombReads`: whatever is left of a damaged stream reads as a number).
What is left are the assumptions on constants that the modules themselves name
(`QuicCodeAssumption`, `QuicAssumption`, `QuicBitsAssumption`,
`QuicTrialAssumption`): ranges, and that a channel has at most 26 bits and 256
values. All of them are evaluated by TLC in the Pixels run. The provers know
nothing of exponentiation; that 2^n counts the subsets of n things
(`PowerCounts`) is where every fact on powers of two comes from. That a
difference survives its translation to a symbol and back is proved
(`Translation`, `AddBack`), as is that the bucket model always has a best code
(`ModelFacts`).

*The dictionary*, for any identifiers, sizes and budget. `DictionaryAddsUp` does
not hold within an insertion, which has one image too many while it evicts;
`Accounted` does, in every round. A sum does not depend on the order it is taken
in (`TalliesAgree`), so that the running total is that of the images, whoever
goes first. The eviction loop is a recursive function over rounds: that there is
one is a matter of the least number without it (`LeastNumber`), as is every
other induction here, since the provers cannot use the library's; that a round evicts the oldest,
and the loop ends with the latest that fit, is `LeftOf` and what follows. This gives the
refinement of GlzBudget, `DictionaryKeepsLatest`, without a bound.

*DRAW_COPY*, for any number of images, types, orders and faults:
`RegionsAreTopDown`, and `GlzChainAlive`, which speaks of the last region alone.
The invariant `ChainHolds` says it of all of them: an image of the chain is in the
dictionary unless what came behind it, with it, is more than the budget.

*The LZ and GLZ decoders*, for images of every size and fields of every width.
`LzDecodesExactly` and `GlzDecodesExactly`: the decoder gives the encoder's image,
and stops short of it only where the stream is damaged or an image missing, and
says which. What is in the stream decodes to what the encoder stood for with it
(`LzSent`, `GlzSent`). The layouts of a match (`MatchLayout`, `GlzMatchLayout`)
come back because a number is the sum of its places; a copy is a recursive
function, of which a closed form is shown: the pixel at i is the one that lies
back by a multiple of the distance.

*Only model-checked:*

* everything liveness: TLAPS has no rule for fairness that the installed
  backends can use;
* the encodings of Codecs and Framing (`MessagesComeBack`, `DamageIsContained`):
  induction over data without a closed form, by recursive operators.

## 6. Not modelled

* *MJPEG*: a call of an external library that returns a frame or does not.
* *TLS itself*, reading CA files and fingerprints, the ciphers of the ticket:
  external libraries; what they decide is in Connection.
* *Dictionary entries of other than 4 bytes per pixel*: a BITMAP of 2 or 3 bytes
  is entered as one of 4, and a later GLZ image would read it so. Pixels are
  rows in DisplayImages and names in GlzDecoder, so neither can tell.
* *QUIC runs of 2^32 pixels and more*: run lengths are unbounded numbers here,
  and wrap in the code.
* *softbuffer and winit*: the surface is resized or not, events come in order.
* *Argument parsing* other than the TLS flags, logging, and the output of the
  `connect` command: I/O.
* *The wasm bindings*: one call each into codecs that are modelled.

## 7. Plan

Done: flow control of all channels (first, since every other behaviour of a
session rests on it), the display task's tables and dictionary, inputs, the
links, the bootstrap, the TLS flags and the fallback, the client's life, the
viewer's queues, framebuffer and window, the LZ, GLZ and QUIC coders, the
messages' encodings and their framing, the server's sessions; the proofs of
section 5.

Next, in this order:

1. An abstract credit specification that DisplayFlow and the running phase of
   MainFlow implement.
2. What a BITMAP of 2 or 3 bytes per pixel in the dictionary means to a GLZ
   reference: bytes for pixels in GlzDecoder.
