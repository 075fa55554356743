----------------------------- MODULE AckChannel -----------------------------
(***************************************************************************)
(* One SPICE channel seen from flow control: the server that spends the    *)
(* acknowledgement window, the two directions of the socket, and the part  *)
(* every client task shares (take a message off the socket, reply, post an *)
(* event to the embedder's mailbox, stop).  DisplayFlow, MainFlow,         *)
(* CursorFlow and InputsFlow add the handler of one task each.             *)
(*                                                                         *)
(* The server is not in the repository.  It is modelled from what the      *)
(* client relies on (display.rs: "the server stops sending after `window`  *)
(* messages until we send MSGC_ACK"): SET_ACK opens a generation, counted  *)
(* messages spend its window, ACKs received after the generation's         *)
(* ACK_SYNC give the window back, ACKs of older generations are ignored.   *)
(*                                                                         *)
(* The stamps gen, window, n and upto of the messages are history: they    *)
(* record the sender's counters at the time of sending.  Of them the code  *)
(* reads only what the wire carries: gen and window of SET_ACK, gen of     *)
(* ACK_SYNC.                                                               *)
(***************************************************************************)
EXTENDS Integers, Sequences

CONSTANTS
    Windows,      \* windows the server may announce; 0 switches flow control off
    Oks,          \* whether bodies decode: {TRUE} for a well-formed server
    MaxGen,       \* bound: SET_ACKs the server sends
    MaxSent,      \* bound: counted messages the server sends per generation
    DownCap,      \* messages in flight from server to client (socket buffers)
    UpCap,        \* messages in flight from client to server
    EventCap      \* SpiceClientBuilder::event_capacity

ASSUME WindowsAssumption == Windows \subseteq Nat
ASSUME OksAssumption == Oks \subseteq BOOLEAN
ASSUME BoundsAssumption ==
    /\ MaxGen \in Nat /\ MaxSent \in Nat
    /\ DownCap \in Nat \ {0} /\ UpCap \in Nat \ {0} /\ EventCap \in Nat \ {0}

VARIABLES
    gen,          \* server: generation of the last SET_ACK sent (0: none yet)
    window,       \* server: window of that generation
    sent,         \* server: counted messages sent in that generation
    acked,        \* server: of these, acknowledged
    synced,       \* server: ACK_SYNC of that generation received
    conn,         \* "open", or "closed" once the server has hung up
    down,         \* messages on their way to the client
    up,           \* messages on their way to the server
    pc,           \* the task: "read", "handle", "note" or "exit"
    cur,          \* the task: the message it is handling
    events,       \* events waiting in the embedder's mailbox
    rx,           \* the embedder still holds the receiving end
    cgen,         \* history: generation the task last replied to
    done          \* history: counted messages handled since then

serverVars == <<gen, window, sent, acked, synced>>
embedderVars == <<events, rx>>
historyVars == <<cgen, done>>
channelVars == <<gen, window, sent, acked, synced, conn, down, up, pc, cur,
                 events, rx, cgen, done>>

-----------------------------------------------------------------------------
(***************************************************************************)
(* Messages, as far as the tasks tell them apart for flow control.         *)
(***************************************************************************)

\* What the client does not count: its common control messages.
Uncounted == {"set_ack", "ping", "migrate"}

\* "event": turned into one event; "quiet": handled with no event;
\* "list": CHANNELS_LIST, which ends the main channel's bootstrap.
Counted == {"event", "quiet", "list"}

\* ok is false when the body does not decode.
Down(kind, ok, g, w, n) ==
    [kind |-> kind, ok |-> ok, gen |-> g, window |-> w, n |-> n]

Up(kind, g, w, upto) == [kind |-> kind, gen |-> g, window |-> w, upto |-> upto]

DownMsg == [kind : Uncounted \cup Counted, ok : BOOLEAN, gen : Nat, window : Nat, n : Nat]
UpMsg == [kind : {"pong", "ack_sync", "ack"}, gen : Nat, window : Nat, upto : Nat]

NoMsg == Down("quiet", TRUE, 0, 0, 0)

ChannelInit ==
    /\ gen = 0 /\ window = 0 /\ sent = 0 /\ acked = 0 /\ synced = TRUE
    /\ conn = "open"
    /\ down = <<>> /\ up = <<>>
    /\ pc = "read" /\ cur = NoMsg
    /\ events = 0 /\ rx = TRUE
    /\ cgen = 0 /\ done = 0

-----------------------------------------------------------------------------
(***************************************************************************)
(* The server (external).                                                  *)
(***************************************************************************)

HasCredit == window = 0 \/ sent - acked < window

ServerSend(kind, ok) ==
    /\ conn = "open" /\ HasCredit
    /\ sent < MaxSent /\ Len(down) < DownCap
    /\ sent' = sent + 1
    /\ down' = Append(down, Down(kind, ok, gen, window, sent + 1))
    /\ UNCHANGED <<gen, window, acked, synced, conn, up, pc, cur,
                   embedderVars, historyVars>>

ServerControl(kind, ok) ==
    /\ conn = "open" /\ Len(down) < DownCap
    /\ down' = Append(down, Down(kind, ok, gen, window, sent))
    /\ UNCHANGED <<serverVars, conn, up, pc, cur, embedderVars, historyVars>>

ServerSetAck(w, ok) ==
    /\ conn = "open" /\ Len(down) < DownCap
    /\ gen < MaxGen
    /\ gen' = gen + 1 /\ window' = w
    /\ sent' = 0 /\ acked' = 0 /\ synced' = FALSE
    /\ down' = Append(down, Down("set_ack", ok, gen + 1, w, 0))
    /\ UNCHANGED <<conn, up, pc, cur, embedderVars, historyVars>>

ServerRecv ==
    /\ conn = "open" /\ up # <<>>
    /\ up' = Tail(up)
    /\ LET m == Head(up) IN
         /\ synced' = (synced \/ (m.kind = "ack_sync" /\ m.gen = gen))
         /\ acked' = IF m.kind = "ack" /\ synced THEN acked + window ELSE acked
    /\ UNCHANGED <<gen, window, sent, conn, down, pc, cur, embedderVars, historyVars>>

ServerClose ==
    /\ conn = "open" /\ conn' = "closed"
    /\ UNCHANGED <<serverVars, down, up, pc, cur, embedderVars, historyVars>>

-----------------------------------------------------------------------------
(***************************************************************************)
(* The embedder and the other tasks, around the shared mailbox.            *)
(***************************************************************************)

\* SpiceClient::next_event
EmbedderRecv ==
    /\ rx /\ events > 0
    /\ events' = events - 1
    /\ UNCHANGED <<serverVars, conn, down, up, pc, cur, rx, historyVars>>

\* Another channel's task posts to the same mailbox.
OtherTaskPosts ==
    /\ rx /\ events < EventCap
    /\ events' = events + 1
    /\ UNCHANGED <<serverVars, conn, down, up, pc, cur, rx, historyVars>>

\* Dropping the SpiceClient closes the mailbox and aborts the tasks: the
\* abort takes effect at an await, and every value of pc stands at one.
DropClient ==
    /\ rx /\ rx' = FALSE
    /\ UNCHANGED <<serverVars, conn, down, up, pc, cur, events, historyVars>>

Abort ==
    /\ ~rx /\ pc # "exit" /\ pc' = "exit"
    /\ UNCHANGED <<serverVars, conn, down, up, cur, embedderVars, historyVars>>

-----------------------------------------------------------------------------
(***************************************************************************)
(* What the tasks share.  These are parts of their actions.                *)
(***************************************************************************)

\* Channel::read_message returns the next message.
Take ==
    /\ pc = "read" /\ down # <<>>
    /\ cur' = Head(down) /\ down' = Tail(down)
    /\ pc' = "handle"
    /\ UNCHANGED <<serverVars, conn, up, embedderVars, historyVars>>

\* Channel::read_message fails: the peer is gone and nothing is left to read.
AtEof == pc = "read" /\ down = <<>> /\ conn = "closed"

\* Channel::write_message completes when the socket takes the frame, and may
\* fail once the peer is gone.
Write(m) == Len(up) < UpCap /\ up' = Append(up, m)
WriteMayFail == conn = "closed"

\* events_tx.send(..).await: waits for room; an error when the mailbox closed.
Post ==
    /\ rx => events < EventCap
    /\ events' = IF rx THEN events + 1 ELSE events

Handling(kind) == pc = "handle" /\ cur.kind = kind

\* Any step of the environment.
ServerStep ==
    \/ \E ok \in Oks : ServerSend("event", ok)
    \/ ServerSend("quiet", TRUE)
    \/ \E ok \in Oks : ServerControl("ping", ok)
    \/ ServerControl("migrate", TRUE)
    \/ \E w \in Windows, ok \in Oks : ServerSetAck(w, ok)
    \/ ServerRecv
    \/ ServerClose

EmbedderStep == EmbedderRecv \/ OtherTaskPosts \/ DropClient \/ Abort

-----------------------------------------------------------------------------
ChannelTypeOK ==
    /\ gen \in Nat /\ window \in Nat /\ sent \in Nat /\ acked \in Nat
    /\ synced \in BOOLEAN /\ conn \in {"open", "closed"}
    /\ down \in Seq(DownMsg) /\ Len(down) <= DownCap
    /\ up \in Seq(UpMsg) /\ Len(up) <= UpCap
    /\ pc \in {"read", "handle", "note", "exit"} /\ cur \in DownMsg
    /\ events \in 0 .. EventCap /\ rx \in BOOLEAN
    /\ cgen \in Nat /\ done \in Nat

Running == pc # "exit" /\ conn = "open" /\ rx

(***************************************************************************)
(* Flow control never wedges the channel: it is never the case that the    *)
(* server has no credit left while nothing is in flight and the task waits *)
(* for the server.  The counting has to agree to the message for this:     *)
(* display.rs promises MSGC_ACK "after every `window` non-ack messages".   *)
(***************************************************************************)
NoStall ==
    ~(/\ Running /\ pc = "read"
      /\ down = <<>> /\ up = <<>>
      /\ ~HasCredit)

(***************************************************************************)
(* The client never hands out credit it does not have: what the server     *)
(* holds as acknowledged in a generation was really handled by the task in *)
(* that generation, so at most `window` messages of it are unhandled.      *)
(***************************************************************************)
CreditIsEarned ==
    synced => /\ cgen = gen
              /\ acked <= done /\ done <= sent
              /\ window > 0 => sent - done <= window

(***************************************************************************)
(* A server out of credit gets it back, unless the task or the connection  *)
(* ends.                                                                   *)
(***************************************************************************)
CreditReturns == ~HasCredit ~> (HasCredit \/ ~Running)

(***************************************************************************)
(* Every SET_ACK is answered: the generation gets synced, unless the task  *)
(* or the connection ends.                                                 *)
(***************************************************************************)
GenerationSyncs == ~synced ~> (synced \/ ~Running)

=============================================================================
