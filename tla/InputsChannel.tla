---------------------------- MODULE InputsChannel ---------------------------
(***************************************************************************)
(* The inputs task (capsaicin-client/src/inputs.rs: run, send_event,       *)
(* handle_server_msg) between the embedder's queue and the socket, with    *)
(* Channel::read_message (capsaicin-net/src/channel.rs) at the level of    *)
(* the pieces a frame may arrive in.                                       *)
(*                                                                         *)
(* run selects between the queue and read_message.  A select! arm that     *)
(* loses is dropped: what a read_message had taken off the socket when the *)
(* queue won is gone.  Flow control is in InputsFlow.                      *)
(*                                                                         *)
(* The server never stops sending.  Its messages are numbered round and    *)
(* round, so that the states are finitely many; the numbers tell apart     *)
(* those that are on their way together.                                   *)
(***************************************************************************)
EXTENDS Integers, SequencesExt

CONSTANTS
    MaxInputs,      \* bound: inputs the embedder sends, numbered 1, 2, ...
    MsgNumbers,     \* messages are numbered 1 .. MsgNumbers, then from 1 again
    InputCap,       \* SpiceClientBuilder::input_capacity
    UpCap,          \* frames in flight to the server
    DownCap         \* pieces in flight from it, or not read yet

ASSUME InputsAssumption ==
    /\ MaxInputs \in Nat /\ MsgNumbers \in Nat \ {0}
    /\ {InputCap, UpCap, DownCap} \subseteq Nat \ {0}

VARIABLES
    sentInputs,     \* embedder: inputs send_input has accepted
    queue, open,    \* the input mailbox, and its sending end
    sentMsgs,       \* server: number of the last message sent (0: none yet)
    wire, buf,      \* pieces in flight, pieces the socket can deliver
    pc,             \* "select", "send", "handle" or "exit"
    got,            \* pieces the pending read_message has taken
    need,           \* length its header announces (0: header incomplete)
    input,          \* the input being sent
    up,             \* frames on their way to the server
    received,       \* server: inputs received
    handled         \* history: number of the last message handled (0: none yet),
                    \* or OutOfStep once another than the next was

vars == <<sentInputs, queue, open, sentMsgs, wire, buf, pc, got, need, input,
          up, received, handled>>

\* A message is a header in two pieces and a body in at most one.
HeaderLen == 2
Kinds == {"ping", "set_ack", "status"}
Length(kind) == IF kind = "status" THEN HeaderLen ELSE HeaderLen + 1
Pieces(n, kind) == [i \in 1 .. Length(kind) |-> [msg |-> n, kind |-> kind, part |-> i]]

\* The message after message n.
After(n) == (n % MsgNumbers) + 1
OutOfStep == -1

InputFrame(n) == [kind |-> "input", n |-> n]
Reply(kind) == [kind |-> kind, n |-> 0]

Init ==
    /\ sentInputs = 0 /\ queue = <<>> /\ open = TRUE
    /\ sentMsgs = 0 /\ wire = <<>> /\ buf = <<>>
    /\ pc = "select" /\ got = <<>> /\ need = 0 /\ input = 0
    /\ up = <<>> /\ received = <<>> /\ handled = 0

-----------------------------------------------------------------------------
\* SpiceClient::send_input: waits for room in the queue.
SendInput ==
    /\ open /\ pc # "exit"
    /\ sentInputs < MaxInputs /\ Len(queue) < InputCap
    /\ sentInputs' = sentInputs + 1
    /\ queue' = Append(queue, sentInputs + 1)
    /\ UNCHANGED <<open, sentMsgs, wire, buf, pc, got, need, input, up, received, handled>>

\* The sender is dropped; what is queued is still delivered.
CloseInput ==
    /\ open /\ open' = FALSE
    /\ UNCHANGED <<sentInputs, queue, sentMsgs, wire, buf, pc, got, need, input,
                   up, received, handled>>

\* The server (external): whenever the socket has room, without end.
ServerSends ==
    /\ \E kind \in Kinds :
         /\ Len(wire) + Len(buf) + Length(kind) <= DownCap
         /\ wire' = wire \o Pieces(After(sentMsgs), kind)
    /\ sentMsgs' = After(sentMsgs)
    /\ UNCHANGED <<sentInputs, queue, open, buf, pc, got, need, input, up, received, handled>>

ServerRecv ==
    /\ up # <<>> /\ up' = Tail(up)
    /\ received' = IF Head(up).kind = "input" THEN Append(received, Head(up).n) ELSE received
    /\ UNCHANGED <<sentInputs, queue, open, sentMsgs, wire, buf, pc, got, need, input, handled>>

\* The network delivers the next piece.
Arrive ==
    /\ wire # <<>>
    /\ buf' = Append(buf, Head(wire)) /\ wire' = Tail(wire)
    /\ UNCHANGED <<sentInputs, queue, open, sentMsgs, pc, got, need, input, up,
                   received, handled>>

-----------------------------------------------------------------------------
\* Mutated form: the input is put back behind the queue when the socket is full.
SendEventRequeues ==
    /\ pc = "send"
    /\ IF Len(up) < UpCap
         THEN up' = Append(up, InputFrame(input)) /\ UNCHANGED queue
         ELSE queue' = Append(queue, input) /\ UNCHANGED up
    /\ pc' = "select"
    /\ UNCHANGED <<sentInputs, open, sentMsgs, wire, buf, got, need, input,
                   received, handled>>

\* Mutated form: `biased;` with read_message first, so that the queue gets its
\* turn only when there is nothing to read.
RecvInputLast ==
    /\ pc = "select" /\ queue # <<>> /\ buf = <<>>
    /\ input' = Head(queue) /\ queue' = Tail(queue)
    /\ got' = <<>> /\ need' = 0
    /\ pc' = "send"
    /\ UNCHANGED <<sentInputs, open, sentMsgs, wire, buf, up, received, handled>>

\* The queue wins the select!: the pending read_message is dropped.
RecvInput ==
    /\ pc = "select" /\ queue # <<>>
    /\ input' = Head(queue) /\ queue' = Tail(queue)
    /\ got' = <<>> /\ need' = 0
    /\ pc' = "send"
    /\ UNCHANGED <<sentInputs, open, sentMsgs, wire, buf, up, received, handled>>

\* The queue is closed and empty: the embedder dropped the client.
RecvNone ==
    /\ pc = "select" /\ queue = <<>> /\ ~open
    /\ pc' = "exit"
    /\ UNCHANGED <<sentInputs, queue, open, sentMsgs, wire, buf, got, need, input,
                   up, received, handled>>

\* send_event: the frame is written when the socket has room.
SendEvent ==
    /\ pc = "send" /\ Len(up) < UpCap
    /\ up' = Append(up, InputFrame(input))
    /\ pc' = "select"
    /\ UNCHANGED <<sentInputs, queue, open, sentMsgs, wire, buf, got, need, input,
                   received, handled>>

\* What a header announces: garbage may announce any size.
Announced(h) ==
    IF Len(h) < HeaderLen THEN {0}
    ELSE IF h[1].part = 1 /\ h[2].part = 2 /\ h[1].msg = h[2].msg
         THEN {Length(h[1].kind)}
         ELSE {HeaderLen, HeaderLen + 1}

\* The pending read_message takes a piece, of the header or of the body; with
\* the last one it is ready, and wins the select!.
ReadPiece ==
    /\ pc = "select" /\ buf # <<>>
    /\ got' = Append(got, Head(buf)) /\ buf' = Tail(buf)
    /\ need' \in IF need = 0 THEN Announced(got') ELSE {need}
    /\ pc' = IF need' = Len(got') THEN "handle" ELSE "select"
    /\ UNCHANGED <<sentInputs, queue, open, sentMsgs, wire, input, up, received, handled>>

\* The socket is closed, a header announces too large a body, or a body does
\* not decode: the task exits.
TaskFails ==
    /\ pc \in {"select", "send", "handle"} /\ pc' = "exit"
    /\ UNCHANGED <<sentInputs, queue, open, sentMsgs, wire, buf, got, need, input,
                   up, received, handled>>

\* The frame is one the server sent, whole.
Genuine == \E n \in 1 .. MsgNumbers, kind \in Kinds : got = Pieces(n, kind)

\* handle_server_msg: PING and SET_ACK are answered, the rest is ignored.
\* What a garbage header says is anybody's guess.
HandleServerMsg ==
    /\ pc = "handle"
    /\ \E kind \in Kinds :
         /\ Genuine => kind = got[1].kind
         /\ IF kind = "status" THEN UNCHANGED up
            ELSE Len(up) < UpCap /\ up' = Append(up, Reply(kind))
    /\ handled' = IF Genuine /\ got[1].msg = After(handled) /\ handled # OutOfStep
                    THEN got[1].msg ELSE OutOfStep
    /\ got' = <<>> /\ need' = 0 /\ pc' = "select"
    /\ UNCHANGED <<sentInputs, queue, open, sentMsgs, wire, buf, input, received>>

TaskStep ==
    \/ RecvInput \/ RecvNone \/ SendEvent
    \/ ReadPiece \/ HandleServerMsg

Next ==
    \/ TaskStep \/ TaskFails
    \/ SendInput \/ CloseInput \/ ServerSends \/ ServerRecv \/ Arrive

Spec == Init /\ [][Next]_vars

\* Strong fairness for the queue: select! polls its arms in random order, so
\* a queue that is ready again and again wins some time.  Weak fairness of the
\* task is not enough: it may always have a piece to read.
FairSpec ==
    /\ Spec
    /\ WF_vars(TaskStep) /\ SF_vars(RecvInput) /\ WF_vars(ServerRecv)

-----------------------------------------------------------------------------
TypeOK ==
    /\ sentInputs \in 0 .. MaxInputs /\ sentMsgs \in 0 .. MsgNumbers
    /\ Len(queue) <= InputCap /\ Len(up) <= UpCap /\ Len(wire) + Len(buf) <= DownCap
    /\ pc \in {"select", "send", "handle", "exit"}
    /\ need \in {0, HeaderLen, HeaderLen + 1} /\ Len(got) <= HeaderLen + 1
    /\ need = 0 => Len(got) < HeaderLen
    /\ need > 0 => Len(got) \in HeaderLen .. need
    /\ pc = "handle" => need = Len(got)
    /\ handled \in 0 .. MsgNumbers \cup {OutOfStep}

InFlight == {i \in DOMAIN up : up[i].kind = "input"}
Taken == sentInputs - Len(queue)
Written == IF pc = "send" THEN Taken - 1 ELSE Taken

(***************************************************************************)
(* Every input the embedder has handed over is somewhere on its way, once, *)
(* and in order: at the server, on the socket, with the task or queued.    *)
(* Keys pressed and released in one order are never seen in another.       *)
(***************************************************************************)
InputsStayInOrder ==
    pc # "exit" =>
        /\ received = [i \in 1 .. Len(received) |-> i]
        /\ Len(received) <= Written
        /\ {up[i].n : i \in InFlight} = Len(received) + 1 .. Written
        /\ \A i, j \in InFlight : i < j => up[i].n < up[j].n
        /\ pc = "send" => input = Taken
        /\ queue = [i \in 1 .. Len(queue) |-> Taken + i]

(***************************************************************************)
(* An input the embedder has handed over reaches the server, or the task   *)
(* has ended: a server that never stops sending, and always has the next   *)
(* message there when the last one is handled, cannot keep an input queued *)
(* for ever, since select! does not prefer read_message (inputs.rs:22).    *)
(***************************************************************************)
InputsReachServer ==
    \A n \in 1 .. MaxInputs :
        (sentInputs >= n) ~> (n \in ToSet(received) \/ pc = "exit")

(***************************************************************************)
(* inputs.rs: the task "forwards them to the server, and drains            *)
(* server-sent control messages".  It handles the messages the server sent *)
(* in the order they were sent, all of them and no others: each is the one *)
(* after the last.                                                         *)
(***************************************************************************)
ControlMessagesAreDrained == handled # OutOfStep
=============================================================================
