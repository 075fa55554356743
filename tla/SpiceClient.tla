----------------------------- MODULE SpiceClient ----------------------------
(***************************************************************************)
(* The life of a SpiceClient (capsaicin-client/src/client.rs): one task    *)
(* per channel around the event mailbox, from the end of connect_with to   *)
(* close or drop.  What a task does between two events is in DisplayFlow,  *)
(* DisplayChannel, CursorFlow, InputsChannel and MainFlow; here it posts   *)
(* events, or stops.                                                       *)
(***************************************************************************)
EXTENDS Integers, SequencesExt

CONSTANTS
    Tasks,          \* the tasks spawned: "main", and the sub-channels attached
    EventCap,       \* SpiceClientBuilder::event_capacity
    MaxEvents       \* bound: events posted, the first by connect_with

ASSUME ClientAssumption ==
    /\ "main" \in Tasks /\ Tasks \subseteq {"main", "display", "cursor", "inputs"}
    /\ EventCap \in Nat \ {0} /\ MaxEvents \in Nat \ {0}

VARIABLES
    task,           \* "run", "post", "last" (main, posting Closed) or "exit"
    sock,           \* each channel's connection: "open" or "lost"
    mailbox,        \* the event channel
    posted,         \* events posted so far
    input,          \* SpiceClient::input_tx is held
    client,         \* "live", "closing", "closed" or "dropped"
    delivered       \* history: what next_event has returned

vars == <<task, sock, mailbox, posted, input, client, delivered>>

\* The inputs task holds no sender of the event mailbox.
Posters == Tasks \ {"inputs"}
Senders == {t \in Posters : task[t] # "exit"}
Receiving == client # "dropped"

Goto(t, s) == task' = [task EXCEPT ![t] = s]

\* connect_with seeds the mailbox, then spawns.
Init ==
    /\ task = [t \in Tasks |-> "run"]
    /\ sock = [t \in Tasks |-> "open"]
    /\ mailbox = <<"main">> /\ posted = 1
    /\ input = ("inputs" \in Tasks)
    /\ client = "live"
    /\ delivered = <<>>

-----------------------------------------------------------------------------
\* The server (external) sends something a task turns into an event.
HasEvent(t) ==
    /\ t \in Posters /\ task[t] = "run" /\ sock[t] = "open"
    /\ posted < MaxEvents
    /\ posted' = posted + 1
    /\ Goto(t, "post")
    /\ UNCHANGED <<sock, mailbox, input, client, delivered>>

\* The server (external) hangs up one channel, or all of them.
SocketLost ==
    /\ \E lost \in {Tasks} \cup {{t} : t \in Tasks} :
         /\ \E t \in lost : sock[t] = "open"
         /\ sock' = [t \in Tasks |-> IF t \in lost THEN "lost" ELSE sock[t]]
    /\ UNCHANGED <<task, mailbox, posted, input, client, delivered>>

\* events_tx.send(..).await
Send(e) ==
    /\ Receiving => Len(mailbox) < EventCap
    /\ mailbox' = IF Receiving THEN Append(mailbox, e) ELSE mailbox

\* Once the mailbox is closed the display and cursor tasks end; main goes on.
Post(t) ==
    /\ task[t] = "post" /\ Send(t)
    /\ Goto(t, IF Receiving \/ t = "main" THEN "run" ELSE "exit")
    /\ UNCHANGED <<sock, posted, input, client, delivered>>

\* Mutated form: main ends without a word as well.
MainLosesSocketSilently ==
    /\ task["main"] = "run" /\ sock["main"] = "lost"
    /\ Goto("main", "exit")
    /\ UNCHANGED <<sock, mailbox, posted, input, client, delivered>>

\* run_main: a failed read or write ends in posting Closed.
MainLosesSocket ==
    /\ task["main"] = "run" /\ sock["main"] = "lost"
    /\ Goto("main", "last")
    /\ UNCHANGED <<sock, mailbox, posted, input, client, delivered>>

PostClosed ==
    /\ task["main"] = "last" /\ Send("closed")
    /\ Goto("main", "exit")
    /\ UNCHANGED <<sock, posted, input, client, delivered>>

\* The other tasks end without a word, on a lost socket or (display, inputs)
\* on a message that does not decode.
SubTaskStops(t) ==
    /\ t # "main" /\ task[t] = "run"
    /\ t = "cursor" => sock[t] = "lost"
    /\ Goto(t, "exit")
    /\ UNCHANGED <<sock, mailbox, posted, input, client, delivered>>

\* The inputs task, when the embedder's end of its queue is gone.
InputsQueueClosed ==
    /\ "inputs" \in Tasks /\ task["inputs"] = "run" /\ ~input
    /\ Goto("inputs", "exit")
    /\ UNCHANGED <<sock, mailbox, posted, input, client, delivered>>

\* Mutated form: a task that waits for room in the mailbox is left to finish.
AbortedWhenReading(t) ==
    /\ client \in {"closing", "dropped"} /\ task[t] = "run"
    /\ Goto(t, "exit")
    /\ UNCHANGED <<sock, mailbox, posted, input, client, delivered>>

\* An abort takes effect at an await, and every task stands at one.
Aborted(t) ==
    /\ client \in {"closing", "dropped"} /\ task[t] # "exit"
    /\ Goto(t, "exit")
    /\ UNCHANGED <<sock, mailbox, posted, input, client, delivered>>

-----------------------------------------------------------------------------
\* next_event: Some(event) ...
NextEvent ==
    /\ client = "live" /\ mailbox # <<>>
    /\ mailbox' = Tail(mailbox)
    /\ delivered' = Append(delivered, Head(mailbox))
    /\ UNCHANGED <<task, sock, posted, input, client>>

\* ... or None, when the mailbox is empty and no sender is left.
NextEventNone ==
    /\ client = "live" /\ mailbox = <<>> /\ Senders = {}
    /\ ~Contains(delivered, "none")
    /\ delivered' = Append(delivered, "none")
    /\ UNCHANGED <<task, sock, mailbox, posted, input, client>>

\* close: drop the input sender, abort every task, wait for each.
Close ==
    /\ client = "live"
    /\ client' = "closing" /\ input' = FALSE
    /\ UNCHANGED <<task, sock, mailbox, posted, delivered>>

CloseReturns ==
    /\ client = "closing" /\ \A t \in Tasks : task[t] = "exit"
    /\ client' = "closed"
    /\ UNCHANGED <<task, sock, mailbox, posted, input, delivered>>

\* Drop, of a client that is not being closed.
DropClient ==
    /\ client = "live"
    /\ client' = "dropped" /\ input' = FALSE
    /\ UNCHANGED <<task, sock, mailbox, posted, delivered>>

TaskStep(t) ==
    \/ Post(t) \/ SubTaskStops(t) \/ Aborted(t)
    \/ t = "main" /\ (MainLosesSocket \/ PostClosed)
    \/ t = "inputs" /\ InputsQueueClosed

Next ==
    \/ \E t \in Tasks : TaskStep(t) \/ HasEvent(t)
    \/ SocketLost
    \/ NextEvent \/ NextEventNone \/ Close \/ CloseReturns \/ DropClient

Spec == Init /\ [][Next]_vars

-----------------------------------------------------------------------------
TypeOK ==
    /\ task \in [Tasks -> {"run", "post", "last", "exit"}]
    /\ \A t \in Tasks : task[t] = "last" => t = "main"
    /\ sock \in [Tasks -> {"open", "lost"}]
    /\ Len(mailbox) <= EventCap /\ ToSet(mailbox) \subseteq Posters \cup {"closed"}
    /\ posted \in 0 .. MaxEvents
    /\ client \in {"live", "closing", "closed", "dropped"}

(***************************************************************************)
(* The embedder hears of the end exactly as promised: Closed comes once,   *)
(* main has nothing to say after it, and None, which ends the stream for   *)
(* good, never comes without it.                                           *)
(***************************************************************************)
EndIsAnnounced ==
    LET closedAt == {i \in DOMAIN delivered : delivered[i] = "closed"} IN
    \A i \in DOMAIN delivered :
        /\ delivered[i] = "none" => closedAt # {} /\ i = Len(delivered)
        /\ \A j \in closedAt : delivered[i] = "closed" => i = j
        /\ \A j \in closedAt : delivered[i] = "main" => i < j
=============================================================================
