----------------------------- MODULE DisplayFlow ----------------------------
(***************************************************************************)
(* The display task's flow control (capsaicin-client/src/display.rs: run,  *)
(* handle, AckState), against the server and the mailbox of AckChannel.    *)
(***************************************************************************)
EXTENDS AckChannel

VARIABLES
    ackWindow,      \* AckState::window
    ackRemaining,   \* AckState::remaining
    ackedTo         \* history: counted messages of cgen the task has acknowledged

ackVars == <<ackWindow, ackRemaining>>
vars == <<channelVars, ackVars, ackedTo>>

Init ==
    /\ ChannelInit
    /\ ackWindow = 0 /\ ackRemaining = 0 /\ ackedTo = 0

-----------------------------------------------------------------------------
\* Mutated form: the new window is stored but the countdown is kept.
OnSetAckKeepsCountdown(w) == [window |-> w, remaining |-> ackRemaining]

\* AckState::on_set_ack
OnSetAck(w) == [window |-> w, remaining |-> w]

\* The countdown as note_message finds it: refilled when it stands at zero.
Refilled(w, r) == IF r = 0 THEN w ELSE r

\* Mutated form: the countdown restarts one too high.
NoteMessageRestartsHigh(w, r) ==
    IF w = 0 THEN r ELSE IF Refilled(w, r) = 1 THEN w + 1 ELSE Refilled(w, r) - 1

\* AckState::note_message: the countdown after one more message ...
NoteMessage(w, r) ==
    IF w = 0 THEN r ELSE IF Refilled(w, r) = 1 THEN w ELSE Refilled(w, r) - 1

\* ... and whether it exhausts the window.
AckDue(w, r) == w > 0 /\ Refilled(w, r) = 1

\* Mutated form: control messages count towards the window.
CountsControlToo(kind) == TRUE

\* The guard of the flow-control step at the end of handle.
Counts(kind) == kind \notin {"set_ack", "ping", "migrate"}

-----------------------------------------------------------------------------
Read == Take /\ UNCHANGED <<ackVars, ackedTo>>

ReadFails ==
    /\ AtEof /\ pc' = "exit"
    /\ UNCHANGED <<serverVars, conn, down, up, cur, embedderVars, historyVars,
                   ackVars, ackedTo>>

\* A body that does not decode ends the task, without a reply or an event.
\* (The stream and copy messages, which tolerate it, are the "quiet" kind.)
DecodeFails ==
    /\ pc = "handle" /\ ~cur.ok /\ cur.kind \in {"ping", "set_ack", "event"}
    /\ pc' = "exit"
    /\ UNCHANGED <<serverVars, conn, down, up, cur, embedderVars, historyVars,
                   ackVars, ackedTo>>

HandlePing ==
    /\ Handling("ping") /\ cur.ok
    /\ Write(Up("pong", cgen, ackWindow, ackedTo))
    /\ pc' = "note"
    /\ UNCHANGED <<serverVars, conn, down, cur, embedderVars, historyVars,
                   ackVars, ackedTo>>

\* Mutated form: a SET_ACK that switches flow control off is not answered.
HandleSetAckIgnoresZero ==
    /\ Handling("set_ack") /\ cur.ok
    /\ IF cur.window = 0 THEN up' = up ELSE Write(Up("ack_sync", cur.gen, cur.window, 0))
    /\ ackWindow' = OnSetAck(cur.window).window
    /\ ackRemaining' = OnSetAck(cur.window).remaining
    /\ cgen' = cur.gen /\ done' = 0 /\ ackedTo' = 0
    /\ pc' = "note"
    /\ UNCHANGED <<serverVars, conn, down, cur, embedderVars>>

\* ACK_SYNC is written first, the countdown is set after it.
HandleSetAck ==
    /\ Handling("set_ack") /\ cur.ok
    /\ Write(Up("ack_sync", cur.gen, cur.window, 0))
    /\ ackWindow' = OnSetAck(cur.window).window
    /\ ackRemaining' = OnSetAck(cur.window).remaining
    /\ cgen' = cur.gen /\ done' = 0 /\ ackedTo' = 0
    /\ pc' = "note"
    /\ UNCHANGED <<serverVars, conn, down, cur, embedderVars>>

\* The event is posted, or dropped when the mailbox is closed: the code
\* ignores the result.
HandleEvent ==
    /\ Handling("event") /\ cur.ok
    /\ Post
    /\ pc' = "note"
    /\ UNCHANGED <<serverVars, conn, down, up, cur, rx, historyVars, ackVars, ackedTo>>

HandleQuiet ==
    /\ pc = "handle" /\ cur.kind \in {"quiet", "migrate", "list"}
    /\ pc' = "note"
    /\ UNCHANGED <<serverVars, conn, down, up, cur, embedderVars, historyVars,
                   ackVars, ackedTo>>

\* The end of run's loop body: stop when the embedder has gone.
Loop == pc' = IF rx THEN "read" ELSE "exit"

\* The flow-control step that ends handle, then the check in run.
NoteUncounted ==
    /\ pc = "note" /\ ~Counts(cur.kind)
    /\ Loop
    /\ UNCHANGED <<serverVars, conn, down, up, cur, embedderVars, historyVars,
                   ackVars, ackedTo>>

NoteCounted ==
    /\ pc = "note" /\ Counts(cur.kind)
    /\ ackRemaining' = NoteMessage(ackWindow, ackRemaining)
    /\ IF AckDue(ackWindow, ackRemaining)
         THEN /\ Write(Up("ack", cgen, ackWindow, ackedTo + ackWindow))
              /\ ackedTo' = ackedTo + ackWindow
         ELSE UNCHANGED <<up, ackedTo>>
    /\ done' = done + 1
    /\ Loop
    /\ UNCHANGED <<serverVars, conn, down, cur, embedderVars, cgen, ackWindow>>

\* PONG, ACK_SYNC or ACK cannot be written: handle returns the error.
WriteFails ==
    /\ WriteMayFail
    /\ \/ pc = "handle" /\ cur.kind \in {"ping", "set_ack"} /\ cur.ok
       \/ pc = "note" /\ Counts(cur.kind) /\ AckDue(ackWindow, ackRemaining)
    /\ pc' = "exit"
    /\ UNCHANGED <<serverVars, conn, down, up, cur, embedderVars, historyVars,
                   ackVars, ackedTo>>

TaskStep ==
    \/ Read \/ ReadFails \/ DecodeFails
    \/ HandlePing \/ HandleSetAck \/ HandleEvent \/ HandleQuiet
    \/ NoteUncounted \/ NoteCounted \/ WriteFails

Environment == (ServerStep \/ EmbedderStep) /\ UNCHANGED <<ackVars, ackedTo>>

Next == TaskStep \/ Environment

Spec == Init /\ [][Next]_vars

\* The executor polls a ready task, the server reads its socket, the embedder
\* drains its mailbox.  Strong fairness for the post: tokio's mpsc grants
\* permits in FIFO order, so a waiting sender is not overtaken for ever.
Fairness ==
    /\ WF_vars(TaskStep)
    /\ SF_vars(HandleEvent)
    /\ WF_vars(ServerRecv /\ UNCHANGED <<ackVars, ackedTo>>)
    /\ WF_vars(EmbedderRecv /\ UNCHANGED <<ackVars, ackedTo>>)

FairSpec == Spec /\ Fairness

-----------------------------------------------------------------------------
TypeOK ==
    /\ ChannelTypeOK
    /\ ackWindow \in Nat /\ ackRemaining \in Nat /\ ackedTo \in Nat

=============================================================================
