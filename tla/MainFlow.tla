------------------------------ MODULE MainFlow ------------------------------
(***************************************************************************)
(* The main channel's flow control: the bootstrap loop                     *)
(* (capsaicin-net/src/client.rs, MainConnection::bootstrap) followed by    *)
(* the long-running task (capsaicin-client/src/client.rs, run_main), on    *)
(* the same socket.  "event" stands for MOUSE_MODE, the one message that   *)
(* run_main turns into an event.                                           *)
(***************************************************************************)
EXTENDS AckChannel

VARIABLES
    boot,           \* the bootstrap loop still owns the channel
    ackWindow,      \* run_main's ack_window
    ackRemaining,   \* run_main's ack_remaining
    ackedTo,        \* history: counted messages of cgen the task has acknowledged
    skipped         \* history: a counted message of cgen bypassed the countdown

ackVars == <<ackWindow, ackRemaining>>
mainVars == <<boot, ackVars, ackedTo, skipped>>
vars == <<channelVars, mainVars>>

Init ==
    /\ ChannelInit
    /\ boot = TRUE
    /\ ackWindow = 0 /\ ackRemaining = 0 /\ ackedTo = 0 /\ skipped = FALSE

-----------------------------------------------------------------------------
Read == Take /\ UNCHANGED mainVars

Counts(kind) == kind \notin {"set_ack", "ping", "migrate"}

\* A task of run_main ends by posting Closed, and waits for room to do so;
\* an error in the bootstrap only fails the connect call.
Stop ==
    /\ pc' = "exit"
    /\ IF boot THEN UNCHANGED events ELSE Post
    /\ UNCHANGED <<serverVars, conn, down, up, cur, rx, historyVars, mainVars>>

ReadFails == AtEof /\ Stop

WriteFails ==
    /\ WriteMayFail
    /\ \/ pc = "handle" /\ cur.kind \in {"ping", "set_ack"} /\ cur.ok
       \/ /\ pc = "note" /\ Counts(cur.kind)
          /\ ackWindow > 0 /\ ackRemaining <= 1
    /\ Stop

-----------------------------------------------------------------------------
(***************************************************************************)
(* The bootstrap loop.                                                     *)
(***************************************************************************)

\* The window of a SET_ACK is not kept, only answered.
BootSetAck ==
    /\ boot /\ Handling("set_ack") /\ cur.ok
    /\ Write(Up("ack_sync", cur.gen, cur.window, 0))
    /\ cgen' = cur.gen /\ done' = 0 /\ ackedTo' = 0 /\ skipped' = FALSE
    /\ pc' = "read"
    /\ UNCHANGED <<serverVars, conn, down, cur, embedderVars, boot, ackVars>>

BootPing ==
    /\ boot /\ Handling("ping") /\ cur.ok
    /\ Write(Up("pong", cgen, ackWindow, ackedTo))
    /\ pc' = "read"
    /\ UNCHANGED <<serverVars, conn, down, cur, embedderVars, historyVars, mainVars>>

\* Accepted and not parsed, MOUSE_MODE included; CHANNELS_LIST ends the loop.
\* INIT is among these: what is written in answer to it does not touch flow
\* control, and is in MainBootstrap.
BootOther ==
    /\ boot /\ pc = "handle"
    /\ \/ cur.kind \in {"event", "quiet", "migrate"}
       \/ cur.kind = "list" /\ cur.ok
    /\ boot' = (cur.kind # "list")
    /\ done' = IF Counts(cur.kind) THEN done + 1 ELSE done
    /\ skipped' = (skipped \/ Counts(cur.kind))
    /\ pc' = "read"
    /\ UNCHANGED <<serverVars, conn, down, up, cur, embedderVars, cgen, ackVars, ackedTo>>

BootDecodeFails ==
    /\ boot /\ pc = "handle" /\ ~cur.ok /\ cur.kind \in {"ping", "set_ack", "list"}
    /\ Stop

BootStep == BootSetAck \/ BootPing \/ BootOther \/ BootDecodeFails

-----------------------------------------------------------------------------
(***************************************************************************)
(* run_main.                                                               *)
(***************************************************************************)

\* Mutated form: the countdown is left at zero.
RefillForgotten(w) == 0

\* Mutated form: the countdown starts one message late.
RefillLate(w) == w + 1

\* What ack_remaining is set to by SET_ACK and after an ACK.
Refill(w) == w

HandlePing ==
    /\ ~boot /\ Handling("ping") /\ cur.ok
    /\ Write(Up("pong", cgen, ackWindow, ackedTo))
    /\ pc' = "note"
    /\ UNCHANGED <<serverVars, conn, down, cur, embedderVars, historyVars, mainVars>>

HandleSetAck ==
    /\ ~boot /\ Handling("set_ack") /\ cur.ok
    /\ Write(Up("ack_sync", cur.gen, cur.window, 0))
    /\ ackWindow' = cur.window /\ ackRemaining' = Refill(cur.window)
    /\ cgen' = cur.gen /\ done' = 0 /\ ackedTo' = 0 /\ skipped' = FALSE
    /\ pc' = "note"
    /\ UNCHANGED <<serverVars, conn, down, cur, embedderVars, boot>>

HandleMouseMode ==
    /\ ~boot /\ Handling("event") /\ cur.ok
    /\ Post
    /\ pc' = "note"
    /\ UNCHANGED <<serverVars, conn, down, up, cur, rx, historyVars, mainVars>>

HandleQuiet ==
    /\ ~boot /\ pc = "handle" /\ cur.kind \in {"quiet", "migrate", "list"}
    /\ pc' = "note"
    /\ UNCHANGED <<serverVars, conn, down, up, cur, embedderVars, historyVars, mainVars>>

\* `let Ok(..) = ..::decode(..) else { continue }`: the message is dropped,
\* and with it its place in the countdown.
DecodeFails ==
    /\ ~boot /\ pc = "handle" /\ ~cur.ok /\ cur.kind \in {"ping", "set_ack", "event"}
    /\ done' = IF Counts(cur.kind) THEN done + 1 ELSE done
    /\ skipped' = (skipped \/ Counts(cur.kind))
    /\ pc' = "read"
    /\ UNCHANGED <<serverVars, conn, down, up, cur, embedderVars, cgen,
                   boot, ackVars, ackedTo>>

NoteUncounted ==
    /\ ~boot /\ pc = "note" /\ (ackWindow = 0 \/ ~Counts(cur.kind))
    /\ done' = IF Counts(cur.kind) THEN done + 1 ELSE done
    /\ pc' = "read"
    /\ UNCHANGED <<serverVars, conn, down, up, cur, embedderVars, cgen, mainVars>>

NoteCounted ==
    /\ ~boot /\ pc = "note" /\ ackWindow > 0 /\ Counts(cur.kind)
    /\ IF ackRemaining <= 1     \* saturating_sub(1) gives zero
         THEN /\ Write(Up("ack", cgen, ackWindow, ackedTo + ackWindow))
              /\ ackRemaining' = Refill(ackWindow)
              /\ ackedTo' = ackedTo + ackWindow
         ELSE /\ ackRemaining' = ackRemaining - 1
              /\ UNCHANGED <<up, ackedTo>>
    /\ done' = done + 1
    /\ pc' = "read"
    /\ UNCHANGED <<serverVars, conn, down, cur, embedderVars, cgen, boot, ackWindow, skipped>>

RunStep ==
    \/ HandlePing \/ HandleSetAck \/ HandleMouseMode \/ HandleQuiet
    \/ DecodeFails \/ NoteUncounted \/ NoteCounted

-----------------------------------------------------------------------------
TaskStep == Read \/ ReadFails \/ WriteFails \/ BootStep \/ RunStep

ServerList == \E ok \in Oks : boot /\ ServerSend("list", ok)

Environment == (ServerStep \/ ServerList \/ EmbedderStep) /\ UNCHANGED mainVars

Next == TaskStep \/ Environment

Spec == Init /\ [][Next]_vars

-----------------------------------------------------------------------------
TypeOK ==
    /\ ChannelTypeOK
    /\ boot \in BOOLEAN /\ skipped \in BOOLEAN
    /\ ackWindow \in Nat /\ ackRemaining \in 0 .. ackWindow /\ ackedTo \in Nat

(***************************************************************************)
(* Once run_main itself has seen the SET_ACK in force, and as long as no   *)
(* counted message of that generation bypassed its countdown, the main     *)
(* channel does not wedge either.                                          *)
(***************************************************************************)
RunPhaseNeverStalls ==
    (~boot /\ cgen = gen /\ ackWindow = window /\ ~skipped) => NoStall

=============================================================================
