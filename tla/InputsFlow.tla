----------------------------- MODULE InputsFlow -----------------------------
(***************************************************************************)
(* The inputs task's side of flow control (capsaicin-client/src/inputs.rs, *)
(* run and handle_server_msg): SET_ACK is answered with ACK_SYNC, status   *)
(* messages are dropped, nothing is counted and nothing is posted.  What   *)
(* the task does for the embedder's inputs is in InputsChannel.            *)
(***************************************************************************)
EXTENDS AckChannel

vars == channelVars

Init == ChannelInit

Counts(kind) == kind \notin {"set_ack", "ping", "migrate"}

-----------------------------------------------------------------------------
Read == Take

\* The socket is closed, or a PING or SET_ACK does not decode.
ReadFails ==
    /\ AtEof \/ (pc = "handle" /\ ~cur.ok /\ cur.kind \in {"ping", "set_ack"})
    /\ pc' = "exit"
    /\ UNCHANGED <<serverVars, conn, down, up, cur, embedderVars, historyVars>>

WriteFails ==
    /\ WriteMayFail /\ pc = "handle" /\ cur.kind \in {"ping", "set_ack"} /\ cur.ok
    /\ pc' = "exit"
    /\ UNCHANGED <<serverVars, conn, down, up, cur, embedderVars, historyVars>>

HandlePing ==
    /\ Handling("ping") /\ cur.ok
    /\ Write(Up("pong", cgen, 0, 0))
    /\ pc' = "read"
    /\ UNCHANGED <<serverVars, conn, down, cur, embedderVars, historyVars>>

HandleSetAck ==
    /\ Handling("set_ack") /\ cur.ok
    /\ Write(Up("ack_sync", cur.gen, cur.window, 0))
    /\ cgen' = cur.gen /\ done' = 0
    /\ pc' = "read"
    /\ UNCHANGED <<serverVars, conn, down, cur, embedderVars>>

\* INPUTS_INIT, KEY_MODIFIERS, MOUSE_MOTION_ACK and the unknown types.
HandleStatus ==
    /\ pc = "handle" /\ cur.kind \notin {"ping", "set_ack"}
    /\ done' = IF Counts(cur.kind) THEN done + 1 ELSE done
    /\ pc' = "read"
    /\ UNCHANGED <<serverVars, conn, down, up, cur, embedderVars, cgen>>

TaskStep ==
    Read \/ ReadFails \/ WriteFails \/ HandlePing \/ HandleSetAck \/ HandleStatus

Next == TaskStep \/ ServerStep \/ EmbedderStep

Spec == Init /\ [][Next]_vars
=============================================================================
