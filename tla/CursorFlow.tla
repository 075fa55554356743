----------------------------- MODULE CursorFlow -----------------------------
(***************************************************************************)
(* The cursor task's side of flow control (capsaicin-client/src/cursor.rs, *)
(* run): SET_ACK is answered with ACK_SYNC, and nothing is counted.        *)
(***************************************************************************)
EXTENDS AckChannel

vars == channelVars

Init == ChannelInit

Counts(kind) == kind \notin {"set_ack", "ping", "migrate"}

-----------------------------------------------------------------------------
Read == Take

ReadFails ==
    /\ AtEof /\ pc' = "exit"
    /\ UNCHANGED <<serverVars, conn, down, up, cur, embedderVars, historyVars>>

WriteFails ==
    /\ WriteMayFail /\ pc = "handle" /\ cur.kind \in {"ping", "set_ack"} /\ cur.ok
    /\ pc' = "exit"
    /\ UNCHANGED <<serverVars, conn, down, up, cur, embedderVars, historyVars>>

HandlePing ==
    /\ Handling("ping") /\ cur.ok
    /\ Write(Up("pong", cgen, 0, 0))
    /\ pc' = "read"
    /\ UNCHANGED <<serverVars, conn, down, cur, embedderVars, historyVars>>

HandleSetAck ==
    /\ Handling("set_ack") /\ cur.ok
    /\ Write(Up("ack_sync", cur.gen, cur.window, 0))
    /\ cgen' = cur.gen /\ done' = 0
    /\ pc' = "read"
    /\ UNCHANGED <<serverVars, conn, down, cur, embedderVars>>

\* INIT, SET, MOVE, HIDE, INVAL_ONE and INVAL_ALL; the task ends when the
\* mailbox is closed.
HandleEvent ==
    /\ Handling("event") /\ cur.ok
    /\ Post
    /\ done' = done + 1
    /\ pc' = IF rx THEN "read" ELSE "exit"
    /\ UNCHANGED <<serverVars, conn, down, up, cur, rx, cgen>>

\* RESET, TRAIL, the unknown types, and every body that does not decode.
HandleIgnored ==
    /\ pc = "handle"
    /\ cur.kind \in {"quiet", "migrate", "list"} \/ ~cur.ok
    /\ done' = IF Counts(cur.kind) THEN done + 1 ELSE done
    /\ pc' = "read"
    /\ UNCHANGED <<serverVars, conn, down, up, cur, embedderVars, cgen>>

TaskStep ==
    \/ Read \/ ReadFails \/ WriteFails
    \/ HandlePing \/ HandleSetAck \/ HandleEvent \/ HandleIgnored

Next == TaskStep \/ ServerStep \/ EmbedderStep

Spec == Init /\ [][Next]_vars
=============================================================================
