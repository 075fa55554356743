---------------------------- MODULE ChannelFlows ----------------------------
(***************************************************************************)
(* The three tasks connect_with spawns beside the display task             *)
(* (capsaicin-client/src/client.rs), each on a channel of its own: any one *)
(* of them with its server.  The channels share nothing but the mailbox,   *)
(* whose other users are in AckChannel (OtherTaskPosts), so one channel at *)
(* a time is enough.                                                       *)
(***************************************************************************)
EXTENDS MainFlow

VARIABLE role       \* whose channel this is

Cursor == INSTANCE CursorFlow
Inputs == INSTANCE InputsFlow

\* run_main's variables are idle on the other channels.
FlowsInit == Init /\ role \in {"main", "cursor", "inputs"}

FlowsNext ==
    /\ \/ role = "main" /\ Next
       \/ role = "cursor" /\ Cursor!Next /\ UNCHANGED mainVars
       \/ role = "inputs" /\ Inputs!Next /\ UNCHANGED mainVars
    /\ UNCHANGED role

FlowsSpec == FlowsInit /\ [][FlowsNext]_<<vars, role>>
=============================================================================
