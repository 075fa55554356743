---------------------------- MODULE MainBootstrap ---------------------------
(***************************************************************************)
(* The main channel from the end of the link handshake until the client    *)
(* runs: the client's bootstrap loop (capsaicin-net/src/client.rs,         *)
(* MainConnection::bootstrap), connect_with and run_main                   *)
(* (capsaicin-client/src/client.rs) against a server that is either        *)
(* serve_main_bootstrap of this repository (capsaicin-server/src/lib.rs)   *)
(* or an external, full SPICE server that also sends PINGs and NOTIFYs and *)
(* changes mouse modes.  Bodies decode; flow control is in MainFlow.       *)
(***************************************************************************)
EXTENDS Integers, SequencesExt

CONSTANTS
    Servers,        \* the servers to meet: TRUE is a full one
    MaxPings,       \* bound: PINGs and NOTIFYs it sends
    MaxChanges,     \* bound: changes of mode the guest brings about
    Cap             \* frames in flight, each way

ASSUME BootstrapAssumption ==
    /\ Servers \subseteq BOOLEAN
    /\ MaxPings \in Nat /\ MaxChanges \in Nat /\ Cap \in Nat \ {0}

VARIABLES
    phase,          \* client: "boot", "connect", "run" or "failed"
    out,            \* client: what it still has to write before it reads on
    init,           \* client: the mode INIT reported ("none": no INIT yet)
    reported,       \* client: the mode last posted to the embedder
    missed,         \* history: the last MOUSE_MODE was not passed on
    full,           \* server: a full one, or serve_main_bootstrap
    stage,          \* server: "set_ack", "init", "loop", "list", "idle" or "gone"
    mode,           \* server: current mouse mode
    tablet,         \* server: CLIENT is among its supported modes
    pings, changes, \* server: PINGs and NOTIFYs sent, changes of mode made
    down, up        \* frames on their way to the client, to the server

clientVars == <<phase, out, init, reported, missed>>
serverVars == <<full, stage, mode, tablet, pings, changes>>
vars == <<clientVars, serverVars, down, up>>

Modes == {"server", "client"}
Frame(op, m) == [op |-> op, mode |-> m]
Plain(op) == Frame(op, "none")

Init ==
    /\ phase = "boot" /\ out = <<>>
    /\ init = "none" /\ reported = "none" /\ missed = FALSE
    /\ stage = "set_ack" /\ pings = 0 /\ changes = 0
    /\ full \in Servers
    /\ mode \in (IF full THEN Modes ELSE {"server"})
    /\ tablet \in (IF full /\ mode = "server" THEN BOOLEAN ELSE {TRUE})
    /\ down = <<>> /\ up = <<>>

-----------------------------------------------------------------------------
(***************************************************************************)
(* The server.                                                             *)
(***************************************************************************)
\* write_message: waits for the socket to take the frame.
Send(frame) == Len(down) < Cap /\ down' = Append(down, frame)

SendSetAck ==
    /\ stage = "set_ack" /\ stage' = "init"
    /\ Send(Plain("set_ack"))
    /\ UNCHANGED <<clientVars, full, mode, tablet, pings, changes, up>>

SendInit ==
    /\ stage = "init" /\ stage' = "loop"
    /\ Send(Frame(IF tablet THEN "init_tablet" ELSE "init", mode))
    /\ UNCHANGED <<clientVars, full, mode, tablet, pings, changes, up>>

\* Mutated form: any frame of the client is taken for its ATTACH_CHANNELS.
EndsLoopAny(op) == TRUE

\* ATTACH_CHANNELS and DISCONNECTING end the loop, all else is passed over.
EndsLoop(op) == op \in {"attach", "disconnecting"}

\* The loop, and after the bootstrap handle_server_conn, which only reads.  An
\* external server reads at any time.
Listening == stage \in {"loop", "idle"} \/ (full /\ stage # "gone")

ServerRecv ==
    /\ Listening /\ up # <<>>
    /\ ~(full /\ Head(up).op = "mouse_mode_request")
    /\ up' = Tail(up)
    /\ stage' = IF stage = "loop" /\ EndsLoop(Head(up).op) THEN "list" ELSE stage
    /\ UNCHANGED <<clientVars, full, mode, tablet, pings, changes, down>>

SendList ==
    /\ stage = "list" /\ stage' = "idle"
    /\ Send(Plain("list"))
    /\ UNCHANGED <<clientVars, full, mode, tablet, pings, changes, up>>

\* External: a request is granted when there is a tablet, and a change of mode
\* is announced at once.  (Its outgoing queue takes what the socket does not.)
ServerGrants ==
    /\ full /\ Listening
    /\ up # <<>> /\ Head(up).op = "mouse_mode_request" /\ up' = Tail(up)
    /\ IF tablet /\ mode # "client"
         THEN mode' = "client" /\ down' = Append(down, Frame("mouse_mode", "client"))
         ELSE UNCHANGED <<mode, down>>
    /\ UNCHANGED <<clientVars, full, stage, tablet, pings, changes>>

\* External: the guest changes the mode (its tablet comes or goes).
ServerChangesMode ==
    /\ full /\ stage \in {"loop", "list", "idle"} /\ changes < MaxChanges
    /\ changes' = changes + 1
    /\ tablet' = ~tablet
    /\ mode' = (IF tablet THEN "server" ELSE "client") /\ mode' # mode
    /\ Send(Frame("mouse_mode", mode'))
    /\ UNCHANGED <<clientVars, full, stage, pings, up>>

ServerPings ==
    /\ full /\ stage \notin {"set_ack", "gone"} /\ pings < MaxPings
    /\ pings' = pings + 1
    /\ \E op \in {"ping", "notify"} : Send(Plain(op))
    /\ UNCHANGED <<clientVars, full, stage, mode, tablet, changes, up>>

\* The server stops, or meets the client's end of the connection.
ServerGone ==
    /\ stage # "gone" /\ stage' = "gone"
    /\ UNCHANGED <<clientVars, full, mode, tablet, pings, changes, down, up>>

-----------------------------------------------------------------------------
(***************************************************************************)
(* The client.                                                             *)
(***************************************************************************)
Got(op) == out = <<>> /\ down # <<>> /\ Head(down).op = op
Consume == down' = Tail(down) /\ UNCHANGED <<serverVars, up>>
Reading == phase \in {"boot", "run"}

\* The write_message calls of a handler, one after the other.
WriteNext ==
    /\ Reading /\ out # <<>> /\ Len(up) < Cap
    /\ up' = Append(up, Plain(Head(out))) /\ out' = Tail(out)
    /\ UNCHANGED <<phase, init, reported, missed, serverVars, down>>

\* SET_ACK and PING, alike in bootstrap and run_main.
HandleControl ==
    /\ Reading
    /\ \/ Got("set_ack") /\ out' = <<"ack_sync">>
       \/ Got("ping")    /\ out' = <<"pong">>
    /\ Consume /\ UNCHANGED <<phase, init, reported, missed>>

\* Mutated form: with a mode to ask for, the attach is left for later.
HandleInitAsksOnly ==
    /\ phase = "boot" /\ (Got("init") \/ Got("init_tablet"))
    /\ init' = Head(down).mode
    /\ out' = IF Head(down).op = "init_tablet" /\ Head(down).mode # "client"
                THEN <<"mouse_mode_request">> ELSE <<"attach">>
    /\ Consume /\ UNCHANGED <<phase, reported, missed>>

\* INIT: ask for CLIENT mode where it is supported, then attach.
HandleInit ==
    /\ phase = "boot" /\ (Got("init") \/ Got("init_tablet"))
    /\ init' = Head(down).mode
    /\ out' = (IF Head(down).op = "init_tablet" /\ Head(down).mode # "client"
                 THEN <<"mouse_mode_request">> ELSE <<>>) \o <<"attach">>
    /\ Consume /\ UNCHANGED <<phase, reported, missed>>

\* "Out of scope for bootstrap": accepted but not parsed.
BootMouseMode ==
    /\ phase = "boot" /\ Got("mouse_mode")
    /\ missed' = TRUE
    /\ Consume /\ UNCHANGED <<phase, out, init, reported>>

\* CHANNELS_LIST ends the loop; without an INIT before it, in an error.
HandleList ==
    /\ phase = "boot" /\ Got("list")
    /\ phase' = IF init = "none" THEN "failed" ELSE "connect"
    /\ Consume /\ UNCHANGED <<out, init, reported, missed>>

\* connect_with: the sub-channels link while nobody reads the main channel;
\* then the mode INIT reported seeds the mailbox and run_main starts.
SubChannelsLinked ==
    /\ phase = "connect" /\ phase' = "run"
    /\ reported' = init
    /\ UNCHANGED <<out, init, missed, serverVars, down, up>>

\* Mutated form: the mode stays the one the connection began with.
RunMouseModeKept ==
    /\ phase = "run" /\ Got("mouse_mode")
    /\ reported' = reported /\ missed' = FALSE
    /\ Consume /\ UNCHANGED <<phase, out, init>>

\* run_main: MOUSE_MODE becomes an event.
RunMouseMode ==
    /\ phase = "run" /\ Got("mouse_mode")
    /\ reported' = Head(down).mode /\ missed' = FALSE
    /\ Consume /\ UNCHANGED <<phase, out, init>>

\* NOTIFY and whatever else needs no answer.
HandleNotify ==
    /\ Reading /\ Got("notify")
    /\ Consume /\ UNCHANGED <<phase, out, init, reported, missed>>

\* A read or write fails, a sub-channel does not link, a channel the embedder
\* requires is not in the list, or the embedder drops the future.
ClientFails ==
    /\ phase # "failed" /\ phase' = "failed"
    /\ UNCHANGED <<out, init, reported, missed, serverVars, down, up>>

ServerStep == SendSetAck \/ SendInit \/ ServerRecv \/ SendList \/ ServerGrants
ClientStep ==
    \/ WriteNext \/ HandleControl \/ HandleInit \/ BootMouseMode \/ HandleList
    \/ RunMouseMode \/ HandleNotify

Next ==
    \/ ServerStep \/ ServerChangesMode \/ ServerPings \/ ServerGone
    \/ ClientStep \/ SubChannelsLinked \/ ClientFails

Spec == Init /\ [][Next]_vars

-----------------------------------------------------------------------------
TypeOK ==
    /\ phase \in {"boot", "connect", "run", "failed"}
    /\ Len(out) <= 2 /\ Len(up) <= Cap /\ Len(down) <= Cap + 1
    /\ init \in Modes \cup {"none"} /\ reported \in Modes \cup {"none"}
    /\ mode \in Modes /\ tablet \in BOOLEAN /\ missed \in BOOLEAN
    /\ stage \in {"set_ack", "init", "loop", "list", "idle", "gone"}
    /\ pings \in 0 .. MaxPings /\ changes \in 0 .. MaxChanges

(***************************************************************************)
(* The two bootstraps end in step: a client that has its CHANNELS_LIST     *)
(* knows its session, and nothing of either bootstrap is still on its way  *)
(* to be mistaken for something else by the loops that follow.             *)
(***************************************************************************)
BootstrapsMatch ==
    phase \in {"connect", "run"} =>
        /\ init # "none" /\ stage \in {"idle", "gone"}
        /\ \A i \in DOMAIN up : up[i].op \notin {"mouse_mode_request", "attach"}
        /\ \A i \in DOMAIN down : down[i].op \in {"ping", "notify", "mouse_mode"}

(***************************************************************************)
(* Once everything has been read, the embedder knows the server's mouse    *)
(* mode, unless the news of it fell into the bootstrap.                    *)
(***************************************************************************)
Settled == phase = "run" /\ stage = "idle" /\ down = <<>>

KnownModeAgrees == Settled /\ ~missed => reported = mode

(***************************************************************************)
(* client.rs: the mode of Init is to do "before the first MOUSE_MODE       *)
(* message (which the server only sends on change)": what the embedder was *)
(* last told is the server's mode once everything has been read.           *)
(***************************************************************************)
ModeAgrees == Settled => reported = mode
=============================================================================
