------------------------------ MODULE Sessions ------------------------------
(***************************************************************************)
(* The minimal server: connection slots and session ids                    *)
(* (capsaicin-cli/src/main.rs: serve_flow, handle_server_conn;             *)
(* capsaicin-server/src/lib.rs: Server's table of live sessions).  Each    *)
(* connection is a task of its own on a multi-threaded executor; the table *)
(* is touched only under its lock.                                         *)
(*                                                                         *)
(* The handshake, the bootstrap and the idle loop are abstracted to how    *)
(* they end.                                                               *)
(***************************************************************************)
EXTENDS Integers, FiniteSets

CONSTANTS
    Conns,          \* connections clients make
    Ids,            \* nonzero session ids
    MaxConns        \* MAX_CONCURRENT_CONNS

ASSUME SessionsAssumption ==
    /\ IsFiniteSet(Conns)
    /\ 0 \notin Ids
    /\ MaxConns \in Nat

VARIABLES
    st,         \* where each connection's task stands
    sid,        \* session id of a main connection (0: none)
    permits,    \* free permits of the semaphore
    live,       \* Server::live_sessions
    serving     \* serve_flow's accept loop is running

vars == <<st, sid, permits, live, serving>>

\* "link": Server::accept; "boot": serve_main_bootstrap; "main", "sub": the
\* idle loops; "leaving": the handler has returned, its permit is not dropped.
States == {"new", "link", "boot", "main", "sub", "leaving", "gone"}
Holding == {c \in Conns : st[c] \in {"link", "boot", "main", "sub", "leaving"}}

Init ==
    /\ st = [c \in Conns |-> "new"]
    /\ sid = [c \in Conns |-> 0]
    /\ permits = MaxConns
    /\ live = {}
    /\ serving = TRUE

Goto(c, s) == st' = [st EXCEPT ![c] = s]

-----------------------------------------------------------------------------
\* try_acquire_owned succeeds, and the task is spawned with the permit.
Accept(c) ==
    /\ serving /\ st[c] = "new"
    /\ permits > 0
    /\ permits' = permits - 1 /\ Goto(c, "link")
    /\ UNCHANGED <<sid, live, serving>>

\* At capacity: the stream is dropped at once.
Refuse(c) ==
    /\ serving /\ st[c] = "new"
    /\ permits = 0
    /\ Goto(c, "gone")
    /\ UNCHANGED <<sid, permits, live, serving>>

\* listener.accept fails: serve_flow returns and the process with it.
AcceptFails ==
    /\ serving /\ serving' = FALSE
    /\ st' = [c \in Conns |-> "gone"]
    /\ UNCHANGED <<sid, permits, live>>

\* The handshake fails: wrong password, bad message, peer gone.
LinkFails(c) ==
    /\ st[c] = "link" /\ Goto(c, "leaving")
    /\ UNCHANGED <<sid, permits, live, serving>>

\* Mutated form: an id that is already live is handed out again.
LinkMainAnyId(c) ==
    /\ st[c] = "link"
    /\ \E id \in Ids :
         /\ live' = live \cup {id}
         /\ sid' = [sid EXCEPT ![c] = id]
    /\ Goto(c, "boot")
    /\ UNCHANGED <<permits, serving>>

\* Mutated form: the id is handed out without being entered in the table.
LinkMainUnregistered(c) ==
    /\ st[c] = "link"
    /\ \E id \in Ids \ live : sid' = [sid EXCEPT ![c] = id]
    /\ Goto(c, "boot")
    /\ UNCHANGED <<permits, live, serving>>

\* A main channel.  new_session_id draws until the draw is neither 0 nor live;
\* the insertion under the lock is what decides.
LinkMain(c) ==
    /\ st[c] = "link"
    /\ \E id \in Ids \ live :
         /\ live' = live \cup {id}
         /\ sid' = [sid EXCEPT ![c] = id]
    /\ Goto(c, "boot")
    /\ UNCHANGED <<permits, serving>>

\* A sub-channel claiming some id: opened if is_live_session, else refused.
LinkSub(c) ==
    /\ st[c] = "link"
    /\ \E id \in Ids \cup {0} : Goto(c, IF id \in live THEN "sub" ELSE "leaving")
    /\ UNCHANGED <<sid, permits, live, serving>>

\* serve_main_bootstrap returns Ok: ATTACH_CHANNELS or DISCONNECTING was read.
BootDone(c) ==
    /\ st[c] = "boot" /\ Goto(c, "main")
    /\ UNCHANGED <<sid, permits, live, serving>>

\* It returns an error, and `?` leaves the handler.
BootFails(c) ==
    /\ st[c] = "boot" /\ Goto(c, "leaving")
    /\ UNCHANGED <<sid, permits, live, serving>>

\* The main channel is closed: end_session.
MainEnds(c) ==
    /\ st[c] = "main" /\ Goto(c, "leaving")
    /\ live' = live \ {sid[c]}
    /\ UNCHANGED <<sid, permits, serving>>

SubEnds(c) ==
    /\ st[c] = "sub" /\ Goto(c, "leaving")
    /\ UNCHANGED <<sid, permits, live, serving>>

\* Mutated form: the task ends and its permit is not given back.
ReleaseNothing(c) ==
    /\ st[c] = "leaving" /\ Goto(c, "gone")
    /\ UNCHANGED <<sid, permits, live, serving>>

\* The task ends, however the handler did: _permit is dropped.
Release(c) ==
    /\ st[c] = "leaving" /\ Goto(c, "gone")
    /\ permits' = permits + 1
    /\ UNCHANGED <<sid, live, serving>>

Step(c) ==
    \/ Accept(c) \/ Refuse(c) \/ LinkFails(c) \/ LinkMain(c) \/ LinkSub(c)
    \/ BootDone(c) \/ BootFails(c) \/ MainEnds(c) \/ SubEnds(c) \/ Release(c)

Next == (\E c \in Conns : Step(c)) \/ AcceptFails

Spec == Init /\ [][Next]_vars

-----------------------------------------------------------------------------
TypeOK ==
    /\ st \in [Conns -> States]
    /\ sid \in [Conns -> Ids \cup {0}]
    /\ permits \in 0 .. MaxConns
    /\ live \subseteq Ids
    /\ serving \in BOOLEAN

Open(c) == st[c] \in {"boot", "main"}

(***************************************************************************)
(* Sessions do not get in each other's way: two open main channels never   *)
(* have the same session id, and the id of an open one stays live, so that *)
(* its sub-channels are let in, whichever other sessions end meanwhile.    *)
(***************************************************************************)
OpenSessionsAreDistinct ==
    \A c, d \in Conns : Open(c) /\ Open(d) /\ c # d => sid[c] # sid[d]

OpenSessionsAreLive == \A c \in Conns : Open(c) => sid[c] \in live

(***************************************************************************)
(* Slots are neither lost nor invented: while the server runs, the free    *)
(* permits and the connections being handled add up to the limit, whatever *)
(* way each handler left.                                                  *)
(***************************************************************************)
SlotsAddUp == serving => permits + Cardinality(Holding) = MaxConns

(***************************************************************************)
(* lib.rs, end_session: "Mark a session as no longer live (call when the   *)
(* main-channel connection ends). Subsequent sub-channel attaches with the *)
(* same id will be refused": every live session still has its main         *)
(* channel.                                                                *)
(***************************************************************************)
LiveSessionsAreOpen ==
    serving => \A id \in live : \E c \in Conns : Open(c) /\ sid[c] = id
=============================================================================
