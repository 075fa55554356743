----------------------------- MODULE Connection -----------------------------
(***************************************************************************)
(* A whole connection attempt: connect_with_policy                         *)
(* (capsaicin-cli/src/main.rs), connect_with and the links it makes, one   *)
(* per channel (capsaicin-net: client.rs, link.rs, server.rs, tls.rs),     *)
(* around the bootstrap of the main channel (MainBootstrap), against the   *)
(* connection tasks of the server (handle_server_conn).                    *)
(*                                                                         *)
(* A link goes mess, reply, ticket, result; wire is the message of the     *)
(* current link that is on its way.  Keys and ciphers are external: the    *)
(* ticket carries the password.                                            *)
(***************************************************************************)
EXTENDS MainBootstrap

CONSTANTS
    Flags,          \* the TLS flags of the command line
    MaxFlags,       \* bound: how many of them are given
    Passwords,      \* the client's: "right", "wrong", "long" (over 60 bytes)
    Attach          \* channels the SpiceClientBuilder asks for

ASSUME ConnectionAssumption ==
    /\ Flags \subseteq {"tls", "no_tls", "insecure", "ca_file", "fingerprint"}
    /\ MaxFlags \in Nat
    /\ Passwords \subseteq {"right", "wrong", "long"}
    /\ Attach \subseteq {"display", "inputs", "cursor"}

VARIABLES
    policy, password,   \* TlsPolicy, and the password given
    asked,              \* history: the user gave --no-tls, or another TLS flag
    tlsServer,          \* "none": no TLS on this port; else the server's certificate
    serverMini,         \* the server advertises MINI_HEADER
    offers,             \* sub-channels in its CHANNELS_LIST
    overTls,            \* client: this attempt runs over TLS
    todo,               \* client: channels still to link, in order
    cl,                 \* client: "dial", "tls", "reply", "result", "linked"
    wire,               \* message of the current link on its way
    sv,                 \* server: each connection's task
    live,               \* server: the session's id is in live_sessions
    cMini, sMini,       \* framing each end has settled on for this link
    err,                \* client: how the attempt failed
    refused             \* history: a link was refused by the peer

askVars == <<policy, password, asked, tlsServer, serverMini, offers>>
linkVars == <<overTls, todo, cl, wire, sv, live, cMini, sMini, err, refused>>
allVars == <<vars, askVars, linkVars>>

Channels == {"main", "display", "inputs", "cursor"}

\* Inputs and display are required when asked for, the cursor is not.
Asked(c) == IF c \in Attach /\ (c = "cursor" => c \in offers) THEN <<c>> ELSE <<>>
Wanted == Asked("display") \o Asked("inputs") \o Asked("cursor")

NoConnections == [c \in Channels |-> "none"]

\* parse_tls_policy.  Of several ways to verify the server, the last counts.
Configs == {"insecure", "ca_file", "fingerprint"}
Policy(how, cfg) == [how |-> how, cfg |-> cfg]
ConfigOf(args) ==
    LET given == SelectSeq(args, LAMBDA a : a \in Configs) IN
    IF given = <<>> THEN "system_roots" ELSE Last(given)

\* Mutated form: only --tls forces TLS.
parse_tls_policy_probing(args) ==
    IF Contains(args, "no_tls")
      THEN Policy(IF ToSet(args) = {"no_tls"} THEN "plain" ELSE "incompatible", "none")
      ELSE Policy(IF Contains(args, "tls") THEN "tls" ELSE "auto", ConfigOf(args))

parse_tls_policy(args) ==
    IF Contains(args, "no_tls")
      THEN Policy(IF ToSet(args) = {"no_tls"} THEN "plain" ELSE "incompatible", "none")
      ELSE Policy(IF ToSet(args) # {} THEN "tls" ELSE "auto", ConfigOf(args))

\* TlsConfig::into_connector, and the verifiers: a public certificate is one of
\* the system's roots', a private one that of the user's CA and fingerprint.
Accepts(cfg, certificate) ==
    CASE cfg = "insecure" -> TRUE
      [] cfg = "system_roots" -> certificate = "public"
      [] cfg \in {"ca_file", "fingerprint"} -> certificate = "private"

\* The server of this repository speaks no TLS and always has mini headers.
ConnInit ==
    /\ Init
    /\ \E n \in 0 .. MaxFlags : \E args \in [1 .. n -> Flags] :
         /\ policy = parse_tls_policy(args) /\ policy.how # "incompatible"
         /\ asked = [plain |-> Contains(args, "no_tls"),
                     tls |-> ToSet(args) \ {"no_tls"} # {}]
    /\ password \in Passwords
    /\ tlsServer \in (IF full THEN {"none", "public", "private"} ELSE {"none"})
    /\ serverMini \in (IF full THEN BOOLEAN ELSE {TRUE})
    /\ offers \in (IF full THEN {Attach, Attach \ {"inputs"}, Attach \ {"cursor"}}
                           ELSE {{"display", "inputs"}})
    /\ overTls = (policy.how # "plain")
    /\ err = "none" /\ refused = FALSE
    /\ todo = <<"main">> \o Wanted
    /\ cl = "dial" /\ wire = "none" /\ sv = NoConnections
    /\ live = FALSE /\ cMini = FALSE /\ sMini = FALSE

-----------------------------------------------------------------------------
(***************************************************************************)
(* The client.                                                             *)
(***************************************************************************)
This == Head(todo)
Missing == \E c \in Attach \ {"cursor"} : c \notin offers
MainLinked == ~Contains(todo, "main")
Linking ==
    IF MainLinked THEN todo # <<>> /\ phase = "connect" /\ ~Missing
    ELSE phase = "boot"

\* The connection attempt ends; the sockets close behind it.
Fail(class) ==
    /\ phase' = "failed" /\ err' = class
    /\ UNCHANGED <<out, init, reported, missed, serverVars, down, up>>
    /\ UNCHANGED <<overTls, todo, cl, wire, sv, live, cMini, sMini>>

\* TcpStream::connect; LinkHeader and LinkMess follow at once, unless TLS
\* comes first.
Dial ==
    /\ Linking /\ cl = "dial"
    /\ cl' = IF overTls THEN "tls" ELSE "reply"
    /\ wire' = IF overTls THEN "none" ELSE "mess"
    /\ sv' = [sv EXCEPT ![This] = "mess"]
    /\ UNCHANGED <<overTls, todo, live, cMini, sMini, err, refused, vars>>

TlsUp ==
    /\ Linking /\ cl = "tls" /\ tlsServer # "none" /\ Accepts(policy.cfg, tlsServer)
    /\ cl' = "reply" /\ wire' = "mess"
    /\ UNCHANGED <<overTls, todo, sv, live, cMini, sMini, err, refused, vars>>

\* connect_tls: no TLS at the other end, or a certificate that is not accepted.
TlsFails ==
    /\ Linking /\ cl = "tls"
    /\ Fail("handshake") /\ UNCHANGED refused

\* link_client, step 4; a password over 60 bytes cannot be encrypted.
SendTicket ==
    /\ Linking /\ cl = "reply" /\ wire = "reply" /\ password # "long"
    /\ cl' = "result" /\ wire' = "ticket"
    /\ UNCHANGED <<overTls, todo, sv, live, cMini, sMini, err, refused, vars>>

PasswordTooLong ==
    /\ Linking /\ cl = "reply" /\ wire = "reply" /\ password = "long"
    /\ Fail("other") /\ UNCHANGED refused

\* Mini headers only when both ends advertise them; LinkOptions::new does.
Framing(mini) == TRUE /\ mini

\* LinkResult Ok: the channel is framed, and the next one is dialled.
Linked ==
    /\ Linking /\ cl = "result" /\ wire = "ok"
    /\ cl' = "linked" /\ wire' = "none"
    /\ cMini' = Framing(serverMini)
    /\ UNCHANGED <<overTls, todo, sv, live, sMini, err, refused, vars>>

NextChannel ==
    /\ Linking /\ cl = "linked"
    /\ todo' = Tail(todo) /\ cl' = "dial"
    /\ UNCHANGED <<overTls, wire, sv, live, cMini, sMini, err, refused, vars>>

\* LinkReply or LinkResult with an error.
Refused ==
    /\ Linking /\ wire \in {"reply_error", "denied"}
    /\ Fail("link") /\ refused' = TRUE

\* Reads and writes fail once the server's end is closed: with an end of file,
\* or reset by the peer.
LinkBroken ==
    /\ Linking /\ cl \in {"reply", "result"} /\ wire \in {"none", "mess", "ticket"}
    /\ sv[This] = "closed"
    /\ \E class \in {"eof", "reset"} : Fail(class)
    /\ UNCHANGED refused

\* connect_with: a channel that is asked for and not offered.
MissingChannel ==
    /\ phase = "connect" /\ Missing
    /\ Fail("other") /\ UNCHANGED refused

\* Everything else: dialling fails, or a read or write of the bootstrap, or
\* that of DISPLAY_INIT; the embedder drops the future.
OtherFailure ==
    /\ phase \in {"boot", "connect"}
    /\ \E class \in {"reset", "other"} : Fail(class)
    /\ UNCHANGED refused

\* Mutated form: any failure over TLS is tried again without.
LooksLikeTlsFailureAny(class) == TRUE

\* looks_like_tls_handshake_failure: by the words of the error, among which
\* are "tls handshake" and "connection reset".
LooksLikeTlsFailure(class) == class \in {"handshake", "reset"}

\* connect_with_policy, Auto: once more, from the start, without TLS.
FallBack ==
    /\ phase = "failed" /\ policy.how = "auto" /\ overTls
    /\ LooksLikeTlsFailure(err)
    /\ overTls' = FALSE /\ err' = "none"
    /\ todo' = <<"main">> \o Wanted
    /\ cl' = "dial" /\ wire' = "none" /\ sv' = NoConnections
    /\ live' = FALSE /\ cMini' = FALSE /\ sMini' = FALSE
    /\ phase' = "boot" /\ out' = <<>> /\ init' = "none" /\ missed' = FALSE
    /\ stage' = "set_ack" /\ down' = <<>> /\ up' = <<>>
    /\ UNCHANGED <<reported, full, mode, tablet, pings, changes, askVars, refused>>

-----------------------------------------------------------------------------
(***************************************************************************)
(* The server's task of each connection.                                   *)
(***************************************************************************)

ProtocolsMatch == overTls = (tlsServer # "none")

\* link_server, steps 1 to 3.  An external server may refuse here.
AnswerMess ==
    /\ todo # <<>> /\ sv[This] = "mess" /\ wire = "mess" /\ ProtocolsMatch
    /\ \/ sv' = [sv EXCEPT ![This] = "ticket"] /\ wire' = "reply"
       \/ full /\ sv' = [sv EXCEPT ![This] = "closed"] /\ wire' = "reply_error"
    /\ UNCHANGED <<overTls, todo, cl, live, cMini, sMini, err, refused, vars>>

\* Steps 4 to 6: the ticket holds the expected password, or it is denied.
CheckTicket ==
    /\ todo # <<>> /\ sv[This] = "ticket" /\ wire = "ticket"
    /\ IF password = "right"
         THEN wire' = "ok" /\ sv' = [sv EXCEPT ![This] = "linked"]
                /\ sMini' = (TRUE /\ serverMini)
         ELSE wire' = "denied" /\ sv' = [sv EXCEPT ![This] = "closed"]
                /\ UNCHANGED sMini
    /\ UNCHANGED <<overTls, todo, cl, live, cMini, err, refused, vars>>

\* A ClientHello is no LinkMess, nor the reverse; and any read may fail.
HangUp ==
    /\ \E c \in Channels :
         /\ sv[c] \in {"mess", "ticket"}
         /\ sv' = [sv EXCEPT ![c] = "closed"]
    /\ wire' = "none"
    /\ UNCHANGED <<overTls, todo, cl, live, cMini, sMini, err, refused, vars>>

\* Mutated form: the session is entered once its bootstrap is over.
OpenMainLate ==
    /\ sv["main"] = "linked"
    /\ sv' = [sv EXCEPT !["main"] = "open"] /\ live' = FALSE
    /\ UNCHANGED <<overTls, todo, cl, wire, cMini, sMini, err, refused, vars>>

\* handle_server_conn, Main: new_session_id, then the bootstrap.
OpenMain ==
    /\ sv["main"] = "linked"
    /\ sv' = [sv EXCEPT !["main"] = "open"] /\ live' = TRUE
    /\ UNCHANGED <<overTls, todo, cl, wire, cMini, sMini, err, refused, vars>>

\* The others: opened for a live session, else turned away.
OpenSub ==
    /\ \E c \in Channels \ {"main"} :
         /\ sv[c] = "linked"
         /\ sv' = [sv EXCEPT ![c] = IF live THEN "open" ELSE "turned_away"]
    /\ UNCHANGED <<overTls, todo, cl, wire, live, cMini, sMini, err, refused, vars>>

\* The main task ends: end_session, but only after a bootstrap that returned.
MainGone ==
    /\ sv["main"] = "open" /\ ServerGone
    /\ live' = (live /\ stage # "idle")
    /\ UNCHANGED <<overTls, todo, cl, wire, sv, cMini, sMini, err, refused>>

-----------------------------------------------------------------------------
\* MainBootstrap, once its link stands at the end that moves.
BootServer(step) == sv["main"] = "open" /\ step /\ UNCHANGED linkVars
BootClient == MainLinked /\ ClientStep /\ UNCHANGED linkVars
AllLinked == todo = <<>> /\ SubChannelsLinked /\ UNCHANGED linkVars

ClientMoves ==
    \/ Dial \/ TlsUp \/ TlsFails \/ SendTicket \/ PasswordTooLong \/ Linked
    \/ NextChannel \/ Refused \/ LinkBroken \/ MissingChannel
    \/ BootClient \/ AllLinked

ServerMoves == AnswerMess \/ CheckTicket \/ OpenMain \/ OpenSub \/ BootServer(ServerStep)

ConnNext ==
    \/ FallBack
    \/ /\ \/ ClientMoves \/ OtherFailure
          \/ ServerMoves \/ HangUp \/ MainGone
          \/ BootServer(ServerChangesMode \/ ServerPings)
       /\ UNCHANGED askVars

ConnSpec == ConnInit /\ [][ConnNext]_allVars

\* Both ends go on with what they have to read and write, and a server that
\* is spoken to in the wrong protocol gives up.
ConnFairSpec ==
    /\ ConnSpec
    /\ WF_allVars(FallBack)
    /\ WF_allVars(ClientMoves /\ UNCHANGED askVars)
    /\ WF_allVars(ServerMoves /\ UNCHANGED askVars)
    /\ WF_allVars(HangUp /\ ~ProtocolsMatch /\ UNCHANGED askVars)

-----------------------------------------------------------------------------
ConnTypeOK ==
    /\ TypeOK
    /\ cl \in {"dial", "tls", "reply", "result", "linked"}
    /\ wire \in {"none", "mess", "reply", "reply_error", "ticket", "ok", "denied"}
    /\ sv \in [Channels -> {"none", "mess", "ticket", "linked", "open", "closed", "turned_away"}]
    /\ err \in {"none", "handshake", "reset", "eof", "link", "other"}
    /\ todo # <<>> => ToSet(todo) \subseteq Channels

(***************************************************************************)
(* Both ends of a link frame their messages alike, whatever each of them   *)
(* advertises; otherwise nothing after the link could be read.             *)
(***************************************************************************)
FramingAgrees == cl = "linked" => cMini = sMini

(***************************************************************************)
(* A refusal is final: a peer that refused the link (a wrong password) is  *)
(* not dialled again, neither for the next channel nor without TLS.        *)
(***************************************************************************)
RefusalIsFinal == refused => phase = "failed"

(***************************************************************************)
(* USAGE: who gives --tls, --ca-file, --fingerprint or --insecure never    *)
(* has a link in plain, whatever fails on the way; who gives --no-tls has  *)
(* none over TLS.                                                          *)
(***************************************************************************)
TlsIsAsAsked ==
    /\ asked.tls /\ cl \in {"reply", "result", "linked"} => overTls
    /\ asked.plain => ~overTls

(***************************************************************************)
(* The attempt without TLS is made only where it may be: not after a       *)
(* refusal, and not against what the user asked for.                       *)
(***************************************************************************)
FallsBackOnlyIfAllowed == RefusalIsFinal /\ TlsIsAsAsked

(***************************************************************************)
(* A sub-channel of this client is turned away as not belonging to a live  *)
(* session only if the main channel's task at the server has ended: the    *)
(* client learns the id after the server has entered it.                   *)
(***************************************************************************)
SubChannelsWelcome ==
    \A c \in Channels : sv[c] = "turned_away" => stage = "gone"

(***************************************************************************)
(* Both ends of a link agree about it: its framing, and its session.       *)
(***************************************************************************)
LinksAgree == FramingAgrees /\ SubChannelsWelcome

(***************************************************************************)
(* Connecting is no standoff, through links, bootstrap and fallback: the   *)
(* client runs or has failed for good, unless the server's main task ends. *)
(***************************************************************************)
ConnectSettles == <>[](phase \in {"run", "failed"} \/ stage = "gone")
=============================================================================
