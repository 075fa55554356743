------------------------- MODULE Connection_proofs --------------------------
(***************************************************************************)
(* A connection attempt, for sockets that hold any number of frames, any   *)
(* number of PINGs and mode changes, any flags, passwords and channels.    *)
(*                                                                         *)
(* The two bootstraps match because each end's part of them goes out once  *)
(* and in order: what of it is still on the way (BootInv) tells how far    *)
(* the other end can be.  That the embedder knows the mouse mode is a      *)
(* matter of the last news of it in flight (NewsInv).  A sub-channel is    *)
(* linked after the main bootstrap is over, thus after the session has     *)
(* been entered (LinkInv).                                                 *)
(***************************************************************************)
EXTENDS Connection, SequenceTheorems, TLAPS

-----------------------------------------------------------------------------
(***************************************************************************)
(* The bootstrap.                                                          *)
(***************************************************************************)
Inits == {"init", "init_tablet"}
Asks == {"mouse_mode_request", "attach"}
DownOps == Inits \cup {"set_ack", "list", "mouse_mode", "ping", "notify"}
UpOps == Asks \cup {"ack_sync", "pong"}
Outs == {<<>>, <<"ack_sync">>, <<"pong">>, <<"attach">>, <<"mouse_mode_request", "attach">>}

BootTyped ==
    /\ phase \in {"boot", "connect", "run", "failed"} /\ out \in Outs
    /\ init \in Modes \cup {"none"} /\ reported \in Modes \cup {"none"}
    /\ mode \in Modes /\ tablet \in BOOLEAN /\ missed \in BOOLEAN /\ full \in BOOLEAN
    /\ stage \in {"set_ack", "init", "loop", "list", "idle", "gone"}
    /\ pings \in 0 .. MaxPings /\ changes \in 0 .. MaxChanges
    /\ down \in Seq([op : DownOps, mode : Modes \cup {"none"}])
    /\ up \in Seq([op : UpOps, mode : {"none"}]) /\ Len(up) <= Cap

\* The server's part of the bootstrap: SET_ACK, INIT, CHANNELS_LIST, and how
\* much of it has been sent.
Rank(op) == IF op = "set_ack" THEN 1 ELSE IF op \in Inits THEN 2 ELSE IF op = "list" THEN 3 ELSE 0
SentRank == IF stage = "set_ack" THEN 0 ELSE IF stage = "init" THEN 1
            ELSE IF stage \in {"loop", "list"} THEN 2 ELSE 3

PartsInOrder ==
    /\ \A i, j \in DOMAIN down : i < j /\ Rank(down[j].op) > 0 => Rank(down[i].op) < Rank(down[j].op)
    /\ \A i \in DOMAIN down : Rank(down[i].op) <= SentRank
    /\ phase \in {"connect", "run"} => \A i \in DOMAIN down : Rank(down[i].op) = 0

\* The client's part: asking for a mode perhaps, then attaching, once INIT has come.
InitOnWay == \E i \in DOMAIN down : down[i].op \in Inits
AskOnWay == \E i \in DOMAIN up : up[i].op \in Asks
AskDue == out \in {<<"attach">>, <<"mouse_mode_request", "attach">>}

AsksInOrder ==
    /\ \A i, j \in DOMAIN up : i < j /\ up[i].op \in Asks /\ up[j].op \in Asks =>
          up[i].op = "mouse_mode_request" /\ up[j].op = "attach"
    /\ InitOnWay => ~AskOnWay /\ ~AskDue
    /\ out = <<"attach">> => \A i \in DOMAIN up : up[i].op # "attach"
    /\ out = <<"mouse_mode_request", "attach">> => ~AskOnWay

\* As long as something of it is under way the list has not been sent.
ListComesLast ==
    /\ InitOnWay \/ AskOnWay \/ AskDue =>
          /\ stage \in {"loop", "gone"} /\ phase \in {"boot", "failed"}
          /\ \A i \in DOMAIN down : down[i].op # "list"
    /\ stage \in {"set_ack", "init", "loop", "list"} => phase \in {"boot", "failed"}
    /\ phase \in {"connect", "run"} => init # "none"

\* A grant is announced whatever the socket holds, but there is one request only.
MayAsk ==
    \/ stage \in {"set_ack", "init"} \/ InitOnWay
    \/ out = <<"mouse_mode_request", "attach">>
    \/ \E i \in DOMAIN up : up[i].op = "mouse_mode_request"
DownFits == Len(down) <= IF MayAsk THEN Cap ELSE Cap + 1

\* The last news of the mode in flight is true; with none in flight the client
\* knows the mode, unless it has missed it.
IsNews(f) == f.op \in Inits \cup {"mouse_mode"}
NewsInv ==
    stage \in {"loop", "list", "idle"} =>
        /\ \A i \in DOMAIN down :
              IsNews(down[i]) /\ (\A j \in DOMAIN down : j > i => ~IsNews(down[j])) =>
                  down[i].mode = mode
        /\ (\A i \in DOMAIN down : ~IsNews(down[i])) /\ ~missed /\ phase # "failed" =>
              mode = IF phase = "run" THEN reported ELSE init

BootInv ==
    BootTyped /\ PartsInOrder /\ AsksInOrder /\ ListComesLast /\ DownFits /\ NewsInv

-----------------------------------------------------------------------------
(***************************************************************************)
(* The links.                                                              *)
(***************************************************************************)
Subs == Channels \ {"main"}

LinkTyped ==
    /\ cl \in {"dial", "tls", "reply", "result", "linked"}
    /\ wire \in {"none", "mess", "reply", "reply_error", "ticket", "ok", "denied"}
    /\ sv \in [Channels -> {"none", "mess", "ticket", "linked", "open", "closed", "turned_away"}]
    /\ err \in {"none", "handshake", "reset", "eof", "link", "other"}
    /\ todo \in Seq(Channels)
    /\ policy.how \in {"plain", "tls", "auto"} /\ serverMini \in BOOLEAN

\* Main is linked first, and once.
MainComesFirst ==
    /\ \A i \in DOMAIN todo : todo[i] = "main" => i = 1
    /\ ~MainLinked => \A c \in Subs : sv[c] = "none"
    /\ ~MainLinked /\ cl = "dial" => sv["main"] = "none"

\* The session is live from the start of its bootstrap to the end of its task.
SessionIsLive ==
    /\ sv["main"] # "open" => stage = "set_ack"
    /\ sv["main"] = "open" /\ stage # "gone" => live
    /\ \A c \in Subs : sv[c] # "none" => stage \in {"idle", "gone"}
    /\ \A c \in Channels : sv[c] = "turned_away" => stage = "gone"

\* What is advertised is known to both ends when the result is on its way.
FramingKnown ==
    /\ wire = "ok" => sMini = serverMini
    /\ cl = "linked" => wire = "none" /\ cMini = serverMini /\ sMini = serverMini

FlagsCount ==
    /\ asked.tls => policy.how = "tls"
    /\ asked.plain => policy.how = "plain"
    /\ policy.how = "plain" => ~overTls
    /\ policy.how = "tls" => overTls
    /\ refused => phase = "failed" /\ err = "link"

LinkInv == LinkTyped /\ MainComesFirst /\ SessionIsLive /\ FramingKnown /\ FlagsCount

-----------------------------------------------------------------------------
(***************************************************************************)
(* Queues of frames.                                                       *)
(***************************************************************************)

\* A frame that is sent comes behind all others.
LEMMA AppendFacts ==
    ASSUME NEW S, NEW q \in Seq(S), NEW f \in S
    PROVE  /\ Append(q, f) \in Seq(S) /\ Len(q) \in Nat
           /\ Len(Append(q, f)) = Len(q) + 1
           /\ DOMAIN Append(q, f) = DOMAIN q \cup {Len(q) + 1}
           /\ Append(q, f)[Len(q) + 1] = f
           /\ \A i \in DOMAIN q : i \in Nat /\ i < Len(q) + 1 /\ Append(q, f)[i] = q[i]
  <1>1. /\ Append(q, f) \in Seq(S) /\ Len(q) \in Nat
        /\ Len(Append(q, f)) = Len(q) + 1
        /\ Append(q, f)[Len(q) + 1] = f
        /\ \A i \in 1 .. Len(q) : Append(q, f)[i] = q[i]
    BY LenProperties
  <1>2. DOMAIN q = 1 .. Len(q)
    BY LenProperties
  <1>3. DOMAIN Append(q, f) = 1 .. Len(q) + 1
    BY <1>1, LenProperties
  <1>4. 1 .. Len(q) + 1 = (1 .. Len(q)) \cup {Len(q) + 1}
    BY <1>1
  <1> QED BY <1>1, <1>2, <1>3, <1>4

\* Taking the first frame moves the others one place forward.
LEMMA TakeFacts ==
    ASSUME NEW S, NEW q \in Seq(S), q # <<>>
    PROVE  /\ Head(q) \in S /\ Head(q) = q[1] /\ 1 \in DOMAIN q
           /\ Tail(q) \in Seq(S) /\ Len(q) \in Nat /\ Len(Tail(q)) = Len(q) - 1
           /\ \A i \in DOMAIN Tail(q) : /\ i \in Nat /\ i > 0 /\ i + 1 \in DOMAIN q
                                        /\ Tail(q)[i] = q[i + 1]
           /\ \A i \in DOMAIN q : \/ i = 1
                                  \/ /\ i \in Nat /\ i > 1 /\ i - 1 \in DOMAIN Tail(q)
                                     /\ Tail(q)[i - 1] = q[i]
  <1>1. /\ Head(q) \in S /\ Tail(q) \in Seq(S) /\ Len(Tail(q)) = Len(q) - 1
        /\ \A i \in 1 .. Len(Tail(q)) : Tail(q)[i] = q[i + 1]
    BY HeadTailProperties
  <1>2. Len(q) \in Nat \ {0} /\ Head(q) = q[1]
    BY EmptySeq
  <1>3. DOMAIN q = 1 .. Len(q) /\ DOMAIN Tail(q) = 1 .. Len(q) - 1
    BY <1>1, <1>2, LenProperties
  <1>4. \A i \in 1 .. Len(q) - 1 : i \in Nat /\ i > 0 /\ i + 1 \in 1 .. Len(q)
    BY <1>2
  <1>5. \A i \in 1 .. Len(q) : i = 1 \/ (i \in Nat /\ i > 1 /\ i - 1 \in 1 .. Len(q) - 1)
    BY <1>2
  <1>6. 1 \in 1 .. Len(q)
    BY <1>2
  <1>7. \A i \in 1 .. Len(q) - 1 : Tail(q)[i] = q[i + 1]
    BY <1>1
  <1>8. \A i \in 1 .. Len(q) : i = 1 \/ Tail(q)[i - 1] = q[i]
    <2> TAKE i \in 1 .. Len(q)
    <2>1. i = 1 \/ (i - 1 \in 1 .. Len(q) - 1 /\ (i - 1) + 1 = i)
      BY <1>5
    <2> QED BY <1>7, <2>1
  <1> QED BY <1>1, <1>2, <1>3, <1>4, <1>5, <1>6, <1>7, <1>8

\* The positions of a queue.
LEMMA Positions ==
    ASSUME NEW S, NEW q \in Seq(S)
    PROVE  /\ DOMAIN q = 1 .. Len(q) /\ Len(q) \in Nat
           /\ \A i \in DOMAIN q : i \in Nat /\ i > 0 /\ q[i] \in S
  BY LenProperties, ElementOfSeq

-----------------------------------------------------------------------------
(***************************************************************************)
(* The bootstrap, step by step.                                            *)
(***************************************************************************)
DownFrame == [op : DownOps, mode : Modes \cup {"none"}]
UpFrame == [op : UpOps, mode : {"none"}]

\* What is written next is the first of what is due.
LEMMA OutFacts ==
    ASSUME out \in Outs, out # <<>>
    PROVE  /\ Tail(out) \in Outs /\ Head(out) \in UpOps
           /\ out = <<"ack_sync">> => Head(out) = "ack_sync" /\ Tail(out) = <<>>
           /\ out = <<"pong">> => Head(out) = "pong" /\ Tail(out) = <<>>
           /\ out = <<"attach">> => Head(out) = "attach" /\ Tail(out) = <<>>
           /\ out = <<"mouse_mode_request", "attach">> =>
                Head(out) = "mouse_mode_request" /\ Tail(out) = <<"attach">>
  <1>1. CASE out = <<"ack_sync">>
    <2>1. Head(out) = "ack_sync" /\ Tail(out) = <<>>
      BY <1>1
    <2> QED BY <1>1, <2>1 DEF Outs, UpOps
  <1>2. CASE out = <<"pong">>
    <2>1. Head(out) = "pong" /\ Tail(out) = <<>>
      BY <1>2
    <2> QED BY <1>2, <2>1 DEF Outs, UpOps
  <1>3. CASE out = <<"attach">>
    <2>1. Head(out) = "attach" /\ Tail(out) = <<>>
      BY <1>3
    <2> QED BY <1>3, <2>1 DEF Outs, UpOps, Asks
  <1>4. CASE out = <<"mouse_mode_request", "attach">>
    <2>1. Head(out) = "mouse_mode_request" /\ Tail(out) = <<"attach">>
      BY <1>4
    <2> QED BY <1>4, <2>1 DEF Outs, UpOps, Asks
  <1> QED BY <1>1, <1>2, <1>3, <1>4 DEF Outs

\* The four answers are different things to have due.
LEMMA OutsDiffer ==
    /\ <<>> # <<"attach">> /\ <<>> # <<"mouse_mode_request", "attach">>
    /\ <<"ack_sync">> # <<"attach">> /\ <<"pong">> # <<"attach">>
    /\ <<"ack_sync">> # <<"mouse_mode_request", "attach">>
    /\ <<"pong">> # <<"mouse_mode_request", "attach">>
    /\ <<"attach">> # <<"mouse_mode_request", "attach">>
    /\ <<"attach">> # <<>> /\ <<"ack_sync">> # <<>> /\ <<"pong">> # <<>>
  OBVIOUS

\* Two sequences of one put together.
LEMMA PairConcat == ASSUME NEW a, NEW b PROVE <<a>> \o <<b>> = <<a, b>>
  <1> DEFINE S == {a, b}
             p == <<a>>
             q == <<b>>
             r == <<a, b>>
  <1>1. p \in Seq(S) /\ Len(p) = 1 /\ p[1] = a
    OBVIOUS
  <1>2. q \in Seq(S) /\ Len(q) = 1 /\ q[1] = b
    OBVIOUS
  <1>3. r \in Seq(S) /\ Len(r) = 2 /\ r[1] = a /\ r[2] = b
    OBVIOUS
  <1> HIDE DEF S, p, q, r
  <1>4. /\ p \o q \in Seq(S) /\ Len(p \o q) = 2
        /\ (p \o q)[1] = p[1] /\ (p \o q)[2] = q[1]
    BY <1>1, <1>2, ConcatProperties
  <1>5. \A i \in 1 .. Len(r) : (p \o q)[i] = r[i]
    BY <1>1, <1>2, <1>3, <1>4
  <1>6. p \o q = r
    BY <1>3, <1>4, <1>5, SeqEqual
  <1> QED BY <1>6 DEF p, q, r

\* Frames and answers keep their types.
LEMMA BootTypeStep == BootTyped /\ [Next]_vars => BootTyped'
  <1> SUFFICES ASSUME BootTyped, [Next]_vars PROVE BootTyped'
    OBVIOUS
  <1> USE BootstrapAssumption DEF BootTyped
  <1>1. /\ down \in Seq(DownFrame) /\ up \in Seq(UpFrame)
    BY DEF DownFrame, UpFrame
  <1>2. ASSUME NEW f \in DownFrame PROVE Append(down, f) \in Seq(DownFrame)
    BY <1>1, AppendFacts
  <1>3. \A op \in DownOps, m \in Modes \cup {"none"} : Frame(op, m) \in DownFrame
    BY DEF Frame, DownFrame
  <1>4. down # <<>> => Tail(down) \in Seq(DownFrame) /\ Head(down) \in DownFrame
    BY <1>1, TakeFacts
  <1>5. up # <<>> => Tail(up) \in Seq(UpFrame) /\ Len(Tail(up)) <= Cap
    BY <1>1, TakeFacts
  <1>6. CASE SendSetAck
    <2>1. down' = Append(down, Frame("set_ack", "none"))
      BY <1>6 DEF SendSetAck, Send, Plain
    <2>2. down' \in Seq(DownFrame)
      BY <1>2, <1>3, <2>1 DEF DownOps
    <2> QED BY <1>6, <2>2 DEF SendSetAck, clientVars, DownFrame
  <1>7. CASE SendInit
    <2>1. PICK op \in Inits : down' = Append(down, Frame(op, mode))
      BY <1>7 DEF SendInit, Send, Inits
    <2>2. down' \in Seq(DownFrame)
      BY <1>2, <1>3, <2>1 DEF DownOps
    <2> QED BY <1>7, <2>2 DEF SendInit, clientVars, DownFrame
  <1>8. CASE SendList
    <2>1. down' = Append(down, Frame("list", "none"))
      BY <1>8 DEF SendList, Send, Plain
    <2>2. down' \in Seq(DownFrame)
      BY <1>2, <1>3, <2>1 DEF DownOps
    <2> QED BY <1>8, <2>2 DEF SendList, clientVars, DownFrame
  <1>9. CASE ServerChangesMode
    <2>1. down' = Append(down, Frame("mouse_mode", mode')) /\ mode' \in Modes
      BY <1>9 DEF ServerChangesMode, Send, Modes
    <2>2. down' \in Seq(DownFrame)
      BY <1>2, <1>3, <2>1 DEF DownOps
    <2> QED BY <1>9, <2>1, <2>2 DEF ServerChangesMode, clientVars, DownFrame
  <1>10. CASE ServerPings
    <2>1. PICK op \in {"ping", "notify"} : down' = Append(down, Frame(op, "none"))
      BY <1>10 DEF ServerPings, Send, Plain
    <2>2. down' \in Seq(DownFrame)
      BY <1>2, <1>3, <2>1 DEF DownOps
    <2> QED BY <1>10, <2>2 DEF ServerPings, clientVars, DownFrame
  <1>11. CASE ServerRecv
    BY <1>5, <1>11 DEF ServerRecv, clientVars, UpFrame
  <1>12. CASE ServerGrants
    <2>1. Append(down, Frame("mouse_mode", "client")) \in Seq(DownFrame)
      BY <1>2, <1>3 DEF DownOps, Modes
    <2>2. \/ mode' = mode /\ down' = down
          \/ mode' = "client" /\ down' = Append(down, Frame("mouse_mode", "client"))
      BY <1>12, Zenon DEF ServerGrants
    <2>3. down' \in Seq(DownFrame) /\ mode' \in Modes
      BY <1>1, <2>1, <2>2 DEF Modes
    <2> QED BY <1>5, <1>12, <2>3 DEF ServerGrants, clientVars, UpFrame, DownFrame
  <1>13. CASE ServerGone \/ SubChannelsLinked \/ ClientFails
    BY <1>13 DEF ServerGone, SubChannelsLinked, ClientFails, clientVars, serverVars
  <1>14. CASE WriteNext
    <2>1. /\ Plain(Head(out)) \in UpFrame /\ out' \in Outs
      BY <1>14, OutFacts DEF WriteNext, Plain, Frame, UpFrame
    <2>2. up' \in Seq(UpFrame) /\ Len(up') <= Cap
      BY <1>1, <1>14, <2>1, AppendFacts DEF WriteNext
    <2> QED BY <1>14, <2>1, <2>2 DEF WriteNext, serverVars, UpFrame
  <1>15. CASE HandleControl
    <2>1. out' \in Outs /\ down # <<>> /\ down' = Tail(down)
      BY <1>15 DEF HandleControl, Got, Consume, Outs
    <2> QED BY <1>4, <1>15, <2>1 DEF HandleControl, Consume, serverVars, DownFrame
  <1>16. CASE HandleInit
    <2>1. down # <<>> /\ down' = Tail(down) /\ init' \in Modes \cup {"none"}
      BY <1>4, <1>16 DEF HandleInit, Got, Consume, DownFrame
    <2>2. out' \in Outs
      <3>1. \/ out' = <<"mouse_mode_request">> \o <<"attach">>
            \/ out' = <<>> \o <<"attach">>
        BY <1>16, Zenon DEF HandleInit
      <3>2. <<"mouse_mode_request">> \o <<"attach">> = <<"mouse_mode_request", "attach">>
        BY PairConcat
      <3>3. <<>> \o <<"attach">> = <<"attach">>
        OBVIOUS
      <3> QED BY <3>1, <3>2, <3>3 DEF Outs
    <2> QED BY <1>4, <1>16, <2>1, <2>2 DEF HandleInit, Consume, serverVars, DownFrame
  <1>17. CASE BootMouseMode \/ HandleNotify \/ HandleList
    <2>1. down # <<>> /\ down' = Tail(down)
      BY <1>17 DEF BootMouseMode, HandleNotify, HandleList, Got, Consume
    <2> QED BY <1>4, <1>17, <2>1
            DEF BootMouseMode, HandleNotify, HandleList, Consume, serverVars, DownFrame
  <1>18. CASE RunMouseMode
    <2>1. down # <<>> /\ down' = Tail(down) /\ reported' \in Modes \cup {"none"}
      BY <1>4, <1>18 DEF RunMouseMode, Got, Consume, DownFrame
    <2> QED BY <1>4, <1>18, <2>1 DEF RunMouseMode, Consume, serverVars, DownFrame
  <1>19. CASE UNCHANGED vars
    BY <1>19 DEF vars, clientVars, serverVars
  <1> QED BY <1>6, <1>7, <1>8, <1>9, <1>10, <1>11, <1>12, <1>13, <1>14, <1>15, <1>16,
             <1>17, <1>18, <1>19 DEF Next, ServerStep, ClientStep

\* Ranks are numbers.
LEMMA RankFacts ==
    /\ \A op : Rank(op) \in 0 .. 3
    /\ SentRank \in 0 .. 3
  BY DEF Rank, SentRank

\* A frame of the bootstrap is sent behind those before it.
LEMMA SendKeepsParts ==
    ASSUME BootTyped, PartsInOrder, NEW f \in DownFrame, down' = Append(down, f),
           phase' = phase, SentRank <= SentRank', SentRank' \in 0 .. 3,
           \/ Rank(f.op) = 0
           \/ Rank(f.op) > SentRank /\ Rank(f.op) <= SentRank' /\ phase \notin {"connect", "run"}
    PROVE  PartsInOrder'
  <1> DEFINE k == Len(down) + 1
  <1>1. /\ DOMAIN down' = DOMAIN down \cup {k} /\ down'[k] = f /\ k \in Nat
        /\ \A i \in DOMAIN down : i \in Nat /\ i < k /\ down'[i] = down[i]
    BY AppendFacts DEF BootTyped, DownFrame
  <1> HIDE DEF k
  <1>2. /\ \A op : Rank(op) \in 0 .. 3
        /\ SentRank \in 0 .. 3
    BY RankFacts
  <1>3. ASSUME NEW i \in DOMAIN down', NEW j \in DOMAIN down', i < j, Rank(down'[j].op) > 0
        PROVE  Rank(down'[i].op) < Rank(down'[j].op)
    <2>1. i \in DOMAIN down
      BY <1>1, <1>3
    <2>2. CASE j \in DOMAIN down
      BY <1>1, <1>3, <2>1, <2>2 DEF PartsInOrder
    <2>3. CASE j = k
      <3>1. Rank(down[i].op) <= SentRank /\ Rank(f.op) > 0
        BY <1>1, <1>3, <2>1, <2>3 DEF PartsInOrder
      <3> QED BY <1>1, <1>2, <2>1, <2>3, <3>1
    <2> QED BY <1>1, <2>2, <2>3
  <1>4. ASSUME NEW i \in DOMAIN down' PROVE Rank(down'[i].op) <= SentRank'
    BY <1>1, <1>2 DEF PartsInOrder
  <1>5. ASSUME phase' \in {"connect", "run"}, NEW i \in DOMAIN down'
        PROVE  Rank(down'[i].op) = 0
    BY <1>1, <1>5 DEF PartsInOrder
  <1> QED BY <1>3, <1>4, <1>5 DEF PartsInOrder

\* What is read comes before the rest; the list comes last.
LEMMA ReadKeepsParts ==
    ASSUME BootTyped, PartsInOrder, down # <<>>, down' = Tail(down), SentRank' = SentRank,
           phase' \in {"connect", "run"} =>
                phase \in {"connect", "run"} \/ Head(down).op = "list"
    PROVE  PartsInOrder'
  <1>1. /\ Head(down) = down[1] /\ 1 \in DOMAIN down
        /\ \A i \in DOMAIN down' : i \in Nat /\ i > 0 /\ i + 1 \in DOMAIN down
                                   /\ down'[i] = down[i + 1]
    BY TakeFacts DEF BootTyped
  <1>2. ASSUME NEW i \in DOMAIN down', NEW j \in DOMAIN down', i < j, Rank(down'[j].op) > 0
        PROVE  Rank(down'[i].op) < Rank(down'[j].op)
    <2>1. i + 1 \in DOMAIN down /\ j + 1 \in DOMAIN down /\ i + 1 < j + 1
      BY <1>1, <1>2
    <2> QED BY <1>1, <1>2, <2>1 DEF PartsInOrder
  <1>3. ASSUME NEW i \in DOMAIN down' PROVE Rank(down'[i].op) <= SentRank'
    BY <1>1 DEF PartsInOrder
  <1>4. ASSUME phase' \in {"connect", "run"}, NEW i \in DOMAIN down'
        PROVE  Rank(down'[i].op) = 0
    <2>1. CASE phase \in {"connect", "run"}
      BY <1>1, <2>1 DEF PartsInOrder
    <2>2. CASE Head(down).op = "list"
      <3>1. 1 < i + 1 /\ i + 1 \in DOMAIN down /\ down'[i] = down[i + 1] /\ Rank(down[1].op) = 3
        BY <1>1, <2>2 DEF Rank, Inits
      <3>2. Rank(down[i + 1].op) > 0 => 3 < Rank(down[i + 1].op)
        BY <1>1, <3>1 DEF PartsInOrder
      <3>3. Rank(down[i + 1].op) \in 0 .. 3
        BY RankFacts
      <3> QED BY <3>1, <3>2, <3>3
    <2> QED BY <1>4, <2>1, <2>2
  <1> QED BY <1>2, <1>3, <1>4 DEF PartsInOrder

\* The server's part of the bootstrap stays in order.
LEMMA PartsStep == BootInv /\ BootTyped' /\ [Next]_vars => PartsInOrder'
  <1> SUFFICES ASSUME BootTyped, PartsInOrder, ListComesLast, BootTyped', [Next]_vars
               PROVE  PartsInOrder'
    BY DEF BootInv
  <1>1. \A op \in DownOps, m \in Modes \cup {"none"} : Frame(op, m) \in DownFrame
    BY DEF Frame, DownFrame
  <1>2. CASE SendSetAck
    <2>1. /\ down' = Append(down, Frame("set_ack", "none")) /\ phase' = phase
          /\ SentRank = 0 /\ SentRank' = 1 /\ phase \notin {"connect", "run"}
      BY <1>2 DEF SendSetAck, Send, Plain, SentRank, clientVars, ListComesLast
    <2>2. Rank(Frame("set_ack", "none").op) = 1
      BY DEF Rank, Frame
    <2>3. Frame("set_ack", "none") \in DownFrame
      BY <1>1 DEF DownOps
    <2> QED BY <2>1, <2>2, <2>3, SendKeepsParts
  <1>3. CASE SendInit
    <2>1. PICK op \in Inits : down' = Append(down, Frame(op, mode))
      BY <1>3 DEF SendInit, Send, Inits
    <2>2. phase' = phase /\ SentRank = 1 /\ SentRank' = 2 /\ phase \notin {"connect", "run"}
      BY <1>3 DEF SendInit, SentRank, clientVars, ListComesLast
    <2>3. Rank(Frame(op, mode).op) = 2
      BY DEF Rank, Frame, Inits
    <2>4. Frame(op, mode) \in DownFrame
      BY <1>1 DEF DownOps, BootTyped
    <2> QED BY <2>1, <2>2, <2>3, <2>4, SendKeepsParts
  <1>4. CASE SendList
    <2>1. /\ down' = Append(down, Frame("list", "none")) /\ phase' = phase
          /\ SentRank = 2 /\ SentRank' = 3 /\ phase \notin {"connect", "run"}
      BY <1>4 DEF SendList, Send, Plain, SentRank, clientVars, ListComesLast
    <2>2. Rank(Frame("list", "none").op) = 3
      BY DEF Rank, Frame, Inits
    <2>3. Frame("list", "none") \in DownFrame
      BY <1>1 DEF DownOps
    <2> QED BY <2>1, <2>2, <2>3, SendKeepsParts
  <1>5. ASSUME NEW op \in {"mouse_mode", "ping", "notify"}, NEW m \in Modes \cup {"none"},
               down' = Append(down, Frame(op, m)), phase' = phase, stage' = stage
        PROVE  PartsInOrder'
    <2>1. Rank(Frame(op, m).op) = 0 /\ SentRank' = SentRank
      BY <1>5 DEF Rank, Frame, Inits, SentRank
    <2>2. Frame(op, m) \in DownFrame
      BY <1>1 DEF DownOps
    <2> QED BY <1>5, <2>1, <2>2, RankFacts, SendKeepsParts
  <1>6. ASSUME down' = down, SentRank <= SentRank',
               phase' \in {"connect", "run"} => phase \in {"connect", "run"}
        PROVE  PartsInOrder'
    <2>1. SentRank' \in 0 .. 3
      BY DEF SentRank
    <2> QED BY <1>6, <2>1, RankFacts DEF PartsInOrder
  <1>7. CASE ServerChangesMode
    BY <1>5, <1>7 DEF ServerChangesMode, Send, clientVars, BootTyped
  <1>8. CASE ServerPings
    BY <1>5, <1>8 DEF ServerPings, Send, Plain, clientVars
  <1>9. CASE ServerRecv
    <2>1. SentRank' = SentRank
      BY <1>9 DEF ServerRecv, SentRank
    <2> QED BY <1>6, <1>9, <2>1, RankFacts DEF ServerRecv, clientVars
  <1>10. CASE ServerGrants
    <2>1. down' = down \/ down' = Append(down, Frame("mouse_mode", "client"))
      BY <1>10, Zenon DEF ServerGrants
    <2>2. phase' = phase /\ stage' = stage /\ SentRank' = SentRank
      BY <1>10 DEF ServerGrants, clientVars, SentRank
    <2> QED BY <1>5, <1>6, <2>1, <2>2, RankFacts DEF Modes
  <1>11. CASE ServerGone
    <2>1. SentRank' = 3
      BY <1>11 DEF ServerGone, SentRank
    <2> QED BY <1>6, <1>11, <2>1, RankFacts DEF ServerGone, clientVars
  <1>12. CASE WriteNext \/ SubChannelsLinked \/ ClientFails \/ UNCHANGED vars
    <2>1. SentRank' = SentRank
      BY <1>12 DEF WriteNext, SubChannelsLinked, ClientFails, vars, serverVars, SentRank
    <2> QED BY <1>6, <1>12, <2>1, RankFacts
            DEF WriteNext, SubChannelsLinked, ClientFails, vars, clientVars, serverVars
  <1>13. CASE \/ HandleControl \/ HandleInit \/ BootMouseMode \/ HandleList \/ RunMouseMode
              \/ HandleNotify
    <2>1. down # <<>> /\ down' = Tail(down) /\ stage' = stage
      BY <1>13 DEF HandleControl, HandleInit, BootMouseMode, HandleList, RunMouseMode,
                   HandleNotify, Got, Consume, serverVars
    <2>2. SentRank' = SentRank
      BY <2>1 DEF SentRank
    <2>3. phase' = phase \/ Head(down).op = "list"
      BY <1>13 DEF HandleControl, HandleInit, BootMouseMode, HandleList, RunMouseMode,
                   HandleNotify, Got
    <2> QED BY <2>1, <2>2, <2>3, ReadKeepsParts
  <1> QED BY <1>2, <1>3, <1>4, <1>7, <1>8, <1>9, <1>10, <1>11, <1>12, <1>13
          DEF Next, ServerStep, ClientStep

\* Only INIT puts an INIT on its way, and reading takes away what is read.
LEMMA InitOnWayStep ==
    ASSUME BootTyped, PartsInOrder, [Next]_vars
    PROVE  /\ InitOnWay' => InitOnWay \/ SendInit
           /\ HandleInit => InitOnWay /\ ~InitOnWay'
  <1>1. ASSUME NEW f \in DownFrame, f.op \notin Inits, down' = Append(down, f)
        PROVE  InitOnWay' => InitOnWay
    <2>1. /\ DOMAIN down' = DOMAIN down \cup {Len(down) + 1} /\ down'[Len(down) + 1] = f
          /\ \A i \in DOMAIN down : down'[i] = down[i]
      BY <1>1, AppendFacts DEF BootTyped, DownFrame
    <2> QED BY <1>1, <2>1 DEF InitOnWay
  <1>2. ASSUME down # <<>>, down' = Tail(down)
        PROVE  InitOnWay' => InitOnWay
    <2>1. \A i \in DOMAIN down' : i + 1 \in DOMAIN down /\ down'[i] = down[i + 1]
      BY <1>2, TakeFacts DEF BootTyped
    <2> QED BY <2>1 DEF InitOnWay
  <1>3. \A op \in DownOps, m \in Modes \cup {"none"} :
            Frame(op, m) \in DownFrame /\ Frame(op, m).op = op
    BY DEF Frame, DownFrame
  <1>4. CASE SendSetAck
    BY <1>1, <1>3, <1>4 DEF SendSetAck, Send, Plain, DownOps, Inits, HandleInit, Consume, serverVars
  <1>5. CASE SendList
    BY <1>1, <1>3, <1>5 DEF SendList, Send, Plain, DownOps, Inits, HandleInit, Consume, serverVars
  <1>6. CASE ServerChangesMode
    <2>1. mode' \in Modes
      BY <1>6 DEF ServerChangesMode, Modes
    <2>2. changes' # changes
      BY <1>6, BootstrapAssumption DEF ServerChangesMode, BootTyped
    <2> QED BY <1>1, <1>3, <1>6, <2>1, <2>2
            DEF ServerChangesMode, Send, DownOps, Inits, HandleInit, Consume, serverVars
  <1>7. CASE ServerPings
    <2>1. pings' # pings
      BY <1>7, BootstrapAssumption DEF ServerPings, BootTyped
    <2> QED BY <1>1, <1>3, <1>7, <2>1
            DEF ServerPings, Send, Plain, DownOps, Inits, HandleInit, Consume, serverVars
  <1>8. CASE ServerGrants
    <2>1. down' = down \/ down' = Append(down, Frame("mouse_mode", "client"))
      BY <1>8, Zenon DEF ServerGrants
    <2>2. InitOnWay' => InitOnWay
      BY <1>1, <1>3, <2>1 DEF DownOps, Modes, Inits, InitOnWay
    <2>3. up' # up
      <3>1. Len(up') = Len(up) - 1 /\ Len(up) \in Nat
        BY <1>8, TakeFacts DEF ServerGrants, BootTyped
      <3> QED BY <3>1
    <2> QED BY <2>2, <2>3 DEF HandleInit, Consume
  <1>9. CASE HandleInit
    <2>1. /\ down # <<>> /\ Head(down).op \in Inits /\ down' = Tail(down)
      BY <1>9 DEF HandleInit, Got, Consume, Inits
    <2>2. /\ Head(down) = down[1] /\ 1 \in DOMAIN down
          /\ \A i \in DOMAIN down' : i \in Nat /\ i > 0 /\ i + 1 \in DOMAIN down
                                     /\ down'[i] = down[i + 1]
      BY <2>1, TakeFacts DEF BootTyped
    <2>3. InitOnWay
      BY <2>1, <2>2 DEF InitOnWay
    <2>4. ASSUME NEW i \in DOMAIN down' PROVE down'[i].op \notin Inits
      <3>1. 1 < i + 1 /\ i + 1 \in DOMAIN down /\ down'[i] = down[i + 1]
        BY <2>2
      <3>2. Rank(down[1].op) = 2
        BY <2>1, <2>2 DEF Rank, Inits
      <3>3. Rank(down[i + 1].op) > 0 => 2 < Rank(down[i + 1].op)
        BY <2>2, <3>1, <3>2 DEF PartsInOrder
      <3>4. down[i + 1].op \in Inits => Rank(down[i + 1].op) = 2
        BY DEF Rank, Inits
      <3> QED BY <3>1, <3>3, <3>4
    <2> QED BY <2>3, <2>4 DEF InitOnWay
  <1>10. CASE HandleControl \/ BootMouseMode \/ HandleList \/ RunMouseMode \/ HandleNotify
    <2>1. down # <<>> /\ down' = Tail(down)
      BY <1>10 DEF HandleControl, BootMouseMode, HandleList, RunMouseMode, HandleNotify,
                   Got, Consume
    <2> QED BY <1>2, <1>9, <2>1
  <1>11. CASE \/ ServerRecv \/ ServerGone \/ WriteNext \/ SubChannelsLinked \/ ClientFails
              \/ UNCHANGED vars
    <2>1. down' = down
      BY <1>11 DEF ServerRecv, ServerGone, WriteNext, SubChannelsLinked, ClientFails,
                   vars, clientVars, serverVars
    <2> QED BY <1>9, <2>1 DEF InitOnWay
  <1>12. CASE SendInit
    BY <1>9, <1>12
  <1> QED BY <1>4, <1>5, <1>6, <1>7, <1>8, <1>9, <1>10, <1>11, <1>12
          DEF Next, ServerStep, ClientStep

\* What the client is to write changes when it writes, and when it reads.
LEMMA OutStep ==
    ASSUME BootTyped, [Next]_vars
    PROVE  \/ WriteNext
           \/ HandleControl /\ out' \in {<<"ack_sync">>, <<"pong">>}
           \/ HandleInit /\ AskDue'
           \/ out' = out
  <1>1. CASE HandleControl
    BY <1>1 DEF HandleControl
  <1>2. CASE HandleInit
    <2>1. \/ out' = <<"mouse_mode_request">> \o <<"attach">>
          \/ out' = <<>> \o <<"attach">>
      BY <1>2, Zenon DEF HandleInit
    <2>2. <<"mouse_mode_request">> \o <<"attach">> = <<"mouse_mode_request", "attach">>
      BY PairConcat
    <2>3. <<>> \o <<"attach">> = <<"attach">>
      OBVIOUS
    <2> QED BY <1>2, <2>1, <2>2, <2>3 DEF AskDue
  <1>3. CASE ~WriteNext /\ ~HandleControl /\ ~HandleInit
    BY <1>3 DEF Next, ServerStep, ClientStep, SendSetAck, SendInit, ServerRecv, SendList,
           ServerGrants, ServerChangesMode, ServerPings, ServerGone, BootMouseMode,
           HandleList, RunMouseMode, HandleNotify, SubChannelsLinked, ClientFails,
           clientVars, vars
  <1> QED BY <1>1, <1>2, <1>3

\* The way to the server changes when the client writes and the server reads.
LEMMA UpStep ==
    ASSUME BootTyped, [Next]_vars
    PROVE  \/ WriteNext \/ ServerRecv \/ ServerGrants
           \/ up' = up
  BY DEF Next, ServerStep, ClientStep, SendSetAck, SendInit, SendList, ServerChangesMode,
         ServerPings, ServerGone, HandleControl, HandleInit, BootMouseMode, HandleList,
         RunMouseMode, HandleNotify, SubChannelsLinked, ClientFails, Consume, vars

\* What the server takes away leaves the rest in place.
LEMMA UpTakenFacts ==
    ASSUME BootTyped, ServerRecv \/ ServerGrants
    PROVE  /\ 1 \in DOMAIN up /\ Head(up) = up[1] /\ out' = out
           /\ \A i \in DOMAIN up' : i \in Nat /\ i > 0 /\ i + 1 \in DOMAIN up /\ up'[i] = up[i + 1]
           /\ AskOnWay' => AskOnWay
  <1>1. up # <<>> /\ up' = Tail(up) /\ out' = out
    BY DEF ServerRecv, ServerGrants, clientVars
  <1>2. /\ 1 \in DOMAIN up /\ Head(up) = up[1]
        /\ \A i \in DOMAIN up' : i \in Nat /\ i > 0 /\ i + 1 \in DOMAIN up /\ up'[i] = up[i + 1]
    BY <1>1, TakeFacts DEF BootTyped
  <1>3. AskOnWay' => AskOnWay
    BY <1>2 DEF AskOnWay
  <1> QED BY <1>1, <1>2, <1>3

\* What the client writes goes behind the rest.
LEMMA UpWrittenFacts ==
    ASSUME BootTyped, WriteNext
    PROVE  LET k == Len(up) + 1 IN
           /\ k \in Nat /\ DOMAIN up' = DOMAIN up \cup {k} /\ up'[k].op = Head(out)
           /\ \A i \in DOMAIN up : i \in Nat /\ i < k /\ up'[i] = up[i]
           /\ out # <<>> /\ out' = Tail(out)
           /\ UNCHANGED <<down, stage, phase, init, full, mode, missed, reported>>
  <1>1. /\ out # <<>> /\ out' = Tail(out) /\ up' = Append(up, Plain(Head(out)))
        /\ UNCHANGED <<down, stage, phase, init, full, mode, missed, reported>>
    BY DEF WriteNext, serverVars
  <1>2. Plain(Head(out)) \in UpFrame /\ Plain(Head(out)).op = Head(out)
    BY <1>1, OutFacts DEF BootTyped, Plain, Frame, UpFrame
  <1>3. up \in Seq(UpFrame)
    BY DEF BootTyped, UpFrame
  <1> QED BY <1>1, <1>2, <1>3, AppendFacts

\* The client asks once, and then attaches.
LEMMA AsksStep == BootInv /\ BootTyped' /\ [Next]_vars => AsksInOrder'
  <1> SUFFICES ASSUME BootTyped, PartsInOrder, AsksInOrder, ListComesLast, [Next]_vars
               PROVE  AsksInOrder'
    BY DEF BootInv
  <1>1. /\ InitOnWay' => InitOnWay \/ SendInit
        /\ HandleInit => InitOnWay /\ ~InitOnWay'
    BY InitOnWayStep
  <1>2. SendInit => ~AskOnWay /\ ~AskDue
    BY DEF SendInit, ListComesLast
  <1>3. CASE WriteNext
    <2> DEFINE k == Len(up) + 1
    <2>1. /\ k \in Nat /\ DOMAIN up' = DOMAIN up \cup {k} /\ up'[k].op = Head(out)
          /\ \A i \in DOMAIN up : i \in Nat /\ i < k /\ up'[i] = up[i]
          /\ out # <<>> /\ out' = Tail(out) /\ down' = down
      BY <1>3, UpWrittenFacts
    <2> HIDE DEF k
    <2>2. InitOnWay' = InitOnWay
      BY <2>1 DEF InitOnWay
    <2>3. CASE out \in {<<"ack_sync">>, <<"pong">>}
      <3>1. Head(out) \in {"ack_sync", "pong"} /\ out' = <<>>
        BY <2>1, <2>3, OutFacts DEF Outs
      <3>2. up'[k].op \notin Asks /\ ~AskDue'
        BY <2>1, <3>1, OutsDiffer DEF Asks, AskDue
      <3>3. AskOnWay' => AskOnWay
        BY <2>1, <3>2 DEF AskOnWay
      <3>4. \A i, j \in DOMAIN up' : i < j /\ up'[i].op \in Asks /\ up'[j].op \in Asks =>
                up'[i].op = "mouse_mode_request" /\ up'[j].op = "attach"
        BY <2>1, <3>2 DEF AsksInOrder
      <3> QED BY <2>2, <3>2, <3>3, <3>4 DEF AsksInOrder, AskDue
    <2>4. CASE out = <<"attach">>
      <3>1. up'[k].op = "attach" /\ out' = <<>>
        BY <2>1, <2>4
      <3>2. ~AskDue' /\ ~InitOnWay'
        BY <2>2, <2>4, <3>1, OutsDiffer DEF AskDue, AsksInOrder
      <3>3. \A i, j \in DOMAIN up' : i < j /\ up'[i].op \in Asks /\ up'[j].op \in Asks =>
                up'[i].op = "mouse_mode_request" /\ up'[j].op = "attach"
        <4> SUFFICES ASSUME NEW i \in DOMAIN up', NEW j \in DOMAIN up', i < j,
                            up'[i].op \in Asks, up'[j].op \in Asks
                     PROVE  up'[i].op = "mouse_mode_request" /\ up'[j].op = "attach"
          OBVIOUS
        <4>1. CASE j = k
          <5>1. i \in DOMAIN up /\ up'[i] = up[i]
            BY <2>1, <4>1
          <5>2. up[i].op # "attach"
            BY <2>4, <5>1 DEF AsksInOrder
          <5> QED BY <3>1, <4>1, <5>1, <5>2 DEF Asks
        <4>2. CASE j # k
          <5>1. j \in DOMAIN up /\ i \in DOMAIN up
            BY <2>1, <4>2
          <5> QED BY <2>1, <5>1 DEF AsksInOrder
        <4> QED BY <4>1, <4>2
      <3> QED BY <3>2, <3>3 DEF AsksInOrder, AskDue
    <2>5. CASE out = <<"mouse_mode_request", "attach">>
      <3>1. up'[k].op = "mouse_mode_request" /\ out' = <<"attach">>
        BY <2>1, <2>5, OutFacts DEF BootTyped
      <3>2. ~InitOnWay' /\ \A i \in DOMAIN up : up'[i].op \notin Asks
        BY <2>1, <2>2, <2>5 DEF AskDue, AsksInOrder, AskOnWay
      <3>3. \A i \in DOMAIN up' : up'[i].op # "attach"
        BY <2>1, <3>1, <3>2 DEF Asks
      <3>4. \A i, j \in DOMAIN up' : i < j => up'[i].op \notin Asks \/ up'[j].op \notin Asks
        BY <2>1, <3>2
      <3> QED BY <3>1, <3>2, <3>3, <3>4, OutsDiffer DEF AsksInOrder
    <2> QED BY <2>1, <2>3, <2>4, <2>5 DEF BootTyped, Outs
  <1>4. CASE ServerRecv \/ ServerGrants
    <2>1. /\ out' = out /\ (AskOnWay' => AskOnWay)
          /\ \A i \in DOMAIN up' : i \in Nat /\ i + 1 \in DOMAIN up /\ up'[i] = up[i + 1]
      BY <1>4, UpTakenFacts
    <2>2. AskDue' = AskDue
      BY <2>1 DEF AskDue
    <2>3. \A i, j \in DOMAIN up' : i < j /\ up'[i].op \in Asks /\ up'[j].op \in Asks =>
                up'[i].op = "mouse_mode_request" /\ up'[j].op = "attach"
      <3> SUFFICES ASSUME NEW i \in DOMAIN up', NEW j \in DOMAIN up', i < j,
                          up'[i].op \in Asks, up'[j].op \in Asks
                   PROVE  up'[i].op = "mouse_mode_request" /\ up'[j].op = "attach"
        OBVIOUS
      <3>1. i + 1 < j + 1
        BY <2>1
      <3> QED BY <2>1, <3>1 DEF AsksInOrder
    <2>4. \A i \in DOMAIN up' : up'[i].op = "attach" => \E j \in DOMAIN up : up[j].op = "attach"
      BY <2>1
    <2> QED BY <1>1, <1>2, <2>1, <2>2, <2>3, <2>4 DEF AsksInOrder
  <1>5. CASE up' = up /\ ~WriteNext
    <2>1. AskOnWay' = AskOnWay
      BY <1>5 DEF AskOnWay
    <2>2. CASE HandleInit
      <3>1. ~AskOnWay /\ ~InitOnWay'
        BY <1>1, <2>2 DEF AsksInOrder
      <3> QED BY <1>5, <2>1, <3>1 DEF AsksInOrder, AskOnWay, Asks
    <2>3. CASE out' = out
      <3>1. AskDue' = AskDue
        BY <2>3 DEF AskDue
      <3> QED BY <1>1, <1>2, <1>5, <2>1, <2>3, <3>1 DEF AsksInOrder
    <2>4. CASE out' \in {<<"ack_sync">>, <<"pong">>}
      <3>1. ~AskDue'
        BY <2>4, OutsDiffer DEF AskDue
      <3> QED BY <1>1, <1>2, <1>5, <2>1, <3>1 DEF AsksInOrder, AskDue
    <2> QED BY <1>5, <2>2, <2>3, <2>4, OutStep
  <1> QED BY <1>3, <1>4, <1>5, UpStep

\* The list is sent, and read, when nothing of the bootstrap is on its way.
LEMMA ListStep == BootInv /\ BootTyped' /\ PartsInOrder' /\ [Next]_vars => ListComesLast'
  <1> SUFFICES ASSUME BootTyped, PartsInOrder, PartsInOrder', AsksInOrder, ListComesLast,
                      [Next]_vars
               PROVE  ListComesLast'
    BY DEF BootInv
  <1> DEFINE Asking == InitOnWay \/ AskOnWay \/ AskDue
             NoList == \A i \in DOMAIN down : down[i].op # "list"
  <1>1. /\ InitOnWay' => InitOnWay \/ SendInit
        /\ HandleInit => InitOnWay /\ ~InitOnWay'
    BY InitOnWayStep
  <1>2. SentRank <= 2 => NoList
    <2>1. \A i \in DOMAIN down : down[i].op = "list" => Rank(down[i].op) = 3
      BY DEF Rank, Inits
    <2> QED BY <2>1, RankFacts DEF PartsInOrder
  <1>3. Asking' => Asking \/ SendInit
    <2>1. CASE WriteNext
      <3> DEFINE k == Len(up) + 1
      <3>1. /\ DOMAIN up' = DOMAIN up \cup {k} /\ up'[k].op = Head(out)
            /\ \A i \in DOMAIN up : up'[i] = up[i]
            /\ out # <<>> /\ out' = Tail(out)
        BY <2>1, UpWrittenFacts
      <3> HIDE DEF k
      <3>2. CASE ~AskDue
        <4>1. out \in {<<"ack_sync">>, <<"pong">>}
          BY <3>1, <3>2 DEF AskDue, BootTyped, Outs
        <4>2. Head(out) \notin Asks /\ out' = <<>>
          BY <3>1, <4>1 DEF Asks
        <4>3. (AskOnWay' => AskOnWay) /\ ~AskDue'
          BY <3>1, <4>2, OutsDiffer DEF AskOnWay, AskDue
        <4> QED BY <1>1, <4>3
      <3> QED BY <3>2
    <2>2. CASE ServerRecv \/ ServerGrants
      <3>1. (AskOnWay' => AskOnWay) /\ out' = out
        BY <2>2, UpTakenFacts
      <3> QED BY <1>1, <3>1 DEF AskDue
    <2>3. CASE up' = up /\ ~WriteNext
      <3>1. AskOnWay' = AskOnWay
        BY <2>3 DEF AskOnWay
      <3>2. AskDue' => AskDue \/ HandleInit
        BY <2>3, OutStep, OutsDiffer DEF AskDue
      <3> QED BY <1>1, <3>1, <3>2
    <2> QED BY <2>1, <2>2, <2>3, UpStep
  <1>4. ASSUME stage' = stage \/ stage' = "gone",
               phase' = phase \/ phase' = "failed" \/ (phase = "connect" /\ phase' = "run"),
               phase' \in {"connect", "run"} => init' = init,
               NoList => NoList', ~SendInit
        PROVE  ListComesLast'
    BY <1>3, <1>4 DEF ListComesLast
  <1>5. ASSUME down # <<>>, down' = Tail(down) PROVE NoList => NoList'
    <2>1. \A i \in DOMAIN down' : i + 1 \in DOMAIN down /\ down'[i] = down[i + 1]
      BY <1>5, TakeFacts DEF BootTyped
    <2> QED BY <2>1
  <1>6. ASSUME NEW op \in DownOps, op # "list", NEW m \in Modes \cup {"none"},
               down' = Append(down, Frame(op, m))
        PROVE  NoList => NoList'
    <2>1. Frame(op, m) \in DownFrame /\ Frame(op, m).op # "list"
      BY <1>6 DEF Frame, DownFrame
    <2>2. /\ DOMAIN down' = DOMAIN down \cup {Len(down) + 1}
          /\ down'[Len(down) + 1] = Frame(op, m)
          /\ \A i \in DOMAIN down : down'[i] = down[i]
      BY <1>6, <2>1, AppendFacts DEF BootTyped, DownFrame
    <2> QED BY <2>1, <2>2
  <1>7. CASE SendSetAck
    <2>1. SentRank' <= 2
      BY <1>7 DEF SendSetAck, SentRank
    <2>2. NoList'
      <3>1. \A i \in DOMAIN down' : down'[i].op = "list" => Rank(down'[i].op) = 3
        BY DEF Rank, Inits
      <3> QED BY <2>1, <3>1, RankFacts DEF PartsInOrder, SentRank
    <2>3. stage = "set_ack" /\ stage' = "init" /\ UNCHANGED <<phase, init, up, out>>
      BY <1>7 DEF SendSetAck, clientVars
    <2>4. ~InitOnWay'
      <3>1. SentRank' = 1
        BY <2>3 DEF SentRank
      <3>2. \A i \in DOMAIN down' : down'[i].op \in Inits => Rank(down'[i].op) = 2
        BY DEF Rank, Inits
      <3> QED BY <3>1, <3>2, RankFacts DEF PartsInOrder, InitOnWay
    <2>5. ~AskOnWay' /\ ~AskDue'
      BY <2>3 DEF ListComesLast, AskOnWay, AskDue
    <2> QED BY <2>2, <2>3, <2>4, <2>5 DEF ListComesLast
  <1>8. CASE SendInit
    <2>1. stage = "init" /\ stage' = "loop" /\ UNCHANGED <<phase, init>>
      BY <1>8 DEF SendInit, clientVars
    <2>2. SentRank' = 2
      BY <2>1 DEF SentRank
    <2>3. NoList'
      <3>1. \A i \in DOMAIN down' : down'[i].op = "list" => Rank(down'[i].op) = 3
        BY DEF Rank, Inits
      <3> QED BY <2>2, <3>1 DEF PartsInOrder
    <2> QED BY <2>1, <2>3 DEF ListComesLast
  <1>9. CASE SendList
    <2>1. stage = "list" /\ stage' = "idle" /\ UNCHANGED <<phase, init>> /\ ~SendInit
      BY <1>9 DEF SendList, clientVars, SendInit
    <2>2. ~Asking /\ ~Asking'
      BY <1>3, <2>1 DEF ListComesLast
    <2> QED BY <2>1, <2>2 DEF ListComesLast
  <1>10. CASE ServerRecv
    <2>1. /\ UNCHANGED <<phase, init, out, down>> /\ ~SendInit
          /\ stage' = stage \/ (stage = "loop" /\ stage' = "list" /\ EndsLoop(Head(up).op))
      <3>1. /\ UNCHANGED <<phase, init, out, down>> /\ up' = Tail(up) /\ up # <<>>
            /\ stage' = stage \/ (stage = "loop" /\ stage' = "list" /\ EndsLoop(Head(up).op))
        BY <1>10 DEF ServerRecv, clientVars
      <3>2. up' # up
        <4>1. Len(up') = Len(up) - 1 /\ Len(up) \in Nat
          BY <3>1, TakeFacts DEF BootTyped
        <4> QED BY <4>1
      <3> QED BY <3>1, <3>2 DEF SendInit
    <2>2. CASE stage' = stage
      BY <1>4, <2>1, <2>2
    <2>3. CASE stage = "loop" /\ stage' = "list" /\ EndsLoop(Head(up).op)
      <3>1. /\ 1 \in DOMAIN up /\ Head(up) = up[1]
            /\ \A i \in DOMAIN up' : i \in Nat /\ i > 0 /\ i + 1 \in DOMAIN up
                                     /\ up'[i] = up[i + 1]
        BY <1>10, UpTakenFacts
      <3>2. up[1].op = "attach"
        <4>1. up[1].op \in UpOps
          <5>1. up \in Seq(UpFrame)
            BY DEF BootTyped, UpFrame
          <5>2. up[1] \in UpFrame
            BY ONLY <3>1, <5>1, Positions
          <5> QED BY <5>2 DEF UpFrame
        <4> QED BY <2>3, <3>1, <4>1 DEF EndsLoop, UpOps, Asks
      <3>3. AskOnWay /\ ~InitOnWay /\ ~AskDue
        BY <3>1, <3>2 DEF AskOnWay, Asks, AsksInOrder, AskDue
      <3>4. ~AskOnWay'
        <4> SUFFICES ASSUME NEW i \in DOMAIN up', up'[i].op \in Asks PROVE FALSE
          BY DEF AskOnWay
        <4>1. 1 < i + 1 /\ i + 1 \in DOMAIN up /\ up[i + 1].op \in Asks
          BY <3>1
        <4>2. up[1].op = "mouse_mode_request"
          BY <3>1, <3>2, <4>1 DEF AsksInOrder, Asks
        <4> QED BY <3>2, <4>2
      <3>5. ~InitOnWay' /\ ~AskDue'
        BY <1>1, <2>1, <3>3 DEF AskDue
      <3> QED BY <2>1, <2>3, <3>4, <3>5 DEF ListComesLast
    <2> QED BY <2>1, <2>2, <2>3
  <1>11. CASE ServerGrants
    <2>1. down' = down \/ down' = Append(down, Frame("mouse_mode", "client"))
      BY <1>11, Zenon DEF ServerGrants
    <2>2. NoList => NoList'
      BY <1>6, <2>1 DEF DownOps, Modes
    <2>3. UNCHANGED <<phase, init, stage>> /\ ~SendInit
      BY <1>11 DEF ServerGrants, clientVars, SendInit
    <2> QED BY ONLY <1>4, <2>2, <2>3
  <1>12. CASE ServerChangesMode
    <2>1. mode' \in Modes /\ UNCHANGED <<phase, init, stage>>
      BY <1>12 DEF ServerChangesMode, Modes, clientVars
    <2>2. NoList => NoList'
      BY <1>6, <1>12, <2>1 DEF ServerChangesMode, Send, DownOps
    <2>3. ~SendInit
      BY <1>12 DEF ServerChangesMode, SendInit
    <2> QED BY ONLY <1>4, <2>1, <2>2, <2>3
  <1>13. CASE ServerPings
    <2>1. UNCHANGED <<phase, init, stage>>
      BY <1>13 DEF ServerPings, clientVars
    <2>2. NoList => NoList'
      BY <1>6, <1>13 DEF ServerPings, Send, Plain, DownOps
    <2>3. ~SendInit
      BY <1>13, <2>1 DEF SendInit
    <2> QED BY ONLY <1>4, <2>1, <2>2, <2>3
  <1>14. CASE ServerGone
    BY <1>4, <1>14 DEF ServerGone, clientVars, SendInit
  <1>15. CASE SubChannelsLinked \/ ClientFails \/ WriteNext \/ UNCHANGED vars
    <2>1. /\ phase' = phase \/ phase' = "failed" \/ (phase = "connect" /\ phase' = "run")
          /\ UNCHANGED <<init, stage, down>>
      BY <1>15 DEF SubChannelsLinked, ClientFails, WriteNext, vars, clientVars, serverVars
    <2>2. ~SendInit
      BY <2>1 DEF SendInit
    <2> QED BY <1>4, <2>1, <2>2
  <1>16. CASE HandleList
    <2>1. /\ down # <<>> /\ down' = Tail(down) /\ Head(down).op = "list" /\ stage' = stage
          /\ phase' \in {"failed", "connect"} /\ (phase' = "connect" => init # "none")
          /\ init' = init
      BY <1>16 DEF HandleList, Got, Consume, serverVars
    <2>2. ~NoList
      <3>1. 1 \in DOMAIN down /\ Head(down) = down[1]
        BY <2>1, TakeFacts DEF BootTyped
      <3> QED BY <2>1, <3>1
    <2>3. ~SendInit
      BY <2>1 DEF SendInit
    <2>4. ~Asking'
      BY <1>3, <2>2, <2>3 DEF ListComesLast
    <2>5. stage \notin {"set_ack", "init", "loop", "list"}
      BY <1>2, <2>2 DEF SentRank
    <2> QED BY <2>1, <2>4, <2>5 DEF ListComesLast
  <1>17. CASE HandleControl \/ HandleInit \/ BootMouseMode \/ RunMouseMode \/ HandleNotify
    <2>1. /\ down # <<>> /\ down' = Tail(down) /\ UNCHANGED <<stage, phase>>
          /\ phase \in {"connect", "run"} => init' = init
      BY <1>17 DEF HandleControl, HandleInit, BootMouseMode, RunMouseMode, HandleNotify,
                   Got, Consume, serverVars
    <2>2. NoList => NoList'
      BY <1>5, <2>1
    <2>3. ~SendInit
      BY <2>1 DEF SendInit
    <2> QED BY ONLY <1>4, <2>1, <2>2, <2>3
  <1> QED BY <1>7, <1>8, <1>9, <1>10, <1>11, <1>12, <1>13, <1>14, <1>15, <1>16, <1>17
          DEF Next, ServerStep, ClientStep

\* Once nothing can be asked for any more, nothing is asked for.
LEMMA MayAskStep ==
    ASSUME BootTyped, PartsInOrder, [Next]_vars
    PROVE  MayAsk' => MayAsk
  <1> DEFINE Request == \E i \in DOMAIN up : up[i].op = "mouse_mode_request"
             Due == out = <<"mouse_mode_request", "attach">>
  <1>1. stage' \in {"set_ack", "init"} => stage \in {"set_ack", "init"}
    BY DEF Next, ServerStep, ClientStep, SendSetAck, SendInit, ServerRecv, SendList,
           ServerGrants, ServerChangesMode, ServerPings, ServerGone, WriteNext, HandleControl,
           HandleInit, BootMouseMode, HandleList, RunMouseMode, HandleNotify,
           SubChannelsLinked, ClientFails, Consume, serverVars, vars
  <1>2. InitOnWay' => InitOnWay \/ stage = "init"
    BY InitOnWayStep DEF SendInit
  <1>3. Due' => Due \/ InitOnWay
    <2>1. CASE WriteNext
      <3>1. out # <<>> /\ out' = Tail(out)
        BY <2>1 DEF WriteNext
      <3>2. Tail(out) \in {<<>>, <<"attach">>}
        BY <3>1, OutFacts DEF BootTyped, Outs
      <3> QED BY <3>1, <3>2, OutsDiffer
    <2>2. CASE out' \in {<<"ack_sync">>, <<"pong">>} \/ HandleInit \/ out' = out
      BY <2>2, OutsDiffer, InitOnWayStep
    <2> QED BY <2>1, <2>2, OutStep
  <1>4. Request' => Request \/ Due
    <2>1. CASE WriteNext
      <3> DEFINE k == Len(up) + 1
      <3>1. /\ DOMAIN up' = DOMAIN up \cup {k} /\ up'[k].op = Head(out) /\ out # <<>>
            /\ \A i \in DOMAIN up : up'[i] = up[i]
        BY <2>1, UpWrittenFacts
      <3> HIDE DEF k
      <3>2. Head(out) = "mouse_mode_request" => Due
        BY <3>1, OutFacts DEF BootTyped, Outs
      <3> QED BY <3>1, <3>2
    <2>2. CASE ServerRecv \/ ServerGrants
      BY <2>2, UpTakenFacts
    <2>3. CASE up' = up
      BY <2>3
    <2> QED BY <2>1, <2>2, <2>3, UpStep
  <1> QED BY <1>1, <1>2, <1>3, <1>4 DEF MayAsk

\* The socket holds Cap frames, and a grant of the only request one more.
LEMMA FitsStep == BootInv /\ BootTyped' /\ [Next]_vars => DownFits'
  <1> SUFFICES ASSUME BootTyped, PartsInOrder, AsksInOrder, ListComesLast, DownFits,
                      [Next]_vars
               PROVE  DownFits'
    BY DEF BootInv
  <1>1. MayAsk' => MayAsk
    BY MayAskStep
  <1>2. Cap \in Nat /\ Len(down) \in Nat
    BY BootstrapAssumption, LenProperties DEF BootTyped
  <1>3. ASSUME Len(down') <= Len(down), Len(down') \in Nat PROVE DownFits'
    BY <1>1, <1>2, <1>3 DEF DownFits
  <1>4. ASSUME NEW f, Send(f) PROVE DownFits'
    <2>1. Len(down) < Cap /\ Len(down') = Len(down) + 1
      BY <1>4, LenProperties, AppendProperties DEF Send, BootTyped
    <2> QED BY <1>2, <2>1 DEF DownFits
  <1>5. CASE \/ SendSetAck \/ SendInit \/ SendList \/ ServerChangesMode \/ ServerPings
    BY <1>4, <1>5 DEF SendSetAck, SendInit, SendList, ServerChangesMode, ServerPings
  <1>6. CASE ServerGrants
    <2>1. \/ down' = down
          \/ down' = Append(down, Frame("mouse_mode", "client"))
      BY <1>6, Zenon DEF ServerGrants
    <2>2. /\ 1 \in DOMAIN up /\ up[1].op = "mouse_mode_request"
          /\ out' = out /\ stage' = stage /\ ~InitOnWay'
          /\ \A i \in DOMAIN up' : i \in Nat /\ i > 0 /\ i + 1 \in DOMAIN up /\ up'[i] = up[i + 1]
      <3>1. AskOnWay
        BY <1>6, UpTakenFacts DEF AskOnWay, Asks, ServerGrants
      <3>2. ~InitOnWay'
        <4>1. ~SendInit
          BY <1>6 DEF ServerGrants, SendInit
        <4> QED BY <3>1, <4>1, InitOnWayStep DEF AsksInOrder
      <3> QED BY <1>6, <3>2, UpTakenFacts DEF ServerGrants
    <2>3. CASE down' = down
      BY <1>2, <1>3, <2>3
    <2>4. CASE down' = Append(down, Frame("mouse_mode", "client"))
      <3>1. Len(down') = Len(down) + 1 /\ Len(down) <= Cap
        <4>1. MayAsk
          BY <2>2 DEF MayAsk
        <4> QED BY <2>4, <4>1, LenProperties, AppendProperties DEF BootTyped, DownFits
      <3>2. AskOnWay
        BY <2>2 DEF AskOnWay, Asks
      <3>3. stage' \notin {"set_ack", "init"} /\ out' # <<"mouse_mode_request", "attach">>
        BY <2>2, <3>2 DEF ListComesLast, AsksInOrder
      <3>4. ASSUME NEW i \in DOMAIN up' PROVE up'[i].op # "mouse_mode_request"
        <4>1. 1 < i + 1 /\ i + 1 \in DOMAIN up /\ up'[i] = up[i + 1]
          BY <2>2
        <4> QED BY <2>2, <4>1 DEF AsksInOrder, Asks
      <3> QED BY <1>2, <2>2, <3>1, <3>3, <3>4 DEF DownFits, MayAsk
    <2> QED BY <2>1, <2>3, <2>4
  <1>7. CASE \/ HandleControl \/ HandleInit \/ BootMouseMode \/ HandleList \/ RunMouseMode
             \/ HandleNotify
    <2>1. down # <<>> /\ down' = Tail(down)
      BY <1>7 DEF HandleControl, HandleInit, BootMouseMode, HandleList, RunMouseMode,
                  HandleNotify, Got, Consume
    <2>2. Len(down') = Len(down) - 1 /\ Len(down') \in Nat
      <3>1. Len(down') = Len(down) - 1 /\ Tail(down) \in Seq(DownFrame)
        BY <2>1, TakeFacts DEF BootTyped, DownFrame
      <3> QED BY <2>1, <3>1, LenProperties
    <2> QED BY <1>2, <1>3, <2>2
  <1>8. CASE \/ ServerRecv \/ ServerGone \/ WriteNext \/ SubChannelsLinked \/ ClientFails
             \/ UNCHANGED vars
    <2>1. down' = down
      BY <1>8 DEF ServerRecv, ServerGone, WriteNext, SubChannelsLinked, ClientFails,
                   vars, clientVars, serverVars
    <2> QED BY <1>2, <1>3, <2>1
  <1> QED BY <1>5, <1>6, <1>7, <1>8 DEF Next, ServerStep, ClientStep

\* The news on the way, and what is known without them.
Telling == stage \in {"loop", "list", "idle"}
LastNewsTrue ==
    \A i \in DOMAIN down :
        IsNews(down[i]) /\ (\A j \in DOMAIN down : j > i => ~IsNews(down[j])) =>
            down[i].mode = mode
NoNews == \A i \in DOMAIN down : ~IsNews(down[i])
ModeKnown ==
    ~missed /\ phase # "failed" => mode = IF phase = "run" THEN reported ELSE init

\* News sent is the last, and true.
LEMMA NewsSent ==
    ASSUME BootTyped, NEW f \in DownFrame, down' = Append(down, f), IsNews(f),
           f.mode = mode'
    PROVE  NewsInv'
  <1> DEFINE k == Len(down) + 1
  <1>1. /\ DOMAIN down' = DOMAIN down \cup {k} /\ down'[k] = f /\ k \in Nat
        /\ \A i \in DOMAIN down : i \in Nat /\ i < k /\ down'[i] = down[i]
    BY AppendFacts DEF BootTyped, DownFrame
  <1> HIDE DEF k
  <1>2. LastNewsTrue'
    <2> SUFFICES ASSUME NEW i \in DOMAIN down',
                        \A j \in DOMAIN down' : j > i => ~IsNews(down'[j])
                 PROVE  down'[i].mode = mode'
      BY DEF LastNewsTrue
    <2>1. i = k \/ k > i
      BY <1>1
    <2>2. IsNews(down'[k])
      BY <1>1
    <2> QED BY <1>1, <2>1, <2>2
  <1>3. ~NoNews'
    BY <1>1 DEF NoNews
  <1> QED BY <1>2, <1>3 DEF NewsInv, LastNewsTrue, NoNews

\* Anything else that is sent changes nothing about the news.
LEMMA OtherSent ==
    ASSUME BootTyped, NewsInv, NEW f \in DownFrame, down' = Append(down, f), ~IsNews(f),
           Telling' => Telling, mode' = mode, ModeKnown => ModeKnown'
    PROVE  NewsInv'
  <1> DEFINE k == Len(down) + 1
  <1>1. /\ DOMAIN down' = DOMAIN down \cup {k} /\ down'[k] = f
        /\ \A i \in DOMAIN down : down'[i] = down[i]
    BY AppendFacts DEF BootTyped, DownFrame
  <1> HIDE DEF k
  <1>2. LastNewsTrue => LastNewsTrue'
    <2> SUFFICES ASSUME LastNewsTrue, NEW i \in DOMAIN down', IsNews(down'[i]),
                        \A j \in DOMAIN down' : j > i => ~IsNews(down'[j])
                 PROVE  down'[i].mode = mode'
      BY DEF LastNewsTrue
    <2>1. i \in DOMAIN down /\ IsNews(down[i])
      BY <1>1
    <2>2. \A j \in DOMAIN down : j > i => ~IsNews(down[j])
      BY <1>1
    <2> QED BY <1>1, <2>1, <2>2 DEF LastNewsTrue
  <1>3. NoNews' => NoNews
    BY <1>1 DEF NoNews
  <1> QED BY <1>2, <1>3 DEF NewsInv, LastNewsTrue, NoNews, Telling, ModeKnown

\* As long as nothing is sent or read only what is known matters.
LEMMA NothingSent ==
    ASSUME NewsInv, down' = down, Telling' => Telling, mode' = mode, ModeKnown => ModeKnown'
    PROVE  NewsInv'
  BY DEF NewsInv, Telling, ModeKnown, IsNews

\* If news is read and none is left, it was the last.
LEMMA ReadNews ==
    ASSUME BootTyped, NewsInv, down # <<>>, down' = Tail(down), Telling' => Telling,
           mode' = mode,
           ~IsNews(Head(down)) => (ModeKnown => ModeKnown'),
           IsNews(Head(down)) => (Head(down).mode = mode => ModeKnown')
    PROVE  NewsInv'
  <1>1. /\ 1 \in DOMAIN down /\ Head(down) = down[1]
        /\ \A i \in DOMAIN down' : i \in Nat /\ i > 0 /\ i + 1 \in DOMAIN down /\ down'[i] = down[i + 1]
        /\ \A i \in DOMAIN down : \/ i = 1
                                  \/ /\ i \in Nat /\ i > 1 /\ i - 1 \in DOMAIN down'
                                     /\ down'[i - 1] = down[i]
    BY TakeFacts DEF BootTyped
  <1>2. LastNewsTrue => LastNewsTrue'
    <2> SUFFICES ASSUME LastNewsTrue, NEW i \in DOMAIN down', IsNews(down'[i]),
                        \A j \in DOMAIN down' : j > i => ~IsNews(down'[j])
                 PROVE  down'[i].mode = mode'
      BY DEF LastNewsTrue
    <2>1. i + 1 \in DOMAIN down /\ IsNews(down[i + 1]) /\ i \in Nat
      BY <1>1
    <2>2. ASSUME NEW j \in DOMAIN down, j > i + 1 PROVE ~IsNews(down[j])
      <3>1. j - 1 \in DOMAIN down' /\ j - 1 > i /\ down'[j - 1] = down[j]
        BY <1>1, <2>1, <2>2
      <3> QED BY <3>1
    <2> QED BY <1>1, <2>1, <2>2 DEF LastNewsTrue
  <1>3. NoNews' => \A j \in DOMAIN down : j > 1 => ~IsNews(down[j])
    <2> SUFFICES ASSUME NoNews', NEW j \in DOMAIN down, j > 1 PROVE ~IsNews(down[j])
      OBVIOUS
    <2> QED BY <1>1 DEF NoNews
  <1>4. CASE IsNews(Head(down))
    <2>1. NoNews' /\ LastNewsTrue => Head(down).mode = mode
      BY <1>1, <1>3, <1>4 DEF LastNewsTrue
    <2> QED BY <1>2, <1>4, <2>1 DEF NewsInv, LastNewsTrue, NoNews, Telling, ModeKnown
  <1>5. CASE ~IsNews(Head(down))
    <2>1. NoNews' => NoNews
      BY <1>1, <1>3, <1>5 DEF NoNews
    <2> QED BY <1>2, <1>5, <2>1 DEF NewsInv, LastNewsTrue, NoNews, Telling, ModeKnown
  <1> QED BY <1>4, <1>5

\* The news in flight stays true, and is known once read.
LEMMA NewsStep == BootInv /\ [Next]_vars => NewsInv'
  <1> SUFFICES ASSUME BootTyped, NewsInv, AsksInOrder, ListComesLast, [Next]_vars
               PROVE  NewsInv'
    BY DEF BootInv
  <1>1. \A op \in DownOps, m \in Modes \cup {"none"} :
            /\ Frame(op, m) \in DownFrame
            /\ Frame(op, m).op = op /\ Frame(op, m).mode = m
    BY DEF Frame, DownFrame
  <1>2. \A op \in DownOps, m \in Modes \cup {"none"} :
            IsNews(Frame(op, m)) <=> op \in {"init", "init_tablet", "mouse_mode"}
    BY <1>1 DEF IsNews, Inits
  <1>3. CASE SendSetAck
    BY <1>3 DEF SendSetAck, NewsInv
  <1>4. CASE SendInit
    <2>1. PICK op \in Inits : down' = Append(down, Frame(op, mode))
      BY <1>4 DEF SendInit, Send, Inits
    <2>2. op \in DownOps /\ mode \in Modes /\ mode' = mode
      BY <1>4 DEF SendInit, DownOps, BootTyped
    <2>3. Frame(op, mode) \in DownFrame /\ IsNews(Frame(op, mode)) /\ Frame(op, mode).mode = mode'
      BY <1>1, <1>2, <2>2 DEF Inits
    <2> QED BY <2>1, <2>3, NewsSent
  <1>5. CASE ServerChangesMode
    <2>1. down' = Append(down, Frame("mouse_mode", mode')) /\ mode' \in Modes
      BY <1>5 DEF ServerChangesMode, Send, Modes
    <2>2. /\ Frame("mouse_mode", mode') \in DownFrame /\ IsNews(Frame("mouse_mode", mode'))
          /\ Frame("mouse_mode", mode').mode = mode'
      BY <1>1, <1>2, <2>1 DEF DownOps
    <2> QED BY <2>1, <2>2, NewsSent
  <1>6. CASE ServerGrants
    <2>1. \/ mode' = "client" /\ down' = Append(down, Frame("mouse_mode", "client"))
          \/ mode' = mode /\ down' = down
      BY <1>6, Zenon DEF ServerGrants
    <2>2. CASE mode' = "client" /\ down' = Append(down, Frame("mouse_mode", "client"))
      <3>1. /\ Frame("mouse_mode", "client") \in DownFrame
            /\ IsNews(Frame("mouse_mode", "client"))
            /\ Frame("mouse_mode", "client").mode = mode'
        BY <1>1, <1>2, <2>2 DEF DownOps, Modes
      <3> QED BY <2>2, <3>1, NewsSent
    <2>3. CASE mode' = mode /\ down' = down
      <3>1. UNCHANGED <<clientVars, stage>>
        BY <1>6 DEF ServerGrants
      <3> QED BY <2>3, <3>1, NothingSent DEF clientVars, Telling, ModeKnown
    <2> QED BY <2>1, <2>2, <2>3
  <1>7. ASSUME NEW op \in {"list", "ping", "notify"}, down' = Append(down, Frame(op, "none")),
               Telling' => Telling, UNCHANGED <<clientVars, mode>>
        PROVE  NewsInv'
    <2>1. Frame(op, "none") \in DownFrame /\ ~IsNews(Frame(op, "none"))
      BY <1>1, <1>2 DEF DownOps
    <2>2. ModeKnown => ModeKnown'
      BY <1>7 DEF ModeKnown, clientVars
    <2> QED BY <1>7, <2>1, <2>2, OtherSent
  <1>8. CASE SendList
    <2>1. /\ down' = Append(down, Frame("list", "none")) /\ Telling
          /\ UNCHANGED <<clientVars, mode>>
      BY <1>8 DEF SendList, Send, Plain, Telling
    <2> QED BY <1>7, <2>1, Zenon
  <1>9. CASE ServerPings
    <2>1. PICK op \in {"ping", "notify"} : down' = Append(down, Frame(op, "none"))
      BY <1>9 DEF ServerPings, Send, Plain
    <2>2. Telling' = Telling /\ UNCHANGED <<clientVars, mode>>
      BY <1>9 DEF ServerPings, Telling
    <2> QED BY <1>7, <2>1, <2>2
  <1>10. CASE \/ ServerRecv \/ ServerGone \/ WriteNext \/ SubChannelsLinked \/ ClientFails
              \/ UNCHANGED vars
    <2>1. /\ down' = down /\ mode' = mode
          /\ stage' = stage \/ stage' = "gone" \/ (stage = "loop" /\ stage' = "list")
      BY <1>10 DEF ServerRecv, ServerGone, WriteNext, SubChannelsLinked, ClientFails,
                   vars, clientVars, serverVars
    <2>2. Telling' => Telling
      BY <2>1 DEF Telling
    <2>3. \/ UNCHANGED <<phase, missed, reported, init>>
          \/ phase' = "failed"
          \/ phase = "connect" /\ phase' = "run" /\ reported' = init /\ missed' = missed
      BY <1>10 DEF ServerRecv, ServerGone, WriteNext, SubChannelsLinked, ClientFails,
                   vars, clientVars
    <2>4. ModeKnown => ModeKnown'
      BY <2>1, <2>3 DEF ModeKnown
    <2> QED BY <2>1, <2>2, <2>4, NothingSent
  <1>11. ASSUME down # <<>>, Consume,
                ~IsNews(Head(down)) => (ModeKnown => ModeKnown'),
                IsNews(Head(down)) => (Head(down).mode = mode => ModeKnown')
         PROVE  NewsInv'
    <2>1. down' = Tail(down) /\ mode' = mode /\ Telling' = Telling
      BY <1>11 DEF Consume, serverVars, Telling
    <2> QED BY <1>11, <2>1, ReadNews
  <1>12. CASE HandleControl \/ HandleNotify \/ HandleList
    <2>1. /\ down # <<>> /\ Consume /\ ~IsNews(Head(down))
          /\ UNCHANGED <<init, reported, missed>>
          /\ phase' = phase \/ phase' = "failed" \/ (phase = "boot" /\ phase' = "connect")
      BY <1>12 DEF HandleControl, HandleNotify, HandleList, Got, IsNews, Inits
    <2>2. ModeKnown => ModeKnown'
      BY <2>1 DEF ModeKnown, Consume, serverVars
    <2> QED BY <1>11, <2>1, <2>2
  <1>13. CASE HandleInit \/ BootMouseMode \/ RunMouseMode
    <2>1. /\ down # <<>> /\ Consume /\ IsNews(Head(down))
      BY <1>13 DEF HandleInit, BootMouseMode, RunMouseMode, Got, IsNews, Inits
    <2>2. Head(down).mode = mode => ModeKnown'
      BY <1>13 DEF HandleInit, BootMouseMode, RunMouseMode, ModeKnown, Consume, serverVars
    <2> QED BY <1>11, <2>1, <2>2
  <1> QED BY <1>3, <1>4, <1>5, <1>6, <1>8, <1>9, <1>10, <1>12, <1>13
          DEF Next, ServerStep, ClientStep

\* A bootstrap begins with nothing sent and nothing known.
LEMMA BootInit == Init => BootInv
  <1> SUFFICES ASSUME Init PROVE BootInv
    OBVIOUS
  <1> USE BootstrapAssumption DEF Init
  <1>1. BootTyped
    <2>1. down \in Seq([op : DownOps, mode : Modes \cup {"none"}])
      OBVIOUS
    <2>2. up \in Seq([op : UpOps, mode : {"none"}]) /\ Len(up) <= Cap
      OBVIOUS
    <2>3. mode \in Modes /\ tablet \in BOOLEAN /\ full \in BOOLEAN
      BY DEF Modes
    <2>4. pings \in 0 .. MaxPings /\ changes \in 0 .. MaxChanges
      OBVIOUS
    <2>5. /\ phase = "boot" /\ out \in Outs /\ init = "none" /\ reported = "none"
          /\ missed = FALSE /\ stage = "set_ack"
      BY DEF Outs
    <2> QED BY ONLY <2>1, <2>2, <2>3, <2>4, <2>5 DEF BootTyped
  <1>2. DOMAIN down = {} /\ DOMAIN up = {} /\ Len(down) = 0
    OBVIOUS
  <1>3. PartsInOrder /\ DownFits /\ NewsInv
    BY <1>2 DEF PartsInOrder, DownFits, NewsInv
  <1>4. AsksInOrder /\ ListComesLast
    BY <1>2, OutsDiffer DEF AsksInOrder, ListComesLast, InitOnWay, AskOnWay, AskDue
  <1> QED BY <1>1, <1>3, <1>4 DEF BootInv

\* The attempt without TLS begins so as well, whatever became of the first.
LEMMA BootAgain == BootTyped /\ FallBack => BootInv'
  <1> SUFFICES ASSUME BootTyped, FallBack PROVE BootInv'
    OBVIOUS
  <1> USE BootstrapAssumption DEF FallBack
  <1>1. BootTyped'
    <2>1. down' \in Seq([op : DownOps, mode : Modes \cup {"none"}])
      OBVIOUS
    <2>2. up' \in Seq([op : UpOps, mode : {"none"}]) /\ Len(up') <= Cap
      OBVIOUS
    <2> QED BY <2>1, <2>2 DEF BootTyped, Outs
  <1>2. DOMAIN down' = {} /\ DOMAIN up' = {} /\ Len(down') = 0
    OBVIOUS
  <1>3. PartsInOrder' /\ DownFits' /\ NewsInv'
    BY <1>2 DEF PartsInOrder, DownFits, NewsInv
  <1>4. AsksInOrder' /\ ListComesLast'
    BY <1>2, OutsDiffer DEF AsksInOrder, ListComesLast, InitOnWay, AskOnWay, AskDue
  <1> QED BY <1>1, <1>3, <1>4 DEF BootInv

\* The bootstrap's own steps keep what is known about it.
LEMMA BootStep == BootInv /\ [Next]_vars => BootInv'
  <1> SUFFICES ASSUME BootInv, [Next]_vars PROVE BootInv'
    OBVIOUS
  <1>1. BootTyped'
    BY BootTypeStep DEF BootInv
  <1>2. PartsInOrder' /\ AsksInOrder' /\ DownFits' /\ NewsInv'
    BY <1>1, PartsStep, AsksStep, FitsStep, NewsStep
  <1>3. ListComesLast'
    BY <1>1, <1>2, ListStep
  <1> QED BY <1>1, <1>2, <1>3 DEF BootInv

\* Whatever happens to a connection is a step of its bootstrap, nothing to it,
\* or the beginning of another one.
LEMMA BootMoves == ConnNext \/ UNCHANGED allVars => [Next]_vars \/ FallBack
  <1> SUFFICES ASSUME ConnNext \/ UNCHANGED allVars, ~FallBack PROVE [Next]_vars
    OBVIOUS
  <1>1. ASSUME NEW class, Fail(class), phase # "failed" PROVE [Next]_vars
    BY <1>1 DEF Fail, Next, ClientFails
  <1>2. CASE TlsFails \/ PasswordTooLong \/ Refused \/ LinkBroken
    <2>1. phase # "failed"
      BY <1>2 DEF TlsFails, PasswordTooLong, Refused, LinkBroken, Linking
    <2> QED BY <1>1, <1>2, <2>1 DEF TlsFails, PasswordTooLong, Refused, LinkBroken
  <1>3. CASE MissingChannel \/ OtherFailure
    BY <1>1, <1>3 DEF MissingChannel, OtherFailure
  <1>4. CASE Dial \/ TlsUp \/ SendTicket \/ Linked \/ NextChannel
    BY <1>4 DEF Dial, TlsUp, SendTicket, Linked, NextChannel
  <1>5. CASE AnswerMess \/ CheckTicket \/ HangUp \/ OpenMain \/ OpenSub
    BY <1>5 DEF AnswerMess, CheckTicket, HangUp, OpenMain, OpenSub
  <1>6. CASE BootClient \/ AllLinked \/ MainGone
    BY <1>6 DEF BootClient, AllLinked, MainGone, Next
  <1>7. CASE BootServer(ServerStep) \/ BootServer(ServerChangesMode \/ ServerPings)
    BY <1>7 DEF BootServer, Next
  <1>8. CASE UNCHANGED allVars
    BY <1>8 DEF allVars
  <1> QED BY <1>2, <1>3, <1>4, <1>5, <1>6, <1>7, <1>8 DEF ConnNext, ClientMoves, ServerMoves

-----------------------------------------------------------------------------
(***************************************************************************)
(* The links, step by step.                                                *)
(***************************************************************************)

\* The server's bootstrap moves on as long as its task lives.
LEMMA ServerMovesOn ==
    ASSUME ServerStep \/ ServerChangesMode \/ ServerPings
    PROVE  phase' = phase /\ stage # "gone" /\ (stage = "idle" => stage' = "idle")
  BY DEF ServerStep, SendSetAck, SendInit, ServerRecv, SendList, ServerGrants, Listening,
         ServerChangesMode, ServerPings, clientVars

\* The client's bootstrap does nothing to the server's, and once failed, nothing.
LEMMA ClientMovesOn ==
    ASSUME ClientStep \/ SubChannelsLinked
    PROVE  stage' = stage /\ phase # "failed"
  BY DEF ClientStep, WriteNext, HandleControl, HandleInit, BootMouseMode, HandleList,
         RunMouseMode, HandleNotify, Reading, Consume, SubChannelsLinked, serverVars

\* A failure leaves the links as they are.
LEMMA FailFacts ==
    ASSUME TlsFails \/ PasswordTooLong \/ Refused \/ LinkBroken \/ MissingChannel \/ OtherFailure
    PROVE  /\ phase # "failed" /\ phase' = "failed" /\ stage' = stage
           /\ UNCHANGED <<overTls, todo, cl, wire, sv, live, cMini, sMini>>
           /\ err' \in {"handshake", "reset", "eof", "link", "other"}
           /\ refused' = refused \/ (refused' = TRUE /\ err' = "link")
  BY DEF TlsFails, PasswordTooLong, Refused, LinkBroken, MissingChannel, OtherFailure, Fail,
         Linking, serverVars

\* The channel being linked is the first of those still to link.
LEMMA ThisFacts ==
    ASSUME todo \in Seq(Channels), todo # <<>>
    PROVE  This \in Channels /\ This = todo[1] /\ 1 \in DOMAIN todo
  BY TakeFacts DEF This

\* While the client is linking there is a channel to link, and it is the main
\* channel as long as that is among them.
LEMMA LinkingFacts ==
    ASSUME todo \in Seq(Channels), MainComesFirst, Linking
    PROVE  /\ todo # <<>> /\ This \in Channels
           /\ ~MainLinked => This = "main"
           /\ MainLinked => This # "main" /\ phase = "connect"
  <1>1. DOMAIN todo = 1 .. Len(todo) /\ Len(todo) \in Nat
    BY LenProperties
  <1>2. ~MainLinked => \E i \in DOMAIN todo : todo[i] = "main"
    BY <1>1 DEF MainLinked, Contains
  <1>3. MainLinked => \A i \in DOMAIN todo : todo[i] # "main"
    BY <1>1 DEF MainLinked, Contains
  <1>4. todo # <<>>
    <2>1. CASE MainLinked
      BY <2>1 DEF Linking
    <2>2. CASE ~MainLinked
      BY <1>1, <1>2, <2>2
    <2> QED BY <2>1, <2>2
  <1>5. ~MainLinked => todo[1] = "main"
    BY <1>2 DEF MainComesFirst
  <1> QED BY <1>3, <1>4, <1>5, ThisFacts DEF Linking

\* The channels to link: main, then those wanted.
LEMMA TodoFacts ==
    /\ <<"main">> \o Wanted \in Seq(Channels)
    /\ \A i \in DOMAIN (<<"main">> \o Wanted) : (<<"main">> \o Wanted)[i] = "main" => i = 1
  <1> DEFINE m == <<"main">>
             w == Wanted
  <1>1. w \in Seq(Subs)
    <2>1. \A c \in Subs : Asked(c) \in Seq(Subs)
      BY DEF Asked
    <2>2. Asked("display") \in Seq(Subs) /\ Asked("inputs") \in Seq(Subs)
          /\ Asked("cursor") \in Seq(Subs)
      BY <2>1 DEF Subs, Channels
    <2>3. Asked("display") \o Asked("inputs") \in Seq(Subs)
      BY <2>2, ConcatProperties
    <2> QED BY <2>2, <2>3, ConcatProperties DEF Wanted
  <1>2. m \in Seq(Channels) /\ Len(m) = 1
    BY DEF Channels
  <1> HIDE DEF m, w
  <1>3. w \in Seq(Channels)
    <2>1. \A i \in 1 .. Len(w) : w[i] \in Channels
      BY <1>1, ElementOfSeq DEF Subs
    <2>2. w \in Seq(Subs) => DOMAIN w = 1 .. Len(w) /\ Len(w) \in Nat
      BY LenProperties
    <2> QED BY <1>1, <2>1 DEF Subs
  <1>4. /\ m \o w \in Seq(Channels) /\ Len(m \o w) = 1 + Len(w) /\ Len(w) \in Nat
        /\ \A i \in 1 .. Len(m) + Len(w) :
              (m \o w)[i] = IF i <= Len(m) THEN m[i] ELSE w[i - Len(m)]
    BY <1>2, <1>3, ConcatProperties, LenProperties
  <1>5. DOMAIN (m \o w) = 1 .. 1 + Len(w)
    BY <1>4, LenProperties
  <1>6. ASSUME NEW i \in DOMAIN (m \o w), (m \o w)[i] = "main" PROVE i = 1
    <2>1. CASE i > 1
      <3>1. i - 1 \in 1 .. Len(w) /\ (m \o w)[i] = w[i - 1]
        BY <1>2, <1>4, <1>5, <2>1
      <3>2. w[i - 1] \in Subs
        BY <1>1, <3>1, ElementOfSeq
      <3> QED BY <1>6, <3>1, <3>2 DEF Subs
    <2> QED BY <1>4, <1>5, <2>1
  <1>7. m \o w \in Seq(Channels) /\ \A i \in DOMAIN (m \o w) : (m \o w)[i] = "main" => i = 1
    BY <1>4, <1>6
  <1> QED BY <1>7 DEF m, w

\* What the steps of the links leave alone.
LEMMA LinkMoves ==
    ASSUME ConnNext \/ UNCHANGED allVars
    PROVE  \/ FallBack /\ UNCHANGED askVars
           \/ Dial \/ TlsUp \/ SendTicket \/ Linked \/ NextChannel
           \/ AnswerMess \/ CheckTicket \/ HangUp \/ OpenMain \/ OpenSub \/ MainGone
           \/ TlsFails \/ PasswordTooLong \/ Refused \/ LinkBroken \/ MissingChannel
           \/ OtherFailure
           \/ UNCHANGED linkVars
  BY DEF ConnNext, FallBack, ClientMoves, ServerMoves, BootServer, BootClient, AllLinked,
         allVars, askVars

\* Who asks, and for what, is settled before the first attempt.
LEMMA AskedBefore ==
    ConnNext \/ UNCHANGED allVars => UNCHANGED askVars
  BY DEF ConnNext, FallBack, allVars

\* Links keep their types.
LEMMA LinkTypeStep ==
    LinkTyped /\ MainComesFirst /\ (ConnNext \/ UNCHANGED allVars) => LinkTyped'
  <1> SUFFICES ASSUME LinkTyped, MainComesFirst, ConnNext \/ UNCHANGED allVars
               PROVE  LinkTyped'
    OBVIOUS
  <1>1. policy' = policy /\ serverMini' = serverMini
    BY AskedBefore DEF askVars
  <1>2. todo \in Seq(Channels)
    BY DEF LinkTyped
  <1>3. Linking => todo # <<>> /\ This \in Channels
    BY <1>2, LinkingFacts
  <1>4. todo # <<>> => This \in Channels
    BY <1>2, ThisFacts
  <1>5. CASE FallBack
    <2>1. todo' \in Seq(Channels)
      BY <1>5, TodoFacts DEF FallBack
    <2> QED BY <1>1, <1>5, <2>1 DEF FallBack, LinkTyped, NoConnections
  <1>6. CASE Dial \/ TlsUp \/ SendTicket \/ Linked
    BY <1>1, <1>3, <1>6 DEF Dial, TlsUp, SendTicket, Linked, LinkTyped
  <1>7. CASE NextChannel
    <2>1. Tail(todo) \in Seq(Channels)
      BY <1>2, <1>3, <1>7, TakeFacts DEF NextChannel
    <2> QED BY <1>1, <1>7, <2>1 DEF NextChannel, LinkTyped
  <1>8. CASE AnswerMess \/ CheckTicket
    BY <1>1, <1>4, <1>8 DEF AnswerMess, CheckTicket, LinkTyped
  <1>9. CASE HangUp \/ OpenMain \/ OpenSub \/ MainGone
    BY <1>1, <1>9 DEF HangUp, OpenMain, OpenSub, MainGone, LinkTyped, Channels
  <1>10. CASE TlsFails \/ PasswordTooLong \/ Refused \/ LinkBroken \/ MissingChannel \/ OtherFailure
    BY <1>1, <1>10, FailFacts DEF LinkTyped
  <1>11. CASE UNCHANGED linkVars
    BY <1>1, <1>11 DEF linkVars, LinkTyped
  <1> QED BY <1>5, <1>6, <1>7, <1>8, <1>9, <1>10, <1>11, LinkMoves

\* Main is the first to be linked, and only once.
LEMMA MainStep ==
    LinkTyped /\ MainComesFirst /\ (ConnNext \/ UNCHANGED allVars) => MainComesFirst'
  <1> SUFFICES ASSUME LinkTyped, MainComesFirst, ConnNext \/ UNCHANGED allVars
               PROVE  MainComesFirst'
    OBVIOUS
  <1>1. todo \in Seq(Channels) /\ sv \in [Channels -> {"none", "mess", "ticket", "linked",
                                                       "open", "closed", "turned_away"}]
    BY DEF LinkTyped
  <1>2. Linking => todo # <<>> /\ This \in Channels /\ (~MainLinked => This = "main")
    BY <1>1, LinkingFacts
  <1>3. ASSUME todo' = todo PROVE MainLinked' = MainLinked
    BY <1>3 DEF MainLinked
  <1>4. ASSUME todo' = todo, ~MainLinked => \A c \in Subs : sv'[c] = sv[c],
               ~MainLinked /\ cl' = "dial" => cl = "dial" /\ sv'["main"] = sv["main"]
        PROVE  MainComesFirst'
    BY <1>3, <1>4 DEF MainComesFirst
  <1>5. CASE FallBack
    <2>1. todo' = <<"main">> \o Wanted /\ sv' = NoConnections
      BY <1>5 DEF FallBack
    <2> QED BY <2>1, TodoFacts DEF MainComesFirst, NoConnections, Subs, Channels
  <1>6. CASE Dial
    <2>1. /\ todo' = todo /\ sv' = [sv EXCEPT ![This] = "mess"] /\ cl' # "dial"
          /\ ~MainLinked => This = "main"
      BY <1>2, <1>6 DEF Dial
    <2>2. ~MainLinked => \A c \in Subs : sv'[c] = sv[c]
      BY <1>1, <2>1 DEF Subs
    <2> QED BY <1>4, <2>1, <2>2
  <1>7. CASE NextChannel
    <2>1. todo # <<>> /\ todo' = Tail(todo)
      BY <1>2, <1>7 DEF NextChannel
    <2>2. /\ todo' \in Seq(Channels)
          /\ \A i \in DOMAIN todo' : i \in Nat /\ i > 0 /\ i + 1 \in DOMAIN todo
                                     /\ todo'[i] = todo[i + 1]
      BY <1>1, <2>1, TakeFacts
    <2>3. ASSUME NEW i \in DOMAIN todo' PROVE todo'[i] # "main"
      BY <2>2 DEF MainComesFirst
    <2>4. MainLinked'
      <3>1. DOMAIN todo' = 1 .. Len(todo')
        BY <2>2, LenProperties
      <3> QED BY <2>3, <3>1 DEF MainLinked, Contains
    <2> QED BY <2>3, <2>4 DEF MainComesFirst
  <1>8. CASE TlsUp \/ SendTicket \/ Linked \/ MainGone
    BY <1>4, <1>8 DEF TlsUp, SendTicket, Linked, MainGone
  <1>9. ASSUME NEW c \in Channels, sv[c] # "none", NEW s, sv' = [sv EXCEPT ![c] = s],
               todo' = todo, cl' = cl
        PROVE  MainComesFirst'
    <2>1. ~MainLinked => c = "main" /\ cl # "dial"
      BY <1>9 DEF MainComesFirst, Subs
    <2>2. ~MainLinked => \A d \in Subs : sv'[d] = sv[d]
      BY <1>1, <1>9, <2>1 DEF Subs
    <2> QED BY <1>4, <1>9, <2>1, <2>2
  <1>10. CASE AnswerMess \/ CheckTicket
    <2>1. todo # <<>> /\ sv[This] # "none" /\ todo' = todo /\ cl' = cl
      BY <1>10 DEF AnswerMess, CheckTicket
    <2>2. \E s \in {"ticket", "closed", "linked"} : sv' = [sv EXCEPT ![This] = s]
      BY <1>10, Zenon DEF AnswerMess, CheckTicket
    <2>3. This \in Channels
      BY <1>1, <2>1, ThisFacts
    <2> QED BY <1>9, <2>1, <2>2, <2>3
  <1>11. CASE HangUp
    <2>1. todo' = todo /\ cl' = cl
      BY <1>11 DEF HangUp
    <2>2. PICK c \in Channels : sv[c] # "none" /\ sv' = [sv EXCEPT ![c] = "closed"]
      BY <1>11 DEF HangUp
    <2> QED BY <1>9, <2>1, <2>2
  <1>12. CASE OpenMain
    <2>1. "main" \in Channels
      BY DEF Channels
    <2>2. todo' = todo /\ cl' = cl /\ sv["main"] # "none" /\ sv' = [sv EXCEPT !["main"] = "open"]
      BY <1>12 DEF OpenMain
    <2> QED BY <1>9, <2>1, <2>2
  <1>13. CASE OpenSub
    <2>1. todo' = todo /\ cl' = cl
      BY <1>13 DEF OpenSub
    <2>2. PICK c \in Channels \ {"main"} : /\ sv[c] = "linked"
                 /\ sv' = [sv EXCEPT ![c] = IF live THEN "open" ELSE "turned_away"]
      BY <1>13 DEF OpenSub
    <2>3. sv[c] # "none"
      BY <2>2
    <2> QED BY <1>9, <2>1, <2>2, <2>3
  <1>14. CASE TlsFails \/ PasswordTooLong \/ Refused \/ LinkBroken \/ MissingChannel \/ OtherFailure
    BY <1>4, <1>14, FailFacts
  <1>15. CASE UNCHANGED linkVars
    BY <1>4, <1>15 DEF linkVars
  <1> QED BY <1>5, <1>6, <1>7, <1>8, <1>10, <1>11, <1>12, <1>13, <1>14, <1>15, LinkMoves

\* Sub-channels are dialled once the session stands, and while it does they
\* are welcome.
LEMMA SessionStep ==
    BootInv /\ LinkTyped /\ MainComesFirst /\ SessionIsLive /\ (ConnNext \/ UNCHANGED allVars)
        => SessionIsLive'
  <1> SUFFICES ASSUME BootTyped, ListComesLast, LinkTyped, MainComesFirst, SessionIsLive,
                      ConnNext \/ UNCHANGED allVars
               PROVE  SessionIsLive'
    BY DEF BootInv
  <1>1. todo \in Seq(Channels) /\ sv \in [Channels -> {"none", "mess", "ticket", "linked",
                                                       "open", "closed", "turned_away"}]
    BY DEF LinkTyped
  <1>2. "main" \in Channels /\ Subs = Channels \ {"main"}
    BY DEF Channels, Subs
  <1>3. ASSUME stage' = stage, live' = live, sv' = sv PROVE SessionIsLive'
    BY <1>3 DEF SessionIsLive
  <1>4. ASSUME NEW c \in Channels, sv[c] \notin {"none", "open"},
               NEW s \in {"ticket", "linked", "closed"}, sv' = [sv EXCEPT ![c] = s],
               stage' = stage, live' = live
        PROVE  SessionIsLive'
    BY <1>1, <1>2, <1>4 DEF SessionIsLive
  <1>5. CASE FallBack
    <2>1. sv' = NoConnections /\ stage' = "set_ack"
      BY <1>5 DEF FallBack
    <2> QED BY <1>2, <2>1 DEF SessionIsLive, NoConnections
  <1>6. CASE Dial
    <2>1. /\ sv' = [sv EXCEPT ![This] = "mess"] /\ stage' = stage /\ live' = live
          /\ Linking /\ cl = "dial" /\ This \in Channels
          /\ ~MainLinked => This = "main"
          /\ MainLinked => This # "main" /\ phase = "connect"
      BY <1>1, <1>6, LinkingFacts DEF Dial, vars, serverVars
    <2>2. CASE MainLinked
      <3>1. stage \in {"idle", "gone"}
        BY <2>1, <2>2 DEF ListComesLast, BootTyped
      <3> QED BY <1>1, <1>2, <2>1, <2>2, <3>1 DEF SessionIsLive
    <2>3. CASE ~MainLinked
      <3>1. sv["main"] = "none" /\ This = "main"
        BY <2>1, <2>3 DEF MainComesFirst
      <3> QED BY <1>1, <1>2, <2>1, <3>1 DEF SessionIsLive
    <2> QED BY <2>2, <2>3
  <1>7. CASE TlsUp \/ SendTicket \/ Linked \/ NextChannel
    BY <1>3, <1>7 DEF TlsUp, SendTicket, Linked, NextChannel, vars, serverVars
  <1>8. CASE AnswerMess \/ CheckTicket
    <2>1. /\ todo # <<>> /\ sv[This] \notin {"none", "open"}
          /\ stage' = stage /\ live' = live
      BY <1>8 DEF AnswerMess, CheckTicket, vars, serverVars
    <2>2. \E s \in {"ticket", "closed", "linked"} : sv' = [sv EXCEPT ![This] = s]
      BY <1>8, Zenon DEF AnswerMess, CheckTicket
    <2>3. This \in Channels
      BY <1>1, <2>1, ThisFacts
    <2> QED BY <1>4, <2>1, <2>2, <2>3
  <1>9. CASE HangUp
    <2>1. stage' = stage /\ live' = live
      BY <1>9 DEF HangUp, vars, serverVars
    <2>2. PICK c \in Channels : sv[c] \notin {"none", "open"} /\ sv' = [sv EXCEPT ![c] = "closed"]
      BY <1>9 DEF HangUp
    <2> QED BY <1>4, <2>1, <2>2
  <1>10. CASE OpenMain
    <2>1. live' = TRUE /\ stage' = stage /\ sv' = [sv EXCEPT !["main"] = "open"]
      BY <1>10 DEF OpenMain, vars, serverVars
    <2> QED BY <1>1, <1>2, <2>1 DEF SessionIsLive
  <1>11. CASE OpenSub
    <2>1. stage' = stage /\ live' = live
      BY <1>11 DEF OpenSub, vars, serverVars
    <2>2. PICK c \in Channels \ {"main"} : /\ sv[c] = "linked"
                 /\ sv' = [sv EXCEPT ![c] = IF live THEN "open" ELSE "turned_away"]
      BY <1>11 DEF OpenSub
    <2>3. stage \in {"idle", "gone"}
      BY <1>2, <2>2 DEF SessionIsLive
    <2>4. live \/ stage = "gone"
      BY <2>3 DEF SessionIsLive
    <2>5. sv'["main"] = sv["main"] /\ \A d \in Channels : d # c => sv'[d] = sv[d]
      BY <1>1, <1>2, <2>2
    <2>6. sv'[c] = "turned_away" => ~live
      BY <1>1, <2>2
    <2> QED BY <1>2, <2>1, <2>3, <2>4, <2>5, <2>6 DEF SessionIsLive
  <1>12. CASE MainGone
    <2>1. sv' = sv /\ sv["main"] = "open" /\ stage' = "gone"
      BY <1>12 DEF MainGone, ServerGone
    <2> QED BY <2>1 DEF SessionIsLive
  <1>13. CASE TlsFails \/ PasswordTooLong \/ Refused \/ LinkBroken \/ MissingChannel \/ OtherFailure
    BY <1>3, <1>13, FailFacts
  <1>14. CASE UNCHANGED linkVars
    <2>1. sv' = sv /\ live' = live
      BY <1>14 DEF linkVars
    <2>2. CASE \/ BootServer(ServerStep) \/ BootServer(ServerChangesMode \/ ServerPings)
      <3>1. sv["main"] = "open" /\ stage # "gone" /\ (stage = "idle" => stage' = "idle")
        BY <2>2, ServerMovesOn DEF BootServer
      <3> QED BY <2>1, <3>1 DEF SessionIsLive
    <2>3. CASE BootClient \/ AllLinked
      <3>1. stage' = stage
        BY <2>3, ClientMovesOn DEF BootClient, AllLinked
      <3> QED BY <1>3, <2>1, <3>1
    <2>4. CASE UNCHANGED allVars
      BY <1>3, <2>1, <2>4 DEF allVars, vars, serverVars
    <2> QED BY <1>5, <1>6, <1>7, <1>8, <1>9, <1>10, <1>11, <1>12, <1>13, <2>2, <2>3, <2>4
            DEF ConnNext, ClientMoves, ServerMoves
  <1> QED BY <1>5, <1>6, <1>7, <1>8, <1>9, <1>10, <1>11, <1>12, <1>13, <1>14, LinkMoves

\* The framing is settled by what both ends advertise.
LEMMA FramingStep ==
    LinkTyped /\ FramingKnown /\ (ConnNext \/ UNCHANGED allVars) => FramingKnown'
  <1> SUFFICES ASSUME LinkTyped, FramingKnown, ConnNext \/ UNCHANGED allVars
               PROVE  FramingKnown'
    OBVIOUS
  <1>1. serverMini' = serverMini /\ serverMini \in BOOLEAN
    BY AskedBefore DEF askVars, LinkTyped
  <1>2. CASE Linked
    <2>1. /\ wire = "ok" /\ cl' = "linked" /\ wire' = "none" /\ sMini' = sMini
          /\ cMini' = (TRUE /\ serverMini)
      BY <1>2 DEF Linked, Framing
    <2>2. cMini' = serverMini
      BY <1>1, <2>1, Zenon
    <2> QED BY <1>1, <2>1, <2>2 DEF FramingKnown
  <1>3. CASE CheckTicket
    <2>1. cl' = cl /\ wire = "ticket" /\ wire' \in {"ok", "denied"}
      BY <1>3, Zenon DEF CheckTicket
    <2>2. wire' = "ok" => sMini' = (TRUE /\ serverMini)
      BY <1>3 DEF CheckTicket
    <2>3. wire' = "ok" => sMini' = serverMini
      BY <1>1, <2>2
    <2> QED BY <1>1, <2>1, <2>3 DEF FramingKnown
  <1>4. CASE FallBack \/ Dial \/ TlsUp \/ SendTicket \/ NextChannel
    BY <1>1, <1>4 DEF FallBack, Dial, TlsUp, SendTicket, NextChannel, FramingKnown
  <1>5. CASE AnswerMess
    <2>1. /\ UNCHANGED <<cl, cMini, sMini>> /\ wire = "mess"
          /\ wire' \in {"reply", "reply_error"}
      BY <1>5 DEF AnswerMess
    <2> QED BY <1>1, <2>1 DEF FramingKnown
  <1>6. CASE HangUp \/ OpenMain \/ OpenSub \/ MainGone
    BY <1>1, <1>6 DEF HangUp, OpenMain, OpenSub, MainGone, FramingKnown
  <1>7. CASE TlsFails \/ PasswordTooLong \/ Refused \/ LinkBroken \/ MissingChannel \/ OtherFailure
    BY <1>1, <1>7, FailFacts DEF FramingKnown
  <1>8. CASE UNCHANGED linkVars
    BY <1>1, <1>8 DEF linkVars, FramingKnown
  <1> QED BY <1>2, <1>3, <1>4, <1>5, <1>6, <1>7, <1>8, LinkMoves

\* What the user asked for is kept to, and a refusal is the end of it.
LEMMA FlagsStep ==
    LinkTyped /\ FlagsCount /\ (ConnNext \/ UNCHANGED allVars) => FlagsCount'
  <1> SUFFICES ASSUME LinkTyped, FlagsCount, ConnNext \/ UNCHANGED allVars
               PROVE  FlagsCount'
    OBVIOUS
  <1>1. asked' = asked /\ policy' = policy
    BY AskedBefore DEF askVars
  <1>2. ASSUME overTls' = overTls, refused' => phase' = "failed" /\ err' = "link"
        PROVE  FlagsCount'
    BY <1>1, <1>2 DEF FlagsCount
  <1>3. CASE FallBack
    <2>1. policy.how = "auto" /\ overTls' = FALSE /\ refused' = refused /\ err # "link"
      BY <1>3 DEF FallBack, LooksLikeTlsFailure
    <2> QED BY <1>1, <2>1 DEF FlagsCount
  <1>4. CASE \/ Dial \/ TlsUp \/ SendTicket \/ Linked \/ NextChannel
             \/ AnswerMess \/ CheckTicket \/ HangUp \/ OpenMain \/ OpenSub
    <2>1. UNCHANGED <<overTls, refused, err, phase>>
      BY <1>4 DEF Dial, TlsUp, SendTicket, Linked, NextChannel, AnswerMess, CheckTicket,
                  HangUp, OpenMain, OpenSub, vars, clientVars
    <2> QED BY <1>2, <2>1 DEF FlagsCount
  <1>5. CASE MainGone
    BY <1>2, <1>5 DEF MainGone, ServerGone, clientVars, FlagsCount
  <1>6. CASE TlsFails \/ PasswordTooLong \/ Refused \/ LinkBroken \/ MissingChannel \/ OtherFailure
    <2>1. /\ phase # "failed" /\ phase' = "failed" /\ overTls' = overTls
          /\ refused' = refused \/ (refused' = TRUE /\ err' = "link")
      BY <1>6, FailFacts
    <2> QED BY <1>2, <2>1 DEF FlagsCount
  <1>7. CASE UNCHANGED linkVars
    <2>1. UNCHANGED <<overTls, refused, err>>
      BY <1>7 DEF linkVars
    <2>2. CASE \/ BootServer(ServerStep) \/ BootServer(ServerChangesMode \/ ServerPings)
               \/ UNCHANGED allVars
      <3>1. phase' = phase
        BY <2>2, ServerMovesOn DEF BootServer, allVars, vars, clientVars
      <3> QED BY <1>2, <2>1, <3>1 DEF FlagsCount
    <2>3. CASE BootClient \/ AllLinked
      <3>1. phase # "failed"
        BY <2>3, ClientMovesOn DEF BootClient, AllLinked
      <3> QED BY <1>2, <2>1, <3>1 DEF FlagsCount
    <2> QED BY <1>3, <1>4, <1>5, <1>6, <2>2, <2>3 DEF ConnNext, ClientMoves, ServerMoves
  <1> QED BY <1>3, <1>4, <1>5, <1>6, <1>7, LinkMoves

\* No link has been made at the start, and the flags have been read.
LEMMA LinkInit == ConnInit => LinkInv
  <1> SUFFICES ASSUME ConnInit PROVE LinkInv
    OBVIOUS
  <1>1. /\ Init /\ todo = <<"main">> \o Wanted /\ sv = NoConnections
        /\ cl = "dial" /\ wire = "none" /\ err = "none" /\ refused = FALSE
        /\ overTls = (policy.how # "plain")
    BY DEF ConnInit
  <1>2. /\ policy.how \in {"plain", "tls", "auto"}
        /\ asked.tls => policy.how = "tls"
        /\ asked.plain => policy.how = "plain"
    <2>1. PICK n \in 0 .. MaxFlags : \E args \in [1 .. n -> Flags] :
             /\ policy = parse_tls_policy(args) /\ policy.how # "incompatible"
             /\ asked = [plain |-> Contains(args, "no_tls"),
                         tls |-> ToSet(args) \ {"no_tls"} # {}]
      BY DEF ConnInit
    <2>2. PICK args \in [1 .. n -> Flags] :
             /\ policy = parse_tls_policy(args) /\ policy.how # "incompatible"
             /\ asked = [plain |-> Contains(args, "no_tls"),
                         tls |-> ToSet(args) \ {"no_tls"} # {}]
      BY <2>1
    <2>3. CASE Contains(args, "no_tls")
      <3>1. policy.how = IF ToSet(args) = {"no_tls"} THEN "plain" ELSE "incompatible"
        BY <2>2, <2>3 DEF parse_tls_policy, Policy
      <3>2. ToSet(args) = {"no_tls"} /\ policy.how = "plain"
        BY <2>2, <3>1
      <3>3. ~asked.tls
        BY <2>2, <3>2
      <3> QED BY <3>2, <3>3
    <2>4. CASE ~Contains(args, "no_tls")
      <3>1. policy.how = IF ToSet(args) # {} THEN "tls" ELSE "auto"
        BY <2>2, <2>4 DEF parse_tls_policy, Policy
      <3>2. ~asked.plain
        BY <2>2, <2>4
      <3>3. asked.tls => ToSet(args) # {}
        BY <2>2
      <3> QED BY <3>1, <3>2, <3>3
    <2> QED BY <2>3, <2>4
  <1>3. serverMini \in BOOLEAN
    BY DEF ConnInit
  <1>4. LinkTyped
    BY <1>1, <1>2, <1>3, TodoFacts DEF LinkTyped, NoConnections
  <1>5. MainComesFirst
    BY <1>1, TodoFacts DEF MainComesFirst, NoConnections, Subs, Channels
  <1>6. SessionIsLive
    BY <1>1 DEF Init, SessionIsLive, NoConnections, Subs, Channels
  <1>7. FramingKnown /\ FlagsCount
    BY <1>1, <1>2 DEF FramingKnown, FlagsCount
  <1> QED BY <1>4, <1>5, <1>6, <1>7 DEF LinkInv

\* What is known of the bootstrap and of the links around it, always.
THEOREM ConnInvariance == ConnSpec => [](BootInv /\ LinkInv)
  <1>1. ConnInit => BootInv /\ LinkInv
    BY BootInit, LinkInit DEF ConnInit
  <1>2. BootInv /\ LinkInv /\ [ConnNext]_allVars => (BootInv /\ LinkInv)'
    <2> SUFFICES ASSUME BootInv, LinkInv, ConnNext \/ UNCHANGED allVars
                 PROVE  BootInv' /\ LinkInv'
      OBVIOUS
    <2>1. BootInv'
      BY BootMoves, BootStep, BootAgain DEF BootInv
    <2>2. LinkInv'
      BY LinkTypeStep, MainStep, SessionStep, FramingStep, FlagsStep DEF LinkInv
    <2> QED BY <2>1, <2>2
  <1> QED BY <1>1, <1>2, PTL DEF ConnSpec

-----------------------------------------------------------------------------
(***************************************************************************)
(* What follows.                                                           *)
(***************************************************************************)

\* The state of both ends and of what is between them has its type; in
\* particular a socket holds at most one frame more than its capacity.
THEOREM ConnTypeCorrect == ConnSpec => []ConnTypeOK
  <1>1. BootInv /\ LinkInv => ConnTypeOK
    <2> SUFFICES ASSUME BootTyped, DownFits, LinkTyped PROVE ConnTypeOK
      BY DEF BootInv, LinkInv
    <2>1. Len(out) <= 2
      <3>1. CASE out = <<"mouse_mode_request", "attach">>
        BY <3>1
      <3>2. CASE out = <<>>
        BY <3>2
      <3>3. CASE out \in {<<"ack_sync">>, <<"pong">>, <<"attach">>}
        <4>1. PICK s \in {"ack_sync", "pong", "attach"} : out = <<s>>
          BY <3>3
        <4> QED BY <4>1
      <3> QED BY <3>1, <3>2, <3>3 DEF BootTyped, Outs
    <2>2. Len(down) <= Cap + 1
      BY BootstrapAssumption, LenProperties DEF BootTyped, DownFits
    <2>3. TypeOK
      BY <2>1, <2>2 DEF BootTyped, TypeOK
    <2>4. ToSet(todo) \subseteq Channels
      BY LenProperties, ElementOfSeq DEF ToSet, LinkTyped
    <2> QED BY <2>3, <2>4 DEF ConnTypeOK, LinkTyped
  <1> QED BY <1>1, ConnInvariance, PTL

\* A client that has its CHANNELS_LIST knows its session, and nothing of
\* either bootstrap is left on its way (serve_main_bootstrap, bootstrap).
THEOREM BootstrapsEndInStep == ConnSpec => []BootstrapsMatch
  <1>1. BootInv => BootstrapsMatch
    <2> SUFFICES ASSUME BootTyped, PartsInOrder, ListComesLast, phase \in {"connect", "run"}
                 PROVE  /\ init # "none" /\ stage \in {"idle", "gone"}
                        /\ \A i \in DOMAIN up : up[i].op \notin {"mouse_mode_request", "attach"}
                        /\ \A i \in DOMAIN down : down[i].op \in {"ping", "notify", "mouse_mode"}
      BY DEF BootInv, BootstrapsMatch
    <2>1. init # "none" /\ stage \in {"idle", "gone"} /\ ~AskOnWay
      BY DEF ListComesLast, BootTyped
    <2>2. ASSUME NEW i \in DOMAIN down PROVE down[i].op \in {"ping", "notify", "mouse_mode"}
      <3>1. Rank(down[i].op) = 0
        BY DEF PartsInOrder
      <3>2. down \in Seq(DownFrame)
        BY DEF BootTyped, DownFrame
      <3>3. down[i] \in DownFrame
        BY ONLY <2>2, <3>2, Positions
      <3> QED BY <3>1, <3>3 DEF Rank, DownFrame, DownOps, Inits
    <2> QED BY <2>1, <2>2 DEF AskOnWay, Asks
  <1> QED BY <1>1, ConnInvariance, PTL

\* The embedder ends up with the server's mouse mode, whatever the server and
\* its guest do meanwhile, but for news that fell into the bootstrap (run_main).
THEOREM ModeIsKnown == ConnSpec => []KnownModeAgrees
  <1>1. BootInv => KnownModeAgrees
    <2> SUFFICES ASSUME BootTyped, NewsInv, Settled, ~missed PROVE reported = mode
      BY DEF BootInv, KnownModeAgrees
    <2>1. phase = "run" /\ stage = "idle" /\ DOMAIN down = {}
      BY DEF Settled
    <2> QED BY <2>1 DEF NewsInv
  <1> QED BY <1>1, ConnInvariance, PTL

\* Nothing is dialled again after a refusal, and nothing runs in plain, or over
\* TLS, against the user's flags (connect_with_policy, parse_tls_policy).
THEOREM FallBackIsAllowed == ConnSpec => []FallsBackOnlyIfAllowed
  <1>1. LinkInv => FallsBackOnlyIfAllowed
    BY DEF LinkInv, FlagsCount, FallsBackOnlyIfAllowed, RefusalIsFinal, TlsIsAsAsked
  <1> QED BY <1>1, ConnInvariance, PTL

\* Both ends of a link frame alike, and no sub-channel is turned away as long
\* as its session's main task lives (link_client, link_server, handle_server_conn).
THEOREM BothEndsAgree == ConnSpec => []LinksAgree
  <1>1. LinkInv => LinksAgree
    BY DEF LinkInv, FramingKnown, SessionIsLive, LinksAgree, FramingAgrees, SubChannelsWelcome
  <1> QED BY <1>1, ConnInvariance, PTL
=============================================================================
