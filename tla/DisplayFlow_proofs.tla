------------------------- MODULE DisplayFlow_proofs -------------------------
(***************************************************************************)
(* The display task's flow control is correct for every window, every      *)
(* buffer size and every number of messages.                               *)
(*                                                                         *)
(* NoStall and CreditIsEarned are not inductive: they follow from what the *)
(* messages in flight say.  The invariant IInv therefore follows the       *)
(* counters along the two directions of the socket: from the task's        *)
(* counters, message by message, to the server's (Downstream), and from    *)
(* the server's acknowledged count, ACK by ACK, to the task's (Upstream).  *)
(***************************************************************************)
EXTENDS DisplayFlow, SequenceTheorems, TLAPS

-----------------------------------------------------------------------------
\* Message m is the next one a server sends after the counters (g, w, n).
Follows(g, w, n, m) ==
    /\ m.kind = "set_ack" => m.gen = g + 1 /\ m.n = 0
    /\ m.kind # "set_ack" => m.gen = g /\ m.window = w
    /\ m.kind \in Counted => m.n = n + 1
    /\ m.kind \in {"ping", "migrate"} => m.n = n

\* Message m is the next one the task writes after the counters (g, w, upto).
Answers(g, w, upto, m) ==
    /\ m.kind = "ack_sync" => m.gen = g + 1 /\ m.upto = 0
    /\ m.kind # "ack_sync" => m.gen = g /\ m.window = w
    /\ m.kind = "ack" => m.upto = upto + w
    /\ m.kind = "pong" => m.upto = upto

\* cur is taken but its effect on the counters is still to come.
Pending == pc = "handle" \/ (pc = "note" /\ Counts(cur.kind))

\* The counters just before the first message of down.
BaseGen == IF Pending THEN cur.gen ELSE cgen
BaseWindow == IF Pending THEN cur.window ELSE ackWindow
BaseN == IF Pending THEN cur.n ELSE done

\* Nothing the server has sent is ahead of the server.
SentBy(g, w, n) == g <= gen /\ (g = gen => n <= sent /\ w = window)

ServerInv ==
    /\ window > 0 => sent - acked <= window
    /\ ~synced => acked = 0

SentInv ==
    /\ \A i \in 1 .. Len(down) : SentBy(down[i].gen, down[i].window, down[i].n)
    /\ Pending => SentBy(cur.gen, cur.window, cur.n)
    /\ SentBy(cgen, ackWindow, done)

\* The countdown agrees with the messages handled since the last ACK.
Countdown ==
    IF ackWindow = 0 THEN ackedTo = 0 /\ ackRemaining = 0
    ELSE /\ 1 <= ackRemaining /\ ackRemaining <= ackWindow
         /\ done = ackedTo + (ackWindow - ackRemaining)

\* From the task's counters along down to the server's.
Downstream ==
    pc # "exit" =>
      /\ Pending => Follows(cgen, ackWindow, done, cur)
      /\ down # <<>> => Follows(BaseGen, BaseWindow, BaseN, down[1])
      /\ \A i \in 1 .. Len(down) - 1 :
            Follows(down[i].gen, down[i].window, down[i].n, down[i + 1])
      /\ IF down = <<>>
         THEN BaseGen = gen /\ BaseWindow = window /\ BaseN = sent
         ELSE LET m == down[Len(down)]
              IN  m.gen = gen /\ m.window = window /\ m.n = sent

WrittenInv ==
    \A i \in 1 .. Len(up) :
      /\ up[i].gen <= cgen
      /\ up[i].gen = cgen => up[i].upto <= ackedTo /\ up[i].window = ackWindow
      /\ up[i].kind = "ack_sync" => up[i].upto = 0

\* From the server's acknowledged count along up to the task's.
Upstream ==
    /\ \A i \in 1 .. Len(up) - 1 :
          Answers(up[i].gen, up[i].window, up[i].upto, up[i + 1])
    /\ up # <<>> => LET m == up[Len(up)]
                    IN  m.gen = cgen /\ m.window = ackWindow /\ m.upto = ackedTo
    /\ synced => IF up = <<>> THEN cgen = gen /\ acked = ackedTo
                 ELSE Answers(gen, window, acked, up[1])
    /\ ~synced => IF up = <<>> THEN cgen < gen
                  ELSE up[1].gen < gen \/ up[1].kind = "ack_sync"

(***************************************************************************)
(* The inductive invariant: the counters of the server, of the task and of *)
(* every message in flight form one chain.                                 *)
(***************************************************************************)
IInv ==
    /\ TypeOK
    /\ ServerInv /\ SentInv /\ Countdown
    /\ Downstream /\ WrittenInv /\ Upstream

-----------------------------------------------------------------------------
(***************************************************************************)
(* Sequences: what appending and taking the head leave behind.             *)
(***************************************************************************)

\* A frame written to the socket is last, the others keep their places.
LEMMA AppendFacts ==
    ASSUME NEW S, NEW q \in Seq(S), NEW e \in S
    PROVE  /\ Append(q, e) \in Seq(S)
           /\ Len(q) \in Nat
           /\ Len(Append(q, e)) = Len(q) + 1
           /\ Append(q, e) # <<>>
           /\ Append(q, e)[Len(q) + 1] = e
           /\ \A i \in 1 .. Len(q) : Append(q, e)[i] = q[i]
  <1>1. Len(Append(q, e)) = Len(q) + 1 /\ Len(q) \in Nat
    BY LenProperties
  <1>2. Append(q, e) # <<>>
    BY <1>1, EmptySeq
  <1> QED BY <1>1, <1>2

\* Taking a frame off the socket shifts the others by one.
LEMMA TailFacts ==
    ASSUME NEW S, NEW q \in Seq(S), q # <<>>
    PROVE  /\ Len(q) \in Nat /\ Len(q) >= 1
           /\ Head(q) = q[1] /\ Head(q) \in S
           /\ Tail(q) \in Seq(S)
           /\ Len(Tail(q)) = Len(q) - 1
           /\ Tail(q) = <<>> <=> Len(q) = 1
           /\ \A i \in 1 .. Len(q) - 1 : Tail(q)[i] = q[i + 1]
  <1>1. Len(q) \in Nat \ {0}
    BY EmptySeq
  <1>2. /\ Head(q) \in S /\ Tail(q) \in Seq(S)
        /\ Len(Tail(q)) = Len(q) - 1
        /\ \A i \in 1 .. Len(Tail(q)) : Tail(q)[i] = q[i + 1]
    BY HeadTailProperties
  <1>3. Head(q) = q[1]
    BY <1>1
  <1>4. Tail(q) = <<>> <=> Len(Tail(q)) = 0
    BY <1>2, EmptySeq
  <1> QED BY <1>1, <1>2, <1>3, <1>4

-----------------------------------------------------------------------------
(***************************************************************************)
(* Type correctness.                                                       *)
(***************************************************************************)

\* One step of the server, the embedder or the task keeps the types.
LEMMA TypeStep == TypeOK /\ [Next]_vars => TypeOK'
  <1> SUFFICES ASSUME TypeOK, [Next]_vars PROVE TypeOK'
    OBVIOUS
  <1> USE WindowsAssumption, BoundsAssumption
  <1> USE DEF TypeOK, ChannelTypeOK
  <1>1. CASE UNCHANGED vars
    BY <1>1 DEF vars, channelVars, ackVars
  <1>2. CASE Environment
    <2>1. CASE ServerStep
      <3> USE <1>2, <2>1 DEF Environment, ackVars, serverVars, embedderVars, historyVars
      <3>1. ASSUME NEW kind \in {"event", "quiet"}, NEW ok \in BOOLEAN, ServerSend(kind, ok)
            PROVE  TypeOK'
        <4>1. Down(kind, ok, gen, window, sent + 1) \in DownMsg
          BY DEF Down, DownMsg, Counted
        <4>2. down' = Append(down, Down(kind, ok, gen, window, sent + 1)) /\ Len(down) < DownCap
          BY <3>1 DEF ServerSend
        <4>3. down' \in Seq(DownMsg) /\ Len(down') <= DownCap
          BY <4>1, <4>2, AppendFacts
        <4> QED BY <3>1, <4>3 DEF ServerSend
      <3>2. ASSUME NEW kind \in {"ping", "migrate"}, NEW ok \in BOOLEAN, ServerControl(kind, ok)
            PROVE  TypeOK'
        <4>1. Down(kind, ok, gen, window, sent) \in DownMsg
          BY DEF Down, DownMsg, Uncounted
        <4>2. down' = Append(down, Down(kind, ok, gen, window, sent)) /\ Len(down) < DownCap
          BY <3>2 DEF ServerControl
        <4>3. down' \in Seq(DownMsg) /\ Len(down') <= DownCap
          BY <4>1, <4>2, AppendFacts
        <4> QED BY <3>2, <4>3 DEF ServerControl
      <3>3. ASSUME NEW w \in Windows, NEW ok \in BOOLEAN, ServerSetAck(w, ok)
            PROVE  TypeOK'
        <4>1. Down("set_ack", ok, gen + 1, w, 0) \in DownMsg
          BY DEF Down, DownMsg, Uncounted
        <4>2. down' = Append(down, Down("set_ack", ok, gen + 1, w, 0)) /\ Len(down) < DownCap
          BY <3>3 DEF ServerSetAck
        <4>3. down' \in Seq(DownMsg) /\ Len(down') <= DownCap
          BY <4>1, <4>2, AppendFacts
        <4>4. w \in Nat
          OBVIOUS
        <4>5. gen' = gen + 1 /\ window' = w /\ sent' = 0 /\ acked' = 0
          BY <3>3 DEF ServerSetAck
        <4>6. synced' \in BOOLEAN
          BY <3>3 DEF ServerSetAck
        <4>7. UNCHANGED <<conn, up, pc, cur, embedderVars, historyVars>>
          BY <3>3 DEF ServerSetAck
        <4> QED BY <4>3, <4>4, <4>5, <4>6, <4>7
      <3>4. CASE ServerRecv
        BY <3>4, TailFacts DEF ServerRecv
      <3>5. CASE ServerClose
        BY <3>5 DEF ServerClose
      <3> QED BY <2>1, <3>1, <3>2, <3>3, <3>4, <3>5, OksAssumption DEF ServerStep
    <2>2. CASE EmbedderStep
      <3> USE <1>2 DEF Environment, ackVars, serverVars, embedderVars, historyVars
      <3>1. CASE EmbedderRecv
        BY <3>1 DEF EmbedderRecv
      <3>2. CASE OtherTaskPosts
        BY <3>2 DEF OtherTaskPosts
      <3>3. CASE DropClient
        BY <3>3 DEF DropClient
      <3>4. CASE Abort
        BY <3>4 DEF Abort
      <3> QED BY <2>2, <3>1, <3>2, <3>3, <3>4 DEF EmbedderStep
    <2> QED BY <1>2, <2>1, <2>2 DEF Environment
  <1>3. CASE TaskStep
    <2> USE DEF ackVars, serverVars, embedderVars, historyVars
    <2>1. CASE Read
      BY <2>1, TailFacts DEF Read, Take
    <2>2. CASE ReadFails \/ DecodeFails \/ WriteFails \/ HandleQuiet \/ NoteUncounted
      BY <2>2 DEF ReadFails, DecodeFails, WriteFails, HandleQuiet, NoteUncounted, Loop
    <2>3. CASE HandlePing
      <3>1. Up("pong", cgen, ackWindow, ackedTo) \in UpMsg
        BY DEF Up, UpMsg
      <3> QED BY <2>3, <3>1, AppendFacts DEF HandlePing, Write
    <2>4. CASE HandleSetAck
      <3>1. cur.gen \in Nat /\ cur.window \in Nat
        BY DEF DownMsg
      <3>2. Up("ack_sync", cur.gen, cur.window, 0) \in UpMsg
        BY <3>1 DEF Up, UpMsg
      <3> QED BY <2>4, <3>1, <3>2, AppendFacts DEF HandleSetAck, Write, OnSetAck
    <2>5. CASE HandleEvent
      BY <2>5 DEF HandleEvent, Post
    <2>6. CASE NoteCounted
      <3>1. Up("ack", cgen, ackWindow, ackedTo + ackWindow) \in UpMsg
        BY DEF Up, UpMsg
      <3>2. NoteMessage(ackWindow, ackRemaining) \in Nat
        BY DEF NoteMessage, Refilled
      <3>3. up' \in Seq(UpMsg) /\ Len(up') <= UpCap
        <4>1. CASE AckDue(ackWindow, ackRemaining)
          <5>1. Write(Up("ack", cgen, ackWindow, ackedTo + ackWindow))
            BY <2>6, <4>1 DEF NoteCounted
          <5> QED BY <3>1, <5>1, AppendFacts DEF Write
        <4>2. CASE ~AckDue(ackWindow, ackRemaining)
          BY <2>6, <4>2 DEF NoteCounted
        <4> QED BY <4>1, <4>2
      <3>4. ackRemaining' \in Nat /\ ackedTo' \in Nat /\ done' \in Nat
        BY <2>6, <3>2 DEF NoteCounted
      <3>5. pc' \in {"read", "handle", "note", "exit"}
        BY <2>6 DEF NoteCounted, Loop
      <3> QED BY <2>6, <3>3, <3>4, <3>5 DEF NoteCounted
    <2> QED BY <1>3, <2>1, <2>2, <2>3, <2>4, <2>5, <2>6 DEF TaskStep
  <1> QED BY <1>1, <1>2, <1>3 DEF Next

\* Every variable keeps its type, and neither the socket buffers nor the
\* embedder's mailbox ever overflow.
THEOREM TypeCorrect == Spec => []TypeOK
  <1>1. Init => TypeOK
    BY BoundsAssumption DEF Init, ChannelInit, TypeOK, ChannelTypeOK, NoMsg, Down, DownMsg, Counted
  <1> QED BY <1>1, TypeStep, PTL DEF Spec

-----------------------------------------------------------------------------
(***************************************************************************)
(* The inductive step, one lemma per way of moving the two chains.         *)
(***************************************************************************)

\* The fields of every message at hand are numbers.
LEMMA MessageTypes ==
    ASSUME TypeOK
    PROVE  /\ \A i \in 1 .. Len(down) :
                 /\ down[i] \in DownMsg
                 /\ down[i].gen \in Nat /\ down[i].window \in Nat /\ down[i].n \in Nat
           /\ \A i \in 1 .. Len(up) :
                 /\ up[i] \in UpMsg
                 /\ up[i].gen \in Nat /\ up[i].window \in Nat /\ up[i].upto \in Nat
                 /\ up[i].kind \in {"pong", "ack_sync", "ack"}
           /\ cur.gen \in Nat /\ cur.window \in Nat /\ cur.n \in Nat
           /\ cur.kind \in Uncounted \cup Counted
           /\ Len(down) \in Nat /\ Len(up) \in Nat
           /\ down # <<>> => Len(down) >= 1
           /\ up # <<>> => Len(up) >= 1
  <1>1. down \in Seq(DownMsg) /\ up \in Seq(UpMsg) /\ cur \in DownMsg
    BY DEF TypeOK, ChannelTypeOK
  <1>2. \A i \in 1 .. Len(down) : down[i] \in DownMsg
    BY <1>1, ElementOfSeq
  <1>3. \A i \in 1 .. Len(up) : up[i] \in UpMsg
    BY <1>1, ElementOfSeq
  <1>4. /\ Len(down) \in Nat /\ Len(up) \in Nat
        /\ down # <<>> => Len(down) >= 1
        /\ up # <<>> => Len(up) >= 1
    BY <1>1, EmptySeq, LenProperties
  <1> QED BY <1>1, <1>2, <1>3, <1>4 DEF DownMsg, UpMsg

\* A message the server adds at the end of down extends the downstream chain.
LEMMA ServerAppends ==
    ASSUME IInv, NEW m \in DownMsg,
           down' = Append(down, m), Follows(gen, window, sent, m),
           gen' = m.gen, window' = m.window, sent' = m.n,
           UNCHANGED <<pc, cur, cgen, ackWindow, done>>
    PROVE  SentInv' /\ Downstream'
  <1> USE DEF IInv
  <1>1. TypeOK
    OBVIOUS
  <1>2. down \in Seq(DownMsg)
    BY <1>1 DEF TypeOK, ChannelTypeOK
  <1>3. /\ Len(down) \in Nat /\ Len(down') = Len(down) + 1 /\ down' # <<>>
        /\ down'[Len(down) + 1] = m
        /\ \A i \in 1 .. Len(down) : down'[i] = down[i]
    BY <1>2, AppendFacts
  <1>4. m.gen \in Nat /\ m.window \in Nat /\ m.n \in Nat /\ m.kind \in Uncounted \cup Counted
    BY DEF DownMsg
  <1>5. /\ gen \in Nat /\ window \in Nat /\ sent \in Nat
        /\ cgen \in Nat /\ ackWindow \in Nat /\ done \in Nat
    BY <1>1 DEF TypeOK, ChannelTypeOK
  <1>6. /\ gen <= gen'
        /\ gen' = gen => sent <= sent' /\ window' = window
    BY <1>4, <1>5 DEF Follows, Counted, Uncounted
  <1>7. ASSUME NEW g \in Nat, NEW w \in Nat, NEW n \in Nat, SentBy(g, w, n)
        PROVE  SentBy(g, w, n)'
    BY <1>4, <1>5, <1>6, <1>7 DEF SentBy
  <1>8. SentInv'
    <2>1. ASSUME NEW i \in 1 .. Len(down')
          PROVE  SentBy(down[i].gen, down[i].window, down[i].n)'
      <3>1. CASE i = Len(down) + 1
        BY <1>3, <1>4, <3>1 DEF SentBy
      <3>2. CASE i # Len(down) + 1
        <4>1. i \in 1 .. Len(down)
          BY <1>3, <3>2
        <4>2. SentBy(down[i].gen, down[i].window, down[i].n)
          BY <4>1 DEF SentInv
        <4> QED BY <1>1, <1>3, <1>7, <4>1, <4>2, MessageTypes
      <3> QED BY <3>1, <3>2
    <2>2. Pending' => SentBy(cur.gen, cur.window, cur.n)'
      BY <1>1, <1>7, MessageTypes DEF SentInv, Pending
    <2>3. SentBy(cgen, ackWindow, done)'
      BY <1>5, <1>7 DEF SentInv
    <2> QED BY <2>1, <2>2, <2>3 DEF SentInv
  <1>9. Downstream'
    <2> SUFFICES ASSUME pc # "exit" PROVE Downstream'
      BY DEF Downstream
    <2>1. Pending' = Pending /\ BaseGen' = BaseGen /\ BaseWindow' = BaseWindow /\ BaseN' = BaseN
      BY DEF Pending, BaseGen, BaseWindow, BaseN
    <2>2. Pending' => Follows(cgen, ackWindow, done, cur)'
      BY <2>1 DEF Downstream, Follows
    <2>3. Follows(BaseGen, BaseWindow, BaseN, down[1])'
      <3>1. CASE down = <<>>
        <4>1. Len(down) = 0
          BY <3>1
        <4>2. down'[1] = m /\ BaseGen = gen /\ BaseWindow = window /\ BaseN = sent
          BY <1>3, <3>1, <4>1 DEF Downstream
        <4> QED BY <2>1, <4>2 DEF Follows
      <3>2. CASE down # <<>>
        <4>1. down'[1] = down[1]
          BY <1>1, <1>3, <3>2, MessageTypes
        <4>2. Follows(BaseGen, BaseWindow, BaseN, down[1])
          BY <3>2 DEF Downstream
        <4> QED BY <2>1, <4>1, <4>2 DEF Follows
      <3> QED BY <3>1, <3>2
    <2>4. ASSUME NEW i \in 1 .. Len(down') - 1
          PROVE  Follows(down[i].gen, down[i].window, down[i].n, down[i + 1])'
      <3>1. i \in 1 .. Len(down) /\ down'[i] = down[i]
        BY <1>3
      <3>2. CASE i = Len(down)
        <4>1. down # <<>>
          BY <1>3, <3>1, <3>2
        <4>2. down[i].gen = gen /\ down[i].window = window /\ down[i].n = sent
          BY <3>2, <4>1 DEF Downstream
        <4> QED BY <1>3, <3>1, <3>2, <4>2 DEF Follows
      <3>3. CASE i # Len(down)
        <4>1. i \in 1 .. Len(down) - 1 /\ i + 1 \in 1 .. Len(down)
          BY <1>3, <3>1, <3>3
        <4>2. Follows(down[i].gen, down[i].window, down[i].n, down[i + 1])
          BY <4>1 DEF Downstream
        <4>3. down'[i + 1] = down[i + 1]
          BY <1>3, <4>1
        <4> QED BY <3>1, <4>2, <4>3 DEF Follows
      <3> QED BY <3>2, <3>3
    <2> QED BY <1>3, <2>2, <2>3, <2>4 DEF Downstream
  <1> QED BY <1>8, <1>9

\* A message the task writes at the end of up extends the upstream chain.
LEMMA TaskWrites ==
    ASSUME IInv, NEW m \in UpMsg,
           up' = Append(up, m), Answers(cgen, ackWindow, ackedTo, m),
           cgen' = m.gen, ackWindow' = m.window, ackedTo' = m.upto,
           UNCHANGED <<gen, window, acked, synced>>
    PROVE  WrittenInv' /\ Upstream'
  <1> USE DEF IInv
  <1>1. TypeOK
    OBVIOUS
  <1>2. up \in Seq(UpMsg)
    BY <1>1 DEF TypeOK, ChannelTypeOK
  <1>3. /\ Len(up) \in Nat /\ Len(up') = Len(up) + 1 /\ up' # <<>>
        /\ up'[Len(up) + 1] = m
        /\ \A i \in 1 .. Len(up) : up'[i] = up[i]
    BY <1>2, AppendFacts
  <1>4. /\ m.gen \in Nat /\ m.window \in Nat /\ m.upto \in Nat
        /\ m.kind \in {"pong", "ack_sync", "ack"}
    BY DEF UpMsg
  <1>5. /\ gen \in Nat /\ window \in Nat /\ acked \in Nat /\ synced \in BOOLEAN
        /\ cgen \in Nat /\ ackWindow \in Nat /\ ackedTo \in Nat
    BY <1>1 DEF TypeOK, ChannelTypeOK
  <1>6. cgen <= cgen' /\ (cgen' = cgen => ackedTo <= ackedTo' /\ ackWindow' = ackWindow)
    BY <1>4, <1>5 DEF Answers
  <1>7. WrittenInv'
    <2> SUFFICES ASSUME NEW i \in 1 .. Len(up')
                 PROVE  /\ up'[i].gen <= cgen'
                        /\ up'[i].gen = cgen' =>
                              up'[i].upto <= ackedTo' /\ up'[i].window = ackWindow'
                        /\ up'[i].kind = "ack_sync" => up'[i].upto = 0
      BY DEF WrittenInv
    <2>1. CASE i = Len(up) + 1
      BY <1>3, <1>4, <2>1 DEF Answers
    <2>2. CASE i # Len(up) + 1
      <3>1. i \in 1 .. Len(up) /\ up'[i] = up[i]
        BY <1>3, <2>2
      <3>2. up[i].gen \in Nat /\ up[i].upto \in Nat
        BY <1>1, <3>1, MessageTypes
      <3>3. /\ up[i].gen <= cgen
            /\ up[i].gen = cgen => up[i].upto <= ackedTo /\ up[i].window = ackWindow
            /\ up[i].kind = "ack_sync" => up[i].upto = 0
        BY <3>1 DEF WrittenInv
      <3> QED BY <1>4, <1>5, <1>6, <3>1, <3>2, <3>3
    <2> QED BY <2>1, <2>2
  <1>8. Upstream'
    <2>1. ASSUME NEW i \in 1 .. Len(up') - 1
          PROVE  Answers(up[i].gen, up[i].window, up[i].upto, up[i + 1])'
      <3>1. i \in 1 .. Len(up) /\ up'[i] = up[i]
        BY <1>3
      <3>2. CASE i = Len(up)
        <4>1. up # <<>>
          BY <1>3, <3>1, <3>2
        <4>2. up[i].gen = cgen /\ up[i].window = ackWindow /\ up[i].upto = ackedTo
          BY <3>2, <4>1 DEF Upstream
        <4> QED BY <1>3, <3>1, <3>2, <4>2 DEF Answers
      <3>3. CASE i # Len(up)
        <4>1. i \in 1 .. Len(up) - 1 /\ i + 1 \in 1 .. Len(up)
          BY <1>3, <3>1, <3>3
        <4>2. Answers(up[i].gen, up[i].window, up[i].upto, up[i + 1])
          BY <4>1 DEF Upstream
        <4>3. up'[i + 1] = up[i + 1]
          BY <1>3, <4>1
        <4> QED BY <3>1, <4>2, <4>3 DEF Answers
      <3> QED BY <3>2, <3>3
    <2>2. CASE up = <<>>
      <3>1. Len(up) = 0 /\ up'[1] = m
        BY <1>3, <2>2
      <3>2. synced => Answers(gen, window, acked, m)
        <4> SUFFICES ASSUME synced PROVE Answers(gen, window, acked, m)
          OBVIOUS
        <4>1. cgen = gen /\ acked = ackedTo
          BY <2>2 DEF Upstream
        <4>2. ackWindow = window
          BY <4>1 DEF SentInv, SentBy
        <4> QED BY <4>1, <4>2
      <3>3. ~synced => m.gen < gen \/ m.kind = "ack_sync"
        BY <1>4, <1>5, <2>2 DEF Upstream, Answers
      <3> QED BY <1>3, <2>1, <3>1, <3>2, <3>3 DEF Upstream, Answers
    <2>3. CASE up # <<>>
      <3>1. up'[1] = up[1]
        BY <1>1, <1>3, <2>3, MessageTypes
      <3>2. synced => Answers(gen, window, acked, up[1])
        BY <2>3 DEF Upstream
      <3>3. ~synced => up[1].gen < gen \/ up[1].kind = "ack_sync"
        BY <2>3 DEF Upstream
      <3> QED BY <1>3, <2>1, <3>1, <3>2, <3>3 DEF Upstream, Answers
    <2> QED BY <2>2, <2>3
  <1> QED BY <1>7, <1>8

\* Steps that touch neither end of up, nor the counters it runs between, keep it.
LEMMA UpstreamUntouched ==
    ASSUME IInv, UNCHANGED <<gen, window, acked, synced, up, cgen, ackWindow, ackedTo>>
    PROVE  WrittenInv' /\ Upstream'
  BY DEF IInv, WrittenInv, Upstream, Answers

\* Steps that touch neither end of down, nor the counters it runs between, keep it.
LEMMA DownstreamUntouched ==
    ASSUME IInv,
           UNCHANGED <<gen, window, sent, down, cur, cgen, ackWindow, done>>,
           \/ pc' = pc \/ pc' = "exit"
           \/ pc = "handle" /\ pc' = "note" /\ Counts(cur.kind)
           \/ pc = "note" /\ ~Counts(cur.kind) /\ pc' = "read"
    PROVE  SentInv' /\ Downstream'
  <1>1. Pending' => Pending
    BY DEF Pending
  <1>2. SentInv'
    BY <1>1 DEF IInv, SentInv, SentBy
  <1>3. CASE pc' = "exit"
    BY <1>2, <1>3 DEF Downstream
  <1>4. CASE pc' # "exit"
    <2>1. pc # "exit" /\ Pending' = Pending
      BY <1>4 DEF Pending
    <2>2. BaseGen' = BaseGen /\ BaseWindow' = BaseWindow /\ BaseN' = BaseN
      BY <2>1 DEF BaseGen, BaseWindow, BaseN
    <2> QED BY <1>2, <2>1, <2>2 DEF IInv, Downstream, Follows
  <1> QED BY <1>3, <1>4

\* Taking the first message off down makes it the pending one.
LEMMA TaskTakes ==
    ASSUME IInv, Read
    PROVE  SentInv' /\ Downstream'
  <1> USE DEF IInv
  <1>1. down \in Seq(DownMsg) /\ down # <<>> /\ cur' = Head(down) /\ down' = Tail(down)
    BY DEF TypeOK, ChannelTypeOK, Read, Take
  <1>2. /\ Len(down) \in Nat /\ Len(down) >= 1 /\ cur' = down[1]
        /\ Len(down') = Len(down) - 1
        /\ down' = <<>> <=> Len(down) = 1
        /\ \A i \in 1 .. Len(down) - 1 : down'[i] = down[i + 1]
    BY <1>1, TailFacts
  <1>3. /\ pc = "read" /\ pc' = "handle" /\ ~Pending /\ Pending'
        /\ UNCHANGED <<gen, window, sent, cgen, ackWindow, done>>
    BY DEF Read, Take, Pending, serverVars, historyVars, ackVars
  <1>4. SentInv'
    <2>1. ASSUME NEW i \in 1 .. Len(down')
          PROVE  SentBy(down[i].gen, down[i].window, down[i].n)'
      <3>1. i + 1 \in 1 .. Len(down) /\ down'[i] = down[i + 1]
        BY <1>2
      <3>2. SentBy(down[i + 1].gen, down[i + 1].window, down[i + 1].n)
        BY <3>1 DEF SentInv
      <3> QED BY <1>3, <3>1, <3>2 DEF SentBy
    <2>2. SentBy(down[1].gen, down[1].window, down[1].n)
      BY <1>2 DEF SentInv
    <2>3. SentBy(cgen, ackWindow, done)
      BY DEF SentInv
    <2> QED BY <1>2, <1>3, <2>1, <2>2, <2>3 DEF SentInv, SentBy
  <1>5. Downstream'
    <2>1. /\ Follows(cgen, ackWindow, done, down[1])
          /\ \A i \in 1 .. Len(down) - 1 :
                Follows(down[i].gen, down[i].window, down[i].n, down[i + 1])
          /\ LET m == down[Len(down)]
             IN  m.gen = gen /\ m.window = window /\ m.n = sent
      BY <1>1, <1>3 DEF Downstream, BaseGen, BaseWindow, BaseN
    <2>2. BaseGen' = down[1].gen /\ BaseWindow' = down[1].window /\ BaseN' = down[1].n
      BY <1>2, <1>3 DEF BaseGen, BaseWindow, BaseN
    <2>3. Follows(cgen, ackWindow, done, cur)'
      BY <1>2, <1>3, <2>1 DEF Follows
    <2>4. down' # <<>> => Follows(BaseGen, BaseWindow, BaseN, down[1])'
      <3> SUFFICES ASSUME down' # <<>> PROVE Follows(BaseGen, BaseWindow, BaseN, down[1])'
        OBVIOUS
      <3>1. 1 \in 1 .. Len(down) - 1
        BY <1>2
      <3>2. down'[1] = down[2] /\ Follows(down[1].gen, down[1].window, down[1].n, down[2])
        BY <1>2, <2>1, <3>1
      <3> QED BY <2>2, <3>2 DEF Follows
    <2>5. ASSUME NEW i \in 1 .. Len(down') - 1
          PROVE  Follows(down[i].gen, down[i].window, down[i].n, down[i + 1])'
      <3>1. /\ i \in 1 .. Len(down) - 1 /\ i + 1 \in 1 .. Len(down) - 1
            /\ down'[i] = down[i + 1] /\ down'[i + 1] = down[i + 1 + 1]
        BY <1>2
      <3>2. Follows(down[i + 1].gen, down[i + 1].window, down[i + 1].n, down[i + 1 + 1])
        BY <2>1, <3>1
      <3> QED BY <3>1, <3>2 DEF Follows
    <2>6. IF down' = <<>>
          THEN BaseGen' = gen' /\ BaseWindow' = window' /\ BaseN' = sent'
          ELSE down'[Len(down')].gen = gen' /\ down'[Len(down')].window = window'
               /\ down'[Len(down')].n = sent'
      <3>1. CASE down' = <<>>
        BY <1>2, <1>3, <2>1, <2>2, <3>1
      <3>2. CASE down' # <<>>
        <4>1. Len(down') \in 1 .. Len(down) - 1 /\ Len(down') + 1 = Len(down)
          BY <1>2, <3>2
        <4>2. down'[Len(down')] = down[Len(down)]
          BY <1>2, <4>1
        <4> QED BY <1>3, <2>1, <3>2, <4>2
      <3> QED BY <3>1, <3>2
    <2> QED BY <2>3, <2>4, <2>5, <2>6 DEF Downstream
  <1> QED BY <1>4, <1>5

\* Once the pending message has had its effect, the task's counters are its stamps.
LEMMA PendingAbsorbed ==
    ASSUME IInv, Pending, ~Pending', UNCHANGED <<gen, window, sent, down>>,
           cgen' = cur.gen, ackWindow' = cur.window, done' = cur.n
    PROVE  SentInv' /\ Downstream'
  <1>1. pc # "exit"
    BY DEF Pending
  <1>2. /\ BaseGen' = BaseGen /\ BaseWindow' = BaseWindow /\ BaseN' = BaseN
    BY DEF BaseGen, BaseWindow, BaseN
  <1>3. SentInv'
    BY DEF IInv, SentInv, SentBy
  <1>4. Downstream'
    BY <1>1, <1>2 DEF IInv, Downstream, Follows
  <1> QED BY <1>3, <1>4

\* The server takes the first message off up.
LEMMA ServerTakes ==
    ASSUME IInv, ServerRecv, UNCHANGED <<ackWindow, ackedTo>>
    PROVE  ServerInv' /\ WrittenInv' /\ Upstream'
  <1> USE DEF IInv
  <1> DEFINE m == up[1]
  <1>1. up \in Seq(UpMsg) /\ up # <<>> /\ up' = Tail(up)
    BY DEF TypeOK, ChannelTypeOK, ServerRecv
  <1>2. /\ Len(up) \in Nat /\ Len(up) >= 1 /\ Head(up) = m
        /\ Len(up') = Len(up) - 1
        /\ up' = <<>> <=> Len(up) = 1
        /\ \A i \in 1 .. Len(up) - 1 : up'[i] = up[i + 1]
    BY <1>1, TailFacts
  <1>3. /\ UNCHANGED <<gen, window, sent, cgen>>
        /\ synced' = (synced \/ (m.kind = "ack_sync" /\ m.gen = gen))
        /\ acked' = IF m.kind = "ack" /\ synced THEN acked + window ELSE acked
    BY <1>2 DEF ServerRecv, historyVars
  <1>4. /\ gen \in Nat /\ window \in Nat /\ sent \in Nat /\ acked \in Nat
        /\ cgen \in Nat /\ ackWindow \in Nat /\ ackedTo \in Nat /\ synced \in BOOLEAN
        /\ m.gen \in Nat /\ m.window \in Nat /\ m.upto \in Nat
        /\ m.kind \in {"pong", "ack_sync", "ack"}
    BY <1>2, MessageTypes DEF TypeOK, ChannelTypeOK
  <1>5. /\ m.gen <= cgen
        /\ m.gen = cgen => m.upto <= ackedTo /\ m.window = ackWindow
        /\ m.kind = "ack_sync" => m.upto = 0
        /\ cgen <= gen /\ (cgen = gen => ackWindow = window)
    BY <1>2 DEF WrittenInv, SentInv, SentBy
  <1>6. /\ synced => Answers(gen, window, acked, m)
        /\ ~synced => m.gen < gen \/ m.kind = "ack_sync"
    BY <1>1 DEF Upstream
  <1>7. synced => m.kind # "ack_sync"
    BY <1>4, <1>5, <1>6 DEF Answers
  <1>8. ServerInv'
    BY <1>3, <1>4 DEF ServerInv
  <1>9. WrittenInv'
    <2> SUFFICES ASSUME NEW i \in 1 .. Len(up')
                 PROVE  /\ up'[i].gen <= cgen'
                        /\ up'[i].gen = cgen' =>
                              up'[i].upto <= ackedTo' /\ up'[i].window = ackWindow'
                        /\ up'[i].kind = "ack_sync" => up'[i].upto = 0
      BY DEF WrittenInv
    <2>1. i + 1 \in 1 .. Len(up) /\ up'[i] = up[i + 1]
      BY <1>2
    <2> QED BY <1>3, <2>1 DEF WrittenInv
  <1>10. synced' => m.gen = gen' /\ m.window = window' /\ m.upto = acked'
    <2>1. CASE synced
      BY <1>3, <1>4, <1>6, <1>7, <2>1 DEF Answers
    <2>2. CASE ~synced
      <3> SUFFICES ASSUME synced' PROVE m.gen = gen' /\ m.window = window' /\ m.upto = acked'
        OBVIOUS
      <3>1. m.kind = "ack_sync" /\ m.gen = gen /\ acked' = acked /\ acked = 0
        BY <1>3, <2>2 DEF ServerInv
      <3>2. m.window = window
        BY <1>4, <1>5, <3>1
      <3>3. m.upto = 0
        BY <1>5, <3>1
      <3> QED BY <1>3, <3>1, <3>2, <3>3
    <2> QED BY <2>1, <2>2
  <1>11. ~synced' => ~synced /\ (m.kind = "ack_sync" => m.gen < gen)
    <2>1. m.gen # gen => m.gen < gen
      BY <1>4, <1>5
    <2>2. ~synced' => ~synced /\ ~(m.kind = "ack_sync" /\ m.gen = gen)
      BY <1>3, Zenon
    <2> QED BY <2>1, <2>2, Zenon
  <1>12. ~synced' => m.gen < gen
    BY <1>6, <1>11
  <1>13. Upstream'
    <2>1. ASSUME NEW i \in 1 .. Len(up') - 1
          PROVE  Answers(up[i].gen, up[i].window, up[i].upto, up[i + 1])'
      <3>1. /\ i + 1 \in 1 .. Len(up) - 1
            /\ up'[i] = up[i + 1] /\ up'[i + 1] = up[i + 1 + 1]
        BY <1>2
      <3>2. Answers(up[i + 1].gen, up[i + 1].window, up[i + 1].upto, up[i + 1 + 1])
        BY <3>1 DEF Upstream
      <3> QED BY <3>1, <3>2 DEF Answers
    <2>2. CASE up' = <<>>
      <3>1. m.gen = cgen /\ m.window = ackWindow /\ m.upto = ackedTo
        BY <1>1, <1>2, <2>2 DEF Upstream
      <3> QED BY <1>3, <1>10, <1>12, <2>1, <2>2, <3>1 DEF Upstream
    <2>3. CASE up' # <<>>
      <3>1. 1 \in 1 .. Len(up) - 1 /\ Len(up') \in 1 .. Len(up) - 1 /\ Len(up') + 1 = Len(up)
        BY <1>2, <2>3
      <3>2. up'[1] = up[2] /\ up'[Len(up')] = up[Len(up)]
        BY <1>2, <3>1
      <3>3. Answers(m.gen, m.window, m.upto, up[2])
        BY <3>1 DEF Upstream
      <3>4. up[2].gen \in Nat /\ up[2].gen <= cgen /\ up[2].kind \in {"pong", "ack_sync", "ack"}
        BY <3>1, MessageTypes DEF WrittenInv
      <3>5. LET l == up'[Len(up')]
            IN  l.gen = cgen' /\ l.window = ackWindow' /\ l.upto = ackedTo'
        BY <1>1, <1>3, <3>2 DEF Upstream
      <3>6. synced' => Answers(gen', window', acked', up'[1])
        BY <1>10, <3>2, <3>3
      <3>7. ~synced' => up'[1].gen < gen' \/ up'[1].kind = "ack_sync"
        BY <1>3, <1>12, <3>2, <3>3, <3>4 DEF Answers
      <3> QED BY <2>1, <2>3, <3>5, <3>6, <3>7 DEF Upstream
    <2> QED BY <2>2, <2>3
  <1> QED BY <1>8, <1>9, <1>13

-----------------------------------------------------------------------------
\* The initial state satisfies the invariant.
LEMMA InitIInv == Init => IInv
  <1> SUFFICES ASSUME Init PROVE IInv
    OBVIOUS
  <1>1. TypeOK
    BY BoundsAssumption DEF Init, ChannelInit, TypeOK, ChannelTypeOK, NoMsg, Down, DownMsg, Counted
  <1>2. /\ gen = 0 /\ window = 0 /\ sent = 0 /\ acked = 0 /\ synced
        /\ down = <<>> /\ Len(down) = 0 /\ up = <<>> /\ Len(up) = 0 /\ pc = "read"
        /\ cgen = 0 /\ done = 0 /\ ackWindow = 0 /\ ackRemaining = 0 /\ ackedTo = 0
    BY DEF Init, ChannelInit
  <1>3. ~Pending /\ BaseGen = 0 /\ BaseWindow = 0 /\ BaseN = 0
    BY <1>2 DEF Pending, BaseGen, BaseWindow, BaseN
  <1>4. ServerInv /\ SentInv /\ Countdown
    BY <1>2, <1>3 DEF ServerInv, SentInv, SentBy, Countdown
  <1>5. Downstream
    BY <1>2, <1>3 DEF Downstream
  <1>6. WrittenInv /\ Upstream
    BY <1>2 DEF WrittenInv, Upstream
  <1> QED BY <1>1, <1>4, <1>5, <1>6 DEF IInv

\* The countdown hits zero exactly at the window-th message since the last ACK.
LEMMA CountdownStep ==
    ASSUME NEW w \in Nat, NEW r \in Nat, w > 0 => 1 <= r /\ r <= w
    PROVE  /\ w = 0 => NoteMessage(w, r) = r /\ ~AckDue(w, r)
           /\ w > 0 /\ r = 1 => NoteMessage(w, r) = w /\ AckDue(w, r)
           /\ w > 0 /\ r > 1 => NoteMessage(w, r) = r - 1 /\ ~AckDue(w, r)
  BY DEF NoteMessage, AckDue, Refilled

\* A step of the server keeps the invariant.
LEMMA ServerKeeps ==
    ASSUME IInv, TypeOK', ServerStep, UNCHANGED <<ackVars, ackedTo>>
    PROVE  IInv'
  <1> USE DEF IInv
  <1>1. UNCHANGED <<ackWindow, ackRemaining, ackedTo>>
    BY DEF ackVars
  <1>2. ASSUME NEW m \in DownMsg, m.kind # "set_ack", Follows(gen, window, sent, m),
               down' = Append(down, m), sent' = m.n, HasCredit \/ sent' = sent,
               sent <= sent', sent' <= sent + 1,
               UNCHANGED <<gen, window, acked, synced, up, pc, cur, cgen, done>>
        PROVE  IInv'
    <2>1. gen' = m.gen /\ window' = m.window
      BY <1>2 DEF Follows
    <2>2. SentInv' /\ Downstream'
      BY <1>1, <1>2, <2>1, ServerAppends
    <2>3. WrittenInv' /\ Upstream'
      BY <1>1, <1>2, UpstreamUntouched
    <2>4. ServerInv'
      BY <1>2 DEF ServerInv, HasCredit, TypeOK, ChannelTypeOK
    <2>5. Countdown'
      BY <1>1, <1>2 DEF Countdown
    <2> QED BY <2>2, <2>3, <2>4, <2>5
  <1>3. ASSUME NEW kind \in {"event", "quiet"}, NEW ok \in BOOLEAN, ServerSend(kind, ok)
        PROVE  IInv'
    <2> DEFINE m == Down(kind, ok, gen, window, sent + 1)
    <2> /\ m.kind = kind /\ m.ok = ok /\ m.gen = gen /\ m.window = window /\ m.n = sent + 1
      BY DEF Down
    <2>1. /\ m \in DownMsg /\ m.kind # "set_ack" /\ Follows(gen, window, sent, m)
          /\ m.n = sent + 1
      <3>1. m \in DownMsg
        BY DEF Down, DownMsg, Counted, TypeOK, ChannelTypeOK
      <3> HIDE DEF m
      <3> QED BY <3>1 DEF Follows, Counted
    <2>2. /\ down' = Append(down, m) /\ sent' = m.n /\ HasCredit
          /\ UNCHANGED <<gen, window, acked, synced, up, pc, cur, cgen, done>>
      BY <1>3, <2>1 DEF ServerSend, historyVars
    <2>3. sent <= sent' /\ sent' <= sent + 1
      BY <2>1, <2>2 DEF TypeOK, ChannelTypeOK
    <2> HIDE DEF m
    <2> QED BY <1>2, <2>1, <2>2, <2>3
  <1>4. ASSUME NEW kind \in {"ping", "migrate"}, NEW ok \in BOOLEAN, ServerControl(kind, ok)
        PROVE  IInv'
    <2> DEFINE m == Down(kind, ok, gen, window, sent)
    <2>1. /\ m \in DownMsg /\ m.kind # "set_ack" /\ Follows(gen, window, sent, m)
          /\ m.n = sent
      BY DEF Down, DownMsg, Uncounted, Counted, Follows, TypeOK, ChannelTypeOK
    <2>2. /\ down' = Append(down, m) /\ sent' = m.n /\ sent' = sent
          /\ UNCHANGED <<gen, window, acked, synced, up, pc, cur, cgen, done>>
      BY <1>4, <2>1 DEF ServerControl, serverVars, historyVars
    <2>3. sent <= sent' /\ sent' <= sent + 1
      BY <2>2 DEF TypeOK, ChannelTypeOK
    <2> HIDE DEF m
    <2> QED BY <1>2, <2>1, <2>2, <2>3
  <1>5. ASSUME NEW w \in Windows, NEW ok \in BOOLEAN, ServerSetAck(w, ok)
        PROVE  IInv'
    <2> DEFINE m == Down("set_ack", ok, gen + 1, w, 0)
    <2>1. /\ m \in DownMsg /\ Follows(gen, window, sent, m)
          /\ m.gen = gen + 1 /\ m.window = w /\ m.n = 0
      BY WindowsAssumption DEF Down, DownMsg, Uncounted, Counted, Follows, TypeOK, ChannelTypeOK
    <2>2. /\ down' = Append(down, m) /\ gen' = m.gen /\ window' = m.window /\ sent' = m.n
          /\ UNCHANGED <<up, pc, cur, cgen, done>>
      BY <1>5, <2>1 DEF ServerSetAck, historyVars
    <2>3. sent' = 0 /\ acked' = 0 /\ ~synced' /\ window' \in Nat /\ gen' = gen + 1
      BY <1>5, WindowsAssumption DEF ServerSetAck
    <2> HIDE DEF m
    <2>4. SentInv' /\ Downstream'
      BY <1>1, <2>1, <2>2, ServerAppends
    <2>5. ServerInv'
      BY <2>3 DEF ServerInv
    <2>6. Countdown' /\ WrittenInv'
      BY <1>1, <2>2 DEF Countdown, WrittenInv
    <2>7. cgen < gen' /\ (up # <<>> => up[1].gen < gen')
      <3>1. cgen < gen'
        BY <2>3 DEF SentInv, SentBy, TypeOK, ChannelTypeOK
      <3>2. up # <<>> => up[1].gen <= cgen /\ up[1].gen \in Nat
        BY MessageTypes DEF WrittenInv
      <3> QED BY <2>3, <3>1, <3>2 DEF TypeOK, ChannelTypeOK
    <2>8. Upstream'
      BY <1>1, <2>2, <2>3, <2>7 DEF Upstream, Answers
    <2> QED BY <2>4, <2>5, <2>6, <2>8
  <1>6. CASE ServerRecv
    <2>1. ServerInv' /\ WrittenInv' /\ Upstream'
      BY <1>1, <1>6, ServerTakes
    <2>2. UNCHANGED <<gen, window, sent, down, pc, cur, cgen, done>>
      BY <1>6 DEF ServerRecv, historyVars
    <2>3. SentInv' /\ Downstream'
      BY <1>1, <2>2, DownstreamUntouched
    <2> QED BY <1>1, <2>1, <2>2, <2>3 DEF Countdown
  <1>7. CASE ServerClose
    <2>1. UNCHANGED <<gen, window, sent, acked, synced, down, up, pc, cur, cgen, done>>
      BY <1>7 DEF ServerClose, serverVars, historyVars
    <2> QED BY <1>1, <2>1, DownstreamUntouched, UpstreamUntouched DEF ServerInv, Countdown
  <1> QED BY <1>3, <1>4, <1>5, <1>6, <1>7, OksAssumption DEF ServerStep

\* A step of the embedder keeps the invariant.
LEMMA EmbedderKeeps ==
    ASSUME IInv, TypeOK', EmbedderStep, UNCHANGED <<ackVars, ackedTo>>
    PROVE  IInv'
  <1>1. UNCHANGED <<gen, window, sent, acked, synced, down, up, cur, cgen, done,
                    ackWindow, ackRemaining, ackedTo>>
    BY DEF EmbedderStep, EmbedderRecv, OtherTaskPosts, DropClient, Abort,
           ackVars, serverVars, historyVars
  <1>2. pc' = pc \/ pc' = "exit"
    BY DEF EmbedderStep, EmbedderRecv, OtherTaskPosts, DropClient, Abort
  <1> QED BY <1>1, <1>2, DownstreamUntouched, UpstreamUntouched
          DEF IInv, ServerInv, Countdown

\* A step of the task keeps the invariant.
LEMMA TaskKeeps ==
    ASSUME IInv, TypeOK', TaskStep
    PROVE  IInv'
  <1> USE DEF IInv
  <1>1. CASE Read
    <2>1. UNCHANGED <<gen, window, sent, acked, synced, up, cgen, done,
                      ackWindow, ackRemaining, ackedTo>>
      BY <1>1 DEF Read, Take, ackVars, serverVars, historyVars
    <2> QED BY <1>1, <2>1, TaskTakes, UpstreamUntouched DEF ServerInv, Countdown
  <1>2. CASE ReadFails \/ DecodeFails \/ WriteFails
    <2>1. /\ pc' = "exit"
          /\ UNCHANGED <<gen, window, sent, acked, synced, down, up, cur, cgen, done,
                         ackWindow, ackRemaining, ackedTo>>
      BY <1>2 DEF ReadFails, DecodeFails, WriteFails, ackVars, serverVars, historyVars
    <2> QED BY <2>1, DownstreamUntouched, UpstreamUntouched DEF ServerInv, Countdown
  <1>3. CASE HandlePing
    <2> DEFINE m == Up("pong", cgen, ackWindow, ackedTo)
    <2>1. /\ m \in UpMsg /\ Answers(cgen, ackWindow, ackedTo, m)
          /\ m.gen = cgen /\ m.window = ackWindow /\ m.upto = ackedTo
      BY DEF Up, UpMsg, Answers, TypeOK, ChannelTypeOK
    <2>2. /\ up' = Append(up, m) /\ pc = "handle" /\ pc' = "note" /\ cur.kind = "ping"
          /\ UNCHANGED <<gen, window, sent, acked, synced, down, cur, cgen, done,
                         ackWindow, ackRemaining, ackedTo>>
      BY <1>3 DEF HandlePing, Handling, Write, ackVars, serverVars, historyVars
    <2> HIDE DEF m
    <2>3. WrittenInv' /\ Upstream'
      BY <2>1, <2>2, TaskWrites
    <2>4. Pending /\ ~Pending'
      BY <2>2 DEF Pending, Counts
    <2>5. cur.gen = cgen /\ cur.window = ackWindow /\ cur.n = done
      BY <2>2, <2>4 DEF Downstream, Follows
    <2>6. SentInv' /\ Downstream'
      BY <2>2, <2>4, <2>5, PendingAbsorbed
    <2> QED BY <2>2, <2>3, <2>6 DEF ServerInv, Countdown
  <1>4. CASE HandleSetAck
    <2> DEFINE m == Up("ack_sync", cur.gen, cur.window, 0)
    <2>1. /\ pc = "handle" /\ pc' = "note" /\ cur.kind = "set_ack"
          /\ up' = Append(up, m)
          /\ ackWindow' = cur.window /\ ackRemaining' = cur.window
          /\ cgen' = cur.gen /\ done' = 0 /\ ackedTo' = 0
          /\ UNCHANGED <<gen, window, sent, acked, synced, down, cur>>
      BY <1>4 DEF HandleSetAck, Handling, Write, OnSetAck, serverVars
    <2>2. Pending /\ ~Pending'
      BY <2>1 DEF Pending, Counts
    <2>3. cur.gen = cgen + 1 /\ cur.n = 0
      BY <2>1, <2>2 DEF Downstream, Follows
    <2>4. /\ m \in UpMsg /\ Answers(cgen, ackWindow, ackedTo, m)
          /\ m.gen = cur.gen /\ m.window = cur.window /\ m.upto = 0
      BY <2>3, MessageTypes DEF Up, UpMsg, Answers
    <2> HIDE DEF m
    <2>5. WrittenInv' /\ Upstream'
      BY <2>1, <2>4, TaskWrites
    <2>6. SentInv' /\ Downstream'
      BY <2>1, <2>2, <2>3, PendingAbsorbed
    <2>7. Countdown'
      BY <2>1, MessageTypes DEF Countdown
    <2> QED BY <2>1, <2>5, <2>6, <2>7 DEF ServerInv
  <1>5. CASE HandleEvent \/ HandleQuiet
    <2>1. /\ pc = "handle" /\ pc' = "note" /\ cur.kind \notin {"set_ack", "ping"}
          /\ UNCHANGED <<gen, window, sent, acked, synced, down, up, cur, cgen, done,
                         ackWindow, ackRemaining, ackedTo>>
      BY <1>5 DEF HandleEvent, HandleQuiet, Handling, ackVars, serverVars, historyVars
    <2>2. SentInv' /\ Downstream'
      <3>1. CASE Counts(cur.kind)
        BY <2>1, <3>1, DownstreamUntouched
      <3>2. CASE ~Counts(cur.kind)
        <4>1. cur.kind = "migrate" /\ Pending /\ ~Pending'
          BY <2>1, <3>2 DEF Counts, Pending
        <4>2. cur.gen = cgen /\ cur.window = ackWindow /\ cur.n = done
          BY <2>1, <4>1 DEF Downstream, Follows
        <4> QED BY <2>1, <4>1, <4>2, PendingAbsorbed
      <3> QED BY <3>1, <3>2
    <2> QED BY <2>1, <2>2, UpstreamUntouched DEF ServerInv, Countdown
  <1>6. CASE NoteUncounted
    <2>1. /\ pc = "note" /\ ~Counts(cur.kind) /\ (pc' = "read" \/ pc' = "exit")
          /\ UNCHANGED <<gen, window, sent, acked, synced, down, up, cur, cgen, done,
                         ackWindow, ackRemaining, ackedTo>>
      BY <1>6 DEF NoteUncounted, Loop, ackVars, serverVars, historyVars
    <2> QED BY <2>1, DownstreamUntouched, UpstreamUntouched DEF ServerInv, Countdown
  <1>7. CASE NoteCounted
    <2>1. /\ pc = "note" /\ Counts(cur.kind) /\ pc' \in {"read", "exit"}
          /\ ackRemaining' = NoteMessage(ackWindow, ackRemaining)
          /\ done' = done + 1
          /\ UNCHANGED <<gen, window, sent, acked, synced, down, cur, cgen, ackWindow>>
      BY <1>7 DEF NoteCounted, Loop, serverVars
    <2>2. cur.kind \in Counted /\ Pending /\ ~Pending'
      BY <2>1, MessageTypes DEF Counts, Uncounted, Pending
    <2>3. cur.gen = cgen /\ cur.window = ackWindow /\ cur.n = done + 1
      BY <2>1, <2>2 DEF Downstream, Follows, Counted
    <2>4. SentInv' /\ Downstream'
      BY <2>1, <2>2, <2>3, PendingAbsorbed
    <2>5. /\ ackWindow \in Nat /\ ackRemaining \in Nat /\ ackedTo \in Nat /\ done \in Nat
          /\ cgen \in Nat
      BY DEF TypeOK, ChannelTypeOK
    <2>6. ackWindow > 0 => 1 <= ackRemaining /\ ackRemaining <= ackWindow
      BY <2>5 DEF Countdown
    <2>7. CASE AckDue(ackWindow, ackRemaining)
      <3> DEFINE m == Up("ack", cgen, ackWindow, ackedTo + ackWindow)
      <3>1. up' = Append(up, m) /\ ackedTo' = ackedTo + ackWindow
        BY <1>7, <2>7 DEF NoteCounted, Write
      <3>2. /\ m \in UpMsg /\ Answers(cgen, ackWindow, ackedTo, m)
            /\ m.gen = cgen /\ m.window = ackWindow /\ m.upto = ackedTo + ackWindow
        BY <2>5 DEF Up, UpMsg, Answers
      <3> HIDE DEF m
      <3>3. WrittenInv' /\ Upstream'
        BY <2>1, <3>1, <3>2, TaskWrites
      <3>4. ackWindow > 0 /\ ackRemaining = 1 /\ ackRemaining' = ackWindow
        BY <2>1, <2>5, <2>6, <2>7, CountdownStep
      <3>5. Countdown'
        BY <2>1, <2>5, <3>1, <3>4 DEF Countdown
      <3> QED BY <2>1, <2>4, <3>3, <3>5 DEF ServerInv
    <2>8. CASE ~AckDue(ackWindow, ackRemaining)
      <3>1. up' = up /\ ackedTo' = ackedTo
        BY <1>7, <2>8 DEF NoteCounted
      <3>2. IF ackWindow = 0 THEN ackRemaining' = ackRemaining
            ELSE ackRemaining > 1 /\ ackRemaining' = ackRemaining - 1
        BY <2>1, <2>5, <2>6, <2>8, CountdownStep
      <3>3. Countdown'
        BY <2>1, <2>5, <2>6, <3>1, <3>2 DEF Countdown
      <3> QED BY <2>1, <2>4, <3>1, <3>3, UpstreamUntouched DEF ServerInv
    <2> QED BY <2>7, <2>8
  <1> QED BY <1>1, <1>2, <1>3, <1>4, <1>5, <1>6, <1>7 DEF TaskStep

\* The chain of counters is an invariant of the specification.
THEOREM Invariance == Spec => []IInv
  <1>1. IInv /\ [Next]_vars => IInv'
    <2> SUFFICES ASSUME IInv, [Next]_vars PROVE IInv'
      OBVIOUS
    <2>1. TypeOK'
      BY TypeStep DEF IInv
    <2>2. CASE UNCHANGED vars
      <3>1. /\ pc' = pc
            /\ UNCHANGED <<gen, window, sent, acked, synced, down, up, cur, cgen, done,
                           ackWindow, ackRemaining, ackedTo>>
        BY <2>2 DEF vars, channelVars, ackVars
      <3> QED BY <2>1, <3>1, DownstreamUntouched, UpstreamUntouched
              DEF IInv, ServerInv, Countdown
    <2>3. CASE Environment
      BY <2>1, <2>3, ServerKeeps, EmbedderKeeps DEF Environment
    <2>4. CASE TaskStep
      BY <2>1, <2>4, TaskKeeps
    <2> QED BY <2>2, <2>3, <2>4 DEF Next
  <1> QED BY <1>1, InitIInv, PTL DEF Spec

(***************************************************************************)
(* The display channel never wedges on flow control, whatever windows the  *)
(* server announces, however often, and whatever the buffers hold.         *)
(***************************************************************************)
THEOREM DisplayNeverStalls == Spec => []NoStall
  <1>1. IInv => NoStall
    <2> SUFFICES ASSUME IInv, Running, pc = "read", down = <<>>, up = <<>> PROVE HasCredit
      BY DEF NoStall
    <2>1. ~Pending /\ pc # "exit"
      BY DEF Pending
    <2>2. cgen = gen /\ ackWindow = window /\ done = sent
      BY <2>1 DEF IInv, Downstream, BaseGen, BaseWindow, BaseN
    <2>3. gen \in Nat /\ synced \in BOOLEAN
      BY DEF IInv, TypeOK, ChannelTypeOK
    <2>4. synced
      BY <2>2, <2>3 DEF IInv, Upstream
    <2>5. acked = ackedTo
      BY <2>4 DEF IInv, Upstream
    <2> QED BY <2>2, <2>5 DEF IInv, Countdown, HasCredit, TypeOK, ChannelTypeOK
  <1> QED BY <1>1, Invariance, PTL

(***************************************************************************)
(* The display task acknowledges only what it has handled, so the server   *)
(* never has more than one window of unhandled messages outstanding.       *)
(***************************************************************************)
THEOREM DisplayEarnsCredit == Spec => []CreditIsEarned
  <1>1. IInv => CreditIsEarned
    <2> SUFFICES ASSUME IInv, synced PROVE CreditIsEarned
      BY DEF CreditIsEarned
    <2>1. /\ gen \in Nat /\ window \in Nat /\ sent \in Nat /\ acked \in Nat
          /\ cgen \in Nat /\ done \in Nat /\ ackWindow \in Nat /\ ackedTo \in Nat
          /\ ackRemaining \in Nat
      BY DEF IInv, TypeOK, ChannelTypeOK
    <2>2. cgen <= gen /\ (cgen = gen => done <= sent /\ ackWindow = window)
      BY DEF IInv, SentInv, SentBy
    <2>3. cgen = gen /\ acked <= ackedTo
      <3>1. CASE up = <<>>
        BY <2>1, <3>1 DEF IInv, Upstream
      <3>2. CASE up # <<>>
        <4>1. /\ Answers(gen, window, acked, up[1])
              /\ up[1].gen \in Nat /\ up[1].upto \in Nat
              /\ up[1].kind \in {"pong", "ack_sync", "ack"}
              /\ up[1].gen <= cgen /\ (up[1].gen = cgen => up[1].upto <= ackedTo)
          BY <3>2, MessageTypes DEF IInv, Upstream, WrittenInv
        <4> QED BY <2>1, <2>2, <4>1 DEF Answers
      <3> QED BY <3>1, <3>2
    <2>4. ackedTo <= done
      BY <2>1 DEF IInv, Countdown
    <2>5. window > 0 => sent - acked <= window
      BY DEF IInv, ServerInv
    <2> QED BY <2>1, <2>2, <2>3, <2>4, <2>5 DEF CreditIsEarned
  <1> QED BY <1>1, Invariance, PTL

=============================================================================
