-------------------------- MODULE ChannelFlows_proofs -------------------------
(***************************************************************************)
(* Flow control of the main, cursor and inputs channels, for every window, *)
(* every buffer size and every number of messages.                         *)
(*                                                                         *)
(* These tasks pass over a message they cannot decode, SET_ACK included,   *)
(* where the display task ends.  The chain of counters of the display      *)
(* task's proof does not hold for them: a task may fall behind the         *)
(* generation of the messages it handles, and its count then says nothing  *)
(* of them.  What is left is that whoever is in the same generation has    *)
(* the same count, and that is handed on from message to message.          *)
(***************************************************************************)
EXTENDS ChannelFlows, SequenceTheorems, TLAPS

-----------------------------------------------------------------------------
\* (g, n) is not ahead of (h, k), and agrees with it in the same generation.
Meets(g, n, h, k) == g <= h /\ (g = h => n = k)

\* Message m comes behind the counters (g, n), at once if it is of generation g.
Precedes(g, n, m) ==
    /\ g <= m.gen
    /\ m.kind = "set_ack" => g < m.gen /\ m.n = 0
    /\ g = m.gen => /\ m.kind \in Counted => m.n = n + 1
                    /\ m.kind \in {"ping", "migrate"} => m.n = n

\* Message m is the next one the task writes after the counters (g, upto).
Answers(g, upto, m) ==
    /\ IF m.kind = "ack_sync" THEN g < m.gen /\ m.upto = 0 ELSE m.gen = g
    /\ m.kind = "ack" => m.upto = upto + m.window
    /\ m.kind = "pong" => m.upto = upto

\* cur is taken but its effect on the counters is still to come.
Pending == pc = "handle" \/ (pc = "note" /\ Counts(cur.kind))

\* The counters just before the first message of down.
BaseGen == IF Pending THEN cur.gen ELSE cgen
BaseN == IF Pending THEN cur.n ELSE done

\* Nothing the server has sent is ahead of the server.
SentBy(g, w, n) == g <= gen /\ (g = gen => n <= sent /\ w = window)

ServerInv ==
    /\ window > 0 => sent - acked <= window
    /\ ~synced => acked = 0

SentInv ==
    /\ \A i \in 1 .. Len(down) : SentBy(down[i].gen, down[i].window, down[i].n)
    /\ Pending => SentBy(cur.gen, cur.window, cur.n)
    /\ cgen <= gen
    /\ cgen = gen => done <= sent /\ (ackWindow > 0 => ackWindow = window)

\* Only run_main keeps a window; its countdown agrees with the messages handled
\* since the last ACK, unless one of them bypassed it.
Countdown ==
    /\ role # "main" => boot
    /\ boot => ackWindow = 0
    /\ IF ackWindow = 0 THEN ackedTo = 0 /\ ackRemaining = 0
       ELSE /\ 1 <= ackRemaining /\ ackRemaining <= ackWindow
            /\ ackedTo + (ackWindow - ackRemaining) <= done
            /\ ~skipped => done = ackedTo + (ackWindow - ackRemaining)

\* From the task's counters along down to the server's.
Downstream ==
    pc # "exit" =>
      /\ Pending => Precedes(cgen, done, cur)
      /\ down # <<>> => Precedes(BaseGen, BaseN, down[1])
      /\ \A i \in 1 .. Len(down) - 1 : Precedes(down[i].gen, down[i].n, down[i + 1])
      /\ IF down = <<>> THEN Meets(BaseGen, BaseN, gen, sent)
         ELSE Meets(down[Len(down)].gen, down[Len(down)].n, gen, sent)

WrittenInv ==
    \A i \in 1 .. Len(up) :
      /\ up[i].gen <= cgen
      /\ up[i].gen = cgen => up[i].upto <= ackedTo
      /\ up[i].gen = cgen /\ up[i].kind = "ack" => ackWindow > 0 /\ up[i].window = ackWindow
      /\ up[i].kind = "ack_sync" => up[i].upto = 0

\* From the server's acknowledged count along up to the task's.
Upstream ==
    /\ \A i \in 1 .. Len(up) - 1 : Answers(up[i].gen, up[i].upto, up[i + 1])
    /\ up # <<>> => up[Len(up)].gen = cgen /\ up[Len(up)].upto = ackedTo
    /\ synced => IF up = <<>> THEN cgen = gen /\ acked = ackedTo
                 ELSE Answers(gen, acked, up[1])
    /\ ~synced => IF up = <<>> THEN cgen < gen
                  ELSE up[1].gen < gen \/ up[1].kind = "ack_sync"

(***************************************************************************)
(* The inductive invariant of the three channels.                          *)
(***************************************************************************)
FlowsInv ==
    /\ TypeOK /\ role \in {"main", "cursor", "inputs"}
    /\ ServerInv /\ SentInv /\ Countdown
    /\ Downstream /\ WrittenInv /\ Upstream

-----------------------------------------------------------------------------
(***************************************************************************)
(* Sequences: what appending and taking the head leave behind.             *)
(***************************************************************************)

\* A frame written to the socket is last, the others keep their places.
LEMMA AppendFacts ==
    ASSUME NEW S, NEW q \in Seq(S), NEW e \in S
    PROVE  /\ Append(q, e) \in Seq(S)
           /\ Len(q) \in Nat
           /\ Len(Append(q, e)) = Len(q) + 1
           /\ Append(q, e) # <<>>
           /\ Append(q, e)[Len(q) + 1] = e
           /\ \A i \in 1 .. Len(q) : Append(q, e)[i] = q[i]
  <1>1. Len(Append(q, e)) = Len(q) + 1 /\ Len(q) \in Nat
    BY LenProperties
  <1>2. Append(q, e) # <<>>
    BY <1>1, EmptySeq
  <1> QED BY <1>1, <1>2

\* Taking a frame off the socket shifts the others by one.
LEMMA TailFacts ==
    ASSUME NEW S, NEW q \in Seq(S), q # <<>>
    PROVE  /\ Len(q) \in Nat /\ Len(q) >= 1
           /\ Head(q) = q[1] /\ Head(q) \in S
           /\ Tail(q) \in Seq(S)
           /\ Len(Tail(q)) = Len(q) - 1
           /\ Tail(q) = <<>> <=> Len(q) = 1
           /\ \A i \in 1 .. Len(q) - 1 : Tail(q)[i] = q[i + 1]
  <1>1. Len(q) \in Nat \ {0}
    BY EmptySeq
  <1>2. /\ Head(q) \in S /\ Tail(q) \in Seq(S)
        /\ Len(Tail(q)) = Len(q) - 1
        /\ \A i \in 1 .. Len(Tail(q)) : Tail(q)[i] = q[i + 1]
    BY HeadTailProperties
  <1>3. Head(q) = q[1]
    BY <1>1
  <1>4. Tail(q) = <<>> <=> Len(Tail(q)) = 0
    BY <1>2, EmptySeq
  <1> QED BY <1>1, <1>2, <1>3, <1>4

-----------------------------------------------------------------------------
(***************************************************************************)
(* The three channels have the same server, the same embedder and the same *)
(* socket: the instances' shared definitions are AckChannel's.             *)
(***************************************************************************)

\* What a step of the server or the embedder does is the same on every channel.
LEMMA SameEnvironment ==
    /\ Cursor!ServerStep <=> ServerStep
    /\ Inputs!ServerStep <=> ServerStep
    /\ Cursor!EmbedderStep <=> EmbedderStep
    /\ Inputs!EmbedderStep <=> EmbedderStep
  <1> USE DEF Down, Up, HasCredit, serverVars, embedderVars, historyVars,
              Cursor!Down, Cursor!Up, Cursor!HasCredit, Cursor!serverVars,
              Cursor!embedderVars, Cursor!historyVars,
              Inputs!Down, Inputs!Up, Inputs!HasCredit, Inputs!serverVars,
              Inputs!embedderVars, Inputs!historyVars
  <1>1. ASSUME NEW kind, NEW ok
        PROVE  /\ Cursor!ServerSend(kind, ok) <=> ServerSend(kind, ok)
               /\ Inputs!ServerSend(kind, ok) <=> ServerSend(kind, ok)
               /\ Cursor!ServerControl(kind, ok) <=> ServerControl(kind, ok)
               /\ Inputs!ServerControl(kind, ok) <=> ServerControl(kind, ok)
               /\ Cursor!ServerSetAck(kind, ok) <=> ServerSetAck(kind, ok)
               /\ Inputs!ServerSetAck(kind, ok) <=> ServerSetAck(kind, ok)
    BY Zenon DEF ServerSend, Cursor!ServerSend, Inputs!ServerSend,
           ServerControl, Cursor!ServerControl, Inputs!ServerControl,
           ServerSetAck, Cursor!ServerSetAck, Inputs!ServerSetAck
  <1>2. /\ Cursor!ServerRecv <=> ServerRecv
        /\ Inputs!ServerRecv <=> ServerRecv
        /\ Cursor!ServerClose <=> ServerClose
        /\ Inputs!ServerClose <=> ServerClose
    BY Zenon DEF ServerRecv, Cursor!ServerRecv, Inputs!ServerRecv,
           ServerClose, Cursor!ServerClose, Inputs!ServerClose
  <1>3. /\ Cursor!EmbedderStep <=> EmbedderStep
        /\ Inputs!EmbedderStep <=> EmbedderStep
    BY Zenon DEF EmbedderStep, EmbedderRecv, OtherTaskPosts, DropClient, Abort,
           Cursor!EmbedderStep, Cursor!EmbedderRecv, Cursor!OtherTaskPosts,
           Cursor!DropClient, Cursor!Abort,
           Inputs!EmbedderStep, Inputs!EmbedderRecv, Inputs!OtherTaskPosts,
           Inputs!DropClient, Inputs!Abort
  <1>4. (Cursor!ServerStep <=> ServerStep) /\ (Inputs!ServerStep <=> ServerStep)
    BY <1>1, <1>2, Zenon DEF ServerStep, Cursor!ServerStep, Inputs!ServerStep
  <1> QED BY <1>3, <1>4, Zenon

\* So is what a task does with its socket and the mailbox.
LEMMA SameSocket ==
    /\ (Cursor!Take <=> Take) /\ (Inputs!Take <=> Take)
    /\ (Cursor!AtEof <=> AtEof) /\ (Inputs!AtEof <=> AtEof)
    /\ (Cursor!Post <=> Post)
    /\ \A kind : /\ Cursor!Handling(kind) <=> Handling(kind)
                 /\ Inputs!Handling(kind) <=> Handling(kind)
                 /\ Cursor!Counts(kind) <=> Counts(kind)
                 /\ Inputs!Counts(kind) <=> Counts(kind)
    /\ \A m : (Cursor!Write(m) <=> Write(m)) /\ (Inputs!Write(m) <=> Write(m))
    /\ \A k, g, w, u : /\ Cursor!Up(k, g, w, u) = Up(k, g, w, u)
                       /\ Inputs!Up(k, g, w, u) = Up(k, g, w, u)
  BY Zenon DEF Take, AtEof, Post, Handling, Counts, Write, Up,
         serverVars, embedderVars, historyVars,
         Cursor!Take, Cursor!AtEof, Cursor!Post, Cursor!Handling, Cursor!Counts, Cursor!Write,
         Cursor!Up, Cursor!serverVars, Cursor!embedderVars, Cursor!historyVars,
         Inputs!Take, Inputs!AtEof, Inputs!Handling, Inputs!Counts, Inputs!Write,
         Inputs!Up, Inputs!serverVars, Inputs!embedderVars, Inputs!historyVars

-----------------------------------------------------------------------------
(***************************************************************************)
(* What the tasks do, put together by what it does to the counters.        *)
(***************************************************************************)

\* The task ends, or stops looking at a message it has dealt with.
Leaves ==
    /\ pc' = "exit"
    /\ UNCHANGED <<serverVars, down, up, cur, cgen, done, mainVars>>

Pongs ==
    /\ Handling("ping") /\ pc' \in {"read", "note"}
    /\ Write(Up("pong", cgen, ackWindow, ackedTo))
    /\ UNCHANGED <<serverVars, down, cur, cgen, done, mainVars>>

\* SET_ACK is answered; only run_main also keeps the window.
Syncs ==
    /\ Handling("set_ack") /\ pc' \in {"read", "note"}
    /\ Write(Up("ack_sync", cur.gen, cur.window, 0))
    /\ cgen' = cur.gen /\ done' = 0
    /\ ackedTo' = 0
    /\ \/ UNCHANGED ackVars /\ ackWindow = 0
       \/ role = "main" /\ ~boot /\ ackWindow' = cur.window /\ ackRemaining' = cur.window
    /\ boot' = boot
    /\ UNCHANGED <<serverVars, down, cur>>

\* A message that does not change the countdown: after it, it is the past.
PassesOver ==
    /\ pc = "handle" /\ pc' \in {"read", "exit"}
    /\ done' = IF Counts(cur.kind) THEN done + 1 ELSE done
    /\ cur.kind = "set_ack" \/ ~Counts(cur.kind) \/ ackWindow = 0 \/ skipped'
    /\ skipped => skipped'
    /\ role = "main" \/ boot' = boot
    /\ boot' => boot
    /\ UNCHANGED <<serverVars, down, up, cur, cgen, ackVars, ackedTo>>

\* The three tasks' steps are of these kinds, but for run_main's countdown.
CommonStep == (Take /\ UNCHANGED mainVars) \/ Leaves \/ Pongs \/ Syncs \/ PassesOver

\* What a step may do to the rest of the state.
Mailbox == UNCHANGED <<conn, rx>> /\ events' \in 0 .. EventCap

\* The cursor task's steps are common steps.
LEMMA CursorSteps ==
    ASSUME TypeOK, Countdown, Cursor!TaskStep, UNCHANGED mainVars, role = "cursor", UNCHANGED role
    PROVE  CommonStep /\ Mailbox
  <1>1. boot /\ ackWindow = 0 /\ ackedTo = 0
    BY DEF Countdown
  <1>2. UNCHANGED <<boot, ackVars, ackedTo, skipped, ackWindow, ackRemaining>>
    BY DEF mainVars, ackVars
  <1>3. events \in 0 .. EventCap /\ EventCap \in Nat
    BY BoundsAssumption DEF TypeOK, ChannelTypeOK
  <1> USE DEF serverVars, embedderVars, historyVars,
              Cursor!serverVars, Cursor!embedderVars, Cursor!historyVars
  <1>4. CASE Cursor!Read
    <2>1. Take
      BY <1>4, SameSocket DEF Cursor!Read
    <2>2. UNCHANGED <<conn, events, rx>>
      BY <2>1 DEF Take
    <2> QED BY <1>3, <2>1, <2>2 DEF CommonStep, Mailbox
  <1>5. CASE Cursor!ReadFails \/ Cursor!WriteFails
    <2>1. /\ pc' = "exit" /\ UNCHANGED <<conn, events, rx>>
          /\ UNCHANGED <<serverVars, down, up, cur, cgen, done>>
      BY <1>5 DEF Cursor!ReadFails, Cursor!WriteFails
    <2> QED BY <1>3, <2>1 DEF CommonStep, Leaves, Mailbox
  <1>6. CASE Cursor!HandlePing
    <2>1. /\ Handling("ping") /\ pc' = "read" /\ Write(Up("pong", cgen, 0, 0))
          /\ UNCHANGED <<serverVars, down, cur, cgen, done, conn, events, rx>>
      BY <1>6, SameSocket DEF Cursor!HandlePing
    <2> QED BY <1>1, <1>3, <2>1 DEF CommonStep, Pongs, Mailbox
  <1>7. CASE Cursor!HandleSetAck
    <2>1. /\ Handling("set_ack") /\ pc' = "read"
          /\ Write(Up("ack_sync", cur.gen, cur.window, 0))
          /\ cgen' = cur.gen /\ done' = 0
          /\ UNCHANGED <<serverVars, down, cur, conn, events, rx>>
      BY <1>7, SameSocket DEF Cursor!HandleSetAck
    <2>2. Syncs
      BY <1>1, <1>2, <2>1 DEF Syncs
    <2> QED BY <1>3, <2>1, <2>2 DEF CommonStep, Mailbox
  <1>8. CASE Cursor!HandleEvent
    <2>1. /\ Handling("event") /\ pc' \in {"read", "exit"} /\ done' = done + 1
          /\ Post /\ UNCHANGED <<serverVars, down, up, cur, cgen, conn, rx>>
      BY <1>8, SameSocket DEF Cursor!HandleEvent
    <2>2. Counts(cur.kind) /\ pc = "handle"
      BY <2>1 DEF Handling, Counts
    <2>3. PassesOver
      BY <1>1, <1>2, <2>1, <2>2 DEF PassesOver
    <2>4. events' \in 0 .. EventCap
      BY <1>3, <2>1 DEF Post
    <2> QED BY <2>1, <2>3, <2>4 DEF CommonStep, Mailbox
  <1>9. CASE Cursor!HandleIgnored
    <2>1. /\ pc = "handle" /\ pc' = "read"
          /\ done' = IF Counts(cur.kind) THEN done + 1 ELSE done
          /\ UNCHANGED <<serverVars, down, up, cur, cgen, conn, events, rx>>
      BY <1>9, SameSocket DEF Cursor!HandleIgnored
    <2>2. PassesOver
      BY <1>1, <1>2, <2>1 DEF PassesOver
    <2> QED BY <1>3, <2>1, <2>2 DEF CommonStep, Mailbox
  <1> QED BY <1>4, <1>5, <1>6, <1>7, <1>8, <1>9 DEF Cursor!TaskStep

\* The inputs task's steps are common steps.
LEMMA InputsSteps ==
    ASSUME TypeOK, Countdown, Inputs!TaskStep, UNCHANGED mainVars, role = "inputs", UNCHANGED role
    PROVE  CommonStep /\ Mailbox
  <1>1. boot /\ ackWindow = 0 /\ ackedTo = 0
    BY DEF Countdown
  <1>2. UNCHANGED <<boot, ackVars, ackedTo, skipped, ackWindow, ackRemaining>>
    BY DEF mainVars, ackVars
  <1>3. events \in 0 .. EventCap
    BY DEF TypeOK, ChannelTypeOK
  <1> USE DEF serverVars, embedderVars, historyVars,
              Inputs!serverVars, Inputs!embedderVars, Inputs!historyVars
  <1>4. CASE Inputs!Read
    <2>1. Take
      BY <1>4, SameSocket DEF Inputs!Read
    <2>2. UNCHANGED <<conn, events, rx>>
      BY <2>1 DEF Take
    <2> QED BY <1>3, <2>1, <2>2 DEF CommonStep, Mailbox
  <1>5. CASE Inputs!ReadFails \/ Inputs!WriteFails
    <2>1. /\ pc' = "exit" /\ UNCHANGED <<conn, events, rx>>
          /\ UNCHANGED <<serverVars, down, up, cur, cgen, done>>
      BY <1>5 DEF Inputs!ReadFails, Inputs!WriteFails
    <2> QED BY <1>3, <2>1 DEF CommonStep, Leaves, Mailbox
  <1>6. CASE Inputs!HandlePing
    <2>1. /\ Handling("ping") /\ pc' = "read" /\ Write(Up("pong", cgen, 0, 0))
          /\ UNCHANGED <<serverVars, down, cur, cgen, done, conn, events, rx>>
      BY <1>6, SameSocket DEF Inputs!HandlePing
    <2> QED BY <1>1, <1>3, <2>1 DEF CommonStep, Pongs, Mailbox
  <1>7. CASE Inputs!HandleSetAck
    <2>1. /\ Handling("set_ack") /\ pc' = "read"
          /\ Write(Up("ack_sync", cur.gen, cur.window, 0))
          /\ cgen' = cur.gen /\ done' = 0
          /\ UNCHANGED <<serverVars, down, cur, conn, events, rx>>
      BY <1>7, SameSocket DEF Inputs!HandleSetAck
    <2>2. Syncs
      BY <1>1, <1>2, <2>1 DEF Syncs
    <2> QED BY <1>3, <2>1, <2>2 DEF CommonStep, Mailbox
  <1>8. CASE Inputs!HandleStatus
    <2>1. /\ pc = "handle" /\ pc' = "read"
          /\ done' = IF Counts(cur.kind) THEN done + 1 ELSE done
          /\ UNCHANGED <<serverVars, down, up, cur, cgen, conn, events, rx>>
      BY <1>8, SameSocket DEF Inputs!HandleStatus
    <2>2. PassesOver
      BY <1>1, <1>2, <2>1 DEF PassesOver
    <2> QED BY <1>3, <2>1, <2>2 DEF CommonStep, Mailbox
  <1> QED BY <1>4, <1>5, <1>6, <1>7, <1>8 DEF Inputs!TaskStep

\* Whatever the bootstrap does is a common step, and so are run_main's ends, its
\* replies, and the messages it cannot decode.
LEMMA MainSteps ==
    ASSUME TypeOK, Countdown, role = "main", UNCHANGED role,
           Read \/ ReadFails \/ WriteFails \/ BootStep \/ HandlePing \/ HandleSetAck \/ DecodeFails
    PROVE  CommonStep /\ Mailbox
  <1>1. boot => ackWindow = 0 /\ ackedTo = 0
    BY DEF Countdown
  <1>2. events \in 0 .. EventCap /\ EventCap \in Nat /\ boot \in BOOLEAN /\ skipped \in BOOLEAN
    BY BoundsAssumption DEF TypeOK, ChannelTypeOK
  <1> USE DEF serverVars, embedderVars, historyVars, ackVars
  <1>3. CASE Read
    <2>1. UNCHANGED <<conn, events, rx>>
      BY <1>3 DEF Read, Take
    <2> QED BY <1>2, <1>3, <2>1 DEF CommonStep, Mailbox, Read
  <1>4. CASE ReadFails \/ WriteFails \/ BootDecodeFails
    <2>1. Stop
      BY <1>4 DEF ReadFails, WriteFails, BootDecodeFails
    <2>2. Leaves /\ UNCHANGED <<conn, rx>>
      BY <2>1 DEF Stop, Leaves, mainVars
    <2>3. events' \in 0 .. EventCap
      BY <1>2, <2>1 DEF Stop, Post
    <2> QED BY <2>2, <2>3 DEF CommonStep, Mailbox
  <1>5. CASE BootSetAck
    <2>1. /\ Handling("set_ack") /\ pc' = "read"
          /\ Write(Up("ack_sync", cur.gen, cur.window, 0))
          /\ cgen' = cur.gen /\ done' = 0 /\ ackedTo' = 0 /\ boot /\ boot' = boot
          /\ UNCHANGED <<serverVars, down, cur, conn, events, rx, ackVars>>
      BY <1>5 DEF BootSetAck
    <2>2. Syncs
      BY <1>1, <2>1 DEF Syncs
    <2> QED BY <1>2, <2>1, <2>2 DEF CommonStep, Mailbox
  <1>6. CASE BootPing \/ HandlePing
    <2>1. /\ Handling("ping") /\ pc' \in {"read", "note"}
          /\ Write(Up("pong", cgen, ackWindow, ackedTo))
          /\ UNCHANGED <<serverVars, down, cur, cgen, done, mainVars, conn, events, rx>>
      BY <1>6 DEF BootPing, HandlePing
    <2>2. Pongs
      BY <2>1 DEF Pongs
    <2> QED BY <1>2, <2>1, <2>2 DEF CommonStep, Mailbox
  <1>7. CASE BootOther
    <2>1. /\ boot /\ pc = "handle" /\ pc' = "read"
          /\ done' = IF Counts(cur.kind) THEN done + 1 ELSE done
          /\ skipped' = (skipped \/ Counts(cur.kind))
          /\ UNCHANGED <<serverVars, down, up, cur, cgen, conn, events, rx, ackVars, ackedTo>>
      BY <1>7 DEF BootOther
    <2>2. PassesOver
      BY <1>1, <2>1 DEF PassesOver
    <2> QED BY <1>2, <2>1, <2>2 DEF CommonStep, Mailbox
  <1>8. CASE HandleSetAck
    <2>1. /\ Handling("set_ack") /\ pc' = "note" /\ ~boot /\ boot' = boot
          /\ Write(Up("ack_sync", cur.gen, cur.window, 0))
          /\ cgen' = cur.gen /\ done' = 0 /\ ackedTo' = 0
          /\ ackWindow' = cur.window /\ ackRemaining' = cur.window
          /\ UNCHANGED <<serverVars, down, cur, conn, events, rx>>
      BY <1>8 DEF HandleSetAck, Refill
    <2>2. Syncs
      BY <2>1 DEF Syncs
    <2> QED BY <1>2, <2>1, <2>2 DEF CommonStep, Mailbox
  <1>9. CASE DecodeFails
    <2>1. /\ pc = "handle" /\ pc' = "read" /\ boot' = boot
          /\ done' = IF Counts(cur.kind) THEN done + 1 ELSE done
          /\ skipped' = (skipped \/ Counts(cur.kind))
          /\ UNCHANGED <<serverVars, down, up, cur, cgen, conn, events, rx, ackVars, ackedTo>>
      BY <1>9 DEF DecodeFails
    <2>2. PassesOver
      BY <2>1 DEF PassesOver
    <2> QED BY <1>2, <2>1, <2>2 DEF CommonStep, Mailbox
  <1> QED BY <1>3, <1>4, <1>5, <1>6, <1>7, <1>8, <1>9 DEF BootStep

-----------------------------------------------------------------------------
(***************************************************************************)
(* Type correctness.                                                       *)
(***************************************************************************)

\* The fields of every message at hand are numbers.
LEMMA MessageTypes ==
    ASSUME TypeOK
    PROVE  /\ \A i \in 1 .. Len(down) :
                 /\ down[i] \in DownMsg
                 /\ down[i].gen \in Nat /\ down[i].window \in Nat /\ down[i].n \in Nat
           /\ \A i \in 1 .. Len(up) :
                 /\ up[i] \in UpMsg
                 /\ up[i].gen \in Nat /\ up[i].window \in Nat /\ up[i].upto \in Nat
                 /\ up[i].kind \in {"pong", "ack_sync", "ack"}
           /\ cur.gen \in Nat /\ cur.window \in Nat /\ cur.n \in Nat
           /\ cur.kind \in Uncounted \cup Counted
           /\ Len(down) \in Nat /\ Len(up) \in Nat
           /\ down # <<>> => Len(down) >= 1
           /\ up # <<>> => Len(up) >= 1
  <1>1. down \in Seq(DownMsg) /\ up \in Seq(UpMsg) /\ cur \in DownMsg
    BY DEF TypeOK, ChannelTypeOK
  <1>2. \A i \in 1 .. Len(down) : down[i] \in DownMsg
    BY <1>1, ElementOfSeq
  <1>3. \A i \in 1 .. Len(up) : up[i] \in UpMsg
    BY <1>1, ElementOfSeq
  <1>4. /\ Len(down) \in Nat /\ Len(up) \in Nat
        /\ down # <<>> => Len(down) >= 1
        /\ up # <<>> => Len(up) >= 1
    BY <1>1, EmptySeq, LenProperties
  <1> QED BY <1>1, <1>2, <1>3, <1>4 DEF DownMsg, UpMsg

\* A step of the server keeps the types.
LEMMA ServerTypes ==
    ASSUME TypeOK, ServerStep \/ ServerList, UNCHANGED mainVars
    PROVE  TypeOK'
  <1> USE WindowsAssumption, BoundsAssumption
  <1> USE DEF TypeOK, ChannelTypeOK, mainVars, ackVars, serverVars, embedderVars, historyVars
  <1>1. ASSUME NEW kind \in {"event", "quiet", "list"}, NEW ok \in BOOLEAN, ServerSend(kind, ok)
        PROVE  TypeOK'
    <2>1. Down(kind, ok, gen, window, sent + 1) \in DownMsg
      BY DEF Down, DownMsg, Counted
    <2>2. down' = Append(down, Down(kind, ok, gen, window, sent + 1)) /\ Len(down) < DownCap
      BY <1>1 DEF ServerSend
    <2>3. down' \in Seq(DownMsg) /\ Len(down') <= DownCap
      BY <2>1, <2>2, AppendFacts
    <2> QED BY <1>1, <2>3 DEF ServerSend
  <1>2. ASSUME NEW kind \in {"ping", "migrate"}, NEW ok \in BOOLEAN, ServerControl(kind, ok)
        PROVE  TypeOK'
    <2>1. Down(kind, ok, gen, window, sent) \in DownMsg
      BY DEF Down, DownMsg, Uncounted
    <2>2. down' = Append(down, Down(kind, ok, gen, window, sent)) /\ Len(down) < DownCap
      BY <1>2 DEF ServerControl
    <2>3. down' \in Seq(DownMsg) /\ Len(down') <= DownCap
      BY <2>1, <2>2, AppendFacts
    <2> QED BY <1>2, <2>3 DEF ServerControl
  <1>3. ASSUME NEW w \in Windows, NEW ok \in BOOLEAN, ServerSetAck(w, ok)
        PROVE  TypeOK'
    <2>1. Down("set_ack", ok, gen + 1, w, 0) \in DownMsg
      BY DEF Down, DownMsg, Uncounted
    <2>2. down' = Append(down, Down("set_ack", ok, gen + 1, w, 0)) /\ Len(down) < DownCap
      BY <1>3 DEF ServerSetAck
    <2>3. down' \in Seq(DownMsg) /\ Len(down') <= DownCap
      BY <2>1, <2>2, AppendFacts
    <2>4. w \in Nat
      OBVIOUS
    <2>5. gen' = gen + 1 /\ window' = w /\ sent' = 0 /\ acked' = 0 /\ synced' \in BOOLEAN
      BY <1>3 DEF ServerSetAck
    <2>6. UNCHANGED <<conn, up, pc, cur, embedderVars, historyVars>>
      BY <1>3 DEF ServerSetAck
    <2> QED BY <2>3, <2>4, <2>5, <2>6
  <1>4. CASE ServerRecv
    BY <1>4, TailFacts DEF ServerRecv
  <1>5. CASE ServerClose
    BY <1>5 DEF ServerClose
  <1> QED BY <1>1, <1>2, <1>3, <1>4, <1>5, OksAssumption DEF ServerStep, ServerList

\* A step of the embedder keeps the types.
LEMMA EmbedderTypes ==
    ASSUME TypeOK, EmbedderStep, UNCHANGED mainVars
    PROVE  TypeOK'
  <1> USE BoundsAssumption
  <1> USE DEF TypeOK, ChannelTypeOK, mainVars, ackVars, serverVars, embedderVars, historyVars
  <1>1. CASE EmbedderRecv
    BY <1>1 DEF EmbedderRecv
  <1>2. CASE OtherTaskPosts
    BY <1>2 DEF OtherTaskPosts
  <1>3. CASE DropClient
    BY <1>3 DEF DropClient
  <1>4. CASE Abort
    BY <1>4 DEF Abort
  <1> QED BY <1>1, <1>2, <1>3, <1>4 DEF EmbedderStep

\* A frame goes to the socket only when there is room.
LEMMA WriteTypes ==
    ASSUME TypeOK, NEW m \in UpMsg, Write(m)
    PROVE  up' \in Seq(UpMsg) /\ Len(up') <= UpCap
  <1>1. up' = Append(up, m) /\ Len(up) < UpCap /\ up \in Seq(UpMsg) /\ UpCap \in Nat
    BY BoundsAssumption DEF Write, TypeOK, ChannelTypeOK
  <1>2. Len(up) \in Nat /\ Len(up') = Len(up) + 1 /\ up' \in Seq(UpMsg)
    BY <1>1, AppendFacts
  <1> QED BY <1>1, <1>2

\* A common step of the tasks keeps the types.
LEMMA CommonTypes ==
    ASSUME TypeOK, CommonStep, Mailbox, boot' \in BOOLEAN, skipped' \in BOOLEAN
    PROVE  TypeOK'
  <1>1. cur.gen \in Nat /\ cur.window \in Nat
    BY MessageTypes
  <1> USE DEF mainVars, ackVars, serverVars, embedderVars, historyVars, Mailbox
  <1>2. CASE Take /\ UNCHANGED mainVars
    <2>1. down \in Seq(DownMsg) /\ down # <<>> /\ Len(down) <= DownCap /\ DownCap \in Nat
      BY <1>2, BoundsAssumption DEF Take, TypeOK, ChannelTypeOK
    <2>2. cur' \in DownMsg /\ down' \in Seq(DownMsg) /\ Len(down') <= DownCap
      BY <1>2, <2>1, TailFacts DEF Take
    <2>3. /\ UNCHANGED <<gen, window, sent, acked, synced, up, cgen, done, conn, rx,
                         boot, ackWindow, ackRemaining, ackedTo, skipped>>
          /\ events' \in 0 .. EventCap /\ pc' = "handle"
      BY <1>2 DEF Take
    <2> QED BY <2>2, <2>3 DEF TypeOK, ChannelTypeOK
  <1>3. CASE Leaves
    BY <1>3 DEF Leaves, TypeOK, ChannelTypeOK
  <1>4. CASE Pongs
    <2>1. Up("pong", cgen, ackWindow, ackedTo) \in UpMsg
      BY DEF Up, UpMsg, TypeOK, ChannelTypeOK
    <2>2. up' \in Seq(UpMsg) /\ Len(up') <= UpCap
      BY <1>4, <2>1, WriteTypes DEF Pongs
    <2>3. /\ UNCHANGED <<gen, window, sent, acked, synced, down, cur, cgen, done, conn, rx,
                         boot, ackWindow, ackRemaining, ackedTo, skipped>>
          /\ events' \in 0 .. EventCap /\ pc' \in {"read", "note"}
      BY <1>4 DEF Pongs
    <2> QED BY <2>2, <2>3 DEF TypeOK, ChannelTypeOK
  <1>5. CASE Syncs
    <2>1. Up("ack_sync", cur.gen, cur.window, 0) \in UpMsg
      BY <1>1 DEF Up, UpMsg
    <2>2. up' \in Seq(UpMsg) /\ Len(up') <= UpCap
      BY <1>5, <2>1, WriteTypes DEF Syncs
    <2>3. ackWindow' \in Nat /\ ackRemaining' \in 0 .. ackWindow' /\ ackedTo' \in Nat
      BY <1>1, <1>5 DEF Syncs, TypeOK
    <2>4. /\ UNCHANGED <<gen, window, sent, acked, synced, down, cur, conn, rx>>
          /\ events' \in 0 .. EventCap /\ pc' \in {"read", "note"}
          /\ cgen' \in Nat /\ done' \in Nat
      BY <1>1, <1>5 DEF Syncs
    <2> QED BY <2>2, <2>3, <2>4 DEF TypeOK, ChannelTypeOK
  <1>6. CASE PassesOver
    <2>1. /\ UNCHANGED <<gen, window, sent, acked, synced, down, up, cur, cgen, conn, rx,
                         ackWindow, ackRemaining, ackedTo>>
          /\ events' \in 0 .. EventCap /\ pc' \in {"read", "exit"}
          /\ done' \in {done, done + 1}
      BY <1>6 DEF PassesOver
    <2> QED BY <2>1 DEF TypeOK, ChannelTypeOK
  <1> QED BY <1>2, <1>3, <1>4, <1>5, <1>6 DEF CommonStep

\* The countdown of run_main keeps the types.
LEMMA CountdownTypes ==
    ASSUME TypeOK, HandleMouseMode \/ HandleQuiet \/ NoteUncounted \/ NoteCounted
    PROVE  TypeOK'
  <1> USE DEF mainVars, ackVars, serverVars, embedderVars, historyVars
  <1>1. CASE HandleMouseMode \/ HandleQuiet \/ NoteUncounted
    <2>1. /\ UNCHANGED <<gen, window, sent, acked, synced, down, up, cur, cgen, conn, rx,
                         boot, ackWindow, ackRemaining, ackedTo, skipped>>
          /\ pc' \in {"read", "note"} /\ done' \in {done, done + 1}
      BY <1>1 DEF HandleMouseMode, HandleQuiet, NoteUncounted
    <2>2. events \in 0 .. EventCap /\ rx \in BOOLEAN
      BY DEF TypeOK, ChannelTypeOK
    <2>3. Post \/ events' = events
      BY <1>1 DEF HandleMouseMode, HandleQuiet, NoteUncounted
    <2>4. events' \in 0 .. EventCap
      BY <2>2, <2>3, BoundsAssumption DEF Post
    <2> QED BY <2>1, <2>4 DEF TypeOK, ChannelTypeOK
  <1>2. CASE NoteCounted
    <2>1. Up("ack", cgen, ackWindow, ackedTo + ackWindow) \in UpMsg
      BY DEF Up, UpMsg, TypeOK, ChannelTypeOK
    <2>2. up' \in Seq(UpMsg) /\ Len(up') <= UpCap
      <3>1. CASE ackRemaining <= 1
        BY <1>2, <2>1, <3>1, WriteTypes DEF NoteCounted
      <3>2. CASE ~(ackRemaining <= 1)
        BY <1>2, <3>2 DEF NoteCounted, TypeOK, ChannelTypeOK
      <3> QED BY <3>1, <3>2
    <2>3. ackRemaining' \in 0 .. ackWindow /\ ackedTo' \in Nat
      BY <1>2 DEF NoteCounted, Refill, TypeOK
    <2>4. /\ UNCHANGED <<gen, window, sent, acked, synced, down, cur, cgen, conn, events, rx,
                         boot, ackWindow, skipped>>
          /\ pc' = "read" /\ done' = done + 1
      BY <1>2 DEF NoteCounted
    <2> QED BY <2>2, <2>3, <2>4 DEF TypeOK, ChannelTypeOK
  <1> QED BY <1>1, <1>2

-----------------------------------------------------------------------------
(***************************************************************************)
(* The inductive step, one lemma per way of moving the two chains.         *)
(***************************************************************************)

\* Agreement is handed on.
LEMMA MeetsTransitive ==
    ASSUME NEW g \in Nat, NEW n \in Nat, NEW h \in Nat, NEW k \in Nat, Meets(g, n, h, k)
    PROVE  /\ \A l, j \in Nat : Meets(h, k, l, j) => Meets(g, n, l, j)
           /\ \A m \in DownMsg : Precedes(h, k, m) => Precedes(g, n, m)
  BY DEF Meets, Precedes, DownMsg

\* A message the server adds at the end of down extends the downstream chain.
LEMMA ServerAppends ==
    ASSUME FlowsInv, NEW m \in DownMsg,
           down' = Append(down, m), Precedes(gen, sent, m),
           gen' = m.gen, window' = m.window, sent' = m.n,
           gen' = gen => window' = window /\ sent <= sent',
           UNCHANGED <<pc, cur, cgen, ackWindow, done>>
    PROVE  SentInv' /\ Downstream'
  <1>1. TypeOK /\ SentInv /\ Downstream
    BY DEF FlowsInv
  <1>2. down \in Seq(DownMsg)
    BY <1>1 DEF TypeOK, ChannelTypeOK
  <1>3. /\ Len(down) \in Nat /\ Len(down') = Len(down) + 1 /\ down' # <<>>
        /\ down'[Len(down) + 1] = m
        /\ \A i \in 1 .. Len(down) : down'[i] = down[i]
    BY <1>2, AppendFacts
  <1>4. m.gen \in Nat /\ m.window \in Nat /\ m.n \in Nat /\ m.kind \in Uncounted \cup Counted
    BY DEF DownMsg
  <1>5. /\ gen \in Nat /\ window \in Nat /\ sent \in Nat
        /\ cgen \in Nat /\ ackWindow \in Nat /\ done \in Nat
    BY <1>1 DEF TypeOK, ChannelTypeOK
  <1>6. gen <= gen'
    BY <1>4, <1>5 DEF Precedes
  <1>7. ASSUME NEW g \in Nat, NEW w \in Nat, NEW n \in Nat, SentBy(g, w, n)
        PROVE  SentBy(g, w, n)'
    BY <1>4, <1>5, <1>6, <1>7 DEF SentBy
  <1>8. SentInv'
    <2>1. ASSUME NEW i \in 1 .. Len(down')
          PROVE  SentBy(down[i].gen, down[i].window, down[i].n)'
      <3>1. CASE i = Len(down) + 1
        BY <1>3, <1>4, <3>1 DEF SentBy
      <3>2. CASE i # Len(down) + 1
        <4>1. i \in 1 .. Len(down)
          BY <1>3, <3>2
        <4>2. SentBy(down[i].gen, down[i].window, down[i].n)
          BY <1>1, <4>1 DEF SentInv
        <4> QED BY <1>1, <1>3, <1>7, <4>1, <4>2, MessageTypes
      <3> QED BY <3>1, <3>2
    <2>2. Pending' => SentBy(cur.gen, cur.window, cur.n)'
      BY <1>1, <1>7, MessageTypes DEF SentInv, Pending
    <2>3. cgen' <= gen' /\ (cgen' = gen' => done' <= sent' /\ (ackWindow' > 0 => ackWindow' = window'))
      BY <1>1, <1>4, <1>5, <1>6 DEF SentInv
    <2> QED BY <2>1, <2>2, <2>3 DEF SentInv
  <1>9. Downstream'
    <2> SUFFICES ASSUME pc # "exit" PROVE Downstream'
      BY DEF Downstream
    <2>1. Pending' = Pending /\ BaseGen' = BaseGen /\ BaseN' = BaseN
      BY DEF Pending, BaseGen, BaseN
    <2>2. Pending' => Precedes(cgen, done, cur)'
      BY <1>1, <2>1 DEF Downstream, Precedes
    <2>3. Precedes(BaseGen, BaseN, down[1])'
      <3>1. CASE down = <<>>
        <4>1. Len(down) = 0
          BY <3>1
        <4>2. down'[1] = m /\ Meets(BaseGen, BaseN, gen, sent)
          BY <1>1, <1>3, <3>1, <4>1 DEF Downstream
        <4>3. BaseGen \in Nat /\ BaseN \in Nat
          BY <1>1, <1>5, MessageTypes DEF BaseGen, BaseN
        <4>4. Precedes(BaseGen, BaseN, m)
          BY <1>5, <4>2, <4>3, MeetsTransitive
        <4> QED BY <2>1, <4>2, <4>4 DEF Precedes
      <3>2. CASE down # <<>>
        <4>1. down'[1] = down[1]
          BY <1>1, <1>3, <3>2, MessageTypes
        <4>2. Precedes(BaseGen, BaseN, down[1])
          BY <1>1, <3>2 DEF Downstream
        <4> QED BY <2>1, <4>1, <4>2 DEF Precedes
      <3> QED BY <3>1, <3>2
    <2>4. ASSUME NEW i \in 1 .. Len(down') - 1
          PROVE  Precedes(down[i].gen, down[i].n, down[i + 1])'
      <3>1. i \in 1 .. Len(down) /\ down'[i] = down[i]
        BY <1>3
      <3>2. CASE i = Len(down)
        <4>1. down # <<>>
          BY <1>3, <3>1, <3>2
        <4>2. Meets(down[i].gen, down[i].n, gen, sent)
          BY <1>1, <3>2, <4>1 DEF Downstream
        <4>3. Precedes(down[i].gen, down[i].n, m)
          BY <1>1, <1>5, <3>1, <4>2, MeetsTransitive, MessageTypes
        <4> QED BY <1>3, <3>1, <3>2, <4>3 DEF Precedes
      <3>3. CASE i # Len(down)
        <4>1. i \in 1 .. Len(down) - 1 /\ i + 1 \in 1 .. Len(down)
          BY <1>3, <3>1, <3>3
        <4>2. Precedes(down[i].gen, down[i].n, down[i + 1])
          BY <1>1, <4>1 DEF Downstream
        <4>3. down'[i + 1] = down[i + 1]
          BY <1>3, <4>1
        <4> QED BY <3>1, <4>2, <4>3 DEF Precedes
      <3> QED BY <3>2, <3>3
    <2>5. Meets(down[Len(down)].gen, down[Len(down)].n, gen, sent)'
      BY <1>3, <1>4 DEF Meets
    <2> QED BY <1>3, <2>2, <2>3, <2>4, <2>5 DEF Downstream
  <1> QED BY <1>8, <1>9

\* A message the task writes at the end of up extends the upstream chain.
LEMMA TaskWrites ==
    ASSUME FlowsInv, NEW m \in UpMsg,
           up' = Append(up, m), Answers(cgen, ackedTo, m),
           cgen' = m.gen, ackedTo' = m.upto,
           m.kind = "ack" => ackWindow > 0 /\ m.window = ackWindow,
           m.kind # "ack_sync" => ackWindow' = ackWindow,
           UNCHANGED <<gen, window, acked, synced>>
    PROVE  WrittenInv' /\ Upstream'
  <1> USE DEF FlowsInv
  <1>1. TypeOK
    OBVIOUS
  <1>2. up \in Seq(UpMsg)
    BY <1>1 DEF TypeOK, ChannelTypeOK
  <1>3. /\ Len(up) \in Nat /\ Len(up') = Len(up) + 1 /\ up' # <<>>
        /\ up'[Len(up) + 1] = m
        /\ \A i \in 1 .. Len(up) : up'[i] = up[i]
    BY <1>2, AppendFacts
  <1>4. /\ m.gen \in Nat /\ m.window \in Nat /\ m.upto \in Nat
        /\ m.kind \in {"pong", "ack_sync", "ack"}
    BY DEF UpMsg
  <1>5. /\ gen \in Nat /\ window \in Nat /\ acked \in Nat /\ synced \in BOOLEAN
        /\ cgen \in Nat /\ ackWindow \in Nat /\ ackedTo \in Nat
    BY <1>1 DEF TypeOK, ChannelTypeOK
  <1>6. cgen <= cgen' /\ (cgen' = cgen => ackedTo <= ackedTo' /\ ackWindow' = ackWindow)
    BY <1>4, <1>5 DEF Answers
  <1>7. WrittenInv'
    <2> SUFFICES ASSUME NEW i \in 1 .. Len(up')
                 PROVE  /\ up'[i].gen <= cgen'
                        /\ up'[i].gen = cgen' => up'[i].upto <= ackedTo'
                        /\ up'[i].gen = cgen' /\ up'[i].kind = "ack" =>
                              ackWindow' > 0 /\ up'[i].window = ackWindow'
                        /\ up'[i].kind = "ack_sync" => up'[i].upto = 0
      BY DEF WrittenInv
    <2>1. CASE i = Len(up) + 1
      BY <1>3, <1>4, <2>1 DEF Answers
    <2>2. CASE i # Len(up) + 1
      <3>1. i \in 1 .. Len(up) /\ up'[i] = up[i]
        BY <1>3, <2>2
      <3>2. up[i].gen \in Nat /\ up[i].upto \in Nat
        BY <1>1, <3>1, MessageTypes
      <3>3. /\ up[i].gen <= cgen
            /\ up[i].gen = cgen => up[i].upto <= ackedTo
            /\ up[i].gen = cgen /\ up[i].kind = "ack" => ackWindow > 0 /\ up[i].window = ackWindow
            /\ up[i].kind = "ack_sync" => up[i].upto = 0
        BY <3>1 DEF WrittenInv
      <3> QED BY <1>4, <1>5, <1>6, <3>1, <3>2, <3>3
    <2> QED BY <2>1, <2>2
  <1>8. Upstream'
    <2>1. ASSUME NEW i \in 1 .. Len(up') - 1
          PROVE  Answers(up[i].gen, up[i].upto, up[i + 1])'
      <3>1. i \in 1 .. Len(up) /\ up'[i] = up[i]
        BY <1>3
      <3>2. CASE i = Len(up)
        <4>1. up # <<>>
          BY <1>3, <3>1, <3>2
        <4>2. up[i].gen = cgen /\ up[i].upto = ackedTo
          BY <3>2, <4>1 DEF Upstream
        <4> QED BY <1>3, <3>1, <3>2, <4>2 DEF Answers
      <3>3. CASE i # Len(up)
        <4>1. i \in 1 .. Len(up) - 1 /\ i + 1 \in 1 .. Len(up)
          BY <1>3, <3>1, <3>3
        <4>2. Answers(up[i].gen, up[i].upto, up[i + 1])
          BY <4>1 DEF Upstream
        <4>3. up'[i + 1] = up[i + 1]
          BY <1>3, <4>1
        <4> QED BY <3>1, <4>2, <4>3 DEF Answers
      <3> QED BY <3>2, <3>3
    <2>2. CASE up = <<>>
      <3>1. Len(up) = 0 /\ up'[1] = m
        BY <1>3, <2>2
      <3>2. synced => Answers(gen, acked, m)
        BY <2>2 DEF Upstream
      <3>3. ~synced => m.gen < gen \/ m.kind = "ack_sync"
        BY <1>4, <1>5, <2>2 DEF Upstream, Answers
      <3> QED BY <1>3, <2>1, <3>1, <3>2, <3>3 DEF Upstream, Answers
    <2>3. CASE up # <<>>
      <3>1. up'[1] = up[1]
        BY <1>1, <1>3, <2>3, MessageTypes
      <3>2. synced => Answers(gen, acked, up[1])
        BY <2>3 DEF Upstream
      <3>3. ~synced => up[1].gen < gen \/ up[1].kind = "ack_sync"
        BY <2>3 DEF Upstream
      <3> QED BY <1>3, <2>1, <3>1, <3>2, <3>3 DEF Upstream, Answers
    <2> QED BY <2>2, <2>3
  <1> QED BY <1>7, <1>8

\* Steps that touch neither end of up, nor the counters it runs between, keep it.
LEMMA UpstreamUntouched ==
    ASSUME FlowsInv, UNCHANGED <<gen, window, acked, synced, up, cgen, ackWindow, ackedTo>>
    PROVE  WrittenInv' /\ Upstream'
  BY DEF FlowsInv, WrittenInv, Upstream, Answers

\* Steps that touch neither end of down, nor the counters it runs between, keep it.
LEMMA DownstreamUntouched ==
    ASSUME FlowsInv,
           UNCHANGED <<gen, window, sent, down, cur, cgen, ackWindow, done>>,
           \/ pc' = pc \/ pc' = "exit"
           \/ pc = "handle" /\ pc' = "note" /\ Counts(cur.kind)
           \/ pc = "note" /\ ~Counts(cur.kind) /\ pc' = "read"
    PROVE  SentInv' /\ Downstream'
  <1>1. Pending' => Pending
    BY DEF Pending
  <1>2. SentInv'
    BY <1>1 DEF FlowsInv, SentInv, SentBy
  <1>3. CASE pc' = "exit"
    BY <1>2, <1>3 DEF Downstream
  <1>4. CASE pc' # "exit"
    <2>1. pc # "exit" /\ Pending' = Pending
      BY <1>4 DEF Pending
    <2>2. BaseGen' = BaseGen /\ BaseN' = BaseN
      BY <2>1 DEF BaseGen, BaseN
    <2> QED BY <1>2, <2>1, <2>2 DEF FlowsInv, Downstream, Precedes, Meets
  <1> QED BY <1>3, <1>4

\* Taking the first message off down makes it the pending one.
LEMMA TaskTakes ==
    ASSUME FlowsInv, Take, UNCHANGED mainVars
    PROVE  SentInv' /\ Downstream'
  <1>1. TypeOK /\ SentInv /\ Downstream
    BY DEF FlowsInv
  <1>2. down \in Seq(DownMsg) /\ down # <<>> /\ cur' = Head(down) /\ down' = Tail(down)
    BY <1>1 DEF TypeOK, ChannelTypeOK, Take
  <1>3. /\ Len(down) \in Nat /\ Len(down) >= 1 /\ cur' = down[1]
        /\ Len(down') = Len(down) - 1
        /\ down' = <<>> <=> Len(down) = 1
        /\ \A i \in 1 .. Len(down) - 1 : down'[i] = down[i + 1]
    BY <1>2, TailFacts
  <1>4. /\ pc = "read" /\ pc' = "handle" /\ ~Pending /\ Pending'
        /\ UNCHANGED <<gen, window, sent, cgen, ackWindow, done>>
    BY DEF Take, Pending, serverVars, historyVars, mainVars, ackVars
  <1>5. SentInv'
    <2>1. ASSUME NEW i \in 1 .. Len(down')
          PROVE  SentBy(down[i].gen, down[i].window, down[i].n)'
      <3>1. i + 1 \in 1 .. Len(down) /\ down'[i] = down[i + 1]
        BY <1>3
      <3>2. SentBy(down[i + 1].gen, down[i + 1].window, down[i + 1].n)
        BY <1>1, <3>1 DEF SentInv
      <3> QED BY <1>4, <3>1, <3>2 DEF SentBy
    <2>2. SentBy(down[1].gen, down[1].window, down[1].n)
      BY <1>1, <1>3 DEF SentInv
    <2>3. SentBy(cur.gen, cur.window, cur.n)'
      BY <1>3, <1>4, <2>2 DEF SentBy
    <2>4. cgen <= gen /\ (cgen = gen => done <= sent /\ (ackWindow > 0 => ackWindow = window))
      BY <1>1 DEF SentInv
    <2> QED BY <1>4, <2>1, <2>3, <2>4 DEF SentInv
  <1>6. Downstream'
    <2>1. /\ Precedes(cgen, done, down[1])
          /\ \A i \in 1 .. Len(down) - 1 : Precedes(down[i].gen, down[i].n, down[i + 1])
          /\ Meets(down[Len(down)].gen, down[Len(down)].n, gen, sent)
      BY <1>1, <1>2, <1>4 DEF Downstream, BaseGen, BaseN
    <2>2. BaseGen' = down[1].gen /\ BaseN' = down[1].n
      BY <1>3, <1>4 DEF BaseGen, BaseN
    <2>3. Precedes(cgen, done, cur)'
      BY <1>3, <1>4, <2>1 DEF Precedes
    <2>4. down' # <<>> => Precedes(BaseGen, BaseN, down[1])'
      <3> SUFFICES ASSUME down' # <<>> PROVE Precedes(BaseGen, BaseN, down[1])'
        OBVIOUS
      <3>1. 1 \in 1 .. Len(down) - 1
        BY <1>3
      <3>2. down'[1] = down[2] /\ Precedes(down[1].gen, down[1].n, down[2])
        BY <1>3, <2>1, <3>1
      <3> QED BY <2>2, <3>2 DEF Precedes
    <2>5. ASSUME NEW i \in 1 .. Len(down') - 1
          PROVE  Precedes(down[i].gen, down[i].n, down[i + 1])'
      <3>1. /\ i \in 1 .. Len(down) - 1 /\ i + 1 \in 1 .. Len(down) - 1
            /\ down'[i] = down[i + 1] /\ down'[i + 1] = down[i + 1 + 1]
        BY <1>3
      <3>2. Precedes(down[i + 1].gen, down[i + 1].n, down[i + 1 + 1])
        BY <2>1, <3>1
      <3> QED BY <3>1, <3>2 DEF Precedes
    <2>6. IF down' = <<>> THEN Meets(BaseGen', BaseN', gen', sent')
          ELSE Meets(down'[Len(down')].gen, down'[Len(down')].n, gen', sent')
      <3>1. CASE down' = <<>>
        BY <1>3, <1>4, <2>1, <2>2, <3>1
      <3>2. CASE down' # <<>>
        <4>1. Len(down') \in 1 .. Len(down) - 1 /\ Len(down') + 1 = Len(down)
          BY <1>3, <3>2
        <4>2. down'[Len(down')] = down[Len(down)]
          BY <1>3, <4>1
        <4> QED BY <1>4, <2>1, <3>2, <4>2
      <3> QED BY <3>1, <3>2
    <2> QED BY <2>3, <2>4, <2>5, <2>6 DEF Downstream, Meets
  <1> QED BY <1>5, <1>6

\* Once the pending message has had its effect, the task's counters agree with
\* its stamps, or are of an earlier generation.
LEMMA PendingAbsorbed ==
    ASSUME FlowsInv, TypeOK', Pending, ~Pending', UNCHANGED <<gen, window, sent, down>>,
           Meets(cgen', done', cur.gen, cur.n),
           cgen' = gen /\ ackWindow' > 0 => ackWindow' = window
    PROVE  SentInv' /\ Downstream'
  <1>1. TypeOK /\ SentInv /\ Downstream /\ pc # "exit"
    BY DEF FlowsInv, Pending
  <1>2. /\ gen \in Nat /\ sent \in Nat /\ cgen' \in Nat /\ done' \in Nat
        /\ cur.gen \in Nat /\ cur.n \in Nat
    BY <1>1, MessageTypes DEF TypeOK, ChannelTypeOK
  <1>3. BaseGen = cur.gen /\ BaseN = cur.n /\ BaseGen' = cgen' /\ BaseN' = done'
    BY DEF BaseGen, BaseN
  <1>4. SentBy(cur.gen, cur.window, cur.n)
    BY <1>1 DEF SentInv
  <1>5. SentInv'
    <2>1. \A i \in 1 .. Len(down') : SentBy(down[i].gen, down[i].window, down[i].n)'
      BY <1>1 DEF SentInv, SentBy
    <2>2. cgen' <= gen' /\ (cgen' = gen' => done' <= sent')
      BY <1>2, <1>4 DEF SentBy, Meets
    <2> QED BY <2>1, <2>2 DEF SentInv
  <1>6. Downstream'
    <2>1. down' # <<>> => Precedes(BaseGen', BaseN', down'[1])
      <3> SUFFICES ASSUME down # <<>> PROVE Precedes(cgen', done', down[1])
        BY <1>3
      <3>1. Precedes(cur.gen, cur.n, down[1]) /\ down[1] \in DownMsg
        BY <1>1, <1>3, MessageTypes DEF Downstream
      <3> QED BY <1>2, <3>1, MeetsTransitive
    <2>2. \A i \in 1 .. Len(down') - 1 : Precedes(down'[i].gen, down'[i].n, down'[i + 1])
      BY <1>1 DEF Downstream
    <2>3. IF down' = <<>> THEN Meets(BaseGen', BaseN', gen', sent')
          ELSE Meets(down'[Len(down')].gen, down'[Len(down')].n, gen', sent')
      <3>1. CASE down = <<>>
        <4>1. Meets(cur.gen, cur.n, gen, sent)
          BY <1>1, <1>3, <3>1 DEF Downstream
        <4>2. Meets(cgen', done', gen, sent)
          BY <1>2, <4>1, MeetsTransitive
        <4> QED BY <1>3, <3>1, <4>2
      <3>2. CASE down # <<>>
        BY <1>1, <3>2 DEF Downstream
      <3> QED BY <3>1, <3>2
    <2> QED BY <2>1, <2>2, <2>3 DEF Downstream, Precedes, Meets
  <1> QED BY <1>5, <1>6

\* The server takes the first message off up.
LEMMA ServerTakes ==
    ASSUME FlowsInv, ServerRecv, UNCHANGED <<ackWindow, ackedTo>>
    PROVE  ServerInv' /\ WrittenInv' /\ Upstream'
  <1> USE DEF FlowsInv
  <1> DEFINE m == up[1]
  <1>1. up \in Seq(UpMsg) /\ up # <<>> /\ up' = Tail(up)
    BY DEF TypeOK, ChannelTypeOK, ServerRecv
  <1>2. /\ Len(up) \in Nat /\ Len(up) >= 1 /\ Head(up) = m
        /\ Len(up') = Len(up) - 1
        /\ up' = <<>> <=> Len(up) = 1
        /\ \A i \in 1 .. Len(up) - 1 : up'[i] = up[i + 1]
    BY <1>1, TailFacts
  <1>3. /\ UNCHANGED <<gen, window, sent, cgen>>
        /\ synced' = (synced \/ (m.kind = "ack_sync" /\ m.gen = gen))
        /\ acked' = IF m.kind = "ack" /\ synced THEN acked + window ELSE acked
    BY <1>2 DEF ServerRecv, historyVars
  <1>4. /\ gen \in Nat /\ window \in Nat /\ sent \in Nat /\ acked \in Nat
        /\ cgen \in Nat /\ ackWindow \in Nat /\ ackedTo \in Nat /\ synced \in BOOLEAN
        /\ m.gen \in Nat /\ m.window \in Nat /\ m.upto \in Nat
        /\ m.kind \in {"pong", "ack_sync", "ack"}
    BY <1>2, MessageTypes DEF TypeOK, ChannelTypeOK
  <1>5. /\ m.gen <= cgen
        /\ m.gen = cgen => m.upto <= ackedTo
        /\ m.gen = cgen /\ m.kind = "ack" => ackWindow > 0 /\ m.window = ackWindow
        /\ m.kind = "ack_sync" => m.upto = 0
        /\ cgen <= gen /\ (cgen = gen => (ackWindow > 0 => ackWindow = window))
    BY <1>2 DEF WrittenInv, SentInv
  <1>6. /\ synced => Answers(gen, acked, m)
        /\ ~synced => m.gen < gen \/ m.kind = "ack_sync"
    BY <1>1 DEF Upstream
  <1>7. synced => m.kind # "ack_sync"
    BY <1>4, <1>5, <1>6 DEF Answers
  <1>8. ServerInv'
    BY <1>3, <1>4 DEF ServerInv
  <1>9. WrittenInv'
    <2> SUFFICES ASSUME NEW i \in 1 .. Len(up')
                 PROVE  /\ up'[i].gen <= cgen'
                        /\ up'[i].gen = cgen' => up'[i].upto <= ackedTo'
                        /\ up'[i].gen = cgen' /\ up'[i].kind = "ack" =>
                              ackWindow' > 0 /\ up'[i].window = ackWindow'
                        /\ up'[i].kind = "ack_sync" => up'[i].upto = 0
      BY DEF WrittenInv
    <2>1. i + 1 \in 1 .. Len(up) /\ up'[i] = up[i + 1]
      BY <1>2
    <2> QED BY <1>3, <2>1 DEF WrittenInv
  <1>10. synced' => m.gen = gen' /\ m.upto = acked'
    <2>1. CASE synced
      <3>1. m.gen = gen /\ cgen = gen /\ (m.kind = "ack" => m.window = window)
        BY <1>4, <1>5, <1>6, <1>7, <2>1 DEF Answers
      <3> QED BY <1>3, <1>4, <1>6, <1>7, <2>1, <3>1 DEF Answers
    <2>2. CASE ~synced
      <3> SUFFICES ASSUME synced' PROVE m.gen = gen' /\ m.upto = acked'
        OBVIOUS
      <3>1. m.kind = "ack_sync" /\ m.gen = gen /\ acked' = acked /\ acked = 0
        BY <1>3, <2>2 DEF ServerInv
      <3>2. m.upto = 0
        BY <1>5, <3>1
      <3> QED BY <1>3, <3>1, <3>2
    <2> QED BY <2>1, <2>2
  <1>11. ~synced' => ~synced /\ (m.kind = "ack_sync" => m.gen < gen)
    <2>1. m.gen # gen => m.gen < gen
      BY <1>4, <1>5
    <2>2. ~synced' => ~synced /\ ~(m.kind = "ack_sync" /\ m.gen = gen)
      BY <1>3, Zenon
    <2> QED BY <2>1, <2>2, Zenon
  <1>12. ~synced' => m.gen < gen
    BY <1>6, <1>11
  <1>13. Upstream'
    <2>1. ASSUME NEW i \in 1 .. Len(up') - 1
          PROVE  Answers(up[i].gen, up[i].upto, up[i + 1])'
      <3>1. /\ i + 1 \in 1 .. Len(up) - 1
            /\ up'[i] = up[i + 1] /\ up'[i + 1] = up[i + 1 + 1]
        BY <1>2
      <3>2. Answers(up[i + 1].gen, up[i + 1].upto, up[i + 1 + 1])
        BY <3>1 DEF Upstream
      <3> QED BY <3>1, <3>2 DEF Answers
    <2>2. CASE up' = <<>>
      <3>1. m.gen = cgen /\ m.upto = ackedTo
        BY <1>1, <1>2, <2>2 DEF Upstream
      <3> QED BY <1>3, <1>10, <1>12, <2>1, <2>2, <3>1 DEF Upstream
    <2>3. CASE up' # <<>>
      <3>1. 1 \in 1 .. Len(up) - 1 /\ Len(up') \in 1 .. Len(up) - 1 /\ Len(up') + 1 = Len(up)
        BY <1>2, <2>3
      <3>2. up'[1] = up[2] /\ up'[Len(up')] = up[Len(up)]
        BY <1>2, <3>1
      <3>3. Answers(m.gen, m.upto, up[2])
        BY <3>1 DEF Upstream
      <3>4. up[2].gen \in Nat /\ up[2].gen <= cgen /\ up[2].kind \in {"pong", "ack_sync", "ack"}
        BY <3>1, MessageTypes DEF WrittenInv
      <3>5. up'[Len(up')].gen = cgen' /\ up'[Len(up')].upto = ackedTo'
        BY <1>1, <1>3, <3>2 DEF Upstream
      <3>6. synced' => Answers(gen', acked', up'[1])
        BY <1>10, <3>2, <3>3
      <3>7. ~synced' => up'[1].gen < gen' \/ up'[1].kind = "ack_sync"
        BY <1>3, <1>12, <3>2, <3>3, <3>4 DEF Answers
      <3> QED BY <2>1, <2>3, <3>5, <3>6, <3>7 DEF Upstream
    <2> QED BY <2>2, <2>3
  <1> QED BY <1>8, <1>9, <1>13

-----------------------------------------------------------------------------
(***************************************************************************)
(* Every step keeps the invariant.                                         *)
(***************************************************************************)

\* The initial states of the three channels satisfy the invariant.
LEMMA InitFlowsInv == FlowsInit => FlowsInv
  <1> SUFFICES ASSUME FlowsInit PROVE FlowsInv
    OBVIOUS
  <1>1. /\ gen = 0 /\ window = 0 /\ sent = 0 /\ acked = 0 /\ synced
        /\ down = <<>> /\ Len(down) = 0 /\ up = <<>> /\ Len(up) = 0 /\ pc = "read"
        /\ cgen = 0 /\ done = 0 /\ ackWindow = 0 /\ ackRemaining = 0 /\ ackedTo = 0
        /\ boot /\ role \in {"main", "cursor", "inputs"}
    BY DEF FlowsInit, Init, ChannelInit
  <1>2. TypeOK
    <2>1. /\ conn = "open" /\ events = 0 /\ rx = TRUE /\ boot = TRUE /\ skipped = FALSE
          /\ synced = TRUE
      BY DEF FlowsInit, Init, ChannelInit
    <2>2. cur \in DownMsg
      BY DEF FlowsInit, Init, ChannelInit, NoMsg, Down, DownMsg, Counted
    <2>3. down \in Seq(DownMsg) /\ up \in Seq(UpMsg)
      BY <1>1
    <2>4. ChannelTypeOK
      BY <1>1, <2>1, <2>2, <2>3, BoundsAssumption DEF ChannelTypeOK
    <2>5. boot \in BOOLEAN /\ skipped \in BOOLEAN
      BY <2>1
    <2>6. ackWindow \in Nat /\ ackRemaining \in 0 .. ackWindow /\ ackedTo \in Nat
      BY <1>1
    <2> QED BY <2>4, <2>5, <2>6, Zenon DEF TypeOK
  <1>3. ~Pending /\ BaseGen = 0 /\ BaseN = 0
    BY <1>1 DEF Pending, BaseGen, BaseN
  <1>4. ServerInv /\ SentInv /\ Countdown
    BY <1>1, <1>3 DEF ServerInv, SentInv, SentBy, Countdown
  <1>5. Downstream
    BY <1>1, <1>3 DEF Downstream, Meets
  <1>6. WrittenInv /\ Upstream
    BY <1>1 DEF WrittenInv, Upstream
  <1> QED BY <1>1, <1>2, <1>4, <1>5, <1>6 DEF FlowsInv

\* A step of the server keeps the invariant.
LEMMA ServerKeeps ==
    ASSUME FlowsInv, ServerStep \/ ServerList, UNCHANGED mainVars, UNCHANGED role
    PROVE  FlowsInv'
  <1>1. /\ UNCHANGED <<boot, ackWindow, ackRemaining, ackedTo, skipped, role>>
        /\ TypeOK' /\ role' \in {"main", "cursor", "inputs"}
    BY ServerTypes DEF mainVars, ackVars, FlowsInv
  <1>2. ASSUME NEW m \in DownMsg, m.kind # "set_ack", Precedes(gen, sent, m),
               m.gen = gen, m.window = window,
               down' = Append(down, m), sent' = m.n, HasCredit \/ sent' = sent,
               sent <= sent', sent' <= sent + 1,
               UNCHANGED <<gen, window, acked, synced, up, pc, cur, cgen, done>>
        PROVE  FlowsInv'
    <2>1. SentInv' /\ Downstream'
      BY <1>1, <1>2, ServerAppends
    <2>2. WrittenInv' /\ Upstream'
      BY <1>1, <1>2, UpstreamUntouched
    <2>3. ServerInv'
      <3>1. /\ window > 0 => sent - acked <= window
            /\ ~synced => acked = 0
            /\ window \in Nat /\ sent \in Nat /\ acked \in Nat /\ m.n \in Nat
        BY DEF FlowsInv, ServerInv, TypeOK, ChannelTypeOK, DownMsg
      <3>2. window > 0 => sent' - acked <= window
        BY <1>2, <3>1 DEF HasCredit
      <3> QED BY <1>2, <3>1, <3>2 DEF ServerInv
    <2>4. Countdown'
      BY <1>1, <1>2 DEF FlowsInv, Countdown
    <2> QED BY <1>1, <2>1, <2>2, <2>3, <2>4 DEF FlowsInv
  <1>3. gen \in Nat /\ window \in Nat /\ sent \in Nat /\ cgen \in Nat
    BY DEF FlowsInv, TypeOK, ChannelTypeOK
  <1>4. ASSUME NEW kind \in {"event", "quiet", "list"}, NEW ok \in BOOLEAN, ServerSend(kind, ok)
        PROVE  FlowsInv'
    <2> DEFINE m == Down(kind, ok, gen, window, sent + 1)
    <2>1. /\ m.kind = kind /\ m.gen = gen /\ m.window = window /\ m.n = sent + 1
      BY DEF Down
    <2>2. m \in DownMsg
      BY <1>3 DEF Down, DownMsg, Counted
    <2>3. /\ down' = Append(down, m) /\ sent' = sent + 1 /\ HasCredit
          /\ UNCHANGED <<gen, window, acked, synced, up, pc, cur, cgen, done>>
      BY <1>4 DEF ServerSend, historyVars
    <2> HIDE DEF m
    <2>4. Precedes(gen, sent, m) /\ m.kind # "set_ack"
      BY <1>3, <2>1 DEF Precedes
    <2> QED BY <1>2, <1>3, <2>1, <2>2, <2>3, <2>4
  <1>5. ASSUME NEW kind \in {"ping", "migrate"}, NEW ok \in BOOLEAN, ServerControl(kind, ok)
        PROVE  FlowsInv'
    <2> DEFINE m == Down(kind, ok, gen, window, sent)
    <2>1. /\ m.kind = kind /\ m.gen = gen /\ m.window = window /\ m.n = sent
      BY DEF Down
    <2>2. m \in DownMsg
      BY <1>3 DEF Down, DownMsg, Uncounted
    <2>3. /\ down' = Append(down, m)
          /\ UNCHANGED <<gen, window, sent, acked, synced, up, pc, cur, cgen, done>>
      BY <1>5 DEF ServerControl, serverVars, historyVars
    <2> HIDE DEF m
    <2>4. Precedes(gen, sent, m) /\ m.kind # "set_ack"
      BY <1>3, <2>1 DEF Precedes, Counted
    <2> QED BY <1>2, <1>3, <2>1, <2>2, <2>3, <2>4
  <1>6. ASSUME NEW w \in Windows, NEW ok \in BOOLEAN, ServerSetAck(w, ok)
        PROVE  FlowsInv'
    <2> DEFINE m == Down("set_ack", ok, gen + 1, w, 0)
    <2>1. m.kind = "set_ack" /\ m.gen = gen + 1 /\ m.window = w /\ m.n = 0
      BY DEF Down
    <2>2. m \in DownMsg /\ w \in Nat
      BY <1>3, WindowsAssumption DEF Down, DownMsg, Uncounted
    <2>3. /\ down' = Append(down, m) /\ gen' = gen + 1 /\ window' = w /\ sent' = 0
          /\ acked' = 0 /\ ~synced'
          /\ UNCHANGED <<up, pc, cur, cgen, done>>
      BY <1>6 DEF ServerSetAck, historyVars
    <2> HIDE DEF m
    <2>4. Precedes(gen, sent, m) /\ gen' # gen
      BY <1>3, <2>1, <2>3 DEF Precedes, Counted
    <2>5. SentInv' /\ Downstream'
      BY <1>1, <2>1, <2>2, <2>3, <2>4, ServerAppends
    <2>6. ServerInv'
      BY <2>2, <2>3 DEF ServerInv
    <2>7. Countdown' /\ WrittenInv'
      BY <1>1, <2>3 DEF FlowsInv, Countdown, WrittenInv
    <2>8. cgen < gen' /\ (up # <<>> => up[1].gen < gen')
      <3>1. cgen <= gen
        BY DEF FlowsInv, SentInv
      <3>2. up # <<>> => up[1].gen <= cgen /\ up[1].gen \in Nat
        BY MessageTypes DEF FlowsInv, WrittenInv
      <3> QED BY <1>3, <2>3, <3>1, <3>2
    <2>9. Upstream'
      BY <1>1, <2>3, <2>8 DEF FlowsInv, Upstream, Answers
    <2> QED BY <1>1, <2>5, <2>6, <2>7, <2>9 DEF FlowsInv
  <1>7. CASE ServerRecv
    <2>1. ServerInv' /\ WrittenInv' /\ Upstream'
      BY <1>1, <1>7, ServerTakes
    <2>2. UNCHANGED <<gen, window, sent, down, pc, cur, cgen, done>>
      BY <1>7 DEF ServerRecv, historyVars
    <2>3. SentInv' /\ Downstream'
      BY <1>1, <2>2, DownstreamUntouched
    <2> QED BY <1>1, <2>1, <2>2, <2>3 DEF FlowsInv, Countdown
  <1>8. CASE ServerClose
    <2>1. UNCHANGED <<gen, window, sent, acked, synced, down, up, pc, cur, cgen, done>>
      BY <1>8 DEF ServerClose, serverVars, historyVars
    <2> QED BY <1>1, <2>1, DownstreamUntouched, UpstreamUntouched DEF FlowsInv, ServerInv, Countdown
  <1> QED BY <1>4, <1>5, <1>6, <1>7, <1>8, OksAssumption DEF ServerStep, ServerList

\* A step of the embedder keeps the invariant.
LEMMA EmbedderKeeps ==
    ASSUME FlowsInv, EmbedderStep, UNCHANGED mainVars, UNCHANGED role
    PROVE  FlowsInv'
  <1>1. UNCHANGED <<gen, window, sent, acked, synced, down, up, cur, cgen, done,
                    boot, ackWindow, ackRemaining, ackedTo, skipped, role>>
    BY DEF EmbedderStep, EmbedderRecv, OtherTaskPosts, DropClient, Abort,
           mainVars, ackVars, serverVars, historyVars
  <1>2. pc' = pc \/ pc' = "exit"
    BY DEF EmbedderStep, EmbedderRecv, OtherTaskPosts, DropClient, Abort
  <1>3. TypeOK'
    BY EmbedderTypes DEF FlowsInv
  <1>4. SentInv' /\ Downstream' /\ WrittenInv' /\ Upstream'
    BY <1>1, <1>2, DownstreamUntouched, UpstreamUntouched
  <1> QED BY <1>1, <1>3, <1>4 DEF FlowsInv, ServerInv, Countdown

\* A common step of the tasks keeps the invariant.
LEMMA CommonKeeps ==
    ASSUME FlowsInv, CommonStep, Mailbox, boot' \in BOOLEAN, skipped' \in BOOLEAN, UNCHANGED role
    PROVE  FlowsInv'
  <1>1. TypeOK /\ TypeOK' /\ Countdown /\ ServerInv /\ Downstream /\ SentInv
    BY CommonTypes DEF FlowsInv
  <1>2. /\ cgen \in Nat /\ done \in Nat /\ ackWindow \in Nat /\ ackRemaining \in Nat
        /\ ackedTo \in Nat /\ gen \in Nat
        /\ cur.gen \in Nat /\ cur.window \in Nat /\ cur.n \in Nat
        /\ cur.kind \in Uncounted \cup Counted
    BY <1>1, MessageTypes DEF TypeOK, ChannelTypeOK
  <1>3. CASE Take /\ UNCHANGED mainVars
    <2>1. UNCHANGED <<gen, window, sent, acked, synced, up, cgen, done,
                      boot, ackWindow, ackRemaining, ackedTo, skipped>>
      BY <1>3 DEF Take, mainVars, ackVars, serverVars, historyVars
    <2>2. SentInv' /\ Downstream' /\ WrittenInv' /\ Upstream'
      BY <1>3, <2>1, TaskTakes, UpstreamUntouched
    <2> QED BY <1>1, <2>1, <2>2 DEF FlowsInv, ServerInv, Countdown
  <1>4. CASE Leaves
    <2>1. /\ UNCHANGED <<gen, window, sent, acked, synced, down, up, cur, cgen, done,
                         boot, ackWindow, ackRemaining, ackedTo, skipped>>
          /\ pc' = "exit"
      BY <1>4 DEF Leaves, mainVars, ackVars, serverVars
    <2>2. SentInv' /\ Downstream' /\ WrittenInv' /\ Upstream'
      BY <2>1, DownstreamUntouched, UpstreamUntouched
    <2> QED BY <1>1, <2>1, <2>2 DEF FlowsInv, ServerInv, Countdown
  <1>5. CASE Pongs
    <2> DEFINE m == Up("pong", cgen, ackWindow, ackedTo)
    <2>1. /\ m \in UpMsg /\ m.kind = "pong" /\ m.gen = cgen /\ m.upto = ackedTo
      BY <1>2 DEF Up, UpMsg
    <2>2. /\ up' = Append(up, m) /\ pc = "handle" /\ pc' \in {"read", "note"} /\ cur.kind = "ping"
          /\ UNCHANGED <<gen, window, sent, acked, synced, down, cur, cgen, done,
                         boot, ackWindow, ackRemaining, ackedTo, skipped>>
      BY <1>5 DEF Pongs, Handling, Write, mainVars, ackVars, serverVars
    <2> HIDE DEF m
    <2>3. Answers(cgen, ackedTo, m)
      BY <2>1 DEF Answers
    <2>4. WrittenInv' /\ Upstream'
      BY <2>1, <2>2, <2>3, TaskWrites
    <2>5. Pending /\ ~Pending' /\ pc # "exit"
      BY <2>2 DEF Pending, Counts
    <2>6. Meets(cgen', done', cur.gen, cur.n)
      BY <1>1, <2>2, <2>5 DEF Downstream, Precedes, Meets
    <2>7. cgen' = gen /\ ackWindow' > 0 => ackWindow' = window
      BY <1>1, <2>2 DEF SentInv
    <2>8. SentInv' /\ Downstream'
      BY <1>1, <2>2, <2>5, <2>6, <2>7, PendingAbsorbed
    <2> QED BY <1>1, <2>2, <2>4, <2>8 DEF FlowsInv, ServerInv, Countdown
  <1>6. CASE Syncs
    <2> DEFINE m == Up("ack_sync", cur.gen, cur.window, 0)
    <2>1. /\ m \in UpMsg /\ m.kind = "ack_sync" /\ m.gen = cur.gen /\ m.upto = 0
      BY <1>2 DEF Up, UpMsg
    <2>2. /\ up' = Append(up, m) /\ pc = "handle" /\ pc' \in {"read", "note"}
          /\ cur.kind = "set_ack" /\ cgen' = cur.gen /\ done' = 0 /\ ackedTo' = 0
          /\ boot' = boot
          /\ UNCHANGED <<gen, window, sent, acked, synced, down, cur>>
      BY <1>6 DEF Syncs, Handling, Write, serverVars
    <2> HIDE DEF m
    <2>3. Pending /\ ~Pending' /\ pc # "exit"
      BY <2>2 DEF Pending, Counts
    <2>4. cgen < cur.gen /\ cur.n = 0
      BY <1>1, <2>2, <2>3 DEF Downstream, Precedes
    <2>5. Answers(cgen, ackedTo, m)
      BY <2>1, <2>4 DEF Answers
    <2>6. WrittenInv' /\ Upstream'
      BY <2>1, <2>2, <2>5, TaskWrites
    <2>7. Meets(cgen', done', cur.gen, cur.n)
      BY <1>2, <2>2, <2>4 DEF Meets
    <2>8. \/ ackWindow' = ackWindow /\ ackRemaining' = ackRemaining /\ ackWindow = 0
          \/ role = "main" /\ ~boot /\ ackWindow' = cur.window /\ ackRemaining' = cur.window
      BY <1>6 DEF Syncs, ackVars
    <2>9. cgen' = gen /\ ackWindow' > 0 => ackWindow' = window
      <3>1. SentBy(cur.gen, cur.window, cur.n)
        BY <1>1, <2>3 DEF SentInv
      <3> QED BY <2>2, <2>8, <3>1 DEF SentBy
    <2>10. SentInv' /\ Downstream'
      BY <1>1, <2>2, <2>3, <2>7, <2>9, PendingAbsorbed
    <2>11. Countdown'
      BY <1>1, <1>2, <2>2, <2>8 DEF Countdown
    <2> QED BY <1>1, <2>2, <2>6, <2>10, <2>11 DEF FlowsInv, ServerInv
  <1>7. CASE PassesOver
    <2>1. /\ pc = "handle" /\ pc' \in {"read", "exit"}
          /\ done' = IF Counts(cur.kind) THEN done + 1 ELSE done
          /\ cur.kind = "set_ack" \/ ~Counts(cur.kind) \/ ackWindow = 0 \/ skipped'
          /\ skipped => skipped'
          /\ role = "main" \/ boot' = boot
          /\ boot' => boot
          /\ UNCHANGED <<gen, window, sent, acked, synced, down, up, cur, cgen,
                         ackWindow, ackRemaining, ackedTo>>
      BY <1>7 DEF PassesOver, ackVars, serverVars
    <2>2. Pending /\ ~Pending' /\ pc # "exit"
      BY <2>1 DEF Pending
    <2>3. Precedes(cgen, done, cur)
      BY <1>1, <2>2 DEF Downstream
    <2>4. Meets(cgen', done', cur.gen, cur.n)
      BY <1>2, <2>1, <2>3 DEF Precedes, Meets, Counts, Uncounted, Counted
    <2>5. cgen' = gen /\ ackWindow' > 0 => ackWindow' = window
      BY <1>1, <2>1 DEF SentInv
    <2>6. SentInv' /\ Downstream'
      BY <1>1, <2>1, <2>2, <2>4, <2>5, PendingAbsorbed
    <2>7. WrittenInv' /\ Upstream'
      BY <2>1, UpstreamUntouched
    <2>8. Countdown'
      BY <1>1, <1>2, <2>1 DEF Countdown, Counts
    <2> QED BY <1>1, <2>1, <2>6, <2>7, <2>8 DEF FlowsInv, ServerInv
  <1> QED BY <1>3, <1>4, <1>5, <1>6, <1>7 DEF CommonStep

\* run_main's countdown keeps the invariant.
LEMMA CountdownKeeps ==
    ASSUME FlowsInv, role = "main", UNCHANGED role,
           HandleMouseMode \/ HandleQuiet \/ NoteUncounted \/ NoteCounted
    PROVE  FlowsInv'
  <1>1. TypeOK /\ TypeOK' /\ Countdown /\ ServerInv /\ Downstream /\ SentInv
    BY CountdownTypes DEF FlowsInv
  <1>2. /\ cgen \in Nat /\ done \in Nat /\ ackWindow \in Nat /\ ackRemaining \in Nat
        /\ ackedTo \in Nat /\ gen \in Nat /\ boot \in BOOLEAN /\ skipped \in BOOLEAN
        /\ cur.gen \in Nat /\ cur.window \in Nat /\ cur.n \in Nat
        /\ cur.kind \in Uncounted \cup Counted
    BY <1>1, MessageTypes DEF TypeOK, ChannelTypeOK
  <1>3. CASE HandleMouseMode \/ HandleQuiet
    <2>1. /\ pc = "handle" /\ pc' = "note" /\ cur.kind # "set_ack" /\ cur.kind # "ping"
          /\ UNCHANGED <<gen, window, sent, acked, synced, down, up, cur, cgen, done,
                         boot, ackWindow, ackRemaining, ackedTo, skipped>>
      BY <1>3 DEF HandleMouseMode, HandleQuiet, Handling, mainVars, ackVars, serverVars, historyVars
    <2>2. SentInv' /\ Downstream'
      <3>1. CASE Counts(cur.kind)
        BY <2>1, <3>1, DownstreamUntouched
      <3>2. CASE ~Counts(cur.kind)
        <4>1. cur.kind = "migrate" /\ Pending /\ ~Pending' /\ pc # "exit"
          BY <2>1, <3>2 DEF Counts, Pending
        <4>2. Meets(cgen', done', cur.gen, cur.n)
          BY <1>1, <2>1, <4>1 DEF Downstream, Precedes, Meets
        <4>3. cgen' = gen /\ ackWindow' > 0 => ackWindow' = window
          BY <1>1, <2>1 DEF SentInv
        <4> QED BY <1>1, <2>1, <4>1, <4>2, <4>3, PendingAbsorbed
      <3> QED BY <3>1, <3>2
    <2>3. WrittenInv' /\ Upstream'
      BY <2>1, UpstreamUntouched
    <2> QED BY <1>1, <2>1, <2>2, <2>3 DEF FlowsInv, ServerInv, Countdown
  <1>4. CASE NoteUncounted
    <2>1. /\ ~boot /\ pc = "note" /\ pc' = "read"
          /\ ackWindow = 0 \/ ~Counts(cur.kind)
          /\ done' = IF Counts(cur.kind) THEN done + 1 ELSE done
          /\ UNCHANGED <<gen, window, sent, acked, synced, down, up, cur, cgen,
                         boot, ackWindow, ackRemaining, ackedTo, skipped>>
      BY <1>4 DEF NoteUncounted, mainVars, ackVars, serverVars
    <2>2. SentInv' /\ Downstream'
      <3>1. CASE ~Counts(cur.kind)
        BY <2>1, <3>1, DownstreamUntouched
      <3>2. CASE Counts(cur.kind)
        <4>1. Pending /\ ~Pending' /\ pc # "exit" /\ cur.kind \in Counted /\ cur.kind # "set_ack"
          BY <1>2, <2>1, <3>2 DEF Counts, Pending, Uncounted
        <4>2. Meets(cgen', done', cur.gen, cur.n)
          BY <1>1, <2>1, <3>2, <4>1 DEF Downstream, Precedes, Meets
        <4>3. cgen' = gen /\ ackWindow' > 0 => ackWindow' = window
          BY <1>1, <2>1 DEF SentInv
        <4> QED BY <1>1, <2>1, <4>1, <4>2, <4>3, PendingAbsorbed
      <3> QED BY <3>1, <3>2
    <2>3. WrittenInv' /\ Upstream'
      BY <2>1, UpstreamUntouched
    <2>4. Countdown'
      BY <1>1, <2>1 DEF Countdown
    <2> QED BY <1>1, <2>1, <2>2, <2>3, <2>4 DEF FlowsInv, ServerInv
  <1>5. CASE NoteCounted
    <2>1. /\ ~boot /\ pc = "note" /\ pc' = "read" /\ ackWindow > 0 /\ Counts(cur.kind)
          /\ done' = done + 1
          /\ UNCHANGED <<gen, window, sent, acked, synced, down, cur, cgen, boot, ackWindow, skipped>>
      BY <1>5 DEF NoteCounted, serverVars
    <2>2. Pending /\ ~Pending' /\ pc # "exit" /\ cur.kind \in Counted /\ cur.kind # "set_ack"
      BY <1>2, <2>1 DEF Counts, Pending, Uncounted
    <2>3. Meets(cgen', done', cur.gen, cur.n)
      BY <1>1, <2>1, <2>2 DEF Downstream, Precedes, Meets
    <2>4. cgen' = gen /\ ackWindow' > 0 => ackWindow' = window
      BY <1>1, <2>1 DEF SentInv
    <2>5. SentInv' /\ Downstream'
      BY <1>1, <2>1, <2>2, <2>3, <2>4, PendingAbsorbed
    <2>6. /\ 1 <= ackRemaining /\ ackRemaining <= ackWindow
          /\ ackedTo + (ackWindow - ackRemaining) <= done
          /\ ~skipped => done = ackedTo + (ackWindow - ackRemaining)
      BY <1>1, <1>2, <2>1 DEF Countdown
    <2>7. CASE ackRemaining <= 1
      <3> DEFINE m == Up("ack", cgen, ackWindow, ackedTo + ackWindow)
      <3>1. up' = Append(up, m) /\ ackRemaining' = ackWindow /\ ackedTo' = ackedTo + ackWindow
        BY <1>5, <2>7 DEF NoteCounted, Write, Refill
      <3>2. /\ m \in UpMsg /\ m.kind = "ack" /\ m.gen = cgen /\ m.window = ackWindow
            /\ m.upto = ackedTo + ackWindow
        BY <1>2 DEF Up, UpMsg
      <3> HIDE DEF m
      <3>3. Answers(cgen, ackedTo, m)
        BY <3>2 DEF Answers
      <3>4. WrittenInv' /\ Upstream'
        BY <2>1, <3>1, <3>2, <3>3, TaskWrites
      <3>5. Countdown'
        BY <1>1, <1>2, <2>1, <2>6, <2>7, <3>1 DEF Countdown
      <3> QED BY <1>1, <2>1, <2>5, <3>4, <3>5 DEF FlowsInv, ServerInv
    <2>8. CASE ~(ackRemaining <= 1)
      <3>1. up' = up /\ ackedTo' = ackedTo /\ ackRemaining' = ackRemaining - 1
        BY <1>5, <2>8 DEF NoteCounted
      <3>2. WrittenInv' /\ Upstream'
        BY <2>1, <3>1, UpstreamUntouched
      <3>3. Countdown'
        BY <1>1, <1>2, <2>1, <2>6, <2>8, <3>1 DEF Countdown
      <3> QED BY <1>1, <2>1, <2>5, <3>2, <3>3 DEF FlowsInv, ServerInv
    <2> QED BY <2>7, <2>8
  <1> QED BY <1>3, <1>4, <1>5

\* Every step of the main channel, bootstrap and run_main, keeps the invariant.
LEMMA MainKeeps ==
    ASSUME FlowsInv, role = "main", Next, UNCHANGED role
    PROVE  FlowsInv'
  <1>1. TypeOK /\ Countdown /\ boot \in BOOLEAN /\ skipped \in BOOLEAN
    BY DEF FlowsInv, TypeOK
  <1>2. CASE Environment
    BY <1>2, ServerKeeps, EmbedderKeeps DEF Environment
  <1>3. CASE HandleMouseMode \/ HandleQuiet \/ NoteUncounted \/ NoteCounted
    BY <1>3, CountdownKeeps
  <1>4. CASE Read \/ ReadFails \/ WriteFails \/ BootStep \/ HandlePing \/ HandleSetAck \/ DecodeFails
    <2>1. CommonStep /\ Mailbox
      BY <1>1, <1>4, MainSteps
    <2>2. boot' \in BOOLEAN /\ skipped' \in BOOLEAN
      BY <1>1, <1>4 DEF Read, ReadFails, WriteFails, Stop, BootStep, BootSetAck, BootPing,
           BootOther, BootDecodeFails, HandlePing, HandleSetAck, DecodeFails, mainVars
    <2> QED BY <2>1, <2>2, CommonKeeps
  <1> QED BY <1>2, <1>3, <1>4 DEF Next, TaskStep, RunStep

\* Every step of the cursor or the inputs channel keeps the invariant.
LEMMA PassiveKeeps ==
    ASSUME FlowsInv, UNCHANGED mainVars, UNCHANGED role,
           \/ role = "cursor" /\ Cursor!Next
           \/ role = "inputs" /\ Inputs!Next
    PROVE  FlowsInv'
  <1>1. TypeOK /\ Countdown /\ boot' \in BOOLEAN /\ skipped' \in BOOLEAN
    BY DEF FlowsInv, TypeOK, mainVars
  <1>2. CASE Cursor!ServerStep \/ Inputs!ServerStep
    BY <1>2, SameEnvironment, ServerKeeps
  <1>3. CASE Cursor!EmbedderStep \/ Inputs!EmbedderStep
    BY <1>3, SameEnvironment, EmbedderKeeps
  <1>4. CASE role = "cursor" /\ Cursor!TaskStep
    BY <1>1, <1>4, CursorSteps, CommonKeeps
  <1>5. CASE role = "inputs" /\ Inputs!TaskStep
    BY <1>1, <1>5, InputsSteps, CommonKeeps
  <1> QED BY <1>2, <1>3, <1>4, <1>5 DEF Cursor!Next, Inputs!Next

(***************************************************************************)
(* The chain of counters is an invariant of all three channels.            *)
(***************************************************************************)
THEOREM FlowsInvariance == FlowsSpec => []FlowsInv
  <1>1. FlowsInv /\ [FlowsNext]_<<vars, role>> => FlowsInv'
    <2> SUFFICES ASSUME FlowsInv, [FlowsNext]_<<vars, role>> PROVE FlowsInv'
      OBVIOUS
    <2>1. CASE UNCHANGED <<vars, role>>
      <3>1. UNCHANGED <<gen, window, sent, acked, synced, conn, down, up, pc, cur, events, rx,
                        cgen, done, boot, ackWindow, ackRemaining, ackedTo, skipped, role>>
        BY <2>1 DEF vars, channelVars, mainVars, ackVars
      <3>2. SentInv' /\ Downstream' /\ WrittenInv' /\ Upstream'
        BY <3>1, DownstreamUntouched, UpstreamUntouched
      <3>3. TypeOK'
        BY <3>1 DEF FlowsInv, TypeOK, ChannelTypeOK
      <3> QED BY <3>1, <3>2, <3>3 DEF FlowsInv, ServerInv, Countdown
    <2>2. CASE role = "main" /\ Next /\ UNCHANGED role
      BY <2>2, MainKeeps
    <2>3. CASE /\ (role = "cursor" /\ Cursor!Next) \/ (role = "inputs" /\ Inputs!Next)
               /\ UNCHANGED mainVars /\ UNCHANGED role
      BY <2>3, PassiveKeeps
    <2> QED BY <2>1, <2>2, <2>3 DEF FlowsNext
  <1> QED BY <1>1, InitFlowsInv, PTL DEF FlowsSpec

\* Every variable keeps its type, and neither the socket buffers nor the
\* embedder's mailbox ever overflow.
THEOREM FlowsTypeCorrect == FlowsSpec => []TypeOK
  <1>1. FlowsInv => TypeOK
    BY DEF FlowsInv
  <1> QED BY <1>1, FlowsInvariance, PTL

(***************************************************************************)
(* run_main never wedges the main channel on flow control, once it has     *)
(* seen the SET_ACK in force and no counted message of it has bypassed the *)
(* countdown: whatever the windows, however often they change, and         *)
(* whatever the bootstrap did before.                                      *)
(***************************************************************************)
THEOREM MainRunsOn == FlowsSpec => []RunPhaseNeverStalls
  <1>1. FlowsInv => RunPhaseNeverStalls
    <2> SUFFICES ASSUME FlowsInv, ~boot, cgen = gen, ackWindow = window, ~skipped,
                        Running, pc = "read", down = <<>>, up = <<>>
                 PROVE  HasCredit
      BY DEF RunPhaseNeverStalls, NoStall
    <2>1. ~Pending /\ pc # "exit"
      BY DEF Pending
    <2>2. done = sent
      BY <2>1 DEF FlowsInv, Downstream, BaseGen, BaseN, Meets
    <2>3. /\ gen \in Nat /\ synced \in BOOLEAN /\ window \in Nat /\ sent \in Nat /\ acked \in Nat
          /\ ackRemaining \in Nat /\ ackedTo \in Nat
      BY DEF FlowsInv, TypeOK, ChannelTypeOK
    <2>4. synced
      BY <2>3 DEF FlowsInv, Upstream
    <2>5. acked = ackedTo
      BY <2>4 DEF FlowsInv, Upstream
    <2>6. window > 0 => 1 <= ackRemaining /\ done = ackedTo + (window - ackRemaining)
      BY <2>3 DEF FlowsInv, Countdown
    <2> QED BY <2>2, <2>3, <2>5, <2>6 DEF HasCredit
  <1> QED BY <1>1, FlowsInvariance, PTL

(***************************************************************************)
(* None of the three tasks acknowledges what it has not handled, although  *)
(* each may pass over messages it cannot decode: the server never has more *)
(* than one window of unhandled messages outstanding.                      *)
(***************************************************************************)
THEOREM TasksEarnCredit == FlowsSpec => []CreditIsEarned
  <1>1. FlowsInv => CreditIsEarned
    <2> SUFFICES ASSUME FlowsInv, synced PROVE CreditIsEarned
      BY DEF CreditIsEarned
    <2>1. /\ gen \in Nat /\ window \in Nat /\ sent \in Nat /\ acked \in Nat
          /\ cgen \in Nat /\ done \in Nat /\ ackWindow \in Nat /\ ackedTo \in Nat
          /\ ackRemaining \in Nat
      BY DEF FlowsInv, TypeOK, ChannelTypeOK
    <2>2. cgen <= gen /\ (cgen = gen => done <= sent)
      BY DEF FlowsInv, SentInv
    <2>3. cgen = gen /\ acked <= ackedTo
      <3>1. CASE up = <<>>
        BY <2>1, <3>1 DEF FlowsInv, Upstream
      <3>2. CASE up # <<>>
        <4>1. /\ Answers(gen, acked, up[1])
              /\ up[1].gen \in Nat /\ up[1].upto \in Nat /\ up[1].window \in Nat
              /\ up[1].kind \in {"pong", "ack_sync", "ack"}
              /\ up[1].gen <= cgen /\ (up[1].gen = cgen => up[1].upto <= ackedTo)
          BY <3>2, MessageTypes DEF FlowsInv, Upstream, WrittenInv
        <4> QED BY <2>1, <2>2, <4>1 DEF Answers
      <3> QED BY <3>1, <3>2
    <2>4. ackedTo <= done
      BY <2>1 DEF FlowsInv, Countdown
    <2>5. window > 0 => sent - acked <= window
      BY DEF FlowsInv, ServerInv
    <2> QED BY <2>1, <2>2, <2>3, <2>4, <2>5 DEF CreditIsEarned
  <1> QED BY <1>1, FlowsInvariance, PTL
=============================================================================
