------------------------ MODULE InputsChannel_proofs ------------------------
(***************************************************************************)
(* The inputs task, for queues of any capacity, any number of inputs and a *)
(* server that never stops sending.  That inputs stay in order is, with    *)
(* the types, inductive as it stands, stated place by place: each step     *)
(* moves one input over the border between two of its places.  What        *)
(* read_message has taken keeps within the frame announced, the frame that *)
(* is garbage included.                                                    *)
(***************************************************************************)
EXTENDS InputsChannel, SequenceTheorems, TLAPS

-----------------------------------------------------------------------------
Piece == [msg : Nat, kind : Kinds, part : 1 .. HeaderLen + 1]
UpFrame == [kind : {"input"} \cup Kinds, n : Nat]

\* A read_message that is pending has not taken the whole frame yet.
Typed ==
    /\ sentInputs \in 0 .. MaxInputs /\ sentMsgs \in 0 .. MsgNumbers
    /\ handled \in 0 .. MsgNumbers \cup {OutOfStep}
    /\ queue \in Seq(Nat) /\ Len(queue) <= InputCap
    /\ wire \in Seq(Piece) /\ buf \in Seq(Piece) /\ got \in Seq(Piece)
    /\ Len(wire) + Len(buf) <= DownCap
    /\ pc \in {"select", "send", "handle", "exit"}
    /\ need \in {0, HeaderLen, HeaderLen + 1} /\ input \in Nat
    /\ up \in Seq(UpFrame) /\ Len(up) <= UpCap
    /\ received \in Seq(Nat)
    /\ need = 0 => Len(got) < HeaderLen
    /\ need > 0 => Len(got) \in HeaderLen .. need
    /\ pc = "select" /\ need > 0 => Len(got) < need
    /\ pc = "handle" => need = Len(got)
    /\ pc = "send" => need = 0

\* InputsStayInOrder, place by place.
InPlace ==
    /\ \A i \in 1 .. Len(received) : received[i] = i
    /\ \A i \in 1 .. Len(queue) : queue[i] = Taken + i
    /\ Len(received) <= Written
    /\ \A i \in InFlight : up[i].n \in Len(received) + 1 .. Written
    /\ \A n \in Len(received) + 1 .. Written : \E i \in InFlight : up[i].n = n
    /\ \A i, j \in InFlight : i < j => up[i].n < up[j].n
    /\ pc = "send" => input = Taken

IInv == Typed /\ (pc # "exit" => InPlace)

-----------------------------------------------------------------------------
(***************************************************************************)
(* Sequences.                                                              *)
(***************************************************************************)

\* What is appended comes last, the others keep their places.
LEMMA AppendFacts ==
    ASSUME NEW S, NEW q \in Seq(S), NEW e \in S
    PROVE  /\ Append(q, e) \in Seq(S)
           /\ Len(q) \in Nat
           /\ Len(Append(q, e)) = Len(q) + 1
           /\ Append(q, e)[Len(q) + 1] = e
           /\ \A i \in 1 .. Len(q) : Append(q, e)[i] = q[i]
  BY LenProperties

\* Taking the head moves every other one place forward.
LEMMA TakeFacts ==
    ASSUME NEW S, NEW q \in Seq(S), q # <<>>
    PROVE  /\ Head(q) \in S /\ Head(q) = q[1]
           /\ Tail(q) \in Seq(S)
           /\ Len(q) \in Nat \ {0} /\ Len(Tail(q)) = Len(q) - 1
           /\ \A i \in 1 .. Len(q) - 1 : Tail(q)[i] = q[i + 1]
  <1>1. /\ Head(q) \in S /\ Tail(q) \in Seq(S) /\ Len(Tail(q)) = Len(q) - 1
        /\ \A i \in 1 .. Len(Tail(q)) : Tail(q)[i] = q[i + 1]
    BY HeadTailProperties
  <1> QED BY <1>1, EmptySeq

\* A sequence that counts on from k.
LEMMA CountsOn ==
    ASSUME NEW q \in Seq(Nat), NEW k \in Int, \A i \in 1 .. Len(q) : q[i] = k + i
    PROVE  q = [i \in 1 .. Len(q) |-> k + i]
  <1>1. DOMAIN q = 1 .. Len(q) /\ q = [i \in DOMAIN q |-> q[i]]
    BY LenProperties
  <1> QED BY <1>1, Zenon

-----------------------------------------------------------------------------
(***************************************************************************)
(* Types.                                                                  *)
(***************************************************************************)

\* The pieces of a message are pieces, two or three of them.
LEMMA PiecesTyped ==
    ASSUME NEW n \in Nat, NEW kind \in Kinds
    PROVE  Length(kind) \in {HeaderLen, HeaderLen + 1} /\ Pieces(n, kind) \in Seq(Piece)
  <1>1. Length(kind) \in {HeaderLen, HeaderLen + 1} /\ Length(kind) \in Nat
    BY DEF Length, HeaderLen
  <1>2. \A i \in 1 .. Length(kind) : [msg |-> n, kind |-> kind, part |-> i] \in Piece
    BY <1>1 DEF Piece, HeaderLen
  <1> QED BY <1>1, <1>2 DEF Pieces

\* The numbers go round: whichever was last, there is a next one.
LEMMA NumbersGoRound ==
    ASSUME NEW n \in 0 .. MsgNumbers
    PROVE  After(n) \in 1 .. MsgNumbers /\ After(n) \in Nat
  BY InputsAssumption DEF After

\* Everything keeps its type, whatever the pieces of a garbled stream say.
LEMMA TypeStep == Typed /\ [Next]_vars => Typed'
  <1> SUFFICES ASSUME Typed, [Next]_vars PROVE Typed'
    OBVIOUS
  <1> USE InputsAssumption DEF Typed
  <1>1. CASE SendInput
    <2>1. /\ sentInputs + 1 \in 0 .. MaxInputs /\ sentInputs + 1 \in Nat
          /\ Len(queue) \in Nat
      BY <1>1 DEF SendInput
    <2>2. queue' \in Seq(Nat) /\ Len(queue') <= InputCap
      BY <1>1, <2>1, AppendFacts DEF SendInput
    <2> QED BY <1>1, <2>1, <2>2 DEF SendInput
  <1>2. CASE CloseInput
    BY <1>2 DEF CloseInput
  <1>3. CASE ServerSends
    <2>1. PICK kind \in Kinds : /\ Len(wire) + Len(buf) + Length(kind) <= DownCap
                                /\ wire' = wire \o Pieces(After(sentMsgs), kind)
      BY <1>3 DEF ServerSends
    <2>2. After(sentMsgs) \in 1 .. MsgNumbers /\ After(sentMsgs) \in Nat
      <3>1. sentMsgs \in 0 .. MsgNumbers
        BY DEF Typed
      <3> QED BY ONLY <3>1, NumbersGoRound
    <2>3. /\ Pieces(After(sentMsgs), kind) \in Seq(Piece)
          /\ Len(Pieces(After(sentMsgs), kind)) = Length(kind)
      <3>1. Length(kind) \in Nat
        BY DEF Length, HeaderLen
      <3>2. Len(Pieces(After(sentMsgs), kind)) = Length(kind)
        BY <3>1 DEF Pieces
      <3> QED BY <2>2, <3>2, PiecesTyped
    <2>4. wire' \in Seq(Piece) /\ Len(wire') = Len(wire) + Length(kind)
      <3> DEFINE p == Pieces(After(sentMsgs), kind)
      <3>1. wire \in Seq(Piece) /\ p \in Seq(Piece) /\ Len(p) = Length(kind)
        BY <2>3
      <3>2. wire' = wire \o p
        BY <2>1
      <3> HIDE DEF p
      <3>3. wire \o p \in Seq(Piece) /\ Len(wire \o p) = Len(wire) + Len(p)
        BY ONLY <3>1, ConcatProperties
      <3> QED BY ONLY <3>1, <3>2, <3>3
    <2>5. buf' = buf /\ Len(wire') + Len(buf') <= DownCap
      <3>1. Len(wire) \in Nat /\ Len(buf) \in Nat /\ Length(kind) \in Nat
        BY LenProperties DEF Length, HeaderLen
      <3>2. buf' = buf
        BY <1>3 DEF ServerSends
      <3> QED BY <2>1, <2>4, <3>1, <3>2
    <2> QED BY <1>3, <2>2, <2>4, <2>5 DEF ServerSends
  <1>4. CASE ServerRecv
    <2>1. /\ Head(up) \in UpFrame /\ up' \in Seq(UpFrame) /\ Len(up') <= UpCap
      BY <1>4, TakeFacts DEF ServerRecv
    <2>2. Append(received, Head(up).n) \in Seq(Nat)
      BY <2>1, AppendFacts DEF UpFrame
    <2> QED BY <1>4, <2>1, <2>2 DEF ServerRecv
  <1>5. CASE Arrive
    <2>1. /\ Head(wire) \in Piece /\ wire' \in Seq(Piece)
          /\ Len(wire) \in Nat /\ Len(wire') = Len(wire) - 1
      BY <1>5, TakeFacts DEF Arrive
    <2>2. buf' \in Seq(Piece) /\ Len(buf) \in Nat /\ Len(buf') = Len(buf) + 1
      BY <1>5, <2>1, AppendFacts DEF Arrive
    <2>3. Len(wire') + Len(buf') <= DownCap
      BY <2>1, <2>2
    <2> QED BY <1>5, <2>1, <2>2, <2>3 DEF Arrive
  <1>6. CASE RecvInput
    <2>1. input' \in Nat /\ queue' \in Seq(Nat) /\ Len(queue') <= InputCap
      BY <1>6, TakeFacts DEF RecvInput
    <2>2. got' \in Seq(Piece) /\ Len(got') = 0 /\ need' = 0
      BY <1>6, EmptySeq DEF RecvInput
    <2> QED BY <1>6, <2>1, <2>2 DEF RecvInput, HeaderLen
  <1>7. CASE RecvNone \/ TaskFails
    BY <1>7 DEF RecvNone, TaskFails
  <1>8. CASE SendEvent
    <2>1. InputFrame(input) \in UpFrame
      BY DEF InputFrame, UpFrame
    <2>2. up' \in Seq(UpFrame) /\ Len(up') <= UpCap
      BY <1>8, <2>1, AppendFacts DEF SendEvent
    <2>3. pc' = "select" /\ pc = "send"
      BY <1>8 DEF SendEvent
    <2> QED BY <1>8, <2>2, <2>3 DEF SendEvent
  <1>9. CASE ReadPiece
    <2>1. /\ Head(buf) \in Piece /\ buf' \in Seq(Piece)
          /\ Len(buf) \in Nat /\ Len(buf') = Len(buf) - 1
      BY <1>9, TakeFacts DEF ReadPiece
    <2>2. got' \in Seq(Piece) /\ Len(got') = Len(got) + 1 /\ Len(got) \in Nat
      BY <1>9, <2>1, AppendFacts DEF ReadPiece
    <2>3. need = 0 => IF Len(got') < HeaderLen THEN need' = 0
                                               ELSE need' \in {HeaderLen, HeaderLen + 1}
      BY <1>9 DEF ReadPiece, Announced, Length
    <2>4. need # 0 => need' = need
      BY <1>9 DEF ReadPiece
    <2>5. pc = "select" /\ pc' = IF need' = Len(got') THEN "handle" ELSE "select"
      BY <1>9 DEF ReadPiece
    <2>6. Len(wire') + Len(buf') <= DownCap
      <3>1. wire' = wire /\ Len(wire) \in Nat
        BY <1>9, LenProperties DEF ReadPiece
      <3> QED BY <2>1, <3>1
    <2> QED BY <1>9, <2>1, <2>2, <2>3, <2>4, <2>5, <2>6 DEF ReadPiece, HeaderLen
  <1>10. CASE HandleServerMsg
    <2>1. PICK kind \in Kinds : \/ up' = up
                                \/ Len(up) < UpCap /\ up' = Append(up, Reply(kind))
      BY <1>10 DEF HandleServerMsg
    <2>2. Reply(kind) \in UpFrame
      BY DEF Reply, UpFrame
    <2>3. up' \in Seq(UpFrame) /\ Len(up') <= UpCap
      <3>1. CASE up' = up
        BY <3>1
      <3>2. CASE Len(up) < UpCap /\ up' = Append(up, Reply(kind))
        BY <2>2, <3>2, AppendFacts
      <3> QED BY <2>1, <3>1, <3>2
    <2>4. got' \in Seq(Piece) /\ Len(got') = 0 /\ need' = 0
      BY <1>10, EmptySeq DEF HandleServerMsg
    <2>5. handled' \in 0 .. MsgNumbers \cup {OutOfStep}
      <3>1. \/ handled' = OutOfStep
            \/ handled # OutOfStep /\ handled' = After(handled)
        BY <1>10 DEF HandleServerMsg
      <3>2. CASE handled # OutOfStep /\ handled' = After(handled)
        BY <3>2, NumbersGoRound
      <3> QED BY <3>1, <3>2
    <2> QED BY <1>10, <2>3, <2>4, <2>5 DEF HandleServerMsg, HeaderLen
  <1>11. CASE UNCHANGED vars
    BY <1>11 DEF vars
  <1> QED BY <1>1, <1>2, <1>3, <1>4, <1>5, <1>6, <1>7, <1>8, <1>9, <1>10, <1>11
          DEF Next, TaskStep

-----------------------------------------------------------------------------
(***************************************************************************)
(* Order.                                                                  *)
(***************************************************************************)

\* Inputs that are in place stay in order.
LEMMA InPlaceIsInOrder == IInv => InputsStayInOrder
  <1> SUFFICES ASSUME IInv, pc # "exit" PROVE InputsStayInOrder
    BY DEF InputsStayInOrder
  <1> USE DEF IInv
  <1>1. received = [i \in 1 .. Len(received) |-> i]
    <2>1. /\ DOMAIN received = 1 .. Len(received)
          /\ received = [i \in DOMAIN received |-> received[i]]
      BY LenProperties DEF Typed
    <2> QED BY <2>1, Zenon DEF InPlace
  <1>2. queue = [i \in 1 .. Len(queue) |-> Taken + i]
    <2>1. queue \in Seq(Nat) /\ Taken \in Int
      BY LenProperties DEF Typed, Taken
    <2> QED BY <2>1, CountsOn DEF InPlace
  <1>3. {up[i].n : i \in InFlight} = Len(received) + 1 .. Written
    BY Zenon DEF InPlace
  <1> QED BY <1>1, <1>2, <1>3, Zenon DEF InputsStayInOrder, InPlace

\* Each step moves the border between two places, or adds at an end.
LEMMA OrderStep == IInv /\ Typed' /\ [Next]_vars => (pc' # "exit" => InPlace')
  <1> SUFFICES ASSUME IInv, Typed', [Next]_vars, pc' # "exit"
               PROVE  InPlace'
    OBVIOUS
  <1> USE DEF IInv
  <1>1. pc # "exit"
    BY DEF Next, TaskStep, vars, SendInput, CloseInput, ServerSends, ServerRecv, Arrive,
           RecvInput, RecvNone, SendEvent, ReadPiece, TaskFails, HandleServerMsg
  <1>2. /\ \A i \in 1 .. Len(received) : received[i] = i
        /\ \A i \in 1 .. Len(queue) : queue[i] = Taken + i
        /\ Len(received) <= Written
        /\ \A i \in InFlight : up[i].n \in Len(received) + 1 .. Written
        /\ \A n \in Len(received) + 1 .. Written : \E i \in InFlight : up[i].n = n
        /\ \A i, j \in InFlight : i < j => up[i].n < up[j].n
        /\ pc = "send" => input = Taken
    BY <1>1 DEF InPlace
  <1>3. /\ Len(queue) \in Nat /\ Len(received) \in Nat /\ Len(up) \in Nat
        /\ DOMAIN up = 1 .. Len(up) /\ Taken \in Int /\ Written \in Int
        /\ sentInputs \in Nat
    BY LenProperties DEF Typed, Taken, Written
  <1>4. ASSUME UNCHANGED <<received, up, queue, sentInputs>>,
               pc' = "send" <=> pc = "send", UNCHANGED input
        PROVE  InPlace'
    <2>1. Taken' = Taken /\ Written' = Written /\ InFlight' = InFlight
      BY <1>4 DEF Taken, Written, InFlight
    <2> QED BY <1>2, <1>4, <2>1 DEF InPlace
  <1>5. CASE SendInput
    <2>1. /\ queue' = Append(queue, sentInputs + 1) /\ sentInputs' = sentInputs + 1
          /\ UNCHANGED <<pc, input, up, received>>
      BY <1>5 DEF SendInput
    <2>2. /\ Len(queue') = Len(queue) + 1 /\ queue'[Len(queue) + 1] = sentInputs + 1
          /\ \A i \in 1 .. Len(queue) : queue'[i] = queue[i]
      BY <1>3, <2>1, AppendFacts DEF Typed
    <2>3. Taken' = Taken /\ Written' = Written /\ InFlight' = InFlight
      BY <1>3, <2>1, <2>2 DEF Taken, Written, InFlight
    <2>4. ASSUME NEW i \in 1 .. Len(queue') PROVE queue'[i] = Taken' + i
      <3>1. CASE i \in 1 .. Len(queue)
        BY <1>2, <2>2, <2>3, <3>1
      <3>2. CASE i \notin 1 .. Len(queue)
        <4>1. i = Len(queue) + 1
          BY ONLY <1>3, <2>2, <2>4, <3>2
        <4> QED BY <1>3, <2>2, <2>3, <4>1 DEF Taken
      <3> QED BY <3>1, <3>2
    <2> QED BY <1>2, <2>1, <2>3, <2>4 DEF InPlace
  <1>6. CASE ServerRecv
    <2>1. /\ up # <<>> /\ up' = Tail(up) /\ UNCHANGED <<pc, input, queue, sentInputs>>
          /\ received' = IF Head(up).kind = "input" THEN Append(received, Head(up).n)
                                                    ELSE received
      BY <1>6 DEF ServerRecv
    <2>2. /\ Head(up) = up[1] /\ Len(up') = Len(up) - 1 /\ Len(up) \in Nat \ {0}
          /\ \A i \in 1 .. Len(up) - 1 : up'[i] = up[i + 1]
      BY <2>1, TakeFacts DEF Typed
    <2>3. Taken' = Taken /\ Written' = Written
      BY <2>1 DEF Taken, Written
    <2>4. \A i \in InFlight' : i + 1 \in InFlight /\ up'[i].n = up[i + 1].n /\ i \in Nat \ {0}
      <3>1. DOMAIN up' = 1 .. Len(up) - 1
        BY <2>2, LenProperties DEF Typed
      <3> QED BY <1>3, <2>2, <3>1 DEF InFlight
    <2>5. \A i \in InFlight : i = 1 \/ (i - 1 \in InFlight' /\ up'[i - 1].n = up[i].n)
      <3>1. DOMAIN up' = 1 .. Len(up) - 1
        BY <2>2, LenProperties DEF Typed
      <3> QED BY <1>3, <2>2, <3>1 DEF InFlight
    <2>6. \A i, j \in InFlight' : i < j => up'[i].n < up'[j].n
      <3> SUFFICES ASSUME NEW i \in InFlight', NEW j \in InFlight', i < j
                   PROVE  up'[i].n < up'[j].n
        OBVIOUS
      <3>1. i + 1 \in InFlight /\ j + 1 \in InFlight /\ i + 1 < j + 1
        BY <2>4
      <3> QED BY <1>2, <2>4, <3>1
    <2>7. CASE up[1].kind # "input"
      <3>1. received' = received /\ 1 \notin InFlight
        BY <2>1, <2>2, <2>7 DEF InFlight
      <3>2. \A i \in InFlight' : up'[i].n \in Len(received') + 1 .. Written'
        BY <1>2, <2>3, <2>4, <3>1
      <3>3. \A n \in Len(received') + 1 .. Written' : \E i \in InFlight' : up'[i].n = n
        BY <1>2, <2>3, <2>5, <3>1
      <3> QED BY <1>2, <2>1, <2>3, <2>6, <3>1, <3>2, <3>3 DEF InPlace
    <2>8. CASE up[1].kind = "input"
      <3> DEFINE n == up[1].n
      <3>1. 1 \in InFlight /\ n \in Len(received) + 1 .. Written /\ n \in Nat
        <4>1. 1 \in InFlight
          BY <1>3, <2>2, <2>8 DEF InFlight
        <4> QED BY <1>2, <1>3, <4>1
      <3>2. n = Len(received) + 1
        <4>1. Len(received) + 1 \in Len(received) + 1 .. Written
          BY <1>3, <3>1
        <4>2. PICK i \in InFlight : up[i].n = Len(received) + 1
          BY <1>2, <4>1
        <4>3. i \in 1 .. Len(up)
          BY <1>3 DEF InFlight
        <4>4. i > 1 => n < up[i].n
          BY <1>2, <3>1
        <4>5. CASE i = 1
          BY <4>2, <4>5
        <4>6. CASE i > 1
          BY ONLY <1>3, <3>1, <4>2, <4>4, <4>6
        <4> QED BY <4>3, <4>5, <4>6
      <3>3. received' = Append(received, n)
        BY <2>1, <2>2, <2>8
      <3> HIDE DEF n
      <3>4. /\ Len(received') = Len(received) + 1 /\ received'[Len(received) + 1] = n
            /\ \A i \in 1 .. Len(received) : received'[i] = received[i]
        BY <3>1, <3>3, AppendFacts DEF Typed
      <3>5. ASSUME NEW i \in 1 .. Len(received') PROVE received'[i] = i
        <4>1. CASE i \in 1 .. Len(received)
          BY <1>2, <3>4, <4>1
        <4>2. CASE i \notin 1 .. Len(received)
          <5>1. i = Len(received) + 1
            BY ONLY <1>3, <3>4, <3>5, <4>2
          <5> QED BY <3>2, <3>4, <5>1
        <4> QED BY <4>1, <4>2
      <3>6. ASSUME NEW i \in InFlight'
            PROVE  up'[i].n \in Len(received') + 1 .. Written'
        <4>1. i + 1 \in InFlight /\ up'[i].n = up[i + 1].n /\ 1 < i + 1
          BY <2>4
        <4>2. n < up[i + 1].n
          BY <1>2, <3>1, <4>1 DEF n
        <4>3. up[i + 1].n \in Len(received) + 1 .. Written
          BY <1>2, <4>1
        <4> QED BY ONLY <1>3, <2>3, <3>2, <3>4, <4>1, <4>2, <4>3
      <3>7. ASSUME NEW m \in Len(received') + 1 .. Written'
            PROVE  \E i \in InFlight' : up'[i].n = m
        <4>1. m \in Len(received) + 1 .. Written /\ m # n
          BY ONLY <1>3, <2>3, <3>2, <3>4, <3>7
        <4>2. PICK i \in InFlight : up[i].n = m
          BY <1>2, <4>1
        <4>3. i # 1
          BY <4>1, <4>2 DEF n
        <4> QED BY <2>5, <4>2, <4>3
      <3>8. Len(received') <= Written'
        BY ONLY <1>3, <2>3, <3>1, <3>2, <3>4
      <3> QED BY <1>2, <2>1, <2>3, <2>6, <3>5, <3>6, <3>7, <3>8 DEF InPlace
    <2> QED BY <2>7, <2>8
  <1>7. CASE RecvInput
    <2>1. /\ pc = "select" /\ pc' = "send" /\ queue # <<>>
          /\ input' = Head(queue) /\ queue' = Tail(queue)
          /\ UNCHANGED <<sentInputs, up, received>>
      BY <1>7 DEF RecvInput
    <2>2. /\ Head(queue) = queue[1] /\ Len(queue) \in Nat \ {0}
          /\ Len(queue') = Len(queue) - 1
          /\ \A i \in 1 .. Len(queue) - 1 : queue'[i] = queue[i + 1]
      BY <2>1, TakeFacts DEF Typed
    <2>3. Taken' = Taken + 1 /\ Written' = Written /\ InFlight' = InFlight
      BY <1>3, <2>1, <2>2 DEF Taken, Written, InFlight
    <2>4. input' = Taken'
      BY <1>2, <1>3, <2>1, <2>2, <2>3
    <2>5. ASSUME NEW i \in 1 .. Len(queue') PROVE queue'[i] = Taken' + i
      BY <1>2, <1>3, <2>2, <2>3
    <2> QED BY <1>2, <2>1, <2>3, <2>4, <2>5 DEF InPlace
  <1>8. CASE SendEvent
    <2>1. /\ pc = "send" /\ pc' = "select" /\ up' = Append(up, InputFrame(Taken))
          /\ UNCHANGED <<sentInputs, queue, received>>
      BY <1>2, <1>8 DEF SendEvent
    <2>2. InputFrame(Taken) \in UpFrame
      BY <1>2, <2>1 DEF InputFrame, UpFrame, Typed
    <2>3. /\ Len(up') = Len(up) + 1 /\ up'[Len(up) + 1] = InputFrame(Taken)
          /\ \A i \in 1 .. Len(up) : up'[i] = up[i]
      BY <2>1, <2>2, AppendFacts DEF Typed
    <2>4. DOMAIN up' = 1 .. Len(up) + 1
      BY <2>3, LenProperties DEF Typed
    <2>5. /\ InFlight' = InFlight \cup {Len(up) + 1} /\ InFlight \subseteq 1 .. Len(up)
          /\ up'[Len(up) + 1].n = Taken
      BY <1>3, <2>3, <2>4 DEF InFlight, InputFrame
    <2>6. Taken' = Taken /\ Written' = Taken /\ Written = Taken - 1
      BY <2>1 DEF Taken, Written
    <2>7. Len(received) <= Written /\ Len(received') <= Written'
      BY <1>2, <1>3, <2>1, <2>6
    <2>8. \A i \in InFlight' : up'[i].n \in Len(received') + 1 .. Written'
      <3>1. \A i \in InFlight : up'[i].n = up[i].n
        BY <2>3, <2>5
      <3> QED BY <1>2, <1>3, <2>1, <2>5, <2>6, <2>7, <3>1
    <2>9. ASSUME NEW n \in Len(received') + 1 .. Written'
          PROVE  \E i \in InFlight' : up'[i].n = n
      <3>1. CASE n = Taken
        BY <2>5, <3>1
      <3>2. CASE n # Taken
        <4>1. n \in Len(received) + 1 .. Written
          BY <1>3, <2>1, <2>6, <3>2
        <4>2. PICK i \in InFlight : up[i].n = n
          BY <1>2, <4>1
        <4> QED BY <2>3, <2>5, <4>2
      <3> QED BY <3>1, <3>2
    <2>10. \A i, j \in InFlight' : i < j => up'[i].n < up'[j].n
      <3> SUFFICES ASSUME NEW i \in InFlight', NEW j \in InFlight', i < j
                   PROVE  up'[i].n < up'[j].n
        OBVIOUS
      <3>1. i \in InFlight /\ up'[i].n = up[i].n
        BY <1>3, <2>3, <2>5
      <3>2. CASE j \in InFlight
        BY <1>2, <2>3, <2>5, <3>1, <3>2
      <3>3. CASE j = Len(up) + 1
        <4>1. up[i].n \in Len(received) + 1 .. Written
          BY <1>2, <3>1
        <4> QED BY <1>3, <2>5, <2>6, <3>1, <3>3, <4>1
      <3> QED BY <2>5, <3>2, <3>3
    <2> QED BY <1>2, <2>1, <2>6, <2>7, <2>8, <2>9, <2>10 DEF InPlace
  <1>9. CASE HandleServerMsg
    <2>1. /\ pc = "handle" /\ pc' = "select" /\ UNCHANGED <<sentInputs, queue, received, input>>
          /\ \E kind \in Kinds : up' = up \/ up' = Append(up, Reply(kind))
      BY <1>9 DEF HandleServerMsg
    <2>2. Taken' = Taken /\ Written' = Written
      BY <2>1 DEF Taken, Written
    <2>3. InFlight' = InFlight /\ \A i \in InFlight : up'[i] = up[i]
      <3>1. CASE up' = up
        BY <3>1 DEF InFlight
      <3>2. ASSUME NEW kind \in Kinds, up' = Append(up, Reply(kind))
            PROVE  InFlight' = InFlight /\ \A i \in InFlight : up'[i] = up[i]
        <4>1. Reply(kind) \in UpFrame /\ Reply(kind).kind # "input"
          BY DEF Reply, UpFrame, Kinds
        <4>2. /\ Len(up') = Len(up) + 1 /\ up'[Len(up) + 1] = Reply(kind)
              /\ \A i \in 1 .. Len(up) : up'[i] = up[i]
          BY <3>2, <4>1, AppendFacts DEF Typed
        <4>3. DOMAIN up' = 1 .. Len(up) + 1
          BY <4>2, LenProperties DEF Typed
        <4> QED BY <1>3, <4>1, <4>2, <4>3 DEF InFlight
      <3> QED BY <2>1, <3>1, <3>2
    <2> QED BY <1>2, <2>1, <2>2, <2>3 DEF InPlace
  <1>10. CASE CloseInput \/ ServerSends \/ Arrive \/ RecvNone \/ TaskFails
    BY <1>4, <1>10 DEF CloseInput, ServerSends, Arrive, RecvNone, TaskFails
  <1>11. CASE ReadPiece
    BY <1>4, <1>11 DEF ReadPiece
  <1>12. CASE UNCHANGED vars
    BY <1>4, <1>12 DEF vars
  <1> QED BY <1>5, <1>6, <1>7, <1>8, <1>9, <1>10, <1>11, <1>12 DEF Next, TaskStep

-----------------------------------------------------------------------------
\* The invariant holds all along.
THEOREM Invariance == Spec => []IInv
  <1>1. Init => IInv
    <2> SUFFICES ASSUME Init PROVE IInv
      OBVIOUS
    <2>1. Typed
      BY InputsAssumption, EmptySeq DEF Init, Typed, HeaderLen
    <2>2. /\ Len(received) = 0 /\ Len(queue) = 0 /\ DOMAIN up = {}
          /\ sentInputs = 0 /\ pc = "select"
      BY EmptySeq DEF Init
    <2>3. InFlight = {} /\ Written = 0 /\ pc # "send"
      BY <2>2 DEF InFlight, Written, Taken
    <2> QED BY <2>1, <2>2, <2>3 DEF IInv, InPlace
  <1>2. IInv /\ [Next]_vars => IInv'
    BY TypeStep, OrderStep DEF IInv
  <1> QED BY <1>1, <1>2, PTL DEF Spec

\* Types, the bounds of both queues and of what read_message takes included.
THEOREM TypeCorrect == Spec => []TypeOK
  <1>1. IInv => TypeOK
    BY DEF IInv, Typed, TypeOK, HeaderLen
  <1> QED BY <1>1, Invariance, PTL

\* Whatever the order in which the embedder, the task, the server and the
\* network take their steps, and however often a pending read_message is
\* dropped: while the task runs, every input handed over is at one place of its
\* way, once, in order.
THEOREM InputsInOrder == Spec => []InputsStayInOrder
  <1> QED BY InPlaceIsInOrder, Invariance, PTL
=============================================================================
