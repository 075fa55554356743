---------------------------- MODULE Viewer_proofs ---------------------------
(***************************************************************************)
(* A SpiceClient and its viewer, for any tasks, queues of any capacity and *)
(* any number of events and inputs; and the viewer's framebuffer and its   *)
(* window, for sizes and rectangles of all kinds.                          *)
(*                                                                         *)
(* The end of a client is announced as promised because of what has been   *)
(* sent, delivered or not: EndInv speaks of delivered \o mailbox, which a  *)
(* call of next_event leaves as it is.  The viewer is one of the embedders *)
(* SpiceClient allows for (ViewerIsAnEmbedder), so that what is proved of  *)
(* SpiceClient holds of it.  Inputs keep their order because every step    *)
(* moves the border between two queues, or adds the newest at the end.     *)
(***************************************************************************)
EXTENDS Viewer, ViewerWindow, SequenceTheorems, TLAPS

-----------------------------------------------------------------------------
(***************************************************************************)
(* The inductive invariants.                                               *)
(***************************************************************************)
Sent == delivered \o mailbox
Events == Posters \cup {"closed"}

Typed ==
    /\ task \in [Tasks -> {"run", "post", "last", "exit"}]
    /\ \A t \in Tasks : task[t] = "last" => t = "main"
    /\ \A t \in Tasks : task[t] = "post" => t \in Posters
    /\ sock \in [Tasks -> {"open", "lost"}]
    /\ mailbox \in Seq(Events) /\ Len(mailbox) <= EventCap
    /\ delivered \in Seq(Events \cup {"none"})
    /\ posted \in 0 .. MaxEvents
    /\ client \in {"live", "closing", "closed", "dropped"}

\* Nothing is sent by main after Closed, a second Closed included.
ClosedIsLast ==
    \A i, j \in 1 .. Len(Sent) :
        i < j /\ Sent[i] = "closed" => Sent[j] \notin {"closed", "main"}

\* Closed is sent exactly by a main task that ends of itself.
ClosedIsSent ==
    /\ \A i \in 1 .. Len(Sent) : Sent[i] = "closed" => task["main"] = "exit"
    /\ client = "live" /\ task["main"] = "exit" =>
          \E i \in 1 .. Len(Sent) : Sent[i] = "closed"

\* After None nothing is left, and nobody to send anything.
NoneIsFinal ==
    \A i \in 1 .. Len(delivered) : delivered[i] = "none" =>
        /\ i = Len(delivered) /\ mailbox = <<>> /\ Senders = {}
        /\ \E j \in 1 .. Len(delivered) : delivered[j] = "closed"

EndInv == Typed /\ ClosedIsLast /\ ClosedIsSent /\ NoneIsFinal

\* The viewer's own queues: the input the user makes last goes in at the end.
Inputs == 1 .. MaxInputs
PaintMsgs == {"paint", "closed"}
QueuesTyped ==
    /\ arrived \in Seq(Inputs) /\ writing \in Seq(Inputs) /\ queue \in Seq(Inputs)
    /\ held \in Seq(Inputs) /\ fromWindow \in Seq(Inputs)
    /\ Len(writing) <= 1 /\ Len(held) <= 1
    /\ Len(queue) <= InputCap /\ Len(fromWindow) <= WindowCap
    /\ made \in 0 .. MaxInputs /\ overflowed \subseteq 1 .. made
    /\ spice \in {"connecting", "loop", "sending", "closing", "done", "failed"}
    /\ window \in {"open", "closed"} /\ paint \in Seq(PaintMsgs)
    /\ (spice = "sending" <=> held # <<>>)

\* When spice_task is through with a client, the client's tasks have ended.
DoneIsOver == IsViewer /\ spice = "done" => ~InputsRun

\* Before the client's tasks run, inputs gather in the window's queue.
OrderInv ==
    IsViewer /\ window = "open" /\ spice # "failed" /\ InputsRun =>
        ToSet(UnderWay) = (1 .. made) \ overflowed /\ Ascending(UnderWay)

QueuesInv == EndInv /\ QueuesTyped /\ DoneIsOver /\ OrderInv

-----------------------------------------------------------------------------
(***************************************************************************)
(* Sequences: moving the border between two of them.                       *)
(***************************************************************************)

\* What is appended comes last, the others keep their places.
LEMMA AppendFacts ==
    ASSUME NEW S, NEW q \in Seq(S), NEW e \in S
    PROVE  /\ Append(q, e) \in Seq(S)
           /\ Len(q) \in Nat
           /\ Len(Append(q, e)) = Len(q) + 1
           /\ Append(q, e)[Len(q) + 1] = e
           /\ \A i \in 1 .. Len(q) : Append(q, e)[i] = q[i]
  BY LenProperties

\* The places of two sequences, one put after the other.
LEMMA ConcatFacts ==
    ASSUME NEW S, NEW p \in Seq(S), NEW q \in Seq(S)
    PROVE  /\ p \o q \in Seq(S)
           /\ Len(p) \in Nat /\ Len(q) \in Nat
           /\ Len(p \o q) = Len(p) + Len(q)
           /\ \A i \in 1 .. Len(p) : (p \o q)[i] = p[i]
           /\ \A i \in 1 .. Len(q) : (p \o q)[Len(p) + i] = q[i]
  BY ConcatProperties, LenProperties

\* A sequence that is not empty is its head and its tail.
LEMMA HeadAndTail ==
    ASSUME NEW S, NEW q \in Seq(S), q # <<>>
    PROVE  /\ Head(q) \in S /\ Tail(q) \in Seq(S)
           /\ Len(q) \in Nat \ {0} /\ Len(Tail(q)) = Len(q) - 1
           /\ <<Head(q)>> \in Seq(S) /\ <<Head(q)>> \o Tail(q) = q
  <1>1. /\ Head(q) \in S /\ Tail(q) \in Seq(S)
        /\ Len(Tail(q)) = Len(q) - 1
        /\ \A i \in 1 .. Len(Tail(q)) : Tail(q)[i] = q[i + 1]
    BY HeadTailProperties
  <1>2. Len(q) \in Nat \ {0} /\ Head(q) = q[1]
    BY EmptySeq
  <1> DEFINE one == <<Head(q)>>
             rest == Tail(q)
  <1>3. one \in Seq(S) /\ Len(one) = 1 /\ one[1] = Head(q)
    BY <1>1
  <1>4. /\ rest \in Seq(S) /\ Len(rest) = Len(q) - 1
        /\ \A i \in 1 .. Len(rest) : rest[i] = q[i + 1]
    BY <1>1
  <1> HIDE DEF one, rest
  <1>5. /\ one \o rest \in Seq(S)
        /\ Len(one \o rest) = Len(one) + Len(rest)
        /\ \A i \in 1 .. Len(one) : (one \o rest)[i] = one[i]
        /\ \A i \in 1 .. Len(rest) : (one \o rest)[Len(one) + i] = rest[i]
    <2>1. one \in Seq(S) /\ rest \in Seq(S)
      BY <1>3, <1>4
    <2> QED BY ONLY <2>1, ConcatFacts
  <1>6. ASSUME NEW i \in 1 .. Len(q) PROVE (one \o rest)[i] = q[i]
    <2>1. CASE i = 1
      BY <1>2, <1>3, <1>5, <2>1
    <2>2. CASE i # 1
      <3>1. i - 1 \in 1 .. Len(rest) /\ i = Len(one) + (i - 1)
        BY <1>2, <1>3, <1>4, <2>2
      <3> QED BY <1>4, <1>5, <3>1
    <2> QED BY <2>1, <2>2
  <1>7. Len(one \o rest) = Len(q)
    BY <1>2, <1>3, <1>4, <1>5
  <1>8. one \o rest = q
    BY <1>5, <1>6, <1>7, SeqEqual
  <1> QED BY <1>1, <1>2, <1>3, <1>8 DEF one, rest

\* Moving the head of q to the end of p leaves the two together as they are.
LEMMA MoveHead ==
    ASSUME NEW S, NEW p \in Seq(S), NEW q \in Seq(S), q # <<>>
    PROVE  /\ (p \o <<Head(q)>>) \o Tail(q) = p \o q
           /\ Append(p, Head(q)) \o Tail(q) = p \o q
  <1>1. /\ Head(q) \in S /\ Tail(q) \in Seq(S) /\ <<Head(q)>> \in Seq(S)
        /\ <<Head(q)>> \o Tail(q) = q
    BY HeadAndTail
  <1>2. (p \o <<Head(q)>>) \o Tail(q) = p \o (<<Head(q)>> \o Tail(q))
    BY <1>1, ConcatAssociative
  <1>3. Append(p, Head(q)) = p \o <<Head(q)>>
    BY <1>1, AppendIsConcat
  <1> QED BY <1>1, <1>2, <1>3

\* Appending to the second of two is appending to both together.
LEMMA AppendToBoth ==
    ASSUME NEW S, NEW p \in Seq(S), NEW q \in Seq(S), NEW e \in S
    PROVE  p \o Append(q, e) = Append(p \o q, e)
  <1>1. <<e>> \in Seq(S) /\ p \o q \in Seq(S)
    BY ConcatProperties
  <1>2. Append(q, e) = q \o <<e>> /\ Append(p \o q, e) = (p \o q) \o <<e>>
    BY <1>1, AppendIsConcat
  <1>3. (p \o q) \o <<e>> = p \o (q \o <<e>>)
    BY <1>1, ConcatAssociative
  <1> QED BY <1>2, <1>3

-----------------------------------------------------------------------------
(***************************************************************************)
(* SpiceClient: the announcement of the end.                               *)
(***************************************************************************)

\* Everything SpiceClient has keeps its type.
LEMMA TypeStep == Typed /\ [Next]_vars => Typed'
  <1> SUFFICES ASSUME Typed, [Next]_vars PROVE Typed'
    OBVIOUS
  <1> USE ClientAssumption DEF Typed
  <1>1. ASSUME NEW t \in Tasks, TaskStep(t) \/ HasEvent(t) PROVE Typed'
    <2>1. CASE Post(t)
      <3>1. t \in Events
        BY <2>1 DEF Post, Events
      <3>2. mailbox' \in Seq(Events) /\ Len(mailbox') <= EventCap
        BY <2>1, <3>1, AppendFacts DEF Post, Send
      <3> QED BY <2>1, <3>2 DEF Post, Goto
    <2>2. CASE t = "main" /\ PostClosed
      <3>1. mailbox' \in Seq(Events) /\ Len(mailbox') <= EventCap
        BY <2>2, AppendFacts DEF PostClosed, Send, Events
      <3> QED BY <2>2, <3>1 DEF PostClosed, Goto
    <2>3. CASE HasEvent(t)
      BY <2>3 DEF HasEvent, Goto
    <2>4. CASE \/ SubTaskStops(t) \/ Aborted(t) \/ MainLosesSocket \/ InputsQueueClosed
      BY <2>4 DEF SubTaskStops, Aborted, MainLosesSocket, InputsQueueClosed, Goto
    <2> QED BY <1>1, <2>1, <2>2, <2>3, <2>4 DEF TaskStep
  <1>2. CASE SocketLost
    BY <1>2 DEF SocketLost
  <1>3. CASE NextEvent
    <2>1. /\ Head(mailbox) \in Events /\ Tail(mailbox) \in Seq(Events)
          /\ Len(Tail(mailbox)) <= EventCap
      BY <1>3, HeadAndTail DEF NextEvent
    <2>2. delivered' \in Seq(Events \cup {"none"})
      BY <1>3, <2>1, AppendFacts DEF NextEvent
    <2> QED BY <1>3, <2>1, <2>2 DEF NextEvent
  <1>4. CASE NextEventNone
    <2>1. delivered' \in Seq(Events \cup {"none"})
      BY <1>4, AppendFacts DEF NextEventNone
    <2> QED BY <1>4, <2>1 DEF NextEventNone
  <1>5. CASE Close \/ CloseReturns \/ DropClient \/ UNCHANGED vars
    BY <1>5 DEF Close, CloseReturns, DropClient, vars
  <1> QED BY <1>1, <1>2, <1>3, <1>4, <1>5 DEF Next

\* What is sent, seen from the two ends of the mailbox.
LEMMA SentFacts ==
    ASSUME Typed
    PROVE  /\ Sent \in Seq(Events \cup {"none"})
           /\ Len(Sent) = Len(delivered) + Len(mailbox)
           /\ Len(delivered) \in Nat /\ Len(mailbox) \in Nat
           /\ \A i \in 1 .. Len(delivered) : Sent[i] = delivered[i]
           /\ mailbox = <<>> => Sent = delivered
  <1>1. mailbox \in Seq(Events \cup {"none"}) /\ delivered \in Seq(Events \cup {"none"})
    BY SeqMonotonic DEF Typed
  <1>2. Len(delivered) \in Nat /\ Len(mailbox) \in Nat
    BY <1>1, LenProperties
  <1> QED BY <1>1, <1>2, ConcatProperties, ConcatEmptySeq DEF Sent

\* Sending e makes it the last of what is sent; nobody has sent Closed or None
\* as long as the sender runs and, of Closed, main has not ended.
LEMMA SendStep ==
    ASSUME EndInv, NEW t \in Posters, task[t] # "exit",
           NEW e \in Events, e \in {"main", "closed"} => task["main"] # "exit",
           task' = [task EXCEPT ![t] = task'[t]],
           e # "closed" => (task'["main"] = "exit" => task["main"] = "exit"),
           e = "closed" => task'["main"] = "exit",
           Send(e), delivered' = delivered, client' = client, Typed'
    PROVE  EndInv'
  <1> USE DEF EndInv
  <1>1. \A i \in 1 .. Len(delivered) : delivered[i] # "none"
    <2>1. t \in Senders
      BY DEF Senders
    <2> QED BY <2>1 DEF NoneIsFinal
  <1>2. NoneIsFinal'
    BY <1>1 DEF NoneIsFinal
  <1>3. CASE ~Receiving
    <2>1. Sent' = Sent /\ client # "live"
      BY <1>3 DEF Send, Sent, Receiving
    <2>2. ClosedIsLast'
      BY <2>1 DEF ClosedIsLast
    <2>3. ClosedIsSent'
      BY <2>1, ClientAssumption DEF ClosedIsSent, Typed
    <2> QED BY <1>2, <2>2, <2>3
  <1>4. CASE Receiving
    <2>1. mailbox' = Append(mailbox, e)
      BY <1>4 DEF Send
    <2>2. /\ mailbox \in Seq(Events \cup {"none"}) /\ delivered \in Seq(Events \cup {"none"})
          /\ e \in Events \cup {"none"}
      BY SeqMonotonic DEF Typed
    <2>3. Sent' = Append(Sent, e)
      BY <2>1, <2>2, AppendToBoth DEF Sent
    <2>4. /\ Len(Sent) \in Nat /\ Len(Sent') = Len(Sent) + 1 /\ Sent'[Len(Sent) + 1] = e
          /\ \A i \in 1 .. Len(Sent) : Sent'[i] = Sent[i]
      BY <2>2, <2>3, SentFacts, AppendFacts
    <2>5. ClosedIsLast'
      <3> SUFFICES ASSUME NEW i \in 1 .. Len(Sent'), NEW j \in 1 .. Len(Sent'),
                          i < j, Sent'[i] = "closed"
                   PROVE  Sent'[j] \notin {"closed", "main"}
        BY DEF ClosedIsLast
      <3>1. i \in 1 .. Len(Sent) /\ Sent[i] = "closed"
        BY <2>4
      <3>2. CASE j \in 1 .. Len(Sent)
        BY <2>4, <3>1, <3>2 DEF ClosedIsLast
      <3>3. CASE j \notin 1 .. Len(Sent)
        <4>1. Sent'[j] = e
          BY <2>4, <3>3
        <4>2. task["main"] = "exit"
          BY <3>1 DEF ClosedIsSent
        <4> QED BY <4>1, <4>2
      <3> QED BY <3>2, <3>3
    <2>6. ClosedIsSent'
      <3>1. ASSUME NEW i \in 1 .. Len(Sent'), Sent'[i] = "closed"
            PROVE  task'["main"] = "exit"
        <4>1. CASE e = "closed"
          BY <4>1
        <4>2. CASE e # "closed"
          <5>1. i \in 1 .. Len(Sent) /\ Sent[i] = "closed"
            BY <2>4, <3>1, <4>2
          <5>2. task["main"] = "exit"
            BY <5>1 DEF ClosedIsSent
          <5>3. t # "main"
            BY <5>2
          <5> QED BY <5>2, <5>3, ClientAssumption DEF Typed, Posters
        <4> QED BY <4>1, <4>2
      <3>2. ASSUME client' = "live", task'["main"] = "exit"
            PROVE  \E i \in 1 .. Len(Sent') : Sent'[i] = "closed"
        <4>1. CASE e = "closed"
          BY <2>4, <4>1
        <4>2. CASE e # "closed"
          <5>1. PICK i \in 1 .. Len(Sent) : Sent[i] = "closed"
            BY <3>2, <4>2 DEF ClosedIsSent
          <5> QED BY <2>4, <5>1
        <4> QED BY <4>1, <4>2
      <3> QED BY <3>1, <3>2 DEF ClosedIsSent
    <2> QED BY <1>2, <2>5, <2>6
  <1> QED BY <1>3, <1>4

\* Taking an event leaves what is sent as it is, and a task that ends, of
\* itself or by an abort, has nothing more to send.
LEMMA EndStep == EndInv /\ [Next]_vars => EndInv'
  <1> SUFFICES ASSUME EndInv, [Next]_vars PROVE EndInv'
    OBVIOUS
  <1> USE ClientAssumption
  <1>1. Typed /\ Typed'
    BY TypeStep DEF EndInv
  <1>2. ASSUME NEW t \in Tasks, Post(t) PROVE EndInv'
    <2>1. t \in Posters /\ t \in Events /\ t # "closed" /\ task[t] = "post"
      BY <1>1, <1>2 DEF Post, Typed, Events, Posters
    <2>2. /\ Send(t) /\ delivered' = delivered /\ client' = client
          /\ task' = [task EXCEPT ![t] = task'[t]]
          /\ t = "main" => task'["main"] # "exit"
          /\ t # "main" => task'["main"] = task["main"]
      BY <1>1, <1>2 DEF Post, Goto, Typed
    <2> QED BY <1>1, <2>1, <2>2, SendStep
  <1>3. CASE PostClosed
    <2>1. /\ "main" \in Posters /\ "closed" \in Events /\ task["main"] = "last"
          /\ Send("closed") /\ delivered' = delivered /\ client' = client
          /\ task'["main"] = "exit" /\ task' = [task EXCEPT !["main"] = task'["main"]]
      BY <1>1, <1>3 DEF PostClosed, Goto, Typed, Events, Posters
    <2> QED BY <1>1, <2>1, SendStep
  <1>4. ASSUME UNCHANGED <<mailbox, delivered>>,
               \A t \in Tasks : task[t] = "exit" => task'[t] = "exit",
               client' = "live" /\ task'["main"] = "exit" =>
                    client = "live" /\ task["main"] = "exit"
        PROVE  EndInv'
    <2>1. Sent' = Sent
      BY <1>4 DEF Sent
    <2>2. ClosedIsLast'
      BY <2>1 DEF EndInv, ClosedIsLast
    <2>3. ClosedIsSent'
      BY <1>4, <2>1 DEF EndInv, ClosedIsSent
    <2>4. Senders = {} => Senders' = {}
      BY <1>4 DEF Senders, Posters
    <2>5. NoneIsFinal'
      BY <1>4, <2>4 DEF EndInv, NoneIsFinal
    <2> QED BY <1>1, <2>2, <2>3, <2>5 DEF EndInv
  <1>5. ASSUME NEW t \in Tasks, HasEvent(t) \/ SubTaskStops(t) \/ Aborted(t)
        PROVE  EndInv'
    BY <1>1, <1>4, <1>5 DEF HasEvent, SubTaskStops, Aborted, Goto, Typed
  <1>6. CASE MainLosesSocket
    BY <1>1, <1>4, <1>6 DEF MainLosesSocket, Goto, Typed
  <1>7. CASE InputsQueueClosed
    BY <1>1, <1>4, <1>7 DEF InputsQueueClosed, Goto, Typed
  <1>8. CASE SocketLost \/ Close \/ CloseReturns \/ DropClient \/ UNCHANGED vars
    BY <1>4, <1>8 DEF SocketLost, Close, CloseReturns, DropClient, vars
  <1>9. CASE NextEvent
    <2>1. /\ mailbox # <<>> /\ mailbox' = Tail(mailbox) /\ client' = client
          /\ delivered' = Append(delivered, Head(mailbox)) /\ task' = task
      BY <1>9 DEF NextEvent
    <2>2. mailbox \in Seq(Events \cup {"none"}) /\ delivered \in Seq(Events \cup {"none"})
      BY <1>1, SeqMonotonic DEF Typed
    <2>3. Sent' = Sent
      BY <2>1, <2>2, MoveHead DEF Sent
    <2>4. ClosedIsLast' /\ ClosedIsSent'
      BY <2>1, <2>3 DEF EndInv, ClosedIsLast, ClosedIsSent
    <2>5. /\ Head(mailbox) \in Events /\ Len(delivered) \in Nat
          /\ Len(delivered') = Len(delivered) + 1
          /\ delivered'[Len(delivered) + 1] = Head(mailbox)
          /\ \A i \in 1 .. Len(delivered) : delivered'[i] = delivered[i]
      BY <1>1, <2>1, <2>2, HeadAndTail, AppendFacts DEF Typed
    <2>6. ASSUME NEW i \in 1 .. Len(delivered') PROVE delivered'[i] # "none"
      <3>1. CASE i \in 1 .. Len(delivered)
        BY <2>1, <2>5, <3>1 DEF EndInv, NoneIsFinal
      <3>2. CASE i \notin 1 .. Len(delivered)
        BY <2>5, <3>2 DEF Events, Posters
      <3> QED BY <3>1, <3>2
    <2>7. NoneIsFinal'
      BY <2>6 DEF NoneIsFinal
    <2> QED BY <1>1, <2>4, <2>7 DEF EndInv
  <1>10. CASE NextEventNone
    <2>1. /\ client = "live" /\ mailbox = <<>> /\ Senders = {}
          /\ delivered' = Append(delivered, "none")
          /\ UNCHANGED <<task, mailbox, client>>
          /\ ~Contains(delivered, "none")
      BY <1>10 DEF NextEventNone
    <2>2. /\ Len(delivered) \in Nat
          /\ Len(delivered') = Len(delivered) + 1
          /\ delivered'[Len(delivered) + 1] = "none"
          /\ \A i \in 1 .. Len(delivered) : delivered'[i] = delivered[i]
      BY <1>1, <2>1, AppendFacts DEF Typed
    <2>3. Sent = delivered /\ Sent' = delivered'
      BY <1>1, <2>1, ConcatEmptySeq DEF Sent, Typed
    <2>4. ClosedIsLast'
      BY <2>2, <2>3 DEF EndInv, ClosedIsLast
    <2>5. ClosedIsSent'
      BY <2>1, <2>2, <2>3 DEF EndInv, ClosedIsSent
    <2>6. task["main"] = "exit"
      BY <2>1 DEF Senders, Posters
    <2>7. PICK j \in 1 .. Len(delivered) : delivered[j] = "closed"
      BY <2>1, <2>3, <2>6 DEF EndInv, ClosedIsSent
    <2>8. \A i \in 1 .. Len(delivered) : delivered[i] # "none"
      <3>1. DOMAIN delivered = 1 .. Len(delivered)
        BY <1>1, LenProperties DEF Typed
      <3> QED BY <2>1, <3>1 DEF Contains
    <2>9. Senders' = {}
      BY <2>1 DEF Senders
    <2>10. NoneIsFinal'
      BY <2>1, <2>2, <2>7, <2>8, <2>9 DEF NoneIsFinal
    <2> QED BY <1>1, <2>4, <2>5, <2>10 DEF EndInv
  <1> QED BY <1>2, <1>3, <1>5, <1>6, <1>7, <1>8, <1>9, <1>10 DEF Next, TaskStep

\* It begins with the one event of connect_with.
LEMMA EndInit == Init => EndInv
  <1> SUFFICES ASSUME Init PROVE EndInv
    OBVIOUS
  <1> USE ClientAssumption DEF Init
  <1>1. <<"main">> \in Seq(Events) /\ Len(<<"main">>) = 1
    BY DEF Events, Posters
  <1>2. Typed
    BY <1>1, EmptySeq DEF Typed, Posters
  <1>3. Len(Sent) = 1 /\ Sent = <<"main">>
    BY <1>1, ConcatEmptySeq DEF Sent
  <1>4. ClosedIsLast /\ ClosedIsSent
    BY <1>3 DEF ClosedIsLast, ClosedIsSent
  <1>5. NoneIsFinal
    BY DEF NoneIsFinal
  <1> QED BY <1>2, <1>4, <1>5 DEF EndInv

\* What is sent is announced as promised.
LEMMA EndImplied == EndInv => EndIsAnnounced
  <1> SUFFICES ASSUME EndInv PROVE EndIsAnnounced
    OBVIOUS
  <1>1. DOMAIN delivered = 1 .. Len(delivered) /\ Len(delivered) \in Nat
    BY LenProperties DEF EndInv, Typed
  <1>2. /\ Len(Sent) = Len(delivered) + Len(mailbox) /\ Len(mailbox) \in Nat
        /\ \A i \in 1 .. Len(delivered) : Sent[i] = delivered[i]
    BY SentFacts DEF EndInv
  <1>3. ASSUME NEW i \in 1 .. Len(delivered), NEW j \in 1 .. Len(delivered),
               delivered[j] = "closed"
        PROVE  /\ delivered[i] = "closed" => i = j
               /\ delivered[i] = "main" => i < j
    <2>1. i \in 1 .. Len(Sent) /\ j \in 1 .. Len(Sent) /\ Sent[j] = "closed"
          /\ Sent[i] = delivered[i]
      BY <1>2, <1>3
    <2>2. j < i => delivered[i] \notin {"closed", "main"}
      BY <2>1 DEF EndInv, ClosedIsLast
    <2>3. i < j => delivered[i] # "closed"
      BY <2>1 DEF EndInv, ClosedIsLast
    <2> QED BY <1>3, <2>2, <2>3
  <1> QED BY <1>1, <1>3 DEF EndInv, NoneIsFinal, EndIsAnnounced

\* The types of SpiceClient are part of the invariant.
LEMMA EndImpliesTypes == EndInv => TypeOK
  <1> SUFFICES ASSUME Typed PROVE TypeOK
    BY DEF EndInv
  <1>1. ToSet(mailbox) \subseteq Posters \cup {"closed"}
    BY LenProperties DEF Typed, ToSet, Events
  <1> QED BY <1>1 DEF Typed, TypeOK

\* Types, bounds of the mailbox included, for any embedder.
THEOREM ClientTypeCorrect == Spec => []TypeOK
  <1> QED BY EndImpliesTypes, EndInit, EndStep, PTL DEF Spec

\* Whatever an embedder does with a SpiceClient, and however its tasks end: it
\* gets Closed once, nothing of main after it, and None only after Closed.
THEOREM EndAnnounced == Spec => []EndIsAnnounced
  <1> QED BY EndInit, EndStep, EndImplied, PTL DEF Spec

-----------------------------------------------------------------------------
(***************************************************************************)
(* The viewer is an embedder of a SpiceClient.                             *)
(***************************************************************************)

\* A step of the viewer is one of SpiceClient, or none of its variables changes.
LEMMA ViewerStepIsClientStep == [ViewerNext]_allVars => [Next]_vars
  <1> SUFFICES ASSUME ViewerNext, ~UNCHANGED vars PROVE Next
    BY DEF allVars
  <1>1. CASE ClientTasks
    BY <1>1 DEF ClientTasks, Next
  <1>2. CASE Application
    BY <1>2 DEF Application, Next
  <1>3. CASE ViewerTakesEvent \/ ViewerCloses
    BY <1>3 DEF ViewerTakesEvent, ViewerCloses, Next
  <1>4. ~(UserInput \/ DrainPaint \/ UserCloses \/ Connect \/ ViewerTakesInput
            \/ ViewerSendsInput \/ InputsTakes \/ InputsWrites)
    BY DEF UserInput, DrainPaint, UserCloses, Connect, ViewerTakesInput,
           ViewerSendsInput, InputsTakes, InputsWrites
  <1> QED BY <1>1, <1>2, <1>3, <1>4 DEF ViewerNext

\* The viewer uses its SpiceClient as SpiceClient lets an embedder use it.
THEOREM ViewerIsAnEmbedder == ViewerSpec => Spec
  <1>1. ViewerInit => Init
    BY DEF ViewerInit
  <1> QED BY <1>1, ViewerStepIsClientStep, PTL DEF ViewerSpec, Spec

\* In the hands of the viewer, too, the end is announced as promised.
THEOREM ViewerHearsOfTheEnd == ViewerSpec => []EndIsAnnounced
  <1> QED BY ViewerIsAnEmbedder, EndAnnounced, PTL

-----------------------------------------------------------------------------
(***************************************************************************)
(* The way of an input.                                                    *)
(***************************************************************************)

\* Adding a number above all others keeps a sequence ascending.
LEMMA AscendingAppend ==
    ASSUME NEW s \in Seq(Inputs), NEW n \in Inputs, NEW D,
           ToSet(s) = (1 .. n - 1) \ D, D \subseteq 1 .. n - 1, Ascending(s)
    PROVE  ToSet(Append(s, n)) = (1 .. n) \ D /\ Ascending(Append(s, n))
  <1> USE ViewerAssumption DEF Inputs
  <1> DEFINE t == Append(s, n)
  <1>1. /\ t \in Seq(Inputs) /\ Len(s) \in Nat /\ Len(t) = Len(s) + 1
        /\ t[Len(s) + 1] = n /\ \A i \in 1 .. Len(s) : t[i] = s[i]
    BY AppendFacts
  <1>2. DOMAIN s = 1 .. Len(s) /\ DOMAIN t = 1 .. Len(s) + 1
    BY <1>1, LenProperties
  <1> HIDE DEF t
  <1>3. \A i \in 1 .. Len(s) : s[i] \in 1 .. n - 1
    BY <1>2 DEF ToSet
  <1>4. ToSet(t) = ToSet(s) \cup {n}
    <2>1. ASSUME NEW x \in ToSet(t) PROVE x \in ToSet(s) \cup {n}
      <3>1. PICK i \in 1 .. Len(s) + 1 : x = t[i]
        BY <1>2 DEF ToSet
      <3>2. CASE i \in 1 .. Len(s)
        BY <1>1, <1>2, <3>1, <3>2 DEF ToSet
      <3>3. CASE i \notin 1 .. Len(s)
        BY <1>1, <3>1, <3>3
      <3> QED BY <3>2, <3>3
    <2>2. ASSUME NEW x \in ToSet(s) PROVE x \in ToSet(t)
      <3>1. PICK i \in 1 .. Len(s) : x = s[i]
        BY <1>2 DEF ToSet
      <3>2. i \in DOMAIN t /\ x = t[i]
        BY <1>1, <1>2, <3>1
      <3> QED BY <3>2 DEF ToSet
    <2>3. n \in ToSet(t)
      <3>1. Len(s) + 1 \in DOMAIN t
        BY <1>1, <1>2
      <3> QED BY <1>1, <3>1 DEF ToSet
    <2> QED BY <2>1, <2>2, <2>3
  <1>5. ToSet(t) = (1 .. n) \ D
    BY <1>4
  <1>6. Ascending(t)
    <2> SUFFICES ASSUME NEW i \in 1 .. Len(s) + 1, NEW j \in 1 .. Len(s) + 1, i < j
                 PROVE  t[i] < t[j]
      BY <1>2 DEF Ascending
    <2>1. i \in 1 .. Len(s) /\ t[i] = s[i]
      BY <1>1
    <2>2. CASE j \in 1 .. Len(s)
      BY <1>1, <1>2, <2>1, <2>2 DEF Ascending
    <2>3. CASE j \notin 1 .. Len(s)
      <3>1. t[j] = n
        <4>1. j = Len(s) + 1
          <5>1. Len(s) \in Nat
            BY <1>1
          <5>2. j \in 1 .. Len(s) + 1 /\ j \notin 1 .. Len(s)
            BY <2>3
          <5> QED BY ONLY <5>1, <5>2
        <4> QED BY <1>1, <4>1
      <3>2. s[i] \in 1 .. n - 1
        BY <1>3, <2>1
      <3> QED BY <2>1, <3>1, <3>2
    <2> QED BY <2>2, <2>3
  <1> QED BY <1>5, <1>6 DEF t

\* The viewer's queues keep their types and their bounds.
LEMMA QueuesTypeStep == QueuesTyped /\ [ViewerNext]_allVars => QueuesTyped'
  <1> SUFFICES ASSUME QueuesTyped, [ViewerNext]_allVars PROVE QueuesTyped'
    OBVIOUS
  <1> USE ViewerAssumption DEF QueuesTyped, IsViewer, Inputs
  <1>1. CASE UserInput
    <2>1. made' = made + 1 /\ made + 1 \in Inputs /\ made' \in 0 .. MaxInputs
      BY <1>1 DEF UserInput
    <2>2. /\ Append(fromWindow, made') \in Seq(Inputs)
          /\ Len(Append(fromWindow, made')) = Len(fromWindow) + 1 /\ Len(fromWindow) \in Nat
      BY <2>1, AppendFacts
    <2>3. /\ \/ fromWindow' = fromWindow
             \/ Len(fromWindow) < WindowCap /\ fromWindow' = Append(fromWindow, made')
          /\ overflowed' \in {overflowed, overflowed \cup {made'}}
      BY <1>1, Zenon DEF UserInput
    <2>4. fromWindow' \in Seq(Inputs) /\ Len(fromWindow') <= WindowCap
      <3>1. CASE fromWindow' = fromWindow
        BY <3>1
      <3>2. CASE Len(fromWindow) < WindowCap /\ fromWindow' = Append(fromWindow, made')
        BY <2>2, <3>2
      <3> QED BY <2>3, <3>1, <3>2
    <2>5. overflowed' \subseteq 1 .. made'
      BY <2>1, <2>3
    <2> QED BY <1>1, <2>1, <2>4, <2>5 DEF UserInput
  <1>2. CASE DrainPaint
    <2>1. paint' = <<>> /\ paint' \in Seq(PaintMsgs)
      BY <1>2, EmptySeq DEF DrainPaint
    <2> QED BY <1>2, <2>1 DEF DrainPaint, inputVars
  <1>3. CASE Connect
    <2>1. paint' \in Seq(PaintMsgs)
      <3>1. "closed" \in PaintMsgs
        BY DEF PaintMsgs
      <3>2. Append(paint, "closed") \in Seq(PaintMsgs)
        BY <3>1, AppendFacts
      <3>3. paint' = paint \/ paint' = Append(paint, "closed")
        BY <1>3, Zenon DEF Connect
      <3>4. paint \in Seq(PaintMsgs)
        OBVIOUS
      <3> QED BY ONLY <3>2, <3>3, <3>4
    <2> QED BY <1>3, <2>1 DEF Connect, inputVars
  <1>4. CASE ViewerTakesEvent
    <2>1. paint' \in Seq(PaintMsgs)
      <3>1. "closed" \in PaintMsgs /\ "paint" \in PaintMsgs
        BY DEF PaintMsgs
      <3>2. Append(paint, "closed") \in Seq(PaintMsgs) /\ Append(paint, "paint") \in Seq(PaintMsgs)
        BY <3>1, AppendFacts
      <3>3. paint' \in {paint, Append(paint, "closed"), Append(paint, "paint")}
        BY <1>4, Zenon DEF ViewerTakesEvent
      <3>4. paint \in Seq(PaintMsgs)
        OBVIOUS
      <3>5. \A s : s \in {paint, Append(paint, "closed"), Append(paint, "paint")}
                   => s \in Seq(PaintMsgs)
        BY ONLY <3>2, <3>4, Zenon
      <3> QED BY ONLY <3>3, <3>5, Zenon
    <2> QED BY <1>4, <2>1 DEF ViewerTakesEvent, InLoop, inputVars
  <1>5. CASE ViewerTakesInput
    <2>1. /\ fromWindow # <<>> /\ held' = <<Head(fromWindow)>> /\ fromWindow' = Tail(fromWindow)
          /\ spice' = "sending"
      BY <1>5 DEF ViewerTakesInput
    <2>2. /\ fromWindow' \in Seq(Inputs) /\ Len(fromWindow') <= WindowCap
          /\ held' \in Seq(Inputs) /\ Len(held') <= 1 /\ held' # <<>>
      BY <2>1, HeadAndTail
    <2> QED BY <1>5, <2>1, <2>2 DEF ViewerTakesInput
  <1>6. CASE ViewerSendsInput
    <2>1. Len(queue) \in Nat /\ Len(held) \in Nat
          /\ queue \o held \in Seq(Inputs) /\ Len(queue \o held) = Len(queue) + Len(held)
      BY ConcatFacts
    <2>2. queue' \in Seq(Inputs) /\ Len(queue') <= InputCap
      <3>1. CASE InputsRun
        BY <1>6, <2>1, <3>1 DEF ViewerSendsInput, SendInput
      <3>2. CASE ~InputsRun
        BY <1>6, <3>2 DEF ViewerSendsInput, SendInput
      <3> QED BY <3>1, <3>2
    <2>3. held' = <<>> /\ held' \in Seq(Inputs) /\ Len(held') = 0
      BY <1>6, EmptySeq DEF ViewerSendsInput
    <2> QED BY <1>6, <2>2, <2>3 DEF ViewerSendsInput
  <1>7. CASE InputsTakes
    <2>1. queue # <<>> /\ writing' = <<Head(queue)>> /\ queue' = Tail(queue)
      BY <1>7 DEF InputsTakes
    <2>2. /\ queue' \in Seq(Inputs) /\ Len(queue') <= InputCap
          /\ writing' \in Seq(Inputs) /\ Len(writing') <= 1
      BY <2>1, HeadAndTail
    <2> QED BY <1>7, <2>2 DEF InputsTakes
  <1>8. CASE InputsWrites
    <2>1. arrived' \in Seq(Inputs) /\ writing' \in Seq(Inputs) /\ Len(writing') <= 1
      BY <1>8, ConcatFacts, EmptySeq DEF InputsWrites
    <2> QED BY <1>8, <2>1 DEF InputsWrites
  <1>9. CASE UserCloses \/ ViewerCloses
    BY <1>9 DEF UserCloses, ViewerCloses, inputVars
  <1>10. CASE UNCHANGED viewerVars
    BY <1>10 DEF viewerVars, inputVars
  <1> QED BY <1>1, <1>2, <1>3, <1>4, <1>5, <1>6, <1>7, <1>8, <1>9, <1>10
          DEF ViewerNext, allVars

\* The inputs task does not start again, and the viewer is through with a client
\* only when its tasks have ended.
LEMMA DoneStep ==
    Typed /\ DoneIsOver /\ [ViewerNext]_allVars
        => /\ InputsRun' => InputsRun
           /\ DoneIsOver'
  <1> SUFFICES ASSUME Typed, DoneIsOver, [ViewerNext]_allVars
               PROVE  (InputsRun' => InputsRun) /\ DoneIsOver'
    OBVIOUS
  <1>1. \A t \in Tasks : task[t] = "exit" => task'[t] = "exit"
    <2>1. [Next]_vars
      BY ViewerStepIsClientStep
    <2>2. ASSUME NEW u \in Tasks, TaskStep(u) \/ HasEvent(u)
          PROVE  \A t \in Tasks : task[t] = "exit" => task'[t] = "exit"
      BY <2>2 DEF TaskStep, HasEvent, Post, SubTaskStops, Aborted, MainLosesSocket,
                  PostClosed, InputsQueueClosed, Goto, Typed
    <2>3. CASE UNCHANGED task
      BY <2>3
    <2>4. CASE \/ SocketLost \/ NextEvent \/ NextEventNone \/ Close \/ CloseReturns
               \/ DropClient \/ UNCHANGED vars
      BY <2>3, <2>4 DEF SocketLost, NextEvent, NextEventNone, Close, CloseReturns,
                        DropClient, vars
    <2> QED BY <2>1, <2>2, <2>4 DEF Next
  <1>2. InputsRun' => InputsRun
    BY <1>1 DEF InputsRun
  <1>3. UNCHANGED embedder
    BY DEF ViewerNext, allVars, viewerVars, UserInput, DrainPaint, UserCloses, Connect,
           ViewerTakesEvent, ViewerTakesInput, ViewerSendsInput, ViewerCloses,
           InputsTakes, InputsWrites
  <1>4. CASE ViewerCloses
    <2>1. spice' = spice \/ CloseReturns
      BY <1>4 DEF ViewerCloses
    <2>2. CloseReturns => ~InputsRun'
      BY DEF CloseReturns, InputsRun
    <2> QED BY <1>2, <1>3, <2>1, <2>2 DEF DoneIsOver, IsViewer
  <1>5. CASE ~ViewerCloses
    <2>1. spice' = "done" => spice = "done"
      BY <1>5 DEF ViewerNext, allVars, viewerVars, UserInput, DrainPaint, UserCloses,
           Connect, ViewerTakesEvent, ViewerTakesInput, ViewerSendsInput,
           InputsTakes, InputsWrites
    <2> QED BY <1>2, <1>3, <2>1 DEF DoneIsOver, IsViewer
  <1> QED BY <1>2, <1>4, <1>5

\* Every step of an input's way leaves what is under way as it is.
LEMMA InputMoves ==
    ASSUME QueuesTyped,
           ViewerTakesInput \/ (ViewerSendsInput /\ InputsRun) \/ InputsTakes \/ InputsWrites
    PROVE  UnderWay' = UnderWay
  <1> USE DEF QueuesTyped
  <1> DEFINE way == arrived \o writing
             sent == way \o queue
  <1>1. /\ way \in Seq(Inputs) /\ sent \in Seq(Inputs)
        /\ sent \o held \in Seq(Inputs)
    BY ConcatFacts
  <1> HIDE DEF way, sent
  <1>2. CASE ViewerTakesInput
    <2>1. /\ held = <<>> /\ fromWindow # <<>>
          /\ held' = <<Head(fromWindow)>> /\ fromWindow' = Tail(fromWindow)
          /\ sent' = sent
      BY <1>2 DEF ViewerTakesInput, InLoop, sent, way
    <2>2. (sent \o <<Head(fromWindow)>>) \o Tail(fromWindow) = sent \o fromWindow
      BY <1>1, <2>1, MoveHead
    <2>3. sent \o <<>> = sent
      BY <1>1, ConcatEmptySeq
    <2>4. UnderWay = (sent \o held) \o fromWindow
      BY DEF UnderWay, sent, way
    <2>5. UnderWay' = (sent' \o held') \o fromWindow'
      BY DEF UnderWay, sent, way
    <2> QED BY ONLY <2>1, <2>2, <2>3, <2>4, <2>5
  <1>3. CASE ViewerSendsInput /\ InputsRun
    <2>1. /\ queue' = queue \o held /\ held' = <<>> /\ way' = way
          /\ fromWindow' = fromWindow
      BY <1>3 DEF ViewerSendsInput, SendInput, way
    <2>2. way \o (queue \o held) = (way \o queue) \o held
      <3>1. queue \in Seq(Inputs) /\ held \in Seq(Inputs)
        OBVIOUS
      <3> QED BY ONLY <1>1, <3>1, ConcatAssociative
    <2>3. (sent \o held) \o <<>> = sent \o held
      BY <1>1, ConcatEmptySeq
    <2>4. UnderWay = ((way \o queue) \o held) \o fromWindow /\ sent = way \o queue
      BY DEF UnderWay, sent, way
    <2>5. UnderWay' = ((way' \o queue') \o held') \o fromWindow'
      BY DEF UnderWay, way
    <2> QED BY ONLY <2>1, <2>2, <2>3, <2>4, <2>5
  <1>4. CASE InputsTakes
    <2>1. /\ writing = <<>> /\ queue # <<>>
          /\ writing' = <<Head(queue)>> /\ queue' = Tail(queue)
          /\ UNCHANGED <<arrived, held, fromWindow>>
      BY <1>4 DEF InputsTakes
    <2>2. (arrived \o <<Head(queue)>>) \o Tail(queue) = arrived \o queue
      BY <2>1, MoveHead
    <2>3. arrived \o <<>> = arrived
      BY ConcatEmptySeq
    <2>4. UnderWay = (((arrived \o writing) \o queue) \o held) \o fromWindow
      BY DEF UnderWay
    <2>5. UnderWay' = (((arrived' \o writing') \o queue') \o held') \o fromWindow'
      BY DEF UnderWay
    <2> QED BY ONLY <2>1, <2>2, <2>3, <2>4, <2>5
  <1>5. CASE InputsWrites
    <2>1. /\ arrived' = way /\ writing' = <<>> /\ UNCHANGED <<queue, held, fromWindow>>
      BY <1>5 DEF InputsWrites, way
    <2>2. way \o <<>> = way
      BY <1>1, ConcatEmptySeq
    <2>3. UnderWay = ((way \o queue) \o held) \o fromWindow
      BY DEF UnderWay, way
    <2>4. UnderWay' = (((arrived' \o writing') \o queue') \o held') \o fromWindow'
      BY DEF UnderWay
    <2> QED BY ONLY <2>1, <2>2, <2>3, <2>4
  <1> QED BY <1>2, <1>3, <1>4, <1>5

\* The order of the inputs is kept.
LEMMA OrderStep ==
    QueuesInv /\ QueuesTyped' /\ [ViewerNext]_allVars => OrderInv'
  <1> SUFFICES ASSUME QueuesInv, QueuesTyped', [ViewerNext]_allVars,
                      IsViewer', window' = "open", spice' # "failed", InputsRun'
               PROVE  /\ ToSet(UnderWay') = (1 .. made') \ overflowed'
                      /\ Ascending(UnderWay')
    BY DEF OrderInv
  <1> USE DEF QueuesInv
  <1>1. /\ InputsRun /\ ~(IsViewer /\ spice = "done")
    BY DoneStep DEF EndInv, DoneIsOver
  <1>2. /\ IsViewer /\ window = "open" /\ spice # "failed"
    BY DEF ViewerNext, allVars, viewerVars, UserInput, DrainPaint, UserCloses, Connect,
           ViewerTakesEvent, ViewerTakesInput, ViewerSendsInput, ViewerCloses,
           InputsTakes, InputsWrites, InLoop, IsViewer
  <1>3. ToSet(UnderWay) = (1 .. made) \ overflowed /\ Ascending(UnderWay)
    BY <1>1, <1>2 DEF OrderInv
  <1>4. CASE UserInput
    <2> DEFINE before == arrived \o writing \o queue \o held
    <2>1. before \in Seq(Inputs) /\ UnderWay \in Seq(Inputs)
      BY ConcatFacts DEF QueuesTyped, UnderWay
    <2>2. /\ made' = made + 1 /\ made' \in Inputs /\ made \in Nat /\ made = made' - 1
          /\ overflowed \subseteq 1 .. made
      BY <1>4, ViewerAssumption DEF UserInput, QueuesTyped, Inputs
    <2>3. /\ before' = before /\ UnderWay = before \o fromWindow
      BY <1>4 DEF UserInput, UnderWay
    <2>4. UnderWay' = before' \o fromWindow'
      BY DEF UnderWay
    <2> HIDE DEF before
    <2>5. CASE fromWindow' = Append(fromWindow, made') /\ overflowed' = overflowed
      <3>1. UnderWay' = Append(UnderWay, made')
        <4>1. fromWindow \in Seq(Inputs)
          BY DEF QueuesTyped
        <4>2. before \o Append(fromWindow, made') = Append(before \o fromWindow, made')
          BY <2>1, <2>2, <4>1, AppendToBoth
        <4> QED BY ONLY <2>3, <2>4, <2>5, <4>2
      <3>2. /\ ToSet(UnderWay) = (1 .. made' - 1) \ overflowed
            /\ overflowed \subseteq 1 .. made' - 1
        BY ONLY <1>3, <2>2
      <3>3. /\ ToSet(Append(UnderWay, made')) = (1 .. made') \ overflowed
            /\ Ascending(Append(UnderWay, made'))
        BY ONLY <1>3, <2>1, <2>2, <3>2, AscendingAppend
      <3> QED BY ONLY <2>5, <3>1, <3>3
    <2>6. CASE fromWindow' = fromWindow /\ overflowed' = overflowed \cup {made'}
      <3>1. UnderWay' = UnderWay
        BY ONLY <2>3, <2>4, <2>6
      <3>2. (1 .. made') \ overflowed' = (1 .. made) \ overflowed
        BY ONLY <2>2, <2>6
      <3> QED BY ONLY <1>3, <3>1, <3>2
    <2>7. ~Returned
      BY <1>1, <1>2 DEF Returned
    <2> QED BY <1>4, <2>5, <2>6, <2>7 DEF UserInput
  <1>5. CASE ViewerTakesInput \/ ViewerSendsInput \/ InputsTakes \/ InputsWrites
    <2>1. UnderWay' = UnderWay
      BY <1>1, <1>5, InputMoves
    <2>2. made' = made /\ overflowed' = overflowed
      BY <1>5 DEF ViewerTakesInput, ViewerSendsInput, InputsTakes, InputsWrites
    <2> QED BY ONLY <1>3, <2>1, <2>2
  <1>6. CASE UNCHANGED inputVars
    <2>1. UnderWay' = UnderWay /\ made' = made /\ overflowed' = overflowed
      BY <1>6 DEF inputVars, UnderWay
    <2> QED BY ONLY <1>3, <2>1
  <1>7. CASE DrainPaint \/ UserCloses \/ Connect \/ ViewerTakesEvent \/ ViewerCloses
    BY <1>6, <1>7 DEF DrainPaint, UserCloses, Connect, ViewerTakesEvent, ViewerCloses
  <1>8. CASE UNCHANGED viewerVars
    BY <1>6, <1>8 DEF viewerVars
  <1> QED BY <1>4, <1>5, <1>7, <1>8 DEF ViewerNext, allVars

\* The whole invariant of the viewer.
LEMMA QueuesInvariant == ViewerSpec => []QueuesInv
  <1>1. ViewerInit => QueuesInv
    <2> SUFFICES ASSUME ViewerInit PROVE QueuesInv
      OBVIOUS
    <2>1. EndInv
      BY EndInit DEF ViewerInit
    <2>2. QueuesTyped /\ DoneIsOver
      BY ViewerAssumption, EmptySeq DEF ViewerInit, QueuesTyped, DoneIsOver
    <2>3. <<>> \in Seq(Inputs) /\ UnderWay = <<>> /\ made = 0 /\ overflowed = {}
      BY EmptySeq, ConcatEmptySeq DEF ViewerInit, UnderWay
    <2>4. ToSet(UnderWay) = {} /\ Ascending(UnderWay)
      <3>1. DOMAIN UnderWay = {}
        BY <2>3
      <3> QED BY <3>1 DEF ToSet, Ascending
    <2>5. (1 .. made) \ overflowed = {}
      BY <2>3
    <2> QED BY <2>1, <2>2, <2>4, <2>5 DEF QueuesInv, OrderInv
  <1>2. QueuesInv /\ [ViewerNext]_allVars => QueuesInv'
    <2> SUFFICES ASSUME QueuesInv, [ViewerNext]_allVars PROVE QueuesInv'
      OBVIOUS
    <2>1. EndInv'
      BY ViewerStepIsClientStep, EndStep DEF QueuesInv
    <2>2. QueuesTyped'
      BY QueuesTypeStep DEF QueuesInv
    <2>3. DoneIsOver'
      BY DoneStep DEF QueuesInv, EndInv
    <2>4. OrderInv'
      BY <2>2, OrderStep
    <2> QED BY <2>1, <2>2, <2>3, <2>4 DEF QueuesInv
  <1> QED BY <1>1, <1>2, PTL DEF ViewerSpec

\* Types of the viewer's state, the bounds of its two queues included.
THEOREM ViewerTypeCorrect == ViewerSpec => []ViewerTypeOK
  <1>1. QueuesInv => TypeOK
    BY EndImpliesTypes DEF QueuesInv
  <1>2. QueuesInv => ViewerTypeOK
    <2> SUFFICES ASSUME QueuesInv PROVE ViewerTypeOK
      OBVIOUS
    <2>1. ToSet(paint) \subseteq {"paint", "closed"}
      BY LenProperties DEF QueuesInv, QueuesTyped, PaintMsgs, ToSet
    <2> QED BY <1>1, <2>1 DEF ViewerTypeOK, QueuesInv, QueuesTyped
  <1> QED BY <1>2, QueuesInvariant, PTL

\* However the window, spice_task, the tasks of the client and the server
\* interleave: as long as the inputs task runs, what has reached the server and
\* what is on its way are the inputs made, in order, without those the full
\* queue of the window has dropped.
THEOREM InputsInOrder == ViewerSpec => []InputsKeepOrder
  <1>1. QueuesInv => InputsKeepOrder
    BY DEF QueuesInv, OrderInv, InputsKeepOrder, Alive
  <1> QED BY <1>1, QueuesInvariant, PTL

-----------------------------------------------------------------------------
(***************************************************************************)
(* The framebuffer, for screens, rectangles and copies of every size: the  *)
(* in-place loop of copy_rect never reads a pixel it has already           *)
(* overwritten, so that it moves all pixels as if at once.                 *)
(*                                                                         *)
(* The inductive invariant says of a pixel that is still to be copied that *)
(* its source is what it shall become, and of every other pixel that it is *)
(* already what it shall be.  A step keeps this because a pixel whose      *)
(* source is overwritten has had its own turn before (SourceIsDone).       *)
(***************************************************************************)

\* The turns of the two loops in which a pixel of the destination is written.
RowTurn(p, j) == IF j.dt > j.sy THEN j.h - 1 - (p[2] - j.dt) ELSE p[2] - j.dt
ColTurn(p, j) == IF j.dl > j.sx THEN j.w - 1 - (p[1] - j.dl) ELSE p[1] - j.dl

Pending(p, j) ==
    /\ InDest(p, j)
    /\ \/ RowTurn(p, j) > j.i
       \/ RowTurn(p, j) = j.i /\ ColTurn(p, j) >= j.k

\* A copy under way on a screen of width x height.
Jobs(width, height) ==
    {j \in [dl : Nat, dt : Nat, w : Nat, h : Nat, sx : Nat, sy : Nat, i : Nat, k : Nat] :
        /\ j.i < j.h /\ j.k < j.w
        /\ j.dl + j.w <= width /\ j.dt + j.h <= height
        /\ j.sx + j.w <= width /\ j.sy + j.h <= height}

TypeInv ==
    /\ fbW \in Nat /\ fbH \in Nat /\ paints \in 0 .. MaxPaints
    /\ fb = [p \in Screen |-> fb[p]] /\ want = [p \in Screen |-> want[p]]
    /\ job = Idle \/ job \in Jobs(fbW, fbH)

Progress ==
    \A p \in Screen :
        IF job # Idle /\ Pending(p, job) THEN fb[Source(p, job)] = want[p]
                                         ELSE fb[p] = want[p]

IInv == TypeInv /\ Progress

-----------------------------------------------------------------------------
(***************************************************************************)
(* clamp_rect leaves what a rectangle covers of the screen as it was, and  *)
(* a rectangle that is not inverted stays so.                              *)
(***************************************************************************)
LEMMA ClampCovers ==
    ASSUME fbW \in Nat, fbH \in Nat, NEW r \in Rects
    PROVE  /\ ClampRect(r).left \in 0 .. fbW /\ ClampRect(r).top \in 0 .. fbH
           /\ ClampRect(r).right \in ClampRect(r).left .. fbW
           /\ ClampRect(r).bottom \in ClampRect(r).top .. fbH
           /\ \A p \in Screen : Inside(p, ClampRect(r)) <=> Inside(p, r)
<1>1. /\ r.left \in Int /\ r.top \in Int /\ r.right \in Int /\ r.bottom \in Int
      /\ r.left <= r.right /\ r.top <= r.bottom
  BY FramebufferAssumption DEF Rects
<1>2. /\ ClampRect(r).left \in 0 .. fbW /\ ClampRect(r).top \in 0 .. fbH
      /\ ClampRect(r).right \in ClampRect(r).left .. fbW
      /\ ClampRect(r).bottom \in ClampRect(r).top .. fbH
  BY <1>1 DEF ClampRect, ClampTo
<1>3. ASSUME NEW p \in Screen
      PROVE  Inside(p, ClampRect(r)) <=> Inside(p, r)
  <2>1. p[1] \in 0 .. fbW - 1 /\ p[2] \in 0 .. fbH - 1
    BY DEF Screen
  <2>2. p[1] \in ClampRect(r).left .. ClampRect(r).right - 1
            <=> p[1] \in r.left .. r.right - 1
    BY <1>1, <2>1 DEF ClampRect, ClampTo
  <2>3. p[2] \in ClampRect(r).top .. ClampRect(r).bottom - 1
            <=> p[2] \in r.top .. r.bottom - 1
    BY <1>1, <2>1 DEF ClampRect, ClampTo
  <2> QED BY <2>2, <2>3 DEF Inside
<1> QED BY <1>2, <1>3

(***************************************************************************)
(* What a copy under way writes and reads is on the screen.                *)
(***************************************************************************)
LEMMA CopyStaysOnScreen ==
    ASSUME fbW \in Nat, fbH \in Nat, NEW j \in Jobs(fbW, fbH)
    PROVE  /\ Current(j) \in Screen /\ InDest(Current(j), j)
           /\ RowTurn(Current(j), j) = j.i /\ ColTurn(Current(j), j) = j.k
           /\ \A p \in Screen : InDest(p, j) => Source(p, j) \in Screen
<1>1. /\ j.dl \in Nat /\ j.dt \in Nat /\ j.w \in Nat /\ j.h \in Nat
      /\ j.sx \in Nat /\ j.sy \in Nat /\ j.i \in Nat /\ j.k \in Nat
      /\ j.i < j.h /\ j.k < j.w
      /\ j.dl + j.w <= fbW /\ j.dt + j.h <= fbH
      /\ j.sx + j.w <= fbW /\ j.sy + j.h <= fbH
  BY DEF Jobs
<1>2. /\ Current(j)[1] = j.dl + (IF j.dl > j.sx THEN j.w - 1 - j.k ELSE j.k)
      /\ Current(j)[2] = j.dt + (IF j.dt > j.sy THEN j.h - 1 - j.i ELSE j.i)
  BY DEF Current
<1>3. Current(j) \in Screen
  <2>1. /\ j.dl + (IF j.dl > j.sx THEN j.w - 1 - j.k ELSE j.k) \in 0 .. fbW - 1
        /\ j.dt + (IF j.dt > j.sy THEN j.h - 1 - j.i ELSE j.i) \in 0 .. fbH - 1
    BY <1>1
  <2> QED BY <2>1 DEF Current, Screen
<1>4. InDest(Current(j), j)
  BY <1>1, <1>2 DEF InDest
<1>5. RowTurn(Current(j), j) = j.i /\ ColTurn(Current(j), j) = j.k
  BY <1>1, <1>2 DEF RowTurn, ColTurn
<1>6. ASSUME NEW p \in Screen, InDest(p, j)
      PROVE  Source(p, j) \in Screen
  <2>1. p[1] \in Int /\ p[2] \in Int
    BY DEF Screen
  <2>2. p[1] - j.dl + j.sx \in 0 .. fbW - 1 /\ p[2] - j.dt + j.sy \in 0 .. fbH - 1
    BY <1>1, <1>6, <2>1 DEF InDest
  <2> QED BY <2>2 DEF Source, Screen
<1> QED BY <1>3, <1>4, <1>5, <1>6

(***************************************************************************)
(* A pixel whose source is the pixel of this turn has had its turn before, *)
(* unless it is its own source.                                            *)
(***************************************************************************)
LEMMA SourceIsDone ==
    ASSUME fbW \in Nat, fbH \in Nat, NEW j \in Jobs(fbW, fbH), NEW p \in Screen,
           Pending(p, j), Source(p, j) = Current(j)
    PROVE  p = Current(j)
<1>1. /\ j.dl \in Nat /\ j.dt \in Nat /\ j.w \in Nat /\ j.h \in Nat
      /\ j.sx \in Nat /\ j.sy \in Nat /\ j.i \in Nat /\ j.k \in Nat
      /\ j.i < j.h /\ j.k < j.w
  BY DEF Jobs
<1>2. p[1] \in Int /\ p[2] \in Int /\ p = <<p[1], p[2]>>
  BY DEF Screen
<1>3. /\ p[1] - j.dl + j.sx = j.dl + (IF j.dl > j.sx THEN j.w - 1 - j.k ELSE j.k)
      /\ p[2] - j.dt + j.sy = j.dt + (IF j.dt > j.sy THEN j.h - 1 - j.i ELSE j.i)
  BY DEF Source, Current
<1>4. /\ p[1] \in j.dl .. j.dl + j.w - 1 /\ p[2] \in j.dt .. j.dt + j.h - 1
      /\ \/ (IF j.dt > j.sy THEN j.h - 1 - (p[2] - j.dt) ELSE p[2] - j.dt) > j.i
         \/ /\ (IF j.dt > j.sy THEN j.h - 1 - (p[2] - j.dt) ELSE p[2] - j.dt) = j.i
            /\ (IF j.dl > j.sx THEN j.w - 1 - (p[1] - j.dl) ELSE p[1] - j.dl) >= j.k
  BY DEF Pending, InDest, RowTurn, ColTurn
<1>5. j.dt = j.sy
  BY <1>1, <1>2, <1>3, <1>4
<1>6. j.dl = j.sx
  BY <1>1, <1>2, <1>3, <1>4, <1>5
<1>7. /\ p[1] = j.dl + (IF j.dl > j.sx THEN j.w - 1 - j.k ELSE j.k)
      /\ p[2] = j.dt + (IF j.dt > j.sy THEN j.h - 1 - j.i ELSE j.i)
  BY <1>1, <1>2, <1>3, <1>5, <1>6
<1> QED BY <1>2, <1>7 DEF Current

-----------------------------------------------------------------------------
\* The framebuffer begins empty.
LEMMA InitEstablishes == FbInit => IInv
<1> SUFFICES ASSUME FbInit PROVE IInv
  OBVIOUS
<1>1. Screen = {}
  <2>1. fbW = 0 /\ 0 .. fbW - 1 = {}
    BY DEF FbInit
  <2> QED BY <2>1 DEF Screen
<1>2. TypeInv
  BY <1>1, FramebufferAssumption DEF FbInit, TypeInv
<1>3. Progress
  BY <1>1 DEF Progress
<1> QED BY <1>2, <1>3 DEF IInv

\* Between messages nothing is pending.
LEMMA IdleAgrees ==
    ASSUME IInv, job = Idle
    PROVE  fb = want /\ \A p \in Screen : fb[p] = want[p]
<1>1. \A p \in Screen : fb[p] = want[p]
  BY DEF IInv, Progress
<1>2. fb = [p \in Screen |-> fb[p]] /\ want = [p \in Screen |-> want[p]]
  BY DEF IInv, TypeInv
<1> QED BY <1>1, <1>2

\* After a resize the framebuffer and what is wanted are one picture.
LEMMA ResizeKeeps ==
    ASSUME IInv, NEW w \in Widths, NEW h \in Heights, ResizeFb(w, h)
    PROVE  IInv'
<1>1. job = Idle /\ job' = Idle /\ want' = fb' /\ paints' \in 0 .. MaxPaints
  BY FramebufferAssumption DEF ResizeFb, Paint, IInv, TypeInv
<1>2. fbW' \in Nat /\ fbH' \in Nat /\ fb' = [p \in Screen' |-> fb'[p]]
  <2>1. CASE UNCHANGED <<fbW, fbH, fb>>
    BY <2>1 DEF IInv, TypeInv, Screen
  <2>2. CASE /\ fbW' = w /\ fbH' = h
             /\ fb' = [p \in (0 .. w - 1) \X (0 .. h - 1) |-> Black]
    BY <2>2, FramebufferAssumption DEF Screen
  <2> QED BY <2>1, <2>2 DEF ResizeFb
<1>3. TypeInv'
  BY <1>1, <1>2 DEF TypeInv
<1>4. Progress'
  BY <1>1 DEF Progress
<1> QED BY <1>3, <1>4 DEF IInv

\* Both ways of painting a rectangle: value is what each pixel of it becomes.
LEMMA PaintKeeps ==
    ASSUME IInv, NEW r \in Rects, NEW image \in Pictures,
           FillRect(r, image) \/ BlitRaw(r, image)
    PROVE  IInv'
<1>1. /\ job = Idle /\ job' = Idle /\ paints' \in 0 .. MaxPaints
      /\ fbW' = fbW /\ fbH' = fbH /\ fbW \in Nat /\ fbH \in Nat
  BY FramebufferAssumption DEF FillRect, BlitRaw, Paint, IInv, TypeInv
<1>2. Screen' = Screen
  BY <1>1 DEF Screen
<1>3. \A p \in Screen : Inside(p, ClampRect(r)) <=> Inside(p, r)
  BY <1>1, ClampCovers
<1>4. \A p \in Screen : fb[p] = want[p]
  BY <1>1, IdleAgrees
<1>5. fb' = [p \in Screen |-> fb'[p]] /\ want' = [p \in Screen |-> want'[p]]
  <2>1. CASE FillRect(r, image)
    BY <2>1 DEF FillRect
  <2>2. CASE BlitRaw(r, image)
    BY <2>2 DEF BlitRaw
  <2> QED BY <2>1, <2>2
<1>6. \A p \in Screen : fb'[p] = want'[p]
  <2>1. CASE FillRect(r, image)
    BY <2>1, <1>3, <1>4 DEF FillRect
  <2>2. CASE BlitRaw(r, image)
    BY <2>2, <1>3, <1>4 DEF BlitRaw
  <2> QED BY <2>1, <2>2
<1>7. TypeInv'
  BY <1>1, <1>2, <1>5 DEF TypeInv
<1>8. Progress'
  BY <1>1, <1>2, <1>6 DEF Progress
<1> QED BY <1>7, <1>8 DEF IInv

\* COPY_BITS begins: what is wanted is the copy, of which nothing is done yet.
LEMMA CopyStarts ==
    ASSUME IInv, NEW r \in Rects, NEW x \in Lefts, NEW y \in Tops, CopyRect(x, y, r)
    PROVE  IInv'
<1> DEFINE j == Copy(x, y, r)
<1>1. /\ job = Idle /\ paints' \in 0 .. MaxPaints
      /\ fbW' = fbW /\ fbH' = fbH /\ fb' = fb /\ fbW \in Nat /\ fbH \in Nat
  BY FramebufferAssumption DEF CopyRect, Paint, IInv, TypeInv
<1>2. Screen' = Screen
  BY <1>1 DEF Screen
<1>3. \A p \in Screen : fb[p] = want[p]
  BY <1>1, IdleAgrees
<1>4. CASE ~Copies(j)
  <2>1. job' = job /\ want' = want
    BY <1>4 DEF CopyRect
  <2> QED BY <1>1, <1>2, <1>3, <2>1 DEF IInv, TypeInv, Progress
<1>5. CASE Copies(j)
  <2>1. job' = j /\ want' = Moved(want, j)
    BY <1>5 DEF CopyRect
  <2>2. /\ ClampRect(r).left \in 0 .. fbW /\ ClampRect(r).top \in 0 .. fbH
        /\ ClampRect(r).right \in ClampRect(r).left .. fbW
        /\ ClampRect(r).bottom \in ClampRect(r).top .. fbH
        /\ r.left \in Int /\ r.top \in Int /\ x \in Int /\ y \in Int
    BY <1>1, ClampCovers, FramebufferAssumption DEF Rects
  <2>3. j \in Jobs(fbW, fbH) /\ j.i = 0 /\ j.k = 0
    BY <1>1, <1>5, <2>2 DEF Copy, Copies, Jobs
  <2>4. TypeInv'
    BY <1>1, <1>2, <2>1, <2>3 DEF TypeInv, Moved, IInv
  <2>5. ASSUME NEW p \in Screen, InDest(p, j)
        PROVE  Pending(p, j) /\ fb[Source(p, j)] = want'[p]
    <3>1. j.w \in Nat /\ j.h \in Nat /\ j.dl \in Nat /\ j.dt \in Nat
      BY <2>3 DEF Jobs
    <3>2. p[1] \in Int /\ p[2] \in Int
      BY DEF Screen
    <3>3. RowTurn(p, j) >= 0 /\ ColTurn(p, j) >= 0
          /\ RowTurn(p, j) \in Int /\ ColTurn(p, j) \in Int
      BY <2>5, <3>1, <3>2 DEF InDest, RowTurn, ColTurn
    <3>4. Pending(p, j)
      BY <2>3, <2>5, <3>3 DEF Pending
    <3>5. Source(p, j) \in Screen
      BY <1>1, <2>3, <2>5, CopyStaysOnScreen
    <3>6. want'[p] = want[Source(p, j)]
      BY <2>1, <2>5 DEF Moved
    <3> QED BY <1>3, <3>4, <3>5, <3>6
  <2>6. ASSUME NEW p \in Screen, ~InDest(p, j)
        PROVE  ~Pending(p, j) /\ fb[p] = want'[p]
    <3>1. want'[p] = want[p]
      BY <2>1, <2>6 DEF Moved
    <3> QED BY <1>3, <2>6, <3>1 DEF Pending
  <2>7. job' # Idle
    BY <2>1, <2>3, <1>5 DEF Idle, Copies
  <2>8. Progress'
    BY <1>1, <1>2, <2>1, <2>5, <2>6, <2>7 DEF Progress
  <2> QED BY <2>4, <2>8 DEF IInv
<1> QED BY <1>4, <1>5

\* The two turns tell the pixels of the destination apart.
LEMMA TurnsIdentify ==
    ASSUME fbW \in Nat, fbH \in Nat, NEW j \in Jobs(fbW, fbH), NEW p \in Screen,
           InDest(p, j)
    PROVE  /\ RowTurn(p, j) \in 0 .. j.h - 1 /\ ColTurn(p, j) \in 0 .. j.w - 1
           /\ RowTurn(p, j) = j.i /\ ColTurn(p, j) = j.k => p = Current(j)
<1>1. /\ j.dl \in Nat /\ j.dt \in Nat /\ j.w \in Nat /\ j.h \in Nat
      /\ j.sx \in Nat /\ j.sy \in Nat /\ j.i \in Nat /\ j.k \in Nat
  BY DEF Jobs
<1>2. p[1] \in Int /\ p[2] \in Int /\ p = <<p[1], p[2]>>
  BY DEF Screen
<1>3. RowTurn(p, j) \in 0 .. j.h - 1 /\ ColTurn(p, j) \in 0 .. j.w - 1
  BY <1>1, <1>2 DEF InDest, RowTurn, ColTurn
<1>4. ASSUME RowTurn(p, j) = j.i, ColTurn(p, j) = j.k
      PROVE  p = Current(j)
  <2>1. /\ p[1] = j.dl + (IF j.dl > j.sx THEN j.w - 1 - j.k ELSE j.k)
        /\ p[2] = j.dt + (IF j.dt > j.sy THEN j.h - 1 - j.i ELSE j.i)
    BY <1>1, <1>2, <1>4 DEF RowTurn, ColTurn
  <2> QED BY <1>2, <2>1 DEF Current
<1> QED BY <1>3, <1>4

\* A pixel is copied before anything overwrites it.
LEMMA CopyPixelKeeps ==
    ASSUME IInv, CopyPixel
    PROVE  IInv'
<1> DEFINE j == job
           c == Current(job)
<1>1. /\ job \in Jobs(fbW, fbH) /\ job # Idle /\ fbW \in Nat /\ fbH \in Nat
      /\ fbW' = fbW /\ fbH' = fbH /\ want' = want /\ paints' \in 0 .. MaxPaints
  BY DEF CopyPixel, IInv, TypeInv
<1>2. Screen' = Screen
  BY <1>1 DEF Screen
<1>3. /\ j.w \in Nat /\ j.h \in Nat /\ j.i \in Nat /\ j.k \in Nat
      /\ j.i < j.h /\ j.k < j.w
  BY <1>1 DEF Jobs
<1>4. /\ c \in Screen /\ InDest(c, j) /\ RowTurn(c, j) = j.i /\ ColTurn(c, j) = j.k
      /\ \A p \in Screen : InDest(p, j) => Source(p, j) \in Screen
  BY <1>1, CopyStaysOnScreen
<1>5. /\ fb' = [p \in Screen |-> IF p = c THEN fb[Source(c, j)] ELSE fb[p]]
      /\ want = [p \in Screen |-> want[p]]
  BY <1>4 DEF CopyPixel, IInv, TypeInv
<1>6. ASSUME NEW p \in Screen, Pending(p, j)
      PROVE  fb[Source(p, j)] = want[p]
  BY <1>1, <1>6 DEF IInv, Progress
<1>7. ASSUME NEW p \in Screen, ~Pending(p, j)
      PROVE  fb[p] = want[p]
  BY <1>1, <1>7 DEF IInv, Progress
<1>8. Pending(c, j)
  BY <1>3, <1>4 DEF Pending
\* After the step a pixel is pending if it was and is not the one copied.
<1>9. ASSUME NEW p \in Screen
      PROVE  (job' # Idle /\ Pending(p, job')) <=> (Pending(p, j) /\ p # c)
  <2>1. CASE ~InDest(p, j)
    <3>1. ~Pending(p, j)
      BY <2>1 DEF Pending
    <3>2. job' # Idle => ~InDest(p, job')
      BY <1>1, <2>1 DEF CopyPixel, InDest, Jobs
    <3> QED BY <3>1, <3>2 DEF Pending
  <2>2. CASE InDest(p, j)
    <3>1. /\ RowTurn(p, j) \in 0 .. j.h - 1 /\ ColTurn(p, j) \in 0 .. j.w - 1
          /\ (RowTurn(p, j) = j.i /\ ColTurn(p, j) = j.k) <=> p = c
      BY <1>1, <1>4, <2>2, TurnsIdentify
    <3>2. CASE ~LastOfRow
      <4>1. job' = [j EXCEPT !.k = @ + 1] /\ job' # Idle
        BY <1>1, <3>2 DEF CopyPixel, Idle, Jobs
      <4>2. /\ job'.i = j.i /\ job'.k = j.k + 1 /\ InDest(p, job')
            /\ RowTurn(p, job') = RowTurn(p, j) /\ ColTurn(p, job') = ColTurn(p, j)
        BY <1>1, <2>2, <4>1 DEF Jobs, InDest, RowTurn, ColTurn
      <4> QED BY <1>3, <2>2, <3>1, <4>1, <4>2 DEF Pending
    <3>3. CASE LastOfRow /\ ~LastRow
      <4>1. job' = [j EXCEPT !.k = 0, !.i = @ + 1] /\ job' # Idle
        BY <1>1, <3>3 DEF CopyPixel, Idle, Jobs
      <4>2. /\ job'.i = j.i + 1 /\ job'.k = 0 /\ InDest(p, job')
            /\ RowTurn(p, job') = RowTurn(p, j) /\ ColTurn(p, job') = ColTurn(p, j)
        BY <1>1, <2>2, <4>1 DEF Jobs, InDest, RowTurn, ColTurn
      <4> QED BY <1>3, <2>2, <3>1, <3>3, <4>1, <4>2 DEF Pending, LastOfRow
    <3>4. CASE LastOfRow /\ LastRow
      <4>1. job' = Idle
        BY <3>4 DEF CopyPixel
      <4> QED BY <1>3, <2>2, <3>1, <3>4, <4>1 DEF Pending, LastOfRow, LastRow
    <3> QED BY <3>2, <3>3, <3>4
  <2> QED BY <2>1, <2>2
<1>10. job' = Idle \/ (job' \in Jobs(fbW', fbH') /\ \A p \in Screen : Source(p, job') = Source(p, j))
  <2>1. CASE ~LastOfRow
    <3>1. job' = [j EXCEPT !.k = @ + 1]
      BY <2>1 DEF CopyPixel
    <3>2. job' \in Jobs(fbW, fbH)
      BY <1>1, <1>3, <2>1, <3>1 DEF Jobs, LastOfRow
    <3>3. job'.dl = j.dl /\ job'.dt = j.dt /\ job'.sx = j.sx /\ job'.sy = j.sy
      BY <1>1, <3>1 DEF Jobs
    <3> QED BY <1>1, <3>2, <3>3 DEF Source
  <2>2. CASE LastOfRow /\ ~LastRow
    <3>1. job' = [j EXCEPT !.k = 0, !.i = @ + 1]
      BY <2>2 DEF CopyPixel
    <3>2. job' \in Jobs(fbW, fbH)
      <4>1. job' = [dl |-> j.dl, dt |-> j.dt, w |-> j.w, h |-> j.h,
                    sx |-> j.sx, sy |-> j.sy, i |-> j.i + 1, k |-> 0]
        BY <1>1, <3>1 DEF Jobs
      <4>2. j.i + 1 < j.h /\ 0 < j.w
        BY <1>3, <2>2 DEF LastRow
      <4> QED BY <1>1, <4>1, <4>2 DEF Jobs
    <3>3. job'.dl = j.dl /\ job'.dt = j.dt /\ job'.sx = j.sx /\ job'.sy = j.sy
      BY <1>1, <3>1 DEF Jobs
    <3> QED BY <1>1, <3>2, <3>3 DEF Source
  <2>3. CASE LastOfRow /\ LastRow
    BY <2>3 DEF CopyPixel
  <2> QED BY <2>1, <2>2, <2>3
<1>11. TypeInv'
  BY <1>1, <1>2, <1>5, <1>10 DEF TypeInv
<1>12. ASSUME NEW p \in Screen, job' # Idle, Pending(p, job')
       PROVE  fb'[Source(p, job')] = want'[p]
  <2>1. Pending(p, j) /\ p # c
    BY <1>9, <1>12
  <2>2. Source(p, j) \in Screen /\ Source(p, j) # c
    BY <1>1, <1>4, <2>1, SourceIsDone DEF Pending
  <2>3. Source(p, job') = Source(p, j)
    BY <1>10, <1>12
  <2> QED BY <1>1, <1>5, <1>6, <2>1, <2>2, <2>3
<1>13. ASSUME NEW p \in Screen, ~(job' # Idle /\ Pending(p, job'))
       PROVE  fb'[p] = want'[p]
  <2>1. CASE p = c
    BY <1>1, <1>5, <1>6, <1>8, <2>1
  <2>2. CASE p # c
    BY <1>1, <1>5, <1>7, <1>9, <1>13, <2>2
  <2> QED BY <2>1, <2>2
<1>14. Progress'
  BY <1>2, <1>12, <1>13 DEF Progress
<1> QED BY <1>11, <1>14 DEF IInv

-----------------------------------------------------------------------------
\* The invariant is inductive: one lemma per kind of paint message, and one
\* for each turn of the copy loop.
THEOREM FbInvariance == FbSpec => []IInv
<1>1. IInv /\ [FbNext]_fbVars => IInv'
  <2> SUFFICES ASSUME IInv, [FbNext]_fbVars PROVE IInv'
    OBVIOUS
  <2>1. CASE \E w \in Widths, h \in Heights : ResizeFb(w, h)
    BY <2>1, ResizeKeeps
  <2>2. CASE \E r \in Rects, image \in Pictures : FillRect(r, image) \/ BlitRaw(r, image)
    BY <2>2, PaintKeeps
  <2>3. CASE \E r \in Rects, x \in Lefts, y \in Tops : CopyRect(x, y, r)
    BY <2>3, CopyStarts
  <2>4. CASE CopyPixel
    BY <2>4, CopyPixelKeeps
  <2>5. CASE UNCHANGED fbVars
    BY <2>5 DEF fbVars, IInv, TypeInv, Progress, Screen
  <2> QED BY <2>1, <2>2, <2>3, <2>4, <2>5 DEF FbNext
<1> QED BY InitEstablishes, <1>1, PTL DEF FbSpec

\* The framebuffer keeps its size, and every copy stays on the screen.
THEOREM FbTypeCorrect == FbSpec => []FbTypeOK
<1>1. IInv => FbTypeOK
  <2> SUFFICES ASSUME IInv PROVE FbTypeOK
    OBVIOUS
  <2>1. /\ fbW \in Nat /\ fbH \in Nat /\ paints \in 0 .. MaxPaints
        /\ DOMAIN fb = Screen /\ DOMAIN want = Screen
    BY DEF IInv, TypeInv
  <2>2. ASSUME job # Idle
        PROVE  /\ job.i \in 0 .. job.h - 1 /\ job.k \in 0 .. job.w - 1
               /\ Current(job) \in Screen /\ Source(Current(job), job) \in Screen
    <3>1. job \in Jobs(fbW, fbH)
      BY <2>2 DEF IInv, TypeInv
    <3>2. job.i \in 0 .. job.h - 1 /\ job.k \in 0 .. job.w - 1
      BY <3>1 DEF Jobs
    <3> QED BY <2>1, <3>1, <3>2, CopyStaysOnScreen
  <2> QED BY <2>1, <2>2 DEF FbTypeOK
<1> QED BY FbInvariance, <1>1, PTL

\* copy_rect has memmove semantics, for all sizes and overlaps: between
\* messages the framebuffer shows what the operations mean.
THEOREM CopyIsMemmove == FbSpec => []PictureAgrees
<1>1. IInv => PictureAgrees
  BY IdleAgrees DEF PictureAgrees
<1> QED BY FbInvariance, <1>1, PTL

-----------------------------------------------------------------------------
(***************************************************************************)
(* The window, for framebuffers and windows of every size: division keeps  *)
(* order, so that one points between what is shown to the left and to the  *)
(* right; and the codes of the keys fall into four classes, in each of     *)
(* which every key has its own.                                            *)
(***************************************************************************)

\* Rounding down keeps order, and stays below what the divisor is a part of.
LEMMA DivideFacts ==
    ASSUME NEW a \in Nat, NEW b \in Nat \ {0}
    PROVE  /\ a \div b \in Nat
           /\ b * (a \div b) <= a /\ a < b * (a \div b) + b
OBVIOUS

\* A smaller dividend has no larger quotient.
LEMMA QuotientLess ==
    ASSUME NEW a \in Nat, NEW b \in Nat \ {0}, NEW c \in Nat, a < b * c
    PROVE  a \div b < c
<1> DEFINE q == a \div b
<1>1. q \in Nat /\ b * q <= a
  BY DivideFacts
<1> HIDE DEF q
<1>2. b * q < b * c
  BY <1>1
<1> QED BY <1>1, <1>2

\* Scaling keeps the order of positions.
LEMMA DivideKeepsOrder ==
    ASSUME NEW a \in Nat, NEW c \in Nat, a <= c, NEW b \in Nat \ {0}
    PROVE  a \div b <= c \div b
<1> DEFINE q == a \div b
           p == c \div b
<1>1. /\ q \in Nat /\ b * q <= a
      /\ p \in Nat /\ c < b * p + b
  BY DivideFacts
<1> HIDE DEF q, p
<1>2. b * q < b * (p + 1)
  BY <1>1
<1>3. q < p + 1
  BY <1>1, <1>2
<1> QED BY <1>1, <1>3 DEF q, p

\* Twice as much, in parts twice as many.
LEMMA DivideDoubled ==
    ASSUME NEW a \in Nat, NEW b \in Nat \ {0}
    PROVE  (2 * a) \div (2 * b) = a \div b
<1> DEFINE q == a \div b
           p == (2 * a) \div (2 * b)
<1>0. 2 * a \in Nat /\ 2 * b \in Nat \ {0}
  OBVIOUS
<1>1. /\ q \in Nat /\ b * q <= a /\ a < b * q + b
  BY DivideFacts
<1>2. /\ p \in Nat /\ (2 * b) * p <= 2 * a /\ 2 * a < (2 * b) * p + 2 * b
  BY <1>0, DivideFacts
<1> HIDE DEF q, p
<1>3. b * p <= a /\ a < b * p + b
  BY <1>2
<1>4. b * q < b * (p + 1) /\ b * p < b * (q + 1)
  BY <1>1, <1>2, <1>3
<1>5. q < p + 1 /\ p < q + 1
  BY <1>1, <1>2, <1>4
<1> QED BY <1>1, <1>2, <1>5 DEF q, p

(***************************************************************************)
(* ToSurface undoes FromWindow, as far as whole pixels can.                *)
(***************************************************************************)
LEMMA PositionPointsAtIt ==
    ASSUME NEW n \in Nat \ {0}, NEW f \in Nat \ {0}, NEW x2 \in HalfPixels(n)
    PROVE  PointsAt(ToSurface(x2, n, f), x2, n, f)
<1> DEFINE m == x2 \div 2
           e == x2 % 2
           at == ToSurface(x2, n, f)
<1>1. m \in Int /\ e \in {0, 1} /\ x2 = 2 * m + e
  BY DEF HalfPixels
<1> HIDE DEF m, e
<1>2. SUFFICES /\ at \in Int
               /\ ShownAt(m, n, f) \in Int /\ ShownAt(m, n, f) <= at
               /\ ShownAt(m + e, n, f) \in Int /\ at <= ShownAt(m + e, n, f)
  BY DEF PointsAt, m, e
<1>3. CASE x2 < 0
  <2>1. m < 0 /\ (m + e < 0 \/ m + e = 0)
    BY <1>1, <1>3
  <2>2. at = 0
    BY <1>3 DEF ToSurface
  <2>3. ShownAt(m, n, f) = 0
    BY <2>1 DEF ShownAt
  <2>4. ShownAt(m + e, n, f) = 0
    <3>1. CASE m + e < 0
      BY <3>1 DEF ShownAt
    <3>2. CASE m + e = 0
      <4>1. 0 * f = 0 /\ 0 \div n = 0
        <5>1. 0 \div n < 1
          BY QuotientLess
        <5>2. 0 \div n \in Nat
          BY DivideFacts
        <5> QED BY <5>1, <5>2
      <4> QED BY <3>2, <4>1 DEF ShownAt, FromWindow
    <3> QED BY <2>1, <3>1, <3>2
  <2> QED BY <2>2, <2>3, <2>4
<1>4. CASE x2 >= 0
  <2> DEFINE scaled == (x2 * f) \div (2 * n)
  <2>1. m \in Nat /\ x2 \in Nat /\ x2 * f \in Nat /\ m * f \in Nat /\ (m + e) * f \in Nat
        /\ 2 * n \in Nat \ {0} /\ 2 * (m * f) \in Nat /\ 2 * ((m + e) * f) \in Nat
    BY <1>1, <1>4
  <2>2. scaled \in Nat
    BY <2>1, DivideFacts
  <2>3. at = IF scaled > f - 1 THEN f - 1 ELSE scaled
    BY <1>4, <2>1 DEF ToSurface
  <2>4. (m * f) \div n <= scaled
    <3>1. 2 * (m * f) <= x2 * f
      BY <1>1, <2>1
    <3>2. (2 * (m * f)) \div (2 * n) <= scaled
      BY <2>1, <3>1, DivideKeepsOrder
    <3>3. (2 * (m * f)) \div (2 * n) = (m * f) \div n
      BY <2>1, DivideDoubled
    <3> QED BY <3>2, <3>3
  <2>5. scaled <= ((m + e) * f) \div n
    <3>1. x2 * f <= 2 * ((m + e) * f)
      BY <1>1, <2>1
    <3>2. scaled <= (2 * ((m + e) * f)) \div (2 * n)
      BY <2>1, <3>1, DivideKeepsOrder
    <3>3. (2 * ((m + e) * f)) \div (2 * n) = ((m + e) * f) \div n
      BY <2>1, DivideDoubled
    <3> QED BY <3>2, <3>3
  <2>6. /\ (m * f) \div n \in Nat /\ ((m + e) * f) \div n \in Nat
        /\ m < n => (m * f) \div n < f
        /\ m + e < n => ((m + e) * f) \div n < f
    <3>1. (m * f) \div n \in Nat /\ ((m + e) * f) \div n \in Nat
      BY <2>1, DivideFacts
    <3>2. m < n => m * f < n * f
      BY <2>1
    <3>3. m + e < n => (m + e) * f < n * f
      BY <1>1, <2>1
    <3> QED BY <2>1, <3>1, <3>2, <3>3, QuotientLess
  <2> HIDE DEF scaled, at
  <2>7. at \in Nat /\ at <= f - 1 /\ at <= scaled
    BY <2>2, <2>3
  <2>8. ShownAt(m, n, f) \in Int /\ ShownAt(m, n, f) <= at
    <3>1. CASE m >= n
      <4>1. scaled >= f
        <5>1. x2 * f >= (2 * n) * f
          BY <1>1, <2>1, <3>1
        <5>2. ~(scaled < f)
          <6>1. x2 * f < (2 * n) * scaled + 2 * n
            BY <2>1, DivideFacts DEF scaled
          <6>2. (2 * n) * f < (2 * n) * (scaled + 1)
            BY <2>1, <2>2, <5>1, <6>1
          <6>3. f < scaled + 1
            BY <2>1, <2>2, <6>2
          <6> QED BY <2>2, <6>3
        <5> QED BY <2>2, <5>2
      <4>2. ShownAt(m, n, f) = f - 1
        BY <2>1, <3>1 DEF ShownAt
      <4> QED BY <2>2, <2>3, <4>1, <4>2
    <3>2. CASE m < n
      <4>1. ShownAt(m, n, f) = (m * f) \div n
        BY <2>1, <3>2 DEF ShownAt, FromWindow
      <4> QED BY <2>2, <2>3, <2>4, <2>6, <3>2, <4>1
    <3> QED BY <2>1, <3>1, <3>2
  <2>9. ShownAt(m + e, n, f) \in Int /\ at <= ShownAt(m + e, n, f)
    <3>1. CASE m + e >= n
      <4>1. ShownAt(m + e, n, f) = f - 1
        BY <1>1, <2>1, <3>1 DEF ShownAt
      <4> QED BY <2>7, <4>1
    <3>2. CASE m + e < n
      <4>1. ShownAt(m + e, n, f) = ((m + e) * f) \div n
        BY <1>1, <2>1, <3>2 DEF ShownAt, FromWindow
      <4> QED BY <2>2, <2>5, <2>6, <2>7, <4>1
    <3> QED BY <1>1, <2>1, <3>1, <3>2
  <2> QED BY <2>7, <2>8, <2>9
<1> QED
  <2>1. x2 \in Int
    BY DEF HalfPixels
  <2> QED BY <1>3, <1>4, <2>1

\* Where a key is in the tables.
LEMMA PlainKeysAre == DOMAIN PlainKeys = 1 .. 68
BY DEF PlainKeys

\* The codes of extended keys carry the prefix.
LEMMA ExtendedKeysAre ==
    ASSUME NEW key \in DOMAIN ExtendedKeys
    PROVE  \/ key = "ControlRight" /\ ExtendedKeys[key] = 29
           \/ key = "AltRight" /\ ExtendedKeys[key] = 56
           \/ key = "ArrowUp" /\ ExtendedKeys[key] = 72
           \/ key = "ArrowLeft" /\ ExtendedKeys[key] = 75
           \/ key = "ArrowRight" /\ ExtendedKeys[key] = 77
           \/ key = "ArrowDown" /\ ExtendedKeys[key] = 80
           \/ key = "Home" /\ ExtendedKeys[key] = 71
           \/ key = "End" /\ ExtendedKeys[key] = 79
           \/ key = "PageUp" /\ ExtendedKeys[key] = 73
           \/ key = "PageDown" /\ ExtendedKeys[key] = 81
           \/ key = "Insert" /\ ExtendedKeys[key] = 82
           \/ key = "Delete" /\ ExtendedKeys[key] = 83
           \/ key = "SuperLeft" /\ ExtendedKeys[key] = 91
           \/ key = "SuperRight" /\ ExtendedKeys[key] = 92
BY DEF ExtendedKeys

\* Two extended keys have different codes.
LEMMA ExtendedKeysDiffer ==
    ASSUME NEW j \in DOMAIN ExtendedKeys, NEW k \in DOMAIN ExtendedKeys
    PROVE  /\ ExtendedKeys[k] \in 29 .. 92
           /\ ExtendedKeys[j] = ExtendedKeys[k] => j = k
<1>1. ExtendedKeys[k] \in 29 .. 92
  BY ExtendedKeysAre
<1> QED BY <1>1, ExtendedKeysAre

\* The codes of plain keys and of extended keys, down and up, in four ranges.
LEMMA CodesOfKeys ==
    ASSUME NEW key \in KnownKeys
    PROVE  \/ /\ key \notin DOMAIN ExtendedKeys
              /\ Scancode(key) \in 1 .. 68 /\ PlainKeys[Scancode(key)] = key
              /\ Released(Scancode(key)) = Scancode(key) + 128
           \/ /\ key \in DOMAIN ExtendedKeys
              /\ Scancode(key) = 224 * 256 + ExtendedKeys[key]
              /\ Released(Scancode(key)) = Scancode(key) + 128
<1>1. CASE key \in DOMAIN ExtendedKeys
  <2> DEFINE v == ExtendedKeys[key]
  <2>1. v \in 29 .. 92
    BY <1>1, ExtendedKeysDiffer
  <2>2. Scancode(key) = 224 * 256 + v
    BY <1>1 DEF Scancode
  <2> HIDE DEF v
  <2>3. (224 * 256 + v) % 256 = v
    BY <2>1
  <2>4. Released(224 * 256 + v) = 224 * 256 + v + 128
    BY <2>1, <2>3 DEF Released
  <2> QED BY <1>1, <2>2, <2>4 DEF v
<1>2. CASE key \notin DOMAIN ExtendedKeys
  <2>1. PICK i \in DOMAIN PlainKeys : PlainKeys[i] = key
    BY <1>2 DEF KnownKeys
  <2>2. Scancode(key) = CHOOSE n \in DOMAIN PlainKeys : PlainKeys[n] = key
    BY <1>2 DEF Scancode
  <2> DEFINE c == CHOOSE n \in DOMAIN PlainKeys : PlainKeys[n] = key
  <2>3. c \in DOMAIN PlainKeys /\ PlainKeys[c] = key
    BY <2>1
  <2> HIDE DEF c
  <2>4. c \in 1 .. 68
    BY <2>3, PlainKeysAre
  <2>5. c % 256 = c
    BY <2>4
  <2>6. Released(c) = c + 128
    BY <2>4, <2>5 DEF Released
  <2> QED BY <1>2, <2>2, <2>3, <2>4, <2>6 DEF c
<1> QED BY <1>1, <1>2

(***************************************************************************)
(* No two keys have a code in common, and no code is sent both when a key  *)
(* goes down and when one goes up.                                         *)
(***************************************************************************)
LEMMA CodesTellKeys ==
    ASSUME NEW j \in KnownKeys, NEW k \in KnownKeys,
           NEW jUp \in BOOLEAN, NEW kUp \in BOOLEAN,
           CodeOf(j, jUp) = CodeOf(k, kUp)
    PROVE  j = k /\ jUp = kUp
<1>1. CASE j \in DOMAIN ExtendedKeys /\ k \in DOMAIN ExtendedKeys
  <2>1. /\ Scancode(j) = 224 * 256 + ExtendedKeys[j]
        /\ Scancode(k) = 224 * 256 + ExtendedKeys[k]
        /\ Released(Scancode(j)) = Scancode(j) + 128
        /\ Released(Scancode(k)) = Scancode(k) + 128
    BY <1>1, CodesOfKeys
  <2>2. ExtendedKeys[j] \in 29 .. 92 /\ ExtendedKeys[k] \in 29 .. 92
    BY <1>1, ExtendedKeysDiffer
  <2>3. jUp = kUp /\ ExtendedKeys[j] = ExtendedKeys[k]
    BY <2>1, <2>2 DEF CodeOf
  <2> QED BY <1>1, <2>3, ExtendedKeysDiffer
<1>2. CASE j \notin DOMAIN ExtendedKeys /\ k \notin DOMAIN ExtendedKeys
  <2>1. /\ Scancode(j) \in 1 .. 68 /\ PlainKeys[Scancode(j)] = j
        /\ Scancode(k) \in 1 .. 68 /\ PlainKeys[Scancode(k)] = k
        /\ Released(Scancode(j)) = Scancode(j) + 128
        /\ Released(Scancode(k)) = Scancode(k) + 128
    BY <1>2, CodesOfKeys
  <2>2. jUp = kUp /\ Scancode(j) = Scancode(k)
    BY <2>1 DEF CodeOf
  <2> QED BY <2>1, <2>2
<1>3. ASSUME NEW p \in KnownKeys, NEW x \in KnownKeys, NEW pUp \in BOOLEAN, NEW xUp \in BOOLEAN,
             p \notin DOMAIN ExtendedKeys, x \in DOMAIN ExtendedKeys
      PROVE  CodeOf(p, pUp) # CodeOf(x, xUp)
  <2>1. /\ Scancode(p) \in 1 .. 68 /\ Released(Scancode(p)) = Scancode(p) + 128
        /\ Scancode(x) = 224 * 256 + ExtendedKeys[x]
        /\ Released(Scancode(x)) = Scancode(x) + 128
    BY <1>3, CodesOfKeys
  <2>2. ExtendedKeys[x] \in 29 .. 92
    BY <1>3, ExtendedKeysDiffer
  <2> QED BY <2>1, <2>2 DEF CodeOf
<1> QED BY <1>1, <1>2, <1>3

-----------------------------------------------------------------------------
\* The window's own state: the paint queue's messages do not copy here, so that
\* nothing is half painted, and the mask follows the buttons held.
WindowTyped ==
    /\ fbW \in Nat /\ fbH \in Nat /\ job = Idle
    /\ inner \in WindowSizes
    /\ buttons = pressed \cap ButtonNames

WinInv == WindowTyped /\ WindowKeepsUp /\ InputsMeanWhatWasDone

\* The window begins with nothing held.
LEMMA WinInitEstablishes == WinInit => WinInv
<1> SUFFICES ASSUME WinInit PROVE WinInv
  OBVIOUS
<1>1. WindowTyped
  BY DEF WinInit, FbInit, WindowTyped
<1>2. shown = Scaled(inner)
  BY DEF WinInit, FbInit, Scaled
<1>3. InputsMeanWhatWasDone
  BY DEF WinInit, InputsMeanWhatWasDone, NoInput
<1> QED BY <1>1, <1>2, <1>3 DEF WinInv, WindowKeepsUp, UpToDate

\* A step that sends no input only has to keep the window up to date.
LEMMA NoInputMeansNothing == told = NoInput => InputsMeanWhatWasDone
BY DEF NoInput, InputsMeanWhatWasDone

\* What the window should show goes by the framebuffer and the window's size.
LEMMA ScaledStays ==
    ASSUME UNCHANGED <<fbVars, inner>>
    PROVE  Scaled(inner)' = Scaled(inner)
BY DEF fbVars, Scaled

\* A paint, whatever it does, asks for a redraw.
LEMMA PaintKeepsWindow ==
    ASSUME WinInv, NEW w, NEW h, NEW r, NEW image,
           \/ w \in Widths /\ h \in Heights /\ PaintSurface(w, h)
           \/ PaintRegion(BlitRaw(r, image))
    PROVE  WinInv'
<1>1. /\ asked' = TRUE /\ told' = NoInput /\ job' = Idle
      /\ buttons' = buttons /\ pressed' = pressed
  BY DEF PaintSurface, PaintRegion, PaintMessage, ResizeFb, BlitRaw, Paint, WinInv, WindowTyped
<1>2. fbW' \in Nat /\ fbH' \in Nat /\ inner' \in WindowSizes
  <2>1. CASE w \in Widths /\ h \in Heights /\ PaintSurface(w, h)
    <3>1. fbW' \in Nat /\ fbH' \in Nat
      <4>1. ResizeFb(w, h) /\ w \in Nat /\ h \in Nat /\ fbW \in Nat /\ fbH \in Nat
        BY <2>1, FramebufferAssumption DEF PaintSurface, PaintMessage, WinInv, WindowTyped
      <4> QED BY <4>1 DEF ResizeFb
    <3>2. inner' \in WindowSizes
      BY <2>1 DEF PaintSurface, WinInv, WindowTyped
    <3> QED BY <3>1, <3>2
  <2>2. CASE PaintRegion(BlitRaw(r, image))
    BY <2>2 DEF PaintRegion, PaintMessage, BlitRaw, WinInv, WindowTyped
  <2> QED BY <2>1, <2>2
<1>3. WindowTyped'
  BY <1>1, <1>2 DEF WinInv, WindowTyped
<1>4. WindowKeepsUp'
  BY <1>1 DEF WindowKeepsUp
<1>5. InputsMeanWhatWasDone'
  BY <1>1 DEF NoInput, InputsMeanWhatWasDone
<1> QED BY <1>3, <1>4, <1>5 DEF WinInv

\* A change of the window's size, and the redraws that follow.
LEMMA WindowStepKeeps ==
    ASSUME WinInv, WindowResizes \/ Resized \/ Redraw \/ RedrawFails
    PROVE  WinInv'
<1>1. /\ told' = NoInput /\ buttons' = buttons /\ pressed' = pressed
      /\ UNCHANGED fbVars
  BY DEF WindowResizes, Resized, Redraw, RedrawFails
<1>2. inner' \in WindowSizes
  BY DEF WindowResizes, Resized, Redraw, RedrawFails, WinInv, WindowTyped
<1>3. WindowTyped'
  BY <1>1, <1>2 DEF WinInv, WindowTyped, fbVars
<1>4. WindowKeepsUp'
  <2>1. CASE WindowResizes
    BY <2>1 DEF WindowResizes, WindowKeepsUp
  <2>2. CASE Resized
    BY <2>2 DEF Resized, WindowKeepsUp
  <2>3. CASE Redraw
    <3>1. shown' = Scaled(inner) /\ inner' = inner
      BY <2>3 DEF Redraw
    <3>2. Scaled(inner)' = Scaled(inner)
      BY <1>1, <3>1, ScaledStays
    <3> QED BY <3>1, <3>2 DEF WindowKeepsUp, UpToDate
  <2>4. CASE RedrawFails
    BY <2>4 DEF RedrawFails, WindowKeepsUp
  <2> QED BY <2>1, <2>2, <2>3, <2>4
<1>5. InputsMeanWhatWasDone'
  BY <1>1 DEF NoInput, InputsMeanWhatWasDone
<1> QED BY <1>3, <1>4, <1>5 DEF WinInv

\* Inputs change nothing the window shows.
LEMMA InputKeepsPicture ==
    ASSUME WinInv, NEW event, NEW message, Tells(event, message)
    PROVE  /\ WindowKeepsUp' /\ fbW' = fbW /\ fbH' = fbH /\ inner' = inner
           /\ fbW' \in Nat /\ fbH' \in Nat /\ job' = Idle /\ inner' \in WindowSizes
<1>1. UNCHANGED <<fbVars, inner, resized, asked, shown, failed>>
  BY DEF Tells
<1>2. Scaled(inner)' = Scaled(inner)
  BY <1>1, ScaledStays
<1>3. WindowKeepsUp'
  BY <1>1, <1>2 DEF WinInv, WindowKeepsUp, UpToDate, fbVars
<1> QED BY <1>1, <1>3 DEF WinInv, WindowTyped, fbVars

\* A pointer event says where the pointer is on the guest's screen.
LEMMA PointerMeans ==
    ASSUME WinInv, NEW x2 \in HalfPixels(inner[1]), NEW y2 \in HalfPixels(inner[2]),
           CursorMoved(x2, y2)
    PROVE  WinInv'
<1> DEFINE x == ToSurface(x2, inner[1], fbW)
           y == ToSurface(y2, inner[2], fbH)
           message == [kind |-> "position", x |-> x, y |-> y, buttons |-> buttons]
<1>1. /\ Tells(<<x2, y2>>, message) /\ UNCHANGED <<buttons, pressed>>
      /\ fbW # 0 /\ fbH # 0 /\ inner[1] # 0 /\ inner[2] # 0
  BY DEF CursorMoved
<1>2. told' = [kind |-> message.kind, event |-> <<x2, y2>>, input |-> message]
  BY <1>1 DEF Tells
<1>3. /\ WindowKeepsUp' /\ fbW' = fbW /\ fbH' = fbH /\ inner' = inner
      /\ fbW' \in Nat /\ fbH' \in Nat /\ job' = Idle /\ inner' \in WindowSizes
  BY <1>1, InputKeepsPicture
<1>4. inner[1] \in Nat /\ inner[2] \in Nat
  BY <1>3, WindowAssumption
<1>5. PointsAt(x, x2, inner[1], fbW) /\ PointsAt(y, y2, inner[2], fbH)
  BY <1>1, <1>3, <1>4, PositionPointsAtIt
<1> HIDE DEF x, y
<1>6. /\ told'.kind = "position" /\ told'.input.buttons = buttons
      /\ told'.input.x = x /\ told'.input.y = y
      /\ told'.event[1] = x2 /\ told'.event[2] = y2
  BY <1>2
<1>7. buttons' = pressed' \cap ButtonNames /\ buttons' = buttons
  BY <1>1 DEF WinInv, WindowTyped
<1>8. InputsMeanWhatWasDone'
  <2>1. /\ PointsAt(told'.input.x, told'.event[1], inner'[1], fbW')
        /\ PointsAt(told'.input.y, told'.event[2], inner'[2], fbH')
    BY <1>3, <1>5, <1>6
  <2> QED BY <1>6, <1>7, <2>1 DEF InputsMeanWhatWasDone
<1>9. WindowTyped'
  BY <1>3, <1>7 DEF WindowTyped
<1> QED BY <1>3, <1>8, <1>9 DEF WinInv

\* A button event leaves the window and its messages agreed on what is held.
LEMMA ButtonMeans ==
    ASSUME WinInv, NEW b, MousePressed(b) \/ MouseReleased(b)
    PROVE  WinInv'
<1>1. buttons' = pressed' \cap ButtonNames
  <2>1. CASE MousePressed(b)
    BY <2>1 DEF MousePressed, WinInv, WindowTyped
  <2>2. CASE MouseReleased(b)
    BY <2>2 DEF MouseReleased, WinInv, WindowTyped
  <2> QED BY <2>1, <2>2
<1>2. \/ \E kind \in {"press", "release"} :
             Tells(b, [kind |-> kind, button |-> b, buttons |-> buttons'])
      \/ Tells(b, NoInput)
  BY DEF MousePressed, MouseReleased
<1>3. /\ WindowKeepsUp' /\ fbW' \in Nat /\ fbH' \in Nat /\ job' = Idle
      /\ inner' \in WindowSizes
  BY <1>2, InputKeepsPicture
<1>4. \/ told'.kind = "none"
      \/ told'.kind \in {"press", "release"} /\ told'.input.buttons = buttons'
  BY <1>2 DEF Tells, NoInput
<1>5. InputsMeanWhatWasDone'
  BY <1>1, <1>4 DEF InputsMeanWhatWasDone
<1>6. WindowTyped'
  BY <1>1, <1>3 DEF WindowTyped
<1> QED BY <1>3, <1>5, <1>6 DEF WinInv

\* A key event says which key, and which way.
LEMMA KeyMeans ==
    ASSUME WinInv, NEW key, KeyPressed(key) \/ KeyReleased(key)
    PROVE  WinInv'
<1>1. buttons' = pressed' \cap ButtonNames
  BY DEF KeyPressed, KeyReleased, WinInv, WindowTyped
<1>2. \/ Tells(key, NoInput)
      \/ /\ key \in KnownKeys
         /\ \E up \in BOOLEAN :
              Tells(key, [kind |-> IF up THEN "up" ELSE "down", code |-> CodeOf(key, up)])
  <2>1. CASE KeyPressed(key)
    <3>1. CASE key \in KnownKeys
      BY <2>1, <3>1 DEF KeyPressed, CodeOf
    <3>2. CASE key \notin KnownKeys
      BY <2>1, <3>2 DEF KeyPressed
    <3> QED BY <3>1, <3>2
  <2>2. CASE KeyReleased(key)
    <3>1. CASE key \in KnownKeys
      BY <2>2, <3>1 DEF KeyReleased, CodeOf
    <3>2. CASE key \notin KnownKeys
      BY <2>2, <3>2 DEF KeyReleased
    <3> QED BY <3>1, <3>2
  <2> QED BY <2>1, <2>2
<1>3. /\ WindowKeepsUp' /\ fbW' \in Nat /\ fbH' \in Nat /\ job' = Idle
      /\ inner' \in WindowSizes
  BY <1>2, InputKeepsPicture
<1>4. WindowTyped'
  BY <1>1, <1>3 DEF WindowTyped
<1>5. InputsMeanWhatWasDone'
  <2>1. CASE Tells(key, NoInput)
    <3>1. told'.kind = "none"
      BY <2>1 DEF Tells, NoInput
    <3> QED BY <3>1 DEF InputsMeanWhatWasDone
  <2>2. ASSUME NEW up \in BOOLEAN, key \in KnownKeys,
               Tells(key, [kind |-> IF up THEN "up" ELSE "down", code |-> CodeOf(key, up)])
        PROVE  InputsMeanWhatWasDone'
    <3>1. /\ told'.kind = (IF up THEN "up" ELSE "down") /\ told'.event = key
          /\ told'.input.code = CodeOf(key, up)
      BY <2>2 DEF Tells
    <3>2. told'.kind \in {"up", "down"} /\ (told'.kind = "up") = up
      BY <3>1
    <3>3. \A move \in KnownKeys \X BOOLEAN :
             told'.input.code = CodeOf(move[1], move[2]) <=> move = <<key, up>>
      <4> SUFFICES ASSUME NEW move \in KnownKeys \X BOOLEAN
                   PROVE  CodeOf(key, up) = CodeOf(move[1], move[2]) <=> move = <<key, up>>
        BY <3>1
      <4>1. move[1] \in KnownKeys /\ move[2] \in BOOLEAN /\ move = <<move[1], move[2]>>
        OBVIOUS
      <4>2. CodeOf(key, up) = CodeOf(move[1], move[2]) => key = move[1] /\ up = move[2]
        BY <2>2, <4>1, CodesTellKeys
      <4> QED BY <4>1, <4>2
    <3>4. {move \in KnownKeys \X BOOLEAN : told'.input.code = CodeOf(move[1], move[2])}
            = {<<told'.event, told'.kind = "up">>}
      <4>1. <<key, up>> \in KnownKeys \X BOOLEAN
        BY <2>2
      <4> QED BY <3>1, <3>2, <3>3, <4>1
    <3> QED BY <3>2, <3>4 DEF InputsMeanWhatWasDone
  <2> QED BY <1>2, <2>1, <2>2
<1> QED BY <1>3, <1>4, <1>5 DEF WinInv

(***************************************************************************)
(* The window shows the framebuffer as it is, unless a redraw is still to  *)
(* come or has failed; and every position, button and key handed on means  *)
(* what the user did: for framebuffers and windows of every size.          *)
(***************************************************************************)
THEOREM WindowIsTrue == WinSpec => []WindowTellsTrue
<1>1. WinInv /\ [WinNext]_<<fbVars, winVars>> => WinInv'
  <2> SUFFICES ASSUME WinInv, [WinNext]_<<fbVars, winVars>> PROVE WinInv'
    OBVIOUS
  <2>1. CASE \E w \in Widths, h \in Heights : PaintSurface(w, h)
    BY <2>1, PaintKeepsWindow
  <2>2. CASE \E r \in Views, image \in Pictures : PaintRegion(BlitRaw(r, image))
    BY <2>2, PaintKeepsWindow
  <2>3. CASE WindowResizes \/ Resized \/ Redraw \/ RedrawFails
    BY <2>3, WindowStepKeeps
  <2>4. CASE \E x2 \in HalfPixels(inner[1]), y2 \in HalfPixels(inner[2]) : CursorMoved(x2, y2)
    BY <2>4, PointerMeans
  <2>5. CASE \E b \in Buttons : MousePressed(b) \/ MouseReleased(b)
    BY <2>5, ButtonMeans
  <2>6. CASE KeyNext
    BY <2>6, KeyMeans DEF KeyNext
  <2>7. CASE UNCHANGED <<fbVars, winVars>>
    <3>1. Scaled(inner)' = Scaled(inner)
      BY <2>7, ScaledStays DEF winVars
    <3>2. WindowKeepsUp'
      BY <2>7, <3>1 DEF WinInv, WindowKeepsUp, UpToDate, winVars, fbVars
    <3>3. InputsMeanWhatWasDone'
      BY <2>7 DEF WinInv, InputsMeanWhatWasDone, winVars, fbVars
    <3>4. WindowTyped'
      BY <2>7 DEF WinInv, WindowTyped, winVars, fbVars
    <3> QED BY <3>2, <3>3, <3>4 DEF WinInv
  <2> QED BY <2>1, <2>2, <2>3, <2>4, <2>5, <2>6, <2>7 DEF WinNext, WindowNext
<1>2. WinInv => WindowTellsTrue
  BY DEF WinInv, WindowTellsTrue
<1> QED BY WinInitEstablishes, <1>1, <1>2, PTL DEF WinSpec
=============================================================================
