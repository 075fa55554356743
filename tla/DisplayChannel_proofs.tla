------------------------ MODULE DisplayChannel_proofs -----------------------
(***************************************************************************)
(* Surfaces and streams through the display task, for any number of them,  *)
(* any sockets and any mailbox: what is in flight is always exactly what   *)
(* separates one view from the next.                                       *)
(*                                                                         *)
(* SettledViewsAgree speaks of the rare state where nothing is in flight.  *)
(* The inductive invariant says of every state that the messages in down,  *)
(* applied one after the other, lead from the task's tables to the         *)
(* server's, and that the events in the mailbox, followed by those the     *)
(* task has still to post, lead from the embedder's view to the task's     *)
(* tables; each frame and region fits the view at its place in the queue.  *)
(* "One after the other" is a path of views, one per place in the queue,   *)
(* that exists: it needs no recursion.                                     *)
(***************************************************************************)
EXTENDS DisplayChannel, SequenceTheorems, TLAPS

-----------------------------------------------------------------------------
Tables(Ids, Values) == UNION {[D -> Values] : D \in SUBSET Ids}

View(s, t) == [surfaces |-> s, streams |-> t]
Views == [surfaces : Tables(SurfaceIds, Formats), streams : Tables(StreamIds, StreamInfo)]

\* What the task posts: messages passed on, frames, regions, unhandled draws.
Posted ==
    {m \in Messages : m.ok}
    \cup Message({"frame"}, StreamIds, Dests \cup {Sized}, {TRUE})
    \cup Message({"region"}, SurfaceIds, Formats \cup {Unknown}, {TRUE})
    \cup Message({"unhandled"}, SurfaceIds, {NoId}, {TRUE})

\* The view after a message or an event; a body that does not decode says nothing.
After(v, m) ==
    IF m.ok THEN View(SurfacesAfter(v.surfaces, m), StreamsAfter(v.streams, m)) ELSE v

\* A frame or a region is right for somebody who has the view v.
FrameFits(v, e) ==
    e.op = "frame" =>
        /\ e.id \in DOMAIN v.streams
        /\ v.streams[e.id].codec = "mjpeg"
        /\ e.arg \in {Sized, v.streams[e.id].dest}
RegionFits(v, e) ==
    e.op = "region" =>
        IF e.id \in DOMAIN v.surfaces THEN e.arg = v.surfaces[e.id] ELSE e.arg = Unknown
Fits(v, e) == FrameFits(v, e) /\ RegionFits(v, e)

\* The queue q leads from view u to view w, along the views of path.
Path(path, u, q, w) ==
    /\ path \in [0 .. Len(q) -> Views]
    /\ path[0] = u /\ path[Len(q)] = w
    /\ \A i \in 1 .. Len(q) :
          path[i] = After(path[i - 1], q[i]) /\ Fits(path[i - 1], q[i])
Leads(u, q, w) == \E path : Path(path, u, q, w)

ServerView == View(srvSurfaces, srvStreams)
TaskView == View(surfaces, streams)
EmbedderView == View(embSurfaces, embStreams)

\* v is the view the events posted so far amount to.
PostedSoFar(v) ==
    /\ pc = "read" => v = TaskView
    /\ pc = "post" => After(v, out) = TaskView /\ Fits(v, out)
    /\ pc = "drain" => v.surfaces = surfaces /\ streams = Empty /\ DOMAIN v.streams = ids

Typed ==
    /\ ServerView \in Views /\ TaskView \in Views /\ EmbedderView \in Views
    /\ down \in Seq(Messages) /\ Len(down) <= DownCap
    /\ mailbox \in Seq(Posted) /\ Len(mailbox) <= EventCap
    /\ out \in Posted /\ ids \subseteq StreamIds /\ rx \in BOOLEAN
    /\ pc \in {"read", "post", "drain", "exit"}
    /\ pc \in {"read", "post"} => ids = {}

DownInv == pc # "exit" => Leads(TaskView, down, ServerView)
MailboxInv == rx => \E v \in Views : Leads(EmbedderView, mailbox, v) /\ PostedSoFar(v)

(***************************************************************************)
(* The inductive invariant.                                                *)
(***************************************************************************)
IInv == Typed /\ DownInv /\ MailboxInv

-----------------------------------------------------------------------------
(***************************************************************************)
(* Views and messages.                                                     *)
(***************************************************************************)

\* A table is a function on some of the ids, and no two have nothing in them.
LEMMA TableFacts ==
    ASSUME NEW Ids, NEW Values, NEW f
    PROVE  f \in Tables(Ids, Values) <=>
             /\ DOMAIN f \subseteq Ids
             /\ f = [i \in DOMAIN f |-> f[i]]
             /\ \A i \in DOMAIN f : f[i] \in Values
  BY DEF Tables

\* The empty table.
LEMMA EmptyFacts ==
    ASSUME NEW Ids, NEW Values
    PROVE  /\ Empty \in Tables(Ids, Values)
           /\ \A f \in Tables(Ids, Values) : DOMAIN f = {} <=> f = Empty
  <1>1. Empty = [i \in {} |-> Empty[i]] /\ DOMAIN Empty = {}
    BY DEF Empty
  <1>2. Empty \in Tables(Ids, Values)
    BY <1>1, TableFacts
  <1>3. ASSUME NEW f \in Tables(Ids, Values), DOMAIN f = {} PROVE f = Empty
    BY <1>1, <1>3, TableFacts
  <1> QED BY <1>1, <1>2, <1>3

\* Entering and removing one id.
LEMMA PutFacts ==
    ASSUME NEW Ids, NEW Values, NEW f \in Tables(Ids, Values), NEW id
    PROVE  /\ \A x \in Values : id \in Ids => Put(f, id, x) \in Tables(Ids, Values)
           /\ Without(f, id) \in Tables(Ids, Values)
           /\ DOMAIN Without(f, id) = DOMAIN f \ {id}
  <1>1. ASSUME NEW x \in Values, id \in Ids PROVE Put(f, id, x) \in Tables(Ids, Values)
    BY <1>1, TableFacts DEF Put
  <1>2. Without(f, id) \in Tables(Ids, Values)
    BY TableFacts DEF Without, Restrict
  <1>3. DOMAIN Without(f, id) = DOMAIN f \ {id}
    BY DEF Without, Restrict
  <1> QED BY <1>1, <1>2, <1>3

\* What a message or an event may carry.
LEMMA MessageFacts ==
    ASSUME NEW m \in Messages \cup Posted
    PROVE  /\ m.ok \in BOOLEAN
           /\ m \in Posted => m.ok
           /\ m.op = "surface_create" => m.id \in SurfaceIds /\ m.arg \in Formats
           /\ m.op = "stream_create" => m.id \in StreamIds /\ m.arg \in StreamInfo
  BY DEF Posted, Messages, Message

\* The messages of the server hold no frames and no regions.
LEMMA ServerMessageFacts ==
    ASSUME NEW m \in Messages
    PROVE  /\ m.ok => m \in Posted
           /\ m.op \notin {"frame", "region"}
           /\ m.op \in {"stream_data", "stream_data_sized"} => m.id \in StreamIds
           /\ m.op = "draw" => m.id \in SurfaceIds
           /\ m.op \in {"mark", "reset", "stream_destroy_all"} => m.ok
  BY DEF Posted, Messages, Message

\* A view has two tables, and they are all of it.
LEMMA ViewFacts ==
    /\ \A v \in Views : v = View(v.surfaces, v.streams)
    /\ \A v \in Views : v.surfaces \in Tables(SurfaceIds, Formats)
                        /\ v.streams \in Tables(StreamIds, StreamInfo)
    /\ \A s \in Tables(SurfaceIds, Formats), t \in Tables(StreamIds, StreamInfo) :
          View(s, t) \in Views
    /\ \A s, t : View(s, t).surfaces = s /\ View(s, t).streams = t
  BY DEF Views, View

\* Applying a message or an event to a table makes a table, to a view a view.
LEMMA AfterType ==
    ASSUME NEW m \in Messages \cup Posted
    PROVE  /\ \A s \in Tables(SurfaceIds, Formats) :
                 SurfacesAfter(s, m) \in Tables(SurfaceIds, Formats)
           /\ \A t \in Tables(StreamIds, StreamInfo) :
                 StreamsAfter(t, m) \in Tables(StreamIds, StreamInfo)
           /\ \A v \in Views : After(v, m) \in Views
  <1>1. ASSUME NEW s \in Tables(SurfaceIds, Formats)
        PROVE  SurfacesAfter(s, m) \in Tables(SurfaceIds, Formats)
    BY MessageFacts, PutFacts, EmptyFacts DEF SurfacesAfter
  <1>2. ASSUME NEW t \in Tables(StreamIds, StreamInfo)
        PROVE  StreamsAfter(t, m) \in Tables(StreamIds, StreamInfo)
    BY MessageFacts, PutFacts, EmptyFacts DEF StreamsAfter
  <1>3. ASSUME NEW v \in Views PROVE After(v, m) \in Views
    BY <1>1, <1>2, ViewFacts DEF After
  <1> QED BY <1>1, <1>2, <1>3

-----------------------------------------------------------------------------
(***************************************************************************)
(* Queues of messages and events: the views they lead through.             *)
(***************************************************************************)

\* A message or event that is sent is last, the others keep their places.
LEMMA AppendFacts ==
    ASSUME NEW S, NEW q \in Seq(S), NEW e \in S
    PROVE  /\ Append(q, e) \in Seq(S)
           /\ Len(q) \in Nat
           /\ Len(Append(q, e)) = Len(q) + 1
           /\ Append(q, e)[Len(q) + 1] = e
           /\ \A i \in 1 .. Len(q) : Append(q, e)[i] = q[i]
  BY LenProperties

\* One that is taken is the first, and the others shift by one.
LEMMA TailFacts ==
    ASSUME NEW S, NEW q \in Seq(S), q # <<>>
    PROVE  /\ Len(q) \in Nat /\ Len(q) >= 1
           /\ Head(q) = q[1] /\ Head(q) \in S
           /\ Tail(q) \in Seq(S)
           /\ Len(Tail(q)) = Len(q) - 1
           /\ \A i \in 1 .. Len(q) - 1 : Tail(q)[i] = q[i + 1]
  <1>1. Len(q) \in Nat \ {0}
    BY EmptySeq
  <1>2. /\ Head(q) \in S /\ Tail(q) \in Seq(S)
        /\ Len(Tail(q)) = Len(q) - 1
        /\ \A i \in 1 .. Len(Tail(q)) : Tail(q)[i] = q[i + 1]
    BY HeadTailProperties
  <1>3. Head(q) = q[1]
    BY <1>1
  <1> QED BY <1>1, <1>2, <1>3

\* An empty queue changes nothing.
LEMMA LeadsEmpty ==
    ASSUME NEW u \in Views
    PROVE  /\ Leads(u, <<>>, u)
           /\ \A w : Leads(u, <<>>, w) => w = u
  <1>1. Len(<<>>) = 0
    BY EmptySeq
  <1>2. Path([i \in 0 .. 0 |-> u], u, <<>>, u)
    BY <1>1 DEF Path
  <1>3. ASSUME NEW w, Leads(u, <<>>, w) PROVE w = u
    BY <1>1, <1>3 DEF Leads, Path
  <1> QED BY <1>2, <1>3 DEF Leads

\* What is appended acts on the view the queue led to.
LEMMA LeadsAppend ==
    ASSUME NEW S, NEW q \in Seq(S), NEW m \in S, NEW u, NEW v, NEW w \in Views,
           Leads(u, q, v), After(v, m) = w, Fits(v, m)
    PROVE  Leads(u, Append(q, m), w)
  <1>1. PICK path : Path(path, u, q, v)
    BY DEF Leads
  <1> DEFINE n == Len(q)
             longer == [i \in 0 .. n + 1 |-> IF i = n + 1 THEN w ELSE path[i]]
  <1>2. /\ n \in Nat /\ Len(Append(q, m)) = n + 1
        /\ Append(q, m)[n + 1] = m
        /\ \A i \in 1 .. n : Append(q, m)[i] = q[i]
    BY AppendFacts
  <1>3. /\ path \in [0 .. n -> Views] /\ path[0] = u /\ path[n] = v
        /\ \A i \in 1 .. n : path[i] = After(path[i - 1], q[i]) /\ Fits(path[i - 1], q[i])
    BY <1>1 DEF Path
  <1> HIDE DEF n
  <1>4. longer \in [0 .. n + 1 -> Views] /\ longer[0] = u /\ longer[n + 1] = w
    BY <1>2, <1>3
  <1>5. ASSUME NEW i \in 1 .. n + 1
        PROVE  /\ longer[i] = After(longer[i - 1], Append(q, m)[i])
               /\ Fits(longer[i - 1], Append(q, m)[i])
    <2>1. CASE i = n + 1
      <3>1. longer[i] = w /\ longer[i - 1] = v
        BY <1>2, <1>3, <2>1
      <3> QED BY <1>2, <2>1, <3>1
    <2>2. CASE i # n + 1
      <3>1. i \in 1 .. n /\ longer[i] = path[i] /\ longer[i - 1] = path[i - 1]
        BY <1>2, <2>2
      <3> QED BY <1>2, <1>3, <3>1
    <2> QED BY <2>1, <2>2
  <1>6. Path(longer, u, Append(q, m), w)
    BY <1>2, <1>4, <1>5 DEF Path
  <1> QED BY <1>6 DEF Leads

\* The head of the queue fits the first view, and the rest leads on.
LEMMA LeadsTail ==
    ASSUME NEW S, NEW q \in Seq(S), q # <<>>, NEW u, NEW w, Leads(u, q, w)
    PROVE  /\ Fits(u, Head(q))
           /\ Leads(After(u, Head(q)), Tail(q), w)
           /\ After(u, Head(q)) \in Views
  <1>1. PICK path : Path(path, u, q, w)
    BY DEF Leads
  <1> DEFINE n == Len(q)
             rest == [i \in 0 .. n - 1 |-> path[i + 1]]
  <1>2. /\ n \in Nat /\ n >= 1 /\ Head(q) = q[1] /\ Len(Tail(q)) = n - 1
        /\ \A i \in 1 .. n - 1 : Tail(q)[i] = q[i + 1]
    BY TailFacts
  <1>3. /\ path \in [0 .. n -> Views] /\ path[0] = u /\ path[n] = w
        /\ \A i \in 1 .. n : path[i] = After(path[i - 1], q[i]) /\ Fits(path[i - 1], q[i])
    BY <1>1 DEF Path
  <1> HIDE DEF n
  <1>4. path[1] = After(u, Head(q)) /\ Fits(u, Head(q)) /\ path[1] \in Views
    BY <1>2, <1>3
  <1>5. rest \in [0 .. n - 1 -> Views] /\ rest[0] = path[1] /\ rest[n - 1] = w
    BY <1>2, <1>3
  <1>6. ASSUME NEW i \in 1 .. n - 1
        PROVE  /\ rest[i] = After(rest[i - 1], Tail(q)[i])
               /\ Fits(rest[i - 1], Tail(q)[i])
    <2>1. i + 1 \in 1 .. n /\ rest[i] = path[i + 1] /\ rest[i - 1] = path[(i + 1) - 1]
      BY <1>2
    <2> QED BY <1>2, <1>3, <2>1
  <1>7. Path(rest, path[1], Tail(q), w)
    BY <1>2, <1>5, <1>6 DEF Path
  <1> QED BY <1>4, <1>7 DEF Leads

-----------------------------------------------------------------------------
(***************************************************************************)
(* The inductive steps.                                                    *)
(***************************************************************************)

\* Only creates, destroys and resets change a view.
LEMMA SilentAfter ==
    ASSUME NEW v \in Views, NEW m,
           m.op \notin {"surface_create", "surface_destroy", "reset",
                        "stream_create", "stream_destroy", "stream_destroy_all"}
    PROVE  After(v, m) = v
  BY ViewFacts DEF After, SurfacesAfter, StreamsAfter

\* The task's view after a message is what the handler leaves in its tables.
LEMMA TaskFollows ==
    ASSUME Typed, Handle
    PROVE  /\ TaskView' = After(TaskView, Head(down))
           /\ down # <<>> /\ down' = Tail(down)
           /\ UNCHANGED <<ServerView, EmbedderView, mailbox, rx>>
  <1> USE DEF Got, Consume, serverVars, embedderVars, ServerView, EmbedderView
  <1> DEFINE m == Head(down)
  <1>1. TaskView \in Views
    BY DEF Typed
  <1>2. CASE StrictDecodeFails
    BY <1>2 DEF StrictDecodeFails, After, TaskView
  <1>3. CASE LenientDecodeFails
    BY <1>3 DEF LenientDecodeFails, After, TaskView
  <1>4. CASE HandleSurface
    <2>1. StreamsAfter(streams, m) = streams
      BY <1>4 DEF HandleSurface, StreamsAfter
    <2> QED BY <1>4, <2>1, ViewFacts DEF HandleSurface, After, TaskView
  <1>5. CASE HandleDraw
    BY <1>1, <1>5, SilentAfter DEF HandleDraw, TaskView
  <1>6. CASE HandleStream
    <2>1. SurfacesAfter(surfaces, m) = surfaces
      BY <1>6 DEF HandleStream, SurfacesAfter
    <2> QED BY <1>6, <2>1, ViewFacts DEF HandleStream, After, TaskView
  <1>7. CASE HandleStreamData
    BY <1>1, <1>7, SilentAfter DEF HandleStreamData, TaskView
  <1>8. CASE HandleStreamDestroyAll
    <2>1. down # <<>> /\ m.op = "stream_destroy_all" /\ m \in Messages
      BY <1>8, TailFacts DEF HandleStreamDestroyAll, Typed
    <2>2. m.ok
      BY <2>1, ServerMessageFacts
    <2>3. SurfacesAfter(surfaces, m) = surfaces /\ StreamsAfter(streams, m) = Empty
      BY <2>1 DEF SurfacesAfter, StreamsAfter
    <2> QED BY <1>8, <2>2, <2>3, ViewFacts DEF HandleStreamDestroyAll, After, TaskView
  <1> QED BY <1>2, <1>3, <1>4, <1>5, <1>6, <1>7, <1>8 DEF Handle

\* What a handler posts, and where it goes on.
LEMMA HandlerPosts ==
    ASSUME Typed, Handle
    PROVE  /\ pc = "read"
           /\ \/ /\ pc' = "post" /\ ids' = {} /\ out' \in Posted
                 /\ After(TaskView, out') = TaskView' /\ Fits(TaskView, out')
              \/ /\ pc' = "drain" /\ ids' = DOMAIN streams
                 /\ surfaces' = surfaces /\ streams' = Empty /\ out' = out
              \/ /\ pc' \in {"read", "exit"} /\ ids' = ids /\ out' = out
                 /\ UNCHANGED <<surfaces, streams>>
  <1> USE DEF Got, Posting, Going
  <1> DEFINE m == Head(down)
  <1>1. /\ TaskView \in Views /\ TaskView' = After(TaskView, m)
        /\ down # <<>> /\ m \in Messages
    BY TaskFollows, TailFacts, ServerMessageFacts DEF Typed
  <1>2. CASE StrictDecodeFails
    BY <1>2 DEF StrictDecodeFails
  <1>3. CASE LenientDecodeFails
    BY <1>3 DEF LenientDecodeFails
  <1>4. CASE HandleSurface
    BY <1>1, <1>4, ServerMessageFacts DEF HandleSurface, Fits, FrameFits, RegionFits
  <1>5. CASE HandleDraw
    <2>1. pc = "read" /\ m.op = "draw" /\ pc' = "post" /\ ids' = {}
          /\ out' = (IF m.ok THEN Region(m) ELSE Event("unhandled", m.id, NoId))
          /\ UNCHANGED <<surfaces, streams>>
      BY <1>5 DEF HandleDraw
    <2>2. m.id \in SurfaceIds
      BY <1>1, <2>1, ServerMessageFacts
    <2>3. surfaces \in Tables(SurfaceIds, Formats)
      BY <1>1, ViewFacts DEF TaskView
    <2>4. Region(m) \in Posted /\ Event("unhandled", m.id, NoId) \in Posted
      BY <2>2, <2>3, TableFacts DEF Region, Event, Posted, Message
    <2>5. out'.op \in {"region", "unhandled"}
      BY <2>1 DEF Region, Event
    <2>6. After(TaskView, out') = TaskView /\ TaskView' = TaskView
      BY <1>1, <2>1, <2>5, SilentAfter DEF TaskView
    <2>7. Fits(TaskView, out')
      BY <2>1, ViewFacts DEF Fits, FrameFits, RegionFits, Region, Event, TaskView
    <2> QED BY <2>1, <2>4, <2>6, <2>7
  <1>6. CASE HandleStream
    BY <1>1, <1>6, ServerMessageFacts DEF HandleStream, Fits, FrameFits, RegionFits
  <1>7. CASE HandleStreamData
    <2>1. pc = "read" /\ m.op \in {"stream_data", "stream_data_sized"}
          /\ UNCHANGED <<surfaces, streams>>
      BY <1>7 DEF HandleStreamData
    <2>2. CASE ~ShowsFrame(m)
      BY <1>7, <2>1, <2>2 DEF HandleStreamData
    <2>3. CASE ShowsFrame(m)
      <3>1. pc' = "post" /\ ids' = {} /\ out' = Frame(m)
        BY <1>7, <2>3 DEF HandleStreamData
      <3>2. m.id \in StreamIds
        BY <1>1, <2>1, ServerMessageFacts
      <3>3. m.id \in DOMAIN streams /\ streams[m.id].codec = "mjpeg"
        BY <2>3 DEF ShowsFrame
      <3>4. streams[m.id].dest \in Dests
        <4>1. streams \in Tables(StreamIds, StreamInfo)
          BY <1>1, ViewFacts DEF TaskView
        <4>2. streams[m.id] \in StreamInfo
          BY <3>3, <4>1, TableFacts
        <4> QED BY <4>2 DEF StreamInfo
      <3>5. Frame(m) \in Posted
        BY <3>2, <3>4 DEF Frame, Event, Posted, Message
      <3>6. After(TaskView, out') = TaskView /\ TaskView' = TaskView
        BY <1>1, <2>1, <3>1, SilentAfter DEF Frame, Event, TaskView
      <3>7. Fits(TaskView, out')
        BY <3>1, <3>3, ViewFacts DEF Fits, FrameFits, RegionFits, Frame, Event, TaskView
      <3> QED BY <2>1, <3>1, <3>5, <3>6, <3>7
    <2> QED BY <2>2, <2>3
  <1>8. CASE HandleStreamDestroyAll
    BY <1>8 DEF HandleStreamDestroyAll
  <1> QED BY <1>2, <1>3, <1>4, <1>5, <1>6, <1>7, <1>8 DEF Handle

\* Every variable keeps its type, and no queue overflows.
LEMMA TypeStep == Typed /\ [Next]_vars => Typed'
  <1> SUFFICES ASSUME Typed, [Next]_vars PROVE Typed'
    OBVIOUS
  <1> USE ChannelAssumption DEF Typed
  <1>1. CASE Handle
    <2>1. /\ down # <<>> /\ down' = Tail(down)
          /\ TaskView' = After(TaskView, Head(down))
          /\ UNCHANGED <<ServerView, EmbedderView, mailbox, rx>>
      BY <1>1, TaskFollows
    <2>2. /\ down' \in Seq(Messages) /\ Len(down') <= DownCap
          /\ Head(down) \in Messages
      BY <2>1, TailFacts
    <2>3. TaskView' \in Views
      BY <2>1, <2>2, AfterType
    <2>4. DOMAIN streams \subseteq StreamIds
      BY ViewFacts, TableFacts DEF TaskView
    <2>5. /\ out' \in Posted /\ ids' \subseteq StreamIds
          /\ pc' \in {"read", "post", "drain", "exit"}
          /\ pc' \in {"read", "post"} => ids' = {}
      BY <1>1, <2>4, HandlerPosts
    <2> QED BY <2>1, <2>2, <2>3, <2>5
  <1>2. CASE Post
    <2>1. mailbox' \in Seq(Posted) /\ Len(mailbox') <= EventCap
      BY <1>2, AppendFacts DEF Post, Send
    <2> QED BY <1>2, <2>1 DEF Post, embedderVars, serverVars, ServerView, TaskView, EmbedderView
  <1>3. CASE Drain
    <2>1. PICK id \in ids : Send(Event("stream_destroy", id, NoId)) /\ ids' = ids \ {id}
      BY <1>3 DEF Drain
    <2>2. Event("stream_destroy", id, NoId) \in Posted
      BY <2>1 DEF Event, Posted, Messages, Message
    <2>3. mailbox' \in Seq(Posted) /\ Len(mailbox') <= EventCap
      BY <2>1, <2>2, AppendFacts DEF Send
    <2> QED BY <1>3, <2>1, <2>3
            DEF Drain, embedderVars, serverVars, ServerView, TaskView, EmbedderView
  <1>4. CASE DrainEnds
    BY <1>4 DEF DrainEnds, embedderVars, serverVars, ServerView, TaskView, EmbedderView
  <1>5. CASE ServerSends
    <2>1. PICK m \in Messages :
            /\ down' = Append(down, m) /\ Len(down) < DownCap
            /\ srvSurfaces' = IF m.ok THEN SurfacesAfter(srvSurfaces, m) ELSE srvSurfaces
            /\ srvStreams' = IF m.ok THEN StreamsAfter(srvStreams, m) ELSE srvStreams
      BY <1>5 DEF ServerSends
    <2>2. ServerView' = After(ServerView, m)
      BY <2>1, ViewFacts DEF ServerView, After
    <2>3. ServerView' \in Views
      BY <2>2, AfterType
    <2>4. down' \in Seq(Messages) /\ Len(down') <= DownCap
      BY <2>1, AppendFacts
    <2> QED BY <1>5, <2>3, <2>4 DEF ServerSends, embedderVars, TaskView, EmbedderView
  <1>6. CASE EmbedderRecv
    <2>1. /\ mailbox # <<>> /\ mailbox' = Tail(mailbox)
          /\ UNCHANGED <<serverVars, down, pc, surfaces, streams, out, ids, rx>>
      BY <1>6 DEF EmbedderRecv
    <2>2. /\ mailbox' \in Seq(Posted) /\ Len(mailbox') <= EventCap
          /\ Head(mailbox) \in Posted
      BY <2>1, TailFacts
    <2>3. /\ embSurfaces' = SurfacesAfter(embSurfaces, Head(mailbox))
          /\ embStreams' = StreamsAfter(embStreams, Head(mailbox))
      BY <1>6 DEF EmbedderRecv
    <2>4. EmbedderView' \in Views
      BY <2>2, <2>3, AfterType, ViewFacts DEF EmbedderView
    <2> QED BY <2>1, <2>2, <2>4 DEF serverVars, ServerView, TaskView
  <1>7. CASE OtherTaskPosts
    <2>1. Nothing \in Posted
      BY DEF Nothing, Event, Posted, Messages, Message
    <2>2. mailbox' \in Seq(Posted) /\ Len(mailbox') <= EventCap
      BY <1>7, <2>1, AppendFacts DEF OtherTaskPosts
    <2> QED BY <1>7, <2>2
            DEF OtherTaskPosts, embedderVars, serverVars, ServerView, TaskView, EmbedderView
  <1>8. CASE DropClient \/ Abort
    BY <1>8 DEF DropClient, Abort, embedderVars, serverVars, ServerView, TaskView, EmbedderView
  <1>9. CASE UNCHANGED vars
    BY <1>9 DEF vars, embedderVars, serverVars, ServerView, TaskView, EmbedderView
  <1> QED BY <1>1, <1>2, <1>3, <1>4, <1>5, <1>6, <1>7, <1>8, <1>9 DEF Next

\* The messages on their way still lead from the task's view to the server's:
\* a handler undoes the first of them, the server adds one at the end.
LEMMA DownStep == Typed /\ DownInv /\ [Next]_vars => DownInv'
  <1> SUFFICES ASSUME Typed, DownInv, [Next]_vars, pc' # "exit"
               PROVE  Leads(TaskView', down', ServerView')
    BY DEF DownInv
  <1> USE DEF serverVars, embedderVars, ServerView, TaskView
  <1>1. CASE Handle
    <2>1. Leads(TaskView, down, ServerView)
      BY <1>1, HandlerPosts DEF DownInv
    <2>2. /\ down # <<>> /\ down' = Tail(down) /\ ServerView' = ServerView
          /\ TaskView' = After(TaskView, Head(down))
      BY <1>1, TaskFollows
    <2>3. Leads(After(TaskView, Head(down)), Tail(down), ServerView)
      BY <2>1, <2>2, LeadsTail DEF Typed
    <2> HIDE DEF ServerView, TaskView
    <2> QED BY <2>2, <2>3
  <1>2. CASE ServerSends
    <2>1. PICK m \in Messages :
            /\ down' = Append(down, m)
            /\ srvSurfaces' = IF m.ok THEN SurfacesAfter(srvSurfaces, m) ELSE srvSurfaces
            /\ srvStreams' = IF m.ok THEN StreamsAfter(srvStreams, m) ELSE srvStreams
      BY <1>2 DEF ServerSends
    <2>2. ServerView' = After(ServerView, m)
      BY <2>1, ViewFacts DEF After
    <2>3. Fits(ServerView, m)
      BY ServerMessageFacts DEF Fits, FrameFits, RegionFits
    <2>4. Leads(TaskView, down, ServerView) /\ TaskView' = TaskView
      BY <1>2 DEF ServerSends, DownInv
    <2>5. ServerView' \in Views
      BY TypeStep DEF Typed
    <2> HIDE DEF ServerView, TaskView
    <2>6. Leads(TaskView, Append(down, m), ServerView')
      BY <2>2, <2>3, <2>4, <2>5, LeadsAppend DEF Typed
    <2> QED BY <2>1, <2>4, <2>6
  <1>3. CASE Post \/ Drain \/ DrainEnds \/ EmbedderRecv \/ OtherTaskPosts \/ DropClient \/ Abort
    BY <1>3 DEF Post, Drain, DrainEnds, EmbedderRecv, OtherTaskPosts, DropClient, Abort, DownInv
  <1>4. CASE UNCHANGED vars
    BY <1>4 DEF vars, DownInv
  <1> QED BY <1>1, <1>2, <1>3, <1>4 DEF Next

\* The events in the mailbox, and those still to post, lead from the embedder's
\* view to the task's: a handler goes one message on and owes its event, a post
\* pays, and the embedder follows.
LEMMA MailboxStep == Typed /\ MailboxInv /\ [Next]_vars => MailboxInv'
  <1> SUFFICES ASSUME Typed, MailboxInv, [Next]_vars, rx'
               PROVE  \E v \in Views : Leads(EmbedderView', mailbox', v) /\ PostedSoFar(v)'
    BY DEF MailboxInv
  <1>1. rx
    BY DEF Next, vars, embedderVars, Handle, Consume, StrictDecodeFails, LenientDecodeFails,
           HandleSurface, HandleDraw, HandleStream, HandleStreamData,
           HandleStreamDestroyAll, Post, Drain, DrainEnds, ServerSends, EmbedderRecv,
           OtherTaskPosts, DropClient, Abort
  <1>2. PICK v \in Views : Leads(EmbedderView, mailbox, v) /\ PostedSoFar(v)
    BY <1>1 DEF MailboxInv
  <1>3. Typed'
    BY TypeStep
  <1>4. CASE Handle
    <2>1. v = TaskView
      BY <1>2, <1>4, HandlerPosts DEF PostedSoFar
    <2>2. Leads(EmbedderView', mailbox', v)
      BY <1>2, <1>4, TaskFollows
    <2>3. PostedSoFar(v)'
      BY <1>4, <2>1, HandlerPosts, ViewFacts DEF PostedSoFar, TaskView
    <2> QED BY <2>2, <2>3
  <1>5. CASE Post
    <2>1. /\ pc = "post" /\ pc' = "read" /\ mailbox' = Append(mailbox, out)
          /\ EmbedderView' = EmbedderView /\ TaskView' = TaskView
      BY <1>1, <1>5 DEF Post, Send, embedderVars, EmbedderView, TaskView
    <2>2. Leads(EmbedderView, Append(mailbox, out), TaskView)
      BY <1>2, <2>1, LeadsAppend DEF PostedSoFar, Typed
    <2>3. PostedSoFar(TaskView)'
      BY <2>1 DEF PostedSoFar
    <2>4. TaskView \in Views
      BY DEF Typed
    <2> QED BY <2>1, <2>2, <2>3, <2>4
  <1>6. CASE Drain
    <2>1. PICK id \in ids : Send(Event("stream_destroy", id, NoId)) /\ ids' = ids \ {id}
      BY <1>6 DEF Drain
    <2> DEFINE e == Event("stream_destroy", id, NoId)
               w == View(v.surfaces, Without(v.streams, id))
    <2>2. /\ pc = "drain" /\ pc' = "drain" /\ mailbox' = Append(mailbox, e)
          /\ UNCHANGED <<EmbedderView, surfaces, streams>>
      BY <1>1, <1>6, <2>1 DEF Drain, Send, embedderVars, EmbedderView
    <2>3. e \in Posted
      BY <2>1 DEF Event, Posted, Messages, Message, Typed
    <2>4. After(v, e) = w /\ Fits(v, e)
      BY DEF After, Event, SurfacesAfter, StreamsAfter, Fits, FrameFits, RegionFits
    <2>5. w \in Views
      BY ViewFacts, PutFacts
    <2>6. Leads(EmbedderView, Append(mailbox, e), w)
      BY <1>2, <2>3, <2>4, <2>5, LeadsAppend DEF Typed
    <2>7. w.surfaces = v.surfaces /\ DOMAIN w.streams = DOMAIN v.streams \ {id}
      <3>1. DOMAIN Without(v.streams, id) = DOMAIN v.streams \ {id}
        BY DEF Without, Restrict
      <3>2. w.surfaces = v.surfaces /\ w.streams = Without(v.streams, id)
        BY ViewFacts
      <3> QED BY <3>1, <3>2
    <2> HIDE DEF e, w
    <2>8. PostedSoFar(w)'
      BY <1>2, <2>1, <2>2, <2>7 DEF PostedSoFar
    <2> QED BY <2>2, <2>5, <2>6, <2>8
  <1>7. CASE DrainEnds
    <2>1. /\ pc = "drain" /\ ids = {} /\ pc' = "read"
          /\ UNCHANGED <<EmbedderView, mailbox, surfaces, streams>>
      BY <1>1, <1>7 DEF DrainEnds, embedderVars, EmbedderView
    <2>2. v.streams = Empty
      <3>1. DOMAIN v.streams = {} /\ v.streams \in Tables(StreamIds, StreamInfo)
        BY <1>2, <2>1, ViewFacts DEF PostedSoFar
      <3>2. \A f \in Tables(StreamIds, StreamInfo) : DOMAIN f = {} <=> f = Empty
        BY EmptyFacts
      <3> QED BY <3>1, <3>2, Zenon
    <2>3. v = TaskView
      BY <1>2, <2>1, <2>2, ViewFacts DEF PostedSoFar, TaskView
    <2>4. PostedSoFar(v)'
      BY <2>1, <2>3 DEF PostedSoFar, TaskView
    <2> QED BY <1>2, <2>1, <2>4
  <1>8. CASE EmbedderRecv
    <2>1. /\ mailbox # <<>> /\ mailbox' = Tail(mailbox)
          /\ embSurfaces' = SurfacesAfter(embSurfaces, Head(mailbox))
          /\ embStreams' = StreamsAfter(embStreams, Head(mailbox))
          /\ UNCHANGED <<pc, surfaces, streams, out, ids>>
      BY <1>8 DEF EmbedderRecv
    <2>2. Head(mailbox).ok
      <3>1. Head(mailbox) \in Posted
        BY <2>1, TailFacts DEF Typed
      <3> QED BY <3>1, MessageFacts
    <2>3. EmbedderView' = After(EmbedderView, Head(mailbox))
      BY <2>1, <2>2, ViewFacts DEF EmbedderView, After
    <2>4. Leads(EmbedderView', mailbox', v)
      BY <1>2, <2>1, <2>3, LeadsTail DEF Typed
    <2>5. PostedSoFar(v)'
      BY <1>2, <2>1 DEF PostedSoFar, TaskView
    <2> QED BY <2>4, <2>5
  <1>9. CASE OtherTaskPosts
    <2>1. /\ mailbox' = Append(mailbox, Nothing)
          /\ UNCHANGED <<EmbedderView, pc, surfaces, streams, out, ids>>
      BY <1>9 DEF OtherTaskPosts, embedderVars, EmbedderView
    <2>2. After(v, Nothing) = v /\ Fits(v, Nothing)
      BY SilentAfter DEF Nothing, Event, Fits, FrameFits, RegionFits
    <2>3. Nothing \in Posted
      BY DEF Nothing, Event, Posted, Messages, Message
    <2>4. Leads(EmbedderView, Append(mailbox, Nothing), v)
      BY <1>2, <2>2, <2>3, LeadsAppend DEF Typed
    <2>5. PostedSoFar(v)'
      BY <1>2, <2>1 DEF PostedSoFar, TaskView
    <2> QED BY <2>1, <2>4, <2>5
  <1>10. CASE ServerSends \/ UNCHANGED vars
    <2>1. UNCHANGED <<EmbedderView, mailbox, pc, surfaces, streams, out, ids>>
      BY <1>10 DEF ServerSends, vars, embedderVars, EmbedderView
    <2>2. PostedSoFar(v)'
      BY <1>2, <2>1 DEF PostedSoFar, TaskView
    <2> QED BY <1>2, <2>1, <2>2
  <1>11. ~DropClient /\ ~Abort
    BY <1>1 DEF DropClient, Abort
  <1> QED BY <1>4, <1>5, <1>6, <1>7, <1>8, <1>9, <1>10, <1>11 DEF Next

-----------------------------------------------------------------------------
(***************************************************************************)
(* The theorems.                                                           *)
(***************************************************************************)

\* The inductive invariant holds at all times.
THEOREM Invariance == Spec => []IInv
  <1>1. Init => IInv
    <2> SUFFICES ASSUME Init PROVE IInv
      OBVIOUS
    <2> DEFINE none == View(Empty, Empty)
    <2>1. ServerView = none /\ TaskView = none /\ EmbedderView = none
      BY DEF Init, ServerView, TaskView, EmbedderView
    <2>2. none \in Views
      BY EmptyFacts, ViewFacts
    <2>3. Nothing \in Posted
      BY DEF Nothing, Event, Posted, Messages, Message
    <2>4. Typed
      BY <2>1, <2>2, <2>3, EmptySeq, ChannelAssumption DEF Init, Typed
    <2>5. Leads(none, <<>>, none)
      BY <2>2, LeadsEmpty
    <2>6. DownInv
      BY <2>1, <2>5 DEF Init, DownInv
    <2>7. MailboxInv
      BY <2>1, <2>2, <2>5 DEF Init, MailboxInv, PostedSoFar
    <2> QED BY <2>4, <2>6, <2>7 DEF IInv
  <1>2. IInv /\ [Next]_vars => IInv'
    BY TypeStep, DownStep, MailboxStep DEF IInv
  <1> QED BY <1>1, <1>2, PTL DEF Spec

\* The task's tables, the socket and the mailbox keep their types and bounds.
THEOREM TypeCorrect == Spec => []TypeOK
  <1>1. IInv => TypeOK
    <2> SUFFICES ASSUME Typed PROVE TypeOK
      BY DEF IInv
    <2>1. surfaces \in Tables(SurfaceIds, Formats) /\ streams \in Tables(StreamIds, StreamInfo)
      BY ViewFacts DEF Typed, TaskView
    <2>2. DOMAIN surfaces \subseteq SurfaceIds /\ Range(surfaces) \subseteq Formats
      BY <2>1, TableFacts DEF Range
    <2>3. DOMAIN streams \subseteq StreamIds /\ Range(streams) \subseteq StreamInfo
      BY <2>1, TableFacts DEF Range
    <2> QED BY <2>2, <2>3 DEF Typed, TypeOK
  <1> QED BY <1>1, Invariance, PTL

\* Once nothing is in flight, the embedder sees exactly the surfaces and the
\* streams the server has announced.
THEOREM ViewsAgree == Spec => []SettledViewsAgree
  <1>1. IInv => SettledViewsAgree
    <2> SUFFICES ASSUME IInv, Settled
                 PROVE  embSurfaces = srvSurfaces /\ embStreams = srvStreams
      BY DEF SettledViewsAgree
    <2>1. Leads(TaskView, <<>>, ServerView) /\ TaskView \in Views
      BY DEF IInv, DownInv, Typed, Settled
    <2>2. Leads(EmbedderView, <<>>, TaskView) /\ EmbedderView \in Views
      BY DEF IInv, MailboxInv, PostedSoFar, Typed, Settled
    <2>3. EmbedderView = ServerView
      BY <2>1, <2>2, LeadsEmpty
    <2> QED BY <2>3, ViewFacts DEF EmbedderView, ServerView
  <1> QED BY <1>1, Invariance, PTL

\* A frame the embedder takes belongs to a stream it knows, which plays MJPEG,
\* and is placed where that stream plays or where the frame itself says.
THEOREM FramesBelong == Spec => []FramesBelongToAStream
  <1>1. IInv => FramesBelongToAStream
    <2> SUFFICES ASSUME IInv, rx, mailbox # <<>>
                 PROVE  FrameFits(EmbedderView, Head(mailbox))
      BY ViewFacts DEF FramesBelongToAStream, FrameFits, EmbedderView
    <2> QED BY LeadsTail DEF IInv, MailboxInv, Typed, Fits
  <1> QED BY <1>1, Invariance, PTL

\* A region the embedder takes has the format of the surface it knows by that
\* id, and Unknown only where it knows of none.
THEOREM RegionsMatch == Spec => []RegionsMatchTheirSurface
  <1>1. IInv => RegionsMatchTheirSurface
    <2> SUFFICES ASSUME IInv, rx, mailbox # <<>>
                 PROVE  RegionFits(EmbedderView, Head(mailbox))
      BY ViewFacts DEF RegionsMatchTheirSurface, RegionFits, EmbedderView
    <2> QED BY LeadsTail DEF IInv, MailboxInv, Typed, Fits
  <1> QED BY <1>1, Invariance, PTL
=============================================================================
