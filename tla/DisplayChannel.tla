--------------------------- MODULE DisplayChannel ---------------------------
(***************************************************************************)
(* Surfaces and video streams through the display task                     *)
(* (capsaicin-client/src/display.rs: run, handle, emit_stream_frame,       *)
(* decode_draw_fill): the server's view of them, the task's tables, and    *)
(* the view the embedder builds from the events in its mailbox.            *)
(*                                                                         *)
(* Flow control is in DisplayFlow, the decoding of DRAW_COPY in            *)
(* DisplayImages.  The task's tables are touched by nobody else, so an     *)
(* await point matters only where an event waits for room in the mailbox.  *)
(***************************************************************************)
EXTENDS Integers, Sequences, Functions

CONSTANTS
    SurfaceIds, Formats,    \* surfaces and their pixel formats
    StreamIds, Dests,       \* streams and where on the surface they play
    Unknown, Sized,         \* SurfaceFormat::Unknown(0); the dest of a sized frame
    DownCap, EventCap       \* socket buffer; SpiceClientBuilder::event_capacity

ASSUME ChannelAssumption ==
    /\ DownCap \in Nat \ {0} /\ EventCap \in Nat \ {0}
    /\ Unknown \notin Formats /\ Sized \notin Dests

VARIABLES
    srvSurfaces, srvStreams,    \* server: what it has announced (decodably)
    down,                       \* messages on their way
    pc,                         \* "read", "post", "drain" or "exit"
    surfaces, streams,          \* DisplayState::surfaces, ::streams
    out,                        \* the event being posted
    ids,                        \* STREAM_DESTROY_ALL: streams still to report
    mailbox, rx,                \* the event channel, and its receiving end
    embSurfaces, embStreams     \* embedder: what the events amount to

serverVars == <<srvSurfaces, srvStreams>>
embedderVars == <<rx, embSurfaces, embStreams>>
vars == <<serverVars, down, pc, surfaces, streams, out, ids, mailbox, embedderVars>>

Empty == <<>>
Put(f, id, x) == [i \in DOMAIN f \cup {id} |-> IF i = id THEN x ELSE f[i]]
Without(f, id) == Restrict(f, DOMAIN f \ {id})

\* Messages and events share one shape.  ok: the body decodes.
Event(op, id, arg) == [op |-> op, id |-> id, arg |-> arg, ok |-> TRUE]
NoId == 0
Nothing == Event("mark", NoId, NoId)

StreamInfo == [codec : {"mjpeg", "other"}, dest : Dests]

\* ops with the ids they name, their argument and whether the body decodes.
Message(ops, someIds, args, oks) == [op : ops, id : someIds, arg : args, ok : oks]

Messages ==
    Message({"surface_create"}, SurfaceIds, Formats, BOOLEAN)
    \cup Message({"surface_destroy", "draw", "copy_bits"}, SurfaceIds, {NoId}, BOOLEAN)
    \cup Message({"stream_create"}, StreamIds, StreamInfo, BOOLEAN)
    \cup Message({"stream_data", "stream_data_sized", "stream_destroy"},
                 StreamIds, {NoId}, BOOLEAN)
    \cup Message({"mode"}, {NoId}, {NoId}, BOOLEAN)
    \cup Message({"mark", "reset", "stream_destroy_all"}, {NoId}, {NoId}, {TRUE})

Init ==
    /\ srvSurfaces = Empty /\ srvStreams = Empty
    /\ down = <<>>
    /\ pc = "read" /\ surfaces = Empty /\ streams = Empty
    /\ out = Nothing /\ ids = {}
    /\ mailbox = <<>> /\ rx = TRUE
    /\ embSurfaces = Empty /\ embStreams = Empty

-----------------------------------------------------------------------------
\* What a create, destroy or reset does to a table of surfaces or of streams.
SurfacesAfter(f, m) ==
    CASE m.op = "surface_create"  -> Put(f, m.id, m.arg)
      [] m.op = "surface_destroy" -> Without(f, m.id)
      [] m.op = "reset"           -> Empty
      [] OTHER                    -> f

StreamsAfter(f, m) ==
    CASE m.op = "stream_create"      -> Put(f, m.id, m.arg)
      [] m.op = "stream_destroy"     -> Without(f, m.id)
      [] m.op = "stream_destroy_all" -> Empty
      [] OTHER                       -> f

\* The server (external) sends any message, also about surfaces and streams
\* it does not have.
ServerSends ==
    /\ Len(down) < DownCap
    /\ \E m \in Messages :
         /\ down' = Append(down, m)
         /\ srvSurfaces' = IF m.ok THEN SurfacesAfter(srvSurfaces, m) ELSE srvSurfaces
         /\ srvStreams' = IF m.ok THEN StreamsAfter(srvStreams, m) ELSE srvStreams
    /\ UNCHANGED <<pc, surfaces, streams, out, ids, mailbox, embedderVars>>

-----------------------------------------------------------------------------
\* The events posted for the messages that are passed on with ok bodies.
Region(m) ==
    Event("region", m.id, IF m.id \in DOMAIN surfaces THEN surfaces[m.id] ELSE Unknown)
Frame(m) ==
    Event("frame", m.id, IF m.op = "stream_data_sized" THEN Sized ELSE streams[m.id].dest)

\* emit_stream_frame: a known stream, a codec the client decodes, a good frame.
ShowsFrame(m) == m.ok /\ m.id \in DOMAIN streams /\ streams[m.id].codec = "mjpeg"

Got(ops) == pc = "read" /\ down # <<>> /\ Head(down).op \in ops
Consume == down' = Tail(down) /\ UNCHANGED <<serverVars, mailbox, embedderVars>>
Posting(e) == pc' = "post" /\ out' = e /\ ids' = {}
Going == pc' = (IF rx THEN "read" ELSE "exit") /\ UNCHANGED <<out, ids>>

\* MODE, SURFACE_CREATE, SURFACE_DESTROY: a body that does not decode ends the
\* task.
StrictDecodeFails ==
    /\ Got({"mode", "surface_create", "surface_destroy"}) /\ ~Head(down).ok
    /\ Consume /\ pc' = "exit"
    /\ UNCHANGED <<surfaces, streams, out, ids>>

\* COPY_BITS and the stream messages: it is skipped.
LenientDecodeFails ==
    /\ Got({"copy_bits", "stream_create", "stream_data", "stream_data_sized",
            "stream_destroy"})
    /\ ~Head(down).ok
    /\ Consume /\ Going
    /\ UNCHANGED <<surfaces, streams>>

\* Mutated form: RESET is passed on, the table of surfaces is kept.
HandleSurfaceKeepsOnReset ==
    /\ Got({"mode", "mark", "reset", "surface_create", "surface_destroy", "copy_bits"})
    /\ Head(down).ok
    /\ surfaces' = IF Head(down).op = "reset"
                     THEN surfaces ELSE SurfacesAfter(surfaces, Head(down))
    /\ Consume /\ Posting(Head(down))
    /\ UNCHANGED streams

\* The table is changed first, the message then passed on as an event.
HandleSurface ==
    /\ Got({"mode", "mark", "reset", "surface_create", "surface_destroy", "copy_bits"})
    /\ Head(down).ok
    /\ surfaces' = SurfacesAfter(surfaces, Head(down))
    /\ Consume /\ Posting(Head(down))
    /\ UNCHANGED streams

\* DRAW_FILL and DRAW_COPY always post: a Region, or an UnhandledDraw.
HandleDraw ==
    /\ Got({"draw"})
    /\ Consume
    /\ Posting(IF Head(down).ok THEN Region(Head(down))
                                ELSE Event("unhandled", Head(down).id, NoId))
    /\ UNCHANGED <<surfaces, streams>>

\* Mutated form: a stream stays in the table when it is destroyed.
HandleStreamKeepsDestroyed ==
    /\ Got({"stream_create", "stream_destroy"}) /\ Head(down).ok
    /\ streams' = IF Head(down).op = "stream_create"
                    THEN StreamsAfter(streams, Head(down)) ELSE streams
    /\ Consume /\ Posting(Head(down))
    /\ UNCHANGED surfaces

HandleStream ==
    /\ Got({"stream_create", "stream_destroy"}) /\ Head(down).ok
    /\ streams' = StreamsAfter(streams, Head(down))
    /\ Consume /\ Posting(Head(down))
    /\ UNCHANGED surfaces

HandleStreamData ==
    /\ Got({"stream_data", "stream_data_sized"}) /\ Head(down).ok
    /\ Consume
    /\ IF ShowsFrame(Head(down)) THEN Posting(Frame(Head(down))) ELSE Going
    /\ UNCHANGED <<surfaces, streams>>

\* Mutated form: the table is cleared and nobody is told.
HandleStreamDestroyAllSilent ==
    /\ Got({"stream_destroy_all"})
    /\ streams' = Empty
    /\ Consume /\ Going
    /\ UNCHANGED surfaces

\* The table is cleared first; its streams are then reported one by one.
HandleStreamDestroyAll ==
    /\ Got({"stream_destroy_all"})
    /\ ids' = DOMAIN streams /\ streams' = Empty
    /\ pc' = "drain"
    /\ Consume /\ UNCHANGED <<surfaces, out>>

\* events_tx.send(e).await: waits for room, ignores a closed mailbox.
Send(e) ==
    /\ rx => Len(mailbox) < EventCap
    /\ mailbox' = IF rx THEN Append(mailbox, e) ELSE mailbox

Post ==
    /\ pc = "post" /\ Send(out)
    /\ pc' = IF rx THEN "read" ELSE "exit"
    /\ UNCHANGED <<serverVars, down, surfaces, streams, out, ids, embedderVars>>

\* HashMap order: any stream next.
Drain ==
    /\ pc = "drain"
    /\ \E id \in ids : Send(Event("stream_destroy", id, NoId)) /\ ids' = ids \ {id}
    /\ UNCHANGED <<serverVars, down, pc, surfaces, streams, out, embedderVars>>

DrainEnds ==
    /\ pc = "drain" /\ ids = {}
    /\ pc' = IF rx THEN "read" ELSE "exit"
    /\ UNCHANGED <<serverVars, down, surfaces, streams, out, ids, mailbox, embedderVars>>

Handle ==
    \/ StrictDecodeFails \/ LenientDecodeFails \/ HandleSurface \/ HandleDraw
    \/ HandleStream \/ HandleStreamData \/ HandleStreamDestroyAll

-----------------------------------------------------------------------------
\* The embedder (external) takes an event and updates its view.
EmbedderRecv ==
    /\ rx /\ mailbox # <<>>
    /\ mailbox' = Tail(mailbox)
    /\ embSurfaces' = SurfacesAfter(embSurfaces, Head(mailbox))
    /\ embStreams' = StreamsAfter(embStreams, Head(mailbox))
    /\ UNCHANGED <<serverVars, down, pc, surfaces, streams, out, ids, rx>>

\* The other tasks post to the same mailbox.
OtherTaskPosts ==
    /\ rx /\ Len(mailbox) < EventCap
    /\ mailbox' = Append(mailbox, Nothing)
    /\ UNCHANGED <<serverVars, down, pc, surfaces, streams, out, ids, embedderVars>>

\* Dropping the SpiceClient: the mailbox closes, the task is aborted at its
\* next await.
DropClient ==
    /\ rx /\ rx' = FALSE
    /\ UNCHANGED <<serverVars, down, pc, surfaces, streams, out, ids, mailbox,
                   embSurfaces, embStreams>>

Abort ==
    /\ ~rx /\ pc # "exit" /\ pc' = "exit"
    /\ UNCHANGED <<serverVars, down, surfaces, streams, out, ids, mailbox, embedderVars>>

Next ==
    \/ Handle \/ Post \/ Drain \/ DrainEnds
    \/ ServerSends \/ EmbedderRecv \/ OtherTaskPosts \/ DropClient \/ Abort

Spec == Init /\ [][Next]_vars

\* Strong fairness for the posts: a waiting sender of a tokio mpsc is served
\* in turn.
FairSpec ==
    /\ Spec
    /\ WF_vars(Handle) /\ WF_vars(DrainEnds) /\ WF_vars(EmbedderRecv)
    /\ SF_vars(Post) /\ SF_vars(Drain)

-----------------------------------------------------------------------------
TypeOK ==
    /\ DOMAIN surfaces \subseteq SurfaceIds /\ Range(surfaces) \subseteq Formats
    /\ DOMAIN streams \subseteq StreamIds
    /\ Range(streams) \subseteq StreamInfo
    /\ Len(down) <= DownCap /\ Len(mailbox) <= EventCap
    /\ pc \in {"read", "post", "drain", "exit"} /\ ids \subseteq StreamIds
    /\ pc \in {"read", "post"} => ids = {}

(***************************************************************************)
(* When everything in flight has been taken in, the embedder sees exactly  *)
(* the surfaces and streams the server has announced: nothing is lost,     *)
(* invented or left behind, whatever the order the messages came in.       *)
(***************************************************************************)
Settled == rx /\ pc = "read" /\ down = <<>> /\ mailbox = <<>>

SettledViewsAgree ==
    Settled => embSurfaces = srvSurfaces /\ embStreams = srvStreams

(***************************************************************************)
(* A frame that reaches the embedder belongs to a stream it has been told  *)
(* of and not yet been told the end of, which plays MJPEG; unless the      *)
(* frame brings its own, its place is the one the stream was created with. *)
(***************************************************************************)
FramesBelongToAStream ==
    (rx /\ mailbox # <<>> /\ Head(mailbox).op = "frame") =>
        LET e == Head(mailbox) IN
        /\ e.id \in DOMAIN embStreams
        /\ embStreams[e.id].codec = "mjpeg"
        /\ e.arg \in {Sized, embStreams[e.id].dest}

(***************************************************************************)
(* events.rs, Region: surface_format is the one "reported by the preceding *)
(* SurfaceCreated event"; Unknown means the embedder knows of no surface.  *)
(***************************************************************************)
RegionsMatchTheirSurface ==
    (rx /\ mailbox # <<>> /\ Head(mailbox).op = "region") =>
        LET e == Head(mailbox) IN
        IF e.id \in DOMAIN embSurfaces THEN e.arg = embSurfaces[e.id] ELSE e.arg = Unknown

(***************************************************************************)
(* A stream the server has ended ends for the embedder as well, unless the *)
(* server opens it again or the task stops.                                *)
(***************************************************************************)
EndedStreamsGo ==
    \A s \in StreamIds :
        (s \in DOMAIN embStreams /\ s \notin DOMAIN srvStreams)
            ~> (s \notin DOMAIN embStreams \/ s \in DOMAIN srvStreams \/ ~rx \/ pc = "exit")
=============================================================================
