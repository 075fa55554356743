------------------------------- MODULE Viewer -------------------------------
(***************************************************************************)
(* The viewer (capsaicin-cli/src/viewer.rs) as the embedder of a           *)
(* SpiceClient: the window's thread, the queue of paint messages to it,    *)
(* the bounded queue of inputs from it, and spice_task between the two;    *)
(* and the way of an input on to the server, through the client's own      *)
(* queue and the inputs task.  The window's pixels are in Framebuffer.     *)
(*                                                                         *)
(* Any other application (embedder "application") is the one of            *)
(* SpiceClient, which calls next_event, close and drop as it likes.        *)
(***************************************************************************)
EXTENDS SpiceClient

CONSTANTS
    Embedders,      \* who embeds the client: "application", "viewer"
    WindowCap,      \* capacity of the queue from the window
    InputCap,       \* SpiceClientBuilder::input_capacity
    MaxInputs       \* bound: inputs the user makes, numbered 1, 2, ...

ASSUME ViewerAssumption ==
    /\ Embedders \subseteq {"application", "viewer"}
    /\ WindowCap \in Nat \ {0} /\ InputCap \in Nat \ {0} /\ MaxInputs \in Nat

VARIABLES
    embedder,
    spice,          \* spice_task: "connecting", "loop", "sending", "closing",
                    \* "done", or "failed" to connect
    window,         \* the event loop: "open" or "closed", and the process with it
    paint,          \* queue of PaintMsg
    made,           \* inputs the user has made
    fromWindow,     \* queue of the window's inputs
    held,           \* the input spice_task is sending
    queue,          \* SpiceClient's input queue
    writing,        \* the input the inputs task is writing
    arrived,        \* server (external): inputs received
    overflowed      \* history: inputs dropped because the window's queue was full

inputVars == <<made, fromWindow, held, queue, writing, arrived, overflowed>>
viewerVars == <<embedder, spice, window, paint, inputVars>>
allVars == <<vars, viewerVars>>

ViewerInit ==
    /\ Init
    /\ embedder \in Embedders
    /\ spice = (IF embedder = "viewer" THEN "connecting" ELSE "loop")
    /\ window = "open" /\ paint = <<>>
    /\ made = 0 /\ fromWindow = <<>> /\ held = <<>> /\ queue = <<>> /\ writing = <<>>
    /\ arrived = <<>> /\ overflowed = {}

IsViewer == embedder = "viewer"
\* The client's tasks run from the end of connect_with on; the viewer's process
\* ends with its window.
Alive == IsViewer => spice \notin {"connecting", "failed"} /\ window = "open"

\* spice_task has returned, and dropped its ends of the two queues.
Returned == spice \in {"done", "failed"}

-----------------------------------------------------------------------------
(***************************************************************************)
(* The window's thread.                                                    *)
(***************************************************************************)

\* send_input_nonblocking: a full queue drops the input, a closed one too.
UserInput ==
    /\ IsViewer /\ window = "open" /\ made < MaxInputs
    /\ made' = made + 1
    /\ IF Returned THEN UNCHANGED <<fromWindow, overflowed>>
       ELSE IF Len(fromWindow) < WindowCap
         THEN fromWindow' = Append(fromWindow, made') /\ UNCHANGED overflowed
         ELSE overflowed' = overflowed \cup {made'} /\ UNCHANGED fromWindow
    /\ UNCHANGED <<vars, embedder, spice, window, paint, held, queue, writing, arrived>>

\* drain_paint and about_to_wait: the event loop exits after Closed, or when
\* the other end of the queue is gone.
DrainPaint ==
    /\ IsViewer /\ window = "open"
    /\ paint # <<>> \/ Returned
    /\ paint' = <<>>
    /\ window' = IF Contains(paint, "closed") \/ Returned THEN "closed" ELSE "open"
    /\ UNCHANGED <<vars, embedder, spice, inputVars>>

\* CloseRequested
UserCloses ==
    /\ IsViewer /\ window = "open" /\ window' = "closed"
    /\ UNCHANGED <<vars, embedder, spice, paint, inputVars>>

-----------------------------------------------------------------------------
(***************************************************************************)
(* spice_task.                                                             *)
(***************************************************************************)
Connect ==
    /\ IsViewer /\ window = "open" /\ spice = "connecting"
    /\ \/ spice' = "loop" /\ UNCHANGED paint
       \/ spice' = "failed" /\ paint' = Append(paint, "closed")
    /\ UNCHANGED <<vars, embedder, window, inputVars>>

InLoop == IsViewer /\ window = "open" /\ spice = "loop"

\* next_event: a display event is painted, others are not; or Closed, which
\* ends the loop.  (None would end it as well, but does not come before Closed:
\* EndIsAnnounced.)
ViewerTakesEvent ==
    /\ InLoop /\ NextEvent
    /\ IF Head(mailbox) = "closed"
         THEN spice' = "closing" /\ paint' = Append(paint, "closed")
         ELSE /\ UNCHANGED spice
              /\ paint' = IF Head(mailbox) = "display" THEN Append(paint, "paint") ELSE paint
    /\ UNCHANGED <<embedder, window, inputVars>>

\* The other branch of the select!: an input of the window.
ViewerTakesInput ==
    /\ InLoop /\ fromWindow # <<>>
    /\ spice' = "sending"
    /\ held' = <<Head(fromWindow)>> /\ fromWindow' = Tail(fromWindow)
    /\ UNCHANGED <<vars, embedder, window, paint, made, queue, writing, arrived, overflowed>>

\* The receiver of the input queue lives as long as the inputs task.
InputsRun == "inputs" \in Tasks /\ task["inputs"] # "exit"

\* Mutated form: the queue outlives the inputs task.
SendInputWaits ==
    /\ Len(queue) < InputCap /\ queue' = queue \o held

\* Mutated form: an input that finds the queue full is dropped.
SendInputTry ==
    queue' = IF InputsRun /\ Len(queue) < InputCap THEN queue \o held ELSE queue

\* SpiceClient::send_input, which waits for room; an error is only logged.
SendInput ==
    /\ InputsRun => Len(queue) < InputCap
    /\ queue' = IF InputsRun THEN queue \o held ELSE queue

ViewerSendsInput ==
    /\ IsViewer /\ window = "open" /\ spice = "sending"
    /\ SendInput
    /\ spice' = "loop" /\ held' = <<>>
    /\ UNCHANGED <<vars, embedder, window, paint, made, fromWindow, writing, arrived, overflowed>>

\* close().await, and the end of the thread.
ViewerCloses ==
    /\ IsViewer /\ window = "open" /\ spice = "closing"
    /\ \/ Close /\ UNCHANGED spice
       \/ CloseReturns /\ spice' = "done"
    /\ UNCHANGED <<embedder, window, paint, inputVars>>

-----------------------------------------------------------------------------
(***************************************************************************)
(* The inputs task, of which SpiceClient has only the end.                 *)
(***************************************************************************)
InputsTakes ==
    /\ IsViewer /\ Alive /\ InputsRun /\ writing = <<>> /\ queue # <<>>
    /\ writing' = <<Head(queue)>> /\ queue' = Tail(queue)
    /\ UNCHANGED <<vars, embedder, spice, window, paint, made, fromWindow, held, arrived, overflowed>>

\* write_message; on a lost connection the task ends instead.
InputsWrites ==
    /\ IsViewer /\ Alive /\ InputsRun /\ writing # <<>> /\ sock["inputs"] = "open"
    /\ arrived' = arrived \o writing /\ writing' = <<>>
    /\ UNCHANGED <<vars, embedder, spice, window, paint, made, fromWindow, held, queue, overflowed>>

InputsEndsOnLoss ==
    /\ "inputs" \in Tasks /\ sock["inputs"] = "lost" /\ SubTaskStops("inputs")

-----------------------------------------------------------------------------
ClientTasks == (\E t \in Tasks : TaskStep(t) \/ HasEvent(t)) \/ SocketLost
Application == NextEvent \/ NextEventNone \/ Close \/ CloseReturns \/ DropClient

ViewerNext ==
    \/ Alive /\ ClientTasks /\ UNCHANGED viewerVars
    \/ ~IsViewer /\ Application /\ UNCHANGED viewerVars
    \/ UserInput \/ DrainPaint \/ UserCloses
    \/ Connect \/ ViewerTakesEvent \/ ViewerTakesInput
    \/ ViewerSendsInput \/ ViewerCloses
    \/ InputsTakes \/ InputsWrites

ViewerSpec == ViewerInit /\ [][ViewerNext]_allVars

\* The steps of SpiceClient that are not the embedder's.
OfTasks(step) == Alive /\ step /\ UNCHANGED viewerVars

\* The executor polls woken tasks, a waiting sender is served in turn, and the
\* embedder keeps calling next_event: an application simply does, spice_task
\* because its select! is fair between its two branches.  The window's event
\* loop runs; the server reads its inputs channel.  The user closes nothing.
ViewerFairSpec ==
    /\ ViewerSpec
    /\ WF_allVars(OfTasks(MainLosesSocket)) /\ SF_allVars(OfTasks(PostClosed))
    /\ \A t \in Tasks : /\ WF_allVars(OfTasks(Aborted(t)))
                        /\ SF_allVars(OfTasks(Post(t)))
    /\ WF_allVars(OfTasks(InputsEndsOnLoss))
    /\ WF_allVars(~IsViewer /\ (NextEvent \/ CloseReturns) /\ UNCHANGED viewerVars)
    /\ SF_allVars(ViewerTakesEvent) /\ WF_allVars(ViewerSendsInput \/ ViewerCloses)
    /\ WF_allVars(DrainPaint) /\ WF_allVars(InputsTakes) /\ WF_allVars(InputsWrites)

-----------------------------------------------------------------------------
ViewerTypeOK ==
    /\ TypeOK
    /\ spice \in {"connecting", "loop", "sending", "closing", "done", "failed"}
    /\ window \in {"open", "closed"} /\ ToSet(paint) \subseteq {"paint", "closed"}
    /\ made \in 0 .. MaxInputs /\ overflowed \subseteq 1 .. made
    /\ Len(fromWindow) <= WindowCap /\ Len(queue) <= InputCap
    /\ Len(held) <= 1 /\ Len(writing) <= 1 /\ (spice = "sending" <=> held # <<>>)

UnderWay == arrived \o writing \o queue \o held \o fromWindow
Ascending(s) == \A i, j \in DOMAIN s : i < j => s[i] < s[j]

(***************************************************************************)
(* Between the user and the server an input is only lost where the code    *)
(* says so, in the full queue of the window, and none overtakes another:   *)
(* while the inputs task runs, what has arrived and what is under way are  *)
(* all inputs made but those dropped, in order.                            *)
(***************************************************************************)
InputsKeepOrder ==
    IsViewer /\ Alive /\ InputsRun =>
        ToSet(UnderWay) = (1 .. made) \ overflowed /\ Ascending(UnderWay)

(***************************************************************************)
(* client.rs, run_main: "Emits ClientEvent::Closed when the socket drops": *)
(* a live client whose main connection is lost hears of it, however full   *)
(* the mailbox and busy the other tasks; and the viewer's window closes,   *)
(* though spice_task may be waiting for room in the input queue.           *)
(***************************************************************************)
MainLossIsReported ==
    Alive /\ sock["main"] = "lost"
        ~> IF IsViewer THEN window = "closed"
                       ELSE Contains(delivered, "closed") \/ client # "live"

(***************************************************************************)
(* client.rs: "On drop, all background tasks are aborted"; close also      *)
(* waits for them, and returns, even though nobody drains the mailbox any  *)
(* more and tasks may be blocked on it.  (The window's process ends them.) *)
(***************************************************************************)
ShutdownCompletes ==
    client \in {"closing", "dropped"}
        ~> \/ client # "closing" /\ \A t \in Tasks : task[t] = "exit"
           \/ window = "closed"

(***************************************************************************)
(* A task that waits for room in the mailbox gets it, or is aborted: the   *)
(* viewer's own waiting for room in the input queue does not close a       *)
(* circle with it.                                                         *)
(***************************************************************************)
PostsGetThrough ==
    \A t \in Tasks : task[t] = "post" ~> (task[t] # "post" \/ window = "closed")
=============================================================================
