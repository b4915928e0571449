----------------------------- MODULE TaskStream -----------------------------
(***************************************************************************)
(* The live stream of builds: the events BuildTaskManager publishes to its *)
(* subscribers' queues (orchestration/build_tasks.py), the /ws/tasks       *)
(* handlers that send a snapshot of the latest build and then the queued   *)
(* events (api/routers/ws.py), and what each client was told so far.       *)
(* Composed with BuildTasks: every step of the manager delivers what it    *)
(* publishes.                                                              *)
(***************************************************************************)
EXTENDS BuildTasks

CONSTANTS
    Streams,      \* authenticated connections to /ws/tasks
    QueueSize     \* subscriber_queue_size

ASSUME StreamAssumption == QueueSize \in Nat \ {0}

VARIABLE stream   \* the handlers, with the view of the build each client was sent

allVars == <<vars, stream>>

View == [task : Builds \cup {NoTask}, state : {"none", "running", "succeeded", "failed"},
         stage : Stages \cup {NoStage}]
NoView == [task |-> NoTask, state |-> "none", stage |-> NoStage]
Stream == [pc : {"off", "ready", "live"}, queue : Seq(View), snapshot : View, told : View]
NoStream == [pc |-> "off", queue |-> << >>, snapshot |-> NoView, told |-> NoView]

(* The status of the latest build. *)
Status == IF Latest = NoTask THEN NoView
          ELSE [task |-> Latest, state |-> task[Latest].state, stage |-> task[Latest].stage]

-----------------------------------------------------------------------------
(* What a step of the manager publishes: the start and the end of a build  *)
(* are state events, without a progress, and a stage a progress event.     *)
Published ==
    IF active' # active
    THEN LET t == IF active' # NoTask THEN active' ELSE active
         IN  {[task |-> t, state |-> task'[t].state, stage |-> NoStage]}
    ELSE {[task |-> t, state |-> task'[t].state, stage |-> task'[t].stage] :
              t \in {u \in Builds : task'[u].stage # task[u].stage}}

(* Mutant: a full queue takes no more. *)
Push_DropNewest(queue, event) ==
    IF Len(queue) = QueueSize THEN queue ELSE Append(queue, event)

(* Mutant: the queue is not bounded. *)
Push_Unbounded(queue, event) == Append(queue, event)

(* A full queue drops its oldest event. *)
Push(queue, event) ==
    Append(IF Len(queue) = QueueSize THEN Tail(queue) ELSE queue, event)

Deliver ==
    IF Published = {} THEN UNCHANGED stream
    ELSE LET event == CHOOSE e \in Published : TRUE
         IN  stream' = [s \in Streams |->
                 IF stream[s].pc = "off" THEN stream[s]
                 ELSE [stream[s] EXCEPT !.queue = Push(@, event)]]

-----------------------------------------------------------------------------
StreamInit == Init /\ stream = [s \in Streams |-> NoStream]

(* The handler subscribes and reads the latest build without an await in   *)
(* between.                                                                *)
Subscribe(s) ==
    /\ phase = "up" /\ stream[s].pc = "off"
    /\ stream' = [stream EXCEPT ![s] = [NoStream EXCEPT !.pc = "ready", !.snapshot = Status]]
    /\ UNCHANGED vars

(* Mutant: the latest build is read when the snapshot is sent. *)
SendSnapshot_Late(s) ==
    /\ stream[s].pc = "ready"
    /\ stream' = [stream EXCEPT ![s].pc = "live", ![s].told = Status]
    /\ UNCHANGED vars

(* "ready" and the snapshot are sent; none when no build is known. *)
SendSnapshot(s) ==
    /\ stream[s].pc = "ready"
    /\ stream' = [stream EXCEPT ![s].pc = "live", ![s].told = stream[s].snapshot]
    /\ UNCHANGED vars

(* What a client knows after an event: a state event of the build it knows *)
(* leaves the progress as it was.                                          *)
Told(view, event) ==
    IF event.task = view.task /\ event.stage = NoStage
    THEN [view EXCEPT !.state = event.state] ELSE event

(* The forwarder sends the oldest event. *)
Forward(s) ==
    /\ stream[s].pc = "live" /\ stream[s].queue # << >>
    /\ stream' = [stream EXCEPT ![s].queue = Tail(@),
                                ![s].told = Told(@, Head(stream[s].queue))]
    /\ UNCHANGED vars

(* The client goes away, or a send fails: the handler unsubscribes. *)
Hangup(s) ==
    /\ stream[s].pc # "off"
    /\ stream' = [stream EXCEPT ![s] = NoStream]
    /\ UNCHANGED vars

(* A server that stops, or is killed, closes every connection first. *)
CloseAll == stream' = [s \in Streams |-> NoStream]

ManagerStep ==
    \/ \E t \in Builds, dry \in BOOLEAN : Start(t, dry)
    \/ \E t \in Builds : ThreadStep(t)
    \/ LoopStep

StreamNext ==
    \/ ManagerStep /\ Deliver
    \/ (Shutdown \/ CancelAll \/ Exit \/ Crash \/ Boot) /\ CloseAll
    \/ \E s \in Streams : Subscribe(s) \/ SendSnapshot(s) \/ Forward(s) \/ Hangup(s)

(* The fairness of BuildTasks, and that the loop runs every handler whose  *)
(* client takes what it is sent.                                           *)
StreamFairness ==
    /\ WF_allVars(LoopStep /\ Deliver)
    /\ \A t \in Builds : WF_allVars(ThreadStep(t) /\ Deliver)
    /\ WF_allVars(CancelAll /\ CloseAll) /\ WF_allVars(Exit /\ CloseAll)
    /\ \A s \in Streams : WF_allVars(SendSnapshot(s)) /\ WF_allVars(Forward(s))

StreamSpec == StreamInit /\ [][StreamNext]_allVars /\ StreamFairness

-----------------------------------------------------------------------------
(* Type correctness: no queue outgrows its size, however slow the client. *)
StreamTypeOK ==
    /\ TypeOK
    /\ stream \in [Streams -> Stream]
    /\ \A s \in Streams : Len(stream[s].queue) <= QueueSize

(* Whatever was dropped from its queue, a stream ends up telling the truth: *)
(* the last event it has to send, or what it sent last, is the latest      *)
(* build in the state it is in.                                            *)
LastWordIsTruth ==
    \A s \in Streams : stream[s].pc # "off" =>
        LET last == IF stream[s].queue # << >> THEN stream[s].queue[Len(stream[s].queue)]
                    ELSE IF stream[s].pc = "live" THEN stream[s].told ELSE stream[s].snapshot
        IN  last.task = Status.task /\ last.state = Status.state

(* A client is never told of an older build after a newer one, nor that a  *)
(* build it was told had ended is running.                                 *)
NeverBackwards ==
    [][\A s \in Streams : stream[s].pc = "live" /\ stream'[s].pc = "live" =>
           /\ stream'[s].told.task >= stream[s].told.task
           /\ stream'[s].told.task = stream[s].told.task
                  /\ stream[s].told.state \in {"succeeded", "failed"}
                  => stream'[s].told.state = stream[s].told.state]_allVars

(* A client that was told a build is running hears how it ended, or of a   *)
(* later build, as long as the connection lasts.                           *)
ToldOfTheEnd ==
    \A s \in Streams, t \in Builds :
        stream[s].pc = "live" /\ stream[s].told.task = t /\ stream[s].told.state = "running"
            ~> \/ stream[s].pc # "live"
               \/ stream[s].told.task # t
               \/ stream[s].told.state # "running"

=============================================================================
