----------------------------- MODULE BuildTasks -----------------------------
(***************************************************************************)
(* Content builds: BuildTaskManager (orchestration/build_tasks.py) runs at *)
(* most one at a time.  The build itself (orchestration/content_build.py)  *)
(* runs in a worker thread, replaces content.db in one step                *)
(* (services/content_repository.py), and reports its progress and its end  *)
(* through the event loop's queue of callbacks.  The process may shut down *)
(* or be killed at any point, and starts again.                            *)
(***************************************************************************)
EXTENDS Naturals, Sequences, FiniteSets

CONSTANTS
    MaxBuilds,    \* bound: the builds ever started, which are numbered
    MaxHistory    \* tasks the manager remembers

NoTask == 0

ASSUME BuildAssumption == MaxBuilds \in Nat /\ MaxHistory \in Nat \ {0}

VARIABLES
    phase,        \* of the process
    task,         \* the BuildTask of each build this process started
    remembered,   \* the keys of _tasks
    active,       \* _active
    runner,       \* the coroutine _run of each build
    future,       \* the future each runner awaits
    thread,       \* the worker thread of each build
    ready,        \* the callbacks the threads handed to the event loop, in order
    content,      \* the build content.db was written by, NoTask when there is no file
    repo          \* the build ctx.content_repo was opened on

manager == <<task, remembered, active>>
worker == <<thread, ready, content>>
vars == <<phase, manager, runner, future, worker, repo>>

Builds == 1 .. MaxBuilds
Stages == {"import", "enrich", "write", "written"}
NoStage == "none"

Task == [state : {"none", "running", "succeeded", "failed"}, dry : BOOLEAN,
         stage : Stages \cup {NoStage}]
Thread == [pc : {"none", "run", "over"}, stage : Stages \cup {NoStage}, replaced : BOOLEAN]
Callback == [kind : {"progress", "done"}, task : Builds, what : Stages \cup {"ok", "error"}]

NoBuild == [state |-> "none", dry |-> FALSE, stage |-> NoStage]
NoThread == [pc |-> "none", stage |-> NoStage, replaced |-> FALSE]

Known == {t \in Builds : task[t].state # "none"}
Ended(t) == task[t].state \in {"succeeded", "failed"}
Newest(S) == CHOOSE t \in S : \A u \in S : u <= t

(* latest(): the newest of the remembered tasks. *)
Latest == IF remembered = {} THEN NoTask ELSE Newest(remembered)

(* The stage after a stage: a dry run writes nothing. *)
After(stage, dry) ==
    CASE stage = NoStage -> {"import"}
      [] stage = "import" -> {"enrich"}
      [] stage = "enrich" -> IF dry THEN {} ELSE {"write"}
      [] stage = "write" -> {"written"}
      [] OTHER -> {}

-----------------------------------------------------------------------------
Init ==
    /\ phase = "up"
    /\ task = [t \in Builds |-> NoBuild]
    /\ remembered = {} /\ active = NoTask
    /\ runner = [t \in Builds |-> "none"]
    /\ future = [t \in Builds |-> "none"]
    /\ thread = [t \in Builds |-> NoThread]
    /\ ready = << >>
    /\ content = NoTask /\ repo = NoTask

(* _trim_history: the oldest go while there are too many, the active stays. *)
Trim(S, t) ==
    {u \in S : u = t \/ Cardinality({v \in S : v >= u}) <= MaxHistory}

(* Mutant: the slot is not looked at. *)
Idle_Unchecked == TRUE

Idle == active = NoTask

Started(dry) == [NoBuild EXCEPT !.state = "running", !.dry = dry]

(* POST /admin/content/build; 409 while a build is active. *)
Start(t, dry) ==
    /\ phase = "up" /\ Idle
    /\ runner[t] = "none" /\ \A u \in 1 .. t - 1 : runner[u] # "none"
    /\ active' = t
    /\ task' = [task EXCEPT ![t] = Started(dry)]
    /\ remembered' = Trim(remembered \cup {t}, t)
    /\ runner' = [runner EXCEPT ![t] = "new"]
    /\ UNCHANGED <<phase, future, worker, repo>>

(* Mutant: the slot is not released. *)
End_KeepsSlot(t, state) ==
    /\ task' = [task EXCEPT ![t].state = state]
    /\ runner' = [runner EXCEPT ![t] = "done"]
    /\ UNCHANGED <<remembered, active>>

(* The end of _run: the slot is released, then the end is published. *)
End(t, state) ==
    /\ task' = [task EXCEPT ![t].state = state]
    /\ active' = NoTask
    /\ runner' = [runner EXCEPT ![t] = "done"]
    /\ UNCHANGED remembered

(* The runner's first step; making the orchestrator may fail. *)
RunnerStarts(t) ==
    /\ runner[t] = "new"
    /\ \/ /\ runner' = [runner EXCEPT ![t] = "waiting"]
          /\ future' = [future EXCEPT ![t] = "pending"]
          /\ thread' = [thread EXCEPT ![t].pc = "run"]
          /\ UNCHANGED manager
       \/ End(t, "failed") /\ UNCHANGED <<future, thread>>
    /\ UNCHANGED <<phase, ready, content, repo>>

(* Mutant: only a dry run refreshes. *)
Refreshes_Inverted(t, ok) ==
    \/ ~task[t].dry /\ ok /\ UNCHANGED repo
    \/ task[t].dry /\ ok /\ repo' = content

(* refresh_content_repo after a build that wrote: it may fail. *)
Refreshes(t, ok) ==
    \/ task[t].dry /\ ok /\ UNCHANGED repo
    \/ ~task[t].dry /\ ok /\ repo' = content
    \/ ~task[t].dry /\ ~ok /\ UNCHANGED repo

(* The runner goes on when the worker's outcome has reached the loop. *)
RunnerResumes(t) ==
    /\ runner[t] = "waiting" /\ future[t] \in {"ok", "error"}
    /\ \/ future[t] = "ok" /\ Refreshes(t, TRUE) /\ End(t, "succeeded")
       \/ future[t] = "ok" /\ Refreshes(t, FALSE) /\ End(t, "failed")
       \/ future[t] = "error" /\ UNCHANGED repo /\ End(t, "failed")
    /\ UNCHANGED <<phase, future, worker>>

-----------------------------------------------------------------------------
(* The worker thread *)

Hand(callback) == ready' = Append(ready, callback)

(* The build reaches its next stage and reports it.  "written" is reported *)
(* after the file was replaced.                                            *)
ThreadReports(t) ==
    /\ thread[t].pc = "run"
    /\ \E s \in After(thread[t].stage, task[t].dry) :
           /\ s = "written" => thread[t].replaced
           /\ thread' = [thread EXCEPT ![t].stage = s]
           /\ Hand([kind |-> "progress", task |-> t, what |-> s])
    /\ UNCHANGED <<phase, manager, runner, future, content, repo>>

(* os.replace puts the finished file in place. *)
ThreadReplaces(t) ==
    /\ thread[t].pc = "run" /\ thread[t].stage = "write" /\ ~thread[t].replaced
    /\ content' = t
    /\ thread' = [thread EXCEPT ![t].replaced = TRUE]
    /\ UNCHANGED <<phase, manager, runner, future, ready, repo>>

(* The build returns its report. *)
ThreadReturns(t) ==
    /\ thread[t].pc = "run"
    /\ After(thread[t].stage, task[t].dry) = {}
    /\ thread' = [thread EXCEPT ![t].pc = "over"]
    /\ Hand([kind |-> "done", task |-> t, what |-> "ok"])
    /\ UNCHANGED <<phase, manager, runner, future, content, repo>>

(* The deck, the dictionary or the disk fails the build; the file in place *)
(* is not touched.                                                         *)
ThreadFails(t) ==
    /\ thread[t].pc = "run" /\ ~thread[t].replaced
    /\ thread' = [thread EXCEPT ![t].pc = "over"]
    /\ Hand([kind |-> "done", task |-> t, what |-> "error"])
    /\ UNCHANGED <<phase, manager, runner, future, content, repo>>

-----------------------------------------------------------------------------
(* The event loop runs the callbacks in the order they were handed over. *)

(* Mutant: progress is taken from a build that has ended. *)
OnProgress_Late(t, stage) == task' = [task EXCEPT ![t].stage = stage]

OnProgress(t, stage) ==
    task' = IF task[t].state = "running" THEN [task EXCEPT ![t].stage = stage] ELSE task

LoopProgress ==
    /\ ready # << >> /\ Head(ready).kind = "progress"
    /\ ready' = Tail(ready)
    /\ OnProgress(Head(ready).task, Head(ready).what)
    /\ UNCHANGED <<phase, remembered, active, runner, future, thread, content, repo>>

(* The worker's outcome; a future that was cancelled keeps that. *)
LoopDone ==
    /\ ready # << >> /\ Head(ready).kind = "done"
    /\ ready' = Tail(ready)
    /\ LET t == Head(ready).task
       IN  future' = [future EXCEPT ![t] = IF @ = "pending" THEN Head(ready).what ELSE @]
    /\ UNCHANGED <<phase, manager, runner, thread, content, repo>>

-----------------------------------------------------------------------------
(* The process *)

(* The server stops: no more requests, and aclose waits for the runner. *)
Shutdown ==
    /\ phase = "up"
    /\ phase' = "closing"
    /\ UNCHANGED <<manager, runner, future, worker, repo>>

(* aclose is done or has timed out, and the loop cancels what is left: the *)
(* runner, and the future it awaits.  A thread cannot be cancelled.        *)
CancelAll ==
    LET Waiting(t) == runner[t] = "waiting"
    IN  /\ phase = "closing"
        /\ phase' = "stopping"
        /\ runner' = [t \in Builds |-> IF Waiting(t) THEN "cancelled"
                                       ELSE IF runner[t] = "new" THEN "done" ELSE runner[t]]
        /\ task' = [t \in Builds |->
               IF Waiting(t) THEN [task[t] EXCEPT !.state = "failed"] ELSE task[t]]
        /\ future' = [t \in Builds |->
               IF Waiting(t) /\ future[t] = "pending" THEN "cancelled" ELSE future[t]]
        /\ UNCHANGED <<remembered, active, worker, repo>>

(* The cancelled runner ends once its future is done. *)
RunnerCancelled(t) ==
    /\ runner[t] = "cancelled" /\ future[t] # "pending"
    /\ End(t, "failed")
    /\ UNCHANGED <<phase, future, worker, repo>>

(* The process is gone: what it had in memory is lost. *)
Gone ==
    /\ phase' = "down"
    /\ task' = [t \in Builds |-> NoBuild]
    /\ remembered' = {} /\ active' = NoTask
    /\ runner' = [t \in Builds |-> IF runner[t] = "none" THEN "none" ELSE "done"]
    /\ future' = [t \in Builds |-> "none"]
    /\ thread' = [t \in Builds |-> NoThread]
    /\ ready' = << >>
    /\ repo' = NoTask
    /\ UNCHANGED content

(* It ends when its threads have. *)
Exit ==
    /\ phase = "stopping"
    /\ \A t \in Builds : thread[t].pc # "run" /\ runner[t] # "cancelled"
    /\ Gone

Crash == phase # "down" /\ Gone

(* It starts again: create_context opens content.db if there is one. *)
Boot ==
    /\ phase = "down"
    /\ phase' = "up"
    /\ repo' = content
    /\ UNCHANGED <<manager, runner, future, worker>>

LoopStep ==
    \/ LoopProgress \/ LoopDone
    \/ \E t \in Builds : RunnerStarts(t) \/ RunnerResumes(t) \/ RunnerCancelled(t)

ThreadStep(t) == ThreadReports(t) \/ ThreadReplaces(t) \/ ThreadReturns(t) \/ ThreadFails(t)

Next ==
    \/ \E t \in Builds, dry \in BOOLEAN : Start(t, dry)
    \/ \E t \in Builds : ThreadStep(t)
    \/ LoopStep
    \/ Shutdown \/ CancelAll \/ Exit \/ Crash \/ Boot

(* The loop runs what is ready, a thread gets to its end, and a shutdown   *)
(* goes on; nobody need start a build or stop the server.                  *)
Fairness ==
    /\ WF_vars(LoopStep)
    /\ \A t \in Builds : WF_vars(ThreadStep(t))
    /\ WF_vars(CancelAll) /\ WF_vars(Exit)

Spec == Init /\ [][Next]_vars
FairSpec == Spec /\ Fairness

-----------------------------------------------------------------------------
(* Type correctness, with the orders the variables are in. *)
TypeOK ==
    /\ phase \in {"up", "closing", "stopping", "down"}
    /\ task \in [Builds -> Task]
    /\ remembered \subseteq Known
    /\ active \in Known \cup {NoTask}
    /\ runner \in [Builds -> {"none", "new", "waiting", "cancelled", "done"}]
    /\ future \in [Builds -> {"none", "pending", "ok", "error", "cancelled"}]
    /\ thread \in [Builds -> Thread]
    /\ ready \in Seq(Callback)
    /\ content \in Builds \cup {NoTask}
    /\ repo \in Builds \cup {NoTask}

(* content.db has one writer: while the server runs, a live thread is the  *)
(* active build's, and a task that has ended has no thread left.           *)
OneWriter ==
    \A t \in Builds : thread[t].pc = "run" =>
        /\ phase \in {"up", "closing"} => active = t /\ task[t].state = "running"
        /\ \A u \in Builds \ {t} : thread[u].pc # "run"

(* What the status says of a build that ended is so: one that succeeded    *)
(* and was no dry run is in content.db and served, or a later one is.      *)
SucceededIsServed ==
    \A t \in Builds : task[t].state = "succeeded" /\ ~task[t].dry =>
        content >= t /\ (phase # "down" => repo >= t)

(* The server reads the file that is in place, unless the build that put   *)
(* it there still runs or is reported as failed.                           *)
StaleOnlyAfterFailure ==
    phase # "down" /\ repo # content => task[content].state \in {"running", "failed"}

(* The manager remembers the newest tasks, the active one among them.      *)
NewestRemembered ==
    /\ active # NoTask => active = Latest
    /\ remembered = {t \in Known : Cardinality({u \in Known : u >= t}) <= MaxHistory}

(* The status tells the truth about content.db and what is served, and     *)
(* latest() is about the newest build.                                     *)
StatusIsTrue == SucceededIsServed /\ StaleOnlyAfterFailure /\ NewestRemembered

(* The status of a build that ended never changes while the process lives: *)
(* not by progress that arrives late, nor by a cancellation.               *)
EndedIsFinal == [][\A t \in Builds : Ended(t) /\ phase' # "down" => task'[t] = task[t]]_vars

(* The slot comes back, whatever fails. *)
SlotComesBack == \A t \in Builds : active = t ~> active # t
=============================================================================
