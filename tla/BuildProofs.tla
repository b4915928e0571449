---------------------------- MODULE BuildProofs -----------------------------
(***************************************************************************)
(* Proofs about BuildTasks, TaskStream and BuildView, for any number of    *)
(* builds, streams and browsers, any history and any queue size: one       *)
(* thread at a time writes content.db, what the status says of a build     *)
(* that ended is true and final, and the newest tasks are remembered; the  *)
(* streams implement the manager, so that its theorems hold of them, no    *)
(* queue outgrows its size, and whatever a slow client misses, what it is  *)
(* told last is the truth; the browsers implement the streams, and none    *)
(* shows an end a build did not have.                                      *)
(***************************************************************************)
EXTENDS BuildView, FiniteSetTheorems, TLAPS

-----------------------------------------------------------------------------
(* The inductive invariant. *)

(* Builds start in the order of their numbers, and one that has not yet    *)
(* started left no trace.                                                  *)
InOrder ==
    \A t \in Builds :
        /\ runner[t] = "none" => /\ task[t] = NoBuild /\ content # t
                                 /\ \A u \in Builds : u > t => runner[u] = "none"
        /\ runner[t] \in {"none", "new"} => thread[t] = NoThread

Last(t) == \A u \in Builds : u > t => runner[u] = "none"

(* The runner of a build under way has the slot, until the loop cancels it. *)
SlotIsTaken ==
    /\ \A t \in Builds :
        /\ runner[t] \in {"new", "waiting"} =>
               phase \in {"up", "closing"} /\ active = t /\ task[t].state = "running"
        /\ runner[t] = "cancelled" => phase = "stopping" /\ task[t].state = "failed"
        /\ task[t].state = "running" =>
               phase # "down" /\ (phase \in {"up", "closing"} => active = t)
    /\ active # NoTask => Last(active)

(* A thread is waited for, or its build has failed; what it leaves behind. *)
ThreadShape ==
    \A t \in Builds :
        /\ thread[t].pc = "run" =>
               /\ \/ phase \in {"up", "closing"} /\ runner[t] = "waiting"
                  \/ phase = "stopping" /\ task[t].state = "failed"
               /\ Last(t)
               /\ \A u \in Builds \ {t} : thread[u].pc # "run"
        /\ thread[t].stage \in {"write", "written"} => ~task[t].dry
        /\ thread[t].stage = "written" => thread[t].replaced
        /\ thread[t].replaced => content >= t /\ thread[t].stage \in {"write", "written"}

(* The outcome of a worker: a build that is well wrote, unless it is dry. *)
Outcome(t, what) ==
    thread[t].pc = "over" /\ (what = "ok" => task[t].dry \/ thread[t].replaced)

OutcomeIsReal ==
    /\ \A t \in Builds : future[t] \in {"ok", "error"} => Outcome(t, future[t])
    /\ \A i \in 1 .. Len(ready) :
        /\ ready[i].kind = "progress" => ready[i].what \in Stages
        /\ ready[i].kind = "done" =>
               ready[i].what \in {"ok", "error"} /\ Outcome(ready[i].task, ready[i].what)

(* What is served is not newer than the file, which no dry run wrote. *)
FileShape ==
    /\ phase # "down" => repo <= content
    /\ content # NoTask => ~task[content].dry

Remembered == remembered = {t \in Known : Cardinality({u \in Known : u >= t}) <= MaxHistory}

HasNewest == remembered = {} \/ \E t \in remembered : \A u \in remembered : u <= t

IInv ==
    /\ TypeOK /\ InOrder /\ SlotIsTaken /\ ThreadShape /\ OutcomeIsReal
    /\ FileShape /\ SucceededIsServed /\ StaleOnlyAfterFailure /\ Remembered /\ HasNewest

-----------------------------------------------------------------------------
(* Type correctness *)

LEMMA IdleTypes == NoBuild \in Task /\ NoThread \in Thread /\ NoTask \notin Builds
BY BuildAssumption DEF NoBuild, Task, NoThread, Thread, NoStage, NoTask, Builds

LEMMA InitInv == ASSUME Init PROVE IInv
<1> USE DEF Init
<1>1. Known = {}
  BY DEF Known, NoBuild
<1>2. TypeOK
  BY <1>1, IdleTypes DEF TypeOK
<1>3. InOrder /\ SlotIsTaken /\ ThreadShape /\ OutcomeIsReal
  BY IdleTypes DEF InOrder, SlotIsTaken, ThreadShape, OutcomeIsReal, NoThread, NoStage, NoBuild
<1>4. FileShape /\ SucceededIsServed /\ StaleOnlyAfterFailure /\ Remembered
      /\ HasNewest
  BY <1>1, IdleTypes DEF FileShape, SucceededIsServed, StaleOnlyAfterFailure, Remembered,
     HasNewest, NoBuild, NoTask
<1>5. QED
  BY <1>2, <1>3, <1>4 DEF IInv

(* What the loop takes from its queue, and what stays. *)
LEMMA QueueHead ==
    ASSUME TypeOK, OutcomeIsReal, ready # << >>
    PROVE  /\ Head(ready) \in Callback /\ Head(ready) = ready[1] /\ 1 \in 1 .. Len(ready)
           /\ Head(ready).kind = "progress" => Head(ready).what \in Stages
           /\ Head(ready).kind = "done" =>
                  Head(ready).what \in {"ok", "error"}
                  /\ Outcome(Head(ready).task, Head(ready).what)
           /\ Tail(ready) \in Seq(Callback)
           /\ \A i \in 1 .. Len(Tail(ready)) :
                  i + 1 \in 1 .. Len(ready) /\ Tail(ready)[i] = ready[i + 1]
<1>1. ready \in Seq(Callback)
  BY DEF TypeOK
<1>2. /\ Len(ready) \in Nat /\ Len(ready) > 0
      /\ Head(ready) \in Callback /\ Head(ready) = ready[1]
  BY <1>1
<1>3. /\ Tail(ready) \in Seq(Callback)
      /\ \A i \in 1 .. Len(Tail(ready)) :
             i + 1 \in 1 .. Len(ready) /\ Tail(ready)[i] = ready[i + 1]
  BY <1>1
<1>4. QED
  BY <1>2, <1>3 DEF OutcomeIsReal

LEMMA QueuedTasks == ASSUME TypeOK PROVE \A i \in 1 .. Len(ready) : ready[i].task \in Builds
<1>1. ready \in Seq(Callback)
  BY DEF TypeOK
<1>2. \A i \in 1 .. Len(ready) : ready[i] \in Callback
  BY <1>1
<1>3. QED
  BY <1>2 DEF Callback

(* What is handed over goes to the end. *)
LEMMA QueueAppend ==
    ASSUME TypeOK, NEW m \in Callback, Hand(m)
    PROVE  /\ ready' \in Seq(Callback)
           /\ \A i \in 1 .. Len(ready') :
                  (i \in 1 .. Len(ready) /\ ready'[i] = ready[i]) \/ ready'[i] = m
<1>1. ready \in Seq(Callback)
  BY DEF TypeOK
<1>2. QED
  BY <1>1 DEF Hand

(* Builds that are known stay so, unless the process is gone. *)
LEMMA KnownKept ==
    ASSUME TypeOK, NEW t \in Builds, NEW b \in Task, b.state # "none",
           task' = [task EXCEPT ![t] = b]
    PROVE  Known' = Known \cup {t}
BY DEF TypeOK, Known

LEMMA EndType ==
    ASSUME TypeOK, NEW t \in Builds, NEW state \in {"succeeded", "failed"}, End(t, state)
    PROVE  /\ task' \in [Builds -> Task] /\ Known \subseteq Known' /\ remembered' \subseteq Known'
           /\ active' = NoTask
           /\ runner' \in [Builds -> {"none", "new", "waiting", "cancelled", "done"}]
<1>1. [task[t] EXCEPT !.state = state] \in Task
  BY DEF TypeOK, Task
<1>2. task' = [task EXCEPT ![t] = [task[t] EXCEPT !.state = state]]
  BY DEF End
<1>3. [task[t] EXCEPT !.state = state].state # "none"
  BY DEF TypeOK, Task
<1>4. Known' = Known \cup {t}
  BY <1>1, <1>2, <1>3, KnownKept
<1>5. QED
  BY <1>1, <1>2, <1>4 DEF TypeOK, End

LEMMA TypeStep == ASSUME TypeOK, SlotIsTaken, OutcomeIsReal, [Next]_vars PROVE TypeOK'
<1> USE DEF manager, worker
<1>1. CASE UNCHANGED vars
  BY <1>1 DEF TypeOK, vars, Known
<1>2. ASSUME NEW t \in Builds, NEW dry \in BOOLEAN, Start(t, dry) PROVE TypeOK'
  <2>1. Started(dry) \in Task /\ Started(dry).state # "none"
    BY DEF Started, NoBuild, Task, NoStage
  <2>2. Known' = Known \cup {t}
    BY <1>2, <2>1, KnownKept DEF Start
  <2>3. remembered' \subseteq Known'
    BY <1>2, <2>2 DEF Start, Trim, TypeOK
  <2>4. QED
    BY <1>2, <2>1, <2>2, <2>3 DEF TypeOK, Start
<1>3. ASSUME NEW t \in Builds, RunnerStarts(t) PROVE TypeOK'
  <2>1. CASE End(t, "failed") /\ UNCHANGED <<future, thread>>
    BY <1>3, <2>1, EndType DEF TypeOK, RunnerStarts
  <2>2. CASE /\ runner' = [runner EXCEPT ![t] = "waiting"]
             /\ future' = [future EXCEPT ![t] = "pending"]
             /\ thread' = [thread EXCEPT ![t].pc = "run"]
             /\ UNCHANGED manager
    <3>1. [thread[t] EXCEPT !.pc = "run"] \in Thread
      BY DEF TypeOK, Thread
    <3>2. thread' \in [Builds -> Thread]
      BY <2>2, <3>1 DEF TypeOK
    <3>3. Known' = Known
      BY <2>2 DEF Known
    <3>4. QED
      BY <1>3, <2>2, <3>2, <3>3 DEF TypeOK, RunnerStarts
  <2>3. QED
    BY <1>3, <2>1, <2>2 DEF RunnerStarts
<1>4. ASSUME NEW t \in Builds, RunnerResumes(t) PROVE TypeOK'
  <2>1. repo' \in Builds \cup {NoTask}
    BY <1>4 DEF TypeOK, RunnerResumes, Refreshes
  <2>2. End(t, "succeeded") \/ End(t, "failed")
    BY <1>4 DEF RunnerResumes
  <2>3. UNCHANGED <<phase, future, worker>>
    BY <1>4 DEF RunnerResumes
  <2>4. QED
    BY <2>1, <2>2, <2>3, EndType DEF TypeOK
<1>5. ASSUME NEW t \in Builds, RunnerCancelled(t) PROVE TypeOK'
  BY <1>5, EndType DEF TypeOK, RunnerCancelled
<1>6. ASSUME NEW t \in Builds, ThreadReports(t) PROVE TypeOK'
  <2>1. PICK s \in After(thread[t].stage, task[t].dry) :
            /\ thread' = [thread EXCEPT ![t].stage = s]
            /\ Hand([kind |-> "progress", task |-> t, what |-> s])
    BY <1>6 DEF ThreadReports
  <2>2. s \in Stages
    BY <2>1 DEF After, Stages
  <2>3. [thread[t] EXCEPT !.stage = s] \in Thread
    BY <2>2 DEF TypeOK, Thread
  <2>4. thread' \in [Builds -> Thread]
    BY <2>1, <2>3 DEF TypeOK
  <2>5. [kind |-> "progress", task |-> t, what |-> s] \in Callback
    BY <2>2 DEF Callback
  <2>6. ready' \in Seq(Callback)
    BY <2>1, <2>5, QueueAppend
  <2>7. UNCHANGED <<phase, manager, runner, future, content, repo>>
    BY <1>6 DEF ThreadReports
  <2>8. QED
    BY <2>4, <2>6, <2>7 DEF TypeOK, Known
<1>7. ASSUME NEW t \in Builds, ThreadReplaces(t) PROVE TypeOK'
  <2>1. [thread[t] EXCEPT !.replaced = TRUE] \in Thread
    BY DEF TypeOK, Thread
  <2>2. thread' \in [Builds -> Thread]
    BY <1>7, <2>1 DEF TypeOK, ThreadReplaces
  <2>3. QED
    BY <1>7, <2>2 DEF TypeOK, ThreadReplaces, Known
<1>8. ASSUME NEW t \in Builds, NEW what \in {"ok", "error"},
             ThreadReturns(t) \/ ThreadFails(t), Hand([kind |-> "done", task |-> t, what |-> what])
      PROVE  TypeOK'
  <2>1. [thread[t] EXCEPT !.pc = "over"] \in Thread
    BY DEF TypeOK, Thread
  <2>2. thread' \in [Builds -> Thread]
    BY <1>8, <2>1 DEF TypeOK, ThreadReturns, ThreadFails
  <2>3. ready' \in Seq(Callback)
    <3>1. [kind |-> "done", task |-> t, what |-> what] \in Callback
      BY DEF Callback
    <3>2. QED
      BY <1>8, <3>1, QueueAppend
  <2>4. QED
    BY <1>8, <2>2, <2>3 DEF TypeOK, ThreadReturns, ThreadFails, Known
<1>9. CASE LoopProgress
  <2> DEFINE m == Head(ready)
  <2>1. m \in Callback /\ m.what \in Stages /\ Tail(ready) \in Seq(Callback)
    BY <1>9, QueueHead DEF LoopProgress
  <2>2. m.task \in Builds
    BY <2>1 DEF Callback
  <2>3. CASE task[m.task].state = "running"
    <3>1. [task[m.task] EXCEPT !.stage = m.what] \in Task
      BY <2>1, <2>2 DEF TypeOK, Task
    <3>2. task' = [task EXCEPT ![m.task] = [task[m.task] EXCEPT !.stage = m.what]]
      BY <1>9, <2>3 DEF LoopProgress, OnProgress
    <3>3. [task[m.task] EXCEPT !.stage = m.what].state # "none"
      BY <2>2, <2>3 DEF TypeOK, Task
    <3>4. Known' = Known \cup {m.task}
      BY <2>2, <3>1, <3>2, <3>3, KnownKept
    <3>5. task' \in [Builds -> Task]
      BY <3>1, <3>2 DEF TypeOK
    <3>6. QED
      BY <1>9, <2>1, <3>4, <3>5 DEF TypeOK, LoopProgress
  <2>4. CASE task[m.task].state # "running"
    BY <1>9, <2>1, <2>4 DEF TypeOK, LoopProgress, OnProgress, Known
  <2>5. QED
    BY <2>3, <2>4
<1>10. CASE LoopDone
  <2>1. /\ Head(ready) \in Callback /\ Head(ready).what \in {"ok", "error"}
        /\ Tail(ready) \in Seq(Callback)
    BY <1>10, QueueHead DEF LoopDone
  <2>2. future' \in [Builds -> {"none", "pending", "ok", "error", "cancelled"}]
    BY <1>10, <2>1 DEF TypeOK, LoopDone
  <2>3. QED
    BY <1>10, <2>1, <2>2 DEF TypeOK, LoopDone, Known
<1>11. CASE Shutdown \/ Boot
  BY <1>11 DEF TypeOK, Shutdown, Boot, Known
<1>12. CASE CancelAll
  <2>1. \A t \in Builds : [task[t] EXCEPT !.state = "failed"] \in Task
    BY DEF TypeOK, Task
  <2>2. task' \in [Builds -> Task]
    BY <1>12, <2>1 DEF TypeOK, CancelAll
  <2>3. \A t \in Builds : [task[t] EXCEPT !.state = "failed"].state = "failed"
    BY DEF TypeOK, Task
  <2>4. Known \subseteq Known'
    BY <1>12, <2>3 DEF CancelAll, Known
  <2>5. QED
    BY <1>12, <2>2, <2>4 DEF TypeOK, CancelAll
<1>13. CASE Exit \/ Crash
  <2>1. Gone
    BY <1>13 DEF Exit, Crash
  <2>2. QED
    BY <2>1, IdleTypes DEF TypeOK, Gone, Known
<1>14. QED
  <2>1. ASSUME NEW t \in Builds, ThreadReturns(t) \/ ThreadFails(t)
        PROVE  \E what \in {"ok", "error"} : Hand([kind |-> "done", task |-> t, what |-> what])
    BY <2>1 DEF ThreadReturns, ThreadFails
  <2>2. ASSUME NEW t \in Builds, ThreadStep(t) PROVE TypeOK'
    BY <2>2, <2>1, <1>6, <1>7, <1>8 DEF ThreadStep
  <2>3. QED
    BY <1>1, <1>2, <1>3, <1>4, <1>5, <1>9, <1>10, <1>11, <1>12, <1>13, <2>2 DEF Next, LoopStep

-----------------------------------------------------------------------------
(* What the steps change, build by build *)

LEMMA EndFacts ==
    ASSUME TypeOK, NEW t \in Builds, NEW state, End(t, state)
    PROVE  /\ task'[t].state = state /\ task'[t].dry = task[t].dry /\ task'[t].stage = task[t].stage
           /\ runner'[t] = "done" /\ active' = NoTask /\ remembered' = remembered
           /\ \A u \in Builds \ {t} : task'[u] = task[u] /\ runner'[u] = runner[u]
BY DEF TypeOK, Task, End

LEMMA ProgressFacts ==
    ASSUME TypeOK, OutcomeIsReal, LoopProgress
    PROVE  /\ \A u \in Builds : task'[u].state = task[u].state /\ task'[u].dry = task[u].dry
           /\ \A u \in Builds : task[u].state # "running" => task'[u] = task[u]
           /\ UNCHANGED <<phase, remembered, active, runner, future, thread, content, repo>>
<1>1. Head(ready) \in Callback
  BY QueueHead DEF LoopProgress
<1>2. QED
  BY <1>1 DEF TypeOK, Task, LoopProgress, OnProgress, Callback

LEMMA CancelFacts ==
    ASSUME TypeOK, CancelAll
    PROVE  /\ phase = "closing" /\ phase' = "stopping"
           /\ \A t \in Builds : task'[t].dry = task[t].dry
           /\ \A t \in Builds : runner[t] = "waiting" =>
                  /\ runner'[t] = "cancelled" /\ task'[t].state = "failed"
                  /\ future'[t] \in {"cancelled", future[t]}
           /\ \A t \in Builds : runner[t] # "waiting" =>
                  /\ runner'[t] = IF runner[t] = "new" THEN "done" ELSE runner[t]
                  /\ task'[t] = task[t] /\ future'[t] = future[t]
           /\ UNCHANGED <<remembered, active, thread, ready, content, repo>>
<1>1. \A t \in Builds : [task[t] EXCEPT !.state = "failed"].state = "failed"
                        /\ [task[t] EXCEPT !.state = "failed"].dry = task[t].dry
  BY DEF TypeOK, Task
<1>2. QED
  BY <1>1 DEF CancelAll, worker, TypeOK

(* A step of a thread, but for what it hands over. *)
LEMMA ThreadFacts ==
    ASSUME TypeOK, NEW t \in Builds, ThreadStep(t)
    PROVE  /\ UNCHANGED <<phase, manager, runner, future, repo>>
           /\ thread[t].pc = "run" /\ thread'[t].pc \in {"run", "over"}
           /\ \A u \in Builds \ {t} : thread'[u] = thread[u]
           /\ \/ thread'[t].replaced = thread[t].replaced /\ content' = content
              \/ thread'[t].replaced /\ content' = t
                 /\ thread'[t].stage = thread[t].stage /\ thread[t].stage = "write"
           /\ \/ thread'[t].stage = thread[t].stage
              \/ thread'[t].stage \in After(thread[t].stage, task[t].dry)
                 /\ (thread'[t].stage = "written" => thread[t].replaced)
                 /\ thread'[t].replaced = thread[t].replaced
<1>1. CASE ThreadReports(t)
  BY <1>1 DEF ThreadReports, TypeOK, Thread
<1>2. CASE ThreadReplaces(t)
  BY <1>2 DEF ThreadReplaces, TypeOK, Thread
<1>3. CASE ThreadReturns(t) \/ ThreadFails(t)
  BY <1>3 DEF ThreadReturns, ThreadFails, TypeOK, Thread
<1>4. QED
  BY <1>1, <1>2, <1>3 DEF ThreadStep

LEMMA OrderStep ==
    ASSUME TypeOK, InOrder, SlotIsTaken, ThreadShape, OutcomeIsReal, [Next]_vars
    PROVE  InOrder'
<1> USE DEF InOrder
<1>1. CASE UNCHANGED vars
  BY <1>1 DEF vars, manager, worker
<1>2. ASSUME NEW t \in Builds, NEW dry \in BOOLEAN, Start(t, dry) PROVE InOrder'
  <2>1. /\ \A u \in Builds \ {t} : runner'[u] = runner[u] /\ task'[u] = task[u]
        /\ runner[t] = "none" /\ runner'[t] = "new"
        /\ \A u \in 1 .. t - 1 : runner[u] # "none"
        /\ content' = content /\ thread' = thread
    BY <1>2 DEF Start, TypeOK, worker
  <2>2. \A u \in Builds : u < t => u \in 1 .. t - 1
    BY BuildAssumption DEF Builds
  <2>3. QED
    BY <2>1, <2>2 DEF Builds
<1>3. ASSUME NEW t \in Builds, RunnerStarts(t) PROVE InOrder'
  <2>1. runner[t] = "new" /\ content' = content
    BY <1>3 DEF RunnerStarts
  <2>2. CASE End(t, "failed") /\ UNCHANGED <<future, thread>>
    BY <2>1, <2>2, EndFacts
  <2>3. CASE /\ runner' = [runner EXCEPT ![t] = "waiting"]
             /\ thread' = [thread EXCEPT ![t].pc = "run"]
             /\ UNCHANGED manager
    BY <2>1, <2>3 DEF TypeOK, manager
  <2>4. QED
    BY <1>3, <2>2, <2>3 DEF RunnerStarts
<1>4. ASSUME NEW t \in Builds, RunnerResumes(t) \/ RunnerCancelled(t) PROVE InOrder'
  <2>1. /\ runner[t] \in {"waiting", "cancelled"} /\ content' = content /\ thread' = thread
        /\ End(t, "succeeded") \/ End(t, "failed")
    BY <1>4 DEF RunnerResumes, RunnerCancelled, worker
  <2>2. QED
    BY <2>1, EndFacts
<1>5. ASSUME NEW t \in Builds, ThreadStep(t) PROVE InOrder'
  <2>1. runner[t] # "none" /\ runner[t] # "new"
    BY <1>5, ThreadFacts DEF NoThread
  <2>2. QED
    BY <1>5, <2>1, ThreadFacts DEF manager
<1>6. CASE LoopProgress
  <2>1. ASSUME NEW t \in Builds, runner[t] = "none" PROVE task[t].state # "running"
    BY <2>1 DEF NoBuild
  <2>2. QED
    BY <1>6, <2>1, ProgressFacts
<1>7. CASE LoopDone \/ Shutdown \/ Boot
  BY <1>7 DEF LoopDone, Shutdown, Boot, manager, worker
<1>8. CASE CancelAll
  BY <1>8, CancelFacts
<1>9. CASE Exit \/ Crash
  <2>1. Gone
    BY <1>9 DEF Exit, Crash
  <2>2. QED
    BY <2>1 DEF Gone
<1>10. QED
  BY <1>1, <1>2, <1>3, <1>4, <1>5, <1>6, <1>7, <1>8, <1>9 DEF Next, LoopStep

LEMMA SlotStep ==
    ASSUME TypeOK, InOrder, SlotIsTaken, ThreadShape, OutcomeIsReal, [Next]_vars
    PROVE  SlotIsTaken'
<1> USE DEF SlotIsTaken, Last
<1>0. NoTask \notin Builds
  BY IdleTypes
<1>1. CASE UNCHANGED vars
  BY <1>1 DEF vars, manager
<1>2. ASSUME NEW t \in Builds, NEW dry \in BOOLEAN, Start(t, dry) PROVE SlotIsTaken'
  <2>1. /\ \A u \in Builds \ {t} : runner'[u] = runner[u] /\ task'[u] = task[u]
        /\ phase' = phase /\ phase = "up" /\ active = NoTask /\ active' = t
        /\ runner[t] = "none" /\ runner'[t] = "new" /\ task'[t].state = "running"
    BY <1>2 DEF Start, Idle, Started, NoBuild, TypeOK
  <2>2. \A u \in Builds : u > t => u # t
    BY DEF Builds
  <2>3. QED
    BY <1>0, <2>1, <2>2 DEF InOrder
<1>3. ASSUME NEW t \in Builds, RunnerStarts(t) PROVE SlotIsTaken'
  <2>1. runner[t] = "new" /\ phase' = phase
    BY <1>3 DEF RunnerStarts
  <2>2. CASE End(t, "failed")
    BY <1>0, <2>1, <2>2, EndFacts
  <2>3. CASE runner' = [runner EXCEPT ![t] = "waiting"] /\ UNCHANGED manager
    BY <2>1, <2>3 DEF TypeOK, manager
  <2>4. QED
    BY <1>3, <2>2, <2>3 DEF RunnerStarts
<1>4. ASSUME NEW t \in Builds, RunnerResumes(t) PROVE SlotIsTaken'
  <2>1. /\ runner[t] = "waiting" /\ phase' = phase
        /\ End(t, "succeeded") \/ End(t, "failed")
    BY <1>4 DEF RunnerResumes
  <2>2. QED
    BY <1>0, <2>1, EndFacts
<1>5. ASSUME NEW t \in Builds, RunnerCancelled(t) PROVE SlotIsTaken'
  <2>1. runner[t] = "cancelled" /\ phase' = phase /\ End(t, "failed")
    BY <1>5 DEF RunnerCancelled
  <2>2. QED
    BY <1>0, <2>1, EndFacts
<1>6. ASSUME NEW t \in Builds, ThreadStep(t) PROVE SlotIsTaken'
  BY <1>6, ThreadFacts DEF manager
<1>7. CASE LoopProgress
  BY <1>7, ProgressFacts DEF TypeOK, Known
<1>8. CASE LoopDone \/ Shutdown \/ Boot
  BY <1>8 DEF LoopDone, Shutdown, Boot, manager
<1>9. CASE CancelAll
  BY <1>9, CancelFacts
<1>10. CASE Exit \/ Crash
  <2>1. Gone
    BY <1>10 DEF Exit, Crash
  <2>2. QED
    BY <2>1 DEF Gone, NoBuild
<1>11. QED
  BY <1>1, <1>2, <1>3, <1>4, <1>5, <1>6, <1>7, <1>8, <1>9, <1>10 DEF Next, LoopStep

-----------------------------------------------------------------------------
(* The threads and what they report *)

(* While a build holds the slot, only its thread may run. *)
LEMMA OnlyHolderRuns ==
    ASSUME SlotIsTaken, ThreadShape, phase \in {"up", "closing"},
           NEW t \in Builds, thread[t].pc = "run"
    PROVE  active = t /\ runner[t] = "waiting" /\ task[t].state = "running"
BY DEF SlotIsTaken, ThreadShape

LEMMA FileIsNotNewer ==
    ASSUME TypeOK, InOrder, NEW t \in Builds, Last(t)
    PROVE  content <= t
<1>1. CASE content = NoTask
  BY <1>1 DEF NoTask, Builds
<1>2. CASE content \in Builds
  <2>1. runner[content] # "none"
    BY <1>2 DEF InOrder
  <2>2. ~(content > t)
    BY <1>2, <2>1 DEF Last
  <2>3. QED
    BY <1>2, <2>2 DEF Builds
<1>3. QED
  BY <1>1, <1>2 DEF TypeOK

(* What a stage leads to. *)
LEMMA AfterFacts ==
    ASSUME NEW stage \in Stages \cup {NoStage}, NEW dry \in BOOLEAN
    PROVE  /\ \A s \in After(stage, dry) :
                  /\ s \in Stages
                  /\ s = "write" => ~dry
                  /\ s = "written" => stage = "write"
                  /\ stage \notin {"written"}
                  /\ stage = "write" => s = "written"
           /\ After(stage, dry) = {} => stage = "written" \/ dry
<1>1. CASE stage = NoStage
  BY <1>1 DEF After, Stages, NoStage
<1>2. CASE stage = "import"
  BY <1>2 DEF After, Stages, NoStage
<1>3. CASE stage = "enrich"
  BY <1>3 DEF After, Stages, NoStage
<1>4. CASE stage = "write"
  BY <1>4 DEF After, Stages, NoStage
<1>5. CASE stage = "written"
  BY <1>5 DEF After, Stages, NoStage
<1>6. QED
  BY <1>1, <1>2, <1>3, <1>4, <1>5 DEF Stages

LEMMA ThreadShapeStep ==
    ASSUME TypeOK, InOrder, SlotIsTaken, ThreadShape, OutcomeIsReal, [Next]_vars
    PROVE  ThreadShape'
<1> USE DEF ThreadShape
<1>0. \A t \in Builds : thread[t] \in Thread
  BY DEF TypeOK
<1>1. CASE UNCHANGED vars
  BY <1>1 DEF vars, manager, worker, Last
<1>2. ASSUME NEW t \in Builds, NEW dry \in BOOLEAN, Start(t, dry) PROVE ThreadShape'
  <2>1. /\ \A u \in Builds \ {t} : runner'[u] = runner[u] /\ task'[u] = task[u]
        /\ phase' = phase /\ phase = "up" /\ active = NoTask
        /\ thread' = thread /\ content' = content
        /\ thread[t] = NoThread
    BY <1>2 DEF Start, Idle, TypeOK, worker, InOrder
  <2>2. \A u \in Builds : thread[u].pc # "run"
    BY <2>1, IdleTypes, OnlyHolderRuns
  <2>3. QED
    BY <2>1, <2>2 DEF NoThread, NoStage
<1>3. ASSUME NEW t \in Builds, RunnerStarts(t) PROVE ThreadShape'
  <2>1. /\ runner[t] = "new" /\ phase' = phase /\ content' = content
        /\ phase \in {"up", "closing"} /\ active = t /\ thread[t] = NoThread /\ Last(t)
    BY <1>3, IdleTypes DEF RunnerStarts, SlotIsTaken, InOrder
  <2>2. \A u \in Builds : thread[u].pc # "run"
    BY <2>1, OnlyHolderRuns
  <2>3. CASE End(t, "failed") /\ UNCHANGED <<future, thread>>
    BY <2>1, <2>2, <2>3, EndFacts
  <2>4. CASE /\ runner' = [runner EXCEPT ![t] = "waiting"]
             /\ thread' = [thread EXCEPT ![t].pc = "run"]
             /\ UNCHANGED manager
    <3>1. /\ thread'[t].pc = "run" /\ thread'[t].stage = NoStage /\ ~thread'[t].replaced
          /\ \A u \in Builds \ {t} : thread'[u] = thread[u]
          /\ runner'[t] = "waiting"
      BY <1>0, <2>1, <2>4 DEF TypeOK, NoThread, Thread
    <3>2. Last(t)'
      BY <2>1, <2>4 DEF Last, TypeOK, Builds
    <3>3. QED
      BY <2>1, <2>2, <2>4, <3>1, <3>2 DEF manager, NoStage
  <2>5. QED
    BY <1>3, <2>3, <2>4 DEF RunnerStarts
<1>4. ASSUME NEW t \in Builds, RunnerResumes(t) \/ RunnerCancelled(t) PROVE ThreadShape'
  <2>1. /\ runner[t] \in {"waiting", "cancelled"} /\ phase' = phase
        /\ content' = content /\ thread' = thread
        /\ runner[t] = "waiting" => future[t] \in {"ok", "error"}
        /\ runner[t] = "cancelled" => phase = "stopping" /\ End(t, "failed")
        /\ End(t, "succeeded") \/ End(t, "failed")
    BY <1>4 DEF RunnerResumes, RunnerCancelled, worker, SlotIsTaken
  <2>2. runner[t] = "waiting" => thread[t].pc # "run"
    BY <2>1 DEF OutcomeIsReal, Outcome
  <2>3. ASSUME NEW u \in Builds, Last(u) PROVE Last(u)'
    BY <2>1, <2>3, EndFacts DEF Last
  <2>4. QED
    BY <2>1, <2>2, <2>3, EndFacts
<1>5. ASSUME NEW t \in Builds, ThreadStep(t) PROVE ThreadShape'
  <2>1. Last(t) /\ \A u \in Builds \ {t} : thread[u].pc # "run"
    BY <1>5, ThreadFacts
  <2>2. content <= t /\ content \in Nat
    BY <2>1, FileIsNotNewer DEF TypeOK, Builds, NoTask
  <2>3. content' >= content /\ content' \in Nat
    BY <1>5, <2>2, ThreadFacts DEF Builds
  <2>4. /\ runner' = runner /\ phase' = phase /\ task' = task
        /\ \A u \in Builds \ {t} : thread'[u] = thread[u]
    BY <1>5, ThreadFacts DEF manager
  <2>5. \A u \in Builds : Last(u) => Last(u)'
    BY <2>4 DEF Last
  <2>6. ASSUME NEW u \in Builds \ {t}
        PROVE  /\ thread'[u].pc # "run"
               /\ thread'[u].stage \in {"write", "written"} => ~task'[u].dry
               /\ thread'[u].stage = "written" => thread'[u].replaced
               /\ thread'[u].replaced =>
                      content' >= u /\ thread'[u].stage \in {"write", "written"}
    BY <2>1, <2>2, <2>3, <2>4 DEF Builds
  <2>7. /\ thread'[t].stage \in {"write", "written"} => ~task'[t].dry
        /\ thread'[t].stage = "written" => thread'[t].replaced
        /\ thread'[t].replaced => thread'[t].stage \in {"write", "written"}
    <3>1. thread[t].stage \in Stages \cup {NoStage} /\ task[t].dry \in BOOLEAN
      BY <1>0 DEF TypeOK, Thread, Task
    <3>2. QED
      BY <1>5, <2>4, <3>1, ThreadFacts, AfterFacts
  <2>8. thread'[t].replaced => content' >= t
    BY <1>5, <2>2, <2>3, ThreadFacts DEF Builds
  <2>9. thread'[t].pc = "run" => \/ phase' \in {"up", "closing"} /\ runner'[t] = "waiting"
                                 \/ phase' = "stopping" /\ task'[t].state = "failed"
    BY <1>5, <2>4, ThreadFacts
  <2>10. QED
    BY <2>1, <2>5, <2>6, <2>7, <2>8, <2>9
<1>6. CASE LoopProgress
  BY <1>6, ProgressFacts DEF Last
<1>7. CASE LoopDone \/ Shutdown \/ Boot
  BY <1>7 DEF LoopDone, Shutdown, Boot, manager, worker, Last
<1>8. CASE CancelAll
  <2>1. ASSUME NEW u \in Builds, Last(u) PROVE Last(u)'
    BY <1>8, <2>1, CancelFacts DEF Last
  <2>2. QED
    BY <1>8, <2>1, CancelFacts
<1>9. CASE Exit \/ Crash
  <2>1. Gone
    BY <1>9 DEF Exit, Crash
  <2>2. QED
    BY <2>1 DEF Gone, NoThread, NoStage
<1>10. QED
  BY <1>1, <1>2, <1>3, <1>4, <1>5, <1>6, <1>7, <1>8, <1>9 DEF Next, LoopStep

(* A step that hands nothing over keeps the outcomes of what is queued, if *)
(* threads that are over stay as they are.                                 *)
LEMMA MailKept ==
    ASSUME TypeOK, OutcomeIsReal,
           \A t \in Builds, what \in {"ok", "error"} : Outcome(t, what) => Outcome(t, what)',
           ready' = ready,
           \A t \in Builds : future'[t] \in {"ok", "error"} => future'[t] = future[t]
    PROVE  OutcomeIsReal'
<1>1. \A i \in 1 .. Len(ready) : ready[i].task \in Builds
  BY QueuedTasks
<1>2. QED
  BY <1>1 DEF OutcomeIsReal

LEMMA OutcomeStep ==
    ASSUME TypeOK, InOrder, SlotIsTaken, ThreadShape, OutcomeIsReal, [Next]_vars
    PROVE  OutcomeIsReal'
<1> DEFINE Kept == \A t \in Builds, what \in {"ok", "error"} : Outcome(t, what) => Outcome(t, what)'
<1>1. CASE UNCHANGED vars
  BY <1>1, MailKept DEF vars, manager, worker, Outcome
<1>2. ASSUME NEW t \in Builds, NEW dry \in BOOLEAN, Start(t, dry) PROVE OutcomeIsReal'
  <2>1. thread[t].pc # "over"
    BY <1>2 DEF Start, InOrder, NoThread
  <2>2. Kept
    BY <1>2, <2>1 DEF Start, Outcome, TypeOK, worker
  <2>3. QED
    BY <1>2, <2>2, MailKept DEF Start, worker
<1>3. ASSUME NEW t \in Builds, RunnerStarts(t) PROVE OutcomeIsReal'
  <2>1. /\ thread[t].pc # "over" /\ ready' = ready
        /\ \A u \in Builds \ {t} : thread'[u] = thread[u]
        /\ \A u \in Builds : task'[u].dry = task[u].dry
        /\ \A u \in Builds : future'[u] \in {future[u], "pending"}
    BY <1>3, EndFacts DEF RunnerStarts, InOrder, NoThread, TypeOK, manager
  <2>2. Kept
    BY <2>1 DEF Outcome
  <2>3. QED
    BY <2>1, <2>2, MailKept
<1>4. ASSUME NEW t \in Builds, RunnerResumes(t) \/ RunnerCancelled(t) PROVE OutcomeIsReal'
  <2>1. /\ thread' = thread /\ ready' = ready /\ future' = future
        /\ End(t, "succeeded") \/ End(t, "failed")
    BY <1>4 DEF RunnerResumes, RunnerCancelled, worker
  <2>2. \A u \in Builds : task'[u].dry = task[u].dry
    BY <2>1, EndFacts
  <2>3. Kept
    BY <2>1, <2>2 DEF Outcome
  <2>4. QED
    BY <2>1, <2>3, MailKept
<1>5. ASSUME NEW t \in Builds, ThreadStep(t) PROVE OutcomeIsReal'
  <2>1. Kept
    BY <1>5, ThreadFacts DEF Outcome, manager
  <2>2. \A u \in Builds : future'[u] \in {"ok", "error"} => Outcome(u, future[u])'
    BY <1>5, <2>1, ThreadFacts DEF OutcomeIsReal
  <2>3. CASE ThreadReplaces(t)
    BY <2>1, <2>3, MailKept DEF ThreadReplaces
  <2>4. ASSUME NEW m \in Callback, Hand(m),
               m.kind = "progress" => m.what \in Stages,
               m.kind = "done" => m.what \in {"ok", "error"} /\ Outcome(t, m.what)' /\ m.task = t
        PROVE  OutcomeIsReal'
    <3>1. \A i \in 1 .. Len(ready') :
                  (i \in 1 .. Len(ready) /\ ready'[i] = ready[i]) \/ ready'[i] = m
      BY <2>4, QueueAppend
    <3>2. \A i \in 1 .. Len(ready) : ready[i].task \in Builds
      BY QueuedTasks
    <3>3. ASSUME NEW i \in 1 .. Len(ready')
          PROVE  /\ ready'[i].kind = "progress" => ready'[i].what \in Stages
                 /\ ready'[i].kind = "done" =>
                        ready'[i].what \in {"ok", "error"} /\ Outcome(ready[i].task, ready[i].what)'
      BY <2>1, <2>4, <3>1, <3>2 DEF OutcomeIsReal
    <3>4. QED
      BY <2>2, <3>3 DEF OutcomeIsReal
  <2>5. CASE ThreadReports(t)
    <3>1. PICK s \in After(thread[t].stage, task[t].dry) :
              Hand([kind |-> "progress", task |-> t, what |-> s])
      BY <2>5 DEF ThreadReports
    <3>2. s \in Stages
      BY <3>1 DEF After, Stages
    <3>3. [kind |-> "progress", task |-> t, what |-> s] \in Callback
      BY <3>2 DEF Callback
    <3>4. QED
      BY <2>4, <3>1, <3>2, <3>3
  <2>6. CASE ThreadReturns(t)
    <3>1. thread[t].stage \in Stages \cup {NoStage} /\ task[t].dry \in BOOLEAN
      BY DEF TypeOK, Thread, Task
    <3>2. task[t].dry \/ thread[t].replaced
      BY <2>6, <3>1, AfterFacts DEF ThreadReturns, ThreadShape
    <3>3. Outcome(t, "ok")'
      BY <2>6, <3>2 DEF ThreadReturns, Outcome, TypeOK, Thread, manager
    <3>4. [kind |-> "done", task |-> t, what |-> "ok"] \in Callback
      BY DEF Callback
    <3>5. QED
      BY <2>4, <2>6, <3>3, <3>4 DEF ThreadReturns
  <2>7. CASE ThreadFails(t)
    <3>1. Outcome(t, "error")'
      BY <2>7 DEF ThreadFails, Outcome, TypeOK, Thread
    <3>2. [kind |-> "done", task |-> t, what |-> "error"] \in Callback
      BY DEF Callback
    <3>3. QED
      BY <2>4, <2>7, <3>1, <3>2 DEF ThreadFails
  <2>8. QED
    BY <1>5, <2>3, <2>5, <2>6, <2>7 DEF ThreadStep
<1>6. CASE LoopProgress \/ LoopDone
  <2>1. /\ ready # << >> /\ ready' = Tail(ready) /\ thread' = thread
        /\ \A u \in Builds : task'[u].dry = task[u].dry
    BY <1>6, ProgressFacts DEF LoopProgress, LoopDone, manager
  <2>2. \A t \in Builds, what \in {"ok", "error"} : Outcome(t, what) => Outcome(t, what)'
    BY <2>1 DEF Outcome
  <2>3. \A i \in 1 .. Len(ready) : ready[i].task \in Builds
    BY QueuedTasks
  <2>4. \A u \in Builds : future'[u] \in {"ok", "error"} => Outcome(u, future'[u])
    <3>1. CASE LoopProgress
      BY <3>1, ProgressFacts DEF OutcomeIsReal
    <3>2. CASE LoopDone
      <4>1. /\ Head(ready) \in Callback
            /\ Outcome(Head(ready).task, Head(ready).what)
        BY <3>2, QueueHead DEF LoopDone
      <4>2. QED
        BY <3>2, <4>1 DEF LoopDone, OutcomeIsReal, Callback, TypeOK
    <3>3. QED
      BY <1>6, <3>1, <3>2
  <2>5. \A u \in Builds : future'[u] \in {"ok", "error"} => Outcome(u, future[u])'
    BY <2>2, <2>4
  <2>6. \A i \in 1 .. Len(ready') :
            i + 1 \in 1 .. Len(ready) /\ ready'[i] = ready[i + 1]
    BY <2>1, QueueHead
  <2>7. QED
    BY <2>2, <2>3, <2>5, <2>6 DEF OutcomeIsReal
<1>7. CASE Shutdown \/ Boot
  BY <1>7, MailKept DEF Shutdown, Boot, manager, worker, Outcome
<1>8. CASE CancelAll
  <2>1. Kept
    BY <1>8, CancelFacts DEF Outcome
  <2>2. \A u \in Builds : future'[u] \in {"ok", "error"} => future'[u] = future[u]
    BY <1>8, CancelFacts
  <2>3. ready' = ready
    BY <1>8, CancelFacts
  <2>4. QED
    BY <2>1, <2>2, <2>3, MailKept
<1>9. CASE Exit \/ Crash
  <2>1. Gone
    BY <1>9 DEF Exit, Crash
  <2>2. QED
    BY <2>1 DEF Gone, OutcomeIsReal
<1>10. QED
  BY <1>1, <1>2, <1>3, <1>4, <1>5, <1>6, <1>7, <1>8, <1>9 DEF Next, LoopStep

-----------------------------------------------------------------------------
(* The file, what is served, and what the status says *)

FileIsTrue == FileShape /\ SucceededIsServed /\ StaleOnlyAfterFailure

LEMMA Numbers ==
    ASSUME TypeOK
    PROVE  /\ content \in Nat /\ repo \in Nat /\ NoTask = 0 /\ MaxHistory >= 1 /\ MaxHistory \in Nat
           /\ \A t \in Builds : t \in Nat /\ t >= 1
           /\ content = NoTask \/ content \in Builds
BY BuildAssumption DEF TypeOK, Builds, NoTask

(* A step that keeps the file and what is served, and only lets builds     *)
(* fail.                                                                   *)
LEMMA FileKept ==
    ASSUME TypeOK, FileIsTrue, content' = content, repo' = repo, phase # "down",
           \A t \in Builds : \/ task'[t].dry = task[t].dry
                             \/ t # content /\ task'[t].state # "succeeded",
           \A t \in Builds : \/ task'[t].state \in {task[t].state, "failed"}
                             \/ t # content /\ task'[t].state = "running"
    PROVE  FileIsTrue'
<1>1. FileShape'
  BY Numbers DEF FileIsTrue, FileShape
<1>2. SucceededIsServed'
  BY Numbers DEF FileIsTrue, SucceededIsServed
<1>3. StaleOnlyAfterFailure'
  BY Numbers DEF FileIsTrue, FileShape, StaleOnlyAfterFailure
<1>4. QED
  BY <1>1, <1>2, <1>3 DEF FileIsTrue

LEMMA FileStep ==
    ASSUME TypeOK, InOrder, SlotIsTaken, ThreadShape, OutcomeIsReal, FileIsTrue, [Next]_vars
    PROVE  FileIsTrue'
<1> USE Numbers
<1>1. CASE UNCHANGED vars
  BY <1>1 DEF vars, manager, worker, FileIsTrue, FileShape, SucceededIsServed,
     StaleOnlyAfterFailure
<1>2. ASSUME NEW t \in Builds, NEW dry \in BOOLEAN, Start(t, dry) PROVE FileIsTrue'
  <2>1. /\ \A u \in Builds \ {t} : task'[u] = task[u]
        /\ task'[t].state = "running" /\ phase = "up"
        /\ content' = content /\ repo' = repo /\ content # t
    BY <1>2 DEF Start, Started, NoBuild, TypeOK, worker, InOrder
  <2>2. QED
    BY <2>1, FileKept
<1>3. ASSUME NEW t \in Builds, RunnerStarts(t) PROVE FileIsTrue'
  <2>1. content' = content /\ repo' = repo /\ phase # "down"
    BY <1>3 DEF RunnerStarts, SlotIsTaken
  <2>2. \A u \in Builds : /\ task'[u].dry = task[u].dry
                          /\ task'[u].state \in {task[u].state, "failed"}
    BY <1>3, EndFacts DEF RunnerStarts, manager
  <2>3. QED
    BY <2>1, <2>2, FileKept
<1>4. ASSUME NEW t \in Builds, RunnerResumes(t) PROVE FileIsTrue'
  <2>1. /\ content' = content /\ phase' = phase /\ phase # "down"
        /\ runner[t] = "waiting" /\ future[t] \in {"ok", "error"}
    BY <1>4 DEF RunnerResumes, worker, SlotIsTaken
  <2>2. CASE End(t, "failed") /\ repo' = repo
    <3>1. \A u \in Builds : /\ task'[u].dry = task[u].dry
                            /\ task'[u].state \in {task[u].state, "failed"}
      BY <2>2, EndFacts
    <3>2. QED
      BY <2>1, <2>2, <3>1, FileKept
  <2>3. CASE future[t] = "ok" /\ Refreshes(t, TRUE) /\ End(t, "succeeded")
    <3>1. task[t].dry \/ thread[t].replaced
      BY <2>3 DEF OutcomeIsReal, Outcome
    <3>2. /\ task'[t].state = "succeeded" /\ task'[t].dry = task[t].dry
          /\ \A u \in Builds \ {t} : task'[u] = task[u]
      BY <2>3, EndFacts
    <3>3. CASE task[t].dry
      <4>1. content # t /\ repo' = repo
        BY <2>3, <3>3 DEF Refreshes, FileIsTrue, FileShape
      <4>2. FileShape'
        BY <2>1, <3>2, <3>3, <4>1 DEF FileIsTrue, FileShape
      <4>3. SucceededIsServed'
        BY <2>1, <3>2, <3>3, <4>1 DEF FileIsTrue, SucceededIsServed
      <4>4. StaleOnlyAfterFailure'
        BY <2>1, <3>2, <3>3, <4>1 DEF FileIsTrue, FileShape, StaleOnlyAfterFailure
      <4>5. QED
        BY <4>2, <4>3, <4>4 DEF FileIsTrue
    <3>4. CASE ~task[t].dry
      <4>1. repo' = content /\ content >= t
        BY <2>3, <3>1, <3>4 DEF Refreshes, ThreadShape
      <4>2. FileShape' /\ StaleOnlyAfterFailure'
        BY <2>1, <3>2, <3>4, <4>1 DEF FileIsTrue, FileShape, StaleOnlyAfterFailure
      <4>3. SucceededIsServed'
        BY <2>1, <3>2, <4>1 DEF FileIsTrue, SucceededIsServed
      <4>4. QED
        BY <4>2, <4>3 DEF FileIsTrue
    <3>5. QED
      BY <3>3, <3>4
  <2>4. QED
    BY <1>4, <2>2, <2>3 DEF RunnerResumes, Refreshes
<1>5. ASSUME NEW t \in Builds, RunnerCancelled(t) PROVE FileIsTrue'
  <2>1. content' = content /\ repo' = repo /\ phase # "down" /\ End(t, "failed")
    BY <1>5 DEF RunnerCancelled, SlotIsTaken, worker
  <2>2. \A u \in Builds : /\ task'[u].dry = task[u].dry
                          /\ task'[u].state \in {task[u].state, "failed"}
    BY <2>1, EndFacts
  <2>3. QED
    BY <2>1, <2>2, FileKept
<1>6. ASSUME NEW t \in Builds, ThreadStep(t) PROVE FileIsTrue'
  <2>1. /\ task' = task /\ phase' = phase /\ repo' = repo /\ phase # "down"
        /\ task[t].state \in {"running", "failed"}
    BY <1>6, ThreadFacts DEF manager, ThreadShape, SlotIsTaken
  <2>2. CASE content' = content
    BY <2>1, <2>2, FileKept
  <2>3. CASE content' = t /\ thread[t].stage = "write"
    <3>1. ~task[t].dry
      BY <2>3 DEF ThreadShape
    <3>2. content <= t
      BY <1>6, FileIsNotNewer, ThreadFacts DEF ThreadShape
    <3>3. FileShape'
      BY <2>1, <2>3, <3>1, <3>2 DEF FileIsTrue, FileShape
    <3>4. SucceededIsServed'
      BY <2>1, <2>3, <3>2 DEF FileIsTrue, SucceededIsServed
    <3>5. StaleOnlyAfterFailure'
      BY <2>1, <2>3 DEF StaleOnlyAfterFailure
    <3>6. QED
      BY <3>3, <3>4, <3>5 DEF FileIsTrue
  <2>4. QED
    BY <1>6, <2>2, <2>3, ThreadFacts
<1>7. CASE LoopProgress
  BY <1>7, ProgressFacts DEF FileIsTrue, FileShape, SucceededIsServed, StaleOnlyAfterFailure
<1>8. CASE LoopDone
  BY <1>8 DEF LoopDone, manager, FileIsTrue, FileShape, SucceededIsServed, StaleOnlyAfterFailure
<1>9. CASE Shutdown
  BY <1>9, FileKept DEF Shutdown, manager, worker
<1>10. CASE CancelAll
  <2>1. /\ content' = content /\ repo' = repo /\ phase # "down"
        /\ \A t \in Builds : /\ task'[t].dry = task[t].dry
                             /\ task'[t].state \in {task[t].state, "failed"}
    BY <1>10, CancelFacts
  <2>2. QED
    BY <2>1, FileKept
<1>11. CASE Exit \/ Crash
  <2>1. Gone
    BY <1>11 DEF Exit, Crash
  <2>2. QED
    BY <2>1 DEF Gone, NoBuild, FileIsTrue, FileShape, SucceededIsServed, StaleOnlyAfterFailure
<1>12. CASE Boot
  <2>1. /\ phase' = "up" /\ repo' = content /\ content' = content /\ task' = task
    BY <1>12 DEF Boot, manager, worker
  <2>2. QED
    BY <2>1 DEF FileIsTrue, FileShape, SucceededIsServed, StaleOnlyAfterFailure
<1>13. QED
  BY <1>1, <1>2, <1>3, <1>4, <1>5, <1>6, <1>7, <1>8, <1>9, <1>10, <1>11, <1>12
     DEF Next, LoopStep

-----------------------------------------------------------------------------
(* What the manager remembers *)

AtLeast(S, t) == {u \in S : u >= t}

LEMMA KnownIsFinite ==
    ASSUME NEW S, S \subseteq Builds, NEW t
    PROVE  IsFiniteSet(AtLeast(S, t)) /\ Cardinality(AtLeast(S, t)) \in Nat
<1>1. IsFiniteSet(Builds)
  BY BuildAssumption, FS_Interval DEF Builds
<1>2. AtLeast(S, t) \subseteq Builds
  BY DEF AtLeast
<1>3. QED
  BY <1>1, <1>2, FS_Subset, FS_CardinalityType

(* There are no more builds from the newer of two on. *)
LEMMA FewerFromLater ==
    ASSUME NEW S, NEW R, S \subseteq R, R \subseteq Builds,
           NEW t \in Builds, NEW u \in Builds, t <= u
    PROVE  Cardinality(AtLeast(S, u)) <= Cardinality(AtLeast(R, t))
<1>1. ASSUME NEW v \in R, v >= u PROVE v >= t
  BY <1>1 DEF Builds
<1>2. AtLeast(S, u) \subseteq AtLeast(R, t)
  BY <1>1 DEF AtLeast
<1>3. QED
  BY <1>2, KnownIsFinite, FS_Subset

(* Trimming keeps the newest of all, if the newest of all but one were     *)
(* there before it.                                                        *)
LEMMA TrimKeepsNewest ==
    ASSUME TypeOK, Remembered, NEW t \in Builds, \A u \in Known : u < t
    PROVE  LET known == Known \cup {t}
           IN  Trim(remembered \cup {t}, t)
                 = {u \in known : Cardinality({v \in known : v >= u}) <= MaxHistory}
<1> DEFINE known == Known \cup {t}
           kept == remembered \cup {t}
<1>0. Known \subseteq Builds /\ known \subseteq Builds /\ kept \subseteq known
  BY DEF Known, Remembered
<1>1. \A u \in Builds : {v \in known : v >= u} = AtLeast(known, u)
                        /\ {v \in kept : v >= u} = AtLeast(kept, u)
                        /\ {v \in Known : v >= u} = AtLeast(Known, u)
  BY DEF AtLeast
<1>2. Cardinality(AtLeast(known, t)) = 1
  <2>1. AtLeast(known, t) = {t}
    BY <1>0, Numbers DEF AtLeast
  <2>2. QED
    BY <2>1, FS_Singleton
<1>3. ASSUME NEW u \in remembered
      PROVE  AtLeast(kept, u) = AtLeast(known, u)
  <2>1. u \in Known /\ Cardinality(AtLeast(Known, u)) <= MaxHistory
    BY <1>0, <1>1 DEF Remembered
  <2>2. ASSUME NEW v \in Known, v >= u PROVE v \in remembered
    <3>1. Cardinality(AtLeast(Known, v)) <= Cardinality(AtLeast(Known, u))
      BY <1>0, <2>1, <2>2, FewerFromLater, Numbers
    <3>2. Cardinality(AtLeast(Known, v)) <= MaxHistory
      BY <1>0, <2>1, <3>1, KnownIsFinite, Numbers
    <3>3. QED
      BY <1>0, <1>1, <3>2 DEF Remembered
  <2>3. QED
    BY <1>0, <2>2 DEF AtLeast, Remembered
<1>4. ASSUME NEW u \in Known \ remembered
      PROVE  ~(Cardinality(AtLeast(known, u)) <= MaxHistory)
  <2>1. ~(Cardinality(AtLeast(Known, u)) <= MaxHistory)
    BY <1>0, <1>1 DEF Remembered
  <2>2. Cardinality(AtLeast(Known, u)) <= Cardinality(AtLeast(known, u))
    BY <1>0, FewerFromLater, Numbers
  <2>3. QED
    BY <1>0, <2>1, <2>2, KnownIsFinite, Numbers
<1>5. \A u \in known :
          u \in Trim(kept, t) <=> Cardinality(AtLeast(known, u)) <= MaxHistory
  <2>1. ASSUME NEW u \in known, u = t
        PROVE  u \in Trim(kept, t) /\ Cardinality(AtLeast(known, u)) <= MaxHistory
    BY <1>2, <2>1, Numbers DEF Trim
  <2>2. ASSUME NEW u \in remembered
        PROVE  u = t \/ (u \in Trim(kept, t) <=> Cardinality(AtLeast(known, u)) <= MaxHistory)
    BY <1>0, <1>1, <1>3 DEF Trim
  <2>3. ASSUME NEW u \in Known \ remembered, u # t
        PROVE  u \notin Trim(kept, t)
    BY <2>3 DEF Trim
  <2>4. QED
    BY <1>4, <2>1, <2>2, <2>3
<1>6. Trim(kept, t) \subseteq known
  BY <1>0 DEF Trim
<1>7. QED
  BY <1>0, <1>1, <1>5, <1>6

LEMMA NewestStep ==
    ASSUME TypeOK, InOrder, SlotIsTaken, Remembered, HasNewest, [Next]_vars
    PROVE  HasNewest'
<1>1. ASSUME NEW t \in Builds, NEW dry \in BOOLEAN, Start(t, dry) PROVE HasNewest'
  <2>1. \A u \in Known : u < t
    BY <1>1, Numbers DEF Start, InOrder, Known, NoBuild
  <2>2. remembered' = Trim(remembered \cup {t}, t) /\ remembered \subseteq Known
    BY <1>1 DEF Start, TypeOK
  <2>3. t \in remembered' /\ remembered' \subseteq Known \cup {t} /\ Known \subseteq Builds
    BY <2>2 DEF Trim, Known
  <2>4. \A u \in remembered' : u <= t
    BY <2>1, <2>3, Numbers
  <2>5. QED
    BY <2>3, <2>4 DEF HasNewest
<1>2. CASE remembered' \in {{}, remembered}
  BY <1>2 DEF HasNewest
<1>3. QED
  <2>1. \A t \in Builds :
            ThreadStep(t) \/ RunnerStarts(t) \/ RunnerResumes(t) \/ RunnerCancelled(t)
                => remembered' = remembered
    BY ThreadFacts DEF RunnerStarts, RunnerResumes, RunnerCancelled, End, manager
  <2>2. LoopProgress \/ LoopDone \/ Shutdown \/ CancelAll \/ Boot \/ UNCHANGED vars
            => remembered' = remembered
    BY DEF LoopProgress, LoopDone, Shutdown, CancelAll, Boot, vars, manager
  <2>3. Exit \/ Crash => remembered' = {}
    BY DEF Exit, Crash, Gone
  <2>4. QED
    BY <1>1, <1>2, <2>1, <2>2, <2>3 DEF Next, LoopStep

LEMMA MemoryStep ==
    ASSUME TypeOK, InOrder, SlotIsTaken, ThreadShape, OutcomeIsReal, Remembered, [Next]_vars
    PROVE  Remembered'
<1> USE DEF Remembered
<1>1. ASSUME remembered' = remembered, Known' = Known PROVE Remembered'
  BY <1>1
<1>2. ASSUME NEW t \in Builds, NEW dry \in BOOLEAN, Start(t, dry) PROVE Remembered'
  <2>1. Started(dry) \in Task /\ Started(dry).state # "none"
    BY DEF Started, NoBuild, Task, NoStage
  <2>2. Known' = Known \cup {t}
    BY <1>2, <2>1, KnownKept DEF Start
  <2>3. \A u \in Known : u < t
    BY <1>2, Numbers DEF Start, InOrder, Known, NoBuild
  <2>4. remembered' = Trim(remembered \cup {t}, t)
    BY <1>2 DEF Start
  <2>5. QED
    BY <2>2, <2>3, <2>4, TrimKeepsNewest
<1>3. ASSUME NEW t \in Builds, NEW state \in {"succeeded", "failed"}, End(t, state), t \in Known
      PROVE  Remembered'
  <2>1. Known' = Known
    BY <1>3, EndFacts DEF Known
  <2>2. QED
    BY <1>1, <1>3, <2>1, EndFacts
<1>4. ASSUME NEW t \in Builds, RunnerStarts(t) \/ RunnerResumes(t) \/ RunnerCancelled(t)
      PROVE  Remembered'
  <2>1. t \in Known
    BY <1>4 DEF Known, RunnerStarts, RunnerResumes, RunnerCancelled, SlotIsTaken
  <2>2. End(t, "succeeded") \/ End(t, "failed") \/ UNCHANGED manager
    BY <1>4 DEF RunnerStarts, RunnerResumes, RunnerCancelled
  <2>3. QED
    BY <1>1, <1>3, <2>1, <2>2 DEF manager, Known
<1>5. CASE LoopProgress
  <2>1. Known' = Known
    BY <1>5, ProgressFacts DEF Known
  <2>2. QED
    BY <1>1, <1>5, <2>1, ProgressFacts
<1>6. CASE CancelAll
  <2>1. Known' = Known
    BY <1>6, CancelFacts DEF Known, SlotIsTaken
  <2>2. QED
    BY <1>1, <1>6, <2>1, CancelFacts
<1>7. CASE Exit \/ Crash
  <2>1. Gone
    BY <1>7 DEF Exit, Crash
  <2>2. Known' = {} /\ remembered' = {}
    BY <2>1 DEF Gone, Known, NoBuild
  <2>3. QED
    BY <2>2
<1>8. CASE UNCHANGED manager
  BY <1>1, <1>8 DEF manager, Known
<1>9. QED
  <2>1. \A t \in Builds : ThreadStep(t) => UNCHANGED manager
    BY ThreadFacts
  <2>2. UNCHANGED vars \/ LoopDone \/ Shutdown \/ Boot => UNCHANGED manager
    BY DEF vars, LoopDone, Shutdown, Boot
  <2>3. QED
    BY <1>2, <1>4, <1>5, <1>6, <1>7, <1>8, <2>1, <2>2 DEF Next, LoopStep

-----------------------------------------------------------------------------
(* The invariant holds, and what the runs check follows from it. *)

LEMMA InvStep == ASSUME IInv, [Next]_vars PROVE IInv'
<1>1. TypeOK' /\ InOrder' /\ SlotIsTaken' /\ ThreadShape' /\ OutcomeIsReal'
  BY TypeStep, OrderStep, SlotStep, ThreadShapeStep, OutcomeStep DEF IInv
<1>2. FileIsTrue' /\ Remembered' /\ HasNewest'
  BY FileStep, MemoryStep, NewestStep DEF IInv, FileIsTrue
<1>3. QED
  BY <1>1, <1>2 DEF IInv, FileIsTrue

(* The manager's slot, its tasks and its threads agree with each other at  *)
(* every moment (orchestration/build_tasks.py).                            *)
THEOREM Invariance == Spec => []IInv
<1>1. Init => IInv
  BY InitInv
<1>2. IInv /\ [Next]_vars => IInv'
  BY InvStep
<1>3. QED
  BY <1>1, <1>2, PTL DEF Spec

(* The manager, its runners and threads have their types. *)
THEOREM TypeCorrect == Spec => []TypeOK
<1>1. IInv => TypeOK
  BY DEF IInv
<1>2. QED
  BY <1>1, Invariance, PTL

(* content.db has one writer: no thread of a build runs beside another's,  *)
(* and while the server runs it is the active build's                      *)
(* (orchestration/build_tasks.py).                                         *)
LEMMA InvOneWriter == ASSUME IInv PROVE OneWriter
<1>1. SUFFICES ASSUME NEW t \in Builds, thread[t].pc = "run"
               PROVE  /\ phase \in {"up", "closing"} => active = t /\ task[t].state = "running"
                      /\ \A u \in Builds \ {t} : thread[u].pc # "run"
  BY DEF OneWriter
<1>2. QED
  BY <1>1, OnlyHolderRuns DEF IInv, ThreadShape

(* content.db has one writer: while the server runs, a live thread is the  *)
(* active build's (orchestration/build_tasks.py).                          *)
THEOREM OneWriterAtATime == Spec => []OneWriter
BY InvOneWriter, Invariance, PTL

(* latest() is the active build: no newer one is known. *)
LEMMA ActiveIsLatest == ASSUME IInv, active # NoTask PROVE active = Latest
<1>1. active \in Known /\ active \in Builds /\ Known \subseteq Builds
  BY DEF IInv, TypeOK, Known
<1>2. \A u \in Known : u <= active
  <2>1. ASSUME NEW u \in Known, u > active PROVE FALSE
    BY <1>1, <2>1 DEF IInv, SlotIsTaken, Last, InOrder, Known, NoBuild
  <2>2. QED
    BY <1>1, <2>1 DEF Builds
<1>3. active \in remembered
  <2>1. AtLeast(Known, active) = {active}
    <3>1. ASSUME NEW u \in Known PROVE u >= active <=> u = active
      BY <1>1, <1>2, <3>1 DEF Builds
    <3>2. QED
      BY <1>1, <3>1 DEF AtLeast
  <2>2. Cardinality({u \in Known : u >= active}) = 1
    BY <2>1, FS_Singleton DEF AtLeast
  <2>3. QED
    BY <1>1, <2>2, Numbers DEF IInv, Remembered
<1>4. \A t \in remembered : (\A u \in remembered : u <= t) <=> t = active
  <2>1. remembered \subseteq Known
    BY DEF IInv, TypeOK
  <2>2. ASSUME NEW t \in remembered, \A u \in remembered : u <= t PROVE t = active
    <3>1. active <= t /\ t <= active
      BY <1>2, <1>3, <2>1, <2>2
    <3>2. QED
      BY <1>1, <2>1, <3>1 DEF Builds
  <2>3. \A u \in remembered : u <= active
    BY <1>2, <2>1
  <2>4. QED
    BY <2>2, <2>3
<1>5. QED
  BY <1>3, <1>4 DEF Latest, Newest

(* What the status says of a build is so: what succeeded is in the file    *)
(* and served, what is served lags only behind a build that runs or        *)
(* failed, and the newest builds are remembered                            *)
(* (orchestration/build_tasks.py, context.py).                             *)
THEOREM StatusTellsTheTruth == Spec => []StatusIsTrue
<1>1. IInv => StatusIsTrue
  BY ActiveIsLatest DEF IInv, StatusIsTrue, NewestRemembered, Remembered
<1>2. QED
  BY <1>1, Invariance, PTL

(* A build that has ended keeps its status: neither progress that arrives  *)
(* late nor a cancellation at shutdown changes it                          *)
(* (orchestration/build_tasks.py).                                         *)
LEMMA EndedStep ==
    ASSUME IInv, Next, NEW t \in Builds, Ended(t), phase' # "down"
    PROVE  task'[t] = task[t]
<1> USE DEF IInv, Ended
<1>1. ASSUME NEW u \in Builds, NEW dry \in BOOLEAN, Start(u, dry) PROVE task'[t] = task[t]
  <2>1. task[u].state = "none"
    BY <1>1 DEF Start, InOrder, NoBuild
  <2>2. QED
    BY <1>1, <2>1 DEF Start, TypeOK
<1>2. ASSUME NEW u \in Builds, RunnerStarts(u) \/ RunnerResumes(u) PROVE task'[t] = task[t]
  <2>1. task[u].state = "running"
    BY <1>2 DEF RunnerStarts, RunnerResumes, SlotIsTaken
  <2>2. End(u, "succeeded") \/ End(u, "failed") \/ task' = task
    BY <1>2 DEF RunnerStarts, RunnerResumes, manager
  <2>3. QED
    BY <2>1, <2>2, EndFacts
<1>3. ASSUME NEW u \in Builds, RunnerCancelled(u) PROVE task'[t] = task[t]
  <2>1. task[u].state = "failed" /\ task[u] \in Task
    BY <1>3 DEF RunnerCancelled, SlotIsTaken, TypeOK
  <2>2. [task[u] EXCEPT !.state = "failed"] = task[u]
    BY <2>1 DEF Task
  <2>3. QED
    BY <1>3, <2>2 DEF RunnerCancelled, End, TypeOK
<1>4. CASE LoopProgress
  BY <1>4, ProgressFacts
<1>5. CASE CancelAll
  <2>1. runner[t] # "waiting"
    BY DEF SlotIsTaken
  <2>2. QED
    BY <1>5, <2>1, CancelFacts
<1>6. CASE Exit \/ Crash
  BY <1>6 DEF Exit, Crash, Gone
<1>7. CASE UNCHANGED manager
  BY <1>7 DEF manager
<1>8. QED
  <2>1. \A u \in Builds : ThreadStep(u) => UNCHANGED manager
    BY ThreadFacts
  <2>2. LoopDone \/ Shutdown \/ Boot => UNCHANGED manager
    BY DEF LoopDone, Shutdown, Boot
  <2>3. QED
    BY <1>1, <1>2, <1>3, <1>4, <1>5, <1>6, <1>7, <2>1, <2>2 DEF Next, LoopStep

(* A build that ended stays as it ended, whatever callback or cancellation *)
(* comes late (orchestration/build_tasks.py).                              *)
THEOREM EndIsFinal == Spec => EndedIsFinal
<1>1. IInv /\ [Next]_vars =>
          [\A t \in Builds : Ended(t) /\ phase' # "down" => task'[t] = task[t]]_vars
  BY EndedStep
<1>2. QED
  BY <1>1, Invariance, PTL DEF Spec, EndedIsFinal

-----------------------------------------------------------------------------
(* The streams implement the manager. *)

LEMMA StreamStep == ASSUME [StreamNext]_allVars PROVE [Next]_vars
BY DEF StreamNext, ManagerStep, Subscribe, SendSnapshot, Forward, Hangup, Next, allVars

(* What the handlers and the queues do is nothing to the builds.           *)
THEOREM StreamsImplementManager == StreamSpec => Spec
<1>1. StreamInit => Init
  BY DEF StreamInit
<1>2. [StreamNext]_allVars => [Next]_vars
  BY StreamStep
<1>3. QED
  BY <1>1, <1>2, PTL DEF StreamSpec, Spec

(* content.db has one writer, followed by streams or not.                  *)
THEOREM StreamsOneWriter == StreamSpec => []OneWriter
BY StreamsImplementManager, OneWriterAtATime, PTL

(* The status a stream takes its snapshot from tells the truth.            *)
THEOREM StreamsStatusIsTrue == StreamSpec => []StatusIsTrue
BY StreamsImplementManager, StatusTellsTheTruth, PTL

(* What ended has ended, followed by streams or not.                       *)
THEOREM StreamsEndIsFinal == StreamSpec => EndedIsFinal
BY StreamsImplementManager, EndIsFinal, PTL

-----------------------------------------------------------------------------
(* The inductive invariant. *)

(* What may be told after v: nothing of an older build, and nothing else   *)
(* of a build that ended.                                                  *)
Follows(v, w) ==
    /\ v.task <= w.task
    /\ v.task = w.task /\ v.state \in {"succeeded", "failed"} => w.state = v.state

Same(v, w) == v.task = w.task /\ v.state = w.state

(* What the client knows, or will once it has its snapshot. *)
Base(s) == IF stream[s].pc = "live" THEN stream[s].told ELSE stream[s].snapshot

(* A stream has its events in order, and nothing newer than the status. *)
InSequence(s) ==
    LET queue == stream[s].queue
    IN  /\ Follows(Base(s), Status)
        /\ \A i \in 1 .. Len(queue) :
              /\ Follows(Base(s), queue[i])
              /\ Follows(queue[i], Status)
              /\ \A j \in 1 .. Len(queue) : i < j => Follows(queue[i], queue[j])

LastWord(s) ==
    LET queue == stream[s].queue
    IN  Same(IF queue # << >> THEN queue[Len(queue)] ELSE Base(s), Status)

StreamsWhileUp == phase # "up" => \A s \in Streams : stream[s].pc = "off"

TellsAll == \A s \in Streams : stream[s].pc # "off" => InSequence(s) /\ LastWord(s)

StreamInv == IInv /\ StreamTypeOK /\ StreamsWhileUp /\ TellsAll

-----------------------------------------------------------------------------
(* The order of what is told *)

LEMMA FollowsFacts ==
    /\ \A u, v, w \in View : Follows(u, v) /\ Follows(v, w) => Follows(u, w)
    /\ \A v \in View : Follows(v, v)
    /\ \A u, v, w \in View : Same(v, w) => /\ Follows(u, v) => Follows(u, w)
                                           /\ Follows(v, u) => Follows(w, u)
<1>1. \A v \in View : v.task \in Nat
  BY BuildAssumption DEF View, Builds, NoTask
<1>2. QED
  BY <1>1 DEF Follows, Same

(* A full queue makes room for the event at its end. *)
LEMMA PushFacts ==
    ASSUME NEW queue \in Seq(View), Len(queue) <= QueueSize, NEW e \in View
    PROVE  LET new == Push(queue, e)
           IN  /\ new \in Seq(View) /\ Len(new) <= QueueSize /\ Len(new) >= 1 /\ new[Len(new)] = e
               /\ \E k \in {0, 1} : \A i \in 1 .. Len(new) - 1 :
                      i + k \in 1 .. Len(queue) /\ new[i] = queue[i + k]
<1>1. QueueSize \in Nat /\ QueueSize >= 1
  BY StreamAssumption
<1>2. CASE Len(queue) = QueueSize
  <2>1. queue # << >>
    BY <1>1, <1>2
  <2>2. /\ Tail(queue) \in Seq(View) /\ Len(Tail(queue)) = QueueSize - 1
        /\ \A i \in 1 .. Len(Tail(queue)) : Tail(queue)[i] = queue[i + 1]
    BY <1>2, <2>1
  <2>3. Push(queue, e) = Append(Tail(queue), e)
    BY <1>2 DEF Push
  <2>4. /\ Push(queue, e) \in Seq(View) /\ Len(Push(queue, e)) = QueueSize
        /\ Push(queue, e)[QueueSize] = e
        /\ \A i \in 1 .. QueueSize - 1 : Push(queue, e)[i] = queue[i + 1]
    BY <1>1, <2>2, <2>3
  <2>5. QED
    BY <1>1, <1>2, <2>4
<1>3. CASE Len(queue) # QueueSize
  <2>1. Push(queue, e) = Append(queue, e) /\ Len(queue) + 1 <= QueueSize
    BY <1>1, <1>3 DEF Push
  <2>2. /\ Push(queue, e) \in Seq(View) /\ Len(Push(queue, e)) = Len(queue) + 1
        /\ Push(queue, e)[Len(queue) + 1] = e
        /\ \A i \in 1 .. Len(queue) : Push(queue, e)[i] = queue[i]
    BY <2>1
  <2>3. QED
    BY <2>1, <2>2
<1>4. QED
  BY <1>2, <1>3

-----------------------------------------------------------------------------
(* What the manager publishes is its status. *)

LEMMA StatusFacts ==
    ASSUME IInv
    PROVE  /\ Status \in View
           /\ Latest = NoTask <=> remembered = {}
           /\ Latest # NoTask => Latest \in Known /\ Latest \in Builds
                                 /\ Status.task = Latest /\ Status.state = task[Latest].state
           /\ Latest = NoTask => Status = NoView
<1>1. remembered \subseteq Known /\ Known \subseteq Builds /\ NoTask \notin Builds
  BY IdleTypes DEF IInv, TypeOK, Known
<1>2. remembered # {} => Latest \in remembered
  <2>1. ASSUME remembered # {} PROVE \E t \in remembered : \A u \in remembered : u <= t
    BY <2>1 DEF IInv, HasNewest
  <2>2. QED
    BY <2>1 DEF Latest, Newest
<1>3. NoView \in View
  BY DEF NoView, View, NoStage
<1>4. ASSUME Latest \in Builds
      PROVE  [task |-> Latest, state |-> task[Latest].state, stage |-> task[Latest].stage] \in View
  BY <1>4 DEF IInv, TypeOK, Task, View
<1>5. QED
  BY <1>1, <1>2, <1>3, <1>4 DEF Status, Latest

(* A step of the manager moves the status on, and publishes where to. *)
Moves ==
    /\ Follows(Status, Status')
    /\ Published = {} => Same(Status, Status')
    /\ \A e \in Published : e \in View /\ Same(e, Status')

(* No build is added to those remembered, and one at most changes.         *)
LEMMA StatusKept ==
    ASSUME IInv, IInv', remembered' = remembered, phase' # "down", Next
    PROVE  /\ Latest' = Latest /\ Follows(Status, Status')
           /\ Latest # NoTask => Status'.state = task'[Latest].state
<1>1. Latest' = Latest
  BY DEF Latest, Newest
<1>2. CASE Latest = NoTask
  BY <1>1, <1>2, StatusFacts, IdleTypes DEF NoView, Follows, NoTask, IInv, Status
<1>3. CASE Latest # NoTask
  <2>1. /\ Status.task = Latest /\ Status.state = task[Latest].state /\ Latest \in Builds
        /\ Status'.task = Latest /\ Status'.state = task'[Latest].state
    BY <1>1, <1>3, StatusFacts DEF Status
  <2>2. Ended(Latest) => task'[Latest] = task[Latest]
    BY <2>1, EndedStep
  <2>3. Latest <= Latest
    BY <2>1, BuildAssumption DEF Builds
  <2>4. QED
    BY <1>1, <1>3, <2>1, <2>2, <2>3 DEF Follows, Ended
<1>4. QED
  BY <1>2, <1>3

LEMMA ActiveIsLatestNext == (IInv /\ active # NoTask => active = Latest)'
<1>1. IInv /\ active # NoTask => active = Latest
  BY ActiveIsLatest
<1>2. QED
  BY <1>1, PTL

LEMMA ManagerMoves ==
    ASSUME IInv, IInv', ManagerStep, phase = "up"
    PROVE  Moves
<1>1. Next /\ TypeOK /\ TypeOK' /\ NoTask \notin Builds
  BY IdleTypes DEF ManagerStep, Next, IInv
<1>2. ASSUME NEW t \in Builds, NEW dry \in BOOLEAN, Start(t, dry) PROVE Moves
  <2>1. /\ active = NoTask /\ active' = t /\ task'[t].state = "running"
    BY <1>1, <1>2 DEF Start, Idle, Started, NoBuild, TypeOK
  <2>2. Latest' = t /\ Status'.task = t /\ Status'.state = "running"
    BY <1>1, <2>1, ActiveIsLatestNext DEF Status
  <2>3. Published = {[task |-> t, state |-> "running", stage |-> NoStage]}
    BY <1>1, <2>1 DEF Published
  <2>4. [task |-> t, state |-> "running", stage |-> NoStage] \in View
    BY DEF View
  <2>5. Status.task < t
    <3>1. \A u \in Known : u < t
      BY <1>1, <1>2, Numbers DEF Start, InOrder, Known, NoBuild, IInv
    <3>2. QED
      BY <1>1, <3>1, StatusFacts, Numbers DEF NoView
  <2>6. Status.task \in Nat /\ t \in Nat
    BY <1>1, StatusFacts, Numbers DEF NoView, NoTask
  <2>7. Follows(Status, Status')
    BY <2>2, <2>5, <2>6 DEF Follows
  <2>8. QED
    BY <2>2, <2>3, <2>4, <2>7 DEF Moves, Same
<1>3. ASSUME NEW t \in Builds, NEW state \in {"succeeded", "failed"}, End(t, state),
             runner[t] \in {"new", "waiting"}, phase' # "down"
      PROVE  Moves
  <2>1. active = t /\ active' = NoTask /\ task'[t].state = state /\ remembered' = remembered
    BY <1>1, <1>3, EndFacts DEF IInv, SlotIsTaken
  <2>2. Latest = t
    BY <1>1, <2>1, ActiveIsLatest
  <2>3. Latest' = t /\ Follows(Status, Status') /\ Status'.state = state
    BY <1>1, <1>3, <2>1, <2>2, StatusKept
  <2>4. Status'.task = t
    BY <1>1, <2>3 DEF Status
  <2>5. Published = {[task |-> t, state |-> state, stage |-> NoStage]}
    BY <1>1, <2>1 DEF Published
  <2>6. [task |-> t, state |-> state, stage |-> NoStage] \in View
    BY DEF View
  <2>7. QED
    BY <2>3, <2>4, <2>5, <2>6 DEF Moves, Same
<1>4. CASE UNCHANGED manager
  <2>1. Published = {}
    BY <1>4 DEF Published, manager
  <2>2. Status' = Status
    BY <1>4 DEF Status, Latest, Newest, manager
  <2>3. QED
    BY <2>1, <2>2, StatusFacts, FollowsFacts DEF Moves, Same
<1>5. ASSUME NEW t \in Builds, RunnerStarts(t) \/ RunnerResumes(t) PROVE Moves
  <2>1. runner[t] \in {"new", "waiting"} /\ phase' # "down"
    BY <1>5 DEF RunnerStarts, RunnerResumes, ManagerStep
  <2>2. End(t, "succeeded") \/ End(t, "failed") \/ UNCHANGED manager
    BY <1>5 DEF RunnerStarts, RunnerResumes
  <2>3. QED
    BY <1>3, <1>4, <2>1, <2>2
<1>6. CASE LoopProgress
  <2> DEFINE t == Head(ready).task
  <2>1. t \in Builds /\ Head(ready).what \in Stages
    <3>1. Head(ready) \in Callback /\ Head(ready).what \in Stages
      BY <1>6, QueueHead DEF LoopProgress, IInv
    <3>2. QED
      BY <3>1 DEF Callback
  <2>2. CASE task[t].state # "running"
    <3>1. task' = task
      BY <1>6, <2>2 DEF LoopProgress, OnProgress
    <3>2. QED
      BY <1>4, <1>6, <3>1 DEF LoopProgress, manager
  <2>3. CASE task[t].state = "running"
    <3>1. active = t /\ Latest = t
      BY <1>1, <2>1, <2>3, ActiveIsLatest DEF IInv, SlotIsTaken
    <3>2. /\ task'[t].state = task[t].state /\ active' = active /\ remembered' = remembered
          /\ phase' = phase
      BY <1>1, <1>6, <2>1, ProgressFacts DEF IInv
    <3>3. \A u \in Builds \ {t} : task'[u] = task[u]
      BY <1>1, <1>6, <2>1 DEF LoopProgress, OnProgress, TypeOK
    <3>4. Latest' = t /\ Follows(Status, Status') /\ Status'.state = task[t].state
      BY <1>1, <2>1, <3>1, <3>2, StatusKept
    <3>5. Status'.task = t /\ Status.task = t /\ Status.state = task[t].state
      BY <1>1, <2>1, <3>1, <3>4 DEF Status
    <3>6. \A e \in Published :
              e = [task |-> t, state |-> task'[t].state, stage |-> task'[t].stage]
      BY <3>2, <3>3 DEF Published
    <3>7. [task |-> t, state |-> task'[t].state, stage |-> task'[t].stage] \in View
      BY <1>1, <2>1 DEF View, TypeOK, Task
    <3>8. QED
      BY <3>2, <3>4, <3>5, <3>6, <3>7 DEF Moves, Same
  <2>4. QED
    BY <2>2, <2>3
<1>7. QED
  <2>1. \A t \in Builds : ThreadStep(t) => UNCHANGED manager
    BY <1>1, ThreadFacts
  <2>2. LoopDone => UNCHANGED manager
    BY DEF LoopDone
  <2>3. ASSUME NEW t \in Builds, RunnerCancelled(t) PROVE FALSE
    BY <2>3 DEF RunnerCancelled, IInv, SlotIsTaken
  <2>4. QED
    BY <1>2, <1>4, <1>5, <1>6, <2>1, <2>2, <2>3 DEF ManagerStep, LoopStep

-----------------------------------------------------------------------------
(* The streams follow. *)

LEMMA StreamFields ==
    ASSUME IInv, StreamTypeOK, NEW s \in Streams
    PROVE  /\ stream[s] \in Stream /\ stream[s].queue \in Seq(View)
           /\ stream[s].told \in View /\ stream[s].snapshot \in View /\ Base(s) \in View
           /\ Len(stream[s].queue) \in Nat /\ Len(stream[s].queue) <= QueueSize
           /\ \A i \in 1 .. Len(stream[s].queue) : stream[s].queue[i] \in View
           /\ Status \in View
<1>1. stream[s] \in Stream
  BY DEF StreamTypeOK
<1>2. /\ stream[s].queue \in Seq(View)
      /\ stream[s].told \in View /\ stream[s].snapshot \in View
  BY <1>1 DEF Stream
<1>3. QED
  BY <1>1, <1>2, StatusFacts DEF Base, StreamTypeOK

LEMMA NextStatus == (IInv => Status \in View)'
<1>1. IInv => Status \in View
  BY StatusFacts
<1>2. QED
  BY <1>1, PTL

LEMMA IdleStream == NoStream \in Stream /\ NoStream.pc = "off" /\ NoStream.queue = << >>
<1>1. NoView \in View
  BY DEF NoView, View, NoStage
<1>2. QED
  BY <1>1 DEF NoStream, Stream

(* A step of the manager reaches the streams. *)
LEMMA DeliverStep ==
    ASSUME StreamInv, IInv', ManagerStep, Deliver
    PROVE  StreamTypeOK' /\ StreamsWhileUp' /\ TellsAll'
<1>0. IInv /\ StreamTypeOK /\ StreamsWhileUp /\ TellsAll /\ TypeOK' /\ phase' = phase
  BY DEF StreamInv, IInv, ManagerStep, Start, LoopStep, LoopProgress, LoopDone, RunnerStarts,
     RunnerResumes, RunnerCancelled, ThreadStep, ThreadReports, ThreadReplaces, ThreadReturns,
     ThreadFails
<1>1. CASE \A s \in Streams : stream[s].pc = "off"
  <2>1. stream' = stream
    <3>1. CASE Published = {}
      BY <3>1 DEF Deliver
    <3>2. CASE Published # {}
      <4>1. stream' = [s \in Streams |-> stream[s]]
        BY <1>1, <3>2 DEF Deliver
      <4>2. QED
        BY <1>0, <4>1 DEF StreamTypeOK
    <3>3. QED
      BY <3>1, <3>2
  <2>2. QED
    BY <1>0, <1>1, <2>1 DEF StreamTypeOK, StreamsWhileUp, TellsAll
<1>2. CASE ~\A s \in Streams : stream[s].pc = "off"
  <2>1. phase = "up" /\ StreamsWhileUp'
    BY <1>0, <1>2 DEF StreamsWhileUp
  <2>2. Moves /\ Status' \in View
    BY <1>0, <2>1, ManagerMoves, NextStatus
  <2>3. CASE Published = {}
    <3>1. stream' = stream /\ Same(Status, Status')
      BY <2>2, <2>3 DEF Deliver, Moves
    <3>2. StreamTypeOK'
      BY <1>0, <3>1 DEF StreamTypeOK
    <3>3. ASSUME NEW s \in Streams, stream'[s].pc # "off" PROVE InSequence(s)' /\ LastWord(s)'
      <4>1. InSequence(s) /\ LastWord(s) /\ Base(s)' = Base(s)
        BY <1>0, <3>1, <3>3 DEF TellsAll, Base
      <4>2. InSequence(s)'
        BY <1>0, <2>2, <3>1, <4>1, StreamFields, FollowsFacts DEF InSequence
      <4>3. LastWord(s)'
        BY <3>1, <4>1 DEF LastWord, Same
      <4>4. QED
        BY <4>2, <4>3
    <3>4. QED
      BY <2>1, <3>2, <3>3 DEF TellsAll
  <2>4. CASE Published # {}
    <3> DEFINE event == CHOOSE e \in Published : TRUE
    <3>1. event \in View /\ Same(event, Status') /\ Follows(Status, Status')
      BY <2>2, <2>4 DEF Moves
    <3>2. stream' = [s \in Streams |-> IF stream[s].pc = "off" THEN stream[s]
                        ELSE [stream[s] EXCEPT !.queue = Push(stream[s].queue, event)]]
      BY <2>4 DEF Deliver
    <3> HIDE DEF event
    <3>3. ASSUME NEW s \in Streams, stream[s].pc # "off"
          PROVE  /\ stream'[s] \in Stream /\ Len(stream'[s].queue) <= QueueSize
                 /\ InSequence(s)' /\ LastWord(s)'
      <4> DEFINE queue == stream[s].queue
                 new == Push(queue, event)
      <4>1. /\ queue \in Seq(View) /\ Len(queue) <= QueueSize /\ Base(s) \in View
            /\ Status \in View /\ \A i \in 1 .. Len(queue) : queue[i] \in View
            /\ stream[s] \in Stream
        BY <1>0, StreamFields
      <4>2. /\ new \in Seq(View) /\ Len(new) <= QueueSize /\ Len(new) >= 1 /\ new[Len(new)] = event
            /\ \E k \in {0, 1} : \A i \in 1 .. Len(new) - 1 :
                   i + k \in 1 .. Len(queue) /\ new[i] = queue[i + k]
        BY <3>1, <4>1, PushFacts
      <4>3. /\ stream'[s].queue = new /\ stream'[s] \in Stream
            /\ stream'[s].pc = stream[s].pc /\ stream'[s].told = stream[s].told
            /\ stream'[s].snapshot = stream[s].snapshot
        BY <3>2, <3>3, <4>1, <4>2 DEF Stream
      <4>4. Base(s)' = Base(s) /\ InSequence(s)
        BY <1>0, <3>3, <4>3 DEF Base, TellsAll
      <4> HIDE DEF new
      <4>5. \A v \in View : Follows(v, Status) => Follows(v, Status') /\ Follows(v, event)
        BY <2>2, <3>1, <4>1, FollowsFacts DEF Same
      <4>6. Follows(event, Status')
        BY <2>2, <3>1, FollowsFacts DEF Same
      <4>7. PICK k \in {0, 1} : \A i \in 1 .. Len(new) - 1 :
                i + k \in 1 .. Len(queue) /\ new[i] = queue[i + k]
        BY <4>2
      <4>8. Len(new) \in Nat
        BY <4>2
      <4>9. ASSUME NEW i \in 1 .. Len(new)
            PROVE  /\ Follows(Base(s), new[i]) /\ Follows(new[i], Status')
                   /\ \A j \in 1 .. Len(new) : i < j => Follows(new[i], new[j])
        <5>1. CASE i = Len(new)
          BY <4>1, <4>2, <4>4, <4>5, <4>6, <4>8, <5>1 DEF InSequence
        <5>2. CASE i \in 1 .. Len(new) - 1
          <6>1. i + k \in 1 .. Len(queue) /\ new[i] = queue[i + k] /\ new[i] \in View
            BY <4>1, <4>7, <5>2
          <6>2. Follows(Base(s), new[i]) /\ Follows(new[i], Status)
            BY <4>4, <6>1 DEF InSequence
          <6>3. ASSUME NEW j \in 1 .. Len(new), i < j PROVE Follows(new[i], new[j])
            <7>1. CASE j = Len(new)
              BY <4>2, <4>5, <6>1, <6>2, <7>1
            <7>2. CASE j \in 1 .. Len(new) - 1
              <8>1. j + k \in 1 .. Len(queue) /\ new[j] = queue[j + k] /\ i + k < j + k
                BY <4>7, <4>8, <5>2, <6>3, <7>2
              <8>2. QED
                BY <4>4, <6>1, <8>1 DEF InSequence
            <7>3. QED
              BY <4>8, <7>1, <7>2
          <6>4. QED
            BY <4>5, <6>1, <6>2, <6>3
        <5>3. QED
          BY <4>8, <5>1, <5>2
      <4>10. InSequence(s)'
        <5>1. Follows(Base(s), Status')
          BY <4>1, <4>4, <4>5 DEF InSequence
        <5>2. QED
          BY <4>3, <4>4, <4>9, <5>1 DEF InSequence
      <4>11. LastWord(s)'
        <5>1. new # << >>
          BY <4>2
        <5>2. QED
          BY <3>1, <4>2, <4>3, <5>1 DEF LastWord
      <4>12. QED
        BY <4>2, <4>3, <4>10, <4>11
    <3>4. ASSUME NEW s \in Streams, stream[s].pc = "off" PROVE stream'[s] = stream[s]
      BY <3>2, <3>4
    <3>5. StreamTypeOK'
      <4>1. \A s \in Streams : stream'[s] \in Stream /\ Len(stream'[s].queue) <= QueueSize
        BY <1>0, <3>3, <3>4 DEF StreamTypeOK
      <4>2. stream' = [s \in Streams |-> stream'[s]]
        BY <3>2
      <4>3. QED
        BY <1>0, <4>1, <4>2 DEF StreamTypeOK
    <3>6. TellsAll'
      BY <3>3, <3>4 DEF TellsAll
    <3>7. QED
      BY <2>1, <3>5, <3>6
  <2>5. QED
    BY <2>3, <2>4
<1>3. QED
  BY <1>1, <1>2

(* A step of one stream. *)
LEMMA OneStreamStep ==
    ASSUME StreamInv, UNCHANGED vars, NEW s \in Streams, NEW new \in Stream,
           stream' = [stream EXCEPT ![s] = new], Len(new.queue) <= QueueSize,
           new.pc # "off" => phase = "up" /\ InSequence(s)' /\ LastWord(s)'
    PROVE  StreamTypeOK' /\ StreamsWhileUp' /\ TellsAll'
<1>1. /\ TypeOK' /\ Status' = Status /\ phase' = phase
      /\ stream'[s] = new /\ \A u \in Streams \ {s} : stream'[u] = stream[u]
  BY DEF StreamInv, StreamTypeOK, TypeOK, vars, manager, worker, Status, Latest, Newest, Known
<1>2. StreamTypeOK'
  BY <1>1 DEF StreamInv, StreamTypeOK
<1>3. StreamsWhileUp'
  BY <1>1 DEF StreamInv, StreamsWhileUp
<1>4. \A u \in Streams \ {s} : (InSequence(u) => InSequence(u)') /\ (LastWord(u) => LastWord(u)')
  BY <1>1 DEF InSequence, LastWord, Base
<1>5. TellsAll'
  BY <1>1, <1>4 DEF StreamInv, TellsAll
<1>6. QED
  BY <1>2, <1>3, <1>5

LEMMA SubscribeStep ==
    ASSUME StreamInv, NEW s \in Streams, Subscribe(s)
    PROVE  StreamTypeOK' /\ StreamsWhileUp' /\ TellsAll'
<1> DEFINE new == [NoStream EXCEPT !.pc = "ready", !.snapshot = Status]
<1>1. Status \in View /\ Status' = Status /\ QueueSize \in Nat
  BY StatusFacts, StreamAssumption
     DEF StreamInv, Subscribe, vars, manager, Status, Latest, Newest
<1>2. /\ new \in Stream /\ new.pc = "ready" /\ new.snapshot = Status /\ new.queue = << >>
      /\ Len(new.queue) = 0
  BY <1>1, IdleStream DEF NoStream, Stream
<1>3. stream' = [stream EXCEPT ![s] = new] /\ stream'[s] = new /\ phase = "up" /\ UNCHANGED vars
  BY DEF Subscribe, StreamInv, StreamTypeOK
<1> HIDE DEF new
<1>4. Base(s)' = Status
  BY <1>2, <1>3 DEF Base
<1>5. InSequence(s)'
  BY <1>1, <1>2, <1>3, <1>4, FollowsFacts DEF InSequence
<1>6. LastWord(s)'
  BY <1>1, <1>2, <1>3, <1>4 DEF LastWord, Same
<1>7. Len(new.queue) <= QueueSize
  BY <1>1, <1>2
<1>8. QED
  BY <1>2, <1>3, <1>5, <1>6, <1>7, OneStreamStep

LEMMA SendSnapshotStep ==
    ASSUME StreamInv, NEW s \in Streams, SendSnapshot(s)
    PROVE  StreamTypeOK' /\ StreamsWhileUp' /\ TellsAll'
<1> DEFINE new == [stream[s] EXCEPT !.pc = "live", !.told = stream[s].snapshot]
<1>1. /\ stream[s] \in Stream /\ stream[s].snapshot \in View /\ stream[s].pc = "ready"
      /\ Len(stream[s].queue) <= QueueSize /\ InSequence(s) /\ LastWord(s)
  BY StreamFields DEF StreamInv, SendSnapshot, TellsAll
<1>2. /\ new \in Stream /\ new.pc = "live" /\ new.told = stream[s].snapshot
      /\ new.queue = stream[s].queue
  BY <1>1 DEF Stream
<1>3. /\ stream' = [stream EXCEPT ![s] = new] /\ stream'[s] = new /\ UNCHANGED vars
      /\ phase = "up" /\ Status' = Status
  <2>1. stream \in [Streams -> Stream]
    BY DEF StreamInv, StreamTypeOK
  <2>2. stream' = [stream EXCEPT ![s] = new] /\ stream'[s] = new
    BY <1>1, <2>1 DEF SendSnapshot, Stream
  <2>3. UNCHANGED vars /\ phase = "up"
    BY <1>1 DEF SendSnapshot, StreamInv, StreamsWhileUp
  <2>4. Status' = Status
    BY <2>3 DEF vars, manager, Status, Latest, Newest
  <2>5. QED
    BY <2>2, <2>3, <2>4
<1> HIDE DEF new
<1>4. Base(s)' = Base(s)
  BY <1>1, <1>2, <1>3 DEF Base
<1>5. InSequence(s)' /\ LastWord(s)'
  BY <1>1, <1>2, <1>3, <1>4 DEF InSequence, LastWord
<1>6. QED
  BY <1>1, <1>2, <1>3, <1>5, OneStreamStep

(* The client is told what its oldest event says. *)
LEMMA ForwardFacts ==
    ASSUME StreamInv, NEW s \in Streams, Forward(s)
    PROVE  /\ stream[s].pc = "live" /\ stream[s].queue # << >> /\ UNCHANGED vars
           /\ 1 \in 1 .. Len(stream[s].queue) /\ stream[s].queue[1] \in View
           /\ stream'[s].pc = "live" /\ stream'[s].queue = Tail(stream[s].queue)
           /\ Same(stream'[s].told, stream[s].queue[1])
           /\ stream'[s] \in Stream /\ stream' = [stream EXCEPT ![s] = stream'[s]]
<1> DEFINE event == Head(stream[s].queue)
           new == [stream[s] EXCEPT !.queue = Tail(@), !.told = Told(@, event)]
<1>1. /\ stream[s].pc = "live" /\ stream[s].queue # << >> /\ UNCHANGED vars
      /\ stream' = [stream EXCEPT ![s] = new]
  BY DEF Forward
<1>2. stream[s].queue \in Seq(View) /\ stream[s].told \in View /\ stream[s] \in Stream
  BY StreamFields DEF StreamInv
<1>3. /\ event \in View /\ event = stream[s].queue[1] /\ 1 \in 1 .. Len(stream[s].queue)
      /\ Tail(stream[s].queue) \in Seq(View)
  BY <1>1, <1>2
<1>4. Told(stream[s].told, event) \in View /\ Same(Told(stream[s].told, event), event)
  BY <1>2, <1>3 DEF Told, View, Same
<1>5. /\ new \in Stream /\ new.pc = "live" /\ new.queue = Tail(stream[s].queue)
      /\ new.told = Told(stream[s].told, event)
  BY <1>1, <1>2, <1>3, <1>4 DEF Stream
<1>6. stream'[s] = new
  BY <1>1 DEF StreamInv, StreamTypeOK
<1>7. QED
  BY <1>1, <1>3, <1>4, <1>5, <1>6

LEMMA EmptyQueue == \A q \in Seq(View) : q = << >> <=> Len(q) = 0
OBVIOUS

LEMMA ForwardStep ==
    ASSUME StreamInv, NEW s \in Streams, Forward(s)
    PROVE  StreamTypeOK' /\ StreamsWhileUp' /\ TellsAll'
<1> DEFINE queue == stream[s].queue
           told == stream'[s].told
<1>1. /\ stream[s].pc = "live" /\ queue # << >> /\ UNCHANGED vars
      /\ 1 \in 1 .. Len(queue) /\ queue[1] \in View
      /\ stream'[s].pc = "live" /\ stream'[s].queue = Tail(queue) /\ Same(told, queue[1])
      /\ stream'[s] \in Stream /\ stream' = [stream EXCEPT ![s] = stream'[s]]
  BY ForwardFacts
<1>2. /\ queue \in Seq(View) /\ Len(queue) <= QueueSize /\ Len(queue) \in Nat
      /\ \A i \in 1 .. Len(queue) : queue[i] \in View
      /\ InSequence(s) /\ LastWord(s) /\ Status \in View
  BY <1>1, StreamFields DEF StreamInv, TellsAll
<1>3. phase = "up" /\ Status' = Status /\ Base(s)' = told /\ told \in View
  BY <1>1 DEF StreamInv, StreamsWhileUp, vars, manager, Status, Latest, Newest, Base, Stream
<1>4. /\ Len(Tail(queue)) = Len(queue) - 1 /\ Len(queue) >= 1
      /\ Tail(queue) \in Seq(View)
      /\ \A i \in 1 .. Len(queue) - 1 : Tail(queue)[i] = queue[i + 1] /\ i + 1 \in 1 .. Len(queue)
  BY <1>1, <1>2
<1>5. \A w \in View : Follows(queue[1], w) => Follows(told, w)
  BY <1>1, <1>3, FollowsFacts DEF Same
<1>6. InSequence(s)'
  <2>1. Follows(told, Status)
    BY <1>1, <1>2, <1>5 DEF InSequence
  <2>2. ASSUME NEW i \in 1 .. Len(queue) - 1
        PROVE  /\ Follows(told, queue[i + 1]) /\ Follows(queue[i + 1], Status)
               /\ \A j \in 1 .. Len(queue) - 1 : i < j => Follows(queue[i + 1], queue[j + 1])
    BY <1>1, <1>2, <1>4, <1>5 DEF InSequence
  <2>3. QED
    BY <1>1, <1>3, <1>4, <2>1, <2>2 DEF InSequence
<1>7. LastWord(s)'
  <2>1. CASE Len(queue) = 1
    <3>1. Tail(queue) = << >>
      <4>1. Tail(queue) \in Seq(View) /\ Len(Tail(queue)) = 0
        BY <1>1, <1>2, <1>4, <2>1
      <4>2. QED
        BY <4>1, EmptyQueue
    <3>2. QED
      BY <1>1, <1>3, <2>1, <3>1, <1>2 DEF LastWord, Same
  <2>2. CASE Len(queue) # 1
    <3>1. Tail(queue) # << >> /\ Tail(queue)[Len(Tail(queue))] = queue[Len(queue)]
      <4>1. Len(queue) - 1 \in 1 .. Len(queue) - 1 /\ Len(queue) - 1 # 0
        <5>1. \A n \in Nat : n >= 1 /\ n # 1 => n - 1 \in 1 .. n - 1 /\ n - 1 # 0
          OBVIOUS
        <5>2. QED
          BY <1>2, <1>4, <2>2, <5>1
      <4>2. Tail(queue)[Len(queue) - 1] = queue[Len(queue) - 1 + 1]
        BY <1>4, <4>1
      <4>3. Len(queue) - 1 + 1 = Len(queue) /\ Tail(queue) # << >>
        BY <1>2, <1>4, <4>1, EmptyQueue
      <4>4. QED
        BY <1>4, <4>2, <4>3
    <3>2. QED
      BY <1>1, <1>2, <1>3, <3>1 DEF LastWord
  <2>3. QED
    BY <2>1, <2>2
<1>8. Len(stream'[s].queue) <= QueueSize
  BY <1>1, <1>2, <1>4, StreamAssumption
<1>9. QED
  BY <1>1, <1>3, <1>6, <1>7, <1>8, OneStreamStep

LEMMA HangupStep ==
    ASSUME StreamInv, NEW s \in Streams, Hangup(s)
    PROVE  StreamTypeOK' /\ StreamsWhileUp' /\ TellsAll'
<1>1. Len(NoStream.queue) <= QueueSize
  BY IdleStream, StreamAssumption
<1>2. QED
  BY <1>1, IdleStream, OneStreamStep DEF Hangup

LEMMA CloseAllStep ==
    ASSUME CloseAll, TypeOK'
    PROVE  StreamTypeOK' /\ StreamsWhileUp' /\ TellsAll'
<1>1. Len(NoStream.queue) <= QueueSize
  BY IdleStream, StreamAssumption
<1>2. QED
  BY <1>1, IdleStream DEF CloseAll, StreamTypeOK, StreamsWhileUp, TellsAll

LEMMA StreamInvStep == ASSUME StreamInv, [StreamNext]_allVars PROVE StreamInv'
<1>1. IInv' /\ TypeOK'
  BY StreamStep, InvStep DEF StreamInv, IInv
<1>2. CASE ManagerStep /\ Deliver
  BY <1>1, <1>2, DeliverStep DEF StreamInv
<1>3. CASE CloseAll
  BY <1>1, <1>3, CloseAllStep DEF StreamInv
<1>4. ASSUME NEW s \in Streams, Subscribe(s) \/ SendSnapshot(s) \/ Forward(s) \/ Hangup(s)
      PROVE  StreamInv'
  BY <1>1, <1>4, SubscribeStep, SendSnapshotStep, ForwardStep, HangupStep DEF StreamInv
<1>5. CASE UNCHANGED allVars
  <2>1. Status' = Status /\ stream' = stream /\ phase' = phase
    BY <1>5 DEF allVars, vars, manager, Status, Latest, Newest
  <2>2. QED
    BY <1>1, <2>1 DEF StreamInv, StreamTypeOK, StreamsWhileUp, TellsAll, InSequence, LastWord, Base
<1>6. QED
  BY <1>2, <1>3, <1>4, <1>5 DEF StreamNext

-----------------------------------------------------------------------------
(* The invariant holds, and what the run checks follows from it. *)

LEMMA StreamInvInit == ASSUME StreamInit PROVE StreamInv
<1>1. IInv /\ TypeOK
  BY InitInv DEF StreamInit, IInv
<1>2. Len(NoStream.queue) <= QueueSize
  BY IdleStream, StreamAssumption
<1>3. QED
  BY <1>1, <1>2, IdleStream DEF StreamInit, StreamInv, StreamTypeOK, StreamsWhileUp, TellsAll

(* Each stream's queue follows what its client was told and leads up to    *)
(* the latest build, at every moment (orchestration/build_tasks.py).       *)
THEOREM StreamInvariance == StreamSpec => []StreamInv
<1>1. StreamInit => StreamInv
  BY StreamInvInit
<1>2. StreamInv /\ [StreamNext]_allVars => StreamInv'
  BY StreamInvStep
<1>3. QED
  BY <1>1, <1>2, PTL DEF StreamSpec

(* No subscriber's queue outgrows its size, however slow its client        *)
(* (orchestration/build_tasks.py).                                         *)
THEOREM StreamTypeCorrect == StreamSpec => []StreamTypeOK
<1>1. StreamInv => StreamTypeOK
  BY DEF StreamInv
<1>2. QED
  BY <1>1, StreamInvariance, PTL

(* Whatever a full queue dropped, the last that a client is told is the    *)
(* latest build in the state it is in (orchestration/build_tasks.py,       *)
(* api/routers/ws.py).                                                     *)
THEOREM LastWordTrue == StreamSpec => []LastWordIsTruth
<1>1. StreamInv => LastWordIsTruth
  BY DEF StreamInv, TellsAll, LastWord, LastWordIsTruth, Same, Base
<1>2. QED
  BY <1>1, StreamInvariance, PTL

(* A client is told no older build after a newer one, and of a build that  *)
(* ended nothing else (api/routers/ws.py).                                 *)
LEMMA ForwardsOnly ==
    ASSUME StreamInv, StreamNext, NEW s \in Streams,
           stream[s].pc = "live", stream'[s].pc = "live"
    PROVE  Follows(stream[s].told, stream'[s].told)
<1>1. stream[s].told \in View
  BY StreamFields DEF StreamInv
<1>2. CASE stream'[s].told = stream[s].told
  BY <1>1, <1>2, FollowsFacts
<1>3. CASE ManagerStep /\ Deliver
  <2>1. stream'[s].told = stream[s].told
    BY <1>3, StreamFields DEF Deliver, StreamInv, Stream
  <2>2. QED
    BY <1>2, <2>1
<1>4. CASE CloseAll
  BY <1>4, IdleStream DEF CloseAll
<1>5. ASSUME NEW u \in Streams, Subscribe(u) \/ SendSnapshot(u) \/ Hangup(u)
      PROVE  Follows(stream[s].told, stream'[s].told)
  <2>1. stream \in [Streams -> Stream] /\ stream[s].pc # "off" /\ stream[s].pc # "ready"
    BY DEF StreamInv, StreamTypeOK
  <2>2. CASE Subscribe(u)
    <3>1. u # s
      BY <2>1, <2>2 DEF Subscribe
    <3>2. QED
      BY <1>2, <2>1, <2>2, <3>1 DEF Subscribe
  <2>3. CASE SendSnapshot(u)
    <3>1. u # s
      BY <2>1, <2>3 DEF SendSnapshot
    <3>2. QED
      BY <1>2, <2>1, <2>3, <3>1 DEF SendSnapshot
  <2>4. CASE Hangup(u)
    <3>1. u # s
      BY <2>1, <2>4, IdleStream DEF Hangup
    <3>2. QED
      BY <1>2, <2>1, <2>4, <3>1 DEF Hangup
  <2>5. QED
    BY <1>5, <2>2, <2>3, <2>4
<1>6. ASSUME NEW u \in Streams, Forward(u)
      PROVE  Follows(stream[s].told, stream'[s].told)
  <2>1. CASE u # s
    <3>1. stream'[s] = stream[s]
      BY <1>6, <2>1 DEF Forward, StreamInv, StreamTypeOK
    <3>2. QED
      BY <1>2, <3>1
  <2>2. CASE u = s
    <3>1. /\ 1 \in 1 .. Len(stream[s].queue) /\ stream[s].queue[1] \in View
          /\ Same(stream'[s].told, stream[s].queue[1])
          /\ stream'[s].told \in View
      BY <1>6, <2>2, ForwardFacts DEF Stream
    <3>2. Follows(stream[s].told, stream[s].queue[1])
      BY <3>1 DEF StreamInv, TellsAll, InSequence, Base
    <3>3. QED
      BY <1>1, <3>1, <3>2, FollowsFacts DEF Same
  <2>3. QED
    BY <2>1, <2>2
<1>7. QED
  BY <1>3, <1>4, <1>5, <1>6 DEF StreamNext

(* No client is told of an older build after a newer one, or that a build  *)
(* that ended is running, whatever the snapshot and the dropped events     *)
(* (orchestration/build_tasks.py, api/routers/ws.py).                      *)
THEOREM ToldInOrder == StreamSpec => NeverBackwards
<1>1. StreamInv /\ [StreamNext]_allVars =>
          [\A s \in Streams : stream[s].pc = "live" /\ stream'[s].pc = "live" =>
               /\ stream'[s].told.task >= stream[s].told.task
               /\ stream'[s].told.task = stream[s].told.task
                      /\ stream[s].told.state \in {"succeeded", "failed"}
                      => stream'[s].told.state = stream[s].told.state]_allVars
  <2>1. ASSUME StreamInv, StreamNext, NEW s \in Streams,
               stream[s].pc = "live", stream'[s].pc = "live"
        PROVE  /\ stream'[s].told.task >= stream[s].told.task
               /\ stream'[s].told.task = stream[s].told.task
                      /\ stream[s].told.state \in {"succeeded", "failed"}
                      => stream'[s].told.state = stream[s].told.state
    BY <2>1, ForwardsOnly DEF Follows
  <2>2. QED
    BY <2>1
<1>2. QED
  BY <1>1, StreamInvariance, PTL DEF StreamSpec, NeverBackwards

-----------------------------------------------------------------------------
(* The browsers implement the streams. *)

LEMMA ViewStep == ASSUME [ViewNext]_viewVars PROVE [StreamNext]_allVars
<1>1. \A s \in Streams :
          /\ ShowSnapshot(s) => SendSnapshot(s)
          /\ ShowEvent(s) => Forward(s)
          /\ Poll(s) \/ ServerAnswers(s) \/ AnswerArrives(s) \/ StartArrives(s) \/ RequestsFail(s)
                 => UNCHANGED allVars
  BY DEF ShowSnapshot, ShowEvent, Poll, ServerAnswers, AnswerArrives, StartArrives, RequestsFail
<1>2. CASE ViewNext
  BY <1>1, <1>2 DEF ViewNext, StreamNext
<1>3. CASE UNCHANGED viewVars
  BY <1>3 DEF viewVars
<1>4. QED
  BY <1>2, <1>3

(* What the browsers ask for and show is nothing to the server: its steps, *)
(* and what its streams tell, are those of TaskStream.                     *)
THEOREM ViewsImplementStreams == ViewSpec => StreamInit /\ [][StreamNext]_allVars
<1>1. ViewInit => StreamInit
  BY DEF ViewInit
<1>2. [ViewNext]_viewVars => [StreamNext]_allVars
  BY ViewStep
<1>3. QED
  BY <1>1, <1>2, PTL DEF ViewSpec

-----------------------------------------------------------------------------
(* What a browser shows *)

(* A view that is not of an end, or of one that was so, as far as the      *)
(* server remembers.                                                       *)
Real(v) ==
    /\ v \in View
    /\ Over(v) => /\ v.task \in Builds /\ runner[v.task] # "none"
                  /\ task[v.task] = NoBuild \/ task[v.task].state = v.state

StreamIsReal(st) ==
    /\ Real(st.told) /\ Real(st.snapshot)
    /\ \A i \in 1 .. Len(st.queue) : Real(st.queue[i])

Browser == [shown : View, loaded : BOOLEAN, get : {"idle", "asked", "answered"},
            answer : View, start : View]

BrowserIsReal(b) == b \in Browser /\ Real(b.shown) /\ Real(b.answer) /\ Real(b.start)

(* Every view on its way to a browser is real, and those it has. *)
AllReal ==
    /\ DOMAIN browser = Streams
    /\ \A s \in Streams : StreamIsReal(stream[s]) /\ BrowserIsReal(browser[s])

ViewInv == StreamInv /\ browser \in [Streams -> Browser] /\ AllReal

LEMMA IdleIsReal ==
    /\ NoView \in View /\ Real(NoView)
    /\ StreamIsReal(NoStream) /\ BrowserIsReal(Opened)
<1>1. NoView \in View /\ Real(NoView)
  BY DEF NoView, View, NoStage, Real, Over
<1>2. StreamIsReal(NoStream)
  BY <1>1 DEF StreamIsReal, NoStream
<1>3. BrowserIsReal(Opened)
  BY <1>1 DEF BrowserIsReal, Browser, Opened
<1>4. QED
  BY <1>1, <1>2, <1>3

(* The view of a build as it is. *)
LEMMA AsItIs ==
    IInv => \A v \in View :
                v.task \in Builds /\ v.state = task[v.task].state => Real(v)
BY DEF IInv, InOrder, Real, Over, NoBuild

LEMMA AsItIsNext ==
    IInv' => \A v \in View :
                 v.task \in Builds /\ v.state = task'[v.task].state => Real(v)'
BY DEF IInv, InOrder, Real, Over, NoBuild

LEMMA StatusIsReal == IInv => Real(Status)
<1>1. SUFFICES ASSUME IInv PROVE Real(Status)
  OBVIOUS
<1>2. CASE Latest = NoTask
  BY <1>1, <1>2, StatusFacts, IdleIsReal
<1>3. CASE Latest # NoTask
  BY <1>1, <1>3, StatusFacts, AsItIs
<1>4. QED
  BY <1>2, <1>3

LEMMA StatusIsRealNext == (IInv => Real(Status))'
BY StatusIsReal, PTL

(* A build that ended, or that is forgotten, stays so. *)
LEMMA EndsStay ==
    ASSUME IInv, [Next]_vars, NEW t \in Builds, runner[t] # "none",
           Ended(t) \/ task[t] = NoBuild
    PROVE  runner'[t] # "none" /\ (task'[t] = task[t] \/ task'[t] = NoBuild)
<1> USE DEF Ended
<1>1. TypeOK /\ SlotIsTaken /\ task[t].state # "running"
  BY DEF IInv, NoBuild
<1>2. ASSUME NEW u \in Builds, NEW dry \in BOOLEAN, Start(u, dry)
      PROVE  runner'[t] # "none" /\ task'[t] = task[t]
  BY <1>1, <1>2 DEF Start, TypeOK
<1>3. ASSUME NEW u \in Builds, RunnerStarts(u) \/ RunnerResumes(u)
      PROVE  runner'[t] # "none" /\ task'[t] = task[t]
  <2>1. task[u].state = "running"
    BY <1>1, <1>3 DEF RunnerStarts, RunnerResumes, SlotIsTaken
  <2>2. u # t
    BY <1>1, <2>1
  <2>3. QED
    BY <1>1, <1>3, <2>2 DEF RunnerStarts, RunnerResumes, End, manager, TypeOK
<1>4. ASSUME NEW u \in Builds, RunnerCancelled(u)
      PROVE  runner'[t] # "none" /\ task'[t] = task[t]
  <2>1. task[u].state = "failed" /\ task[u] \in Task
    BY <1>1, <1>4 DEF RunnerCancelled, SlotIsTaken, TypeOK
  <2>2. [task[u] EXCEPT !.state = "failed"] = task[u]
    BY <2>1 DEF Task
  <2>3. QED
    BY <1>1, <1>4, <2>2 DEF RunnerCancelled, End, TypeOK
<1>5. CASE LoopProgress
  BY <1>1, <1>5 DEF LoopProgress, OnProgress, TypeOK
<1>6. CASE CancelAll
  <2>1. runner[t] # "waiting"
    BY <1>1 DEF SlotIsTaken
  <2>2. QED
    BY <1>1, <1>6, <2>1 DEF CancelAll
<1>7. CASE Exit \/ Crash
  BY <1>1, <1>7 DEF Exit, Crash, Gone
<1>8. CASE UNCHANGED <<task, runner>>
  BY <1>8
<1>9. QED
  <2>1. \A u \in Builds : ThreadStep(u) => UNCHANGED <<task, runner>>
    BY DEF ThreadStep, ThreadReports, ThreadReplaces, ThreadReturns, ThreadFails, manager
  <2>2. LoopDone \/ Shutdown \/ Boot => UNCHANGED <<task, runner>>
    BY DEF LoopDone, Shutdown, Boot, manager
  <2>3. UNCHANGED vars => UNCHANGED <<task, runner>>
    BY DEF vars, manager
  <2>4. QED
    BY <1>2, <1>3, <1>4, <1>5, <1>6, <1>7, <1>8, <2>1, <2>2, <2>3 DEF Next, LoopStep

LEMMA RealStays == ASSUME IInv, [Next]_vars, NEW v, Real(v) PROVE Real(v)'
<1>1. CASE ~Over(v)
  BY <1>1 DEF Real, Over
<1>2. CASE Over(v)
  <2>1. /\ v.task \in Builds /\ runner[v.task] # "none"
        /\ Ended(v.task) \/ task[v.task] = NoBuild
    BY <1>2 DEF Real, Over, Ended
  <2>2. QED
    BY <1>2, <2>1, EndsStay DEF Real
<1>3. QED
  BY <1>1, <1>2

(* What is told of a real view and a real event is real. *)
LEMMA ToldIsReal ==
    ASSUME NEW v, NEW e, Real(v), Real(e)
    PROVE  Real(Told(v, e))
<1>1. CASE e.task = v.task /\ e.stage = NoStage
  <2>1. Told(v, e) = [v EXCEPT !.state = e.state] /\ v \in View /\ e \in View
    BY <1>1 DEF Told, Real
  <2>2. /\ Told(v, e) \in View /\ Told(v, e).task = e.task /\ Told(v, e).state = e.state
    BY <1>1, <2>1 DEF View
  <2>3. QED
    BY <2>2 DEF Real, Over
<1>2. CASE ~(e.task = v.task /\ e.stage = NoStage)
  BY <1>2 DEF Told
<1>3. QED
  BY <1>1, <1>2

(* The query cache takes real views to real views. *)
LEMMA CacheIsReal ==
    ASSUME NEW b, BrowserIsReal(b), NEW v, Real(v)
    PROVE  /\ BrowserIsReal(Refetch(b))
           /\ BrowserIsReal(Fill(b, v))
           /\ BrowserIsReal(OnSnapshot(b, v))
           /\ BrowserIsReal(OnEvent(b, v))
<1>1. ASSUME NEW c, BrowserIsReal(c) PROVE BrowserIsReal(Refetch(c))
  BY <1>1, IdleIsReal DEF BrowserIsReal, Browser, Refetch
<1>2. ASSUME NEW w, Real(w) PROVE BrowserIsReal(Fill(b, w))
  <2>1. w \in View
    BY <1>2 DEF Real
  <2>2. QED
    BY <1>2, <2>1 DEF BrowserIsReal, Browser, Fill
<1>3. BrowserIsReal(OnSnapshot(b, v))
  BY <1>1, <1>2 DEF OnSnapshot
<1>4. BrowserIsReal(OnEvent(b, v))
  <2>1. Real(Told(b.shown, v))
    BY ToldIsReal DEF BrowserIsReal
  <2>2. BrowserIsReal(Fill(b, Told(b.shown, v)))
    BY <1>2, <2>1
  <2>3. QED
    BY <1>1, <2>2 DEF OnEvent
<1>5. QED
  BY <1>1, <1>2, <1>3, <1>4

LEMMA RealKept ==
    ASSUME IInv, [Next]_vars
    PROVE  /\ \A st : StreamIsReal(st) => StreamIsReal(st)'
           /\ \A b : BrowserIsReal(b) => BrowserIsReal(b)'
<1>1. \A v : Real(v) => Real(v)'
  BY RealStays
<1>2. ASSUME NEW st, StreamIsReal(st) PROVE StreamIsReal(st)'
  BY <1>1, <1>2 DEF StreamIsReal
<1>3. ASSUME NEW b, BrowserIsReal(b) PROVE BrowserIsReal(b)'
  BY <1>1, <1>3 DEF BrowserIsReal, Browser, View
<1>4. QED
  BY <1>2, <1>3

-----------------------------------------------------------------------------
(* The steps keep every view real. *)

(* A step of the manager publishes what is so. *)
LEMMA PublishedIsReal ==
    ASSUME StreamInv, IInv', ManagerStep, phase = "up", NEW e \in Published
    PROVE  Real(e)'
<1>1. e \in View /\ Same(e, Status')
  BY ManagerMoves DEF Moves, StreamInv
<1>2. Real(Status)'
  BY StatusIsRealNext
<1>3. QED
  BY <1>1, <1>2 DEF Real, Over, Same

LEMMA DeliverIsReal ==
    ASSUME ViewInv, IInv', ManagerStep, Deliver, NEW s \in Streams
    PROVE  StreamIsReal(stream[s])'
<1>1. StreamInv /\ IInv /\ StreamTypeOK /\ [Next]_vars /\ StreamIsReal(stream[s])
  BY DEF ViewInv, StreamInv, AllReal, ManagerStep, Next
<1>2. StreamIsReal(stream[s])' \/ stream'[s] # stream[s]
  BY <1>1, RealKept
<1>3. CASE stream'[s] # stream[s]
  <2>1. PICK e \in Published :
            /\ stream[s].pc # "off"
            /\ stream'[s] = [stream[s] EXCEPT !.queue = Push(stream[s].queue, e)]
    BY <1>3 DEF Deliver
  <2>2. PICK old : old = stream[s].queue
    OBVIOUS
  <2> DEFINE new == Push(old, e)
  <2>3. phase = "up"
    BY <1>1, <2>1 DEF StreamInv, StreamsWhileUp
  <2>4. e \in View /\ Real(e)'
    BY <1>1, <2>3, PublishedIsReal, ManagerMoves DEF Moves
  <2>5. /\ old \in Seq(View) /\ Len(old) <= QueueSize /\ stream[s] \in Stream
    BY <1>1, <2>2, StreamFields
  <2>6. /\ new \in Seq(View) /\ Len(new) >= 1 /\ new[Len(new)] = e
        /\ \E k \in {0, 1} : \A i \in 1 .. Len(new) - 1 :
               i + k \in 1 .. Len(old) /\ new[i] = old[i + k]
    BY <2>4, <2>5, PushFacts
  <2> HIDE DEF new
  <2>7. \A v : Real(v) => Real(v)'
    BY <1>1, RealStays
  <2>8. \A i \in 1 .. Len(old) : Real(old[i])'
    <3>1. \A i \in 1 .. Len(old) : Real(old[i])
      BY <1>1, <2>2 DEF StreamIsReal
    <3>2. QED
      BY <2>7, <3>1
  <2>9. \A i \in 1 .. Len(new) : Real(new[i])'
    <3>1. PICK k \in {0, 1} : \A i \in 1 .. Len(new) - 1 :
              i + k \in 1 .. Len(old) /\ new[i] = old[i + k]
      BY <2>6
    <3>2. Len(new) \in Nat
      BY <2>6
    <3>3. \A i \in 1 .. Len(new) - 1 : Real(new[i])'
      BY <2>8, <3>1
    <3>4. Real(new[Len(new)])'
      BY <2>4, <2>6
    <3>5. \A i \in 1 .. Len(new) : i \in 1 .. Len(new) - 1 \/ i = Len(new)
      BY <3>2
    <3>6. QED
      BY <3>3, <3>4, <3>5
  <2>10. /\ stream'[s].queue = new /\ stream'[s].told = stream[s].told
         /\ stream'[s].snapshot = stream[s].snapshot
    BY <2>1, <2>2, <2>5 DEF Stream, new
  <2>11. Real(stream[s].told)' /\ Real(stream[s].snapshot)'
    <3>1. Real(stream[s].told) /\ Real(stream[s].snapshot)
      BY <1>1 DEF StreamIsReal
    <3>2. QED
      BY <2>7, <2>10, <3>1
  <2>12. QED
    BY <2>9, <2>10, <2>11 DEF StreamIsReal
<1>4. QED
  BY <1>2, <1>3

(* The handlers pass on what they have, or the status. *)
LEMMA HandlersAreReal ==
    ASSUME ViewInv, NEW u \in Streams, Subscribe(u) \/ SendSnapshot(u) \/ Forward(u) \/ Hangup(u),
           NEW s \in Streams
    PROVE  StreamIsReal(stream'[s])
<1>1. /\ IInv /\ stream \in [Streams -> Stream] /\ stream[u] \in Stream
      /\ \A t \in Streams : StreamIsReal(stream[t])
  BY DEF ViewInv, AllReal, StreamInv, StreamTypeOK
<1>2. CASE u # s
  BY <1>1, <1>2 DEF Subscribe, SendSnapshot, Forward, Hangup
<1>3. CASE u = s /\ Subscribe(s)
  <2>1. stream'[s] = [NoStream EXCEPT !.pc = "ready", !.snapshot = Status]
    BY <1>1, <1>3 DEF Subscribe
  <2>2. Real(Status)
    BY <1>1, StatusIsReal
  <2>3. /\ stream'[s].told = NoStream.told /\ stream'[s].snapshot = Status
        /\ stream'[s].queue = NoStream.queue
    BY <2>1 DEF NoStream
  <2>4. QED
    BY <2>2, <2>3, IdleIsReal DEF StreamIsReal
<1>4. CASE u = s /\ SendSnapshot(s)
  <2>1. stream'[s] = [stream[s] EXCEPT !.pc = "live", !.told = stream[s].snapshot]
    BY <1>1, <1>4 DEF SendSnapshot
  <2>2. /\ stream'[s].told = stream[s].snapshot /\ stream'[s].snapshot = stream[s].snapshot
        /\ stream'[s].queue = stream[s].queue
    BY <1>1, <1>4, <2>1 DEF Stream
  <2>3. QED
    BY <1>1, <2>2 DEF StreamIsReal
<1>5. CASE u = s /\ Forward(s)
  <2> DEFINE queue == stream[s].queue
  <2>1. /\ queue \in Seq(View) /\ queue # << >> /\ Real(stream[s].told)
        /\ Real(stream[s].snapshot) /\ \A i \in 1 .. Len(queue) : Real(queue[i])
    BY <1>1, <1>5 DEF Stream, StreamIsReal, Forward
  <2>2. /\ stream'[s].told = Told(stream[s].told, Head(queue))
        /\ stream'[s].snapshot = stream[s].snapshot /\ stream'[s].queue = Tail(queue)
    BY <1>1, <1>5 DEF Forward, Stream
  <2> HIDE DEF queue
  <2>3. /\ 1 \in 1 .. Len(queue) /\ Head(queue) = queue[1]
        /\ \A i \in 1 .. Len(Tail(queue)) :
              i + 1 \in 1 .. Len(queue) /\ Tail(queue)[i] = queue[i + 1]
    BY <2>1
  <2>4. Real(Told(stream[s].told, Head(queue)))
    BY <2>1, <2>3, ToldIsReal
  <2>5. \A i \in 1 .. Len(Tail(queue)) : Real(Tail(queue)[i])
    BY <2>1, <2>3
  <2>6. QED
    BY <2>1, <2>2, <2>4, <2>5 DEF StreamIsReal
<1>6. CASE u = s /\ Hangup(s)
  BY <1>1, <1>6, IdleIsReal DEF Hangup
<1>7. QED
  BY <1>2, <1>3, <1>4, <1>5, <1>6

(* What a browser is sent, answered or loses leaves it real views. *)
LEMMA BrowsersAreReal ==
    ASSUME ViewInv, NEW u \in Streams,
           \/ ShowSnapshot(u) \/ ShowEvent(u) \/ Poll(u) \/ ServerAnswers(u)
           \/ AnswerArrives(u) \/ StartArrives(u) \/ RequestsFail(u)
    PROVE  /\ DOMAIN browser' = Streams
           /\ \A s \in Streams : BrowserIsReal(browser'[s])
<1> DEFINE b == browser[u]
<1>1. /\ IInv /\ browser \in [Streams -> Browser] /\ stream \in [Streams -> Stream]
      /\ StreamIsReal(stream[u]) /\ \A t \in Streams : BrowserIsReal(browser[t])
  BY DEF ViewInv, AllReal, StreamInv, StreamTypeOK
<1>2. BrowserIsReal(b) /\ b \in Browser /\ Real(b.answer) /\ Real(b.start)
  BY <1>1 DEF BrowserIsReal
<1>3. SUFFICES browser' = browser \/ \E c : /\ BrowserIsReal(c)
                                           /\ browser' = [browser EXCEPT ![u] = c]
  BY <1>1
<1>4. CASE ShowSnapshot(u)
  <2>1. Real(stream[u].snapshot)
    BY <1>1 DEF StreamIsReal
  <2>2. BrowserIsReal(OnSnapshot(b, stream[u].snapshot))
    BY <1>2, <2>1, CacheIsReal
  <2>3. QED
    BY <1>4, <2>2 DEF ShowSnapshot
<1>5. CASE ShowEvent(u)
  <2>1. stream[u].queue \in Seq(View) /\ stream[u].queue # << >>
    BY <1>1, <1>5 DEF ShowEvent, Forward, Stream
  <2>2. Real(Head(stream[u].queue))
    BY <1>1, <2>1 DEF StreamIsReal
  <2>3. BrowserIsReal(OnEvent(b, Head(stream[u].queue)))
    BY <1>2, <2>2, CacheIsReal
  <2>4. QED
    BY <1>5, <2>3 DEF ShowEvent
<1>6. CASE Poll(u)
  <2>1. BrowserIsReal([b EXCEPT !.get = "asked"])
    BY <1>2 DEF BrowserIsReal, Browser
  <2>2. QED
    BY <1>6, <2>1 DEF Poll
<1>7. CASE ServerAnswers(u)
  <2>1. Real(Status) /\ Status \in View
    BY <1>1, StatusIsReal DEF Real
  <2>2. BrowserIsReal([b EXCEPT !.get = "answered", !.answer = Status])
    BY <1>2, <2>1 DEF BrowserIsReal, Browser
  <2>3. QED
    BY <1>7, <2>2 DEF ServerAnswers
<1>8. CASE AnswerArrives(u)
  <2>1. BrowserIsReal(Fill(b, b.answer))
    BY <1>2, CacheIsReal
  <2>2. BrowserIsReal([Fill(b, b.answer) EXCEPT !.get = "idle", !.answer = NoView])
    BY <2>1, IdleIsReal DEF BrowserIsReal, Browser
  <2>3. QED
    BY <1>8, <2>2 DEF AnswerArrives
<1>9. CASE StartArrives(u)
  <2>1. BrowserIsReal(Fill(b, b.start))
    BY <1>2, CacheIsReal
  <2>2. BrowserIsReal([Fill(b, b.start) EXCEPT !.start = NoView])
    BY <2>1, IdleIsReal DEF BrowserIsReal, Browser
  <2>3. QED
    BY <1>9, <2>2 DEF StartArrives
<1>10. CASE RequestsFail(u)
  <2>1. BrowserIsReal([b EXCEPT !.get = "idle", !.answer = NoView, !.start = NoView])
    BY <1>2, IdleIsReal DEF BrowserIsReal, Browser
  <2>2. browser' = [browser EXCEPT
            ![u] = [b EXCEPT !.get = "idle", !.answer = NoView, !.start = NoView]]
    BY <1>1, <1>10 DEF RequestsFail
  <2>3. QED
    BY <2>1, <2>2
<1>11. QED
  BY <1>4, <1>5, <1>6, <1>7, <1>8, <1>9, <1>10

(* The response to a start is about the build it made. *)
LEMMA PostIsReal ==
    ASSUME ViewInv, IInv', [Next]_vars, NEW u \in Streams, Posts(u), NEW s \in Streams
    PROVE  BrowserIsReal(browser[s])' /\ DOMAIN browser' = Streams
<1>1. IInv /\ browser \in [Streams -> Browser] /\ BrowserIsReal(browser[s])
  BY DEF ViewInv, AllReal, StreamInv
<1>2. PICK v : v = [task |-> active', state |-> task'[active'].state, stage |-> NoStage]
  OBVIOUS
<1>3. browser' = [browser EXCEPT ![u].start = v]
  BY <1>2 DEF Posts
<1>4. v \in View /\ v.task \in Builds /\ v.state = task'[v.task].state
  <2>1. active' \in Builds /\ task'[active'] \in Task
    BY DEF Posts, IInv, TypeOK, Known
  <2>2. QED
    BY <1>2, <2>1 DEF View, Task
<1>5. Real(v)'
  BY <1>4, AsItIsNext
<1>6. PICK b : b = browser[s]
  OBVIOUS
<1>7. b \in Browser /\ BrowserIsReal(b)'
  BY <1>1, <1>6, RealKept
<1>8. browser'[s] = IF s = u THEN [b EXCEPT !.start = v] ELSE b
  BY <1>1, <1>3, <1>6
<1>9. BrowserIsReal([b EXCEPT !.start = v])'
  BY <1>4, <1>5, <1>7 DEF BrowserIsReal, Browser
<1>10. QED
  BY <1>1, <1>3, <1>7, <1>8, <1>9

LEMMA ViewInvStep == ASSUME ViewInv, [ViewNext]_viewVars PROVE ViewInv'
<1>1. [StreamNext]_allVars /\ [Next]_vars /\ StreamInv /\ IInv
  BY ViewStep, StreamStep DEF ViewInv, StreamInv
<1>2. StreamInv' /\ IInv'
  BY <1>1, StreamInvStep DEF StreamInv
<1>3. /\ browser \in [Streams -> Browser]
      /\ \A s \in Streams : StreamIsReal(stream[s]) /\ BrowserIsReal(browser[s])
  BY DEF ViewInv, AllReal
<1>4. CASE UNCHANGED viewVars
  <2>1. stream' = stream /\ browser' = browser
    BY <1>4 DEF viewVars, allVars
  <2>2. QED
    BY <1>1, <1>2, <1>3, <2>1, RealKept DEF ViewInv, AllReal
<1>5. CASE ManagerStep /\ Deliver /\ UNCHANGED browser
  BY <1>1, <1>2, <1>3, <1>5, DeliverIsReal, RealKept DEF ViewInv, AllReal
<1>6. ASSUME ManagerStep, Deliver, NEW u \in Streams, Posts(u) PROVE ViewInv'
  <2>1. browser' \in [Streams -> Browser]
    <3>1. \A s \in Streams : browser'[s] \in Browser
      BY <1>1, <1>2, <1>6, PostIsReal DEF BrowserIsReal
    <3>2. QED
      BY <1>3, <1>6, <3>1 DEF Posts
  <2>2. QED
    BY <1>1, <1>2, <1>6, <2>1, DeliverIsReal, PostIsReal DEF ViewInv, AllReal
<1>7. CASE CloseAll /\ UNCHANGED browser
  <2>1. \A s \in Streams : stream'[s] = NoStream
    BY <1>7 DEF CloseAll
  <2>2. QED
    BY <1>1, <1>2, <1>3, <1>7, <2>1, IdleIsReal, RealKept DEF ViewInv, AllReal
<1>8. ASSUME NEW u \in Streams, Subscribe(u) \/ Hangup(u), UNCHANGED browser PROVE ViewInv'
  <2>1. \A s \in Streams : StreamIsReal(stream'[s])
    BY <1>8, HandlersAreReal
  <2>2. QED
    BY <1>1, <1>2, <1>3, <1>8, <2>1, RealKept DEF ViewInv, AllReal
<1>9. ASSUME NEW u \in Streams,
             \/ ShowSnapshot(u) \/ ShowEvent(u) \/ Poll(u) \/ ServerAnswers(u)
             \/ AnswerArrives(u) \/ StartArrives(u) \/ RequestsFail(u)
      PROVE  ViewInv'
  <2>1. \A s \in Streams : StreamIsReal(stream'[s])
    <3>1. CASE SendSnapshot(u) \/ Forward(u)
      BY <3>1, HandlersAreReal
    <3>2. CASE UNCHANGED allVars
      BY <1>3, <3>2 DEF allVars
    <3>3. QED
      BY <1>9, <3>1, <3>2 DEF ShowSnapshot, ShowEvent, Poll, ServerAnswers, AnswerArrives,
         StartArrives, RequestsFail
  <2>2. DOMAIN browser' = Streams /\ \A s \in Streams : BrowserIsReal(browser'[s])
    BY <1>9, BrowsersAreReal
  <2>3. browser' \in [Streams -> Browser]
    <3>1. \A s \in Streams : browser'[s] \in Browser
      BY <2>2 DEF BrowserIsReal
    <3>2. browser' = browser \/ \E c : browser' = [browser EXCEPT ![u] = c]
      BY <1>3, <1>9 DEF ShowSnapshot, ShowEvent, Poll, ServerAnswers, AnswerArrives,
         StartArrives, RequestsFail
    <3>3. QED
      BY <1>3, <3>1, <3>2
  <2>4. QED
    BY <1>1, <1>2, <2>1, <2>2, <2>3, RealKept DEF ViewInv, AllReal
<1>10. QED
  BY <1>4, <1>5, <1>6, <1>7, <1>8, <1>9 DEF ViewNext

(* Every view a browser has or is about to get is of a build as it was:    *)
(* the snapshot, the queued events, the late answers and responses         *)
(* (realtime/applyMessage.ts, api/queries.ts, build/BuildPanel.tsx).       *)
THEOREM ViewInvariance == ViewSpec => []ViewInv
<1>1. ViewInit => ViewInv
  <2>1. SUFFICES ASSUME ViewInit PROVE ViewInv
    OBVIOUS
  <2>2. StreamInv
    BY <2>1, StreamInvInit DEF ViewInit
  <2>3. browser = [s \in Streams |-> Opened] /\ stream = [s \in Streams |-> NoStream]
    BY <2>1 DEF ViewInit, StreamInit
  <2>4. Opened \in Browser
    BY IdleIsReal DEF BrowserIsReal
  <2>5. QED
    BY <2>2, <2>3, <2>4, IdleIsReal DEF ViewInv, AllReal
<1>2. ViewInv /\ [ViewNext]_viewVars => ViewInv'
  BY ViewInvStep
<1>3. QED
  BY <1>1, <1>2, PTL DEF ViewSpec

(* No browser shows an end its build did not have, whatever reaches it     *)
(* late (realtime/applyMessage.ts, api/queries.ts).                        *)
THEOREM EndsShownAreReal == ViewSpec => []ShownEndIsReal
<1>1. ViewInv => ShownEndIsReal
  BY DEF ViewInv, AllReal, BrowserIsReal, Real, ShownEndIsReal
<1>2. QED
  BY <1>1, ViewInvariance, PTL

=============================================================================
