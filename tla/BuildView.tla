------------------------------ MODULE BuildView ------------------------------
(***************************************************************************)
(* What a browser shows of a build (frontend/src): the cached status, into *)
(* which the messages of /ws/tasks are folded (realtime/applyMessage.ts),  *)
(* the answers of GET /admin/content/build, asked when a message calls for *)
(* it or every two seconds while the stream is down (api/queries.ts), and  *)
(* the response to a build it started (features/build/BuildPanel.tsx).     *)
(* Composed with TaskStream: each stream is the connection of one browser  *)
(* with the build panel open, a message is folded as it arrives, and the   *)
(* requests take their own time.                                           *)
(***************************************************************************)
EXTENDS TaskStream

VARIABLE browser

viewVars == <<allVars, browser>>

(* A page that was just opened: its query asks for the latest build. *)
Opened == [shown |-> NoView,     \* the cached status
           loaded |-> FALSE,     \* whether the cache holds data, if only "none"
           get |-> "asked",      \* the query's fetch: "idle", "asked" or "answered"
           answer |-> NoView,    \* the answer on its way
           start |-> NoView]     \* the response to a start on its way

Over(view) == view.state \in {"succeeded", "failed"}

-----------------------------------------------------------------------------
(* The query cache *)

(* An invalidation fetches again: it drops the fetch under way, unless the *)
(* cache was never filled, and then joins it.                              *)
Refetch(b) ==
    IF b.get # "idle" /\ ~b.loaded THEN b ELSE [b EXCEPT !.get = "asked", !.answer = NoView]

(* The cache is filled: with a snapshot, an answer or a response. *)
Fill(b, view) == [b EXCEPT !.shown = view, !.loaded = TRUE]

JustFinished(previous, next) ==
    /\ previous # NoView /\ Over(next)
    /\ previous.task # next.task \/ ~Over(previous)

OnSnapshot(b, view) ==
    IF JustFinished(b.shown, view) THEN Refetch(Fill(b, view)) ELSE Fill(b, view)

(* Mutant: an event without a progress is skipped. *)
OnEvent_Progress(b, event) ==
    IF event.task # b.shown.task THEN Refetch(b)
    ELSE IF event.stage = NoStage THEN b ELSE Fill(b, Told(b.shown, event))

(* Mutant: an event is taken for one of the build that is shown. *)
OnEvent_AnyBuild(b, event) ==
    LET some == b.shown # NoView
        news == IF some THEN Fill(b, [b.shown EXCEPT !.state = event.state]) ELSE Refetch(b)
    IN  IF Over(event) /\ ~(some /\ Over(b.shown)) THEN Refetch(news) ELSE news

(* An event of the build that is shown updates it, and one of another      *)
(* build asks for the latest; so does the end of a build not yet shown.    *)
OnEvent(b, event) ==
    LET same == event.task = b.shown.task
        news == IF same THEN Fill(b, Told(b.shown, event)) ELSE Refetch(b)
    IN  IF Over(event) /\ ~(same /\ Over(b.shown)) THEN Refetch(news) ELSE news

-----------------------------------------------------------------------------
ViewInit ==
    /\ StreamInit
    /\ browser = [s \in Streams |-> Opened]

(* The button of the build panel: the server answers the start with the    *)
(* status of the task it made.  A refusal (409) changes nothing.           *)
Posts(s) ==
    /\ active = NoTask /\ active' # NoTask
    /\ browser[s].shown.state # "running" /\ browser[s].start = NoView
    /\ browser' = [browser EXCEPT ![s].start =
           [task |-> active', state |-> task'[active'].state, stage |-> NoStage]]

(* A running build is asked for every 2 seconds while the stream is down. *)
Poll(s) ==
    /\ browser[s].shown.state = "running" /\ stream[s].pc # "live"
    /\ browser[s].get = "idle"
    /\ browser' = [browser EXCEPT ![s].get = "asked"]
    /\ UNCHANGED allVars

(* GET /admin/content/build: the latest build, or none (404). *)
ServerAnswers(s) ==
    /\ browser[s].get = "asked" /\ phase = "up"
    /\ browser' = [browser EXCEPT ![s].get = "answered", ![s].answer = Status]
    /\ UNCHANGED allVars

AnswerArrives(s) ==
    /\ browser[s].get = "answered"
    /\ browser' = [browser EXCEPT ![s] =
           [Fill(@, @.answer) EXCEPT !.get = "idle", !.answer = NoView]]
    /\ UNCHANGED allVars

StartArrives(s) ==
    /\ browser[s].start # NoView
    /\ browser' = [browser EXCEPT ![s] = [Fill(@, @.start) EXCEPT !.start = NoView]]
    /\ UNCHANGED allVars

(* With the server gone a request fails: what is shown stays. *)
RequestsFail(s) ==
    /\ phase # "up" /\ (browser[s].get # "idle" \/ browser[s].start # NoView)
    /\ browser' = [browser EXCEPT
           ![s].get = "idle", ![s].answer = NoView, ![s].start = NoView]
    /\ UNCHANGED allVars

(* The messages of the stream reach the browser in order. *)
ShowSnapshot(s) ==
    /\ SendSnapshot(s)
    /\ browser' = IF stream[s].snapshot = NoView THEN browser
                  ELSE [browser EXCEPT ![s] = OnSnapshot(@, stream[s].snapshot)]

ShowEvent(s) ==
    /\ Forward(s)
    /\ browser' = [browser EXCEPT ![s] = OnEvent(@, Head(stream[s].queue))]

ViewNext ==
    \/ ManagerStep /\ Deliver /\ (UNCHANGED browser \/ \E s \in Streams : Posts(s))
    \/ (Shutdown \/ CancelAll \/ Exit \/ Crash \/ Boot) /\ CloseAll /\ UNCHANGED browser
    \/ \E s \in Streams :
        \/ (Subscribe(s) \/ Hangup(s)) /\ UNCHANGED browser
        \/ ShowSnapshot(s) \/ ShowEvent(s)
        \/ Poll(s) \/ ServerAnswers(s) \/ AnswerArrives(s) \/ StartArrives(s) \/ RequestsFail(s)

(* The fairness of the server, and that a browser goes on: its timer fires *)
(* and a server that is up answers.  Nothing obliges it to reconnect.      *)
ViewFairness ==
    /\ WF_viewVars(LoopStep /\ Deliver /\ UNCHANGED browser)
    /\ \A t \in Builds : WF_viewVars(ThreadStep(t) /\ Deliver /\ UNCHANGED browser)
    /\ WF_viewVars(CancelAll /\ CloseAll /\ UNCHANGED browser)
    /\ WF_viewVars(Exit /\ CloseAll /\ UNCHANGED browser)
    /\ \A s \in Streams :
        /\ WF_viewVars(ShowSnapshot(s)) /\ WF_viewVars(ShowEvent(s))
        /\ WF_viewVars(Poll(s)) /\ WF_viewVars(ServerAnswers(s)) /\ WF_viewVars(AnswerArrives(s))

ViewSpec == ViewInit /\ [][ViewNext]_viewVars /\ ViewFairness

-----------------------------------------------------------------------------
(* A browser that shows how a build ended shows how it did end, unless the *)
(* process that ran it is gone: whatever older answer, response or event   *)
(* reaches it late, and of whatever build.                                 *)
ShownEndIsReal ==
    \A s \in Streams :
        LET view == browser[s].shown
        IN  Over(view) => task[view.task] = NoBuild \/ task[view.task].state = view.state

(* A browser that shows a build which is running comes to show how it      *)
(* ended, or something newer, unless the server stops: whether it hears of *)
(* the end by an event, by the snapshot of a new connection or by asking,  *)
(* and whatever older answer is on its way.                                *)
ShowsTheEnd ==
    \A s \in Streams, t \in Builds :
        browser[s].shown.task = t /\ browser[s].shown.state = "running" /\ task[t].state = "running"
            ~> \/ browser[s].shown.task # t
               \/ browser[s].shown.state # "running"
               \/ phase # "up"
=============================================================================
