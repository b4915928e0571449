# Bunshō: a verification project

TLA+ specifications of [Bunshō](../src/README.md), a Japanese learning tool: a
FastAPI service for one learner (several browsers and tabs), a React front end,
and two SQLite files, `content.db` (built from a deck, replaced as a whole) and
`progress.db` (schedules, review log, settings, revoked sessions).

The service is one process with one asyncio event loop. A handler runs without
interruption between two awaits, and anything may run at an await; slow work
(password hashes, SQLite reads of `content.db`, content builds) runs in worker
threads. The specifications therefore have **one action per stretch between two
awaits**, and keep what a handler has read and will use later in that handler's
record. That is where this code can go wrong and where unit tests hardly reach.

## Inventory

| Component | State | Operations | Talks to | Hard because | Correct when |
|---|---|---|---|---|---|
| Review session (`orchestration/review_session.py`, `db/progress_repository.py`) | `card_state`, `review_log` | next card, answer | content repository, scheduler, policies, settings | read, schedule, write in three steps; plans go stale; replies get lost; a review may count though the reply is an error | no review lost or counted twice, rows agree with the log, the page is told the truth, daily limits hold |
| Review page (`ReviewPage.tsx`, `queries.ts`) | the card on screen, the answer in flight | load, grade, send again | review endpoints | several tabs; resends after an unknown outcome | a 409 means the card did get a review from the state the page saw (its own earlier attempt included), "saved" is true |
| Login sessions (`services/auth.py`, `db/revoked_session_store.py`, `session_logout.py`) | revocations in memory and in `revoked_session` | issue, refresh, revoke, load | sockets | checks read memory only, the write is awaited; pruning; restarts | a logged out session stays so |
| WebSockets (`routers/ws.py`, `session_sockets.py`, `pending_auth_gate.py`) | registry, gate counter, subscriptions | authenticate, stream, close | login sessions, build tasks | a logout between check and registration; every way out of the window | no stream survives its session, no slot is lost |
| Login throttle (`login_throttle.py`, `routers/auth.py`) | failures of each client | attempt, reset, prune | | hashes are checked concurrently | the limit holds for any interleaving, nobody pays for another |
| Build tasks (`build_tasks.py`, `content_build.py`, `content_repository.py`, `context.py`) | tasks, slot, callbacks, `content.db` | start, progress, end, shut down | a thread, the event loop, subscribers | thread and loop; cancellation; late callbacks | one writer, final and true statuses, a slot that comes back |
| Task stream (`ws.py`, `build_tasks.py`) | bounded queues | subscribe, snapshot, forward | browsers | slow clients, dropped events, snapshot against events | the last word is true, nothing older after newer |
| Startup and instances (`api/services.py`, `instance_lock.py`, `migrate.py`) | lock, migrations, temp files | start, close | file system | crashes between steps, overlap of two processes | no half-migrated database, no file of a live build swept |
| Study plan (`review_session.py`, `new_card_policies.py`, `type_availability.py`, `card_shuffle.py`) | the settings document, the rows, the day's counts | offer, answer, save settings | content catalogue, review session | limits, shares, switches, the kana gate and the policies together; a rebuild or an older document under it | what is offered is right, nothing that is wanted is left behind, counts follow |
| Content (`anki_importer.py`, `kanji_levels.py`, `kana_source.py`, `content_build.py`, `content_repository.py`) | the rows of `content.db` | build, catalogue | deck file, dictionary | ids of homographs, derived levels | a learned card stays the same word |
| Study day, statistics (`study_day.py`, `review_stats.py`) | none | window, date, sums | review session | hours that clocks skip or repeat | days follow one another, dates count up |
| Answers and choices (`answer_key.py`, `distractors.py`) | none | accepted answers, options | content | shuffles, equal answers, few items | options differ, the right one is there once |
| Browser session (`session.ts`, `client.ts`) | tokens, epochs | refresh, retry, log out | auth endpoints, other tabs | late answers of an older login | never resurrects a session |
| Browser build view (`BuildStream.ts`, `applyMessage.ts`, `BuildPanel.tsx`) | cached build | connect, poll, fold | task stream, REST | messages, polls and responses race | converges to the server's status |
| Without state, or outside (deck and ruby parsing, configuration, headers, settings form, UI) | | | | | see `PROJECT.json` |

## Modules

| Module | Models |
|---|---|
| `ReviewLedger` | abstract: each card has one history of reviews, which only grows, and each review names the one it follows |
| `ReviewSession` | `GET /reviews/next`, `POST /reviews/answer`, the two tables and the study pages; implements `ReviewLedger` |
| `ReviewSessionProofs` | the proofs about it |
| `DeckContent` | what a build makes of a deck: ids, levels, order, the catalogue; pure operators |
| `StudyPlan` | which card is offered, for three item types, any settings, decks and rows; extends `DeckContent` |
| `StudyDay` | study days and the dates of the dashboard across a change of the clocks; pure operators, and the clock of `ReviewSession`, which it extends |
| `StudyDayProofs` | the proofs about it, and about the daily limit |
| `StudyPlanProofs` | the proofs about it, about the content it is given and about `AnswerChoices` |
| `AnswerChoices` | accepted answers, answer modes, multiple choices; pure operators on the content and settings of `StudyPlan`, which it extends |
| `AuthSessions` | tokens, logout, the authentication window, the registry of streams, restart |
| `AuthSessionsProofs` | the proofs about it |
| `LoginThrottle` | the throttle and the login handlers |
| `LoginThrottleProofs` | the proofs about it |
| `BuildTasks` | the manager, the runner coroutine, the worker thread, the loop's callbacks, shutdown, crash, restart |
| `TaskStream` | composes `BuildTasks` with the `/ws/tasks` streams: each step of the manager delivers what it publishes |
| `BuildView` | composes `TaskStream` with the cached status of a browser: messages, polls, refetches, the response to a start |
| `BuildProofs` | the proofs about `BuildTasks`, `TaskStream` and `BuildView` |
| `ClientSession` | tabs that share a login: refreshes, epochs, restore, logout, storage events |
| `ClientSessionProofs` | the proofs about it |
| `Instances` | processes of several releases on one data folder: the instance lock, migrations after a backup, the sweep of temp files, shutdown, kills |
| `InstancesProofs` | the proofs about it |
| `MC*` | instances for TLC |

### ReviewSession

`cards[k]` is the `card_state` row (`NoRow` when there is none) and `log[k]` the
`review_log` rows of card `k`. `next[c]` is the `GET` handler of page `c`, with
actions `NextStart`, `ReadStates`, `ReadIntroduced`, `Serve` at its awaits.
`answer[r]` is a `POST` handler: `Submit`, `LoadItem`, `ReadCard`, `Record` (or
`RecordFails`), `Recount`. `page[c]` is what `ReviewPage.tsx` shows: a card, an
answer being saved, a failure with "Try again", saved, or stale. `Reload`,
`LoseConnection`, `Crash` and `DropItem` (a rebuild removes an item) are the
environment. The optimistic check of `record_review` is `Unchanged`; a mutant of
each of its two halves is caught.

Left open: which due card comes first (kana are shuffled), the interval FSRS
chooses (any of `Intervals`), and when a step of learning ends.

Assumed: the clock is monotonic and at least one tick passes between a request's
reading the clock and the end of its transaction (microseconds in the code). With
equal timestamps `last_review` no longer identifies a review; that hazard is
listed in `PROJECT.json` and not covered. A dropped item does not come back.

### DeckContent, StudyPlan

A deck is a sequence of notes, text a sequence of code points. `Build` gives the
rows of the three tables of `content.db` in study order: `ImportVocab` numbers
homographs in deck order, `DeriveKanjiLevels` gives a kanji the easiest level of
a word that uses it, `BuildKanji` appends the graded kanji of the dictionary that
have no level, `AllKana` doubles the table in katakana. `Catalog` is what lessons
are chosen from, each with the position of its row. `Decks` are decks that an
import accepts, and the table of kana has each hiragana once; an import that fails
leaves the content as it was.

The lessons of a type (`StudyCards`) are a set, each with its place in the study
order (the rank of its level, the position of its item, the number of its
direction): the code sorts and filters a list, and `Take` keeps the lessons with
fewer before them than the limit has left. In `StudyPlan` a request is one step (`ReviewSession` has the steps within it):
`Answer` answers any card that `GET /reviews/next` may offer, with a good grade
or not. `Offer` is `DueOffer` when a due row among the first `Scan` has an item,
and otherwise `NewOffer`, the new card of the type that has the larger share of
its limit left. `SaveSettings` is `PUT /settings`, `ForeignDocument` a document
left by another version, which is ignored when it is read; `Rebuild` replaces
the content, and rows whose item is gone become orphans. A shuffle of kana is a
choice of any of them; shares are compared as percentages of integers, where the
code divides floats. `Eligible` says which cards the settings let in without an
order or a queue, by the numbers the dashboard shows, and is what `Offer` is
compared with.

A limit of zero means unlimited, and an unlimited type always counts as
untouched: while it has new cards, it goes before a limited type that was drawn
from that day. `EveryLessonComes` therefore assumes a learner who
gets to the end of the day's cards again and again.

### StudyDay

`ReviewSession` takes a study day to be an interval of its clock; this module says
what a tick is in hours (`HoursOf`) and that study days are such intervals.
Instants are whole hours. `Instant` and `Fold` are what the standard library
does with a wall time that occurs twice or not at all. One case is excluded from
the dates counting up by one (`StartIsSkippedToMidnight`): with rollover 23 in a
zone whose clocks skip from 23:00 to midnight (America/Nuuk, 30 March 2024), the
study day starts at 0:00 of the next date and is named after it. The window
itself is right then, too.

### AnswerChoices

`Distractors` goes through the pool in bands: the item's own level, then the
active levels, then the rest, each in any order (the shuffle). An option is left
out when its preferred answer equals the right one or one that is already there.
Only preferred answers are compared: an option may be an answer that typed mode
would accept (a reading that two kanji share), though `CHANGELOG.md:138` speaks
of wrong options. `MoreNotes` and `MoreKana` are more rows to choose from, whose
cards `StudyPlan` does not follow.

### AuthSessions

A session's tokens are known by the time of its newest pair: an older pair is
accepted only when the newest is. `stored` is the table and `revoked` the memory;
a logout goes through `LogoutStart`, `LogoutWrite` (or `LogoutFails`),
`LogoutRemember` (which also lists the sockets: no await between), `LogoutClose`
for each, `LogoutDone`. A socket connects through the gate, authenticates or is
turned away, streams, ends. `Restart` is `load()`. `ended` is a history variable:
when the logout began that stored the last revocation of the session, together
with those that had stored theirs and were still to remember it. It is set by the
write that commits, so that a crash before the revocation is remembered counts too.

### LoginThrottle

`failures[c]` is the deque of client `c`. An attempt is counted before its
password is checked (`Attempt`), and `Right` or `Wrong` is the end of the check.
`admitted` is a history variable: the attempts let through since the last
success. Pruning drops lapsed entries only when more than `PruneThreshold`
clients are tracked (1024 in the code, 0 in the run, so that it happens).

### BuildTasks

Builds are numbered in the order they start. `runner[t]` is the coroutine
`_run`, `thread[t]` the worker thread, `future[t]` what the first awaits of the
second, and `ready` the event loop's FIFO of `call_soon_threadsafe` callbacks,
where progress and the end of the thread queue up. `content` is the build
`content.db` was written by, `repo` the one `ctx.content_repo` was opened on.
`Shutdown` is the beginning of `aclose`, `CancelAll` the loop's cancellation of
what is left (after the 30 seconds, or earlier), after which the thread still
runs and its callbacks still arrive; `Exit` waits for it. `Crash` may come at
any point. A build that starts is cancelled before its first step only then, and
keeps the slot of a process that is ending.

### TaskStream

Every step of `BuildTasks` that publishes an event appends it to the bounded
queue of each subscriber, dropping the oldest of a full one. A stream takes its
snapshot when it subscribes and sends it later. `told` is what its client knows
by then.

### BuildView

`browser[s]` is the cached status (`shown`), the query's fetch (`get`, with its
`answer` on the way) and the response to a start on the way (`start`). A message
is folded in the step that sends it: the delay is in the server's queue.
`ServerAnswers` reads the status and `AnswerArrives` stores it later; `Posts` is
a start by this browser. While the stream is not live and a build is shown as
running, `Poll` asks every two seconds. An invalidation drops the fetch under
way and starts another, or joins it when the cache was never filled
(`Refetch`: TanStack Query). Left out: the backoff between connections (a
connection may come at any time or never), a page that leaves the build panel,
what else is refetched at the end of a build. Requests fail only when the server
is gone. `ShownEndIsReal` says that an end that is shown is how that build ended,
whichever of the messages, answers and responses came last; the server forgets its
builds when it stops, and nothing is said of those.

`ShowsTheEnd` ends when the server stops. A server that restarts has no build to
send a snapshot of (`ws.py:121`), although `applyMessage.ts:16` says that it sends
the last build after every reconnect: a browser that reconnects before it polls
keeps showing a build that ended with the old server. It is also about builds that
run while they are shown: a first `GET`, or the response to a start, that was
answered before the end and arrives after it leaves "running" on a browser whose
stream is live.

### ClientSession

A token is the number of its session. `storage` is the shared refresh token,
`tab[t]` a page: its status, its access token, the refreshes on their way, an
API call, and storage events that have not reached it. A refresh is `current`
while its tab's epoch has not moved on; a stale one matters only while
`restore()` waits for it. `Forget` is `session.clear()` with the status that
follows. The server's side is what sessions it accepts: `Lapse` and
`RevokeArrives` end one at any time. Left out: blocked storage, a request that
is sent twice by the browser, a page that is loaded again while a storage event
is on its way to it (it would miss the event, `Load`).

`session.ts:19` says that a slow refresh can never bring back a session the user
has left, or end the one they logged in to afterwards. The first part is
`LoggedOutEverywhere`, once every tab was told. The second holds within a tab and
an epoch only: a login does not start an epoch, so a 401 that a restore still
waits for ends a login made meanwhile, and a storage event that arrives late
removes the token a newer login has stored. (`AuthProvider.tsx:90` says that
other tabs only clear their own state; `session.clear()` removes the shared token
as well, and `LoggedOutEverywhere` needs that.)

### Instances

`pc[p]` is where process `p` is: `inspect`, `backup`, `upgrade`, `sweep` and
`open` are the steps of `build_services`, `serve` is the running server,
`closing`, `release` and `leaving` the steps of `aclose` (`leaving`: the lock is
given up, but the process lives on while its build thread does). `lock` is the
holder of `.bunsho.instance.lock`, which the system frees when a process is killed.
`db` is `progress.db`: its tables, the revision it names, and how many reviews it
holds. SQLite statements that change the schema are not part of a transaction, so
`CreateTable` and `RecordRevision` are separate steps and a `Kill` or a
`StartupFails` may come between them. `backups` is the folder of that name,
`temps` the temp files next to `content.db`, `thread[p]` the build thread.
`spoiled` is a history variable: the reviews in `progress.db` when it was last
left between two revisions.

`Images` are releases: one that knows fewer revisions stands for an older
release. The migration's own file lock is always free, because only the holder of
the instance lock migrates. Left out: indexes and the `alembic_version` table
itself, a backup that is cut off while it is written, dry runs of the migration
command.

## Runs

| Run | Instance and bounds | Shows |
|---|---|---|
| `review_one_card` | 1 card, 2 pages, 2 handlers, clock to 3, 2 ticks a day | types; rows sum up logs; each review follows the one before; "saved" and 409 are true; `ReviewLedger` is implemented |
| `review_limit` | 2 cards, 2 pages, 2 handlers, limit 1, clock to 4, days of 2 ticks, clocks changed at each hour of a day, each rollover hour | the daily limit, when no fetch starts on one day and first reads on the next; study days follow one another |
| `review_rollover` | the same, without that condition | violation: one card too many (finding) |
| `auth_sessions` | 1 session, 2 logouts, 2 sockets, gate of 1, lifetimes 1 and 2, clock to 4, fair | ended sessions stay ended, a crash after the commit included; no stream slips in; registry and gate exact; streams of an ended session end |
| `auth_refresh_race` | 1 session, 1 logout | violation: a pair outlives the revocation (finding) |
| `login_throttle` | 2 clients, 3 handlers, 2 failures in 2 ticks, clock to 5 | the limit, for its own attempts only, and a table that forgets |
| `task_stream` | 2 builds, history of 1, 1 stream, queue of 2, fair | one writer; true, final statuses; the slot comes back; the client has the truth in the end, never goes backwards, is told the end |
| `build_view` | 2 builds, dry runs only (a dry run ends well or badly like another), 1 browser, queue of 1, fair | a browser that shows a running build comes to show its end; an end that is shown is how that build ended |
| `client_session` | 2 tabs, 2 sessions, 2 reloads, 1 failed request | a session that was left comes back in no tab |
| `study_plan` | 1 kana in two scripts, 3 decks of 1 to 3 notes, 4 settings documents (1 invalid), 2 due rows scanned, 3 disturbances; for choices 2 words and 2 kana more; fair | what is offered is right and nothing is left behind; ids are kept; counts follow; every lesson comes; choices are fair |
| `instances` | 2 processes, releases 1 and 2, 2 reviews, 2 builds | a server has its whole schema; a half-upgraded file has a whole backup; builds meet only when one was abandoned |
| `instances_overlap` | the same | violation: a sweep takes the file of a live build (finding) |

Why the bounds are enough: a lost review, a double count and a stale schedule take
two handlers of one card; the limit takes two cards and a change of day;
overlapping logouts, the earlier of which is stored last, take two; the gate with one slot and two sockets is full and
empty; a throttle that lets one attempt too many through takes three handlers for
a limit of two; a build that meets the remains of an earlier one takes two, and
trims a history of one; a queue of two overflows in a build of four stages; a
sweep that takes a live file takes two processes, and a backup that is overwritten
by a worse one takes two attempts at an upgrade. A logout that misses a tab takes
two tabs, and a refresh that is answered after both a logout and another login
takes two sessions. In `build_view` a newer build takes the place of one that is shown,
and a queue of one drops its events; the builds are dry runs, which a browser
cannot tell from others, because two with all their stages are beyond five
minutes with fairness. The decks have two
homographs, a kanji in words of two levels, one without a level and one that a
rebuild removes, so that orphans can fill a scan of two and rows can be learned
for items that are gone; the documents have each policy, a gate, a type that is
off, a limit of zero, and a gate that would never open. Sessions are alone in
`auth_sessions`; that they do not disturb one another is part of the theorems,
which hold for any number. `Droppable`, `Intervals`, `MaxClock`, `MaxBuilds`,
`MaxLogins`, `MaxLoads`, `MaxFailures`, `Studied` and `MaxDisturbances` are bounds
and are named so where they are declared.

Every property has a mutant in its module (definitions named
`Original_Mutation`, with a comment), a plausible slip in the mapped code that
makes it fail.

## Fairness

The event loop runs every callback and every handler that can go on (weak fairness
of handler steps), a build thread comes to its end (a finite deck, a bounded
number of retries of `os.replace`), and a shutdown goes on. Nothing obliges a
client to send, a learner to answer, or an operator to start or stop anything.
`ToldOfTheEnd` also assumes that the client takes what it is sent; a stalled one
only fills its own queue. `ShowsTheEnd` assumes that a browser's timer fires and a
server that is up answers, and not that anyone reconnects. In `StudyPlan` days end
and scheduled cards come due; that the learner works through them is the premise
of `EveryLessonComes`, and `Answer` is not fair.

## Proofs

Every theorem holds for all values of the constants that satisfy the module's
named assumptions: any number of cards, pages, handlers, sessions, sockets,
builds, streams, tabs and processes, any limits and sizes, and any value of the
bounds. The assumptions say what the code takes for granted (positions differ,
limits are naturals, placeholders are not real keys) and, where a proof counts,
that a set is finite.

### Reviewing

`ReviewSessionProofs` (assumes `ReviewAssumption`): `TypeCorrect`,
`RowsSummariseLogs`, `NoLostReview`, `SavedIsTrue`, `StaleIsTrue` and
`LedgerImplemented`, the refinement of `ReviewLedger`.

None of these properties is inductive by itself. What holds them together is the
conditional update. The inductive invariant says that `card_state` is the sum of
`review_log` with strictly increasing times (so a `last_review` names one
review), that a handler past `ReadCard` holds a state its card *had* when its
`last_review` was the expected one, and that a page or handler whose expected
time is no longer the row's has a log entry that follows it. Then `Record` either
finds the row as it was read, and appends a review that follows the last one, or
finds it changed, and the 409 is true. Each action is one step of the
preservation proof.

### The study day and its limit

`StudyDayProofs` (also assumes `FiniteAssumption`, that there are finitely many
cards, and `ZonesAssumption`): `LimitHolds` and `DaysFollowEachOther`.

`LimitHolds` is `DailyLimit` under `SameDaySpec` (see the first finding). The
difficulty is that a plan is made of two reads, stays on a page for days, and
competes with the plans of other pages. The invariant `LimitInv` is about a card's
*place*: card `k` fits on a day when the open cards before it, together with those
the day has introduced, are fewer than the limit. A card that is offered fits on
its day **and on every later day** (`OffersFit`, `PagesFit`), because a later day
starts from nothing, and introducing a card before it moves that card from one set
to the other, so that the sum stays. Introducing a card *after* it could add to
the sum; but that card had a place too, and everything before it is counted there,
`k` included (`SkippedFit`: a day that introduced a later card had room for each
open one before it). An answer that is being saved keeps the place on the day of
its own time (`AnswersFit`). A fetch whose first read falls on the day it began
knows no card of a later day (`ReadsOfTheDay`); this is the only place where
`SameDaySpec` is used, and the part that fails without it.

`DaysFollowEachOther` is `DaysFollow` for every zone, rollover and number of days
that is shown. From one instant to the next the wall time repeats an hour at most
and never goes back, so the number of rollovers it has passed counts the days, and
the window of each starts where the one before it ends. Assumed: clocks change
once and by at most an hour, and instants are whole hours, so a day has 23, 24 or
25 of them.

### Login

`AuthSessionsProofs` (assumes `AuthAssumption`): `TypeCorrect`, `LogoutIsFinal`,
`StreamsAreListed`, `RegistryExact` and `GateIsExact`.

The argument for `LogoutIsFinal`: what has to survive is that a revocation lasts
a whole refresh lifetime from the beginning of one of the logouts it is counted
for (`Covers`), in the table and, unless a logout is about to remember another, in
memory (`EndedCovers`). A prune removes only what has lapsed. A logout that writes
later starts the count anew, with itself in it. One that *remembers* later
overwrites the memory by a revocation counted from its own beginning, and that is
enough only if it is one of those that are counted: that is what `Counted` says of
every logout that is about to remember. A restart replaces the memory by the
pruned table, and the table covers a logout of its own. `StreamsAreListed` rests on
`RegistryIsExact`, because a logout lists what the registry holds at the moment
it remembers the revocation.

`LoginThrottleProofs` (assumes `ThrottleAssumption`): `TypeCorrect`,
`WindowHolds`, `RefusalIsEarned` and `TableForgetsThePast`. The invariant relates
the deque to the history of attempts that were let through: it is what is left of
them after some that had lapsed were dropped from the front (`LeftOf`). When an
attempt is let through, fewer than the limit are left within the window; since
the times are in order, that bounds every window that ends now. When one is
refused, the entries that refuse it are attempts of the same client. That a prune
leaves only recent entries also needs the table to be finite (`FewTracked`).

`ClientSessionProofs` (assumes `ClientAssumption`): `TypeCorrect` and
`LogoutIsComplete`. Two facts are needed beyond the types: once the shared token
is gone, a tab that still has something of the session was sent a storage event
(`ToldOrEmpty`); and when no such event is on its way, nothing anywhere belongs
to a session that was left, refreshes that can still take effect included
(`NothingLeft`). A refresh that is answered after the epoch moved on is not
`current` and stores nothing, which is what makes the second inductive.

### Builds

`BuildProofs` (assumes `BuildAssumption` and, for the streams,
`StreamAssumption`). Of the manager: `OneWriterAtATime`, `StatusTellsTheTruth` and
`EndIsFinal`. A thread that runs belongs to the last
build, which either has the slot and is waited for, or was failed by the loop's
cancellation on the way down (`SlotIsTaken`, `ThreadShape`); so nothing can start
next to it. Progress and the end of a thread queue up in one FIFO, and whatever
that queue or a future holds agrees with what the thread did
(`OutcomeIsReal`): this carries the truth of a status from the thread to the task.
`Remembered` and `HasNewest` say that trimming the history keeps the newest.

`StreamsImplementManager` shows, step by step, that every
step of `TaskStream` is one of `BuildTasks` or leaves it alone. The theorems about
the manager therefore hold next to any number of streams (`StreamsOneWriter`,
`StreamsStatusIsTrue`, `StreamsEndIsFinal`). Its own are `StreamTypeCorrect`,
`LastWordTrue` and `ToldInOrder`. The invariant says that what a client was told,
its snapshot, each queued event and the status follow one another in this
order, and that the last of them is the status. Dropping the oldest event of a
full queue keeps an order, and never touches the last. The argument for a step of
the manager needs that the status itself only moves on, which is the invariant
of `BuildTasks`.

`ViewsImplementStreams` does the same one level up: what browsers ask for and show
is nothing to the server. `EndsShownAreReal` is `ShownEndIsReal` for any number of
builds, browsers and events. A view is `Real` when it is not of an end, or of the
end its build had as far as the server remembers; a build that ended, or that is
forgotten, stays so (`EndsStay`), hence a view that is real stays real however long
it is on its way. Then it is enough that each step puts real views in the place of
real ones: a published event is of the status as it moves, a snapshot and an answer
are the status, and an event that updates the view shown (`ToldIsReal`) is of the
same build.

### Instances

`InstancesProofs` (assumes `InstanceAssumption`): `OneHolder`, `TypeCorrect`,
`ServedCompletely`, `HalfUpgradeCanBeUndone` and `BuildsMeetOnlyAbandoned`. The
lock is held by exactly the process between taking it and giving it up
(`LockIsExact`), so a schema is changed by one process. A file between two
revisions has the first tables of the next (`SchemaShape`), a process that
created one of them has seen a whole schema before, whose backup it wrote
(`MigrationShape`), and no review comes in while nobody serves. A thread may miss
its temp file only if its process gave up waiting (`TempShape`). `TypeOK` is proved and
no run repeats it. The revisions
are the two of this repository.

### The study plan and its content

`StudyPlanProofs` (assumes `DictionaryAssumption`, `DecksAssumption`,
`KanaAssumption`, `PlanAssumption` and `ChoicesAssumption`): `TypeCorrect`,
`NothingLeft`, `OfferRight`, `CountsFollowAnswers`, `NotesKept` and `ChoicesFair`,
which are `TypeOK`, `NothingLeftBehind`, `OfferIsRight`, `CountsFollow`,
`CardsKeepTheirNote` and `ChoicesAreFair` for any decks, dictionary, settings
documents and bounds.

The rows come first. `RanksAreCounted` is about any finite set in a strict order:
the numbers of members below each member are 0, 1, 2 and so on, once each. So a set
that is sorted by its keys is a sequence with every member in one place
(`KanjiOrder`), and the first `n` of a set are as many as there are, up to `n`.
With it, `ContentRows` shows that a build numbers its rows 1 to n and gives each an
id of its own: homographs by their count, hiragana and katakana because no
hiragana becomes another's katakana, kanji by their character. From there a lesson
is found by its card (`LessonFacts`), and its place orders it strictly among its
type's (`PlacesOrder`).

`TypeOK` is inductive by itself, and says of the queue of due cards what the rest
needs: each is there once and has a row. `NothingLeft` and `OfferRight` then hold in
each state. `Eligible` is the same as having a lesson that the policy, the gate and
the switch let in and a limit that is not used up (`EligibleIs`, `NewKeysAre`): the
shares the plan computes from lessons are those the dashboard computes from rows
(`GateIsShown`, `MasteryIsShown`). A type with new cards has a first one, and one of
the types wins, because having more left is transitive and ties are broken
(`WinnerExists`). An offer of a new card means that none of the rows that are
scanned has an item, and the first lesson in the study order has the easiest level.

`CountsFollowAnswers` rests on `SamePlan`: a step that changes no settings, no
content and no card in Review leaves every level as open as it was, so the
candidates lose exactly the card that was introduced; the limit's rest falls by
as many, which is why what `Take` keeps loses no other. `NotesKept` is about
prefixes: the number of a homograph looks only at the notes before it.

For `ChoicesFair` the wrong options are a recursive function on the entries of the
pool. `StepByStep` shows from the function's definition that it has the value each
step computes, by the least number for which it would not; the same argument gives
each invariant of the loop: options differ, are wrong ones, and are as many as there
are or as are wanted (`TakenKeeps`, `Choosing`). A shuffled band has every entry of
the band, so the options come from all lessons of the type, the item's own level
first.

### Only model-checked

Everything under fairness, because liveness is out of the prover's reach:
`StreamsEnd`, `SlotComesBack`, `ToldOfTheEnd`, `ShowsTheEnd`, `EveryLessonComes`.
That `ViewFairness` implies the fairness of the streams is about `ENABLED` and is
not proved either. Every other property of the passing runs is a theorem.

## Findings

`review_rollover`: a fetch takes the time once and reads the introduced cards and
the count of *that* time's study day afterwards. If the day rolls over in between
and another page introduces the new day's card, the plan knows that card and
counts the old day, so it offers one more; the learner answers it on the new day.
`DailyLimit` holds under `SameDaySpec`, which excludes exactly this.

`auth_refresh_race`: `AuthService.revoke` promises that any token of the session,
a newer refresh token of another tab included, expires within the lifetime of the
revocation. The lifetime counts from the start of the logout, and the session
counts as revoked only once the write is done: a refresh in between gets a pair
that expires later. The pair is refused while the revocation lasts.
`EndedStaysEnded` shows what is left of the promise: the session stays logged out
for a refresh lifetime, and a token issued by when the logout began stays refused
for good, also when the process dies between the commit and the memory.
Two logouts of one session that overlap leave less. The row is overwritten
unconditionally (`revoked_session_store.py:62`), and so is the memory: if the
logout that began first is stored, or remembered, last, the revocation ends a
lifetime after *its* beginning, and a pair refreshed between the two beginnings,
which the second logout was to end, is accepted again for the difference. The
runs reach this. So the property says that the revocation counts from one of the
overlapping logouts, and no more; said of each of them it is violated.

`instances_overlap`: `remove_stale_temp_files` (`content_repository.py:46`) asks
that no build runs when it is called, and `instance_lock.py:17` that the lock is
"held for the process lifetime", so that no sweep deletes the in-flight build file
of another instance. `aclose` waits at most 30 seconds
for the build (`services.py:74`) and then gives up the lock while the thread goes
on, so the next process can start and sweep its temp file. `OnlyAbandonedBuildsMeet`
shows that this is the only way. (The repository's `README.md:324` says that two
instances on one volume both start; its line 137 and the code say the second does
not.)

## Not modelled

Configuration (read once, before anything runs), the HTTP surface (headers, error
bodies, static files, health: a response to a request, without state), the
settings form and the rest of the user interface (layout, one form over one
resource), the parsing of deck files, HTML and ruby text, the normalisation of
typed answers in the browser. Of `content_access.py`, the check of the schema
version once per repository object: its race with a build only means that the new
object is checked by the next request. Left out of the modelled parts is what
each section above names.

## Plan

1. Done: reviewing, the study plan, content, study days, choices, login sessions,
   throttle, build tasks, their streams and the browser's view of them, the
   browser's session, instances; the proofs of all their safety properties.
2. Left: the settings form, whose dirty state is a small module of pure operators,
   and the forecast and retention rates of the dashboard.
