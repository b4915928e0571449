--------------------------- MODULE ReviewSession ---------------------------
(***************************************************************************)
(* Reviewing: the handlers of GET /reviews/next and POST /reviews/answer   *)
(* (orchestration/review_session.py) over the card_state and review_log    *)
(* tables (db/progress_repository.py), and the study pages that call them  *)
(* (features/review/ReviewPage.tsx).  The server is one asyncio loop: a    *)
(* handler runs without interruption between two awaits, and any other     *)
(* handler may run at an await.  Each action is one such stretch; what a   *)
(* handler has read and will use after an await is kept in its record.     *)
(*                                                                         *)
(* One item type is modelled, with the limit of its new cards per day; the *)
(* share-based choice between types is a pure function of such plans.      *)
(***************************************************************************)
EXTENDS Naturals, Sequences, FiniteSets

CONSTANTS
    Keys,         \* the cards of the type
    Position,     \* the place of each card in the order the new-card policy offers them
    Clients,      \* open study pages: tabs and devices of the one learner
    Requests,     \* POST /reviews/answer handlers that can run at once
    Grades,       \* the grades a learner gives
    Droppable,    \* bound: the cards a rebuild may take the item of away
    Intervals,    \* how long after a review the scheduler makes a card due
    Limit,        \* new cards per study day, 0 = unlimited
    DayLength,    \* ticks of the clock in a study day
    MaxClock,     \* bound: the clock stops here
    NoKey, NoRequest

Never == 0
States == {"New", "Learning", "Review", "Relearning"}

ASSUME FiniteAssumption == IsFiniteSet(Keys)

ASSUME ReviewAssumption ==
    /\ Position \in [Keys -> Nat]
    /\ \A j, k \in Keys : Position[j] = Position[k] => j = k
    /\ "Again" \in Grades /\ Grades \subseteq {"Again", "Hard", "Good", "Easy"}
    /\ Limit \in Nat /\ DayLength \in Nat \ {0} /\ MaxClock \in Nat \ {0}
    /\ Intervals \subseteq Nat \ {0}
    /\ NoKey \notin Keys
    /\ NoRequest \notin Requests

VARIABLES
    clock,        \* the server's clock
    content,      \* the cards whose item is in content.db
    cards,        \* the card_state row of each card
    log,          \* the review_log rows of each card, by id
    page,         \* what each study page shows
    next,         \* the GET /reviews/next handler of each page
    answer        \* the POST /reviews/answer handlers

vars == <<clock, content, cards, log, page, next, answer>>
data == <<cards, log>>

-----------------------------------------------------------------------------
(* A card without a row is the row of a card that was never reviewed. *)
NoRow == [state |-> "New", last |-> Never, due |-> Never, reps |-> 0, lapses |-> 0]

(* What the properties tell apart of a row of each table.  A log entry's   *)
(* "prev" is the time its elapsed_days count from; "after" is history, the *)
(* state the review left in card_state.                                    *)
Row == [state : States, last : Nat, due : Nat, reps : Nat, lapses : Nat]
Entry == [prev : Nat, at : Nat, before : States, after : States, grade : Grades]

Page == [ui : {"blank", "shown", "saving", "failed", "saved", "stale"},
         key : Keys \cup {NoKey}, expected : Nat, grade : Grades,
         request : Requests \cup {NoRequest}]
NextHandler == [pc : {"idle", "states", "introduced", "serve"},
                moment : Nat, known : SUBSET Keys, offer : SUBSET Keys]
AnswerHandler == [pc : {"idle", "load", "read", "write", "counts"},
                  key : Keys \cup {NoKey}, expected : Nat, grade : Grades, moment : Nat,
                  before : States, after : States, due : Nat]

(* The FSRS library.  Only "Again" on a Review card is a lapse; the steps *)
(* within Learning and Relearning are not told apart, so "Hard" and "Good" *)
(* may or may not end them, and "Easy" always does.                        *)
Steps(state) == IF state \in {"Review", "Relearning"} THEN "Relearning" ELSE "Learning"

After(state, grade) ==
    CASE grade = "Again" -> {Steps(state)}
      [] grade = "Easy" \/ state = "Review" -> {"Review"}
      [] OTHER -> {Steps(state), "Review"}

IdlePage == [ui |-> "blank", key |-> NoKey, expected |-> Never, grade |-> "Again",
             request |-> NoRequest]
IdleNext == [pc |-> "idle", moment |-> Never, known |-> {}, offer |-> {}]
IdleAnswer == [pc |-> "idle", key |-> NoKey, expected |-> Never, grade |-> "Again",
               moment |-> Never, before |-> "New", after |-> "New", due |-> Never]

Day(t) == t \div DayLength

(* The review_log rows with state_before NEW in a study day. *)
IntroducedOn(day) ==
    {k \in Keys : \E i \in 1 .. Len(log[k]) :
         log[k][i].before = "New" /\ Day(log[k][i].at) = day}

(* Mutant: counts the first reviews of FSRS, which has no "new" state. *)
Introduced_Learning(day) ==
    Cardinality({k \in Keys : \E i \in 1 .. Len(log[k]) :
        log[k][i].before = "Learning" /\ Day(log[k][i].at) = day})

Introduced(day) == Cardinality(IntroducedOn(day))

(* The cards a plan may introduce: the first unseen ones of the policy's   *)
(* order, as many as the day's allowance has left.                         *)
Selected(known, introduced) ==
    LET unseen == content \ known
        Earlier(k) == {j \in unseen : Position[j] < Position[k]}
    IN  {k \in unseen : Limit = 0 \/ introduced + Cardinality(Earlier(k)) < Limit}

Due(now) == {k \in Keys : cards[k] # NoRow /\ cards[k].due <= now}

-----------------------------------------------------------------------------
Init ==
    /\ clock = 1
    /\ content = Keys
    /\ cards = [k \in Keys |-> NoRow]
    /\ log = [k \in Keys |-> << >>]
    /\ page = [c \in Clients |-> IdlePage]
    /\ next = [c \in Clients |-> IdleNext]
    /\ answer = [r \in Requests |-> IdleAnswer]

(* Time passes.  The clock is taken to be monotonic. *)
Tick ==
    /\ clock < MaxClock
    /\ clock' = clock + 1
    /\ UNCHANGED <<content, data, page, next, answer>>

(* A rebuild replaces content.db by one without the item of card k.  An    *)
(* item that has gone does not come back.                                  *)
DropItem(k) ==
    /\ k \in content
    /\ content' = content \ {k}
    /\ UNCHANGED <<clock, data, page, next, answer>>

-----------------------------------------------------------------------------
(* GET /reviews/next *)

NextStart(c) ==
    /\ page[c].ui \in {"blank", "saved", "stale"} /\ next[c].pc = "idle"
    /\ next' = [next EXCEPT ![c] = [IdleNext EXCEPT !.pc = "states", !.moment = clock]]
    /\ page' = [page EXCEPT ![c] = IdlePage]
    /\ UNCHANGED <<clock, content, data, answer>>

(* _plan reads the introduced cards, then how many were introduced today: *)
(* a review in between makes it offer fewer cards, never more.             *)
ReadStates(c) ==
    /\ next[c].pc = "states"
    /\ next' = [next EXCEPT ![c] = [@ EXCEPT !.pc = "introduced",
           !.known = {k \in Keys : cards[k] # NoRow}]]
    /\ UNCHANGED <<clock, content, data, page, answer>>

ReadIntroduced(c) ==
    /\ next[c].pc = "introduced"
    /\ next' = [next EXCEPT ![c] = [@ EXCEPT !.pc = "serve", !.known = {},
           !.offer = Selected(next[c].known, Introduced(Day(next[c].moment)))]]
    /\ UNCHANGED <<clock, content, data, page, answer>>

Show(c, k, expected) ==
    page' = [page EXCEPT ![c] = [IdlePage EXCEPT !.ui = "shown", !.key = k, !.expected = expected]]

(* A due card whose item exists comes first (which one is left open: kana *)
(* are shuffled), then one of the new cards, whose item may have gone.     *)
Serve(c) ==
    LET due == Due(next[c].moment) \cap content
        new == next[c].offer
    IN  /\ next[c].pc = "serve"
        /\ next' = [next EXCEPT ![c] = IdleNext]
        /\ \/ \E k \in due : Show(c, k, cards[k].last)
           \/ due = {} /\ \E k \in new \cap content : Show(c, k, Never)
           \/ due = {} /\ (new = {} \/ ~(new \subseteq content)) /\ UNCHANGED page
        /\ UNCHANGED <<clock, content, data, answer>>

(* The fetch fails on its way, or the learner reloads the page. *)
Reload(c) ==
    /\ page' = [page EXCEPT ![c] = IdlePage]
    /\ next' = [next EXCEPT ![c] = IdleNext]
    /\ UNCHANGED <<clock, content, data, answer>>

-----------------------------------------------------------------------------
(* POST /reviews/answer *)

(* The learner grades the card on screen, or sends again (the same grade or *)
(* another) after a failure that does not say whether the review counted.   *)
Submit(c, r, g) ==
    /\ page[c].ui \in {"shown", "failed"}
    /\ answer[r].pc = "idle"
    /\ clock < MaxClock
    /\ answer' = [answer EXCEPT ![r] = [IdleAnswer EXCEPT
           !.pc = "load", !.key = page[c].key, !.expected = page[c].expected,
           !.grade = g, !.moment = clock]]
    /\ page' = [page EXCEPT ![c] = [@ EXCEPT !.ui = "saving", !.grade = g, !.request = r]]
    /\ UNCHANGED <<clock, content, data, next>>

(* The handler of request r ends, and the page that still waits for it, if *)
(* any, hears how: after "saved" (200) and "stale" (409) it loads the next *)
(* card, after "failed" (the rest) it offers to send again.                *)
Reply(r, outcome) ==
    /\ answer' = [answer EXCEPT ![r] = IdleAnswer]
    /\ page' = [c \in Clients |->
           IF page[c].request = r
           THEN [page[c] EXCEPT !.ui = outcome, !.request = NoRequest] ELSE page[c]]

LoadItem(r) ==
    /\ answer[r].pc = "load"
    /\ \/ /\ answer[r].key \notin content
          /\ Reply(r, "failed")
       \/ /\ answer[r].key \in content
          /\ answer' = [answer EXCEPT ![r] = [@ EXCEPT !.pc = "read"]]
          /\ UNCHANGED page
    /\ UNCHANGED <<clock, content, data, next>>

(* Mutant: the initial schedule of a new card claims a review now. *)
Before_Stamped(k, moment) ==
    IF cards[k] = NoRow THEN [NoRow EXCEPT !.last = moment] ELSE cards[k]

(* The stored schedule the answer is based on. *)
Before(k, moment) == cards[k]

ReadCard(r) ==
    LET a == answer[r]
        before == Before(a.key, a.moment)
    IN  /\ a.pc = "read"
        /\ \/ before.last # a.expected /\ Reply(r, "stale")
           \/ /\ before.last = a.expected
              /\ \E s \in After(before.state, a.grade), d \in Intervals :
                    answer' = [answer EXCEPT ![r] = [a EXCEPT !.pc = "write",
                        !.before = before.state, !.after = s, !.due = a.moment + d]]
              /\ UNCHANGED page
        /\ UNCHANGED <<clock, content, data, next>>

(* Mutant: the update matches the card alone. *)
Unchanged_KeyOnly(a) ==
    IF a.before = "New" THEN cards[a.key] = NoRow ELSE cards[a.key] # NoRow

(* Mutant: the first review is an upsert. *)
Unchanged_Upsert(a) ==
    a.before = "New" \/ (cards[a.key] # NoRow /\ cards[a.key].last = a.expected)

(* record_review's condition: the row it inserts must not exist, the row it *)
(* updates must still have the last_review it was read with.                *)
Unchanged(a) ==
    IF a.before = "New" THEN cards[a.key] = NoRow
    ELSE cards[a.key] # NoRow /\ cards[a.key].last = a.expected

(* Mutant: every "Again" counts as a lapse. *)
Lapsed_AnyAgain(a) == a.grade = "Again"

Lapsed(a) == a.grade = "Again" /\ a.before = "Review"

Reviewed(a) ==
    [state |-> a.after, last |-> a.moment, due |-> a.due,
     reps |-> cards[a.key].reps + 1,
     lapses |-> cards[a.key].lapses + (IF Lapsed(a) THEN 1 ELSE 0)]

(* Mutant: the grade and the state it led to are swapped. *)
LogEntry_Swapped(a) ==
    [prev |-> a.expected, at |-> a.moment, before |-> a.before, after |-> a.grade,
     grade |-> a.after]

LogEntry(a) ==
    [prev |-> a.expected, at |-> a.moment, before |-> a.before, after |-> a.after,
     grade |-> a.grade]

(* One transaction writes the row and appends the log row.  It ends at    *)
(* least a tick after the request read the clock.                         *)
Record(r) ==
    LET a == answer[r]
    IN  /\ a.pc = "write" /\ a.moment < clock
        /\ \/ /\ Unchanged(a)
              /\ cards' = [cards EXCEPT ![a.key] = Reviewed(a)]
              /\ log' = [log EXCEPT ![a.key] = Append(@, LogEntry(a))]
              /\ answer' = [answer EXCEPT ![r] = [IdleAnswer EXCEPT !.pc = "counts"]]
              /\ UNCHANGED page
           \/ ~Unchanged(a) /\ Reply(r, "stale") /\ UNCHANGED data
        /\ UNCHANGED <<clock, content, next>>

(* Mutant: the error of the write is swallowed. *)
RecordFails_Swallowed(r) ==
    /\ answer[r].pc = "write"
    /\ Reply(r, "saved")
    /\ UNCHANGED <<clock, content, data, next>>

(* The write fails (a locked or full database): the transaction is rolled *)
(* back and the page hears of an error.                                   *)
RecordFails(r) ==
    /\ answer[r].pc = "write"
    /\ Reply(r, "failed")
    /\ UNCHANGED <<clock, content, data, next>>

(* The fresh counts are read after the review is stored, so an error here *)
(* hides a review that counted.                                           *)
Recount(r) ==
    /\ answer[r].pc = "counts"
    /\ Reply(r, "saved") \/ Reply(r, "failed")
    /\ UNCHANGED <<clock, content, data, next>>

(* The connection is lost while the page waits; the handler runs on. *)
LoseConnection(c) ==
    /\ page[c].ui = "saving"
    /\ page' = [page EXCEPT ![c] = [@ EXCEPT !.ui = "failed", !.request = NoRequest]]
    /\ UNCHANGED <<clock, content, data, next, answer>>

(* The process dies and is started again: handlers end wherever they are, *)
(* progress.db keeps what was committed.                                  *)
Crash ==
    /\ next' = [c \in Clients |-> IdleNext]
    /\ answer' = [r \in Requests |-> IdleAnswer]
    /\ page' = [c \in Clients |-> IF page[c].ui = "saving"
           THEN [page[c] EXCEPT !.ui = "failed", !.request = NoRequest] ELSE page[c]]
    /\ UNCHANGED <<clock, content, data>>

-----------------------------------------------------------------------------
NextStep(c) == ReadStates(c) \/ ReadIntroduced(c) \/ Serve(c)
AnswerStep(r) == LoadItem(r) \/ ReadCard(r) \/ Record(r) \/ RecordFails(r) \/ Recount(r)

Next ==
    \/ Tick \/ Crash
    \/ \E k \in Droppable : DropItem(k)
    \/ \E c \in Clients : NextStart(c) \/ NextStep(c) \/ Reload(c) \/ LoseConnection(c)
    \/ \E c \in Clients, r \in Requests, g \in Grades : Submit(c, r, g)
    \/ \E r \in Requests : AnswerStep(r)

Spec == Init /\ [][Next]_vars

(* The behaviours in which no fetch that began on one study day does its   *)
(* first read on the next.                                                 *)
ReadOnItsDay == Day(clock') # Day(clock) => \A c \in Clients : next[c].pc # "states"

SameDaySpec == Init /\ [][Next /\ ReadOnItsDay]_vars

-----------------------------------------------------------------------------
(* Type correctness, of every table, handler and page. *)
TypeOK ==
    /\ clock \in 1 .. MaxClock
    /\ content \subseteq Keys
    /\ cards \in [Keys -> Row]
    /\ log \in [Keys -> Seq(Entry)]
    /\ page \in [Clients -> Page]
    /\ next \in [Clients -> NextHandler]
    /\ answer \in [Requests -> AnswerHandler]

(* The card_state row is what its review_log rows add up to: its reps are  *)
(* their number, its lapses the number of lapses among them, and its state *)
(* and last_review those the last of them left.                            *)
Lapses(k) ==
    Cardinality({i \in 1 .. Len(log[k]) : log[k][i].before = "Review" /\ log[k][i].grade = "Again"})

RowSummarisesLog ==
    \A k \in Keys :
        IF log[k] = << >> THEN cards[k] = NoRow
        ELSE LET last == log[k][Len(log[k])]
             IN  /\ cards[k].reps = Len(log[k])
                 /\ cards[k].lapses = Lapses(k)
                 /\ cards[k].state = last.after
                 /\ cards[k].last = last.at

(* Each review of a card was scheduled from the state the one before left, *)
(* whatever handlers were in between reading the row and writing it.       *)
ScheduledFromThePrevious ==
    \A k \in Keys : \A i \in 1 .. Len(log[k]) :
        log[k][i].before = (IF i = 1 THEN "New" ELSE log[k][i - 1].after)

(* When the page hears that its answer is saved, the log has a review with *)
(* that grade, made from the state the learner saw.                        *)
SavedIsLogged ==
    \A c \in Clients : page[c].ui = "saved" =>
        \E i \in 1 .. Len(log[page[c].key]) :
            /\ log[page[c].key][i].prev = page[c].expected
            /\ log[page[c].key][i].grade = page[c].grade

(* A 409 is true: the card did get a review from the state the learner     *)
(* saw, by another page or by this page's own earlier attempt (which the   *)
(* learner then hears of as a change made elsewhere).                      *)
StaleWasReviewed ==
    \A c \in Clients : page[c].ui = "stale" =>
        \E i \in 1 .. Len(log[page[c].key]) : log[page[c].key][i].prev = page[c].expected

(* No study day introduces more new cards than its limit, whatever pages   *)
(* fetched on this day or an earlier one, resends and restarts; only a card *)
(* that loses its item while it is being answered may come on top.  It     *)
(* holds under SameDaySpec.  Under Spec a fetch that reads the cards of    *)
(* one day and the count of the day before offers one too many.            *)
DailyLimit ==
    Limit # 0 => \A t \in 1 .. clock : Cardinality(IntroducedOn(Day(t)) \cap content) <= Limit

(* Reviewing implements the ledger of ReviewLedger: the review_log rows of *)
(* a card are its history.                                                 *)
Told(entry) == [prev |-> entry.prev, at |-> entry.at, grade |-> entry.grade]

History == [k \in Keys |-> [i \in 1 .. Len(log[k]) |-> Told(log[k][i])]]

Ledger == INSTANCE ReviewLedger WITH Times <- 1 .. MaxClock, history <- History

ImplementsLedger == Ledger!Spec
=============================================================================
