------------------------ MODULE ReviewSessionProofs ------------------------
(***************************************************************************)
(* Proofs about ReviewSession, for any number of cards, pages and handlers *)
(* and any length of time: its tables agree with each other, a page that   *)
(* hears "saved" or "stale" hears the truth, and reviewing implements the  *)
(* ledger of ReviewLedger.                                                 *)
(***************************************************************************)
EXTENDS ReviewSession, FiniteSetTheorems, TLAPS

-----------------------------------------------------------------------------
(* The inductive invariant. *)

Working(a) == a.pc \in {"load", "read", "write"}

(* What a page shows, and what a handler works on, is a card; only a page *)
(* that saves waits for a handler.                                         *)
HasKey ==
    /\ \A c \in Clients : page[c].ui = "saving" <=> page[c].request # NoRequest
    /\ \A c \in Clients : page[c].ui # "blank" => page[c].key \in Keys
    /\ \A r \in Requests : Working(answer[r]) => answer[r].key \in Keys

(* The rows of a card's log form one chain, increasing in time. *)
Chain(k) ==
    \A i \in 1 .. Len(log[k]) :
        /\ log[k][i].prev = (IF i = 1 THEN Never ELSE log[k][i - 1].at)
        /\ log[k][i].before = (IF i = 1 THEN "New" ELSE log[k][i - 1].after)
        /\ log[k][i].after # "New"
        /\ log[k][i].prev < log[k][i].at
        /\ log[k][i].at <= cards[k].last
        /\ log[k][i].at < clock

(* The card_state row is the end of that chain. *)
RowEndsChain(k) ==
    IF log[k] = << >> THEN cards[k] = NoRow
    ELSE /\ cards[k].state = log[k][Len(log[k])].after
         /\ cards[k].last = log[k][Len(log[k])].at
         /\ cards[k].reps = Len(log[k])
         /\ cards[k].lapses = Lapses(k)

(* A token that GET /reviews/next may have handed out for card k: clients *)
(* only send tokens the server gave them.                                  *)
Token(k, t) == t = Never \/ \E i \in 1 .. Len(log[k]) : log[k][i].at = t

PageInv(c) ==
    page[c].ui # "blank" =>
        page[c].expected < clock /\ Token(page[c].key, page[c].expected)

(* The log has a review of card k with grade g that follows token t. *)
Logged(k, t, g) ==
    \E i \in 1 .. Len(log[k]) : log[k][i].prev = t /\ log[k][i].grade = g

Follows(k, t) == \E i \in 1 .. Len(log[k]) : log[k][i].prev = t

(* A page waits for the handler that works on its answer. *)
WaitInv(c, r) ==
    page[c].request = r =>
        /\ Working(answer[r]) =>
              /\ answer[r].key = page[c].key
              /\ answer[r].expected = page[c].expected
              /\ answer[r].grade = page[c].grade
        /\ answer[r].pc = "counts" => Logged(page[c].key, page[c].expected, page[c].grade)
        /\ answer[r].pc # "idle"

AnswerInv(a) ==
    /\ Working(a) => /\ a.expected < a.moment
                     /\ a.moment <= clock
                     /\ Token(a.key, a.expected)
    /\ a.pc = "write" =>
          /\ a.after # "New"
          /\ a.before = "New" <=> a.expected = Never
          /\ cards[a.key].last = a.expected => cards[a.key].state = a.before

IInv ==
    /\ TypeOK /\ HasKey
    /\ \A k \in Keys : Chain(k) /\ RowEndsChain(k)
    /\ \A c \in Clients : PageInv(c)
    /\ \A c \in Clients, r \in Requests : WaitInv(c, r)
    /\ \A r \in Requests : AnswerInv(answer[r])
    /\ SavedIsLogged
    /\ StaleWasReviewed

-----------------------------------------------------------------------------
(* Type correctness. *)

LEMMA AfterType ==
    ASSUME NEW s, NEW g, NEW t \in After(s, g)
    PROVE  t \in States /\ t # "New"
BY DEF After, Steps, States

LEMMA TypeInit == ASSUME Init PROVE TypeOK
BY ReviewAssumption DEF Page, NextHandler, AnswerHandler, Init, TypeOK, NoRow, Row, States, IdlePage, IdleNext, IdleAnswer, Never

LEMMA IdleTypes == IdlePage \in Page /\ IdleNext \in NextHandler /\ IdleAnswer \in AnswerHandler
BY ReviewAssumption DEF IdlePage, Page, IdleNext, NextHandler, IdleAnswer, AnswerHandler, Never, States

LEMMA ReplyType ==
    ASSUME TypeOK, NEW r \in Requests, NEW outcome \in {"failed", "saved", "stale"},
           Reply(r, outcome)
    PROVE  answer' \in [Requests -> AnswerHandler] /\ page' \in [Clients -> Page]
<1>1. \A c \in Clients : [page[c] EXCEPT !.ui = outcome, !.request = NoRequest] \in Page
  BY DEF TypeOK, Page
<1>2. QED
  BY <1>1, IdleTypes DEF Reply, TypeOK

LEMMA TypeStep == ASSUME TypeOK, HasKey, [Next]_vars PROVE TypeOK'
<1>0. /\ \A c \in Clients : page[c] \in Page /\ next[c] \in NextHandler
      /\ \A r \in Requests : answer[r] \in AnswerHandler
      /\ clock \in Nat
  BY DEF TypeOK
<1>1. CASE UNCHANGED vars
  BY <1>1 DEF TypeOK, vars
<1>2. CASE Tick
  BY <1>2, ReviewAssumption DEF TypeOK, Tick, data
<1>3. CASE Crash
  <2>1. \A c \in Clients : [page[c] EXCEPT !.ui = "failed", !.request = NoRequest] \in Page
    BY <1>0 DEF Page
  <2>2. QED
    BY <1>3, <2>1, IdleTypes DEF TypeOK, Crash, data
<1>4. CASE \E k \in Droppable : DropItem(k)
  BY <1>4 DEF TypeOK, DropItem, data
<1>5. ASSUME NEW c \in Clients, NextStart(c) PROVE TypeOK'
  <2>1. [IdleNext EXCEPT !.pc = "states", !.moment = clock] \in NextHandler
    BY <1>0 DEF IdleNext, NextHandler
  <2>2. next' \in [Clients -> NextHandler] /\ page' \in [Clients -> Page]
    BY <1>5, <2>1, IdleTypes DEF TypeOK, NextStart
  <2>3. QED
    BY <1>5, <2>2 DEF TypeOK, NextStart, data
<1>6. ASSUME NEW c \in Clients, ReadStates(c) PROVE TypeOK'
  <2>1. [next[c] EXCEPT !.pc = "introduced", !.known = {k \in Keys : cards[k] # NoRow}]
            \in NextHandler
    BY <1>0 DEF NextHandler
  <2>2. next' \in [Clients -> NextHandler]
    BY <1>6, <2>1 DEF TypeOK, ReadStates
  <2>3. QED
    BY <1>6, <2>2 DEF TypeOK, ReadStates, data
<1>7. ASSUME NEW c \in Clients, ReadIntroduced(c) PROVE TypeOK'
  <2> DEFINE offered == Selected(next[c].known, Introduced(Day(next[c].moment)))
  <2>1. offered \subseteq Keys
    BY DEF TypeOK, Selected
  <2>2. [next[c] EXCEPT !.pc = "serve", !.known = {}, !.offer = offered] \in NextHandler
    BY <1>0, <2>1 DEF NextHandler
  <2>3. next' \in [Clients -> NextHandler]
    BY <1>7, <2>2 DEF TypeOK, ReadIntroduced
  <2>4. QED
    BY <1>7, <2>3 DEF TypeOK, ReadIntroduced, data
<1>8. ASSUME NEW c \in Clients, Serve(c) PROVE TypeOK'
  <2>1. next' \in [Clients -> NextHandler]
    BY <1>8, IdleTypes DEF TypeOK, Serve
  <2>2. ASSUME NEW k \in Keys, NEW t \in Nat, Show(c, k, t)
        PROVE  page' \in [Clients -> Page]
    <3>1. [IdlePage EXCEPT !.ui = "shown", !.key = k, !.expected = t] \in Page
      BY <2>2, IdleTypes DEF IdlePage, Page
    <3>2. QED
      BY <2>2, <3>1 DEF TypeOK, Show
  <2>3. \/ \E k \in Keys : Show(c, k, cards[k].last)
        \/ \E k \in Keys : Show(c, k, Never)
        \/ UNCHANGED page
    BY <1>8 DEF Serve, TypeOK, Due
  <2>4. \A k \in Keys : cards[k].last \in Nat
    BY DEF TypeOK, Row
  <2>5. page' \in [Clients -> Page]
    BY <2>2, <2>3, <2>4 DEF Never, TypeOK
  <2>6. QED
    BY <1>8, <2>1, <2>5 DEF TypeOK, Serve, data
<1>9. ASSUME NEW c \in Clients, Reload(c) PROVE TypeOK'
  BY <1>9, IdleTypes DEF TypeOK, Reload, data
<1>10. ASSUME NEW c \in Clients, LoseConnection(c) PROVE TypeOK'
  <2>1. [page[c] EXCEPT !.ui = "failed", !.request = NoRequest] \in Page
    BY <1>0 DEF Page
  <2>2. page' \in [Clients -> Page]
    BY <1>10, <2>1 DEF TypeOK, LoseConnection
  <2>3. QED
    BY <1>10, <2>2 DEF TypeOK, LoseConnection, data
<1>11. ASSUME NEW c \in Clients, NEW r \in Requests, NEW g \in Grades, Submit(c, r, g)
       PROVE TypeOK'
  <2>1. [page[c] EXCEPT !.ui = "saving", !.grade = g, !.request = r] \in Page
    BY <1>0 DEF Page
  <2>2. [IdleAnswer EXCEPT !.pc = "load", !.key = page[c].key, !.expected = page[c].expected,
           !.grade = g, !.moment = clock] \in AnswerHandler
    <3>1. page[c].key \in Keys \cup {NoKey} /\ page[c].expected \in Nat
      BY <1>0 DEF Page
    <3>2. QED
      BY <1>0, <3>1, IdleTypes DEF IdleAnswer, AnswerHandler
  <2>3. page' \in [Clients -> Page]
    BY <1>11, <2>1 DEF TypeOK, Submit
  <2>4. answer' \in [Requests -> AnswerHandler]
    BY <1>11, <2>2 DEF TypeOK, Submit
  <2>5. QED
    BY <1>11, <2>3, <2>4 DEF TypeOK, Submit, data
<1>12. ASSUME NEW r \in Requests, LoadItem(r) PROVE TypeOK'
  <2>1. CASE Reply(r, "failed")
    BY <1>12, <2>1, ReplyType DEF TypeOK, LoadItem, data
  <2>2. CASE ~Reply(r, "failed")
    <3>1. [answer[r] EXCEPT !.pc = "read"] \in AnswerHandler
      BY <1>0 DEF AnswerHandler
    <3>2. answer' \in [Requests -> AnswerHandler] /\ UNCHANGED page
      BY <1>12, <2>2, <3>1 DEF TypeOK, LoadItem
    <3>3. QED
      BY <1>12, <3>2 DEF TypeOK, LoadItem, data
  <2>3. QED
    BY <2>1, <2>2
<1>13. ASSUME NEW r \in Requests, ReadCard(r) PROVE TypeOK'
  <2>1. CASE Reply(r, "stale")
    BY <1>13, <2>1, ReplyType DEF TypeOK, ReadCard, data
  <2>2. CASE ~Reply(r, "stale")
    <3>1. PICK s \in After(cards[answer[r].key].state, answer[r].grade), d \in Intervals :
             /\ answer' = [answer EXCEPT ![r] = [answer[r] EXCEPT !.pc = "write",
                   !.before = cards[answer[r].key].state, !.after = s,
                   !.due = answer[r].moment + d]]
             /\ UNCHANGED <<clock, content, cards, log, page, next>>
      BY <1>13, <2>2 DEF ReadCard, Before, data
    <3>2. CASE answer[r].key \in Keys
      <4>1. /\ cards[answer[r].key].state \in States
            /\ s \in States
            /\ answer[r].moment + d \in Nat
        <5>1. answer[r].moment \in Nat
          BY <1>0 DEF AnswerHandler
        <5>2. QED
          BY <3>2, <5>1, AfterType, ReviewAssumption DEF TypeOK, Row
      <4>2. [answer[r] EXCEPT !.pc = "write", !.before = cards[answer[r].key].state,
               !.after = s, !.due = answer[r].moment + d] \in AnswerHandler
        BY <1>0, <4>1 DEF AnswerHandler
      <4>3. answer' \in [Requests -> AnswerHandler]
        BY <3>1, <4>2 DEF TypeOK
      <4>4. QED
        BY <3>1, <4>3 DEF TypeOK
    <3>3. QED
      BY <1>13, <3>2 DEF HasKey, Working, ReadCard
  <2>3. QED
    BY <2>1, <2>2
<1>14. ASSUME NEW r \in Requests, Record(r) PROVE TypeOK'
  <2>1. CASE Reply(r, "stale") /\ UNCHANGED data
    BY <1>14, <2>1, ReplyType DEF TypeOK, Record, data
  <2>2. CASE ~(Reply(r, "stale") /\ UNCHANGED data)
    <3>1. /\ cards' = [cards EXCEPT ![answer[r].key] = Reviewed(answer[r])]
          /\ log' = [log EXCEPT ![answer[r].key] = Append(@, LogEntry(answer[r]))]
          /\ answer' = [answer EXCEPT ![r] = [IdleAnswer EXCEPT !.pc = "counts"]]
          /\ UNCHANGED <<clock, content, page, next>>
      BY <1>14, <2>2 DEF Record
    <3>2. answer[r].key \in Keys => Reviewed(answer[r]) \in Row
      BY <1>0 DEF TypeOK, Reviewed, Row, AnswerHandler
    <3>3. LogEntry(answer[r]) \in Entry
      BY <1>0 DEF LogEntry, Entry, AnswerHandler
    <3>4. cards' \in [Keys -> Row]
      BY <3>1, <3>2 DEF TypeOK
    <3>5. log' \in [Keys -> Seq(Entry)]
      <4>1. ASSUME answer[r].key \in Keys
            PROVE  Append(log[answer[r].key], LogEntry(answer[r])) \in Seq(Entry)
        BY <4>1, <3>3 DEF TypeOK
      <4>2. QED
        BY <3>1, <4>1 DEF TypeOK
    <3>6. [IdleAnswer EXCEPT !.pc = "counts"] \in AnswerHandler
      BY IdleTypes DEF IdleAnswer, AnswerHandler
    <3>7. answer' \in [Requests -> AnswerHandler]
      BY <3>1, <3>6 DEF TypeOK
    <3>8. QED
      BY <3>1, <3>4, <3>5, <3>7 DEF TypeOK
  <2>3. QED
    BY <2>1, <2>2
<1>15. ASSUME NEW r \in Requests, RecordFails(r) PROVE TypeOK'
  BY <1>15, ReplyType DEF TypeOK, RecordFails, data
<1>16. ASSUME NEW r \in Requests, Recount(r) PROVE TypeOK'
  BY <1>16, ReplyType DEF TypeOK, Recount, data
<1>17. QED
  BY <1>1, <1>2, <1>3, <1>4, <1>5, <1>6, <1>7, <1>8, <1>9, <1>10, <1>11, <1>12, <1>13,
     <1>14, <1>15, <1>16 DEF Next, NextStep, AnswerStep

(* Every step is of one of seven shapes, as far as pages, handlers, tables *)
(* and the clock go.                                                       *)
Elsewhere == UNCHANGED <<page, answer, data>> /\ clock' \in Nat /\ clock' >= clock

Turn(c) ==
    /\ UNCHANGED <<clock, answer, data>>
    /\ \/ page' = [page EXCEPT ![c] = IdlePage]
       \/ \E k \in Keys : Show(c, k, Never) \/ (cards[k] # NoRow /\ Show(c, k, cards[k].last))
       \/ /\ page[c].ui = "saving"
          /\ page' = [page EXCEPT ![c] = [@ EXCEPT !.ui = "failed", !.request = NoRequest]]

CrashStep ==
    /\ UNCHANGED <<clock, data>>
    /\ answer' = [r \in Requests |-> IdleAnswer]
    /\ page' = [c \in Clients |-> IF page[c].ui = "saving"
           THEN [page[c] EXCEPT !.ui = "failed", !.request = NoRequest] ELSE page[c]]

Advance(r) ==
    /\ UNCHANGED <<clock, data, page>>
    /\ \/ /\ answer[r].pc = "load"
          /\ answer' = [answer EXCEPT ![r] = [@ EXCEPT !.pc = "read"]]
       \/ /\ answer[r].pc = "read"
          /\ cards[answer[r].key].last = answer[r].expected
          /\ \E s \in After(cards[answer[r].key].state, answer[r].grade), d \in Intervals :
                answer' = [answer EXCEPT ![r] = [answer[r] EXCEPT !.pc = "write",
                    !.before = cards[answer[r].key].state, !.after = s,
                    !.due = answer[r].moment + d]]

Finish(r) ==
    /\ UNCHANGED <<clock, data>>
    /\ \/ Reply(r, "failed") /\ answer[r].pc # "idle"
       \/ Reply(r, "saved") /\ answer[r].pc = "counts"
       \/ /\ Reply(r, "stale")
          /\ \/ answer[r].pc = "read" /\ cards[answer[r].key].last # answer[r].expected
             \/ answer[r].pc = "write" /\ ~Unchanged(answer[r])

Commit(r) ==
    /\ UNCHANGED <<clock, page>>
    /\ answer[r].pc = "write" /\ answer[r].moment < clock /\ Unchanged(answer[r])
    /\ cards' = [cards EXCEPT ![answer[r].key] = Reviewed(answer[r])]
    /\ log' = [log EXCEPT ![answer[r].key] = Append(@, LogEntry(answer[r]))]
    /\ answer' = [answer EXCEPT ![r] = [IdleAnswer EXCEPT !.pc = "counts"]]

LEMMA StepShapes ==
    ASSUME TypeOK, [Next]_vars
    PROVE  \/ Elsewhere
           \/ CrashStep
           \/ \E c \in Clients : Turn(c)
           \/ \E c \in Clients, r \in Requests, g \in Grades : Submit(c, r, g)
           \/ \E r \in Requests : Advance(r) \/ Finish(r) \/ Commit(r)
<1>0. clock \in Nat
  BY DEF TypeOK
<1>1. CASE UNCHANGED vars
  BY <1>0, <1>1 DEF vars, Elsewhere, data
<1>2. CASE Tick
  BY <1>0, <1>2 DEF Tick, Elsewhere
<1>3. CASE Crash
  BY <1>3 DEF Crash, CrashStep
<1>4. CASE \E k \in Droppable : DropItem(k)
  BY <1>0, <1>4 DEF DropItem, Elsewhere
<1>5. ASSUME NEW c \in Clients, NextStart(c) PROVE Turn(c)
  BY <1>5 DEF NextStart, Turn
<1>6. ASSUME NEW c \in Clients, ReadStates(c) \/ ReadIntroduced(c) PROVE Elsewhere
  BY <1>0, <1>6 DEF ReadStates, ReadIntroduced, Elsewhere
<1>7. ASSUME NEW c \in Clients, Serve(c) PROVE Elsewhere \/ Turn(c)
  <2>1. UNCHANGED <<clock, answer, data>>
    BY <1>7 DEF Serve
  <2>2. \/ \E k \in Keys : cards[k] # NoRow /\ Show(c, k, cards[k].last)
        \/ \E k \in Keys : Show(c, k, Never)
        \/ UNCHANGED page
    BY <1>7 DEF Serve, TypeOK, Due
  <2>3. QED
    BY <1>0, <2>1, <2>2 DEF Elsewhere, Turn
<1>8. ASSUME NEW c \in Clients, Reload(c) \/ LoseConnection(c) PROVE Turn(c)
  BY <1>8 DEF Reload, LoseConnection, Turn
<1>9. ASSUME NEW r \in Requests, AnswerStep(r) PROVE Advance(r) \/ Finish(r) \/ Commit(r)
  <2>1. CASE LoadItem(r)
    BY <2>1 DEF LoadItem, Advance, Finish
  <2>2. CASE ReadCard(r)
    BY <2>2 DEF ReadCard, Before, Advance, Finish
  <2>3. CASE Record(r)
    BY <2>3 DEF Record, Commit, Finish
  <2>4. CASE RecordFails(r) \/ Recount(r)
    BY <2>4 DEF RecordFails, Recount, Finish
  <2>5. QED
    BY <1>9, <2>1, <2>2, <2>3, <2>4 DEF AnswerStep
<1>10. QED
  BY <1>1, <1>2, <1>3, <1>4, <1>5, <1>6, <1>7, <1>8, <1>9 DEF Next, NextStep

(* A handler that goes on changes only itself, and not what it works on.   *)
LEMMA AdvanceKeeps ==
    ASSUME NEW r \in Requests, DOMAIN answer = Requests, answer[r] \in AnswerHandler, Advance(r)
    PROVE  /\ UNCHANGED page /\ Working(answer[r])
           /\ answer'[r].pc \in {"read", "write"}
           /\ answer'[r].key = answer[r].key /\ answer'[r].expected = answer[r].expected
           /\ answer'[r].grade = answer[r].grade /\ answer'[r].moment = answer[r].moment
           /\ \A q \in Requests : q # r => answer'[q] = answer[q]
<1> DEFINE a == answer[r]
<1>1. CASE /\ a.pc = "load" /\ UNCHANGED page
           /\ answer' = [answer EXCEPT ![r] = [@ EXCEPT !.pc = "read"]]
  <2>1. answer'[r] = [a EXCEPT !.pc = "read"]
    BY <1>1
  <2>2. QED
    BY <1>1, <2>1 DEF AnswerHandler, Working
<1>2. ASSUME NEW s, NEW b, NEW d, a.pc = "read", UNCHANGED page,
             answer' = [answer EXCEPT ![r] = [a EXCEPT !.pc = "write",
                           !.before = b, !.after = s, !.due = d]]
      PROVE  /\ UNCHANGED page /\ Working(a) /\ answer'[r].pc \in {"read", "write"}
             /\ answer'[r].key = a.key /\ answer'[r].expected = a.expected
             /\ answer'[r].grade = a.grade /\ answer'[r].moment = a.moment
             /\ \A q \in Requests : q # r => answer'[q] = answer[q]
  <2>1. answer'[r] = [a EXCEPT !.pc = "write", !.before = b, !.after = s, !.due = d]
    BY <1>2
  <2>2. QED
    BY <1>2, <2>1 DEF AnswerHandler, Working
<1>3. CASE a.pc = "read" /\ UNCHANGED page
           /\ \E s \in After(cards[a.key].state, a.grade), d \in Intervals :
                  answer' = [answer EXCEPT ![r] = [a EXCEPT !.pc = "write",
                      !.before = cards[a.key].state, !.after = s, !.due = a.moment + d]]
  <2>1. PICK s, d : answer' = [answer EXCEPT ![r] = [a EXCEPT !.pc = "write",
                        !.before = cards[a.key].state, !.after = s, !.due = a.moment + d]]
    BY <1>3
  <2>2. QED
    BY <1>2, <1>3, <2>1
<1>4. QED
  BY <1>1, <1>3 DEF Advance

LEMMA KeyInit == ASSUME Init PROVE HasKey
BY DEF Init, HasKey, Working, IdlePage, IdleAnswer

LEMMA KeyStep == ASSUME TypeOK, HasKey, [Next]_vars PROVE HasKey'
<1>0. /\ \A c \in Clients : page[c] \in Page
      /\ \A r \in Requests : answer[r] \in AnswerHandler /\ r # NoRequest
      /\ DOMAIN page = Clients /\ DOMAIN answer = Requests
  BY ReviewAssumption DEF TypeOK
<1>1. CASE Elsewhere
  BY <1>1 DEF Elsewhere, HasKey, Working
<1>2. CASE CrashStep
  BY <1>0, <1>2 DEF CrashStep, HasKey, Working, IdleAnswer, Page
<1>3. ASSUME NEW c \in Clients, Turn(c) PROVE HasKey'
  <2>1. \A r \in Requests : Working(answer'[r]) => answer'[r].key \in Keys
    BY <1>3 DEF Turn, HasKey, Working
  <2>2. /\ \A d \in Clients : page'[d].ui = "saving" <=> page'[d].request # NoRequest
        /\ \A d \in Clients : page'[d].ui # "blank" => page'[d].key \in Keys
    <3>1. CASE page' = [page EXCEPT ![c] = IdlePage]
      BY <1>0, <3>1 DEF HasKey, IdlePage
    <3>2. ASSUME NEW k \in Keys, NEW t, Show(c, k, t)
          PROVE  page'[c].ui = "shown" /\ page'[c].request = NoRequest /\ page'[c].key = k
      BY <1>0, <3>2 DEF Show, IdlePage
    <3>3. ASSUME NEW k \in Keys, NEW t, Show(c, k, t)
          PROVE  \A d \in Clients : d # c => page'[d] = page[d]
      BY <1>0, <3>3 DEF Show
    <3>4. CASE \E k \in Keys : Show(c, k, Never) \/ Show(c, k, cards[k].last)
      BY <3>2, <3>3, <3>4 DEF HasKey
    <3>5. CASE /\ page[c].ui = "saving"
               /\ page' = [page EXCEPT ![c] = [@ EXCEPT !.ui = "failed", !.request = NoRequest]]
      BY <1>0, <3>5 DEF HasKey, Page
    <3>6. QED
      BY <1>3, <3>1, <3>4, <3>5 DEF Turn
  <2>3. QED
    BY <2>1, <2>2 DEF HasKey, Working
<1>4. ASSUME NEW c \in Clients, NEW r \in Requests, NEW g \in Grades, Submit(c, r, g)
      PROVE  HasKey'
  BY <1>0, <1>4 DEF Submit, HasKey, Working, IdleAnswer, Page
<1>5. ASSUME NEW r \in Requests, Advance(r) PROVE HasKey'
  <2>1. /\ UNCHANGED page /\ Working(answer[r]) /\ answer'[r].key = answer[r].key
        /\ \A q \in Requests : q # r => answer'[q] = answer[q]
    BY <1>0, <1>5, AdvanceKeeps
  <2>2. QED
    BY <2>1 DEF HasKey, Working
<1>6. ASSUME NEW r \in Requests, Finish(r) PROVE HasKey'
  <2>1. PICK o \in {"failed", "saved", "stale"} : Reply(r, o)
    BY <1>6 DEF Finish
  <2>2. \A q \in Requests : Working(answer'[q]) => answer'[q].key \in Keys
    BY <1>0, <2>1 DEF Reply, HasKey, Working, IdleAnswer
  <2>3. ASSUME NEW c \in Clients, page[c].request = r
        PROVE  page'[c].ui = o /\ page'[c].request = NoRequest /\ page'[c].key \in Keys
    BY <1>0, <2>1, <2>3 DEF Reply, HasKey, Page
  <2>4. ASSUME NEW c \in Clients, page[c].request # r PROVE page'[c] = page[c]
    BY <2>1, <2>4 DEF Reply
  <2>5. QED
    BY <2>2, <2>3, <2>4 DEF HasKey
<1>7. ASSUME NEW r \in Requests, Commit(r) PROVE HasKey'
  BY <1>0, <1>7 DEF Commit, HasKey, Working, IdleAnswer
<1>8. QED
  BY <1>1, <1>2, <1>3, <1>4, <1>5, <1>6, <1>7, StepShapes

(* Every table, handler and page keeps its type. *)
THEOREM TypeCorrect == Spec => []TypeOK
<1>1. Init => TypeOK /\ HasKey
  BY TypeInit, KeyInit
<1>2. TypeOK /\ HasKey /\ [Next]_vars => (TypeOK /\ HasKey)'
  BY TypeStep, KeyStep
<1>3. QED
  BY <1>1, <1>2, PTL DEF Spec

-----------------------------------------------------------------------------
(* Facts about one card's row and log. *)

LEMMA LogType ==
    ASSUME TypeOK, NEW k \in Keys
    PROVE  /\ log[k] \in Seq(Entry) /\ Len(log[k]) \in Nat
           /\ \A i \in 1 .. Len(log[k]) : log[k][i] \in Entry
           /\ \A i \in 1 .. Len(log[k]) : log[k][i].prev \in Nat /\ log[k][i].at \in Nat
           /\ log[k] # << >> => Len(log[k]) \in 1 .. Len(log[k])
           /\ log[k] = << >> => Len(log[k]) = 0
<1>1. log[k] \in Seq(Entry)
  BY DEF TypeOK
<1>2. Len(log[k]) \in Nat /\ \A i \in 1 .. Len(log[k]) : log[k][i] \in Entry
  BY <1>1
<1>3. \A i \in 1 .. Len(log[k]) : log[k][i].prev \in Nat /\ log[k][i].at \in Nat
  BY <1>2 DEF Entry
<1>4. /\ log[k] # << >> => Len(log[k]) \in 1 .. Len(log[k])
      /\ log[k] = << >> => Len(log[k]) = 0
  BY <1>1
<1>5. QED
  BY <1>1, <1>2, <1>3, <1>4

(* A card has a row exactly when it has a log, and then a time. *)
LEMMA RowIffLog ==
    ASSUME TypeOK, NEW k \in Keys, Chain(k), RowEndsChain(k)
    PROVE  /\ cards[k] = NoRow <=> log[k] = << >>
           /\ log[k] # << >> => cards[k].last # Never /\ cards[k].state # "New"
<1>1. CASE log[k] = << >>
  BY <1>1 DEF RowEndsChain
<1>2. CASE log[k] # << >>
  <2> DEFINE n == Len(log[k])
  <2>1. n \in 1 .. Len(log[k]) /\ log[k][n].prev \in Nat /\ log[k][n].at \in Nat
    BY <1>2, LogType
  <2>2. log[k][n].prev < log[k][n].at /\ log[k][n].after # "New"
    BY <2>1 DEF Chain
  <2>3. cards[k].last # Never /\ cards[k].state # "New"
    BY <1>2, <2>1, <2>2 DEF RowEndsChain, Never
  <2>4. cards[k] # NoRow
    BY <2>3 DEF NoRow
  <2>5. QED
    BY <1>2, <2>3, <2>4
<1>3. QED
  BY <1>1, <1>2

(* A token that is no longer the card's last review was followed by one. *)
LEMMA OldTokenWasFollowed ==
    ASSUME TypeOK, NEW k \in Keys, Chain(k), RowEndsChain(k),
           NEW t, Token(k, t), cards[k].last # t
    PROVE  Follows(k, t)
<1>1. CASE t = Never
  <2>1. log[k] # << >>
    BY <1>1 DEF RowEndsChain, NoRow
  <2>2. 1 \in 1 .. Len(log[k])
    BY <2>1, LogType
  <2>3. log[k][1].prev = Never
    BY <2>2 DEF Chain
  <2>4. QED
    BY <1>1, <2>2, <2>3 DEF Follows
<1>2. ASSUME NEW i \in 1 .. Len(log[k]), log[k][i].at = t PROVE Follows(k, t)
  <2>1. log[k] # << >> /\ Len(log[k]) \in Nat
    BY <1>2, LogType
  <2>2. i # Len(log[k])
    BY <1>2, <2>1 DEF RowEndsChain
  <2>3. i + 1 \in 1 .. Len(log[k]) /\ i + 1 # 1 /\ (i + 1) - 1 = i
    BY <2>1, <2>2
  <2>4. log[k][i + 1].prev = log[k][i].at
    BY <2>3 DEF Chain
  <2>5. QED
    BY <1>2, <2>3, <2>4 DEF Follows
<1>3. QED
  BY <1>1, <1>2 DEF Token

(* When record_review's condition fails, the card moved on. *)
LEMMA ConflictMeansMovedOn ==
    ASSUME IInv, NEW r \in Requests, answer[r].pc = "write", ~Unchanged(answer[r])
    PROVE  answer[r].key \in Keys /\ cards[answer[r].key].last # answer[r].expected
<1> DEFINE a == answer[r]
<1>1. a.key \in Keys /\ AnswerInv(a)
  BY DEF IInv, HasKey, Working
<1>2. a.before = "New" <=> a.expected = Never
  BY <1>1 DEF AnswerInv
<1>3. TypeOK /\ Chain(a.key) /\ RowEndsChain(a.key)
  BY <1>1 DEF IInv
<1>4. CASE a.before = "New"
  BY <1>1, <1>2, <1>3, <1>4, RowIffLog DEF Unchanged
<1>5. CASE a.before # "New"
  BY <1>1, <1>2, <1>5 DEF Unchanged, NoRow
<1>6. QED
  BY <1>1, <1>4, <1>5

(* When it holds, the row is the one the answer was computed from. *)
LEMMA NoConflictMeansSameRow ==
    ASSUME IInv, NEW r \in Requests, answer[r].pc = "write", Unchanged(answer[r])
    PROVE  /\ answer[r].key \in Keys
           /\ cards[answer[r].key].last = answer[r].expected
           /\ cards[answer[r].key].state = answer[r].before
           /\ answer[r].before = "New" => log[answer[r].key] = << >>
           /\ answer[r].before # "New" => log[answer[r].key] # << >>
<1> DEFINE a == answer[r]
<1>1. a.key \in Keys /\ AnswerInv(a)
  BY DEF IInv, HasKey, Working
<1>2. /\ a.before = "New" <=> a.expected = Never
      /\ cards[a.key].last = a.expected => cards[a.key].state = a.before
  BY <1>1 DEF AnswerInv
<1>3. TypeOK /\ Chain(a.key) /\ RowEndsChain(a.key)
  BY <1>1 DEF IInv
<1>4. cards[a.key].last = a.expected
  BY <1>2 DEF Unchanged, NoRow
<1>5. cards[a.key] = NoRow <=> a.before = "New"
  BY DEF Unchanged
<1>6. QED
  BY <1>1, <1>2, <1>3, <1>4, <1>5, RowIffLog

-----------------------------------------------------------------------------
(* What a committed review does to its card's row and log. *)

LEMMA CommitLog ==
    ASSUME IInv, NEW r \in Requests, Commit(r)
    PROVE  LET K == answer[r].key
               n == Len(log[K])
           IN  /\ K \in Keys /\ n \in Nat
               /\ Len(log'[K]) = n + 1
               /\ \A i \in 1 .. n : log'[K][i] = log[K][i]
               /\ log'[K][n + 1] = LogEntry(answer[r])
               /\ cards'[K] = Reviewed(answer[r])
               /\ \A k \in Keys : k # K => log'[k] = log[k] /\ cards'[k] = cards[k]
<1> DEFINE K == answer[r].key
<1>1. K \in Keys
  BY NoConflictMeansSameRow DEF Commit
<1>2. TypeOK
  BY DEF IInv
<1>3. log[K] \in Seq(Entry) /\ log'[K] = Append(log[K], LogEntry(answer[r]))
  BY <1>1, <1>2, LogType DEF Commit, TypeOK
<1>4. /\ Len(log[K]) \in Nat
      /\ Len(log'[K]) = Len(log[K]) + 1
      /\ \A i \in 1 .. Len(log[K]) : log'[K][i] = log[K][i]
      /\ log'[K][Len(log[K]) + 1] = LogEntry(answer[r])
  BY <1>3
<1>5. /\ cards'[K] = Reviewed(answer[r])
      /\ \A k \in Keys : k # K => log'[k] = log[k] /\ cards'[k] = cards[k]
  BY <1>1, <1>2 DEF Commit, TypeOK
<1>6. QED
  BY <1>1, <1>4, <1>5

(* Nothing a log said is unsaid. *)
LEMMA CommitKeeps ==
    ASSUME IInv, NEW r \in Requests, Commit(r), NEW k \in Keys, NEW t
    PROVE  /\ Token(k, t) => Token(k, t)'
           /\ Follows(k, t) => Follows(k, t)'
           /\ \A g : Logged(k, t, g) => Logged(k, t, g)'
<1>1. \A i \in 1 .. Len(log[k]) : i \in 1 .. Len(log'[k]) /\ log'[k][i] = log[k][i]
  <2>1. CASE k = answer[r].key
    BY <2>1, CommitLog
  <2>2. CASE k # answer[r].key
    BY <2>2, CommitLog
  <2>3. QED
    BY <2>1, <2>2
<1>2. QED
  BY <1>1 DEF Token, Follows, Logged

LEMMA CommitChain ==
    ASSUME IInv, NEW r \in Requests, Commit(r), NEW k \in Keys
    PROVE  Chain(k)'
<1> DEFINE a == answer[r]
           n == Len(log[k])
<1>0. TypeOK /\ Chain(k) /\ RowEndsChain(k) /\ AnswerInv(a) /\ clock' = clock
  BY DEF IInv, Commit
<1>1. CASE k # a.key
  BY <1>0, <1>1, CommitLog DEF Chain
<1>2. CASE k = a.key
  <2>1. /\ cards[k].last = a.expected /\ cards[k].state = a.before
        /\ a.before = "New" => log[k] = << >>
        /\ a.before # "New" => log[k] # << >>
        /\ a.moment < clock /\ a.expected < a.moment /\ a.after # "New"
        /\ a.before = "New" <=> a.expected = Never
    <3>1. a.pc = "write" /\ Unchanged(a) /\ a.moment < clock
      BY DEF Commit
    <3>2. a.expected < a.moment /\ a.after # "New" /\ (a.before = "New" <=> a.expected = Never)
      BY <1>0, <3>1 DEF AnswerInv, Working
    <3>3. QED
      BY <1>2, <3>1, <3>2, NoConflictMeansSameRow
  <2>2. a.expected \in Nat /\ a.moment \in Nat /\ clock \in Nat
    BY <1>0 DEF TypeOK, AnswerHandler
  <2>3. /\ n \in Nat /\ Len(log'[k]) = n + 1
        /\ \A i \in 1 .. n : log'[k][i] = log[k][i]
        /\ log'[k][n + 1] = LogEntry(a)
        /\ cards'[k].last = a.moment
    <3>1. Reviewed(a).last = a.moment
      BY DEF Reviewed
    <3>2. QED
      BY <1>2, <3>1, CommitLog
  <2> DEFINE Link(i) ==
         /\ log'[k][i].prev = (IF i = 1 THEN Never ELSE log'[k][i - 1].at)
         /\ log'[k][i].before = (IF i = 1 THEN "New" ELSE log'[k][i - 1].after)
         /\ log'[k][i].after # "New"
         /\ log'[k][i].prev < log'[k][i].at
         /\ log'[k][i].at <= cards'[k].last
         /\ log'[k][i].at < clock
  <2>4. ASSUME NEW i \in 1 .. n PROVE Link(i)
    <3>1. i # 1 => i - 1 \in 1 .. n
      BY <2>3
    <3>2. log[k][i].at \in Nat /\ log[k][i].at <= cards[k].last
      BY <1>0, LogType DEF Chain
    <3>3. log[k][i].at <= cards'[k].last
      BY <2>1, <2>2, <2>3, <3>2
    <3>4. QED
      BY <1>0, <2>3, <3>1, <3>3 DEF Chain
  <2>5. Link(n + 1)
    <3>1. LogEntry(a).prev = a.expected /\ LogEntry(a).at = a.moment
          /\ LogEntry(a).before = a.before /\ LogEntry(a).after = a.after
      BY DEF LogEntry
    <3>2. CASE log[k] = << >>
      <4>1. n = 0 /\ a.before = "New" /\ a.expected = Never
        BY <1>0, <2>1, <3>2, LogType
      <4>2. QED
        BY <2>1, <2>2, <2>3, <3>1, <4>1
    <3>3. CASE log[k] # << >>
      <4>1. n \in 1 .. n /\ n + 1 # 1 /\ (n + 1) - 1 = n
        BY <1>0, <2>3, <3>3, LogType
      <4>2. log[k][n].at = a.expected /\ log[k][n].after = a.before
        BY <1>0, <2>1, <3>3 DEF RowEndsChain
      <4>3. QED
        <5>1. log'[k][n + 1] = LogEntry(a) /\ log'[k][(n + 1) - 1] = log[k][n]
          BY <2>3, <4>1
        <5>2. /\ LogEntry(a).prev = log[k][n].at /\ LogEntry(a).before = log[k][n].after
              /\ LogEntry(a).after # "New" /\ LogEntry(a).prev < LogEntry(a).at
              /\ LogEntry(a).at <= cards'[k].last /\ LogEntry(a).at < clock
          BY <2>1, <2>2, <2>3, <3>1, <4>2
        <5>3. QED
          BY <4>1, <5>1, <5>2
    <3>4. QED
      BY <3>2, <3>3
  <2>6. \A i \in 1 .. n + 1 : Link(i)
    <3> SUFFICES ASSUME NEW i \in 1 .. n + 1 PROVE Link(i)
      OBVIOUS
    <3>1. i \in 1 .. n \/ i = n + 1
      BY <2>3
    <3>2. QED
      BY <3>1, <2>4, <2>5
  <2>7. QED
    BY <1>0, <2>3, <2>6 DEF Chain
<1>3. QED
  BY <1>1, <1>2

(* The lapses of a log with one row more. *)
LEMMA CommitLapses ==
    ASSUME IInv, NEW r \in Requests, Commit(r), NEW k \in Keys, k = answer[r].key
    PROVE  Lapses(k)' = Lapses(k) + (IF Lapsed(answer[r]) THEN 1 ELSE 0)
<1> DEFINE n == Len(log[k])
           e == LogEntry(answer[r])
           IsLapse(x) == x.before = "Review" /\ x.grade = "Again"
           old == {i \in 1 .. n : IsLapse(log[k][i])}
           new == {i \in 1 .. Len(log'[k]) : IsLapse(log'[k][i])}
<1>1. /\ n \in Nat /\ Len(log'[k]) = n + 1
      /\ \A i \in 1 .. n : log'[k][i] = log[k][i]
      /\ log'[k][n + 1] = e
  BY CommitLog
<1>2. IsLapse(e) <=> Lapsed(answer[r])
  BY DEF LogEntry, Lapsed
<1>3. IsFiniteSet(old) /\ n + 1 \notin old /\ Cardinality(old) \in Nat
  <2>1. IsFiniteSet(1 .. n)
    BY <1>1, FS_Interval
  <2>2. IsFiniteSet(old)
    BY <2>1, FS_Subset
  <2>3. Cardinality(old) \in Nat
    BY <2>2, FS_CardinalityType
  <2>4. n + 1 \notin 1 .. n
    BY <1>1
  <2>5. QED
    BY <2>2, <2>3, <2>4
<1>4. /\ IsLapse(e) => new = old \cup {n + 1}
      /\ ~IsLapse(e) => new = old
  <2>1. \A i : i \in 1 .. n + 1 <=> i \in 1 .. n \/ i = n + 1
    BY <1>1
  <2>2. n + 1 \notin 1 .. n
    BY <1>1
  <2>3. \A i : i \in new <=> i \in old \/ (i = n + 1 /\ IsLapse(e))
    BY <1>1, <2>1, <2>2
  <2> HIDE DEF IsLapse, new, old
  <2>4. QED
    BY <2>3
<1>5. Cardinality(old \cup {n + 1}) = Cardinality(old) + 1
  BY <1>3, FS_AddElement
<1>6. Lapses(k) = Cardinality(old)
  BY DEF Lapses
<1>7. Lapses(k)' = Cardinality(new)
  BY DEF Lapses
<1> HIDE DEF IsLapse, new, old
<1>8. CASE Lapsed(answer[r])
  BY <1>2, <1>4, <1>5, <1>6, <1>7, <1>8
<1>9. CASE ~Lapsed(answer[r])
  BY <1>2, <1>3, <1>4, <1>6, <1>7, <1>9
<1>10. QED
  BY <1>8, <1>9

LEMMA CommitRow ==
    ASSUME IInv, NEW r \in Requests, Commit(r), NEW k \in Keys
    PROVE  RowEndsChain(k)'
<1> DEFINE a == answer[r]
           n == Len(log[k])
<1>0. TypeOK /\ Chain(k) /\ RowEndsChain(k)
  BY DEF IInv
<1>1. CASE k # a.key
  <2>1. log'[k] = log[k] /\ cards'[k] = cards[k]
    BY <1>1, CommitLog
  <2>2. Lapses(k)' = Lapses(k)
    BY <2>1 DEF Lapses
  <2>3. QED
    BY <1>0, <2>1, <2>2 DEF RowEndsChain
<1>2. CASE k = a.key
  <2>1. /\ n \in Nat /\ Len(log'[k]) = n + 1
        /\ log'[k][n + 1] = LogEntry(a)
        /\ cards'[k] = Reviewed(a)
    BY <1>2, CommitLog
  <2>2. log'[k] # << >>
    BY <2>1
  <2>3. cards'[k].state = LogEntry(a).after /\ cards'[k].last = LogEntry(a).at
    BY <2>1 DEF Reviewed, LogEntry
  <2>4. cards[k].reps = n /\ cards[k].lapses = Lapses(k)
    <3>1. CASE log[k] = << >>
      <4>1. n = 0 /\ {i \in 1 .. n : log[k][i].before = "Review" /\ log[k][i].grade = "Again"} = {}
        BY <1>0, <3>1, LogType
      <4>2. Lapses(k) = 0
        BY <4>1, FS_EmptySet DEF Lapses
      <4>3. QED
        BY <1>0, <3>1, <4>1, <4>2 DEF RowEndsChain, NoRow
    <3>2. QED
      BY <1>0, <3>1 DEF RowEndsChain
  <2>5. cards'[k].reps = n + 1 /\ cards'[k].lapses = Lapses(k)'
    BY <1>2, <2>1, <2>4, CommitLapses DEF Reviewed
  <2>6. QED
    BY <2>1, <2>2, <2>3, <2>5 DEF RowEndsChain
<1>3. QED
  BY <1>1, <1>2

-----------------------------------------------------------------------------
(* The inductive invariant is inductive: one lemma per shape of step. *)

LEMMA InvInit == ASSUME Init PROVE IInv
<1>1. TypeOK /\ HasKey
  BY TypeInit, KeyInit
<1>2. \A k \in Keys : Chain(k) /\ RowEndsChain(k)
  BY DEF Init, Chain, RowEndsChain
<1>3. \A c \in Clients : PageInv(c) /\ page[c].ui = "blank" /\ page[c].request = NoRequest
  BY DEF Init, PageInv, IdlePage
<1>4. \A r \in Requests : AnswerInv(answer[r])
  BY DEF Init, AnswerInv, Working, IdleAnswer
<1>5. \A c \in Clients, r \in Requests : WaitInv(c, r)
  BY <1>3, ReviewAssumption DEF WaitInv
<1>6. QED
  BY <1>1, <1>2, <1>3, <1>4, <1>5 DEF IInv, SavedIsLogged, StaleWasReviewed

(* Steps that leave the tables alone, and do not turn back the clock. *)
LEMMA DataKept ==
    ASSUME IInv, UNCHANGED <<cards, log>>, clock' \in Nat, clock' >= clock, NEW k \in Keys
    PROVE  /\ Chain(k)' /\ RowEndsChain(k)'
           /\ \A t : (Token(k, t) <=> Token(k, t)') /\ (Follows(k, t) <=> Follows(k, t)')
           /\ \A t, g : Logged(k, t, g) <=> Logged(k, t, g)'
<1>1. TypeOK /\ Chain(k) /\ RowEndsChain(k) /\ clock \in Nat
  BY DEF IInv, TypeOK
<1>2. \A i \in 1 .. Len(log[k]) : log[k][i].at \in Nat
  BY <1>1, LogType
<1>3. Chain(k)'
  BY <1>1, <1>2 DEF Chain
<1>4. RowEndsChain(k)'
  BY <1>1 DEF RowEndsChain, Lapses
<1>5. QED
  BY <1>3, <1>4 DEF Token, Follows, Logged

(* The conjuncts of the invariant about page c. *)
PageParts(c) ==
    /\ PageInv(c)
    /\ \A r \in Requests : WaitInv(c, r)
    /\ page[c].ui = "saved" => Logged(page[c].key, page[c].expected, page[c].grade)
    /\ page[c].ui = "stale" => Follows(page[c].key, page[c].expected)

LEMMA Assemble ==
    IInv <=> /\ TypeOK /\ HasKey
             /\ \A k \in Keys : Chain(k) /\ RowEndsChain(k)
             /\ \A c \in Clients : PageParts(c)
             /\ \A r \in Requests : AnswerInv(answer[r])
BY DEF IInv, PageParts, SavedIsLogged, StaleWasReviewed, Logged, Follows

(* A page nobody touched, its handler included, stays sound. *)
LEMMA PageKept ==
    ASSUME IInv, UNCHANGED <<cards, log>>, clock' \in Nat, clock' >= clock,
           NEW c \in Clients, page'[c] = page[c],
           \A r \in Requests : page[c].request = r => answer'[r] = answer[r]
    PROVE  PageParts(c)'
<1>1. PageParts(c) /\ HasKey /\ TypeOK
  BY Assemble
<1>2. CASE page[c].ui = "blank"
  BY <1>1, <1>2, ReviewAssumption DEF PageParts, PageInv, WaitInv, HasKey
<1>3. CASE page[c].ui # "blank"
  <2>1. page[c].key \in Keys
    BY <1>1, <1>3 DEF HasKey
  <2>2. page[c].expected \in Nat /\ clock \in Nat
    BY <1>1 DEF TypeOK, Page
  <2>3. PageInv(c)'
    BY <1>1, <2>1, <2>2, DataKept DEF PageParts, PageInv
  <2>4. \A r \in Requests : WaitInv(c, r)'
    BY <1>1, <2>1, DataKept DEF PageParts, WaitInv
  <2>5. QED
    BY <1>1, <2>1, <2>3, <2>4, DataKept DEF PageParts
<1>4. QED
  BY <1>2, <1>3

LEMMA AnswerKept ==
    ASSUME IInv, UNCHANGED <<cards, log>>, clock' \in Nat, clock' >= clock,
           NEW r \in Requests, answer'[r] = answer[r]
    PROVE  AnswerInv(answer[r])'
<1>1. AnswerInv(answer[r]) /\ HasKey /\ TypeOK /\ clock \in Nat
  BY DEF IInv, TypeOK
<1>2. answer[r].moment \in Nat
  BY <1>1 DEF TypeOK, AnswerHandler
<1>3. Working(answer[r]) => answer[r].key \in Keys
  BY <1>1 DEF HasKey
<1>4. QED
  BY <1>1, <1>2, <1>3, DataKept DEF AnswerInv, Working

(* A page stops waiting and shows an outcome that is true. *)
LEMMA PageEnds ==
    ASSUME IInv, UNCHANGED <<cards, log>>, clock' = clock, NEW c \in Clients,
           NEW outcome \in {"failed", "saved", "stale"}, page[c].ui # "blank",
           page'[c] = [page[c] EXCEPT !.ui = outcome, !.request = NoRequest],
           outcome = "saved" => Logged(page[c].key, page[c].expected, page[c].grade),
           outcome = "stale" => Follows(page[c].key, page[c].expected)
    PROVE  PageParts(c)'
<1>1. PageParts(c) /\ HasKey /\ TypeOK /\ clock \in Nat
  BY Assemble DEF TypeOK
<1>2. page[c] \in Page /\ page[c].key \in Keys
  BY <1>1 DEF TypeOK, HasKey
<1>3. /\ page'[c].ui = outcome /\ page'[c].request = NoRequest
      /\ page'[c].key = page[c].key /\ page'[c].expected = page[c].expected
      /\ page'[c].grade = page[c].grade
  BY <1>2 DEF Page
<1>4. PageInv(c)'
  BY <1>1, <1>2, <1>3, DataKept DEF PageParts, PageInv
<1>5. \A r \in Requests : WaitInv(c, r)'
  BY <1>3, ReviewAssumption DEF WaitInv
<1>6. QED
  BY <1>1, <1>2, <1>3, <1>4, <1>5, DataKept DEF PageParts

(* The conjuncts that a lemma per shape has to re-establish. *)
Rest ==
    /\ \A k \in Keys : Chain(k) /\ RowEndsChain(k)
    /\ \A c \in Clients : PageParts(c)
    /\ \A r \in Requests : AnswerInv(answer[r])

LEMMA ElsewhereRest == ASSUME IInv, Elsewhere PROVE Rest'
<1>1. UNCHANGED <<cards, log>> /\ UNCHANGED <<page, answer>> /\ clock' \in Nat /\ clock' >= clock
  BY DEF Elsewhere, data
<1>2. \A k \in Keys : (Chain(k) /\ RowEndsChain(k))'
  BY <1>1, DataKept
<1>3. \A c \in Clients : PageParts(c)'
  BY <1>1, PageKept
<1>4. \A r \in Requests : AnswerInv(answer[r])'
  BY <1>1, AnswerKept
<1>5. QED
  BY <1>2, <1>3, <1>4 DEF Rest

LEMMA CrashRest == ASSUME IInv, CrashStep PROVE Rest'
<1>1. TypeOK /\ HasKey /\ clock' = clock /\ clock \in Nat /\ UNCHANGED <<cards, log>>
  <2>1. TypeOK /\ HasKey
    BY DEF IInv
  <2>2. clock' = clock /\ UNCHANGED <<cards, log>>
    BY DEF CrashStep, data
  <2>3. QED
    BY <2>1, <2>2 DEF TypeOK
<1>2. ASSUME NEW c \in Clients PROVE PageParts(c)'
  <2>1. CASE page[c].ui = "saving"
    <3>1. page'[c] = [page[c] EXCEPT !.ui = "failed", !.request = NoRequest]
      BY <2>1 DEF CrashStep
    <3>2. QED
      BY <1>1, <2>1, <3>1, PageEnds
  <2>2. CASE page[c].ui # "saving"
    <3>1. page'[c] = page[c] /\ page[c].request = NoRequest
      BY <1>1, <2>2 DEF CrashStep, HasKey
    <3>2. QED
      BY <1>1, <3>1, PageKept, ReviewAssumption
  <2>3. QED
    BY <2>1, <2>2
<1>3. ASSUME NEW r \in Requests PROVE AnswerInv(answer[r])'
  BY DEF CrashStep, AnswerInv, Working, IdleAnswer
<1>4. QED
  BY <1>1, <1>2, <1>3, DataKept DEF Rest

(* What GET /reviews/next shows is a card with a token it may have. *)
LEMMA ShowParts ==
    ASSUME IInv, UNCHANGED <<cards, log>>, clock' = clock,
           NEW c \in Clients, NEW k \in Keys, NEW t \in Nat, Show(c, k, t),
           t < clock, Token(k, t)
    PROVE  PageParts(c)'
<1>1. TypeOK /\ clock \in Nat
  BY DEF IInv, TypeOK
<1>2. /\ page'[c].ui = "shown" /\ page'[c].key = k /\ page'[c].expected = t
      /\ page'[c].request = NoRequest
  BY <1>1 DEF Show, IdlePage, TypeOK
<1>3. PageInv(c)'
  BY <1>1, <1>2, DataKept DEF PageInv
<1>4. \A r \in Requests : WaitInv(c, r)'
  BY <1>2, ReviewAssumption DEF WaitInv
<1>5. QED
  BY <1>2, <1>3, <1>4 DEF PageParts

LEMMA TurnRest == ASSUME IInv, NEW c \in Clients, Turn(c) PROVE Rest'
<1>1. TypeOK /\ HasKey /\ clock' = clock /\ clock \in Nat /\ clock >= 1
      /\ UNCHANGED <<cards, log, answer>> /\ DOMAIN page = Clients
  BY DEF IInv, Turn, TypeOK, data
<1>2. \A d \in Clients : d # c => page'[d] = page[d]
  BY <1>1 DEF Turn, Show
<1>3. PageParts(c)'
  <2>1. CASE page' = [page EXCEPT ![c] = IdlePage]
    <3>1. page'[c].ui = "blank" /\ page'[c].request = NoRequest
      BY <1>1, <2>1 DEF IdlePage
    <3>2. QED
      BY <3>1, ReviewAssumption DEF PageParts, PageInv, WaitInv
  <2>2. ASSUME NEW k \in Keys, Show(c, k, Never) PROVE PageParts(c)'
    BY <1>1, <2>2, ShowParts DEF Token, Never
  <2>3. ASSUME NEW k \in Keys, cards[k] # NoRow, Show(c, k, cards[k].last)
        PROVE  PageParts(c)'
    <3>1. Chain(k) /\ RowEndsChain(k)
      BY DEF IInv
    <3>2. log[k] # << >> /\ Len(log[k]) \in 1 .. Len(log[k])
      BY <1>1, <2>3, <3>1, RowIffLog, LogType
    <3>3. Token(k, cards[k].last) /\ cards[k].last < clock /\ cards[k].last \in Nat
      BY <1>1, <3>1, <3>2, LogType DEF RowEndsChain, Chain, Token
    <3>4. QED
      BY <1>1, <2>3, <3>3, ShowParts
  <2>4. CASE /\ page[c].ui = "saving"
             /\ page' = [page EXCEPT ![c] = [@ EXCEPT !.ui = "failed", !.request = NoRequest]]
    <3>1. page'[c] = [page[c] EXCEPT !.ui = "failed", !.request = NoRequest]
      BY <1>1, <2>4
    <3>2. QED
      BY <1>1, <2>4, <3>1, PageEnds
  <2>5. QED
    BY <2>1, <2>2, <2>3, <2>4 DEF Turn
<1>4. \A d \in Clients : PageParts(d)'
  BY <1>1, <1>2, <1>3, PageKept
<1>5. QED
  BY <1>1, <1>4, DataKept, AnswerKept DEF Rest

LEMMA SubmitRest ==
    ASSUME IInv, NEW c \in Clients, NEW r \in Requests, NEW g \in Grades, Submit(c, r, g)
    PROVE  Rest'
<1>1. TypeOK /\ HasKey /\ clock' = clock /\ clock \in Nat /\ UNCHANGED <<cards, log>>
      /\ DOMAIN page = Clients /\ DOMAIN answer = Requests /\ page[c] \in Page
      /\ page[c].ui \in {"shown", "failed"} /\ answer[r].pc = "idle"
  BY DEF IInv, Submit, TypeOK, data
<1>2. /\ page[c].key \in Keys /\ page[c].expected \in Nat
      /\ page[c].expected < clock /\ Token(page[c].key, page[c].expected)
  BY <1>1 DEF IInv, HasKey, PageInv, Page
<1>3. /\ answer'[r] = [IdleAnswer EXCEPT !.pc = "load", !.key = page[c].key,
              !.expected = page[c].expected, !.grade = g, !.moment = clock]
      /\ page'[c] = [page[c] EXCEPT !.ui = "saving", !.grade = g, !.request = r]
      /\ \A q \in Requests : q # r => answer'[q] = answer[q]
      /\ \A d \in Clients : d # c => page'[d] = page[d]
  BY <1>1 DEF Submit
<1>4. /\ answer'[r].pc = "load" /\ answer'[r].key = page[c].key
      /\ answer'[r].expected = page[c].expected /\ answer'[r].grade = g
      /\ answer'[r].moment = clock
  BY <1>3 DEF IdleAnswer
<1>5. /\ page'[c].ui = "saving" /\ page'[c].grade = g /\ page'[c].request = r
      /\ page'[c].key = page[c].key /\ page'[c].expected = page[c].expected
  BY <1>1, <1>3 DEF Page
<1>6. PageParts(c)'
  <2>1. PageInv(c)'
    BY <1>1, <1>2, <1>5, DataKept DEF PageInv
  <2>2. \A q \in Requests : WaitInv(c, q)'
    BY <1>4, <1>5 DEF WaitInv
  <2>3. QED
    BY <1>5, <2>1, <2>2 DEF PageParts
<1>7. ASSUME NEW d \in Clients, d # c PROVE PageParts(d)'
  <2>1. page[d].request # r
    BY <1>1 DEF IInv, WaitInv
  <2>2. QED
    BY <1>1, <1>3, <1>7, <2>1, PageKept
<1>8. AnswerInv(answer[r])'
  BY <1>1, <1>2, <1>4, DataKept DEF AnswerInv, Working
<1>9. \A q \in Requests : q # r => AnswerInv(answer[q])'
  BY <1>1, <1>3, AnswerKept
<1>10. QED
  BY <1>1, <1>6, <1>7, <1>8, <1>9, DataKept DEF Rest

(* A handler goes on: from what it reads next it computes the new state. *)
LEMMA AdvanceRest == ASSUME IInv, NEW r \in Requests, Advance(r) PROVE Rest'
<1> DEFINE a == answer[r]
           K == a.key
<1>1. TypeOK /\ HasKey /\ clock' = clock /\ clock \in Nat /\ UNCHANGED <<cards, log>>
      /\ UNCHANGED page /\ DOMAIN answer = Requests /\ a \in AnswerHandler /\ Working(a)
  <2>1. TypeOK /\ HasKey
    BY DEF IInv
  <2>2. clock' = clock /\ UNCHANGED <<cards, log, page>> /\ Working(a)
    BY DEF Advance, data, Working
  <2>3. QED
    BY <2>1, <2>2 DEF TypeOK
<1>2. K \in Keys /\ AnswerInv(a) /\ Chain(K) /\ RowEndsChain(K)
  BY <1>1 DEF IInv, HasKey
<1>3. \A q \in Requests : q # r => answer'[q] = answer[q]
  BY <1>1 DEF Advance
<1>4. Working(answer'[r]) /\ answer'[r].pc # "counts" /\ answer'[r].pc # "idle"
      /\ answer'[r].key = K /\ answer'[r].expected = a.expected
      /\ answer'[r].grade = a.grade /\ answer'[r].moment = a.moment
  BY <1>1, AdvanceKeeps DEF Working
<1>5. ASSUME NEW c \in Clients PROVE PageParts(c)'
  <2>1. CASE page[c].request # r
    BY <1>1, <1>3, <2>1, PageKept
  <2>2. CASE page[c].request = r
    <3>1. page[c].ui = "saving" /\ page[c].key \in Keys /\ PageParts(c)
      BY <1>1, <2>2, Assemble, ReviewAssumption DEF HasKey
    <3>2. PageInv(c)'
      BY <1>1, <3>1, DataKept DEF PageParts, PageInv
    <3>3. WaitInv(c, r)'
      BY <1>1, <1>4, <2>2, <3>1 DEF PageParts, WaitInv
    <3>4. \A q \in Requests : q # r => WaitInv(c, q)'
      BY <1>1, <2>2 DEF WaitInv
    <3>5. QED
      BY <1>1, <3>1, <3>2, <3>3, <3>4 DEF PageParts
  <2>3. QED
    BY <2>1, <2>2
<1>6. AnswerInv(answer[r])'
  <2>1. a.expected < a.moment /\ a.moment <= clock /\ Token(K, a.expected)
    BY <1>1, <1>2 DEF AnswerInv
  <2>2. CASE a.pc = "load"
    <3>1. answer'[r].pc = "read"
      BY <1>1, <2>2 DEF Advance, AnswerHandler
    <3>2. QED
      BY <1>1, <1>4, <2>1, <3>1 DEF AnswerInv, Token
  <2>3. CASE a.pc = "read"
    <3>1. PICK s \in After(cards[K].state, a.grade), d \in Intervals :
             /\ cards[K].last = a.expected
             /\ answer' = [answer EXCEPT ![r] = [answer[r] EXCEPT !.pc = "write",
                    !.before = cards[K].state, !.after = s, !.due = a.moment + d]]
      BY <2>3 DEF Advance
    <3>2. /\ answer'[r].pc = "write" /\ answer'[r].before = cards[K].state
          /\ answer'[r].after = s /\ s # "New"
      BY <1>1, <3>1, AfterType DEF AnswerHandler
    <3>3. cards[K].state = "New" <=> cards[K].last = Never
      BY <1>1, <1>2, RowIffLog DEF NoRow
    <3>4. QED
      BY <1>1, <1>4, <2>1, <3>1, <3>2, <3>3 DEF AnswerInv, Token
  <2>4. QED
    BY <2>2, <2>3 DEF Advance
<1>7. \A q \in Requests : q # r => AnswerInv(answer[q])'
  BY <1>1, <1>3, AnswerKept
<1>8. QED
  BY <1>1, <1>5, <1>6, <1>7, DataKept DEF Rest

(* A handler ends: what it tells its page is true. *)
LEMMA FinishRest == ASSUME IInv, NEW r \in Requests, Finish(r) PROVE Rest'
<1> DEFINE a == answer[r]
<1>1. TypeOK /\ HasKey /\ clock' = clock /\ clock \in Nat /\ UNCHANGED <<cards, log>>
  BY DEF IInv, Finish, TypeOK, data
<1>2. PICK o \in {"failed", "saved", "stale"} :
         /\ Reply(r, o)
         /\ o = "saved" => a.pc = "counts"
         /\ o = "stale" => \/ a.pc = "read" /\ cards[a.key].last # a.expected
                           \/ a.pc = "write" /\ ~Unchanged(a)
  BY DEF Finish
<1>3. ASSUME NEW c \in Clients PROVE PageParts(c)'
  <2>1. CASE page[c].request # r
    <3>1. page'[c] = page[c] /\ \A q \in Requests : q # r => answer'[q] = answer[q]
      BY <1>1, <1>2, <2>1 DEF Reply, TypeOK
    <3>2. QED
      BY <1>1, <2>1, <3>1, PageKept
  <2>2. CASE page[c].request = r
    <3>1. /\ page[c].ui = "saving" /\ page[c].key \in Keys /\ WaitInv(c, r)
          /\ page'[c] = [page[c] EXCEPT !.ui = o, !.request = NoRequest]
      BY <1>1, <1>2, <2>2, ReviewAssumption DEF IInv, HasKey, Reply
    <3>2. o = "saved" => Logged(page[c].key, page[c].expected, page[c].grade)
      BY <1>2, <2>2, <3>1 DEF WaitInv
    <3>3. ASSUME o = "stale" PROVE Follows(page[c].key, page[c].expected)
      <4>1. Working(a) /\ a.key = page[c].key /\ a.expected = page[c].expected
        BY <1>2, <2>2, <3>1, <3>3 DEF WaitInv, Working
      <4>2. cards[a.key].last # a.expected
        BY <1>2, <3>3, ConflictMeansMovedOn
      <4>3. AnswerInv(a) /\ Chain(a.key) /\ RowEndsChain(a.key)
        BY <3>1, <4>1 DEF IInv
      <4>4. Token(a.key, a.expected)
        BY <4>1, <4>3 DEF AnswerInv
      <4>5. QED
        BY <1>1, <3>1, <4>1, <4>2, <4>3, <4>4, OldTokenWasFollowed
    <3>4. QED
      BY <1>1, <3>1, <3>2, <3>3, PageEnds
  <2>3. QED
    BY <2>1, <2>2
<1>4. ASSUME NEW q \in Requests PROVE AnswerInv(answer[q])'
  <2>1. CASE q = r
    <3>1. ~Working(answer'[q]) /\ answer'[q].pc # "write"
      BY <1>1, <1>2, <2>1 DEF Reply, TypeOK, IdleAnswer, Working
    <3>2. QED
      BY <3>1 DEF AnswerInv, Working
  <2>2. CASE q # r
    <3>1. answer'[q] = answer[q]
      BY <1>1, <1>2, <2>2 DEF Reply, TypeOK
    <3>2. QED
      BY <1>1, <3>1, AnswerKept
  <2>3. QED
    BY <2>1, <2>2
<1>5. QED
  BY <1>1, <1>3, <1>4, DataKept DEF Rest

(* A committed review gives its card a time no token named before. *)
LEMMA CommitIsNew ==
    ASSUME IInv, NEW r \in Requests, Commit(r), NEW t, Token(answer[r].key, t)
    PROVE  cards'[answer[r].key].last # t
<1> DEFINE a == answer[r]
           K == a.key
<1>1. TypeOK /\ a \in AnswerHandler /\ a.pc = "write" /\ Unchanged(a) /\ AnswerInv(a)
  <2>1. TypeOK /\ AnswerInv(a)
    BY DEF IInv
  <2>2. a.pc = "write" /\ Unchanged(a)
    BY DEF Commit
  <2>3. QED
    BY <2>1, <2>2 DEF TypeOK
<1>2. K \in Keys /\ cards[K].last = a.expected /\ Chain(K)
  BY <1>1, NoConflictMeansSameRow DEF IInv
<1>3. a.expected < a.moment /\ a.expected \in Nat /\ a.moment \in Nat
  BY <1>1 DEF AnswerInv, Working, AnswerHandler
<1>4. cards'[K].last = a.moment
  <2>1. cards'[K] = Reviewed(a)
    BY CommitLog
  <2>2. QED
    BY <2>1 DEF Reviewed
<1>5. CASE t = Never
  BY <1>3, <1>4, <1>5 DEF Never
<1>6. ASSUME NEW i \in 1 .. Len(log[K]), log[K][i].at = t PROVE cards'[K].last # t
  <2>1. log[K][i].at \in Nat /\ log[K][i].at <= cards[K].last
    BY <1>1, <1>2, LogType DEF Chain
  <2>2. QED
    BY <1>2, <1>3, <1>4, <1>6, <2>1
<1>7. QED
  BY <1>5, <1>6 DEF Token

LEMMA CommitRest == ASSUME IInv, NEW r \in Requests, Commit(r) PROVE Rest'
<1> DEFINE a == answer[r]
           K == a.key
<1>1. TypeOK /\ HasKey
  BY DEF IInv
<1>2. clock' = clock /\ UNCHANGED page /\ a.pc = "write"
      /\ answer'[r] = [IdleAnswer EXCEPT !.pc = "counts"]
      /\ \A q \in Requests : q # r => answer'[q] = answer[q]
  BY <1>1 DEF Commit, TypeOK
<1>3. answer'[r].pc = "counts" /\ ~Working(answer'[r])
  BY <1>2 DEF IdleAnswer, Working
<1>4. ASSUME NEW c \in Clients PROVE PageParts(c)'
  <2>1. PageParts(c) /\ (page[c].ui # "blank" => page[c].key \in Keys)
        /\ (page[c].ui = "saving" <=> page[c].request # NoRequest)
    BY <1>1, Assemble DEF HasKey
  <2>2. PageInv(c)'
    BY <1>2, <2>1, CommitKeeps DEF PageParts, PageInv
  <2>3. ASSUME NEW q \in Requests, page[c].request = q PROVE WaitInv(c, q)'
    <3>1. page[c].key \in Keys /\ WaitInv(c, q)
      BY <2>1, <2>3, ReviewAssumption DEF PageParts
    <3>2. CASE q # r
      BY <1>2, <3>1, <3>2, CommitKeeps DEF WaitInv
    <3>3. CASE q = r
      <4>1. a.key = page[c].key /\ a.expected = page[c].expected /\ a.grade = page[c].grade
        BY <1>2, <2>3, <3>1, <3>3 DEF WaitInv, Working
      <4>2. LET n == Len(log[K])
            IN  n + 1 \in 1 .. Len(log'[K]) /\ log'[K][n + 1] = LogEntry(a)
        BY CommitLog
      <4>3. LogEntry(a).prev = a.expected /\ LogEntry(a).grade = a.grade
        BY DEF LogEntry
      <4>4. Logged(page[c].key, page[c].expected, page[c].grade)'
        BY <1>2, <4>1, <4>2, <4>3 DEF Logged
      <4>5. QED
        BY <1>2, <1>3, <3>3, <4>4 DEF WaitInv
    <3>4. QED
      BY <3>2, <3>3
  <2>4. \A q \in Requests : WaitInv(c, q)'
    <3>1. ASSUME NEW q \in Requests, page[c].request # q PROVE WaitInv(c, q)'
      BY <1>2, <3>1 DEF WaitInv
    <3>2. QED
      BY <2>3, <3>1
  <2>5. QED
    BY <1>2, <2>1, <2>2, <2>4, CommitKeeps DEF PageParts
<1>5. ASSUME NEW q \in Requests PROVE AnswerInv(answer[q])'
  <2>1. CASE q = r
    BY <1>3, <2>1 DEF AnswerInv, Working
  <2>2. CASE ~Working(answer[q]) /\ q # r
    BY <1>2, <2>2 DEF AnswerInv, Working
  <2>3. CASE Working(answer[q]) /\ q # r
    <3>1. answer'[q] = answer[q] /\ answer[q].key \in Keys /\ AnswerInv(answer[q])
      BY <1>1, <1>2, <2>3 DEF IInv, HasKey
    <3>2. Token(answer[q].key, answer[q].expected)
      BY <2>3, <3>1 DEF AnswerInv
    <3>3. Token(answer[q].key, answer[q].expected)'
      <4> DEFINE k == answer[q].key
                 t == answer[q].expected
      <4>1. \A i \in 1 .. Len(log[k]) : i \in 1 .. Len(log'[k]) /\ log'[k][i] = log[k][i]
        <5>1. CASE k = K
          <6>1. /\ Len(log[K]) \in Nat /\ Len(log'[K]) = Len(log[K]) + 1
                /\ \A i \in 1 .. Len(log[K]) : log'[K][i] = log[K][i]
            BY CommitLog
          <6>2. \A i \in 1 .. Len(log[K]) : i \in 1 .. Len(log'[K])
            BY <6>1
          <6>3. QED
            BY <5>1, <6>1, <6>2
        <5>2. CASE k # K
          BY <3>1, <5>2, CommitLog
        <5>3. QED
          BY <5>1, <5>2
      <4>2. QED
        BY <3>1, <3>2, <4>1 DEF Token
    <3>4. \/ cards'[answer[q].key] = cards[answer[q].key]
          \/ cards'[answer[q].key].last # answer[q].expected
      <4>1. CASE answer[q].key = K
        BY <3>2, <4>1, CommitIsNew
      <4>2. CASE answer[q].key # K
        BY <3>1, <4>2, CommitLog
      <4>3. QED
        BY <4>1, <4>2
    <3>5. QED
      BY <1>2, <3>1, <3>3, <3>4 DEF AnswerInv, Working
  <2>4. QED
    BY <2>1, <2>2, <2>3
<1>6. QED
  BY <1>4, <1>5, CommitChain, CommitRow DEF Rest

LEMMA InvStep == ASSUME IInv, [Next]_vars PROVE IInv'
<1>1. TypeOK /\ HasKey
  BY DEF IInv
<1>2. Rest'
  BY <1>1, StepShapes, ElsewhereRest, CrashRest, TurnRest, SubmitRest, AdvanceRest,
     FinishRest, CommitRest
<1>3. TypeOK' /\ HasKey'
  BY <1>1, TypeStep, KeyStep
<1>4. QED
  BY <1>2, <1>3 DEF Rest, IInv, PageParts, SavedIsLogged, StaleWasReviewed, Logged, Follows

-----------------------------------------------------------------------------
(* The inductive invariant holds, and with it what it implies. *)
LEMMA Inductive == Spec => []IInv
BY InvInit, InvStep, PTL DEF Spec

(* The card_state row is what the rows of its review_log add up to. *)
THEOREM RowsSummariseLogs == Spec => []RowSummarisesLog
<1>1. IInv => RowSummarisesLog
  BY DEF IInv, RowEndsChain, RowSummarisesLog
<1>2. QED
  BY <1>1, Inductive, PTL

(* Every review was scheduled from the state the one before it left. *)
THEOREM NoLostReview == Spec => []ScheduledFromThePrevious
<1>1. IInv => ScheduledFromThePrevious
  BY DEF IInv, Chain, ScheduledFromThePrevious
<1>2. QED
  BY <1>1, Inductive, PTL

(* A page that hears "saved" can rely on it. *)
THEOREM SavedIsTrue == Spec => []SavedIsLogged
<1>1. IInv => SavedIsLogged
  BY DEF IInv
<1>2. QED
  BY <1>1, Inductive, PTL

(* A 409 is true: the card did get a review from the state the page saw.   *)
THEOREM StaleIsTrue == Spec => []StaleWasReviewed
<1>1. IInv => StaleWasReviewed
  BY DEF IInv
<1>2. QED
  BY <1>1, Inductive, PTL

-----------------------------------------------------------------------------
(* Reviewing implements the ledger. *)

Told3 == [prev : Nat, at : Nat, grade : Grades]

LEMMA HistoryOf ==
    ASSUME TypeOK, NEW k \in Keys
    PROVE  /\ History[k] \in Seq(Told3) /\ Len(History[k]) = Len(log[k])
           /\ \A i \in 1 .. Len(log[k]) : History[k][i] = Told(log[k][i])
           /\ History[k] = << >> <=> log[k] = << >>
<1>1. Len(log[k]) \in Nat /\ \A i \in 1 .. Len(log[k]) : log[k][i] \in Entry
  BY LogType
<1>2. \A i \in 1 .. Len(log[k]) : Told(log[k][i]) \in Told3
  BY <1>1 DEF Told, Told3, Entry
<1>3. History[k] = [i \in 1 .. Len(log[k]) |-> Told(log[k][i])]
  BY DEF History
<1>4. History[k] \in Seq(Told3) /\ Len(History[k]) = Len(log[k])
  BY <1>1, <1>2, <1>3
<1>5. History[k] = << >> <=> log[k] = << >>
  BY <1>4, LogType
<1>6. QED
  BY <1>3, <1>4, <1>5

(* The review a card's history continues from is the card's last_review. *)
LEMMA HistoryEnds ==
    ASSUME IInv, NEW k \in Keys
    PROVE  Ledger!LastReview(History[k]) = cards[k].last
<1>1. TypeOK /\ RowEndsChain(k)
  BY DEF IInv
<1>2. CASE log[k] = << >>
  BY <1>1, <1>2, HistoryOf DEF Ledger!LastReview, Ledger!Never, RowEndsChain, NoRow, Never
<1>3. CASE log[k] # << >>
  <2>1. Len(log[k]) \in 1 .. Len(log[k])
    BY <1>1, <1>3, LogType
  <2>2. History[k][Len(History[k])].at = log[k][Len(log[k])].at
    <3>1. /\ Len(History[k]) = Len(log[k])
          /\ History[k][Len(log[k])] = Told(log[k][Len(log[k])])
      BY <1>1, <2>1, HistoryOf
    <3>2. Told(log[k][Len(log[k])]).at = log[k][Len(log[k])].at
      BY DEF Told
    <3>3. QED
      BY <3>1, <3>2
  <2>3. History[k] # << >> /\ cards[k].last = log[k][Len(log[k])].at
    BY <1>1, <1>3, HistoryOf DEF RowEndsChain
  <2>4. QED
    BY <2>2, <2>3 DEF Ledger!LastReview
<1>4. QED
  BY <1>2, <1>3

LEMMA CommitReviews ==
    ASSUME IInv, NEW r \in Requests, Commit(r), TypeOK'
    PROVE  Ledger!Next
<1> DEFINE a == answer[r]
           K == a.key
           told == [prev |-> Ledger!LastReview(History[K]), at |-> a.moment, grade |-> a.grade]
<1>1. TypeOK /\ AnswerInv(a) /\ Working(a) /\ K \in Keys /\ cards[K].last = a.expected
  <2>1. TypeOK /\ AnswerInv(a)
    BY DEF IInv
  <2>2. a.pc = "write" /\ Unchanged(a)
    BY DEF Commit
  <2>3. QED
    BY <2>1, <2>2, NoConflictMeansSameRow DEF Working
<1>2. /\ a.expected < a.moment /\ a.moment \in 1 .. MaxClock /\ a.grade \in Grades
  <2>1. a.expected \in Nat /\ a.moment \in Nat /\ a.grade \in Grades /\ clock \in 1 .. MaxClock
    BY <1>1 DEF TypeOK, AnswerHandler
  <2>2. QED
    BY <1>1, <2>1, ReviewAssumption DEF AnswerInv
<1>3. Ledger!LastReview(History[K]) = a.expected
  BY <1>1, HistoryEnds
<1>4. History'[K] = Append(History[K], told)
  <2>1. History[K] \in Seq(Told3) /\ Len(History[K]) = Len(log[K]) /\ told \in Told3
    BY <1>1, <1>2, <1>3, HistoryOf DEF Told3, TypeOK, AnswerHandler
  <2>2. /\ Len(log[K]) \in Nat /\ Len(log'[K]) = Len(log[K]) + 1
        /\ \A i \in 1 .. Len(log[K]) : log'[K][i] = log[K][i]
        /\ log'[K][Len(log[K]) + 1] = LogEntry(a)
    BY CommitLog
  <2>3. Told(LogEntry(a)) = told
    BY <1>3 DEF Told, LogEntry
  <2>4. \A i \in 1 .. Len(log[K]) + 1 : Told(log'[K][i]) = Append(History[K], told)[i]
    <3> SUFFICES ASSUME NEW i \in 1 .. Len(log[K]) + 1
                 PROVE  Told(log'[K][i]) = Append(History[K], told)[i]
      OBVIOUS
    <3>1. CASE i \in 1 .. Len(log[K])
      BY <1>1, <2>1, <2>2, <3>1, HistoryOf
    <3>2. CASE i = Len(log[K]) + 1
      BY <2>1, <2>2, <2>3, <3>2
    <3>3. i \in 1 .. Len(log[K]) \/ i = Len(log[K]) + 1
      BY <2>2
    <3>4. QED
      BY <3>1, <3>2, <3>3
  <2>5. Append(History[K], told) \in Seq(Told3)
        /\ Len(Append(History[K], told)) = Len(log[K]) + 1
    BY <2>1
  <2>6. History'[K] = [i \in 1 .. Len(log[K]) + 1 |-> Told(log'[K][i])]
    BY <1>1, <2>2 DEF History
  <2> DEFINE longer == Append(History[K], told)
  <2>7. longer = [i \in 1 .. Len(log[K]) + 1 |-> longer[i]]
    <3>1. longer \in Seq(Told3) /\ Len(longer) = Len(log[K]) + 1
      BY <2>5
    <3> HIDE DEF longer
    <3>2. QED
      BY <3>1
  <2>8. \A i \in 1 .. Len(log[K]) + 1 : Told(log'[K][i]) = longer[i]
    BY <2>4
  <2> HIDE DEF longer
  <2>9. History'[K] = longer
    BY <2>6, <2>7, <2>8
  <2>10. QED
    BY <2>9 DEF longer
<1>5. \A k \in Keys : k # K => History'[k] = History[k]
  BY CommitLog DEF History
<1>6. History' = [History EXCEPT ![K] = Append(@, told)]
  <2>1. History = [k \in Keys |-> History[k]] /\ History' = [k \in Keys |-> History'[k]]
    BY DEF History
  <2>2. QED
    BY <1>1, <1>4, <1>5, <2>1
<1>7. Ledger!Review(K, a.moment, a.grade)
  BY <1>2, <1>3, <1>6 DEF Ledger!Review
<1>8. QED
  BY <1>1, <1>2, <1>7 DEF Ledger!Next

(* Whatever the handlers, the pages and the crashes do, a card's reviews  *)
(* form one history that only grows, each continuing from the one before. *)
THEOREM LedgerImplemented == Spec => ImplementsLedger
<1>1. Init => Ledger!Init
  <2> SUFFICES ASSUME Init PROVE Ledger!Init
    OBVIOUS
  <2>1. \A k \in Keys : History[k] = << >>
    BY TypeInit, HistoryOf DEF Init
  <2>2. History = [k \in Keys |-> History[k]]
    BY DEF History
  <2>3. QED
    BY <2>1, <2>2 DEF Ledger!Init
<1>2. IInv /\ IInv' /\ [Next]_vars => [Ledger!Next]_History
  <2> SUFFICES ASSUME IInv, IInv', [Next]_vars PROVE Ledger!Next \/ UNCHANGED History
    OBVIOUS
  <2>1. TypeOK /\ TypeOK'
    BY DEF IInv
  <2>2. (\E r \in Requests : Commit(r)) \/ UNCHANGED log
    BY <2>1, StepShapes DEF Elsewhere, CrashStep, Turn, Submit, Advance, Finish, data
  <2>3. QED
    BY <2>1, <2>2, CommitReviews DEF History
<1>3. QED
  BY <1>1, <1>2, Inductive, PTL DEF Spec, Ledger!Spec, ImplementsLedger
=============================================================================
