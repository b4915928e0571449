--------------------------- MODULE StudyDayProofs ---------------------------
(***************************************************************************)
(* Proofs about the study day.  No study day introduces more new cards     *)
(* than its limit, for any cards, pages, requests, days and limit, as long *)
(* as no fetch reads the cards on one day and their number on the next.    *)
(* And study days follow one another without a gap or an overlap, in every *)
(* zone, whatever the hours of its change and of the rollover.             *)
(***************************************************************************)
EXTENDS StudyDay, ReviewSessionProofs

-----------------------------------------------------------------------------
(* The inductive invariant. *)

(* The cards a plan may still introduce, those the policy offers before k, *)
(* and the cards of content.db a day has introduced.                       *)
Open(k) == k \in content /\ cards[k] = NoRow
Ahead(k) == {j \in Keys : Open(j) /\ Position[j] < Position[k]}
NewOn(t) == IntroducedOn(Day(t)) \cap content

(* Card k has a place in the allowance of t's day even if every open card  *)
(* before it is introduced on that day, too.                               *)
Fits(k, t) == Cardinality(Ahead(k)) + Cardinality(NewOn(t)) < Limit

Later == clock .. MaxClock
OfferFits(k) == Open(k) => \A t \in Later : Fits(k, t)

(* A new card that was offered has that place on every day to come, and so *)
(* has one that is being answered on the day of its answer.                *)
OffersFit == \A c \in Clients : next[c].pc = "serve" => \A k \in next[c].offer : OfferFits(k)
PagesFit ==
    \A c \in Clients :
        page[c].ui # "blank" /\ page[c].expected = Never => OfferFits(page[c].key)
AnswerFits(a) == Working(a) /\ a.expected = Never /\ Open(a.key) => Fits(a.key, a.moment)
AnswersFit == \A r \in Requests : AnswerFits(answer[r])

(* A day that introduced a card had room for each open card before it.     *)
SkippedFit ==
    \A t \in Nat, k \in Keys :
        Open(k) /\ (\E j \in NewOn(t) : Position[k] < Position[j]) => Fits(k, t)

WithinLimit == \A t \in Nat : Cardinality(NewOn(t)) <= Limit

(* A fetch has its first read on the day it began, and knows no card that a *)
(* later day has introduced.                                               *)
ReadOfTheDay(h) ==
    /\ h.pc = "states" => Day(h.moment) = Day(clock)
    /\ h.pc = "introduced" =>
          /\ \A k \in h.known : cards[k] # NoRow
          /\ \A t \in Later : Day(t) # Day(h.moment) => h.known \cap IntroducedOn(Day(t)) = {}
ReadsOfTheDay == \A c \in Clients : ReadOfTheDay(next[c])

LimitInv ==
    /\ OffersFit /\ PagesFit /\ AnswersFit
    /\ SkippedFit /\ WithinLimit /\ ReadsOfTheDay

-----------------------------------------------------------------------------
(* Facts about days, and about sets of cards. *)

LEMMA DayType == ASSUME NEW t \in Nat PROVE Day(t) \in Nat
BY ReviewAssumption DEF Day

LEMMA Quotients ==
    ASSUME NEW d \in Nat \ {0}, NEW p \in Nat, NEW q \in Nat, p <= q
    PROVE  p \div d <= q \div d
<1>1. /\ p = d * (p \div d) + (p % d) /\ p % d \in 0 .. d - 1 /\ p \div d \in Nat
      /\ q = d * (q \div d) + (q % d) /\ q % d \in 0 .. d - 1 /\ q \div d \in Nat
  OBVIOUS
<1>2. \A x, y, r, s \in Nat : r < d /\ s < d /\ d * x + r <= d * y + s => x <= y
  <2>1. ASSUME NEW x \in Nat, NEW y \in Nat, NEW r \in Nat, NEW s \in Nat, r < d, s < d,
               d * x + r <= d * y + s, x > y
        PROVE  FALSE
    <3>1. PICK z \in Nat : x = y + 1 + z
      <4>1. x - y - 1 \in Nat /\ x = y + 1 + (x - y - 1)
        BY <2>1
      <4>2. QED
        BY <4>1
    <3>2. d * x = d * y + d + d * z /\ d * z \in Nat /\ d * y \in Nat
      BY <3>1
    <3>3. QED
      BY <2>1, <3>2
  <2>2. QED
    BY <2>1
<1>3. QED
  BY <1>1, <1>2

LEMMA DaysInOrder ==
    ASSUME NEW p \in Nat, NEW q \in Nat, p <= q
    PROVE  Day(p) <= Day(q)
BY Quotients, ReviewAssumption DEF Day

LEMMA KeySets ==
    ASSUME NEW S, S \subseteq Keys
    PROVE  /\ IsFiniteSet(S) /\ Cardinality(S) \in Nat
           /\ \A T : T \subseteq S => Cardinality(T) <= Cardinality(S)
           /\ \A m \in S : Cardinality(S \ {m}) = Cardinality(S) - 1
           /\ \A m \in Keys : Cardinality(S \cup {m}) <= Cardinality(S) + 1
<1>1. IsFiniteSet(S) /\ Cardinality(S) \in Nat
  BY FS_Subset, FS_CardinalityType, FiniteAssumption
<1>2. \A T : T \subseteq S => Cardinality(T) <= Cardinality(S)
  BY <1>1, FS_Subset
<1>3. \A m \in S : Cardinality(S \ {m}) = Cardinality(S) - 1
  BY <1>1, FS_RemoveElement
<1>4. \A m \in Keys : Cardinality(S \cup {m}) <= Cardinality(S) + 1
  BY <1>1, FS_AddElement
<1>5. QED
  BY <1>1, <1>2, <1>3, <1>4

(* Two disjoint sets within a third. *)
LEMMA SetsWithin ==
    ASSUME NEW S, NEW T, NEW U, U \subseteq Keys, S \subseteq U, T \subseteq U, S \cap T = {}
    PROVE  Cardinality(S) + Cardinality(T) <= Cardinality(U)
<1>1. IsFiniteSet(S) /\ IsFiniteSet(T) /\ S \cup T \subseteq U
  BY KeySets
<1>2. Cardinality(S) \in Nat /\ Cardinality(T) \in Nat /\ Cardinality(S \cap T) = 0
  BY KeySets, FS_EmptySet
<1>3. Cardinality(S \cup T) = Cardinality(S) + Cardinality(T) - Cardinality(S \cap T)
  BY <1>1, FS_Union
<1>4. Cardinality(S \cup T) <= Cardinality(U)
  BY <1>1, KeySets
<1>5. QED
  BY <1>2, <1>3, <1>4

-----------------------------------------------------------------------------
(* What a committed review does to the cards a day has introduced and to   *)
(* those that are open.                                                    *)

LEMMA CommitIntroduces ==
    ASSUME IInv, NEW r \in Requests, Commit(r), NEW t
    PROVE  LET a == answer[r]
           IN  IntroducedOn(Day(t))' =
                   IF a.before = "New" /\ Day(a.moment) = Day(t)
                   THEN IntroducedOn(Day(t)) \cup {a.key} ELSE IntroducedOn(Day(t))
<1> DEFINE a == answer[r]
           m == a.key
           n == Len(log[m])
           New(row) == row.before = "New" /\ Day(row.at) = Day(t)
<1>1. /\ m \in Keys /\ n \in Nat /\ Len(log'[m]) = n + 1
      /\ \A i \in 1 .. n : log'[m][i] = log[m][i]
      /\ log'[m][n + 1] = LogEntry(a)
      /\ \A k \in Keys : k # m => log'[k] = log[k]
  BY CommitLog
<1>2. /\ IntroducedOn(Day(t)) = {k \in Keys : \E i \in 1 .. Len(log[k]) : New(log[k][i])}
      /\ IntroducedOn(Day(t))' = {k \in Keys : \E i \in 1 .. Len(log'[k]) : New(log'[k][i])}
  BY DEF IntroducedOn, Day
<1>3. New(LogEntry(a)) <=> a.before = "New" /\ Day(a.moment) = Day(t)
  BY DEF LogEntry
<1>4. (\E i \in 1 .. Len(log'[m]) : New(log'[m][i]))
          <=> (\E i \in 1 .. n : New(log[m][i])) \/ New(LogEntry(a))
  <2>1. 1 .. n + 1 = (1 .. n) \cup {n + 1}
    BY <1>1
  <2> HIDE DEF New, n, m, a
  <2>2. QED
    BY <1>1, <2>1
<1> DEFINE Old == IntroducedOn(Day(t))
           Now == IntroducedOn(Day(t))'
<1>5. /\ \A k \in Keys : k # m => (k \in Now <=> k \in Old)
      /\ m \in Now <=> m \in Old \/ New(LogEntry(a))
      /\ Now \subseteq Keys /\ Old \subseteq Keys
  <2> HIDE DEF New
  <2>1. QED
    BY <1>1, <1>2, <1>4
<1>6. Now = IF New(LogEntry(a)) THEN Old \cup {m} ELSE Old
  <2> HIDE DEF New, Now, Old, m
  <2>1. \A k \in Keys : k \in Now <=> k \in Old \/ (k = m /\ New(LogEntry(a)))
    BY <1>5
  <2>2. m \in Keys
    BY <1>1
  <2>3. CASE New(LogEntry(a))
    <3>1. Now = Old \cup {m}
      BY <1>5, <2>1, <2>2, <2>3
    <3>2. QED
      BY <2>3, <3>1
  <2>4. CASE ~New(LogEntry(a))
    <3>1. \A x : x \in Now <=> x \in Old
      BY <1>5, <2>1, <2>4
    <3>2. Now = Old
      BY <3>1
    <3>3. QED
      BY <2>4, <3>2
  <2>5. QED
    BY <2>3, <2>4
<1>7. QED
  BY <1>3, <1>6

LEMMA CommitOpens ==
    ASSUME IInv, NEW r \in Requests, Commit(r)
    PROVE  LET a == answer[r]
           IN  /\ a.key \in Keys /\ a.moment \in Nat /\ a.moment < clock
               /\ cards'[a.key] # NoRow
               /\ \A k \in Keys : k # a.key => cards'[k] = cards[k]
               /\ a.before = "New" <=> cards[a.key] = NoRow
               /\ a.before = "New" => a.expected = Never
<1> DEFINE a == answer[r]
<1>1. a.key \in Keys /\ a.moment < clock /\ a.pc = "write" /\ Unchanged(a)
  BY NoConflictMeansSameRow DEF Commit
<1>2. TypeOK /\ AnswerInv(a)
  BY DEF IInv
<1>3. a.before = "New" <=> cards[a.key] = NoRow
  BY <1>1 DEF Unchanged
<1>4. a.before = "New" => a.expected = Never
  BY <1>1, <1>2 DEF AnswerInv
<1>5. cards[a.key].reps \in Nat /\ a.moment \in Nat
  BY <1>1, <1>2 DEF TypeOK, Row, AnswerHandler
<1>6. Reviewed(a).reps = cards[a.key].reps + 1
  BY DEF Reviewed
<1>7. Reviewed(a) # NoRow
  BY <1>5, <1>6 DEF NoRow
<1>8. cards'[a.key] = Reviewed(a) /\ \A k \in Keys : k # a.key => cards'[k] = cards[k]
  BY CommitLog
<1>9. QED
  BY <1>1, <1>3, <1>4, <1>5, <1>7, <1>8

(* The card that is introduced had a place of its own: the open cards      *)
(* before it keep theirs on that day, and those after it lose one that     *)
(* was counted for it.                                                     *)
LEMMA CommitFits ==
    ASSUME IInv, NEW r \in Requests, Commit(r), UNCHANGED content, AnswersFit,
           NEW k \in Keys, NEW t \in Nat, Open(k)',
           \/ Fits(k, t)
           \/ /\ answer[r].before = "New" /\ answer[r].key \in content
              /\ Day(answer[r].moment) = Day(t) /\ Position[k] < Position[answer[r].key]
    PROVE  Open(k) /\ Fits(k, t)'
<1> DEFINE a == answer[r]
           m == a.key
           A == Ahead(k)
           N == NewOn(t)
<1>1. /\ m \in Keys /\ a.moment \in Nat
      /\ cards'[m] # NoRow
      /\ \A j \in Keys : j # m => cards'[j] = cards[j]
      /\ a.before = "New" <=> cards[m] = NoRow
      /\ a.before = "New" => a.expected = Never
  BY CommitOpens
<1>2. k # m /\ Open(k)
  BY <1>1 DEF Open
<1>3. /\ NewOn(t)' = IF a.before = "New" /\ Day(a.moment) = Day(t) /\ m \in content
                     THEN N \cup {m} ELSE N
  BY CommitIntroduces DEF NewOn
<1>4. Ahead(k)' = IF Open(m) /\ Position[m] < Position[k] THEN A \ {m} ELSE A
  BY <1>1 DEF Ahead, Open
<1>5. /\ A \subseteq Keys /\ N \subseteq Keys /\ Limit \in Nat
      /\ Position[k] \in Nat /\ Position[m] \in Nat /\ Position[k] # Position[m]
  BY <1>1, <1>2, ReviewAssumption DEF Ahead, NewOn, IntroducedOn
<1>6. /\ Cardinality(A) \in Nat /\ Cardinality(N) \in Nat
      /\ Cardinality(N \cup {m}) \in Nat /\ Cardinality(N \cup {m}) <= Cardinality(N) + 1
      /\ Cardinality(A \ {m}) <= Cardinality(A)
      /\ m \in A => Cardinality(A \ {m}) = Cardinality(A) - 1
  BY <1>1, <1>5, KeySets
<1> DEFINE Counted == a.before = "New" /\ Day(a.moment) = Day(t) /\ m \in content
<1>7. CASE ~Counted
  <2>1. Fits(k, t)
    BY <1>7
  <2>2. NewOn(t)' = N
    BY <1>3, <1>7
  <2>3. Ahead(k)' \subseteq A
    BY <1>4
  <2>4. Cardinality(Ahead(k)') <= Cardinality(A) /\ Cardinality(Ahead(k)') \in Nat
    BY <2>3, <1>5, KeySets
  <2>5. QED
    BY <1>2, <1>5, <1>6, <2>1, <2>2, <2>4 DEF Fits
<1>8. CASE Counted /\ Position[m] < Position[k]
  <2>1. Open(m) /\ m \in A
    BY <1>1, <1>8 DEF Open, Ahead
  <2>2. Fits(k, t)
    BY <1>5, <1>8
  <2>3. NewOn(t)' = N \cup {m} /\ Ahead(k)' = A \ {m}
    BY <1>3, <1>4, <1>8, <2>1
  <2>4. Cardinality(Ahead(k)') = Cardinality(A) - 1
    BY <1>6, <2>1, <2>3
  <2>5. QED
    BY <1>2, <1>5, <1>6, <2>2, <2>3, <2>4 DEF Fits
<1>9. CASE Counted /\ Position[k] < Position[m]
  <2>1. Open(m) /\ Working(a)
    BY <1>1, <1>9 DEF Open, Commit, Working
  <2>2. Fits(m, a.moment)
    BY <1>1, <1>9, <2>1 DEF AnswersFit, AnswerFits
  <2>3. NewOn(a.moment) = N
    BY <1>9 DEF NewOn
  <2>4. A \cup {k} \subseteq Ahead(m) /\ k \notin A
    <3>1. \A j \in Keys : Position[j] \in Nat
      BY ReviewAssumption
    <3>2. QED
      BY <1>2, <1>5, <1>9, <3>1 DEF Ahead
  <2>5. Cardinality(A) + 1 <= Cardinality(Ahead(m)) /\ Cardinality(Ahead(m)) \in Nat
    <3>1. Ahead(m) \subseteq Keys
      BY DEF Ahead
    <3>2. Cardinality(A) + Cardinality({k}) <= Cardinality(Ahead(m))
      BY <2>4, <3>1, SetsWithin
    <3>3. Cardinality({k}) = 1
      BY FS_Singleton
    <3>4. QED
      BY <3>1, <3>2, <3>3, KeySets
  <2>6. NewOn(t)' = N \cup {m} /\ Ahead(k)' = A
    BY <1>3, <1>4, <1>5, <1>9
  <2>7. Cardinality(Ahead(m)) + Cardinality(N) < Limit
    BY <2>2, <2>3 DEF Fits
  <2>8. QED
    BY <1>2, <1>5, <1>6, <2>5, <2>6, <2>7 DEF Fits
<1>10. QED
  BY <1>5, <1>7, <1>8, <1>9

-----------------------------------------------------------------------------
(* A place in the allowance is kept by every step. *)

LEMMA ShrinkFits ==
    ASSUME NEW k \in Keys, NEW t \in Nat, content' \subseteq content, UNCHANGED data
    PROVE  /\ NewOn(t)' \subseteq NewOn(t)
           /\ Open(k)' => Open(k)
           /\ Fits(k, t) => Fits(k, t)'
<1>1. NewOn(t)' \subseteq NewOn(t)
  BY DEF NewOn, IntroducedOn, Day, data
<1>2. Ahead(k)' \subseteq Ahead(k) /\ (Open(k)' => Open(k))
  BY DEF Ahead, Open, data
<1>3. Ahead(k) \subseteq Keys /\ NewOn(t) \subseteq Keys
  BY DEF Ahead, NewOn, IntroducedOn
<1>4. /\ Cardinality(Ahead(k)') <= Cardinality(Ahead(k)) /\ Cardinality(Ahead(k)) \in Nat
      /\ Cardinality(NewOn(t)') <= Cardinality(NewOn(t)) /\ Cardinality(NewOn(t)) \in Nat
      /\ Cardinality(Ahead(k)') \in Nat /\ Cardinality(NewOn(t)') \in Nat /\ Limit \in Nat
  <2>1. Ahead(k)' \subseteq Keys /\ NewOn(t)' \subseteq Keys
    BY <1>1, <1>2, <1>3
  <2>2. QED
    BY <1>1, <1>2, <1>3, <2>1, KeySets, ReviewAssumption
<1>5. Fits(k, t) => Fits(k, t)'
  BY <1>4 DEF Fits
<1>6. QED
  BY <1>1, <1>2, <1>5

LEMMA StepKinds ==
    ASSUME TypeOK, [Next]_vars
    PROVE  /\ clock' \in Nat /\ clock' >= clock
           /\ \/ content' \subseteq content /\ UNCHANGED data
              \/ \E r \in Requests : Commit(r) /\ UNCHANGED <<content, next>>
<1>0. clock \in Nat
  BY DEF TypeOK
<1>1. CASE UNCHANGED vars
  BY <1>0, <1>1 DEF vars, data
<1>2. CASE Tick \/ Crash
  <2>1. CASE Tick
    BY <1>0, <2>1 DEF Tick
  <2>2. CASE Crash
    <3>1. UNCHANGED <<clock, content, data>>
      BY <2>2 DEF Crash
    <3>2. QED
      BY <1>0, <3>1
  <2>3. QED
    BY <1>2, <2>1, <2>2
<1>3. CASE \E k \in Droppable : DropItem(k)
  BY <1>0, <1>3 DEF DropItem
<1>4. ASSUME NEW c \in Clients, NextStart(c) \/ NextStep(c) \/ Reload(c) \/ LoseConnection(c)
      PROVE  UNCHANGED <<clock, content, data>>
  BY <1>4 DEF NextStart, NextStep, ReadStates, ReadIntroduced, Serve, Reload, LoseConnection
<1>5. ASSUME NEW c \in Clients, NEW r \in Requests, NEW g \in Grades, Submit(c, r, g)
      PROVE  UNCHANGED <<clock, content, data>>
  BY <1>5 DEF Submit
<1>6. ASSUME NEW r \in Requests, AnswerStep(r)
      PROVE  /\ UNCHANGED <<clock, content, next>>
             /\ UNCHANGED data \/ Commit(r)
  <2>1. CASE LoadItem(r) \/ ReadCard(r) \/ RecordFails(r) \/ Recount(r)
    BY <2>1 DEF LoadItem, ReadCard, RecordFails, Recount
  <2>2. CASE Record(r)
    BY <2>2 DEF Record, Commit
  <2>3. QED
    BY <1>6, <2>1, <2>2 DEF AnswerStep
<1>7. QED
  BY <1>0, <1>1, <1>2, <1>3, <1>4, <1>5, <1>6 DEF Next

LEMMA FitsKept ==
    ASSUME IInv, AnswersFit, [Next]_vars, NEW k \in Keys, Open(k)'
    PROVE  Open(k) /\ \A t \in Nat : Fits(k, t) => Fits(k, t)'
<1>1. TypeOK
  BY DEF IInv
<1>2. CASE content' \subseteq content /\ UNCHANGED data
  BY <1>2, ShrinkFits
<1>3. ASSUME NEW r \in Requests, Commit(r), UNCHANGED content
      PROVE  Open(k) /\ \A t \in Nat : Fits(k, t) => Fits(k, t)'
  <2>1. Open(k)
    BY <1>3, CommitOpens DEF Open
  <2>2. QED
    BY <1>3, <2>1, CommitFits
<1>4. QED
  BY <1>1, <1>2, <1>3, StepKinds

LEMMA OfferKept ==
    ASSUME IInv, AnswersFit, [Next]_vars, NEW k \in Keys, OfferFits(k)
    PROVE  OfferFits(k)'
<1>1. clock \in Nat /\ clock' \in Nat /\ clock' >= clock /\ MaxClock \in Nat
  BY StepKinds, ReviewAssumption DEF IInv, TypeOK
<1>2. Later' \subseteq Later /\ Later \subseteq Nat
  BY <1>1 DEF Later
<1>3. SUFFICES ASSUME Open(k)', NEW t \in Later' PROVE Fits(k, t)'
  BY DEF OfferFits
<1>4. QED
  BY <1>2, <1>3, FitsKept DEF OfferFits

LEMMA SkippedStep ==
    ASSUME IInv, AnswersFit, SkippedFit, [Next]_vars
    PROVE  SkippedFit'
<1>1. SUFFICES ASSUME NEW t \in Nat, NEW k \in Keys, Open(k)',
                      NEW j \in NewOn(t)', Position[k] < Position[j]
               PROVE  Fits(k, t)'
  BY DEF SkippedFit
<1>2. TypeOK
  BY DEF IInv
<1>3. CASE j \in NewOn(t)
  <2>1. Open(k)
    BY <1>1, FitsKept
  <2>2. Fits(k, t)
    BY <1>1, <1>3, <2>1 DEF SkippedFit
  <2>3. QED
    BY <1>1, <2>2, FitsKept
<1>4. CASE j \notin NewOn(t)
  <2>1. PICK r \in Requests : Commit(r) /\ UNCHANGED content
    BY <1>1, <1>2, <1>4, StepKinds, ShrinkFits
  <2>2. /\ answer[r].before = "New" /\ Day(answer[r].moment) = Day(t)
        /\ j = answer[r].key /\ j \in content
    BY <1>1, <1>4, <2>1, CommitIntroduces DEF NewOn
  <2>3. QED
    BY <1>1, <2>1, <2>2, CommitFits
<1>5. QED
  BY <1>3, <1>4

LEMMA WithinStep ==
    ASSUME IInv, AnswersFit, WithinLimit, [Next]_vars
    PROVE  WithinLimit'
<1>1. SUFFICES ASSUME NEW t \in Nat PROVE Cardinality(NewOn(t)') <= Limit
  BY DEF WithinLimit
<1>2. /\ NewOn(t) \subseteq Keys /\ Cardinality(NewOn(t)) \in Nat /\ Limit \in Nat
      /\ Cardinality(NewOn(t)) <= Limit
  <2>1. NewOn(t) \subseteq Keys
    BY DEF NewOn, IntroducedOn
  <2>2. QED
    BY <2>1, KeySets, ReviewAssumption DEF WithinLimit
<1>3. CASE NewOn(t)' \subseteq NewOn(t)
  <2>1. Cardinality(NewOn(t)') <= Cardinality(NewOn(t)) /\ Cardinality(NewOn(t)') \in Nat
    <3>1. NewOn(t)' \subseteq Keys
      BY <1>2, <1>3
    <3>2. QED
      BY <1>2, <1>3, <3>1, KeySets
  <2>2. QED
    BY <1>2, <2>1
<1>4. CASE ~(NewOn(t)' \subseteq NewOn(t))
  <2>1. TypeOK /\ ~(content' \subseteq content /\ UNCHANGED data)
    <3>1. ASSUME content' \subseteq content, UNCHANGED data PROVE NewOn(t)' \subseteq NewOn(t)
      BY <3>1 DEF NewOn, IntroducedOn, Day, data
    <3>2. QED
      BY <1>4, <3>1 DEF IInv
  <2>2. PICK r \in Requests : Commit(r) /\ UNCHANGED content
    BY <2>1, StepKinds
  <2> DEFINE a == answer[r]
  <2>3. /\ a.before = "New" /\ Day(a.moment) = Day(t) /\ a.key \in content
        /\ NewOn(t)' = NewOn(t) \cup {a.key}
    <3>1. IntroducedOn(Day(t))' =
              IF a.before = "New" /\ Day(a.moment) = Day(t)
              THEN IntroducedOn(Day(t)) \cup {a.key} ELSE IntroducedOn(Day(t))
      BY <2>2, CommitIntroduces
    <3>2. content' = content
      BY <2>2
    <3> HIDE DEF a
    <3>3. QED
      BY <1>4, <3>1, <3>2 DEF NewOn
  <2>4. a.key \in Keys /\ a.expected = Never /\ cards[a.key] = NoRow /\ Working(a)
    BY <2>2, <2>3, CommitOpens DEF Commit, Working
  <2>5. Fits(a.key, a.moment)
    BY <2>3, <2>4 DEF AnswersFit, AnswerFits, Open
  <2>6. NewOn(a.moment) = NewOn(t)
    BY <2>3 DEF NewOn
  <2>7. Cardinality(NewOn(t)) < Limit
    <3>1. Cardinality(Ahead(a.key)) \in Nat
      <4>1. Ahead(a.key) \subseteq Keys
        BY DEF Ahead
      <4>2. QED
        BY <4>1, KeySets
    <3>2. Cardinality(Ahead(a.key)) + Cardinality(NewOn(t)) < Limit
      BY <2>5, <2>6 DEF Fits
    <3>3. QED
      BY <1>2, <3>1, <3>2
  <2>8. /\ Cardinality(NewOn(t) \cup {a.key}) <= Cardinality(NewOn(t)) + 1
        /\ Cardinality(NewOn(t) \cup {a.key}) \in Nat
    <3>1. NewOn(t) \cup {a.key} \subseteq Keys
      BY <1>2, <2>4
    <3>2. QED
      BY <1>2, <2>4, <3>1, KeySets
  <2>9. QED
    BY <1>2, <2>3, <2>7, <2>8
<1>5. QED
  BY <1>3, <1>4

-----------------------------------------------------------------------------
(* Where a page's card, a handler's card and a fetch's reads come from. *)

PageFrom(c) ==
    \/ page'[c].ui = "blank"
    \/ /\ page[c].ui # "blank"
       /\ page'[c].key = page[c].key /\ page'[c].expected = page[c].expected
    \/ page'[c].key \in Keys /\ cards[page'[c].key] # NoRow
         /\ page'[c].expected = cards[page'[c].key].last
    \/ next[c].pc = "serve" /\ page'[c].key \in next[c].offer

LEMMA PageSources ==
    ASSUME TypeOK, HasKey, [Next]_vars, NEW d \in Clients
    PROVE  PageFrom(d)
<1>0. page \in [Clients -> Page] /\ page[d] \in Page /\ next \in [Clients -> NextHandler]
  BY DEF TypeOK
<1>1. CASE UNCHANGED page
  BY <1>0, <1>1 DEF PageFrom
<1>2. CASE Crash
  BY <1>0, <1>2 DEF Crash, PageFrom, Page
<1>3. ASSUME NEW c \in Clients, NextStart(c) \/ Reload(c) PROVE PageFrom(d)
  BY <1>0, <1>3 DEF NextStart, Reload, PageFrom, IdlePage
<1>4. ASSUME NEW c \in Clients, Serve(c) PROVE PageFrom(d)
  <2>1. PICK k, t : /\ Show(c, k, t)
                    /\ \/ k \in Keys /\ cards[k] # NoRow /\ t = cards[k].last
                       \/ next[c].pc = "serve" /\ k \in next[c].offer
                    \/ UNCHANGED page
    BY <1>4 DEF Serve, Due
  <2>2. CASE UNCHANGED page
    BY <1>1, <2>2
  <2>3. CASE ~UNCHANGED page
    <3>1. d # c => page'[d] = page[d]
      BY <1>0, <2>1, <2>3 DEF Show
    <3>2. d = c => page'[d].key = k /\ page'[d].expected = t
      BY <1>0, <2>1, <2>3 DEF Show, IdlePage
    <3>3. QED
      BY <2>1, <2>3, <3>1, <3>2 DEF PageFrom
  <2>4. QED
    BY <2>2, <2>3
<1>5. ASSUME NEW c \in Clients, LoseConnection(c) PROVE PageFrom(d)
  BY <1>0, <1>5 DEF LoseConnection, PageFrom, Page
<1>6. ASSUME NEW c \in Clients, NEW r \in Requests, NEW g \in Grades, Submit(c, r, g)
      PROVE  PageFrom(d)
  BY <1>0, <1>6 DEF Submit, PageFrom, Page
<1>7. ASSUME NEW r \in Requests, AnswerStep(r) PROVE PageFrom(d)
  <2>1. UNCHANGED page \/ \E o \in {"failed", "saved", "stale"} : Reply(r, o)
    BY <1>7 DEF AnswerStep, LoadItem, ReadCard, Record, RecordFails, Recount
  <2>2. ASSUME NEW o \in {"failed", "saved", "stale"}, Reply(r, o) PROVE PageFrom(d)
    <3>1. /\ page'[d].key = page[d].key /\ page'[d].expected = page[d].expected
          /\ page[d].request # r => page'[d].ui = page[d].ui
      BY <1>0, <2>2 DEF Reply, Page
    <3>2. page[d].request = r => page[d].ui = "saving"
      BY ReviewAssumption DEF HasKey
    <3>3. QED
      BY <3>1, <3>2 DEF PageFrom
  <2>3. QED
    BY <1>1, <2>1, <2>2
<1>8. QED
  BY <1>1, <1>2, <1>3, <1>4, <1>5, <1>6, <1>7
     DEF Next, NextStep, Tick, DropItem, ReadStates, ReadIntroduced, vars

AnswerFrom(r) ==
    \/ ~Working(answer'[r])
    \/ /\ Working(answer[r])
       /\ answer'[r].key = answer[r].key /\ answer'[r].expected = answer[r].expected
       /\ answer'[r].moment = answer[r].moment
    \/ \E c \in Clients :
          /\ page[c].ui # "blank" /\ clock < MaxClock
          /\ answer'[r].key = page[c].key /\ answer'[r].expected = page[c].expected
          /\ answer'[r].moment = clock

LEMMA AnswerSources ==
    ASSUME TypeOK, [Next]_vars, NEW q \in Requests
    PROVE  AnswerFrom(q)
<1>0. answer \in [Requests -> AnswerHandler] /\ answer[q] \in AnswerHandler
  BY DEF TypeOK
<1>1. CASE Elsewhere \/ \E c \in Clients : Turn(c)
  <2>1. answer' = answer
    BY <1>1 DEF Elsewhere, Turn
  <2>2. QED
    BY <2>1 DEF AnswerFrom
<1>2. CASE CrashStep
  <2>1. answer'[q] = IdleAnswer
    BY <1>2 DEF CrashStep
  <2>2. QED
    BY <2>1 DEF AnswerFrom, Working, IdleAnswer
<1>3. ASSUME NEW c \in Clients, NEW r \in Requests, NEW g \in Grades, Submit(c, r, g)
      PROVE  AnswerFrom(q)
  <2>1. q # r => answer'[q] = answer[q]
    BY <1>0, <1>3 DEF Submit
  <2>2. q = r => /\ answer'[q].key = page[c].key /\ answer'[q].expected = page[c].expected
                 /\ answer'[q].moment = clock
    BY <1>0, <1>3 DEF Submit, IdleAnswer
  <2>3. page[c].ui # "blank" /\ clock < MaxClock
    BY <1>3 DEF Submit
  <2>4. QED
    BY <2>1, <2>2, <2>3 DEF AnswerFrom
<1>4. ASSUME NEW r \in Requests, Advance(r) PROVE AnswerFrom(q)
  <2>1. q # r => answer'[q] = answer[q]
    BY <1>0, <1>4 DEF Advance
  <2>2. ASSUME q = r
        PROVE  /\ answer'[q].key = answer[q].key /\ answer'[q].expected = answer[q].expected
               /\ answer'[q].moment = answer[q].moment /\ Working(answer[q])
    <3>1. CASE answer[r].pc = "load"
      <4>1. answer' = [answer EXCEPT ![r] = [@ EXCEPT !.pc = "read"]]
        BY <1>4, <3>1 DEF Advance
      <4>2. QED
        BY <1>0, <2>2, <3>1, <4>1 DEF AnswerHandler, Working
    <3>2. CASE answer[r].pc = "read"
      <4>1. PICK s, d :
               answer' = [answer EXCEPT ![r] = [answer[r] EXCEPT !.pc = "write",
                   !.before = cards[answer[r].key].state, !.after = s,
                   !.due = answer[r].moment + d]]
        BY <1>4, <3>2 DEF Advance
      <4>2. QED
        BY <1>0, <2>2, <3>2, <4>1 DEF AnswerHandler, Working
    <3>3. QED
      BY <1>4, <3>1, <3>2 DEF Advance
  <2>3. QED
    BY <2>1, <2>2 DEF AnswerFrom
<1>5. ASSUME NEW r \in Requests, Finish(r) \/ Commit(r) PROVE AnswerFrom(q)
  <2>1. q # r => answer'[q] = answer[q]
    BY <1>0, <1>5 DEF Finish, Commit, Reply
  <2>2. q = r => answer'[q].pc \in {"idle", "counts"}
    <3>1. CASE Finish(r)
      <4>1. answer' = [answer EXCEPT ![r] = IdleAnswer]
        BY <3>1 DEF Finish, Reply
      <4>2. QED
        BY <1>0, <4>1 DEF IdleAnswer
    <3>2. CASE Commit(r)
      <4>1. answer' = [answer EXCEPT ![r] = [IdleAnswer EXCEPT !.pc = "counts"]]
        BY <3>2 DEF Commit
      <4>2. QED
        BY <1>0, <4>1 DEF IdleAnswer
    <3>3. QED
      BY <1>5, <3>1, <3>2
  <2>3. QED
    BY <2>1, <2>2 DEF AnswerFrom, Working
<1>6. QED
  BY <1>1, <1>2, <1>3, <1>4, <1>5, StepShapes

NextFrom(c) ==
    \/ next'[c] = next[c]
    \/ next'[c].pc = "idle"
    \/ next'[c].pc = "states" /\ next'[c].moment = clock /\ UNCHANGED <<clock, content, data>>
    \/ ReadStates(c)
    \/ ReadIntroduced(c)

LEMMA NextSources == ASSUME TypeOK, [Next]_vars, NEW d \in Clients PROVE NextFrom(d)
<1>0. next \in [Clients -> NextHandler]
  BY DEF TypeOK
<1>1. CASE UNCHANGED next
  BY <1>1 DEF NextFrom
<1>2. CASE Crash
  BY <1>2 DEF Crash, NextFrom, IdleNext
<1>3. ASSUME NEW c \in Clients, NextStart(c) PROVE NextFrom(d)
  BY <1>0, <1>3 DEF NextStart, NextFrom, IdleNext
<1>4. ASSUME NEW c \in Clients, ReadStates(c) \/ ReadIntroduced(c) PROVE NextFrom(d)
  <2>1. d # c => next'[d] = next[d]
    BY <1>0, <1>4 DEF ReadStates, ReadIntroduced
  <2>2. QED
    BY <1>4, <2>1 DEF NextFrom
<1>5. ASSUME NEW c \in Clients, Serve(c) \/ Reload(c) PROVE NextFrom(d)
  BY <1>0, <1>5 DEF Serve, Reload, NextFrom, IdleNext
<1>6. ASSUME NEW r \in Requests, AnswerStep(r) PROVE UNCHANGED next
  BY <1>6 DEF AnswerStep, LoadItem, ReadCard, Record, RecordFails, Recount
<1>7. QED
  BY <1>1, <1>2, <1>3, <1>4, <1>5, <1>6
     DEF Next, NextStep, Tick, DropItem, LoseConnection, Submit, vars

-----------------------------------------------------------------------------
(* Each part of the invariant is kept. *)

LEMMA PagesStep ==
    ASSUME IInv, AnswersFit, OffersFit, PagesFit, [Next]_vars
    PROVE  PagesFit'
<1>1. SUFFICES ASSUME NEW c \in Clients, NEW k, page'[c].ui # "blank",
                      k = page'[c].key, page'[c].expected = Never
               PROVE  OfferFits(k)'
  BY DEF PagesFit, OfferFits, Open, Fits, Ahead, NewOn
<1>2. TypeOK /\ HasKey
  BY DEF IInv
<1>3. CASE page[c].ui # "blank" /\ k = page[c].key /\ page[c].expected = Never
  <2>1. k \in Keys /\ OfferFits(k)
    BY <1>2, <1>3 DEF HasKey, PagesFit
  <2>2. QED
    BY <2>1, OfferKept
<1>4. CASE k \in Keys /\ cards[k] # NoRow /\ cards[k].last = Never
  <2>1. Chain(k) /\ RowEndsChain(k)
    BY <1>4 DEF IInv
  <2>2. QED
    BY <1>2, <1>4, <2>1, RowIffLog
<1>5. CASE next[c].pc = "serve" /\ k \in next[c].offer
  <2>1. k \in Keys /\ OfferFits(k)
    BY <1>2, <1>5 DEF TypeOK, NextHandler, OffersFit
  <2>2. QED
    BY <2>1, OfferKept
<1>6. QED
  BY <1>1, <1>2, <1>3, <1>4, <1>5, PageSources DEF PageFrom

LEMMA AnswersStep ==
    ASSUME IInv, AnswersFit, PagesFit, [Next]_vars
    PROVE  AnswersFit'
<1>1. SUFFICES ASSUME NEW r \in Requests, NEW k, NEW t, Working(answer'[r]),
                      k = answer'[r].key, t = answer'[r].moment,
                      answer'[r].expected = Never, Open(k)'
               PROVE  Fits(k, t)'
  BY DEF AnswersFit, AnswerFits, Working, Open, Fits, Ahead, NewOn, IntroducedOn, Day
<1>2. TypeOK /\ HasKey /\ MaxClock \in Nat
  BY ReviewAssumption DEF IInv
<1>3. CASE /\ Working(answer[r]) /\ answer[r].expected = Never
           /\ k = answer[r].key /\ t = answer[r].moment
  <2>1. k \in Keys /\ t \in Nat
    BY <1>2, <1>3 DEF HasKey, TypeOK, AnswerHandler
  <2>2. Open(k)
    BY <1>1, <2>1, FitsKept
  <2>3. Fits(k, t)
    BY <1>3, <2>2 DEF AnswersFit, AnswerFits
  <2>4. QED
    BY <1>1, <2>1, <2>3, FitsKept
<1>4. ASSUME NEW c \in Clients, page[c].ui # "blank", page[c].expected = Never,
             k = page[c].key, t = clock, clock < MaxClock
      PROVE  Fits(k, t)'
  <2>1. k \in Keys /\ t \in Nat /\ t \in Later
    BY <1>2, <1>4 DEF HasKey, TypeOK, Later
  <2>2. Open(k)
    BY <1>1, <2>1, FitsKept
  <2>3. Fits(k, t)
    BY <1>4, <2>1, <2>2 DEF PagesFit, OfferFits
  <2>4. QED
    BY <1>1, <2>1, <2>3, FitsKept
<1>5. QED
  BY <1>1, <1>2, <1>3, <1>4, AnswerSources DEF AnswerFrom

(* What a fetch selects fits, on the day it began and on every later one:  *)
(* a later day has introduced cards the fetch counted as still to come, or *)
(* has introduced one that comes after the one selected.                   *)
LEMMA SelectedFits ==
    ASSUME IInv, SkippedFit, Limit # 0, NEW c \in Clients, ReadOfTheDay(next[c]),
           next[c].pc = "introduced",
           NEW k \in Selected(next[c].known, Introduced(Day(next[c].moment)))
    PROVE  k \in Keys /\ OfferFits(k)
<1> DEFINE known == next[c].known
           begin == next[c].moment
           Earlier == {j \in content \ known : Position[j] < Position[k]}
<1>1. /\ k \in content \ known
      /\ Cardinality(IntroducedOn(Day(begin))) + Cardinality(Earlier) < Limit
  BY DEF Selected, Introduced
<1>2. /\ TypeOK /\ content \subseteq Keys /\ k \in Keys /\ clock \in Nat /\ MaxClock \in Nat
      /\ Limit \in Nat
  BY <1>1, ReviewAssumption DEF IInv, TypeOK
<1>3. SUFFICES ASSUME Open(k), NEW t \in Later PROVE Fits(k, t)
  BY <1>2 DEF OfferFits
<1>4. t \in Nat
  BY <1>2 DEF Later
<1>5. \A j \in known : cards[j] # NoRow
  BY DEF ReadOfTheDay
<1>6. Ahead(k) \subseteq Earlier /\ Earlier \subseteq Keys
  BY <1>2, <1>5 DEF Ahead, Open
<1>7. /\ IntroducedOn(Day(begin)) \subseteq Keys /\ NewOn(t) \subseteq Keys
      /\ Cardinality(IntroducedOn(Day(begin))) \in Nat /\ Cardinality(NewOn(t)) \in Nat
      /\ Cardinality(Earlier) \in Nat /\ Cardinality(Ahead(k)) \in Nat
      /\ Cardinality(Ahead(k)) <= Cardinality(Earlier)
  <2>1. IntroducedOn(Day(begin)) \subseteq Keys /\ NewOn(t) \subseteq Keys
    BY DEF IntroducedOn, NewOn
  <2>2. Ahead(k) \subseteq Keys
    BY <1>6
  <2> HIDE DEF Earlier
  <2>3. QED
    BY <1>6, <2>1, <2>2, KeySets
<1>8. CASE Day(t) = Day(begin)
  <2>1. NewOn(t) \subseteq IntroducedOn(Day(begin))
    BY <1>8 DEF NewOn
  <2>2. Cardinality(NewOn(t)) <= Cardinality(IntroducedOn(Day(begin)))
    BY <1>7, <2>1, KeySets
  <2>3. QED
    BY <1>1, <1>2, <1>7, <2>2 DEF Fits
<1>9. CASE Day(t) # Day(begin) /\ \E j \in NewOn(t) : Position[k] < Position[j]
  BY <1>2, <1>3, <1>4, <1>9 DEF SkippedFit
<1>10. CASE Day(t) # Day(begin) /\ ~\E j \in NewOn(t) : Position[k] < Position[j]
  <2>1. \A j \in NewOn(t) : j \in content /\ cards[j] # NoRow
    <3>1. ASSUME NEW j \in NewOn(t) PROVE j \in content /\ cards[j] # NoRow
      <4>1. j \in Keys /\ j \in content /\ log[j] # << >>
        BY <3>1 DEF NewOn, IntroducedOn
      <4>2. Chain(j) /\ RowEndsChain(j)
        BY <4>1 DEF IInv
      <4>3. QED
        BY <1>2, <4>1, <4>2, RowIffLog
    <3>2. QED
      BY <3>1
  <2>2. NewOn(t) \cap known = {}
    BY <1>10 DEF ReadOfTheDay, NewOn
  <2>3. NewOn(t) \subseteq Earlier
    <3>1. ASSUME NEW j \in NewOn(t) PROVE j \in Earlier
      <4>1. j \in Keys /\ j # k
        BY <1>2, <1>3, <2>1 DEF Open
      <4>2. Position[j] \in Nat /\ Position[k] \in Nat /\ Position[j] # Position[k]
        BY <1>2, <4>1, ReviewAssumption
      <4>3. QED
        BY <1>10, <2>1, <2>2, <4>2
    <3>2. QED
      BY <3>1
  <2>4. Ahead(k) \cap NewOn(t) = {}
    BY <2>1 DEF Ahead, Open
  <2>5. Cardinality(Ahead(k)) + Cardinality(NewOn(t)) <= Cardinality(Earlier)
    <3> HIDE DEF Earlier
    <3>1. QED
      BY <1>6, <2>3, <2>4, SetsWithin
  <2>6. QED
    BY <1>1, <1>2, <1>7, <2>5 DEF Fits
<1>11. QED
  BY <1>8, <1>9, <1>10

LEMMA OffersStep ==
    ASSUME IInv, AnswersFit, SkippedFit, OffersFit, ReadsOfTheDay, Limit # 0, [Next]_vars
    PROVE  OffersFit'
<1>1. SUFFICES ASSUME NEW c \in Clients, next'[c].pc = "serve", NEW k \in next'[c].offer
               PROVE  OfferFits(k)'
  BY DEF OffersFit, OfferFits, Open, Fits, Ahead, NewOn
<1>2. TypeOK
  BY DEF IInv
<1>3. CASE next'[c] = next[c]
  <2>1. k \in Keys /\ OfferFits(k)
    BY <1>1, <1>2, <1>3 DEF TypeOK, NextHandler, OffersFit
  <2>2. QED
    BY <2>1, OfferKept
<1>4. CASE ReadStates(c)
  BY <1>1, <1>2, <1>4 DEF ReadStates, TypeOK, NextHandler
<1>5. CASE ReadIntroduced(c)
  <2>1. /\ next[c].pc = "introduced"
        /\ next'[c].offer = Selected(next[c].known, Introduced(Day(next[c].moment)))
    BY <1>2, <1>5 DEF ReadIntroduced, TypeOK, NextHandler
  <2>2. k \in Keys /\ OfferFits(k)
    BY <1>1, <2>1, SelectedFits DEF ReadsOfTheDay
  <2>3. QED
    BY <2>2, OfferKept
<1>6. QED
  BY <1>1, <1>2, <1>3, <1>4, <1>5, NextSources DEF NextFrom

(* No card is introduced on a day that has not come. *)
LEMMA DaysAhead ==
    ASSUME IInv, NEW t \in Nat, clock <= t, Day(t) # Day(clock)
    PROVE  IntroducedOn(Day(t)) = {}
<1>1. ASSUME NEW k \in Keys, NEW i \in 1 .. Len(log[k]) PROVE Day(log[k][i].at) # Day(t)
  <2>1. TypeOK /\ Chain(k) /\ clock \in Nat
    BY DEF IInv, TypeOK
  <2>2. log[k][i].at \in Nat /\ log[k][i].at < clock
    BY <2>1, LogType DEF Chain
  <2>3. Day(log[k][i].at) <= Day(clock) /\ Day(clock) <= Day(t)
    BY <2>1, <2>2, DaysInOrder
  <2>4. Day(log[k][i].at) \in Nat /\ Day(clock) \in Nat /\ Day(t) \in Nat
    BY <2>1, <2>2, DayType
  <2>5. QED
    BY <2>3, <2>4
<1>2. QED
  BY <1>1 DEF IntroducedOn

(* A card without a row is not known to a fetch, and it alone can be       *)
(* introduced.                                                             *)
LEMMA KnownKept ==
    ASSUME IInv, [Next]_vars, NEW known, known \subseteq Keys,
           \A k \in known : cards[k] # NoRow,
           NEW t, known \cap IntroducedOn(Day(t)) = {}
    PROVE  (\A k \in known : cards'[k] # NoRow) /\ known \cap IntroducedOn(Day(t))' = {}
<1>1. TypeOK
  BY DEF IInv
<1>2. CASE UNCHANGED data
  <2>1. IntroducedOn(Day(t))' = IntroducedOn(Day(t))
    BY <1>2 DEF IntroducedOn, Day, data
  <2>2. QED
    BY <1>2, <2>1 DEF data
<1>3. ASSUME NEW r \in Requests, Commit(r)
      PROVE  (\A k \in known : cards'[k] # NoRow) /\ known \cap IntroducedOn(Day(t))' = {}
  <2>1. \A k \in known : cards'[k] # NoRow
    BY <1>3, CommitOpens
  <2>2. answer[r].before = "New" => answer[r].key \notin known
    BY <1>3, CommitOpens
  <2>3. QED
    BY <1>3, <2>1, <2>2, CommitIntroduces
<1>4. QED
  BY <1>1, <1>2, <1>3, StepKinds

LEMMA ReadsStep ==
    ASSUME IInv, ReadsOfTheDay, [Next]_vars, ReadOnItsDay
    PROVE  ReadsOfTheDay'
<1> DEFINE Today(h) == h.pc = "states" => Day(h.moment) = Day(clock')
           Known(h) == \A k \in h.known : cards'[k] # NoRow
           NotLater(h) == \A t \in Later' :
                             Day(t) # Day(h.moment) => h.known \cap IntroducedOn(Day(t))' = {}
           Good(h) == Today(h) /\ (h.pc = "introduced" => Known(h) /\ NotLater(h))
<1>1. SUFFICES ASSUME NEW c \in Clients, NEW h, h = next'[c] PROVE Good(h)
  BY DEF ReadsOfTheDay, ReadOfTheDay, IntroducedOn, Day, Later
<1>2. /\ TypeOK /\ next[c] \in NextHandler
      /\ clock \in Nat /\ clock' \in Nat /\ clock' >= clock /\ MaxClock \in Nat
  BY StepKinds, ReviewAssumption DEF IInv, TypeOK
<1>3. Later' \subseteq Later /\ Later \subseteq Nat /\ \A t \in Later : clock <= t
  BY <1>2 DEF Later
<1>4. CASE h = next[c]
  <2>1. ReadOfTheDay(h)
    BY <1>4 DEF ReadsOfTheDay
  <2>2. Today(h)
    BY <1>4, <2>1 DEF ReadOfTheDay, ReadOnItsDay
  <2>3. ASSUME h.pc = "introduced" PROVE Known(h) /\ NotLater(h)
    <3>1. h.known \subseteq Keys /\ \A k \in h.known : cards[k] # NoRow
      BY <1>2, <1>4, <2>1, <2>3 DEF ReadOfTheDay, NextHandler
    <3>2. \A t \in Later' : Day(t) # Day(h.moment) => h.known \cap IntroducedOn(Day(t)) = {}
      BY <1>3, <2>1, <2>3 DEF ReadOfTheDay
    <3>3. Known(h)
      <4>1. CASE UNCHANGED data
        BY <3>1, <4>1 DEF data
      <4>2. ASSUME NEW r \in Requests, Commit(r) PROVE Known(h)
        BY <3>1, <4>2, CommitOpens
      <4>3. QED
        BY <1>2, <4>1, <4>2, StepKinds
    <3>4. NotLater(h)
      BY <3>1, <3>2, KnownKept
    <3>5. QED
      BY <3>3, <3>4
  <2>4. QED
    BY <2>2, <2>3
<1>5. CASE h.pc = "idle"
  BY <1>5
<1>6. CASE h.pc = "states" /\ h.moment = clock /\ UNCHANGED clock
  BY <1>6
<1>7. CASE ReadStates(c)
  <2>1. /\ next[c].pc = "states" /\ UNCHANGED <<clock, cards, log>>
        /\ h.pc = "introduced" /\ h.moment = next[c].moment
        /\ h.known = {k \in Keys : cards[k] # NoRow}
    BY <1>1, <1>2, <1>7 DEF ReadStates, TypeOK, NextHandler, data
  <2>2. Day(h.moment) = Day(clock)
    BY <2>1 DEF ReadsOfTheDay, ReadOfTheDay
  <2>3. ASSUME NEW t \in Later', Day(t) # Day(h.moment) PROVE IntroducedOn(Day(t))' = {}
    <3>1. IntroducedOn(Day(t)) = {}
      BY <1>3, <2>2, <2>3, DaysAhead
    <3>2. QED
      BY <2>1, <3>1 DEF IntroducedOn, Day
  <2>4. QED
    BY <2>1, <2>3
<1>8. CASE ReadIntroduced(c)
  <2>1. h.pc = "serve"
    BY <1>1, <1>2, <1>8 DEF ReadIntroduced, TypeOK
  <2>2. QED
    BY <2>1
<1>9. QED
  BY <1>1, <1>2, <1>4, <1>5, <1>6, <1>7, <1>8, NextSources DEF NextFrom

-----------------------------------------------------------------------------
(* The invariant holds, and the limit follows from it. *)

LEMMA LimitInit == ASSUME Init PROVE LimitInv
<1>1. \A t : NewOn(t) = {}
  BY DEF Init, NewOn, IntroducedOn
<1>2. WithinLimit /\ SkippedFit
  BY <1>1, FS_EmptySet, ReviewAssumption DEF WithinLimit, SkippedFit
<1>3. OffersFit /\ PagesFit /\ AnswersFit /\ ReadsOfTheDay
  BY DEF Init, OffersFit, PagesFit, AnswersFit, AnswerFits, ReadsOfTheDay, ReadOfTheDay,
         IdlePage, IdleNext, IdleAnswer, Working
<1>4. QED
  BY <1>2, <1>3 DEF LimitInv

LEMMA SameDayStep == ASSUME [Next /\ ReadOnItsDay]_vars PROVE [Next]_vars /\ ReadOnItsDay
BY DEF vars, ReadOnItsDay, Day

LEMMA LimitStep ==
    ASSUME IInv, Limit # 0 => LimitInv, [Next /\ ReadOnItsDay]_vars
    PROVE  (Limit # 0 => LimitInv)'
<1>1. SUFFICES ASSUME Limit # 0 PROVE LimitInv'
  OBVIOUS
<1>2. [Next]_vars /\ ReadOnItsDay
  BY SameDayStep
<1>3. /\ OffersFit /\ PagesFit /\ AnswersFit
      /\ SkippedFit /\ WithinLimit /\ ReadsOfTheDay
  BY <1>1 DEF LimitInv
<1>4. /\ OffersFit' /\ PagesFit' /\ AnswersFit'
      /\ SkippedFit' /\ WithinLimit' /\ ReadsOfTheDay'
  BY <1>1, <1>2, <1>3, OffersStep, PagesStep, AnswersStep, SkippedStep, WithinStep, ReadsStep
<1>5. QED
  BY <1>4 DEF LimitInv

(* No study day introduces more new cards than its limit, whatever pages   *)
(* and earlier days had fetched, as long as no fetch reads the cards on    *)
(* one day and how many of them are new on the next                        *)
(* (orchestration/review_session.py).                                      *)
THEOREM LimitHolds == SameDaySpec => []DailyLimit
<1>1. Init => IInv /\ LimitInv
  BY InvInit, LimitInit
<1>2. IInv /\ [Next /\ ReadOnItsDay]_vars => IInv'
  BY InvStep, SameDayStep
<1>3. IInv /\ (Limit # 0 => LimitInv) /\ [Next /\ ReadOnItsDay]_vars
          => (Limit # 0 => LimitInv)'
  BY LimitStep
<1>4. IInv /\ (Limit # 0 => LimitInv) => DailyLimit
  <2>1. SUFFICES ASSUME IInv, LimitInv, Limit # 0, NEW t \in 1 .. clock
                 PROVE  Cardinality(IntroducedOn(Day(t)) \cap content) <= Limit
    BY DEF DailyLimit
  <2>2. t \in Nat
    BY <2>1 DEF IInv, TypeOK
  <2>3. QED
    BY <2>1, <2>2 DEF LimitInv, WithinLimit, NewOn
<1>5. QED
  BY <1>1, <1>2, <1>3, <1>4, PTL DEF SameDaySpec

-----------------------------------------------------------------------------
(* Study days follow one another.  The wall time never goes back, so that  *)
(* the number of rollovers it has passed tells the day.                    *)

LEMMA WallFacts ==
    ASSUME NEW zone \in Zones
    PROVE  /\ \A i \in Int : Wall(zone, i) \in Int
           /\ \A i \in Int : Wall(zone, i + 1) - Wall(zone, i) \in 0 .. 2
           /\ \A i, j \in Int : i < j => Wall(zone, i) <= Wall(zone, j) - (j - i) + 1
<1> DEFINE b == zone.before
           a == zone.after
           c == zone.change
<1>1. b \in Int /\ a \in Int /\ c \in Int /\ b - 1 <= a /\ a <= b + 1
  BY ZonesAssumption
<1>2. \A i \in Int : Wall(zone, i) = i + (IF i >= c THEN a ELSE b)
  BY DEF Wall, Changed
<1> HIDE DEF a, b, c
<1>3. \A i \in Int : Wall(zone, i) \in Int
  BY <1>1, <1>2
<1>4. \A i \in Int : Wall(zone, i + 1) - Wall(zone, i) \in 0 .. 2
  <2>1. ASSUME NEW i \in Int PROVE Wall(zone, i + 1) - Wall(zone, i) \in 0 .. 2
    <3>1. i + 1 \in Int /\ Wall(zone, i + 1) = i + 1 + (IF i + 1 >= c THEN a ELSE b)
      BY <1>2
    <3>2. QED
      BY <1>1, <1>2, <3>1
  <2>2. QED
    BY <2>1
<1>5. \A i, j \in Int : i < j => Wall(zone, i) <= Wall(zone, j) - (j - i) + 1
  BY <1>1, <1>2
<1>6. QED
  BY <1>3, <1>4, <1>5

LEMMA InstantFacts ==
    ASSUME NEW zone \in Zones, NEW w \in Int
    PROVE  LET i == Instant(zone, w, FALSE)
           IN  /\ i \in Int
               /\ \A j \in Int : i <= j <=> w <= Wall(zone, j)
               /\ \/ Wall(zone, i) = w
                  \/ /\ Wall(zone, i) = w + 1 /\ zone.after > zone.before
                     /\ Wall(zone, zone.change) = w + 1
               /\ Instant(zone, w + 24, FALSE) - i \in 23 .. 25
BY ZonesAssumption DEF Instant, Wall, Changed

LEMMA LastRollover ==
    ASSUME NEW x \in Int, NEW rollover \in 0 .. 23
    PROVE  LET today == 24 * (x \div 24) + rollover
               n == (x - rollover) \div 24
           IN  /\ n \in Int
               /\ (IF x < today THEN today - 24 ELSE today) = 24 * n + rollover
               /\ 24 * n + rollover <= x /\ x < 24 * (n + 1) + rollover
OBVIOUS

(* How many rollovers the wall time has passed at instant i, and the wall  *)
(* time of the last one.                                                   *)
Passed(zone, rollover, i) == (Wall(zone, i) - rollover) \div 24
StartWall(zone, rollover, i) == 24 * Passed(zone, rollover, i) + rollover

LEMMA WindowFacts ==
    ASSUME NEW zone \in Zones, NEW rollover \in 0 .. 23, NEW i \in Int
    PROVE  /\ Passed(zone, rollover, i) \in Int /\ StartWall(zone, rollover, i) \in Int
           /\ StartWall(zone, rollover, i) <= Wall(zone, i)
           /\ Wall(zone, i) < StartWall(zone, rollover, i) + 24
           /\ StudyDayWindow(zone, rollover, i) =
                  [start |-> Instant(zone, StartWall(zone, rollover, i), FALSE),
                   end |-> Instant(zone, StartWall(zone, rollover, i) + 24, FALSE)]
<1> DEFINE x == Wall(zone, i)
           n == Passed(zone, rollover, i)
           today == 24 * (x \div 24) + rollover
<1>1. x \in Int
  BY WallFacts
<1>2. /\ n \in Int /\ 24 * n + rollover <= x /\ x < 24 * (n + 1) + rollover
      /\ (IF x < today THEN today - 24 ELSE today) = StartWall(zone, rollover, i)
  BY <1>1, LastRollover DEF Passed, StartWall
<1>3. StudyDayWindow(zone, rollover, i) =
          [start |-> Instant(zone, StartWall(zone, rollover, i), FALSE),
           end |-> Instant(zone, StartWall(zone, rollover, i) + 24, FALSE)]
  BY <1>2, Zenon DEF StudyDayWindow, StartFold
<1>4. QED
  BY <1>1, <1>2, <1>3 DEF StartWall

(* A day is named after the date of its rollover, or the next one where    *)
(* clocks skip to midnight.                                                *)
LEMMA DateFacts ==
    ASSUME NEW zone \in Zones, NEW rollover \in 0 .. 23, NEW i \in Int
    PROVE  /\ StudyDate(zone, rollover, i) \in
                  Passed(zone, rollover, i) .. Passed(zone, rollover, i) + 1
           /\ \/ StartIsSkippedToMidnight(zone, rollover)
              \/ StudyDate(zone, rollover, i) = Passed(zone, rollover, i)
<1> DEFINE n == Passed(zone, rollover, i)
           w == StartWall(zone, rollover, i)
           start == Instant(zone, w, FALSE)
<1>1. /\ n \in Int /\ w \in Int
      /\ StudyDayWindow(zone, rollover, i) =
             [start |-> start, end |-> Instant(zone, w + 24, FALSE)]
  BY WindowFacts, Zenon
<1>2. StudyDate(zone, rollover, i) = Wall(zone, start) \div 24
  BY <1>1 DEF StudyDate
<1>3. \/ Wall(zone, start) = w
      \/ /\ Wall(zone, start) = w + 1 /\ zone.after > zone.before
         /\ Wall(zone, zone.change) = w + 1
  BY <1>1, InstantFacts
<1>4. w = 24 * n + rollover
  BY DEF StartWall
<1> HIDE DEF n, w, start
<1>5. /\ w \div 24 = n
      /\ (w + 1) \div 24 \in n .. n + 1
      /\ (w + 1) \div 24 = n \/ (rollover = 23 /\ (w + 1) % 24 = 0)
  BY <1>1, <1>4
<1>6. StudyDate(zone, rollover, i) \in n .. n + 1
  BY <1>1, <1>2, <1>3, <1>5
<1>7. StartIsSkippedToMidnight(zone, rollover) \/ StudyDate(zone, rollover, i) = n
  BY <1>2, <1>3, <1>5 DEF StartIsSkippedToMidnight
<1>8. QED
  BY <1>6, <1>7 DEF n

(* The windows and dates of an instant and of the next one. *)
LEMMA DaysAreRight ==
    ASSUME NEW zone \in Zones, NEW rollover \in 0 .. 23, NEW i \in Int
    PROVE  DayIsRight(zone, rollover, i)
<1>1. PICK n, w, start, end, x :
         /\ n = Passed(zone, rollover, i) /\ w = StartWall(zone, rollover, i)
         /\ start = Instant(zone, w, FALSE) /\ end = Instant(zone, w + 24, FALSE)
         /\ x = Wall(zone, i)
  OBVIOUS
<1>2. PICK m, v, next_start, next_end, y :
         /\ m = Passed(zone, rollover, i + 1) /\ v = StartWall(zone, rollover, i + 1)
         /\ next_start = Instant(zone, v, FALSE) /\ next_end = Instant(zone, v + 24, FALSE)
         /\ y = Wall(zone, i + 1)
  OBVIOUS
<1>3. /\ n \in Int /\ w \in Int /\ w = 24 * n + rollover /\ w <= x /\ x < w + 24
      /\ StudyDayWindow(zone, rollover, i) = [start |-> start, end |-> end]
  <2>1. w = 24 * n + rollover
    BY <1>1 DEF StartWall
  <2>2. /\ n \in Int /\ w \in Int /\ w <= x /\ x < w + 24
        /\ StudyDayWindow(zone, rollover, i) = [start |-> start, end |-> end]
    BY <1>1, WindowFacts, Zenon
  <2>3. QED
    BY <2>1, <2>2
<1>4. /\ m \in Int /\ v \in Int /\ v = 24 * m + rollover /\ v <= y /\ y < v + 24
      /\ StudyDayWindow(zone, rollover, i + 1) = [start |-> next_start, end |-> next_end]
  <2>1. v = 24 * m + rollover
    BY <1>2 DEF StartWall
  <2>2. i + 1 \in Int
    OBVIOUS
  <2>3. /\ m \in Int /\ v \in Int /\ v <= y /\ y < v + 24
        /\ StudyDayWindow(zone, rollover, i + 1) = [start |-> next_start, end |-> next_end]
    BY <1>2, <2>2, WindowFacts, Zenon
  <2>4. QED
    BY <2>1, <2>3
<1>5. x \in Int /\ y \in Int /\ x <= y /\ y <= x + 2
  <2>1. x \in Int /\ y \in Int /\ y - x \in 0 .. 2
    BY <1>1, <1>2, WallFacts
  <2>2. QED
    BY <2>1
<1>6. /\ start \in Int /\ end \in Int /\ start <= i /\ i < end /\ end - start \in 23 .. 25
      /\ Wall(zone, start) = w \/ Wall(zone, start) = w + 1
  <2>1. /\ start \in Int /\ (start <= i <=> w <= x) /\ end - start \in 23 .. 25
        /\ Wall(zone, start) = w \/ Wall(zone, start) = w + 1
    BY <1>1, <1>3, InstantFacts
  <2>2. w + 24 \in Int
    BY <1>3
  <2>3. end \in Int /\ (end <= i <=> w + 24 <= x)
    BY <1>1, <2>2, InstantFacts
  <2>4. QED
    BY <1>3, <1>5, <2>1, <2>3
<1>7. m = n \/ m = n + 1
  BY <1>3, <1>4, <1>5
<1>8. \/ m = n /\ next_start = start /\ next_end = end
      \/ m = n + 1 /\ next_start = end
  <2>1. CASE m = n
    BY <1>1, <1>2, <1>3, <1>4, <2>1
  <2>2. CASE m = n + 1
    <3>1. v = w + 24
      BY <1>3, <1>4, <2>2
    <3>2. QED
      BY <1>1, <1>2, <2>2, <3>1
  <2>3. QED
    BY <1>7, <2>1, <2>2
<1>9. \/ /\ StudyDate(zone, rollover, i) = n
         /\ StudyDate(zone, rollover, i + 1) = m
      \/ StartIsSkippedToMidnight(zone, rollover)
  <2>1. i + 1 \in Int
    OBVIOUS
  <2>2. QED
    BY <1>1, <1>2, <2>1, DateFacts, Zenon
<1>10. StudyDate(zone, rollover, FetchedFrom(zone, rollover, i) - 1)
           < FirstDate(zone, rollover, i)
  <2>1. PICK from : from = FetchedFrom(zone, rollover, i) - 1
    OBVIOUS
  <2>2. Shown \in Nat /\ from = start - 24 * (Shown + 1) - 1 /\ from \in Int /\ from < start
    BY <1>3, <1>6, <2>1, DayAssumption DEF FetchedFrom
  <2>3. PICK p, u : p = Passed(zone, rollover, from) /\ u = StartWall(zone, rollover, from)
    OBVIOUS
  <2>4. /\ p \in Int /\ u = 24 * p + rollover /\ u <= Wall(zone, from)
        /\ Wall(zone, from) \in Int /\ StudyDate(zone, rollover, from) \in p .. p + 1
    BY <2>2, <2>3, WindowFacts, DateFacts, WallFacts DEF StartWall
  <2>5. Wall(zone, from) <= Wall(zone, start) - (start - from) + 1
    BY <1>6, <2>2, WallFacts
  <2>6. p <= n - Shown - 1
    BY <1>3, <1>6, <2>2, <2>4, <2>5
  <2>7. StudyDate(zone, rollover, i) \in n .. n + 1
    BY <1>1, DateFacts
  <2>8. StudyDate(zone, rollover, from) < StudyDate(zone, rollover, i) - (Shown - 1)
    BY <1>3, <2>2, <2>4, <2>6, <2>7
  <2>9. QED
    BY <2>1, <2>8 DEF FirstDate
<1>11. end # start
  BY <1>6
<1>12. QED
  BY <1>3, <1>4, <1>6, <1>7, <1>8, <1>9, <1>10, <1>11 DEF DayIsRight

(* Study days follow one another without a gap or an overlap, and dates    *)
(* count up by one, for every zone, hour of its change and rollover hour   *)
(* (services/study_day.py, services/review_stats.py).                      *)
THEOREM DaysFollowEachOther == Spec => []DaysFollow
<1>1. TypeOK => DaysFollow
  <2>1. ASSUME NEW tick \in Nat, NEW i \in HoursOf(tick) PROVE i \in Int
    <3>1. DayLength \in Nat \ {0} /\ HoursPerTick \in Int
      BY ReviewAssumption DEF HoursPerTick
    <3>2. HoursPerTick * tick \in Int /\ HoursPerTick * (tick + 1) - 1 \in Int
      BY <3>1
    <3>3. QED
      BY <3>2 DEF HoursOf
  <2>2. 1 .. MaxClock \subseteq RightTicks
    BY <2>1, DaysAreRight DEF RightTicks
  <2>3. QED
    BY <2>2 DEF TypeOK, DaysFollow
<1>2. QED
  BY <1>1, TypeCorrect, PTL

=============================================================================
