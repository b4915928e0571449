----------------------------- MODULE StudyPlan -----------------------------
(***************************************************************************)
(* What there is to study: which card GET /reviews/next offers             *)
(* (orchestration/review_session.py), given the deck content.db was built  *)
(* from, the settings document (services/review_settings.py), the new-card *)
(* policies, the type switches and the kana gate                           *)
(* (services/new_card_policies.py, services/type_availability.py), the     *)
(* card_state rows and the day's count of new cards.  All three item types *)
(* compete here; a request is one step, ReviewSession has the steps within *)
(* it.                                                                     *)
(***************************************************************************)
EXTENDS DeckContent

CONSTANTS
    Decks,        \* the decks that may be built from, by name (an import that
                  \* fails leaves content.db as it is, and the system too)
    KanaTable,    \* the hiragana of the static table, with their romaji
    FirstDeck,    \* the deck of the first build
    Documents,    \* the settings documents that may be stored, by name
    Studied,      \* bound: the directions of each type that are studied
    Scan,         \* _ORPHAN_SCAN: due rows looked through for one that has an item
    MaxDisturbances  \* bound: saves, rebuilds, failed answers, returns of learned cards

Policies == {"strict_order", "mastery_unlock", "pinned_levels"}

Document == [policy : Policies, limits : [Types -> Nat], enabled : [Types -> BOOLEAN],
             gate : [Types -> BOOLEAN], threshold : 0 .. 100, active : SUBSET Levels,
             mastery : 0 .. 100]

(* Text is a sequence of code points. *)
Segment == [base : Seq(Nat), reading : Seq(Nat), highlighted : BOOLEAN]
Notes == [expression : Seq(Nat), segments : Seq(Segment), tags : SUBSET Levels,
          meaning : STRING, more : STRING]

(* A kana table has each hiragana once. *)
Kana == [char : Seq(Hiragana), romaji : STRING]
EachOnce(table) == \A i, j \in DOMAIN table : table[i].char = table[j].char => i = j

ASSUME DecksAssumption ==
    /\ FirstDeck \in DOMAIN Decks
    /\ \A d \in DOMAIN Decks : Decks[d] \in Seq(Notes) /\ Importable(Decks[d])

ASSUME KanaAssumption == KanaTable \in Seq(Kana) /\ EachOnce(KanaTable)

ASSUME PlanAssumption ==
    /\ Range(Documents) \subseteq Document /\ "none" \notin DOMAIN Documents
    /\ \A s \in Range(Documents) : ~s.gate["kana"]
    /\ \A t \in Types : /\ Range(Studied[t]) \subseteq Range(Directions[t])
                        /\ Studied[t] \in Seq(STRING) /\ IsInjective(Studied[t])
    /\ Scan \in Nat \ {0} /\ MaxDisturbances \in Nat

VARIABLES
    deck,         \* the deck content.db was built from
    stored,       \* the settings document in app_setting
    cards,        \* the state of the card_state row of each card
    due,          \* the cards that are due, in due order
    introduced,   \* the new cards of the study day, by type
    disturbances

vars == <<deck, stored, cards, due, introduced, disturbances>>

States == {"none", "learning", "review", "relearning"}

(* What is built from each deck, and its rows by id. *)
ContentOf == [d \in DOMAIN Decks |-> Build(Decks[d], KanaTable)]
ItemsOf == [d \in DOMAIN Decks |-> ItemsById(ContentOf[d])]
CatalogOf == [d \in DOMAIN Decks |-> [t \in Types |-> Catalog(ContentOf[d], t)]]

(* The cards of each deck, with their levels and their places in the study *)
(* order: the levels from the easiest, the items of one as they are in the *)
(* deck, their directions in order.                                        *)
StudyCards(catalog, type) ==
    {[card |-> [item |-> e.item, dir |-> Studied[type][j]], level |-> e.level,
      place |-> <<Rank(e.level), e.position, j>>] :
         e \in catalog, j \in DOMAIN Studied[type]}

LessonsOf == [d \in DOMAIN Decks |-> [t \in Types |-> StudyCards(CatalogOf[d][t], t)]]

(* The cards of a type in each deck, and those of a level. *)
CardsOf == [d \in DOMAIN Decks |-> [t \in Types |-> {e.card : e \in LessonsOf[d][t]}]]
LevelCards ==
    [d \in DOMAIN Decks |-> [t \in Types |-> [l \in NoLevel .. 5 |->
        {e.card : e \in {f \in LessonsOf[d][t] : f.level = l}}]]]

(* The cards that are lessons of one of the decks. *)
Cards == UNION {CardsOf[d][t] : d \in DOMAIN Decks, t \in Types}

TypeOf(k) == TypeOfId(k.item)
Items == ItemsOf[deck]
Lessons(type) == CardsOf[deck][type]
LevelKeys(type, level) == LevelCards[deck][type][level]

-----------------------------------------------------------------------------
(* Settings *)

Defaults ==
    [policy |-> "strict_order",
     limits |-> [kana |-> 20, kanji |-> 15, vocab |-> 20],
     enabled |-> [t \in Types |-> TRUE], gate |-> [t \in Types |-> FALSE],
     threshold |-> 80, active |-> {5}, mastery |-> 80]

(* Mutant: a gate may wait for kana that is never introduced. *)
Valid_AnyGate(s) == s.active # {}

Valid(s) ==
    /\ s.active # {}
    /\ s.gate["kanji"] \/ s.gate["vocab"] => s.enabled["kana"]

(* What each document amounts to when it is read: one this version does    *)
(* not accept is ignored.                                                  *)
Meaning ==
    [s \in DOMAIN Documents \cup {"none"} |->
        IF s # "none" /\ Valid(Documents[s]) THEN Documents[s] ELSE Defaults]

Settings == Meaning[stored]
Limit(type) == Settings.limits[type]

-----------------------------------------------------------------------------
(* The plan: what could be introduced now *)

Share(part, whole, percent) == part * 100 >= percent * whole

InState(keys, state) == {k \in keys : cards[k] = state}

(* A catalogue without kana leaves the gate open. *)
KanaLearned ==
    Share(Cardinality(InState(Lessons("kana"), "review")), Cardinality(Lessons("kana")),
          Settings.threshold)

Allowed(type) == Settings.enabled[type] /\ (Settings.gate[type] => KanaLearned)

Mastered(type, level) ==
    Share(Cardinality(InState(LevelKeys(type, level), "review")),
          Cardinality(LevelKeys(type, level)), Settings.mastery)

(* Mutant: only the level just before has to be mastered. *)
Unlocked_ByTheLast(type) ==
    {l \in Levels : l = 5 \/ Mastered(type, l + 1)}

(* A level is unlocked when the easier ones are mastered. *)
Unlocked(type) == {l \in Levels : \A m \in Levels : m > l => Mastered(type, m)}

Offered(type, level) ==
    \/ level = NoLevel
    \/ Settings.policy = "strict_order"
    \/ Settings.policy = "mastery_unlock" /\ level \in Unlocked(type)
    \/ Settings.policy = "pinned_levels" /\ level \in Settings.active

(* Lessons without a row. *)
Candidates(type) ==
    {e \in LessonsOf[deck][type] : Offered(type, e.level) /\ cards[e.card] = "none"}

(* Those of a set of lessons that come before one in the study order. *)
Earlier(lessons, e) == {f \in lessons : Before(f.place, e.place)}

(* The first of them, up to what is left of the limit. *)
Take(lessons, type) ==
    IF Limit(type) = 0 THEN lessons
    ELSE {e \in lessons : Cardinality(Earlier(lessons, e)) < Limit(type) - introduced[type]}

NewKeys(type) == IF Allowed(type) THEN Take(Candidates(type), type) ELSE {}

(* counts.new_remaining *)
Remaining(type) == Cardinality(NewKeys(type))

(* Type a has more of its daily allowance left than type b; an unlimited   *)
(* type counts as one that is untouched.                                   *)
Left(type) == IF Limit(type) = 0 THEN 1 ELSE Limit(type) - introduced[type]
Whole(type) == IF Limit(type) = 0 THEN 1 ELSE Limit(type)
MoreLeft(a, b) == Left(a) * Whole(b) > Left(b) * Whole(a)

TypeOrder == [kana |-> 1, kanji |-> 2, vocab |-> 3]

(* The type a new card comes from, given the new cards of each: ties go to *)
(* the earlier type.                                                       *)
Wins(new, type) ==
    /\ new[type] # {}
    /\ \A t \in Types \ {type} : new[t] # {} =>
           MoreLeft(type, t) \/ (~MoreLeft(t, type) /\ TypeOrder[type] < TypeOrder[t])

(* Kana come shuffled, the rest in study order. *)
FirstNew(lessons, type) == {e \in lessons : type = "kana" \/ Earlier(lessons, e) = {}}

NewOffer ==
    LET new == [t \in Types |-> NewKeys(t)]
    IN  {e.card : e \in UNION {FirstNew(new[t], t) : t \in {u \in Types : Wins(new, u)}}}

-----------------------------------------------------------------------------
(* Mutant: a row without an item ends the search. *)
Scanned_ToTheFirst == {i \in DOMAIN due : \A j \in 1 .. i : due[j].item \in DOMAIN Items}

(* Which of the due rows that are looked through have an item. *)
Scanned == {i \in DOMAIN due : i <= Scan /\ due[i].item \in DOMAIN Items}

(* The first, or when that is a kana, any kana. *)
DueOffer ==
    {due[i] : i \in {j \in Scanned : IF TypeOf(due[Min(Scanned)]) = "kana"
                                    THEN TypeOf(due[j]) = "kana" ELSE j = Min(Scanned)}}

(* The cards GET /reviews/next may offer; the shuffle picks one of them. *)
Offer == IF DueOffer # {} THEN DueOffer ELSE NewOffer

-----------------------------------------------------------------------------
(* Statistics *)

(* by_level of the dashboard: the cards of a level, and those in Review. *)
LevelProgress(type, level) ==
    LET in == {k \in Cards : TypeOf(k) = type /\ cards[k] # "none" /\ k \in LevelKeys(type, level)}
    IN  [total |-> Cardinality(LevelKeys(type, level)), introduced |-> Cardinality(in),
         review |-> Cardinality(InState(in, "review"))]

(* by_type: the lessons of the type, and every row, whether or not its     *)
(* item is still there.                                                    *)
TypeProgress(type) ==
    LET rows(state) == Cardinality({k \in InState(Cards, state) : TypeOf(k) = type})
    IN  [total |-> Cardinality(Lessons(type)), learning |-> rows("learning"),
         review |-> rows("review"), relearning |-> rows("relearning")]

-----------------------------------------------------------------------------
Init ==
    /\ deck = FirstDeck
    /\ stored \in {"none"} \cup {s \in DOMAIN Documents : Valid(Documents[s])}
    /\ cards = [k \in Cards |-> "none"]
    /\ due = << >>
    /\ introduced = [t \in Types |-> 0]
    /\ disturbances = 0

Disturb == disturbances < MaxDisturbances /\ disturbances' = disturbances + 1

Lapsed(state) == IF state \in {"review", "relearning"} THEN "relearning" ELSE "learning"

(* Mutant: a card that was answered goes to the end of the queue. *)
Answered_ToTheEnd(k) == Append(due, k)

Answered(k) ==
    IF k \in Range(due) THEN RemoveAt(due, CHOOSE i \in DOMAIN due : due[i] = k) ELSE due

(* Mutant: the day's count is of answers. *)
Counted_Answers(k) == [introduced EXCEPT ![TypeOf(k)] = @ + 1]

Counted(k) == [introduced EXCEPT ![TypeOf(k)] = IF cards[k] = "none" THEN @ + 1 ELSE @]

(* The learner answers the card on offer: it ends in Review, or it stays   *)
(* in, or falls back to, its steps.                                        *)
Answer ==
    \E k \in Offer :
    /\ due' = Answered(k)
    /\ introduced' = Counted(k)
    /\ \/ cards' = [cards EXCEPT ![k] = "review"] /\ UNCHANGED disturbances
       \/ cards' = [cards EXCEPT ![k] = Lapsed(@)] /\ Disturb
    /\ UNCHANGED <<deck, stored>>

(* The due time of a card comes. *)
ComesDue(k) ==
    /\ cards[k] # "none" /\ k \notin Range(due)
    /\ due' = Append(due, k)
    /\ IF cards[k] = "review" THEN Disturb ELSE UNCHANGED disturbances
    /\ UNCHANGED <<deck, stored, cards, introduced>>

(* The study day rolls over. *)
NextDay ==
    /\ \E t \in Types : introduced[t] > 0
    /\ introduced' = [t \in Types |-> 0]
    /\ UNCHANGED <<deck, stored, cards, due, disturbances>>

(* PUT /settings replaces the whole document; one that is not valid is     *)
(* refused.                                                                *)
SaveSettings(s) ==
    /\ s # stored /\ Valid(Documents[s]) /\ Disturb
    /\ stored' = s
    /\ UNCHANGED <<deck, cards, due, introduced>>

(* A progress.db that comes from another version may hold any document.    *)
ForeignDocument(s) ==
    /\ s # stored /\ ~Valid(Documents[s]) /\ Disturb
    /\ stored' = s
    /\ UNCHANGED <<deck, cards, due, introduced>>

(* A build from another deck. *)
Rebuild(d) ==
    /\ d # deck /\ Disturb
    /\ deck' = d
    /\ UNCHANGED <<stored, cards, due, introduced>>

Next ==
    \/ Answer
    \/ \E k \in Cards : ComesDue(k)
    \/ NextDay
    \/ \E s \in DOMAIN Documents : SaveSettings(s) \/ ForeignDocument(s)
    \/ \E d \in DOMAIN Decks : Rebuild(d)

(* Days end, and what is scheduled comes due. *)
Fairness == WF_vars(NextDay) /\ \A k \in Cards : WF_vars(ComesDue(k))

Spec == Init /\ [][Next]_vars /\ Fairness

-----------------------------------------------------------------------------
(* Type correctness: only cards with a row are due, each of them once. *)
TypeOK ==
    /\ deck \in DOMAIN Decks
    /\ stored \in DOMAIN Meaning
    /\ cards \in [Cards -> States]
    /\ due \in Seq({k \in Cards : cards[k] # "none"}) /\ IsInjective(due)
    /\ introduced \in [Types -> Nat]
    /\ disturbances \in 0 .. MaxDisturbances

(* The cards the settings let in now, said without an order or a queue:    *)
(* lessons without a row, of a type that is on and whose kana are learned, *)
(* whose easier levels the dashboard shows as mastered, or whose level was *)
(* picked.                                                                 *)
Eligible(k) ==
    LET s == Settings
        level == Items[k.item].level
        kana == TypeProgress("kana")
    IN  /\ cards[k] = "none" /\ k \in Lessons(TypeOf(k))
        /\ s.enabled[TypeOf(k)]
        /\ s.gate[TypeOf(k)] =>
               100 * kana.review >= s.threshold * kana.total
        /\ TypeOf(k) # "kana" =>
               /\ s.policy = "pinned_levels" => level \in s.active
               /\ s.policy = "mastery_unlock" =>
                      \A easier \in level + 1 .. 5 :
                          LET shown == LevelProgress(TypeOf(k), easier)
                          IN  100 * shown.review >= s.mastery * shown.total
        /\ Limit(TypeOf(k)) # 0 => introduced[TypeOf(k)] < Limit(TypeOf(k))

Orphan(k) == k.item \notin DOMAIN Items

(* When there is nothing to study, nothing is left: no card is eligible,   *)
(* and a card that is due has lost its item, or stands behind as many that *)
(* have as are looked through.                                             *)
NothingLeftBehind ==
    Offer = {} =>
        /\ \A k \in Cards : ~Eligible(k)
        /\ \A i \in DOMAIN due : Orphan(due[i]) \/ i > Scan

(* A new card on offer is an eligible one of the easiest level there is,   *)
(* and no card that is due and can be found waits behind it.               *)
OfferIsRight ==
    \A k \in Offer : cards[k] = "none" =>
        /\ Eligible(k)
        /\ \A j \in Cards : Eligible(j) /\ TypeOf(j) = TypeOf(k) =>
               Items[j.item].level <= Items[k.item].level
        /\ \A i \in DOMAIN due : Orphan(due[i]) \/ i > Scan

(* A deck that only grows at its end leaves every card with its note,      *)
(* homographs included: what a learner knows is never another word.        *)
CardsKeepTheirNote ==
    [][IsPrefix(Decks[deck], Decks[deck']) =>
           \A i \in DOMAIN Decks[deck] :
               LET id == ContentOf[deck].vocab[i].id
               IN  {j \in DOMAIN Decks[deck'] : ContentOf[deck'].vocab[j].id = id} = {i}]_vars

(* What is said to be left follows what the learner does: while settings,  *)
(* content and the cards in Review stay as they are and the day goes on,   *)
(* new_remaining loses exactly the cards of the type that are introduced,  *)
(* and answering or the coming due of other cards changes nothing.         *)
NewCards(type) == {k \in Cards : TypeOf(k) = type /\ cards[k] = "none"}

TheDayGoesOn == \A t \in Types : introduced[t] <= introduced'[t]

CountsFollow ==
    [][UNCHANGED <<deck, stored, InState(Cards, "review")>> /\ TheDayGoesOn =>
           \A t \in Types :
               Remaining(t)' = Remaining(t) - Cardinality(NewCards(t) \ NewCards(t)')]_vars

(* Settings and content change only so often here.  A learner who gets to  *)
(* the end of what is on offer again and again is then introduced to every *)
(* lesson the settings ask for, unless rows without an item fill the scan. *)
Wanted(k) ==
    /\ k \in Lessons(TypeOf(k)) /\ Settings.enabled[TypeOf(k)]
    /\ TypeOf(k) # "kana" /\ Settings.policy = "pinned_levels" =>
           Items[k.item].level \in Settings.active
    /\ Cardinality({j \in Cards : Orphan(j) /\ cards[j] # "none"}) < Scan

EveryLessonComes ==
    []<>(Offer = {}) => []<>(\A k \in Cards : Wanted(k) => cards[k] # "none")

=============================================================================
