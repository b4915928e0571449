---------------------------- MODULE ReviewLedger ----------------------------
(***************************************************************************)
(* What reviewing promises, with the requests, the clients and the         *)
(* database taken away: every card has one history of reviews, histories   *)
(* only grow, and each review continues from the one before it.            *)
(* ReviewSession implements this specification.                            *)
(***************************************************************************)
EXTENDS Naturals, Sequences

CONSTANTS
    Keys,         \* the cards: (item, direction) pairs
    Grades,       \* the grades a learner can give
    Times         \* the times at which reviews are made

Never == 0        \* the time of the last review of a card that has none

VARIABLE history  \* for each card, its reviews in the order they count

LastReview(reviews) ==
    IF reviews = << >> THEN Never ELSE reviews[Len(reviews)].at

Init == history = [k \in Keys |-> << >>]

(* A review of card k made at time t: it names the review it follows, so  *)
(* no two reviews of a card can follow the same one.                       *)
Review(k, t, g) ==
    /\ t > LastReview(history[k])
    /\ history' = [history EXCEPT ![k] =
           Append(@, [prev |-> LastReview(@), at |-> t, grade |-> g])]

Next == \E k \in Keys, t \in Times, g \in Grades : Review(k, t, g)

Spec == Init /\ [][Next]_history
=============================================================================
