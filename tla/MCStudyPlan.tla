---------------------------- MODULE MCStudyPlan ----------------------------
(* One kana in two scripts, three notes over two levels, two of which are  *)
(* homographs, and four settings documents, one of them not valid.         *)
EXTENDS AnswerChoices

Ruby(base, reading, marked) == [base |-> base, reading |-> reading, highlighted |-> marked]
Note(expression, segments, level, meaning) ==
    [expression |-> expression, segments |-> segments, tags |-> {level},
     meaning |-> meaning, more |-> ""]

Hi == 26085
You == 26332

Day == Note(<<Hi>>, <<Ruby(<<Hi>>, <<12402>>, FALSE)>>, 5, "day")
Weekday == Note(<<You, Hi>>, <<Ruby(<<You, Hi>>, <<12424, 12358, 12403>>, FALSE)>>, 3, "weekday")
Sun == Note(<<Hi>>, <<Ruby(<<Hi>>, <<12402>>, TRUE)>>, 5, "sun")

AllDecks == [first |-> <<Day, Weekday>>, longer |-> <<Day, Weekday, Sun>>, shorter |-> <<Day>>]

ThisTable == <<[char |-> <<12376>>, romaji |-> "ji"]>>
ThisDictionary == (You :> [grade |-> 2, frequency |-> 940, meanings |-> <<"weekday">>,
                           on |-> <<"you">>, kun |-> << >>])
OneEach == [kana |-> <<"sound_to_glyph">>, kanji |-> <<"kanji_to_reading">>,
            vocab |-> <<"recognition">>]

On(S) == [t \in Types |-> t \in S]
Limits(kana, kanji, vocab) == [kana |-> kana, kanji |-> kanji, vocab |-> vocab]

Gated == [Defaults EXCEPT !.limits = Limits(1, 2, 1), !.enabled = On({"kana", "kanji"}),
                          !.gate = On({"kanji"})]
Mastery == [Defaults EXCEPT !.policy = "mastery_unlock", !.limits = Limits(0, 1, 0),
                            !.enabled = On({"kanji", "vocab"}), !.mastery = 100]
Pinned == [Defaults EXCEPT !.policy = "pinned_levels", !.active = {3},
                           !.enabled = On({"vocab", "kanji"}), !.limits = Limits(1, 1, 1)]
NoKana == [Gated EXCEPT !.enabled = On({"kanji"})]
TheDocuments == [gated |-> Gated, mastery |-> Mastery, pinned |-> Pinned, nokana |-> NoKana]

(* Choices are taken from these words too, of two more levels, one of which *)
(* means the same as another, and from two more kana, of which one sounds  *)
(* like the first; one of the kanji has no reading on file.                *)
Wood == 26408
OtherWords == <<Note(<<Wood>>, << >>, 5, "tree"), Note(<<Wood, Hi>>, << >>, 4, "day")>>
OtherKana == <<[char |-> <<12386>>, romaji |-> "ji"], [char |-> <<12402>>, romaji |-> "hi"]>>
=============================================================================
