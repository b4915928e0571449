--------------------------- MODULE AnswerChoices ---------------------------
(***************************************************************************)
(* The answers a card accepts (services/answer_key.py), the way it is      *)
(* asked, and the options of a multiple choice (services/distractors.py),  *)
(* taken from the content and the settings of StudyPlan.                   *)
(***************************************************************************)
EXTENDS StudyPlan

CONSTANTS
    MoreNotes,     \* more notes of each deck, and more kana: choices are taken
    MoreKana,      \* from them too, but StudyPlan does not follow their cards
    WantedOptions  \* _WANTED: how many wrong options there are

ASSUME ChoicesAssumption ==
    /\ MoreNotes \in Seq(Notes) /\ \A d \in DOMAIN Decks : Importable(Decks[d] \o MoreNotes)
    /\ MoreKana \in Seq(Kana) /\ EachOnce(KanaTable \o MoreKana)
    /\ WantedOptions \in Nat

-----------------------------------------------------------------------------
(* Answers, the preferred one first *)

RomajiVariants ==
    [shi |-> "si", chi |-> "ti", tsu |-> "tu", fu |-> "hu", ji |-> "zi", zu |-> "du",
     sha |-> "sya", shu |-> "syu", sho |-> "syo", cha |-> "tya", chu |-> "tyu",
     cho |-> "tyo", ja |-> "zya", ju |-> "zyu", jo |-> "zyo"]

(* The hiragana ji and di, zu and du, sound the same. *)
Homophones == {{<<12376>>, <<12386>>}, {<<12378>>, <<12389>>}}

Variants(romaji) ==
    IF romaji \in DOMAIN RomajiVariants THEN <<RomajiVariants[romaji]>> ELSE << >>

Homophone(char) == SetToSeq((UNION {pair \in Homophones : char \in pair}) \ {char})

AcceptedAnswers(direction, item) ==
    CASE direction = "glyph_to_sound" -> <<item.romaji>> \o Variants(item.romaji)
      [] direction = "sound_to_glyph" -> <<item.char>> \o Homophone(item.char)
      [] direction = "kanji_to_meaning" -> item.details.meanings
      [] direction = "kanji_to_reading" -> item.details.on \o item.details.kun
      [] direction = "meaning_to_kanji" -> <<item.char>>
      [] direction = "recognition" ->
             <<item.meaning>> \o (IF item.more = "" THEN << >> ELSE <<item.more>>)
      [] direction = "recall" -> <<item.expression>>

(* A card with nothing to grade against is only flipped. *)
Mode(setting, dir, item) ==
    IF AcceptedAnswers(dir, item) = << >> THEN "flip" ELSE setting

-----------------------------------------------------------------------------
(* Choices *)

(* The other lessons of the type in bands: those of the item's own level,  *)
(* of the active levels and without a level, and the rest.                 *)
Bands(catalog, item, active) ==
    LET others == {e \in catalog : e.item # item.id}
        same == {e \in others : e.level = item.level}
        near == {e \in others \ same : e.level \in active \cup {NoLevel}}
    IN  <<same, near, others \ (same \cup near)>>

(* Each band is shuffled. *)
RankedPools(bands) ==
    {a \o b \o c : a \in SetToSeqs(bands[1]), b \in SetToSeqs(bands[2]), c \in SetToSeqs(bands[3])}

Script(item) == IF item.type = "kana" THEN item.script ELSE "none"

(* Mutant: an answer that is there already is taken again. *)
IsWrong_Again(dir, item, other, chosen) ==
    /\ Script(other) = Script(item)
    /\ AcceptedAnswers(dir, other) # << >>
    /\ AcceptedAnswers(dir, other)[1] # AcceptedAnswers(dir, item)[1]

(* The other item gives a wrong option that is not there yet. *)
IsWrong(dir, item, other, chosen) ==
    /\ Script(other) = Script(item)
    /\ AcceptedAnswers(dir, other) # << >>
    /\ AcceptedAnswers(dir, other)[1] \notin {AcceptedAnswers(dir, item)[1]} \cup Range(chosen)

(* The wrong options taken from a ranked pool, entry by entry. *)
Taken(dir, item, other, chosen) ==
    IF Len(chosen) < WantedOptions /\ IsWrong(dir, item, other, chosen)
    THEN Append(chosen, AcceptedAnswers(dir, other)[1])
    ELSE chosen

Chosen(items, dir, item, pool) ==
    LET chosen[n \in 0 .. Len(pool)] ==
            IF n = 0 THEN << >> ELSE Taken(dir, item, items[pool[n].item], chosen[n - 1])
    IN  chosen

Distractors(items, dir, item, pool) == Chosen(items, dir, item, pool)[Len(pool)]

-----------------------------------------------------------------------------
FairChoices(content, type, dir, item, active) ==
    LET items == ItemsById(content)
        bands == Bands(Catalog(content, type), item, active)
        right == AcceptedAnswers(dir, item)[1]
        Usable(e) == /\ AcceptedAnswers(dir, items[e.item]) # << >>
                     /\ Script(items[e.item]) = Script(item)
        Answers(S) == {AcceptedAnswers(dir, items[e.item])[1] : e \in {f \in S : Usable(f)}}
        all == Answers(UNION Range(bands)) \ {right}
        own == Answers(bands[1]) \ {right}
    IN  \A pool \in RankedPools(bands) :
            LET wrong == Distractors(items, dir, item, pool)
            IN  /\ IsInjective(wrong) /\ Range(wrong) \subseteq all
                /\ Len(wrong) = Min({WantedOptions, Cardinality(all)})
                /\ Range(wrong) \subseteq own \/ own \subseteq Range(wrong)

(* The active levels that make the options of every item of a deck fair.   *)
FairFor ==
    [d \in DOMAIN Decks |->
        LET content == Build(Decks[d] \o MoreNotes, KanaTable \o MoreKana)
            Multiple(dir, item) == Mode("multiple_choice", dir, item) = "multiple_choice"
        IN  {active \in {s.active : s \in Range(Meaning)} :
                \A type \in Types : \A dir \in Range(Directions[type]), item \in Range(content[type]) :
                    Multiple(dir, item) => FairChoices(content, type, dir, item, active)}]

(* With whatever content was built and whatever levels are active, and     *)
(* whatever the shuffle, the options are all different, the right one is   *)
(* there once, none is of the other script, there are fewer than wanted    *)
(* only when the lessons of the type have no more, and one from another    *)
(* level only when the item's own level has no more.                       *)
ChoicesAreFair == Settings.active \in FairFor[deck]

=============================================================================
