---------------------------- MODULE DeckContent ----------------------------
(***************************************************************************)
(* What a content build makes of a deck: the notes an import accepts and   *)
(* the ids it gives them (services/anki_importer.py), the level of each    *)
(* kanji (services/kanji_levels.py), the kanji rows in study order         *)
(* (orchestration/content_build.py), the kana rows                         *)
(* (services/kana_source.py), and the catalogue lessons are chosen from    *)
(* (services/content_repository.py).  Everything here is a pure function.  *)
(*                                                                         *)
(* Japanese text is a sequence of code points.  A note has an expression,  *)
(* the ruby segments of its Reading field, JLPT tags, a meaning and more   *)
(* definitions.                                                            *)
(***************************************************************************)
EXTENDS Integers, Sequences, FiniteSets, Functions, FiniteSetsExt, SequencesExt

CONSTANT
    Dictionary  \* KANJIDIC2: the details of each kanji it knows

ASSUME DictionaryAssumption ==
    /\ DOMAIN Dictionary \subseteq Nat
    /\ \A c \in DOMAIN Dictionary : {Dictionary[c].grade, Dictionary[c].frequency} \subseteq Nat

Types == {"kana", "kanji", "vocab"}

Directions == [kana |-> <<"glyph_to_sound", "sound_to_glyph">>,
               kanji |-> <<"kanji_to_meaning", "kanji_to_reading", "meaning_to_kanji">>,
               vocab |-> <<"recognition", "recall">>]

(* N5, the easiest level, is 5. *)
Levels == 1 .. 5
NoLevel == 0

Rank(level) == IF level = NoLevel THEN -1 ELSE 5 - level

Before(a, b) ==
    \E i \in DOMAIN a : a[i] < b[i] /\ \A j \in 1 .. i - 1 : a[j] = b[j]

(* The members of a set in the order of their keys, which are distinct. *)
SortedBy(S, key(_)) ==
    [i \in 1 .. Cardinality(S) |->
        CHOOSE x \in S : Cardinality({y \in S : Before(key(y), key(x))}) = i - 1]

-----------------------------------------------------------------------------
(* The deck *)

KanaId(script, char) == <<"kana", script, char>>
KanjiId(char) == <<"kanji", char>>
VocabId(expression, reading) == <<"vocab", expression, reading>>
TypeOfId(id) == id[1]

(* Rubies are replaced by their readings; what is highlighted is not told. *)
PlainReading(segments) ==
    FlattenSeq([i \in DOMAIN segments |->
        IF segments[i].reading = << >> THEN segments[i].base ELSE segments[i].reading])

ToVocab(note) ==
    [type |-> "vocab", id |-> VocabId(note.expression, PlainReading(note.segments)),
     level |-> CHOOSE l \in note.tags : TRUE, expression |-> note.expression,
     meaning |-> note.meaning, more |-> note.more]

BaseId(note) == ToVocab(note).id

(* An import fails on a note without exactly one JLPT tag, and on two with *)
(* the same expression and the same raw Reading.                           *)
Importable(notes) ==
    /\ \A i \in DOMAIN notes : Cardinality(notes[i].tags) = 1
    /\ \A i, j \in DOMAIN notes :
           notes[i].expression = notes[j].expression /\ notes[i].segments = notes[j].segments => i = j

(* Mutant: homographs are numbered from the end of the deck. *)
Nth_FromTheEnd(notes, i) ==
    Cardinality({j \in i .. Len(notes) : BaseId(notes[j]) = BaseId(notes[i])})

(* Notes that reduce to the same id are numbered in deck order. *)
Nth(notes, i) == Cardinality({j \in 1 .. i : BaseId(notes[j]) = BaseId(notes[i])})

ImportVocab(notes) ==
    [i \in DOMAIN notes |->
        IF Nth(notes, i) = 1 THEN ToVocab(notes[i])
        ELSE [ToVocab(notes[i]) EXCEPT !.id = Append(@, Nth(notes, i))]]

(* The code points of the CJK unified ideographs, and of their extension A. *)
Ideographs == 19968 .. 40959
ExtensionA == 13312 .. 19903

IsKanji(c) == c \in Ideographs \/ c \in ExtensionA

ExtractKanji(text) == {c \in Range(text) : IsKanji(c)}

(* Each kanji is learned at the easiest level of a word that uses it. *)
DeriveKanjiLevels(vocab) ==
    [c \in UNION {ExtractKanji(vocab[i].expression) : i \in DOMAIN vocab} |->
        Max({vocab[i].level : i \in {j \in DOMAIN vocab : c \in ExtractKanji(vocab[j].expression)}})]

-----------------------------------------------------------------------------
(* Kanji and kana *)

NoGrade == 99
NoFrequency == 1000000000
NoDetails == [grade |-> NoGrade, frequency |-> NoFrequency,
              meanings |-> << >>, on |-> << >>, kun |-> << >>]

GetKanji(c) == IF c \in DOMAIN Dictionary THEN Dictionary[c] ELSE NoDetails

GradedKanji == {c \in DOMAIN Dictionary : IsKanji(c) /\ Dictionary[c].grade \in 1 .. 10}

MakeKanji(c, level) ==
    [type |-> "kanji", id |-> KanjiId(c), level |-> level, char |-> c, details |-> GetKanji(c)]

(* Leveled kanji come before the others, the hardest level last. *)
StudyKey(kanji) ==
    IF kanji.level = NoLevel
    THEN <<1, kanji.details.grade, kanji.details.frequency, kanji.char>>
    ELSE <<0, -kanji.level, kanji.details.frequency, kanji.char>>

BuildKanji(levels) ==
    SortedBy({MakeKanji(c, levels[c]) : c \in DOMAIN levels}
                 \cup {MakeKanji(c, NoLevel) : c \in GradedKanji \ DOMAIN levels},
             StudyKey)

Hiragana == 12353 .. 12438

(* Hiragana code points move to katakana; a yoon is two of them. *)
ToKatakana(text) ==
    [i \in DOMAIN text |-> IF text[i] \in Hiragana THEN text[i] + 96 ELSE text[i]]

MakeKana(script, char, romaji) ==
    [type |-> "kana", id |-> KanaId(script, char), level |-> NoLevel, script |-> script,
     char |-> char, romaji |-> romaji]

(* A row of the table is a hiragana with its romaji. *)
AllKana(table) ==
    [i \in DOMAIN table |-> MakeKana("hira", table[i].char, table[i].romaji)]
        \o [i \in DOMAIN table |->
                MakeKana("kata", ToKatakana(table[i].char), table[i].romaji)]

(* The rows of content.db, by table and in study order. *)
Build(notes, table) ==
    LET vocab == ImportVocab(notes)
    IN  [kana |-> AllKana(table), kanji |-> BuildKanji(DeriveKanjiLevels(vocab)), vocab |-> vocab]

-----------------------------------------------------------------------------
(* Reading content.db *)

(* Kanji the deck does not use are there to be looked up, not as lessons. *)
IsLesson(item) == item.type = "kanji" => item.level # NoLevel

(* The position of an entry is that of its row: only the order is told. *)
Catalog(content, type) ==
    LET rows == content[type]
    IN  {[item |-> rows[i].id, level |-> rows[i].level, position |-> i] :
             i \in {j \in DOMAIN rows : IsLesson(rows[j])}}

(* get_item, for each id there is. *)
ItemsById(content) ==
    LET rows == UNION {Range(content[t]) : t \in Types}
    IN  [id \in {r.id : r \in rows} |-> CHOOSE r \in rows : r.id = id]

=============================================================================
