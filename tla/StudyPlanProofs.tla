--------------------------- MODULE StudyPlanProofs ---------------------------
(***************************************************************************)
(* Proofs about StudyPlan and AnswerChoices, for any decks, dictionary,    *)
(* settings documents and bounds: what is offered is right and nothing is  *)
(* left behind, counts follow what the learner does, cards keep their      *)
(* notes, and the options of a multiple choice are fair.                   *)
(***************************************************************************)
EXTENDS AnswerChoices, FiniteSetTheorems, SequenceTheorems, NaturalsInduction,
        WellFoundedInduction, TLAPS

-----------------------------------------------------------------------------
(* Least elements and ranks *)

LEMMA LeastElement ==
    ASSUME NEW T \in SUBSET Nat, T # {}
    PROVE  \E x \in T : \A y \in T : x <= y
<1>1. PICK x \in T : \A y \in T : ~(<<y, x>> \in OpToRel(<, Nat))
  BY WFMin, NatLessThanWellFounded, Zenon
<1>2. \A y \in T : ~(y < x)
  BY <1>1, Zenon DEF OpToRel
<1>3. QED
  BY <1>2

LEMMA MinFacts ==
    ASSUME NEW T \in SUBSET Nat, T # {}
    PROVE  Min(T) \in T /\ \A y \in T : Min(T) <= y
BY LeastElement DEF Min

(* A strict order on a finite set, as a set of pairs. *)
Orders(R, S) ==
    /\ \A x \in S : <<x, x>> \notin R
    /\ \A x, y, z \in S : <<x, y>> \in R /\ <<y, z>> \in R => <<x, z>> \in R
    /\ \A x, y \in S : x = y \/ <<x, y>> \in R \/ <<y, x>> \in R

Below(R, S, x) == {y \in S : <<y, x>> \in R}

LEMMA RankFacts ==
    ASSUME NEW S, IsFiniteSet(S), NEW R, Orders(R, S)
    PROVE  /\ \A x \in S : Cardinality(Below(R, S, x)) \in 0 .. Cardinality(S) - 1
           /\ \A x, y \in S : <<x, y>> \in R =>
                  Cardinality(Below(R, S, x)) < Cardinality(Below(R, S, y))
<1>0. Cardinality(S) \in Nat
  BY FS_CardinalityType
<1>1. ASSUME NEW T, NEW y \in S, T \subseteq S \ {y}
      PROVE  IsFiniteSet(T) /\ Cardinality(T) \in 0 .. Cardinality(S) - 1
  <2>1. IsFiniteSet(S \ {y}) /\ Cardinality(S \ {y}) = Cardinality(S) - 1
    BY FS_RemoveElement
  <2>2. IsFiniteSet(T) /\ Cardinality(T) <= Cardinality(S \ {y})
    BY <1>1, <2>1, FS_Subset
  <2>3. QED
    BY <1>0, <2>1, <2>2, FS_CardinalityType
<1>2. \A x \in S : /\ IsFiniteSet(Below(R, S, x))
                   /\ Cardinality(Below(R, S, x)) \in 0 .. Cardinality(S) - 1
  <2>1. TAKE x \in S
  <2>2. Below(R, S, x) \subseteq S \ {x}
    BY DEF Below, Orders
  <2>3. QED
    BY <1>1, <2>2
<1>3. ASSUME NEW x \in S, NEW y \in S, <<x, y>> \in R
      PROVE  Cardinality(Below(R, S, x)) < Cardinality(Below(R, S, y))
  <2>1. Below(R, S, x) \subseteq Below(R, S, y)
    BY <1>3 DEF Below, Orders
  <2>2. x \in Below(R, S, y) /\ x \notin Below(R, S, x)
    BY <1>3 DEF Below, Orders
  <2>3. /\ Cardinality(Below(R, S, x)) <= Cardinality(Below(R, S, y))
        /\ Cardinality(Below(R, S, y)) # Cardinality(Below(R, S, x))
    BY <1>2, <2>1, <2>2, FS_Subset
  <2>4. Cardinality(Below(R, S, x)) \in Nat /\ Cardinality(Below(R, S, y)) \in Nat
    BY <1>2, FS_CardinalityType
  <2>5. QED
    BY <2>3, <2>4
<1>4. QED
  BY <1>2, <1>3

(* Every rank is somebody's, so that as many as there are have a rank below *)
(* a number.                                                               *)
LEMMA RanksAreCounted ==
    ASSUME NEW S, IsFiniteSet(S), NEW R, Orders(R, S)
    PROVE  /\ \A i \in 0 .. Cardinality(S) - 1 : \E x \in S : Cardinality(Below(R, S, x)) = i
           /\ \A x, y \in S : Cardinality(Below(R, S, x)) = Cardinality(Below(R, S, y)) => x = y
           /\ \A n \in Nat : Cardinality({x \in S : Cardinality(Below(R, S, x)) < n}) =
                                 IF n < Cardinality(S) THEN n ELSE Cardinality(S)
<1> DEFINE N == Cardinality(S)
           rank(x) == Cardinality(Below(R, S, x))
           all == 0 .. N - 1
           f == [x \in S |-> rank(x)]
<1>0. N \in Nat
  BY FS_CardinalityType
<1>1. IsFiniteSet(all) /\ Cardinality(all) = N
  <2>1. IsFiniteSet(all) /\ Cardinality(all) = IF 0 > N - 1 THEN 0 ELSE N - 1 - 0 + 1
    BY <1>0, FS_Interval
  <2>2. QED
    BY <1>0, <2>1
<1>2. \A x \in S : rank(x) \in all
  BY RankFacts
<1>3. \A x, y \in S : rank(x) = rank(y) => x = y
  <2>1. TAKE x \in S, y \in S
  <2>2. x = y \/ rank(x) < rank(y) \/ rank(y) < rank(x)
    BY RankFacts DEF Orders
  <2>3. rank(x) \in all /\ rank(y) \in all
    BY <1>2
  <2>4. QED
    BY <2>2, <2>3
<1> HIDE DEF rank, N
<1>4. f \in Injection(S, all)
  BY <1>2, <1>3 DEF Injection, IsInjective
<1>5. f \in Surjection(S, all)
  BY <1>1, <1>4, FS_Injection DEF N
<1>6. \A i \in all : \E x \in S : rank(x) = i
  BY <1>5 DEF Surjection
<1>7. ASSUME NEW n \in Nat
      PROVE  Cardinality({x \in S : rank(x) < n}) = IF n < N THEN n ELSE N
  <2> DEFINE T == {x \in S : rank(x) < n}
  <2>1. CASE n < N
    <3> DEFINE first == 0 .. n - 1
               g == [x \in T |-> rank(x)]
    <3>1. IsFiniteSet(T)
      BY FS_Subset
    <3>2. g \in Bijection(T, first)
      <4>1. \A x \in T : rank(x) \in first
        BY <1>2
      <4>2. \A i \in first : \E x \in T : rank(x) = i
        <5>1. TAKE i \in first
        <5>2. i \in all
          BY <1>0, <2>1
        <5>3. PICK x \in S : rank(x) = i
          BY <1>6, <5>2
        <5>4. QED
          BY <5>3
      <4>3. g \in Injection(T, first)
        BY <1>3, <4>1 DEF Injection, IsInjective
      <4>4. g \in Surjection(T, first)
        BY <4>1, <4>2 DEF Surjection
      <4>5. QED
        BY <4>3, <4>4 DEF Bijection
    <3>3. Cardinality(first) = Cardinality(T)
      BY <3>1, <3>2, FS_Bijection DEF ExistsBijection
    <3>4. Cardinality(first) = n
      <4>1. Cardinality(first) = IF 0 > n - 1 THEN 0 ELSE n - 1 - 0 + 1
        BY FS_Interval
      <4>2. QED
        BY <4>1
    <3>5. QED
      BY <2>1, <3>3, <3>4
  <2>2. CASE ~(n < N)
    <3>1. T = S
      BY <1>0, <1>2, <2>2
    <3>2. QED
      BY <2>2, <3>1 DEF N
  <2>3. QED
    BY <2>1, <2>2
<1>8. QED
  BY <1>3, <1>6, <1>7 DEF rank, N

-----------------------------------------------------------------------------
(* The orders of keys *)

LEMMA BeforeThree ==
    ASSUME NEW a \in Int, NEW b \in Int, NEW c \in Int,
           NEW x \in Int, NEW y \in Int, NEW z \in Int
    PROVE  Before(<<a, b, c>>, <<x, y, z>>) <=>
               \/ a < x
               \/ a = x /\ b < y
               \/ a = x /\ b = y /\ c < z
<1> DEFINE s == <<a, b, c>>
           t == <<x, y, z>>
<1>1. DOMAIN s = {1, 2, 3} /\ s[1] = a /\ s[2] = b /\ s[3] = c
  OBVIOUS
<1>2. t[1] = x /\ t[2] = y /\ t[3] = z
  OBVIOUS
<1>3. 1 .. 1 - 1 = {} /\ 1 .. 2 - 1 = {1} /\ 1 .. 3 - 1 = {1, 2}
  OBVIOUS
<1> HIDE DEF s, t
<1>4. Before(s, t) <=>
          \E i \in {1, 2, 3} : s[i] < t[i] /\ \A j \in 1 .. i - 1 : s[j] = t[j]
  BY <1>1 DEF Before
<1>5. (\E i \in {1, 2, 3} : s[i] < t[i] /\ \A j \in 1 .. i - 1 : s[j] = t[j]) <=>
          \/ s[1] < t[1] /\ \A j \in {} : s[j] = t[j]
          \/ s[2] < t[2] /\ \A j \in {1} : s[j] = t[j]
          \/ s[3] < t[3] /\ \A j \in {1, 2} : s[j] = t[j]
  BY <1>3
<1>6. QED
  BY <1>1, <1>2, <1>4, <1>5 DEF s, t

LEMMA BeforeFour ==
    ASSUME NEW s, NEW t, DOMAIN s = 1 .. 4
    PROVE  Before(s, t) <=>
               \/ s[1] < t[1]
               \/ s[1] = t[1] /\ s[2] < t[2]
               \/ s[1] = t[1] /\ s[2] = t[2] /\ s[3] < t[3]
               \/ s[1] = t[1] /\ s[2] = t[2] /\ s[3] = t[3] /\ s[4] < t[4]
<1>1. /\ 1 .. 1 - 1 = {} /\ 1 .. 2 - 1 = {1} /\ 1 .. 3 - 1 = {1, 2}
      /\ 1 .. 4 - 1 = {1, 2, 3} /\ 1 .. 4 = {1, 2, 3, 4}
  OBVIOUS
<1>2. Before(s, t) <=>
          \E i \in {1, 2, 3, 4} : s[i] < t[i] /\ \A j \in 1 .. i - 1 : s[j] = t[j]
  BY <1>1 DEF Before
<1>3. (\E i \in {1, 2, 3, 4} : s[i] < t[i] /\ \A j \in 1 .. i - 1 : s[j] = t[j]) <=>
          \/ s[1] < t[1] /\ \A j \in {} : s[j] = t[j]
          \/ s[2] < t[2] /\ \A j \in {1} : s[j] = t[j]
          \/ s[3] < t[3] /\ \A j \in {1, 2} : s[j] = t[j]
          \/ s[4] < t[4] /\ \A j \in {1, 2, 3} : s[j] = t[j]
  BY <1>1
<1>4. QED
  BY <1>2, <1>3

(* Lessons that have places of their own are ordered by them. *)
Placed(lessons) ==
    /\ IsFiniteSet(lessons)
    /\ \A e \in lessons : \E a, b, c \in Int : e.place = <<a, b, c>>
    /\ \A e, f \in lessons : e.place = f.place => e = f

InPlace(lessons) == {p \in lessons \X lessons : Before(p[1].place, p[2].place)}

LEMMA PlacesOrder ==
    ASSUME NEW lessons, Placed(lessons)
    PROVE  /\ Orders(InPlace(lessons), lessons)
           /\ \A e \in lessons : Below(InPlace(lessons), lessons, e) = Earlier(lessons, e)
<1> DEFINE R == InPlace(lessons)
<1>1. \A e, f \in lessons : <<e, f>> \in R <=> Before(e.place, f.place)
  BY DEF InPlace
<1>2. \A e \in lessons : <<e, e>> \notin R
  <2>1. TAKE e \in lessons
  <2>2. PICK a, b, c \in Int : e.place = <<a, b, c>>
    BY DEF Placed
  <2>3. ~Before(e.place, e.place)
    BY <2>2, BeforeThree
  <2>4. QED
    BY <1>1, <2>3
<1>3. \A e, f, g \in lessons : <<e, f>> \in R /\ <<f, g>> \in R => <<e, g>> \in R
  <2>1. TAKE e \in lessons, f \in lessons, g \in lessons
  <2>2. PICK a, b, c \in Int : e.place = <<a, b, c>>
    BY DEF Placed
  <2>3. PICK x, y, z \in Int : f.place = <<x, y, z>>
    BY DEF Placed
  <2>4. PICK u, v, w \in Int : g.place = <<u, v, w>>
    BY DEF Placed
  <2>5. Before(e.place, f.place) /\ Before(f.place, g.place) => Before(e.place, g.place)
    BY <2>2, <2>3, <2>4, BeforeThree
  <2>6. QED
    BY <1>1, <2>5
<1>4. \A e, f \in lessons : e = f \/ <<e, f>> \in R \/ <<f, e>> \in R
  <2>1. TAKE e \in lessons, f \in lessons
  <2>2. PICK a, b, c \in Int : e.place = <<a, b, c>>
    BY DEF Placed
  <2>3. PICK x, y, z \in Int : f.place = <<x, y, z>>
    BY DEF Placed
  <2>4. e.place = f.place \/ Before(e.place, f.place) \/ Before(f.place, e.place)
    BY <2>2, <2>3, BeforeThree
  <2>5. e.place = f.place => e = f
    BY DEF Placed
  <2>6. QED
    BY <1>1, <2>4, <2>5
<1>5. \A e \in lessons : Below(R, lessons, e) = Earlier(lessons, e)
  BY <1>1 DEF Below, Earlier
<1>6. QED
  BY <1>2, <1>3, <1>4, <1>5 DEF Orders

LEMMA PlacedSubset ==
    ASSUME NEW lessons, Placed(lessons), NEW some, some \subseteq lessons
    PROVE  Placed(some)
<1>1. IsFiniteSet(some)
  BY FS_Subset DEF Placed
<1>2. QED
  BY <1>1 DEF Placed

(* There is a first lesson, and each has a rank of its own. *)
LEMMA EarlierFacts ==
    ASSUME NEW lessons, Placed(lessons)
    PROVE  /\ Cardinality(lessons) \in Nat
           /\ lessons # {} => \E e \in lessons : Earlier(lessons, e) = {}
           /\ \A e \in lessons : /\ IsFiniteSet(Earlier(lessons, e))
                                 /\ Cardinality(Earlier(lessons, e)) \in Nat
           /\ \A n \in Nat :
                  Cardinality({e \in lessons : Cardinality(Earlier(lessons, e)) < n}) =
                      IF n < Cardinality(lessons) THEN n ELSE Cardinality(lessons)
<1> DEFINE R == InPlace(lessons)
           N == Cardinality(lessons)
<1>1. Orders(R, lessons) /\ \A e \in lessons : Below(R, lessons, e) = Earlier(lessons, e)
  BY PlacesOrder
<1>2. IsFiniteSet(lessons) /\ N \in Nat /\ (lessons # {} => N # 0)
  BY FS_CardinalityType, FS_EmptySet DEF Placed
<1>3. \A e \in lessons : IsFiniteSet(Earlier(lessons, e))
  <2>1. \A e \in lessons : Earlier(lessons, e) \subseteq lessons
    BY DEF Earlier
  <2>2. QED
    BY <1>2, <2>1, FS_Subset
<1>4. \A i \in 0 .. N - 1 : \E e \in lessons : Cardinality(Earlier(lessons, e)) = i
  BY <1>1, <1>2, RanksAreCounted
<1>5. \A n \in Nat : Cardinality({e \in lessons : Cardinality(Earlier(lessons, e)) < n}) =
                         IF n < N THEN n ELSE N
  <2>1. TAKE n \in Nat
  <2>2. {e \in lessons : Cardinality(Earlier(lessons, e)) < n}
            = {e \in lessons : Cardinality(Below(R, lessons, e)) < n}
    BY <1>1
  <2>3. QED
    BY <1>1, <1>2, <2>2, RanksAreCounted
<1>6. lessons # {} => \E e \in lessons : Earlier(lessons, e) = {}
  <2>1. SUFFICES ASSUME lessons # {} PROVE \E e \in lessons : Earlier(lessons, e) = {}
    OBVIOUS
  <2>2. 0 \in 0 .. N - 1
    BY <1>2, <2>1
  <2>3. PICK e \in lessons : Cardinality(Earlier(lessons, e)) = 0
    BY <1>4, <2>2
  <2>4. QED
    BY <1>3, <2>3, FS_EmptySet
<1>7. QED
  BY <1>2, <1>3, <1>5, <1>6, FS_CardinalityType

-----------------------------------------------------------------------------
(* The rows of content.db: each table is a sequence of rows of its type,   *)
(* and no id is there twice.                                               *)
Numbered(rows) == \E n \in Nat : DOMAIN rows = 1 .. n

RowsAre(rows, type) ==
    /\ Numbered(rows)
    /\ \A i \in DOMAIN rows :
           LET row == rows[i]
           IN  /\ row.type = type /\ row.id[1] = type
               /\ row.level \in Levels \cup {NoLevel}
               /\ type = "kana" => row.level = NoLevel
               /\ type = "vocab" => row.level \in Levels
    /\ \A i, j \in DOMAIN rows : rows[i].id = rows[j].id => i = j

LEMMA SequenceFacts ==
    ASSUME NEW S, NEW s \in Seq(S)
    PROVE  Len(s) \in Nat /\ DOMAIN s = 1 .. Len(s) /\ \A i \in 1 .. Len(s) : s[i] \in S
OBVIOUS

LEMMA KatakanaDiffer ==
    ASSUME NEW s \in Seq(Hiragana), NEW t \in Seq(Hiragana), ToKatakana(s) = ToKatakana(t)
    PROVE  s = t
<1>1. ASSUME NEW u \in Seq(Hiragana)
      PROVE  /\ DOMAIN ToKatakana(u) = DOMAIN u /\ DOMAIN u = 1 .. Len(u) /\ Len(u) \in Nat
             /\ \A i \in DOMAIN u : u[i] \in Int /\ ToKatakana(u)[i] = u[i] + 96
  <2>1. DOMAIN u = 1 .. Len(u) /\ Len(u) \in Nat /\ \A i \in 1 .. Len(u) : u[i] \in Hiragana
    OBVIOUS
  <2>2. Hiragana \subseteq Int
    BY DEF Hiragana
  <2>3. QED
    BY <2>1, <2>2 DEF ToKatakana
<1>2. DOMAIN s = DOMAIN t
  BY <1>1
<1>3. ASSUME NEW i \in DOMAIN s PROVE s[i] = t[i]
  <2>1. s[i] + 96 = t[i] + 96 /\ s[i] \in Int /\ t[i] \in Int
    BY <1>1, <1>2, <1>3
  <2>2. QED
    BY <2>1
<1>4. Len(s) = Len(t)
  BY <1>1, <1>2
<1>5. QED
  BY <1>1, <1>3, <1>4

(* The table twice, in hiragana and in katakana. *)
LEMMA KanaAt ==
    ASSUME NEW S, NEW table \in Seq(S)
    PROVE  LET n == Len(table)
           IN  /\ n \in Nat /\ DOMAIN AllKana(table) = 1 .. n + n
               /\ \A i \in 1 .. n : AllKana(table)[i] =
                      MakeKana("hira", table[i].char, table[i].romaji)
               /\ \A i \in n + 1 .. n + n : AllKana(table)[i] =
                      MakeKana("kata", ToKatakana(table[i - n].char), table[i - n].romaji)
<1> DEFINE n == Len(table)
           hira == [i \in DOMAIN table |-> MakeKana("hira", table[i].char, table[i].romaji)]
           kata == [i \in DOMAIN table |->
                        MakeKana("kata", ToKatakana(table[i].char), table[i].romaji)]
           Row == {hira[i] : i \in 1 .. n} \cup {kata[i] : i \in 1 .. n}
<1>1. n \in Nat /\ DOMAIN table = 1 .. n
  OBVIOUS
<1>2. hira \in [1 .. n -> Row] /\ kata \in [1 .. n -> Row]
  BY <1>1
<1> HIDE DEF n, Row
<1>3. hira \in Seq(Row) /\ kata \in Seq(Row) /\ Len(hira) = n /\ Len(kata) = n
  <2> HIDE DEF hira, kata
  <2>1. QED
    BY <1>1, <1>2
<1>4. AllKana(table) = hira \o kata
  BY DEF AllKana
<1>5. /\ DOMAIN (hira \o kata) = 1 .. n + n
      /\ \A i \in 1 .. n + n : (hira \o kata)[i] = IF i <= n THEN hira[i] ELSE kata[i - n]
  <2> HIDE DEF hira, kata
  <2>1. QED
    BY <1>1, <1>3
<1>6. \A i \in 1 .. n : hira[i] = MakeKana("hira", table[i].char, table[i].romaji)
  BY <1>1
<1>7. \A i \in 1 .. n :
          kata[i] = MakeKana("kata", ToKatakana(table[i].char), table[i].romaji)
  BY <1>1
<1> HIDE DEF hira, kata
<1>8. \A i \in n + 1 .. n + n : i - n \in 1 .. n /\ i \in 1 .. n + n /\ ~(i <= n)
  BY <1>1
<1>9. \A i \in 1 .. n : i \in 1 .. n + n /\ i <= n
  BY <1>1
<1>10. QED
  BY <1>1, <1>4, <1>5, <1>6, <1>7, <1>8, <1>9 DEF n

LEMMA KanaRows ==
    ASSUME NEW table \in Seq(Kana), EachOnce(table)
    PROVE  RowsAre(AllKana(table), "kana")
<1> DEFINE n == Len(table)
           rows == AllKana(table)
           CharOf(i) == IF i <= n THEN table[i].char ELSE ToKatakana(table[i - n].char)
           ScriptOf(i) == IF i <= n THEN "hira" ELSE "kata"
<1>1. /\ n \in Nat /\ DOMAIN table = 1 .. n
      /\ \A i \in 1 .. n : table[i].char \in Seq(Hiragana)
  <2>1. /\ n \in Nat /\ DOMAIN table = 1 .. n
        /\ \A i \in 1 .. n : table[i] \in Kana
    BY SequenceFacts
  <2>2. \A r \in Kana : r.char \in Seq(Hiragana)
    BY DEF Kana
  <2>3. QED
    BY <2>1, <2>2
<1>2. /\ DOMAIN rows = 1 .. n + n
      /\ \A i \in 1 .. n : rows[i] = MakeKana("hira", table[i].char, table[i].romaji)
      /\ \A i \in n + 1 .. n + n : rows[i] =
             MakeKana("kata", ToKatakana(table[i - n].char), table[i - n].romaji)
  BY KanaAt
<1>3. \A i \in DOMAIN rows :
          /\ rows[i].type = "kana" /\ rows[i].level = NoLevel
          /\ rows[i].id = <<"kana", ScriptOf(i), CharOf(i)>>
  <2>1. TAKE i \in DOMAIN rows
  <2>2. CASE i <= n
    <3>1. rows[i] = MakeKana("hira", table[i].char, table[i].romaji)
      BY <1>1, <1>2, <2>2
    <3>2. QED
      BY <2>2, <3>1 DEF MakeKana, KanaId
  <2>3. CASE ~(i <= n)
    <3>1. rows[i] = MakeKana("kata", ToKatakana(table[i - n].char), table[i - n].romaji)
      BY <1>1, <1>2, <2>3
    <3>2. QED
      BY <2>3, <3>1 DEF MakeKana, KanaId
  <2>4. QED
    BY <2>2, <2>3
<1> HIDE DEF n, rows
<1>4. ASSUME NEW i \in DOMAIN rows, NEW j \in DOMAIN rows, rows[i].id = rows[j].id
      PROVE  i = j
  <2>1. ScriptOf(i) = ScriptOf(j) /\ CharOf(i) = CharOf(j)
    <3> HIDE DEF ScriptOf, CharOf
    <3>1. QED
      BY <1>3, <1>4
  <2>2. i \in 1 .. n + n /\ j \in 1 .. n + n /\ (i <= n <=> j <= n)
    BY <1>2, <2>1
  <2>3. CASE i <= n
    BY <1>1, <2>1, <2>2, <2>3 DEF EachOnce
  <2>4. CASE ~(i <= n)
    <3>1. i - n \in 1 .. n /\ j - n \in 1 .. n
      BY <1>1, <2>2, <2>4
    <3>2. ToKatakana(table[i - n].char) = ToKatakana(table[j - n].char)
      BY <2>1, <2>2, <2>4
    <3>3. table[i - n].char = table[j - n].char
      BY <1>1, <3>1, <3>2, KatakanaDiffer
    <3>4. i - n = j - n
      BY <1>1, <3>1, <3>3 DEF EachOnce
    <3>5. QED
      BY <1>1, <2>2, <3>4
  <2>5. QED
    BY <2>3, <2>4
<1>5. Numbered(rows)
  <2>1. n + n \in Nat
    BY <1>1
  <2>2. QED
    BY <1>2, <2>1 DEF Numbered
<1>6. \A i \in DOMAIN rows : rows[i].id[1] = "kana"
  BY <1>3
<1>7. QED
  BY <1>3, <1>4, <1>5, <1>6 DEF RowsAre, rows

LEMMA AppendFacts ==
    ASSUME NEW S, NEW s \in Seq(S), NEW e \in S
    PROVE  /\ Append(s, e) \in Seq(S) /\ Len(Append(s, e)) = Len(s) + 1
           /\ Append(s, e)[Len(s) + 1] = e
           /\ \A i \in 1 .. Len(s) : Append(s, e)[i] = s[i]
OBVIOUS

(* Homographs are told apart by their numbers. *)
LEMMA AppendThree ==
    ASSUME NEW a, NEW b, NEW c, NEW n
    PROVE  Append(<<a, b, c>>, n) = <<a, b, c, n>>
<1> DEFINE S == {a, b, c, n}
           s == <<a, b, c>>
           t == <<a, b, c, n>>
<1>1. s \in Seq(S) /\ Len(s) = 3 /\ s[1] = a /\ s[2] = b /\ s[3] = c
  OBVIOUS
<1>2. t \in Seq(S) /\ Len(t) = 4 /\ t[1] = a /\ t[2] = b /\ t[3] = c /\ t[4] = n
  OBVIOUS
<1>3. n \in S
  OBVIOUS
<1> HIDE DEF s, t, S
<1>4. /\ Append(s, n) \in Seq(S) /\ Len(Append(s, n)) = 4 /\ Append(s, n)[4] = n
      /\ \A i \in 1 .. 3 : Append(s, n)[i] = s[i]
  <2>1. /\ Append(s, n) \in Seq(S) /\ Len(Append(s, n)) = Len(s) + 1
        /\ Append(s, n)[Len(s) + 1] = n
        /\ \A i \in 1 .. Len(s) : Append(s, n)[i] = s[i]
    BY <1>1, <1>3, AppendFacts
  <2>2. QED
    BY <1>1, <2>1
<1>5. \A i \in 1 .. 4 : Append(s, n)[i] = t[i]
  BY <1>1, <1>2, <1>4
<1>6. Append(s, n) = t
  BY <1>2, <1>4, <1>5, SeqEqual
<1>7. QED
  BY <1>6 DEF s, t

LEMMA BaseIdIs ==
    ASSUME NEW note
    PROVE  BaseId(note) = <<"vocab", note.expression, PlainReading(note.segments)>>
BY DEF BaseId, ToVocab, VocabId

LEMMA NthGrows ==
    ASSUME NEW notes, NEW n \in Nat, DOMAIN notes = 1 .. n,
           NEW i \in 1 .. n, NEW j \in 1 .. n, i < j, BaseId(notes[i]) = BaseId(notes[j])
    PROVE  Nth(notes, i) # Nth(notes, j)
<1> DEFINE A == {k \in 1 .. i : BaseId(notes[k]) = BaseId(notes[i])}
           B == {k \in 1 .. j : BaseId(notes[k]) = BaseId(notes[j])}
<1>1. IsFiniteSet(B)
  <2>1. IsFiniteSet(1 .. j)
    BY FS_Interval
  <2>2. QED
    BY <2>1, FS_Subset
<1>2. A \subseteq B /\ j \in B /\ j \notin A
  OBVIOUS
<1>3. Cardinality(A) # Cardinality(B)
  <2> HIDE DEF A, B
  <2>1. QED
    BY <1>1, <1>2, FS_Subset
<1>4. QED
  BY <1>3 DEF Nth

LEMMA VocabAt ==
    ASSUME NEW notes, NEW i \in DOMAIN notes
    PROVE  LET row == ImportVocab(notes)[i]
           IN  /\ row.type = "vocab"
               /\ row.id = IF Nth(notes, i) = 1 THEN BaseId(notes[i])
                           ELSE Append(BaseId(notes[i]), Nth(notes, i))
               /\ row.level = CHOOSE l \in notes[i].tags : TRUE
               /\ row.expression = notes[i].expression
<1> DEFINE note == notes[i]
           new == ToVocab(note)
           row == ImportVocab(notes)[i]
<1>1. row = IF Nth(notes, i) = 1 THEN new ELSE [new EXCEPT !.id = Append(@, Nth(notes, i))]
  BY DEF ImportVocab
<1>2. /\ new.type = "vocab" /\ new.id = BaseId(note)
      /\ new.level = CHOOSE l \in note.tags : TRUE
      /\ new.expression = note.expression
  BY DEF ToVocab, BaseId
<1>3. ASSUME NEW x
      PROVE  LET r == [new EXCEPT !.id = x]
             IN  r.type = new.type /\ r.id = x /\ r.level = new.level
                 /\ r.expression = new.expression
  BY DEF ToVocab
<1> HIDE DEF new, row
<1>4. QED
  BY <1>1, <1>2, <1>3 DEF row

LEMMA VocabRows ==
    ASSUME NEW notes \in Seq(Notes), Importable(notes)
    PROVE  RowsAre(ImportVocab(notes), "vocab")
<1> DEFINE n == Len(notes)
           rows == ImportVocab(notes)
<1>1. n \in Nat /\ DOMAIN notes = 1 .. n /\ DOMAIN rows = 1 .. n
      /\ \A i \in 1 .. n : notes[i] \in Notes
  BY SequenceFacts DEF ImportVocab
<1> HIDE DEF n, rows
<1>2. ASSUME NEW i \in 1 .. n
      PROVE  rows[i].type = "vocab" /\ rows[i].id[1] = "vocab" /\ rows[i].level \in Levels
  <2>1. /\ rows[i].type = "vocab"
        /\ rows[i].id = IF Nth(notes, i) = 1 THEN BaseId(notes[i])
                        ELSE Append(BaseId(notes[i]), Nth(notes, i))
        /\ rows[i].level = CHOOSE l \in notes[i].tags : TRUE
    BY <1>1, VocabAt DEF rows
  <2>2. rows[i].id[1] = "vocab"
    <3> DEFINE p == Nth(notes, i)
    <3>1. PICK r, s : BaseId(notes[i]) = <<"vocab", r, s>>
      BY BaseIdIs
    <3> HIDE DEF p
    <3>2. Append(<<"vocab", r, s>>, p) = <<"vocab", r, s, p>>
      BY AppendThree
    <3>3. rows[i].id = <<"vocab", r, s>> \/ rows[i].id = <<"vocab", r, s, p>>
      BY <2>1, <3>1, <3>2 DEF p
    <3>4. QED
      BY <3>3
  <2>3. notes[i].tags \subseteq Levels
    <3>1. \A r \in Notes : r.tags \subseteq Levels
      BY DEF Notes
    <3>2. QED
      BY <1>1, <3>1
  <2>4. notes[i].tags # {}
    <3>1. Cardinality(notes[i].tags) = 1
      BY <1>1 DEF Importable
    <3>2. Cardinality({}) = 0
      BY FS_EmptySet
    <3>3. 0 # 1
      OBVIOUS
    <3>4. QED
      BY <3>1, <3>2, <3>3, Zenon
  <2>5. QED
    BY <2>1, <2>2, <2>3, <2>4
<1>3. ASSUME NEW i \in 1 .. n, NEW j \in 1 .. n, i < j
      PROVE  rows[i].id # rows[j].id
  <2> DEFINE a == BaseId(notes[i])
             b == BaseId(notes[j])
             p == Nth(notes, i)
             q == Nth(notes, j)
  <2>1. /\ rows[i].id = IF p = 1 THEN a ELSE Append(a, p)
        /\ rows[j].id = IF q = 1 THEN b ELSE Append(b, q)
    BY <1>1, VocabAt DEF rows
  <2>2. PICK r, s : a = <<"vocab", r, s>>
    BY BaseIdIs
  <2>3. PICK t, u : b = <<"vocab", t, u>>
    BY BaseIdIs
  <2>4. a = b => p # q
    BY <1>1, <1>3, NthGrows
  <2> HIDE DEF a, b, p, q
  <2>5. Append(a, p) = <<"vocab", r, s, p>> /\ Append(b, q) = <<"vocab", t, u, q>>
    BY <2>2, <2>3, AppendThree
  <2>6. CASE p = 1 /\ q = 1
    BY <2>1, <2>4, <2>6
  <2>7. CASE p = 1 /\ q # 1
    BY <2>1, <2>2, <2>5, <2>7
  <2>8. CASE p # 1 /\ q = 1
    BY <2>1, <2>3, <2>5, <2>8
  <2>9. CASE p # 1 /\ q # 1
    BY <2>1, <2>2, <2>3, <2>4, <2>5, <2>9
  <2>10. QED
    BY <2>6, <2>7, <2>8, <2>9
<1>4. \A i, j \in 1 .. n : rows[i].id = rows[j].id => i = j
  <2>1. TAKE i \in 1 .. n, j \in 1 .. n
  <2>2. i = j \/ i < j \/ j < i
    BY <1>1
  <2>3. QED
    BY <1>3, <2>2
<1>5. Numbered(rows)
  BY <1>1 DEF Numbered
<1>6. QED
  BY <1>1, <1>2, <1>4, <1>5 DEF RowsAre, rows

-----------------------------------------------------------------------------
(* The kanji rows *)

LEMMA MaxOfLevels ==
    ASSUME NEW T \in SUBSET Levels, T # {}
    PROVE  Max(T) \in T
<1>1. Levels = {1, 2, 3, 4, 5}
  BY DEF Levels
<1>2. \E x \in T : \A y \in T : x >= y
  <2>1. CASE 5 \in T
    BY <1>1, <2>1
  <2>2. CASE 5 \notin T /\ 4 \in T
    BY <1>1, <2>2
  <2>3. CASE 5 \notin T /\ 4 \notin T /\ 3 \in T
    BY <1>1, <2>3
  <2>4. CASE 5 \notin T /\ 4 \notin T /\ 3 \notin T /\ 2 \in T
    BY <1>1, <2>4
  <2>5. CASE 5 \notin T /\ 4 \notin T /\ 3 \notin T /\ 2 \notin T
    <3>1. \A x \in T : x = 1
      BY <1>1, <2>5
    <3>2. PICK x \in T : TRUE
      OBVIOUS
    <3>3. QED
      BY <3>1, <3>2
  <2>6. QED
    BY <2>1, <2>2, <2>3, <2>4, <2>5
<1>3. QED
  BY <1>2, Zenon DEF Max

LEMMA DerivedLevels ==
    ASSUME NEW vocab, \A i \in DOMAIN vocab : vocab[i].level \in Levels
    PROVE  LET levels == DeriveKanjiLevels(vocab)
           IN  \A c \in DOMAIN levels : IsKanji(c) /\ levels[c] \in Levels
<1> DEFINE levels == DeriveKanjiLevels(vocab)
           Words(c) == {j \in DOMAIN vocab : c \in ExtractKanji(vocab[j].expression)}
           All == UNION {ExtractKanji(vocab[i].expression) : i \in DOMAIN vocab}
<1>1. DOMAIN levels = All /\ \A c \in All : levels[c] = Max({vocab[i].level : i \in Words(c)})
  BY DEF DeriveKanjiLevels
<1>2. ASSUME NEW c \in All
      PROVE  IsKanji(c) /\ Words(c) # {}
  <2>1. PICK i \in DOMAIN vocab : c \in ExtractKanji(vocab[i].expression)
    OBVIOUS
  <2>2. QED
    BY <2>1 DEF ExtractKanji
<1> HIDE DEF levels, All, Words
<1>3. ASSUME NEW c \in All
      PROVE  levels[c] \in Levels
  <2> DEFINE T == {vocab[i].level : i \in Words(c)}
  <2>1. T \in SUBSET Levels /\ T # {}
    BY <1>2 DEF Words
  <2> HIDE DEF T
  <2>2. Max(T) \in Levels
    BY <2>1, MaxOfLevels
  <2>3. QED
    BY <1>1, <2>2 DEF T
<1>4. QED
  BY <1>1, <1>2, <1>3 DEF levels

(* The kanji of a deck and the graded ones, each with the level it has.    *)
LevelIn(levels, c) == IF c \in DOMAIN levels THEN levels[c] ELSE NoLevel
KanjiOf(levels) == {MakeKanji(c, LevelIn(levels, c)) : c \in DOMAIN levels \cup GradedKanji}

(* The kanji are finitely many code points. *)
AllKanji == Ideographs \cup ExtensionA

LEMMA KanjiAreCodes == IsFiniteSet(AllKanji) /\ AllKanji \subseteq Nat
<1>1. IsFiniteSet(Ideographs)
  <2> DEFINE first == 19968
             last == 40959
  <2>1. first \in Int /\ last \in Int /\ Ideographs = first .. last
    BY SMT DEF Ideographs
  <2> HIDE DEF first, last
  <2>2. QED
    BY <2>1, FS_Interval
<1>2. IsFiniteSet(ExtensionA)
  <2> DEFINE first == 13312
             last == 19903
  <2>1. first \in Int /\ last \in Int /\ ExtensionA = first .. last
    BY SMT DEF ExtensionA
  <2> HIDE DEF first, last
  <2>2. QED
    BY <2>1, FS_Interval
<1>3. IsFiniteSet(AllKanji)
  BY <1>1, <1>2, FS_Union DEF AllKanji
<1>4. Ideographs \subseteq Nat
  BY DEF Ideographs
<1>5. ExtensionA \subseteq Nat
  BY DEF ExtensionA
<1>6. QED
  BY <1>3, <1>4, <1>5 DEF AllKanji

LEMMA LevelsAre ==
    ASSUME NEW levels, \A c \in DOMAIN levels : IsKanji(c) /\ levels[c] \in Levels,
           NEW c \in DOMAIN levels \cup GradedKanji
    PROVE  IsKanji(c) /\ c \in AllKanji /\ LevelIn(levels, c) \in Levels \cup {NoLevel}
<1>1. IsKanji(c)
  BY DEF GradedKanji
<1>2. c \in AllKanji
  BY <1>1 DEF IsKanji, AllKanji
<1>3. LevelIn(levels, c) \in Levels \cup {NoLevel}
  BY DEF LevelIn
<1>4. QED
  BY <1>1, <1>2, <1>3

LEMMA KanjiAre ==
    ASSUME NEW levels, \A c \in DOMAIN levels : IsKanji(c) /\ levels[c] \in Levels
    PROVE  /\ BuildKanji(levels) = SortedBy(KanjiOf(levels), StudyKey)
           /\ IsFiniteSet(KanjiOf(levels))
           /\ \A k \in KanjiOf(levels) :
                  /\ k.type = "kanji" /\ k.id = <<"kanji", k.char>>
                  /\ k.level \in Levels \cup {NoLevel}
                  /\ DOMAIN StudyKey(k) = 1 .. 4 /\ StudyKey(k)[4] = k.char
                  /\ \A i \in 1 .. 4 : StudyKey(k)[i] \in Int
           /\ \A k, m \in KanjiOf(levels) : k.char = m.char => k = m
<1> DEFINE D == DOMAIN levels \cup GradedKanji
           lev(c) == LevelIn(levels, c)
           row(c) == MakeKanji(c, lev(c))
           S == KanjiOf(levels)
           g == [c \in D |-> row(c)]
<1>1. \A c \in D : IsKanji(c) /\ c \in AllKanji /\ lev(c) \in Levels \cup {NoLevel}
  BY LevelsAre
<1>2. S = {MakeKanji(c, levels[c]) : c \in DOMAIN levels}
              \cup {MakeKanji(c, NoLevel) : c \in GradedKanji \ DOMAIN levels}
  BY DEF KanjiOf, LevelIn
<1>3. BuildKanji(levels) = SortedBy(S, StudyKey)
  BY <1>2 DEF BuildKanji, SortedBy
<1>4. IsFiniteSet(S)
  <2>1. IsFiniteSet(AllKanji)
    BY KanjiAreCodes
  <2>2. D \subseteq AllKanji
    BY <1>1
  <2>3. IsFiniteSet(D)
    <3> HIDE DEF D
    <3>1. QED
      BY <2>1, <2>2, FS_Subset
  <2>4. g \in Surjection(D, S)
    BY DEF Surjection, KanjiOf
  <2>5. QED
    BY <2>3, <2>4, FS_Surjection
<1>5. ASSUME NEW c \in Nat
      PROVE  GetKanji(c).grade \in Nat /\ GetKanji(c).frequency \in Nat
  BY DictionaryAssumption DEF GetKanji, NoDetails, NoGrade, NoFrequency
<1>6. ASSUME NEW c \in D
      PROVE  /\ row(c).type = "kanji" /\ row(c).id = <<"kanji", c>> /\ row(c).char = c
             /\ row(c).level = lev(c)
             /\ DOMAIN StudyKey(row(c)) = 1 .. 4 /\ StudyKey(row(c))[4] = c
             /\ \A i \in 1 .. 4 : StudyKey(row(c))[i] \in Int
  <2>1. /\ row(c).type = "kanji" /\ row(c).id = <<"kanji", c>> /\ row(c).char = c
        /\ row(c).level = lev(c) /\ row(c).details = GetKanji(c)
    BY DEF MakeKanji, KanjiId
  <2>2. c \in Nat /\ lev(c) \in Int
    <3>1. c \in AllKanji /\ lev(c) \in Levels \cup {NoLevel}
      BY <1>1
    <3> HIDE DEF lev
    <3>2. QED
      BY <3>1, KanjiAreCodes DEF Levels, NoLevel
  <2> HIDE DEF row, lev
  <2>3. StudyKey(row(c)) = IF lev(c) = NoLevel
                           THEN <<1, GetKanji(c).grade, GetKanji(c).frequency, c>>
                           ELSE <<0, -lev(c), GetKanji(c).frequency, c>>
    BY <2>1 DEF StudyKey
  <2>4. GetKanji(c).grade \in Int /\ GetKanji(c).frequency \in Int /\ -lev(c) \in Int
    BY <1>5, <2>2
  <2>5. PICK a, b, d \in Int : StudyKey(row(c)) = <<a, b, d, c>>
    BY <2>3, <2>4
  <2>6. /\ DOMAIN <<a, b, d, c>> = 1 .. 4 /\ <<a, b, d, c>>[4] = c
        /\ \A i \in 1 .. 4 : <<a, b, d, c>>[i] \in Int
    BY <2>2
  <2>7. QED
    BY <2>1, <2>5, <2>6
<1>7. \A k \in S : \E c \in D : k = row(c)
  BY DEF KanjiOf
<1> HIDE DEF S, D, row, lev
<1>8. \A k \in S : /\ k.type = "kanji" /\ k.id = <<"kanji", k.char>>
                   /\ k.level \in Levels \cup {NoLevel}
                   /\ DOMAIN StudyKey(k) = 1 .. 4 /\ StudyKey(k)[4] = k.char
                   /\ \A i \in 1 .. 4 : StudyKey(k)[i] \in Int
  <2>1. TAKE k \in S
  <2>2. PICK c \in D : k = row(c)
    BY <1>7
  <2>3. lev(c) \in Levels \cup {NoLevel}
    BY <1>1
  <2>4. /\ k.type = "kanji" /\ k.id = <<"kanji", c>> /\ k.char = c /\ k.level = lev(c)
        /\ DOMAIN StudyKey(k) = 1 .. 4 /\ StudyKey(k)[4] = c
        /\ \A i \in 1 .. 4 : StudyKey(k)[i] \in Int
    BY <1>6, <2>2
  <2>5. QED
    BY <2>3, <2>4
<1>9. \A k, m \in S : k.char = m.char => k = m
  BY <1>6, <1>7
<1>10. QED
  BY <1>3, <1>4, <1>8, <1>9 DEF S

KanjiInOrder(S) == {p \in S \X S : Before(StudyKey(p[1]), StudyKey(p[2]))}

LEMMA KanjiOrder ==
    ASSUME NEW S,
           \A k \in S : /\ DOMAIN StudyKey(k) = 1 .. 4 /\ StudyKey(k)[4] = k.char
                        /\ \A i \in 1 .. 4 : StudyKey(k)[i] \in Int,
           \A k, m \in S : k.char = m.char => k = m
    PROVE  /\ Orders(KanjiInOrder(S), S)
           /\ \A k \in S : Below(KanjiInOrder(S), S, k)
                               = {m \in S : Before(StudyKey(m), StudyKey(k))}
<1> DEFINE R == KanjiInOrder(S)
<1>0. \A k \in S : /\ StudyKey(k)[1] \in Int /\ StudyKey(k)[2] \in Int
                   /\ StudyKey(k)[3] \in Int /\ StudyKey(k)[4] \in Int
  OBVIOUS
<1>1. \A k, m \in S : <<k, m>> \in R <=> Before(StudyKey(k), StudyKey(m))
  BY DEF KanjiInOrder
<1>2. \A k \in S : <<k, k>> \notin R
  <2>1. TAKE k \in S
  <2>2. ~Before(StudyKey(k), StudyKey(k))
    BY <1>0, BeforeFour
  <2>3. QED
    BY <1>1, <2>2
<1>3. \A k, l, m \in S : <<k, l>> \in R /\ <<l, m>> \in R => <<k, m>> \in R
  <2>1. TAKE k \in S, l \in S, m \in S
  <2>2. Before(StudyKey(k), StudyKey(l)) /\ Before(StudyKey(l), StudyKey(m))
            => Before(StudyKey(k), StudyKey(m))
    BY <1>0, BeforeFour
  <2>3. QED
    BY <1>1, <2>2
<1>4. \A k, l \in S : k = l \/ <<k, l>> \in R \/ <<l, k>> \in R
  <2>1. TAKE k \in S, l \in S
  <2>2. \/ StudyKey(k)[4] = StudyKey(l)[4]
        \/ Before(StudyKey(k), StudyKey(l)) \/ Before(StudyKey(l), StudyKey(k))
    BY <1>0, BeforeFour
  <2>3. QED
    BY <1>1, <2>2
<1>5. \A k \in S : Below(R, S, k) = {m \in S : Before(StudyKey(m), StudyKey(k))}
  BY <1>1 DEF Below
<1>6. QED
  BY <1>2, <1>3, <1>4, <1>5 DEF Orders

LEMMA KanjiRows ==
    ASSUME NEW levels, \A c \in DOMAIN levels : IsKanji(c) /\ levels[c] \in Levels
    PROVE  RowsAre(BuildKanji(levels), "kanji")
<1> DEFINE S == KanjiOf(levels)
           n == Cardinality(S)
           R == KanjiInOrder(S)
           rows == BuildKanji(levels)
           rank(k) == Cardinality(Below(R, S, k))
<1>1. /\ rows = SortedBy(S, StudyKey)
      /\ IsFiniteSet(S) /\ n \in Nat
      /\ \A k \in S : /\ k.type = "kanji" /\ k.id = <<"kanji", k.char>>
                      /\ k.level \in Levels \cup {NoLevel}
                      /\ DOMAIN StudyKey(k) = 1 .. 4 /\ StudyKey(k)[4] = k.char
                      /\ \A i \in 1 .. 4 : StudyKey(k)[i] \in Int
      /\ \A k, m \in S : k.char = m.char => k = m
  BY KanjiAre, FS_CardinalityType
<1> HIDE DEF S
<1>2. /\ Orders(R, S)
      /\ \A k \in S : Below(R, S, k) = {m \in S : Before(StudyKey(m), StudyKey(k))}
  BY <1>1, KanjiOrder
<1>3. \A i \in 0 .. n - 1 : \E k \in S : rank(k) = i
  BY <1>1, <1>2, RanksAreCounted
<1>4. /\ DOMAIN rows = 1 .. n
      /\ \A i \in 1 .. n : rows[i] =
             CHOOSE k \in S : Cardinality({m \in S : Before(StudyKey(m), StudyKey(k))}) = i - 1
  BY <1>1 DEF SortedBy
<1> HIDE DEF rows, n, R
<1>5. ASSUME NEW i \in 1 .. n
      PROVE  rows[i] \in S /\ rank(rows[i]) = i - 1
  <2>1. i - 1 \in 0 .. n - 1
    BY <1>1
  <2>2. PICK k \in S : rank(k) = i - 1
    BY <1>3, <2>1
  <2>3. Cardinality({m \in S : Before(StudyKey(m), StudyKey(k))}) = i - 1
    BY <1>2, <2>2
  <2>4. /\ rows[i] \in S
        /\ Cardinality({m \in S : Before(StudyKey(m), StudyKey(rows[i]))}) = i - 1
    BY <1>4, <2>3
  <2>5. QED
    BY <1>2, <2>4
<1>6. ASSUME NEW i \in 1 .. n, NEW j \in 1 .. n, rows[i].id = rows[j].id
      PROVE  i = j
  <2>1. rows[i] \in S /\ rows[j] \in S
    BY <1>5
  <2>2. <<"kanji", rows[i].char>> = <<"kanji", rows[j].char>>
    <3>1. \A k \in S : k.id = <<"kanji", k.char>>
      BY <1>1
    <3>2. rows[i].id = <<"kanji", rows[i].char>> /\ rows[j].id = <<"kanji", rows[j].char>>
      BY <2>1, <3>1
    <3>3. QED
      BY <1>6, <3>2
  <2>3. rows[i] = rows[j]
    <3>1. rows[i].char = rows[j].char
      BY <2>2
    <3>2. QED
      BY <1>1, <2>1, <3>1
  <2>4. i - 1 = j - 1
    BY <1>5, <2>3
  <2>5. QED
    BY <1>1, <2>4
<1>7. ASSUME NEW i \in 1 .. n
      PROVE  /\ rows[i].type = "kanji" /\ rows[i].id[1] = "kanji"
             /\ rows[i].level \in Levels \cup {NoLevel}
  <2>1. /\ rows[i].type = "kanji" /\ rows[i].id = <<"kanji", rows[i].char>>
        /\ rows[i].level \in Levels \cup {NoLevel}
    BY <1>1, <1>5
  <2>2. QED
    BY <2>1
<1>8. Numbered(rows)
  BY <1>1, <1>4 DEF Numbered
<1>9. QED
  BY <1>4, <1>6, <1>7, <1>8 DEF RowsAre, rows

-----------------------------------------------------------------------------
(* What is built, its rows by id, and its lessons *)

LEMMA ContentRows ==
    ASSUME NEW notes \in Seq(Notes), Importable(notes),
           NEW table \in Seq(Kana), EachOnce(table)
    PROVE  \A t \in Types : RowsAre(Build(notes, table)[t], t)
<1> DEFINE vocab == ImportVocab(notes)
           kanji == BuildKanji(DeriveKanjiLevels(vocab))
           kana == AllKana(table)
<1>1. RowsAre(vocab, "vocab")
  BY VocabRows
<1>2. \A i \in DOMAIN vocab : vocab[i].level \in Levels
  BY <1>1 DEF RowsAre
<1>3. RowsAre(kana, "kana")
  BY KanaRows
<1>4. RowsAre(kanji, "kanji")
  <2> HIDE DEF vocab
  <2>1. QED
    BY <1>2, DerivedLevels, KanjiRows
<1>5. Build(notes, table) = [kana |-> kana, kanji |-> kanji, vocab |-> vocab]
  BY DEF Build
<1> HIDE DEF vocab, kanji, kana
<1>6. QED
  BY <1>1, <1>3, <1>4, <1>5 DEF Types

LEMMA ItemsAre ==
    ASSUME NEW content, \A t \in Types : RowsAre(content[t], t),
           NEW t \in Types, NEW i \in DOMAIN content[t]
    PROVE  /\ content[t][i].id \in DOMAIN ItemsById(content)
           /\ ItemsById(content)[content[t][i].id] = content[t][i]
<1> DEFINE rows == UNION {Range(content[u]) : u \in Types}
           row == content[t][i]
           found == CHOOSE r \in rows : r.id = row.id
<1>1. row \in rows
  BY DEF Range
<1>2. ASSUME NEW r \in rows, r.id = row.id
      PROVE  r = row
  <2>0. PICK u \in Types : r \in Range(content[u])
    OBVIOUS
  <2>1. PICK j \in DOMAIN content[u] : r = content[u][j]
    BY <2>0 DEF Range
  <2>2. RowsAre(content[u], u) /\ RowsAre(content[t], t)
    OBVIOUS
  <2>3. r.id[1] = u /\ row.id[1] = t
    BY <2>1, <2>2 DEF RowsAre
  <2>4. u = t
    BY <1>2, <2>3
  <2>5. j = i
    BY <1>2, <2>1, <2>2, <2>4 DEF RowsAre
  <2>6. QED
    BY <2>1, <2>4, <2>5
<1>3. found \in rows /\ found.id = row.id
  BY <1>1
<1>4. found = row
  BY <1>2, <1>3
<1>5. ItemsById(content) = [id \in {r.id : r \in rows} |-> CHOOSE r \in rows : r.id = id]
  BY DEF ItemsById
<1>6. row.id \in {r.id : r \in rows}
  BY <1>1
<1> HIDE DEF rows, row
<1>7. QED
  BY <1>4, <1>5, <1>6 DEF row

(* The lessons of a type, from its rows and the directions studied. *)
IsLessonAt(rows, i) == rows[i].type = "kanji" => rows[i].level # NoLevel

LessonsIn(rows, t) ==
    {[card |-> [item |-> rows[i].id, dir |-> Studied[t][j]],
      level |-> rows[i].level, place |-> <<Rank(rows[i].level), i, j>>] :
         i \in {n \in DOMAIN rows : IsLessonAt(rows, n)}, j \in DOMAIN Studied[t]}

LEMMA LessonsAre ==
    ASSUME NEW d \in DOMAIN Decks, NEW t \in Types
    PROVE  LessonsOf[d][t] = LessonsIn(ContentOf[d][t], t)
<1> DEFINE rows == ContentOf[d][t]
           L == {n \in DOMAIN rows : IsLessonAt(rows, n)}
           entry(i) == [item |-> rows[i].id, level |-> rows[i].level, position |-> i]
           lesson(e, j) == [card |-> [item |-> e.item, dir |-> Studied[t][j]], level |-> e.level,
                            place |-> <<Rank(e.level), e.position, j>>]
           at(i, j) == [card |-> [item |-> rows[i].id, dir |-> Studied[t][j]],
                        level |-> rows[i].level, place |-> <<Rank(rows[i].level), i, j>>]
           catalog == {entry(i) : i \in L}
<1>1. Catalog(ContentOf[d], t) = catalog
  BY DEF Catalog, IsLesson, IsLessonAt
<1>2. LessonsOf[d][t] = {lesson(e, j) : e \in catalog, j \in DOMAIN Studied[t]}
  <2>1. CatalogOf[d][t] = catalog
    BY <1>1 DEF CatalogOf
  <2> HIDE DEF catalog
  <2>2. LessonsOf[d][t] = StudyCards(CatalogOf[d][t], t)
    BY DEF LessonsOf
  <2>3. QED
    BY <2>1, <2>2 DEF StudyCards
<1>3. \A i, j : lesson(entry(i), j) = at(i, j)
  OBVIOUS
<1> HIDE DEF lesson, at, entry
<1>4. {lesson(e, j) : e \in catalog, j \in DOMAIN Studied[t]}
          = {at(i, j) : i \in L, j \in DOMAIN Studied[t]}
  BY <1>3
<1>5. QED
  BY <1>2, <1>4 DEF at, L, LessonsIn

LEMMA DeckRows ==
    ASSUME NEW d \in DOMAIN Decks
    PROVE  /\ ContentOf[d] = Build(Decks[d], KanaTable)
           /\ ItemsOf[d] = ItemsById(ContentOf[d])
           /\ \A t \in Types : RowsAre(ContentOf[d][t], t)
<1>1. ContentOf[d] = Build(Decks[d], KanaTable) /\ ItemsOf[d] = ItemsById(ContentOf[d])
  BY DEF ContentOf, ItemsOf
<1>2. Decks[d] \in Seq(Notes) /\ Importable(Decks[d])
  BY DecksAssumption
<1>3. KanaTable \in Seq(Kana) /\ EachOnce(KanaTable)
  BY KanaAssumption
<1>4. QED
  BY <1>1, <1>2, <1>3, ContentRows

(* A lesson names an item of its type at its level, has a place of its own *)
(* in the study order, and each card is one lesson.                        *)
LEMMA LessonFacts ==
    ASSUME NEW d \in DOMAIN Decks, NEW t \in Types
    PROVE  /\ Placed(LessonsOf[d][t])
           /\ \A e \in LessonsOf[d][t] :
                  /\ TypeOf(e.card) = t
                  /\ e.card.item \in DOMAIN ItemsOf[d]
                  /\ ItemsOf[d][e.card.item].level = e.level
                  /\ IF t = "kana" THEN e.level = NoLevel ELSE e.level \in Levels
                  /\ \E b, c \in Int : e.place = <<Rank(e.level), b, c>>
           /\ \A e, f \in LessonsOf[d][t] : e.card = f.card => e = f
<1> DEFINE rows == ContentOf[d][t]
           L == {n \in DOMAIN rows : IsLessonAt(rows, n)}
           J == DOMAIN Studied[t]
           at(i, j) == [card |-> [item |-> rows[i].id, dir |-> Studied[t][j]],
                        level |-> rows[i].level, place |-> <<Rank(rows[i].level), i, j>>]
           lessons == LessonsOf[d][t]
<1>1. lessons = {at(i, j) : i \in L, j \in J}
  BY LessonsAre DEF LessonsIn
<1>2. RowsAre(rows, t)
  BY DeckRows
<1>3. PICK n \in Nat : DOMAIN rows = 1 .. n
  BY <1>2 DEF RowsAre, Numbered
<1>4. /\ Len(Studied[t]) \in Nat /\ J = 1 .. Len(Studied[t])
      /\ \A i, j \in J : Studied[t][i] = Studied[t][j] => i = j
  <2>1. Studied[t] \in Seq(STRING) /\ IsInjective(Studied[t])
    BY PlanAssumption
  <2>2. QED
    BY <2>1, SequenceFacts DEF IsInjective
<1>5. \A i, j : /\ at(i, j).card.item = rows[i].id /\ at(i, j).card.dir = Studied[t][j]
                /\ at(i, j).level = rows[i].level
                /\ at(i, j).place = <<Rank(rows[i].level), i, j>>
  OBVIOUS
<1>6. ASSUME NEW i \in L
      PROVE  /\ i \in 1 .. n /\ i \in Int
             /\ rows[i].id[1] = t
             /\ rows[i].id \in DOMAIN ItemsOf[d]
             /\ ItemsOf[d][rows[i].id] = rows[i]
             /\ IF t = "kana" THEN rows[i].level = NoLevel ELSE rows[i].level \in Levels
             /\ Rank(rows[i].level) \in Int
  <2>1. i \in DOMAIN rows /\ i \in 1 .. n /\ (rows[i].type = "kanji" => rows[i].level # NoLevel)
    BY <1>3 DEF IsLessonAt
  <2>2. /\ rows[i].type = t /\ rows[i].id[1] = t /\ rows[i].level \in Levels \cup {NoLevel}
        /\ (t = "kana" => rows[i].level = NoLevel) /\ (t = "vocab" => rows[i].level \in Levels)
    BY <1>2, <2>1 DEF RowsAre
  <2>3. rows[i].id \in DOMAIN ItemsOf[d] /\ ItemsOf[d][rows[i].id] = rows[i]
    BY <2>1, DeckRows, ItemsAre
  <2>4. IF t = "kana" THEN rows[i].level = NoLevel ELSE rows[i].level \in Levels
    BY <2>1, <2>2 DEF Types
  <2> DEFINE l == rows[i].level
  <2>5. l \in Int
    BY <2>2 DEF Levels, NoLevel
  <2> HIDE DEF l
  <2>6. Rank(l) \in Int
    BY <2>5 DEF Rank
  <2>7. QED
    BY <2>1, <2>2, <2>3, <2>4, <2>6 DEF l
<1>7. \A i, j \in L : rows[i].id = rows[j].id => i = j
  BY <1>2 DEF RowsAre
<1> HIDE DEF at
<1>8. IsFiniteSet(lessons)
  <2> DEFINE g == [p \in L \X J |-> at(p[1], p[2])]
  <2>1. IsFiniteSet(L) /\ IsFiniteSet(J)
    <3>1. IsFiniteSet(1 .. n) /\ IsFiniteSet(1 .. Len(Studied[t]))
      BY <1>3, <1>4, FS_Interval
    <3>2. L \subseteq 1 .. n
      BY <1>3
    <3>3. QED
      BY <1>4, <3>1, <3>2, FS_Subset
  <2> HIDE DEF L, J
  <2>2. IsFiniteSet(L \X J)
    BY <2>1, FS_Product
  <2>3. g \in Surjection(L \X J, lessons)
    <3>1. \A p \in L \X J : g[p] \in lessons
      BY <1>1
    <3>2. ASSUME NEW e \in lessons PROVE \E p \in L \X J : g[p] = e
      <4>1. PICK i \in L, j \in J : e = at(i, j)
        BY <1>1
      <4>2. <<i, j>> \in L \X J /\ g[<<i, j>>] = at(i, j)
        OBVIOUS
      <4>3. QED
        BY <4>1, <4>2
    <3>3. g \in [L \X J -> lessons]
      BY <3>1
    <3> HIDE DEF g
    <3>4. QED
      BY <3>2, <3>3 DEF Surjection
  <2>4. QED
    BY <2>2, <2>3, FS_Surjection
<1>9. \A e \in lessons : \E i \in L, j \in J : e = at(i, j)
  BY <1>1
<1> HIDE DEF lessons, L, rows
<1>10. \A i \in L, j \in J : j \in Int /\ i \in Int
  BY <1>4, <1>6
<1>11. \A e \in lessons :
          /\ TypeOf(e.card) = t
          /\ e.card.item \in DOMAIN ItemsOf[d]
          /\ ItemsOf[d][e.card.item].level = e.level
          /\ IF t = "kana" THEN e.level = NoLevel ELSE e.level \in Levels
          /\ \E b, c \in Int : e.place = <<Rank(e.level), b, c>>
          /\ Rank(e.level) \in Int
  <2>1. TAKE e \in lessons
  <2>2. PICK i \in L, j \in J : e = at(i, j)
    BY <1>9
  <2>3. /\ e.card.item = rows[i].id /\ e.level = rows[i].level
        /\ e.place = <<Rank(e.level), i, j>>
    BY <1>5, <2>2
  <2>4. TypeOf(e.card) = t
    BY <1>6, <2>3 DEF TypeOf, TypeOfId
  <2>5. QED
    BY <1>6, <1>10, <2>3, <2>4
<1>12. \A e, f \in lessons : e.place = f.place \/ e.card = f.card => e = f
  <2>1. TAKE e \in lessons, f \in lessons
  <2>2. PICK i \in L, j \in J : e = at(i, j)
    BY <1>9
  <2>3. PICK k \in L, m \in J : f = at(k, m)
    BY <1>9
  <2>4. /\ e.place = <<Rank(rows[i].level), i, j>> /\ f.place = <<Rank(rows[k].level), k, m>>
        /\ e.card.item = rows[i].id /\ e.card.dir = Studied[t][j]
        /\ f.card.item = rows[k].id /\ f.card.dir = Studied[t][m]
    BY <1>5, <2>2, <2>3
  <2>5. e.place = f.place => i = k /\ j = m
    BY <2>4
  <2>6. e.card = f.card => i = k /\ j = m
    BY <1>4, <1>7, <2>4
  <2>7. QED
    BY <2>2, <2>3, <2>5, <2>6
<1>13. Placed(lessons)
  BY <1>8, <1>11, <1>12 DEF Placed
<1>14. QED
  BY <1>11, <1>12, <1>13 DEF lessons

-----------------------------------------------------------------------------
(* Settings, and the cards of a deck *)

LEMMA DefaultsAre == Defaults \in Document
<1> DEFINE limits == [kana |-> 20, kanji |-> 15, vocab |-> 20]
           on == [t \in Types |-> TRUE]
           off == [t \in Types |-> FALSE]
<1>1. limits \in [Types -> Nat]
  <2>1. DOMAIN limits = Types
    BY DEF Types
  <2>2. limits["kana"] \in Nat /\ limits["kanji"] \in Nat /\ limits["vocab"] \in Nat
    OBVIOUS
  <2>3. \A t \in Types : limits[t] \in Nat
    BY <2>2 DEF Types
  <2>4. limits = [t \in Types |-> limits[t]]
    BY <2>1
  <2> HIDE DEF limits
  <2>5. QED
    BY <2>3, <2>4
<1>2. on \in [Types -> BOOLEAN] /\ off \in [Types -> BOOLEAN]
  OBVIOUS
<1>3. {5} \in SUBSET Levels /\ 80 \in 0 .. 100
  BY DEF Levels
<1>4. Defaults = [policy |-> "strict_order", limits |-> limits, enabled |-> on, gate |-> off,
                  threshold |-> 80, active |-> {5}, mastery |-> 80]
  BY DEF Defaults
<1>5. "strict_order" \in Policies
  BY DEF Policies
<1> HIDE DEF limits, on, off
<1>6. QED
  BY <1>1, <1>2, <1>3, <1>4, <1>5 DEF Document

LEMMA DocumentFacts ==
    ASSUME NEW s \in Document
    PROVE  /\ s.policy \in Policies /\ s.limits \in [Types -> Nat]
           /\ s.threshold \in 0 .. 100 /\ s.mastery \in 0 .. 100
           /\ s.active \subseteq Levels
BY DEF Document

LEMMA SettingsAre ==
    ASSUME stored \in DOMAIN Meaning
    PROVE  /\ Settings \in Document
           /\ Settings.policy \in Policies
           /\ \A t \in Types : Limit(t) \in Nat
           /\ Settings.threshold \in Nat /\ Settings.mastery \in Nat
<1>1. Settings \in Document
  <2>1. stored \in DOMAIN Documents \cup {"none"}
    BY DEF Meaning
  <2>2. Settings = IF stored # "none" /\ Valid(Documents[stored]) THEN Documents[stored]
                   ELSE Defaults
    BY <2>1 DEF Settings, Meaning
  <2>3. stored # "none" => Documents[stored] \in Document
    BY <2>1, PlanAssumption DEF Range
  <2>4. QED
    BY <2>2, <2>3, DefaultsAre
<1>2. Settings.limits \in [Types -> Nat]
  BY <1>1, DocumentFacts
<1>3. QED
  BY <1>1, <1>2, DocumentFacts DEF Limit

LEMMA DeckCards ==
    ASSUME NEW d \in DOMAIN Decks, NEW t \in Types
    PROVE  /\ CardsOf[d][t] = {e.card : e \in LessonsOf[d][t]}
           /\ CardsOf[d][t] \subseteq Cards
           /\ IsFiniteSet(CardsOf[d][t])
           /\ \A k \in CardsOf[d][t] : TypeOf(k) = t
           /\ \A l \in Levels : LevelCards[d][t][l]
                  = {e.card : e \in {f \in LessonsOf[d][t] : f.level = l}}
<1> DEFINE lessons == LessonsOf[d][t]
<1>1. CardsOf[d][t] = {e.card : e \in lessons}
  BY DEF CardsOf
<1>2. CardsOf[d][t] \subseteq Cards
  BY DEF Cards
<1>3. IsFiniteSet(lessons) /\ \A e \in lessons : TypeOf(e.card) = t
  BY LessonFacts DEF Placed
<1> HIDE DEF lessons
<1>4. IsFiniteSet(CardsOf[d][t])
  <2> DEFINE g == [e \in lessons |-> e.card]
  <2>1. g \in Surjection(lessons, CardsOf[d][t])
    BY <1>1 DEF Surjection
  <2>2. QED
    BY <1>3, <2>1, FS_Surjection
<1>5. \A l \in Levels :
          LevelCards[d][t][l] = {e.card : e \in {f \in LessonsOf[d][t] : f.level = l}}
  <2>1. Levels \subseteq NoLevel .. 5
    BY DEF Levels, NoLevel
  <2>2. QED
    BY <2>1 DEF LevelCards
<1>6. QED
  BY <1>1, <1>2, <1>3, <1>4, <1>5 DEF lessons

LEMMA CardTypes ==
    ASSUME NEW k \in Cards
    PROVE  /\ TypeOf(k) \in Types
           /\ \E d \in DOMAIN Decks : k \in CardsOf[d][TypeOf(k)]
<1>1. PICK d \in DOMAIN Decks, t \in Types : k \in CardsOf[d][t]
  BY DEF Cards
<1>2. TypeOf(k) = t
  BY <1>1, DeckCards
<1>3. QED
  BY <1>1, <1>2

(* Kana are not part of a deck: they are the same in all. *)
LEMMA KanaCards ==
    ASSUME NEW d \in DOMAIN Decks
    PROVE  {k \in Cards : TypeOf(k) = "kana"} = CardsOf[d]["kana"]
<1>0. "kana" \in Types
  BY DEF Types
<1>1. ASSUME NEW e \in DOMAIN Decks
      PROVE  CardsOf[e]["kana"] = CardsOf[d]["kana"]
  <2>1. ContentOf[e]["kana"] = AllKana(KanaTable) /\ ContentOf[d]["kana"] = AllKana(KanaTable)
    <3>1. \A notes, table : Build(notes, table)["kana"] = AllKana(table)
      BY DEF Build
    <3>2. QED
      BY <3>1, DeckRows
  <2>2. LessonsOf[e]["kana"] = LessonsOf[d]["kana"]
    BY <1>0, <2>1, LessonsAre
  <2> DEFINE CardsIn(lessons) == {x.card : x \in lessons}
  <2>3. \A c \in DOMAIN Decks : CardsOf[c]["kana"] = CardsIn(LessonsOf[c]["kana"])
    BY <1>0 DEF CardsOf
  <2> HIDE DEF CardsIn
  <2>4. QED
    BY <2>2, <2>3
<1>2. \A k \in CardsOf[d]["kana"] : k \in Cards /\ TypeOf(k) = "kana"
  BY <1>0, DeckCards
<1>3. \A k \in Cards : TypeOf(k) = "kana" => k \in CardsOf[d]["kana"]
  BY <1>1, CardTypes
<1>4. QED
  BY <1>2, <1>3

-----------------------------------------------------------------------------
(* What the dashboard shows is what the gates and the levels go by. *)

LEMMA InPercent ==
    ASSUME NEW part \in Nat, NEW whole \in Nat, NEW percent \in Nat
    PROVE  Share(part, whole, percent) <=> 100 * part >= percent * whole
BY DEF Share

LEMMA GateIsShown ==
    ASSUME TypeOK
    PROVE  LET kana == TypeProgress("kana")
           IN  KanaLearned <=> 100 * kana.review >= Settings.threshold * kana.total
<1> DEFINE A == InState(Lessons("kana"), "review")
           B == {k \in InState(Cards, "review") : TypeOf(k) = "kana"}
<1>0. "kana" \in Types /\ deck \in DOMAIN Decks
  BY DEF Types, TypeOK
<1>1. A = B
  <2>1. {k \in Cards : TypeOf(k) = "kana"} = Lessons("kana")
    BY <1>0, KanaCards DEF Lessons
  <2>2. QED
    BY <2>1 DEF InState
<1>2. IsFiniteSet(Lessons("kana"))
  BY <1>0, DeckCards DEF Lessons
<1>3. A \subseteq Lessons("kana")
  BY DEF InState
<1>4. Cardinality(A) \in Nat /\ Cardinality(Lessons("kana")) \in Nat
  <2> HIDE DEF A
  <2>1. QED
    BY <1>2, <1>3, FS_Subset, FS_CardinalityType
<1>5. Settings.threshold \in Nat
  BY SettingsAre DEF TypeOK
<1>6. KanaLearned <=> 100 * Cardinality(A) >= Settings.threshold * Cardinality(Lessons("kana"))
  <2>1. KanaLearned <=> Share(Cardinality(A), Cardinality(Lessons("kana")), Settings.threshold)
    BY DEF KanaLearned
  <2> HIDE DEF A
  <2>2. QED
    BY <1>4, <1>5, <2>1, InPercent
<1>7. /\ TypeProgress("kana").review = Cardinality(B)
      /\ TypeProgress("kana").total = Cardinality(Lessons("kana"))
  BY DEF TypeProgress
<1> HIDE DEF A, B
<1>8. QED
  BY <1>1, <1>6, <1>7

LEMMA LevelKeysAre ==
    ASSUME TypeOK, NEW t \in Types, NEW l \in Levels
    PROVE  /\ IsFiniteSet(LevelKeys(t, l))
           /\ \A k \in LevelKeys(t, l) : k \in Cards /\ TypeOf(k) = t
<1>1. deck \in DOMAIN Decks
  BY DEF TypeOK
<1>2. LevelKeys(t, l) \subseteq CardsOf[deck][t]
  BY <1>1, DeckCards DEF LevelKeys
<1>3. IsFiniteSet(CardsOf[deck][t]) /\ \A k \in CardsOf[deck][t] : k \in Cards /\ TypeOf(k) = t
  BY <1>1, DeckCards
<1>4. QED
  BY <1>2, <1>3, FS_Subset

LEMMA MasteryIsShown ==
    ASSUME TypeOK, NEW t \in Types, NEW l \in Levels
    PROVE  LET shown == LevelProgress(t, l)
           IN  Mastered(t, l) <=> 100 * shown.review >= Settings.mastery * shown.total
<1> DEFINE keys == LevelKeys(t, l)
           A == InState(keys, "review")
           in == {k \in Cards : TypeOf(k) = t /\ cards[k] # "none" /\ k \in keys}
           B == InState(in, "review")
<1>1. IsFiniteSet(keys) /\ \A k \in keys : k \in Cards /\ TypeOf(k) = t
  BY LevelKeysAre
<1>2. A = B
  BY <1>1 DEF InState
<1>3. A \subseteq keys
  BY DEF InState
<1>4. Cardinality(A) \in Nat /\ Cardinality(keys) \in Nat
  <2> HIDE DEF A, keys
  <2>1. QED
    BY <1>1, <1>3, FS_Subset, FS_CardinalityType
<1>5. Settings.mastery \in Nat
  BY SettingsAre DEF TypeOK
<1>6. Mastered(t, l) <=> Share(Cardinality(A), Cardinality(keys), Settings.mastery)
  BY DEF Mastered
<1>7. LevelProgress(t, l).review = Cardinality(B) /\ LevelProgress(t, l).total = Cardinality(keys)
  BY DEF LevelProgress
<1> HIDE DEF A, B, keys
<1>8. QED
  BY <1>2, <1>4, <1>5, <1>6, <1>7, InPercent

-----------------------------------------------------------------------------
(* The plan: the cards that could be introduced, and where the next new    *)
(* card comes from.                                                        *)

LEMMA CandidateFacts ==
    ASSUME TypeOK, NEW t \in Types
    PROVE  /\ Placed(Candidates(t))
           /\ \A e \in Candidates(t) :
                  /\ e \in LessonsOf[deck][t] /\ e.card \in Cards /\ TypeOf(e.card) = t
                  /\ cards[e.card] = "none"
<1>1. deck \in DOMAIN Decks
  BY DEF TypeOK
<1>2. Candidates(t) \subseteq LessonsOf[deck][t]
  BY DEF Candidates
<1>3. Placed(LessonsOf[deck][t])
  BY <1>1, LessonFacts
<1>4. \A e \in LessonsOf[deck][t] : e.card \in Cards /\ TypeOf(e.card) = t
  BY <1>1, DeckCards
<1>5. Placed(Candidates(t))
  BY <1>2, <1>3, PlacedSubset
<1>6. QED
  BY <1>2, <1>4, <1>5 DEF Candidates

LEMMA OfferedIs ==
    ASSUME TypeOK, NEW t \in Types, NEW level \in Levels
    PROVE  Offered(t, level) <=>
               /\ Settings.policy = "pinned_levels" => level \in Settings.active
               /\ Settings.policy = "mastery_unlock" =>
                      \A easier \in level + 1 .. 5 :
                          LET shown == LevelProgress(t, easier)
                          IN  100 * shown.review >= Settings.mastery * shown.total
<1> DEFINE Shown(l) == LET shown == LevelProgress(t, l)
                       IN  100 * shown.review >= Settings.mastery * shown.total
           policy == Settings.policy
<1>1. policy \in {"strict_order", "mastery_unlock", "pinned_levels"}
  BY SettingsAre DEF TypeOK, Policies
<1>2. level # NoLevel
  BY DEF Levels, NoLevel
<1>3. \A l \in Levels : Mastered(t, l) <=> Shown(l)
  BY MasteryIsShown
<1> HIDE DEF Shown
<1>4. level \in Unlocked(t) <=> \A easier \in level + 1 .. 5 : Shown(easier)
  <2>1. level \in Unlocked(t) <=> \A m \in Levels : m > level => Mastered(t, m)
    BY DEF Unlocked
  <2>2. \A m : m \in level + 1 .. 5 <=> m \in Levels /\ m > level
    BY DEF Levels
  <2>3. QED
    BY <1>3, <2>1, <2>2
<1>5. Offered(t, level) <=>
          \/ policy = "strict_order"
          \/ policy = "mastery_unlock" /\ level \in Unlocked(t)
          \/ policy = "pinned_levels" /\ level \in Settings.active
  BY <1>2 DEF Offered
<1> HIDE DEF policy
<1>6. QED
  BY <1>1, <1>4, <1>5 DEF policy, Shown

Room(type) == Limit(type) # 0 => introduced[type] < Limit(type)

LEMMA EligibleIs ==
    ASSUME TypeOK, NEW k \in Cards
    PROVE  Eligible(k) <=> /\ \E e \in Candidates(TypeOf(k)) : e.card = k
                           /\ Allowed(TypeOf(k)) /\ Room(TypeOf(k))
<1> DEFINE t == TypeOf(k)
           level == Items[k.item].level
           Picked(l) ==
               /\ Settings.policy = "pinned_levels" => l \in Settings.active
               /\ Settings.policy = "mastery_unlock" =>
                      \A easier \in l + 1 .. 5 :
                          LET shown == LevelProgress(t, easier)
                          IN  100 * shown.review >= Settings.mastery * shown.total
<1>1. t \in Types /\ deck \in DOMAIN Decks
  BY CardTypes DEF TypeOK
<1>2. Lessons(t) = {e.card : e \in LessonsOf[deck][t]}
  BY <1>1, DeckCards DEF Lessons
<1>3. Allowed(t) <=>
          /\ Settings.enabled[t]
          /\ Settings.gate[t] => LET kana == TypeProgress("kana")
                                 IN  100 * kana.review >= Settings.threshold * kana.total
  BY GateIsShown DEF Allowed
<1>4. \A l \in Levels : Offered(t, l) <=> Picked(l)
  BY <1>1, OfferedIs
<1>5. Eligible(k) <=> /\ cards[k] = "none" /\ k \in Lessons(t)
                      /\ Allowed(t)
                      /\ t # "kana" => Picked(level)
                      /\ Room(t)
  BY <1>3 DEF Eligible, Room
<1> HIDE DEF t, level, Picked
<1>6. ASSUME NEW e \in LessonsOf[deck][t], e.card = k
      PROVE  Offered(t, e.level) <=> (t # "kana" => Picked(level))
  <2>1. /\ ItemsOf[deck][e.card.item].level = e.level
        /\ IF t = "kana" THEN e.level = NoLevel ELSE e.level \in Levels
    BY <1>1, LessonFacts
  <2>2. level = e.level
    BY <1>6, <2>1 DEF level, Items
  <2>3. t = "kana" => Offered(t, e.level)
    BY <2>1 DEF Offered
  <2>4. QED
    BY <1>4, <2>1, <2>2, <2>3
<1>7. (\E e \in Candidates(t) : e.card = k) <=>
          /\ cards[k] = "none" /\ k \in Lessons(t)
          /\ t # "kana" => Picked(level)
  <2>1. ASSUME NEW e \in Candidates(t), e.card = k
        PROVE  cards[k] = "none" /\ k \in Lessons(t) /\ (t # "kana" => Picked(level))
    <3>1. e \in LessonsOf[deck][t] /\ Offered(t, e.level) /\ cards[e.card] = "none"
      BY DEF Candidates
    <3>2. QED
      BY <1>2, <1>6, <2>1, <3>1
  <2>2. ASSUME cards[k] = "none", k \in Lessons(t), t # "kana" => Picked(level)
        PROVE  \E e \in Candidates(t) : e.card = k
    <3>1. PICK e \in LessonsOf[deck][t] : e.card = k
      BY <1>2, <2>2
    <3>2. Offered(t, e.level)
      BY <1>6, <2>2, <3>1
    <3>3. e \in Candidates(t)
      BY <2>2, <3>1, <3>2 DEF Candidates
    <3>4. QED
      BY <3>1, <3>3
  <2>3. QED
    BY <2>1, <2>2
<1>8. QED
  BY <1>5, <1>7 DEF t

LEMMA NewKeysAre ==
    ASSUME TypeOK, NEW t \in Types
    PROVE  /\ NewKeys(t) \subseteq Candidates(t) /\ Placed(NewKeys(t))
           /\ NewKeys(t) # {} => Allowed(t) /\ Room(t)
           /\ Allowed(t) /\ Room(t) /\ Candidates(t) # {} => NewKeys(t) # {}
           /\ \A e \in NewKeys(t), f \in Candidates(t) :
                  Before(f.place, e.place) => f \in NewKeys(t)
<1> DEFINE C == Candidates(t)
           rank(e) == Cardinality(Earlier(C, e))
           left == Limit(t) - introduced[t]
<1>1. Placed(C)
  BY CandidateFacts
<1>2. Limit(t) \in Nat /\ introduced[t] \in Nat
  BY SettingsAre DEF TypeOK
<1>3. /\ C # {} => \E e \in C : Earlier(C, e) = {}
      /\ \A e \in C : rank(e) \in Nat
  BY <1>1, EarlierFacts
<1>4. \A e, f \in C : Before(f.place, e.place) => rank(f) < rank(e)
  <2> DEFINE R == InPlace(C)
  <2>1. Orders(R, C) /\ \A e \in C : Below(R, C, e) = Earlier(C, e)
    BY <1>1, PlacesOrder
  <2>2. IsFiniteSet(C)
    BY <1>1 DEF Placed
  <2>3. \A e, f \in C : <<f, e>> \in R => Cardinality(Below(R, C, f)) < Cardinality(Below(R, C, e))
    <3> HIDE DEF C, R
    <3>1. QED
      BY <2>1, <2>2, RankFacts
  <2>4. \A e, f \in C : Before(f.place, e.place) => <<f, e>> \in R
    BY DEF InPlace
  <2>5. QED
    BY <2>1, <2>3, <2>4
<1>5. NewKeys(t) = IF Allowed(t)
                   THEN IF Limit(t) = 0 THEN C ELSE {e \in C : rank(e) < left}
                   ELSE {}
  BY DEF NewKeys, Take
<1>6. Room(t) <=> (Limit(t) # 0 => left > 0)
  BY <1>2 DEF Room
<1>7. left \in Int
  BY <1>2
<1> HIDE DEF C, left
<1>8. NewKeys(t) \subseteq C
  BY <1>5
<1>9. Placed(NewKeys(t))
  BY <1>1, <1>8, PlacedSubset
<1> HIDE DEF rank
<1>10. NewKeys(t) # {} => Allowed(t) /\ Room(t)
  <2>1. SUFFICES ASSUME NEW e \in NewKeys(t) PROVE Allowed(t) /\ Room(t)
    OBVIOUS
  <2>2. Allowed(t) /\ e \in C /\ (Limit(t) # 0 => rank(e) < left)
    BY <1>5
  <2>3. QED
    BY <1>3, <1>6, <1>7, <2>2
<1>11. Allowed(t) /\ Room(t) /\ C # {} => NewKeys(t) # {}
  <2>1. SUFFICES ASSUME Allowed(t), Room(t), C # {} PROVE NewKeys(t) # {}
    OBVIOUS
  <2>2. PICK e \in C : Earlier(C, e) = {}
    BY <1>3, <2>1
  <2>3. rank(e) = 0
    BY <2>2, FS_EmptySet DEF rank
  <2>4. e \in NewKeys(t)
    BY <1>5, <1>6, <2>1, <2>3
  <2>5. QED
    BY <2>4
<1>12. \A e \in NewKeys(t), f \in C : Before(f.place, e.place) => f \in NewKeys(t)
  <2>1. TAKE e \in NewKeys(t), f \in C
  <2>2. HAVE Before(f.place, e.place)
  <2>3. rank(f) < rank(e) /\ rank(f) \in Nat /\ rank(e) \in Nat
    BY <1>3, <1>4, <1>8, <2>2
  <2>4. QED
    BY <1>5, <1>7, <2>3
<1>13. QED
  BY <1>8, <1>9, <1>10, <1>11, <1>12 DEF C

(* Shares of the allowance are compared as fractions, and there is always  *)
(* a type that has the most left, the first of those in the order of types.*)
LEMMA WinnerExists ==
    ASSUME TypeOK, NEW u \in Types, NewKeys(u) # {}
    PROVE  \E t \in Types : Wins([v \in Types |-> NewKeys(v)], t)
<1> DEFINE new == [v \in Types |-> NewKeys(v)]
           In(t) == NewKeys(t) # {}
           More(a, b) == MoreLeft(a, b)
<1>1. ASSUME NEW t \in Types, In(t)
      PROVE  Left(t) \in Nat /\ Whole(t) \in Nat /\ Left(t) > 0 /\ Whole(t) > 0
  <2>1. Limit(t) \in Nat /\ introduced[t] \in Nat
    BY SettingsAre DEF TypeOK
  <2>2. Room(t)
    BY <1>1, NewKeysAre
  <2>3. QED
    BY <2>1, <2>2 DEF Room, Left, Whole
<1>2. ASSUME NEW a \in Types, NEW b \in Types, In(a), In(b), More(a, b)
      PROVE  ~More(b, a)
  <2>1. Left(a) * Whole(b) \in Int /\ Left(b) * Whole(a) \in Int
    BY <1>1, <1>2
  <2>2. QED
    BY <1>2, <2>1 DEF MoreLeft
<1>3. ASSUME NEW a \in Types, NEW b \in Types, NEW c \in Types, In(a), In(b), In(c),
             ~More(b, a), ~More(c, b)
      PROVE  ~More(c, a)
  <2>0. ASSUME NEW x \in Nat, NEW y \in Nat, NEW z \in Nat,
               NEW p \in Nat, NEW q \in Nat, NEW r \in Nat, p > 0, q > 0, r > 0,
               ~(y * p > x * q), ~(z * q > y * r)
        PROVE  ~(z * p > x * r)
    BY <2>0
  <2>1. /\ Left(a) \in Nat /\ Left(b) \in Nat /\ Left(c) \in Nat
        /\ Whole(a) \in Nat /\ Whole(b) \in Nat /\ Whole(c) \in Nat
        /\ Whole(a) > 0 /\ Whole(b) > 0 /\ Whole(c) > 0
    BY <1>1, <1>3
  <2>2. ~(Left(b) * Whole(a) > Left(a) * Whole(b)) /\ ~(Left(c) * Whole(b) > Left(b) * Whole(c))
    BY <1>3 DEF MoreLeft
  <2>3. ~(Left(c) * Whole(a) > Left(a) * Whole(c))
    BY <2>0, <2>1, <2>2
  <2>4. QED
    BY <2>3 DEF MoreLeft
<1>4. /\ TypeOrder["kana"] = 1 /\ TypeOrder["kanji"] = 2 /\ TypeOrder["vocab"] = 3
      /\ 1 < 2 /\ 2 < 3 /\ 1 < 3
  BY DEF TypeOrder
<1>5. \A t \in Types : new[t] = NewKeys(t)
  OBVIOUS
<1> HIDE DEF new
<1>6. \A t \in Types :
          Wins(new, t) <=>
              /\ In(t)
              /\ \A v \in Types \ {t} : In(v) =>
                     More(t, v) \/ (~More(v, t) /\ TypeOrder[t] < TypeOrder[v])
  BY <1>5 DEF Wins
<1> HIDE DEF In, More
<1>7. Types = {"kana", "kanji", "vocab"}
  BY DEF Types
<1> DEFINE Beats(a, b) == In(b) => More(a, b) \/ (~More(b, a) /\ TypeOrder[a] < TypeOrder[b])
<1>8. /\ Wins(new, "kana") <=> In("kana") /\ Beats("kana", "kanji") /\ Beats("kana", "vocab")
      /\ Wins(new, "kanji") <=> In("kanji") /\ Beats("kanji", "kana") /\ Beats("kanji", "vocab")
      /\ Wins(new, "vocab") <=> In("vocab") /\ Beats("vocab", "kana") /\ Beats("vocab", "kanji")
  BY <1>6, <1>7
<1>9. In("kana") \/ In("kanji") \/ In("vocab")
  BY <1>7 DEF In
<1>10. ASSUME NEW a \in Types, NEW b \in Types, In(a)
       PROVE  /\ TypeOrder[a] < TypeOrder[b] => (Beats(a, b) <=> (In(b) => ~More(b, a)))
              /\ ~(TypeOrder[a] < TypeOrder[b]) => (Beats(a, b) <=> (In(b) => More(a, b)))
  BY <1>2, <1>10
<1> HIDE DEF Beats
<1>11. Wins(new, "kana") \/ Wins(new, "kanji") \/ Wins(new, "vocab")
  BY <1>2, <1>3, <1>4, <1>7, <1>8, <1>9, <1>10
<1>12. QED
  BY <1>7, <1>11 DEF new

-----------------------------------------------------------------------------
(* The offer *)

LEMMA DueFacts ==
    ASSUME TypeOK
    PROVE  /\ Len(due) \in Nat /\ DOMAIN due = 1 .. Len(due)
           /\ \A i \in DOMAIN due : due[i] \in Cards /\ cards[due[i]] # "none"
           /\ \A k \in DueOffer : k \in Cards /\ cards[k] # "none"
           /\ DueOffer = {} => \A i \in DOMAIN due : Orphan(due[i]) \/ i > Scan
<1> DEFINE rows == {k \in Cards : cards[k] # "none"}
<1>1. due \in Seq(rows)
  BY DEF TypeOK
<1>2. Len(due) \in Nat /\ DOMAIN due = 1 .. Len(due) /\ \A i \in 1 .. Len(due) : due[i] \in rows
  <2> HIDE DEF rows
  <2>1. QED
    BY <1>1, SequenceFacts
<1>3. \A i \in DOMAIN due : due[i] \in Cards /\ cards[due[i]] # "none"
  BY <1>2
<1>4. \A k \in DueOffer : k \in Cards /\ cards[k] # "none"
  BY <1>3 DEF DueOffer, Scanned
<1>5. ASSUME DueOffer = {}, NEW i \in DOMAIN due
      PROVE  Orphan(due[i]) \/ i > Scan
  <2>1. SUFFICES ASSUME ~Orphan(due[i]), ~(i > Scan) PROVE FALSE
    OBVIOUS
  <2>2. i \in Scanned
    BY <1>2, <2>1, PlanAssumption DEF Scanned, Orphan
  <2>3. Scanned \in SUBSET Nat /\ Scanned # {}
    BY <1>2, <2>2 DEF Scanned
  <2> DEFINE m == Min(Scanned)
  <2>4. m \in Scanned
    BY <2>3, MinFacts
  <2>5. due[m] \in DueOffer
    <3>1. DueOffer = {due[n] : n \in {j \in Scanned :
              IF TypeOf(due[m]) = "kana" THEN TypeOf(due[j]) = "kana" ELSE j = m}}
      BY DEF DueOffer
    <3> HIDE DEF m
    <3>2. QED
      BY <2>4, <3>1
  <2>6. QED
    BY <1>5, <2>5
<1>6. QED
  BY <1>2, <1>3, <1>4, <1>5

(* A new card on offer is the first new key of its type, or any of the     *)
(* kana.                                                                   *)
LEMMA NewOfferIs ==
    ASSUME TypeOK
    PROVE  /\ \A k \in NewOffer : \E t \in Types : \E e \in NewKeys(t) :
                  /\ e.card = k
                  /\ t = "kana" \/ Earlier(NewKeys(t), e) = {}
           /\ \A t \in Types : NewKeys(t) # {} => NewOffer # {}
<1> DEFINE new == [t \in Types |-> NewKeys(t)]
<1>1. \A t \in Types : new[t] = NewKeys(t)
  OBVIOUS
<1>2. NewOffer = {e.card : e \in UNION {FirstNew(new[t], t) : t \in {u \in Types : Wins(new, u)}}}
  BY DEF NewOffer
<1>3. ASSUME NEW k \in NewOffer
      PROVE  \E t \in Types : \E e \in NewKeys(t) :
                 e.card = k /\ (t = "kana" \/ Earlier(NewKeys(t), e) = {})
  <2> HIDE DEF new
  <2>1. PICK t \in Types : \E e \in FirstNew(new[t], t) : e.card = k
    BY <1>2, <1>3
  <2>2. PICK e \in FirstNew(new[t], t) : e.card = k
    BY <2>1
  <2>3. e \in NewKeys(t) /\ (t = "kana" \/ Earlier(NewKeys(t), e) = {})
    BY <1>1, <2>2 DEF FirstNew
  <2>4. QED
    BY <2>2, <2>3
<1>4. ASSUME NEW u \in Types, NewKeys(u) # {}
      PROVE  NewOffer # {}
  <2>1. PICK t \in Types : Wins(new, t)
    BY <1>4, WinnerExists
  <2> HIDE DEF new
  <2>2. NewKeys(t) # {}
    BY <1>1, <2>1 DEF Wins
  <2>3. PICK e \in NewKeys(t) : Earlier(NewKeys(t), e) = {}
    BY <2>2, NewKeysAre, EarlierFacts
  <2>4. e \in FirstNew(new[t], t)
    BY <1>1, <2>3 DEF FirstNew
  <2>5. e.card \in NewOffer
    BY <1>2, <2>1, <2>4
  <2>6. QED
    BY <2>5
<1>5. QED
  BY <1>3, <1>4

LEMMA OfferFacts ==
    ASSUME TypeOK, NEW k \in Offer
    PROVE  /\ k \in Cards
           /\ cards[k] = "none" =>
                  /\ DueOffer = {}
                  /\ \E e \in NewKeys(TypeOf(k)) :
                         /\ e.card = k
                         /\ TypeOf(k) = "kana" \/ Earlier(NewKeys(TypeOf(k)), e) = {}
<1>1. CASE k \in DueOffer
  BY <1>1, DueFacts
<1>2. CASE k \notin DueOffer
  <2>1. DueOffer = {} /\ k \in NewOffer
    BY <1>2 DEF Offer
  <2>2. PICK t \in Types : \E e \in NewKeys(t) :
            e.card = k /\ (t = "kana" \/ Earlier(NewKeys(t), e) = {})
    BY <2>1, NewOfferIs
  <2>3. PICK e \in NewKeys(t) : e.card = k /\ (t = "kana" \/ Earlier(NewKeys(t), e) = {})
    BY <2>2
  <2>4. k \in Cards /\ TypeOf(k) = t
    BY <2>3, NewKeysAre, CandidateFacts
  <2>5. QED
    BY <2>1, <2>3, <2>4
<1>3. QED
  BY <1>1, <1>2

LEMMA RanksOfLevels ==
    ASSUME NEW a \in Levels, NEW b \in Levels, ~(Rank(a) < Rank(b))
    PROVE  a <= b
<1>1. Rank(a) = 5 - a /\ Rank(b) = 5 - b /\ a \in Int /\ b \in Int
  BY DEF Rank, Levels, NoLevel
<1>2. QED
  BY <1>1

LEMMA OfferIsRightNow == TypeOK => OfferIsRight
<1> SUFFICES ASSUME TypeOK, NEW k \in Offer, cards[k] = "none"
             PROVE  /\ Eligible(k)
                    /\ \A j \in Cards : Eligible(j) /\ TypeOf(j) = TypeOf(k) =>
                           Items[j.item].level <= Items[k.item].level
                    /\ \A i \in DOMAIN due : Orphan(due[i]) \/ i > Scan
  BY DEF OfferIsRight
<1> DEFINE t == TypeOf(k)
           new == NewKeys(t)
<1>1. k \in Cards /\ t \in Types /\ DueOffer = {} /\ deck \in DOMAIN Decks
  BY OfferFacts, CardTypes DEF TypeOK
<1>2. PICK e \in new : e.card = k /\ (t = "kana" \/ Earlier(new, e) = {})
  BY OfferFacts
<1>3. new \subseteq Candidates(t) /\ new # {}
  BY <1>1, <1>2, NewKeysAre
<1>4. Eligible(k)
  <2>1. Allowed(t) /\ Room(t)
    BY <1>1, <1>3, NewKeysAre
  <2>2. QED
    BY <1>1, <1>2, <1>3, <2>1, EligibleIs
<1>5. ASSUME NEW f \in Candidates(t)
      PROVE  /\ f \in LessonsOf[deck][t]
             /\ Items[f.card.item].level = f.level
             /\ IF t = "kana" THEN f.level = NoLevel ELSE f.level \in Levels
             /\ Rank(f.level) \in Int
             /\ \E b, c \in Int : f.place = <<Rank(f.level), b, c>>
  <2>1. f \in LessonsOf[deck][t]
    BY <1>1, CandidateFacts
  <2>2. /\ ItemsOf[deck][f.card.item].level = f.level
        /\ IF t = "kana" THEN f.level = NoLevel ELSE f.level \in Levels
        /\ \E b, c \in Int : f.place = <<Rank(f.level), b, c>>
    BY <1>1, <2>1, LessonFacts
  <2> DEFINE l == f.level
  <2>3. l \in Int
    BY <2>2 DEF Levels, NoLevel
  <2> HIDE DEF l
  <2>4. Rank(l) \in Int
    BY <2>3 DEF Rank
  <2>5. QED
    BY <2>1, <2>2, <2>4 DEF Items, l
<1>6. ASSUME NEW j \in Cards, Eligible(j), TypeOf(j) = t
      PROVE  Items[j.item].level <= Items[k.item].level
  <2>1. PICK f \in Candidates(t) : f.card = j
    BY <1>6, EligibleIs
  <2>2. e \in Candidates(t)
    BY <1>3
  <2>3. Items[j.item].level = f.level /\ Items[k.item].level = e.level
    BY <1>2, <1>5, <2>1, <2>2
  <2>4. CASE t = "kana"
    <3>1. f.level = NoLevel /\ e.level = NoLevel
      BY <1>5, <2>2, <2>4
    <3>2. QED
      BY <2>3, <3>1 DEF NoLevel
  <2>5. CASE t # "kana"
    <3>1. ~Before(f.place, e.place)
      <4>1. SUFFICES ASSUME Before(f.place, e.place) PROVE FALSE
        OBVIOUS
      <4>2. f \in new
        BY <1>1, <4>1, NewKeysAre
      <4>3. f \in Earlier(new, e)
        BY <4>1, <4>2 DEF Earlier
      <4>4. QED
        BY <1>2, <2>5, <4>3
    <3>2. f.level \in Levels /\ e.level \in Levels
      BY <1>5, <2>2, <2>5
    <3>3. PICK b, c \in Int : f.place = <<Rank(f.level), b, c>>
      BY <1>5
    <3>4. PICK x, y \in Int : e.place = <<Rank(e.level), x, y>>
      BY <1>5, <2>2
    <3>5. Rank(f.level) \in Int /\ Rank(e.level) \in Int
      BY <1>5, <2>2
    <3> DEFINE rf == Rank(f.level)
               re == Rank(e.level)
    <3> HIDE DEF rf, re
    <3>6. ~Before(<<rf, b, c>>, <<re, x, y>>) /\ rf \in Int /\ re \in Int
      BY <3>1, <3>3, <3>4, <3>5 DEF rf, re
    <3>7. ~(rf < re)
      BY <3>6, BeforeThree
    <3>8. f.level <= e.level
      BY <3>2, <3>7, RanksOfLevels DEF rf, re
    <3>9. QED
      BY <2>3, <3>8
  <2>6. QED
    BY <2>4, <2>5
<1>7. \A i \in DOMAIN due : Orphan(due[i]) \/ i > Scan
  BY <1>1, DueFacts
<1>8. QED
  BY <1>4, <1>6, <1>7

LEMMA NothingLeftNow == TypeOK => NothingLeftBehind
<1> SUFFICES ASSUME TypeOK, Offer = {}
             PROVE  /\ \A k \in Cards : ~Eligible(k)
                    /\ \A i \in DOMAIN due : Orphan(due[i]) \/ i > Scan
  BY DEF NothingLeftBehind
<1>1. DueOffer = {} /\ NewOffer = {}
  BY DEF Offer
<1>2. ASSUME NEW k \in Cards, Eligible(k)
      PROVE  FALSE
  <2>1. TypeOf(k) \in Types
    BY CardTypes
  <2>2. /\ Candidates(TypeOf(k)) # {}
        /\ Allowed(TypeOf(k)) /\ Room(TypeOf(k))
    BY <1>2, EligibleIs
  <2>3. NewKeys(TypeOf(k)) # {}
    BY <2>1, <2>2, NewKeysAre
  <2>4. QED
    BY <1>1, <2>1, <2>3, NewOfferIs
<1>3. QED
  BY <1>1, <1>2, DueFacts

-----------------------------------------------------------------------------
(* The queue of cards that are due *)

LEMMA RemoveAtFacts ==
    ASSUME NEW S, NEW s \in Seq(S), NEW i \in 1 .. Len(s)
    PROVE  /\ RemoveAt(s, i) \in Seq(S)
           /\ Len(RemoveAt(s, i)) = Len(s) - 1
           /\ \A j \in 1 .. Len(s) - 1 : RemoveAt(s, i)[j] = IF j < i THEN s[j] ELSE s[j + 1]
<1> DEFINE n == Len(s)
           a == SubSeq(s, 1, i - 1)
           b == SubSeq(s, i + 1, n)
<1>1. n \in Nat /\ i \in 1 .. n
  OBVIOUS
<1>2. a \in Seq(S) /\ Len(a) = i - 1 /\ \A j \in 1 .. i - 1 : a[j] = s[j]
  BY <1>1, SubSeqProperties
<1>3. b \in Seq(S) /\ Len(b) = n - i /\ \A j \in 1 .. n - i : b[j] = s[j + i]
  BY <1>1, SubSeqProperties
<1>4. RemoveAt(s, i) = a \o b
  BY DEF RemoveAt
<1> HIDE DEF a, b, n
<1>5. /\ a \o b \in Seq(S) /\ Len(a \o b) = n - 1
      /\ \A j \in 1 .. n - 1 : (a \o b)[j] = IF j <= i - 1 THEN a[j] ELSE b[j - (i - 1)]
  <2>1. /\ a \o b \in Seq(S) /\ Len(a \o b) = Len(a) + Len(b)
        /\ \A j \in 1 .. Len(a) + Len(b) :
               (a \o b)[j] = IF j <= Len(a) THEN a[j] ELSE b[j - Len(a)]
    BY <1>2, <1>3, ConcatProperties
  <2>2. Len(a) = i - 1 /\ Len(a) + Len(b) = n - 1
    BY <1>1, <1>2, <1>3
  <2>3. QED
    BY <2>1, <2>2
<1>6. ASSUME NEW j \in 1 .. n - 1
      PROVE  (a \o b)[j] = IF j < i THEN s[j] ELSE s[j + 1]
  <2>1. CASE j < i
    BY <1>1, <1>2, <1>5, <2>1
  <2>2. CASE ~(j < i)
    <3>1. (a \o b)[j] = b[j - (i - 1)]
      BY <1>1, <1>5, <2>2
    <3>2. j - (i - 1) \in 1 .. n - i /\ j - (i - 1) + i = j + 1
      BY <1>1, <2>2
    <3>3. QED
      BY <1>3, <2>2, <3>1, <3>2
  <2>3. QED
    BY <2>1, <2>2
<1>7. QED
  BY <1>4, <1>5, <1>6 DEF n

LEMMA RemovedOnce ==
    ASSUME NEW S, NEW s \in Seq(S), IsInjective(s), NEW i \in 1 .. Len(s)
    PROVE  RemoveAt(s, i) \in Seq(S) /\ IsInjective(RemoveAt(s, i))
<1> DEFINE r == RemoveAt(s, i)
           n == Len(s)
<1>1. n \in Nat /\ DOMAIN s = 1 .. n /\ i \in 1 .. n
  OBVIOUS
<1>2. /\ r \in Seq(S) /\ Len(r) = n - 1
      /\ \A j \in 1 .. n - 1 : r[j] = IF j < i THEN s[j] ELSE s[j + 1]
  BY RemoveAtFacts
<1> HIDE DEF r, n
<1>3. DOMAIN r = 1 .. n - 1
  BY <1>2
<1>4. \A j, k \in DOMAIN s : s[j] = s[k] => j = k
  BY DEF IsInjective
<1>5. ASSUME NEW j \in 1 .. n - 1, NEW k \in 1 .. n - 1, r[j] = r[k]
      PROVE  j = k
  <2> DEFINE at(x) == IF x < i THEN x ELSE x + 1
  <2>1. r[j] = s[at(j)] /\ r[k] = s[at(k)] /\ at(j) \in DOMAIN s /\ at(k) \in DOMAIN s
    BY <1>1, <1>2
  <2>2. at(j) = at(k)
    BY <1>4, <1>5, <2>1
  <2>3. QED
    BY <1>1, <2>2
<1>6. QED
  BY <1>2, <1>3, <1>5 DEF IsInjective, r

LEMMA AppendOnce ==
    ASSUME NEW S, NEW s \in Seq(S), IsInjective(s), NEW k \in S, k \notin Range(s)
    PROVE  Append(s, k) \in Seq(S) /\ IsInjective(Append(s, k))
<1> DEFINE r == Append(s, k)
           n == Len(s)
<1>1. n \in Nat /\ DOMAIN s = 1 .. n
  OBVIOUS
<1>2. r \in Seq(S) /\ Len(r) = n + 1 /\ r[n + 1] = k /\ \A i \in 1 .. n : r[i] = s[i]
  BY AppendFacts
<1> HIDE DEF r, n
<1>3. DOMAIN r = 1 .. n + 1
  BY <1>2
<1>4. \A i \in 1 .. n : s[i] # k
  BY <1>1 DEF Range
<1>5. \A i, j \in DOMAIN r : r[i] = r[j] => i = j
  <2>1. \A i, j \in 1 .. n : s[i] = s[j] => i = j
    BY <1>1 DEF IsInjective
  <2>2. \A i \in DOMAIN r : i \in 1 .. n \/ i = n + 1
    BY <1>1, <1>3
  <2>3. QED
    BY <1>2, <1>4, <2>1, <2>2
<1>6. QED
  BY <1>2, <1>5 DEF IsInjective, r

LEMMA SeqWider ==
    ASSUME NEW S, NEW T, S \subseteq T, NEW s \in Seq(S)
    PROVE  s \in Seq(T)
<1>1. Len(s) \in Nat /\ s \in [1 .. Len(s) -> S]
  OBVIOUS
<1>2. s \in [1 .. Len(s) -> T]
  BY <1>1
<1>3. QED
  BY <1>1, <1>2

-----------------------------------------------------------------------------
(* Type correctness: nothing but cards with a row is ever due, and no card *)
(* is due twice, whatever is answered, saved, built or rolled over.        *)

LEMMA TypeOKInit == Init => TypeOK
<1> SUFFICES ASSUME Init PROVE TypeOK
  OBVIOUS
<1>1. deck \in DOMAIN Decks
  BY DecksAssumption DEF Init
<1>2. stored \in DOMAIN Meaning
  BY DEF Init, Meaning
<1>3. cards \in [Cards -> States]
  BY DEF Init, States
<1>4. due \in Seq({k \in Cards : cards[k] # "none"}) /\ IsInjective(due)
  <2>1. due = << >>
    BY DEF Init
  <2>2. QED
    BY <2>1 DEF IsInjective
<1>5. introduced \in [Types -> Nat]
  BY DEF Init
<1>6. disturbances \in 0 .. MaxDisturbances
  BY PlanAssumption DEF Init
<1>7. QED
  BY <1>1, <1>2, <1>3, <1>4, <1>5, <1>6 DEF TypeOK

LEMMA DisturbKeeps ==
    ASSUME TypeOK, Disturb \/ UNCHANGED disturbances
    PROVE  disturbances' \in 0 .. MaxDisturbances
BY PlanAssumption DEF TypeOK, Disturb

LEMMA AnswerKeepsTypes == TypeOK /\ Answer => TypeOK'
<1> SUFFICES ASSUME TypeOK, Answer PROVE TypeOK'
  OBVIOUS
<1> DEFINE rows == {k \in Cards : cards[k] # "none"}
<1>1. PICK k \in Offer :
          /\ due' = Answered(k) /\ introduced' = Counted(k)
          /\ \/ cards' = [cards EXCEPT ![k] = "review"] /\ UNCHANGED disturbances
             \/ cards' = [cards EXCEPT ![k] = Lapsed(@)] /\ Disturb
          /\ UNCHANGED <<deck, stored>>
  BY DEF Answer
<1>2. k \in Cards /\ TypeOf(k) \in Types
  BY OfferFacts, CardTypes
<1>3. Lapsed(cards[k]) \in {"learning", "relearning"}
  BY DEF Lapsed
<1>4. PICK state \in {"learning", "review", "relearning"} : cards' = [cards EXCEPT ![k] = state]
  BY <1>1, <1>3
<1>5. cards' \in [Cards -> States]
  BY <1>2, <1>4 DEF TypeOK, States
<1>6. rows \subseteq {c \in Cards : cards'[c] # "none"}
  BY <1>2, <1>4 DEF TypeOK
<1>7. due' \in Seq(rows) /\ IsInjective(due')
  <2>1. due \in Seq(rows) /\ IsInjective(due)
    BY DEF TypeOK
  <2> HIDE DEF rows
  <2>2. CASE k \in Range(due)
    <3> DEFINE i == CHOOSE j \in DOMAIN due : due[j] = k
    <3>1. i \in 1 .. Len(due)
      <4>1. \E j \in DOMAIN due : due[j] = k
        BY <2>2 DEF Range
      <4>2. DOMAIN due = 1 .. Len(due)
        BY DueFacts
      <4>3. QED
        BY <4>1, <4>2
    <3>2. due' = RemoveAt(due, i)
      BY <1>1, <2>2 DEF Answered
    <3> HIDE DEF i
    <3>3. QED
      BY <2>1, <3>1, <3>2, RemovedOnce
  <2>3. CASE k \notin Range(due)
    BY <1>1, <2>1, <2>3 DEF Answered
  <2>4. QED
    BY <2>2, <2>3
<1>8. due' \in Seq({c \in Cards : cards'[c] # "none"})
  <2> DEFINE more == {c \in Cards : cards'[c] # "none"}
  <2> HIDE DEF rows, more
  <2>1. rows \subseteq more
    BY <1>6 DEF more
  <2>2. due' \in Seq(more)
    BY <1>7, <2>1, SeqWider
  <2>3. QED
    BY <2>2 DEF more
<1>9. introduced' \in [Types -> Nat]
  BY <1>1, <1>2 DEF TypeOK, Counted
<1>10. disturbances' \in 0 .. MaxDisturbances
  BY <1>1, DisturbKeeps
<1>11. deck' \in DOMAIN Decks /\ stored' \in DOMAIN Meaning
  BY <1>1 DEF TypeOK
<1>12. QED
  BY <1>5, <1>7, <1>8, <1>9, <1>10, <1>11 DEF TypeOK

LEMMA ComesDueKeepsTypes ==
    ASSUME TypeOK, NEW k \in Cards, ComesDue(k)
    PROVE  TypeOK'
<1> DEFINE rows == {c \in Cards : cards[c] # "none"}
<1>1. due \in Seq(rows) /\ IsInjective(due) /\ k \in rows /\ k \notin Range(due)
  BY DEF TypeOK, ComesDue
<1>2. due' = Append(due, k) /\ cards' = cards
  BY DEF ComesDue
<1> HIDE DEF rows
<1>3. due' \in Seq(rows) /\ IsInjective(due')
  BY <1>1, <1>2, AppendOnce
<1>4. due' \in Seq({c \in Cards : cards'[c] # "none"})
  BY <1>2, <1>3 DEF rows
<1>5. disturbances' \in 0 .. MaxDisturbances
  <2>1. Disturb \/ UNCHANGED disturbances
    BY DEF ComesDue
  <2>2. QED
    BY <2>1, DisturbKeeps
<1>6. QED
  BY <1>2, <1>3, <1>4, <1>5 DEF TypeOK, ComesDue

(* A step that only writes the settings, the deck or the counts.           *)
LEMMA OthersKeepTypes ==
    ASSUME TypeOK, UNCHANGED <<cards, due>>,
           deck' \in DOMAIN Decks, stored' \in DOMAIN Meaning,
           introduced' \in [Types -> Nat], Disturb \/ UNCHANGED disturbances
    PROVE  TypeOK'
<1>1. disturbances' \in 0 .. MaxDisturbances
  BY DisturbKeeps
<1>2. QED
  BY <1>1 DEF TypeOK

LEMMA TypeOKNext == TypeOK /\ [Next]_vars => TypeOK'
<1> SUFFICES ASSUME TypeOK, [Next]_vars PROVE TypeOK'
  OBVIOUS
<1>1. CASE Answer
  BY <1>1, AnswerKeepsTypes
<1>2. ASSUME NEW k \in Cards, ComesDue(k) PROVE TypeOK'
  BY <1>2, ComesDueKeepsTypes
<1>3. CASE NextDay
  <2>1. introduced' \in [Types -> Nat]
    BY <1>3 DEF NextDay
  <2>2. QED
    BY <1>3, <2>1, OthersKeepTypes DEF NextDay, TypeOK
<1>4. ASSUME NEW s \in DOMAIN Documents, SaveSettings(s) \/ ForeignDocument(s) PROVE TypeOK'
  <2>1. stored' \in DOMAIN Meaning
    BY <1>4 DEF SaveSettings, ForeignDocument, Meaning
  <2>2. Disturb /\ UNCHANGED <<deck, cards, due, introduced>>
    BY <1>4 DEF SaveSettings, ForeignDocument
  <2>3. QED
    BY <2>1, <2>2, OthersKeepTypes DEF TypeOK
<1>5. ASSUME NEW d \in DOMAIN Decks, Rebuild(d) PROVE TypeOK'
  BY <1>5, OthersKeepTypes DEF Rebuild, TypeOK
<1>6. CASE UNCHANGED vars
  BY <1>6 DEF vars, TypeOK
<1>7. QED
  BY <1>1, <1>2, <1>3, <1>4, <1>5, <1>6 DEF Next

(* Every reachable state is one of the right types: what is due has a row, *)
(* once.                                                                   *)
THEOREM TypeCorrect == Spec => []TypeOK
<1>1. Init => TypeOK
  BY TypeOKInit
<1>2. TypeOK /\ [Next]_vars => TypeOK'
  BY TypeOKNext
<1>3. QED
  BY <1>1, <1>2, PTL DEF Spec

(* When GET /reviews/next offers nothing, nothing is left to study.        *)
THEOREM NothingLeft == Spec => []NothingLeftBehind
<1>1. Spec => []TypeOK
  BY TypeCorrect
<1>2. TypeOK => NothingLeftBehind
  BY NothingLeftNow
<1>3. QED
  BY <1>1, <1>2, PTL

(* A new card on offer is one the settings let in, of the easiest level of *)
(* its type, and no card that can be reviewed waits behind it.             *)
THEOREM OfferRight == Spec => []OfferIsRight
<1>1. Spec => []TypeOK
  BY TypeCorrect
<1>2. TypeOK => OfferIsRight
  BY OfferIsRightNow
<1>3. QED
  BY <1>1, <1>2, PTL

-----------------------------------------------------------------------------
(* What is left of the day.  Of the lessons that could be introduced, n,   *)
(* the day's limit lets in those there is room for.                        *)
Count(n, limit, done) ==
    IF limit = 0 \/ n <= limit - done THEN n ELSE IF done < limit THEN limit - done ELSE 0

CountsAre ==
    \A t \in Types :
        /\ Cardinality(Candidates(t)) \in Nat /\ Limit(t) \in Nat /\ introduced[t] \in Nat
        /\ Remaining(t) = IF Allowed(t)
                          THEN Count(Cardinality(Candidates(t)), Limit(t), introduced[t]) ELSE 0

LEMMA CountsAreNow == TypeOK => CountsAre
<1> SUFFICES ASSUME TypeOK, NEW t \in Types
             PROVE  /\ Cardinality(Candidates(t)) \in Nat /\ Limit(t) \in Nat
                    /\ introduced[t] \in Nat
                    /\ Remaining(t) = IF Allowed(t)
                           THEN Count(Cardinality(Candidates(t)), Limit(t), introduced[t]) ELSE 0
  BY DEF CountsAre
<1> DEFINE C == Candidates(t)
           n == Cardinality(C)
           left == Limit(t) - introduced[t]
<1>1. Placed(C)
  BY CandidateFacts
<1>2. Limit(t) \in Nat /\ introduced[t] \in Nat
  BY SettingsAre DEF TypeOK
<1>3. Remaining(t) = Cardinality(IF Allowed(t)
                                 THEN IF Limit(t) = 0 THEN C
                                      ELSE {e \in C : Cardinality(Earlier(C, e)) < left}
                                 ELSE {})
  BY DEF Remaining, NewKeys, Take
<1> HIDE DEF C
<1>4. /\ n \in Nat
      /\ \A m \in Nat : Cardinality({e \in C : Cardinality(Earlier(C, e)) < m}) =
                            IF m < n THEN m ELSE n
      /\ \A e \in C : Cardinality(Earlier(C, e)) \in Nat
  BY <1>1, EarlierFacts
<1>5. CASE ~Allowed(t)
  BY <1>2, <1>3, <1>4, <1>5, FS_EmptySet DEF C
<1>6. CASE Allowed(t) /\ Limit(t) = 0
  BY <1>2, <1>3, <1>4, <1>6 DEF C, Count
<1>7. CASE Allowed(t) /\ Limit(t) # 0
  <2> DEFINE T == {e \in C : Cardinality(Earlier(C, e)) < left}
  <2>1. Remaining(t) = Cardinality(T)
    BY <1>3, <1>7
  <2>2. CASE left > 0
    <3>1. left \in Nat
      BY <1>2, <2>2
    <3>2. Cardinality(T) = IF left < n THEN left ELSE n
      BY <1>4, <3>1
    <3> HIDE DEF T, n
    <3>3. Remaining(t) = Count(n, Limit(t), introduced[t])
      BY <1>2, <1>4, <1>7, <2>1, <2>2, <3>2 DEF Count
    <3>4. QED
      BY <1>2, <1>4, <1>7, <3>3 DEF C, n
  <2>3. CASE ~(left > 0)
    <3>1. \A e \in C : ~(Cardinality(Earlier(C, e)) < left)
      BY <1>2, <1>4, <2>3
    <3>2. T = {}
      BY <3>1
    <3>3. Remaining(t) = 0
      BY <2>1, <3>2, FS_EmptySet
    <3> HIDE DEF T, n
    <3>4. Count(n, Limit(t), introduced[t]) = 0
      BY <1>2, <1>4, <1>7, <2>3 DEF Count
    <3>5. QED
      BY <1>2, <1>4, <1>7, <3>3, <3>4 DEF C, n
  <2>4. QED
    BY <2>2, <2>3
<1>8. QED
  BY <1>5, <1>6, <1>7

LEMMA CountsAreNext == TypeOK' => CountsAre'
BY CountsAreNow, PTL

(* A step that leaves the content, the settings and the cards in Review.   *)
Steady ==
    /\ TypeOK /\ TypeOK' /\ UNCHANGED <<deck, stored>>
    /\ \A c \in Cards : cards'[c] = "review" <=> cards[c] = "review"

LEMMA SamePlan ==
    ASSUME Steady, NEW t \in Types
    PROVE  /\ Limit(t)' = Limit(t)
           /\ Allowed(t)' <=> Allowed(t)
           /\ Candidates(t)' = {e \in LessonsOf[deck][t] :
                                    Offered(t, e.level) /\ cards'[e.card] = "none"}
<1>0. deck \in DOMAIN Decks /\ deck' = deck /\ stored' = stored /\ "kana" \in Types
  BY DEF Steady, TypeOK, Types
<1>1. Settings' = Settings
  BY <1>0 DEF Settings
<1>2. Limit(t)' = Limit(t)
  BY <1>1 DEF Limit
<1>3. KanaLearned' <=> KanaLearned
  <2>1. Lessons("kana") \subseteq Cards /\ Lessons("kana")' = Lessons("kana")
    BY <1>0, DeckCards DEF Lessons
  <2>2. InState(Lessons("kana"), "review")' = InState(Lessons("kana"), "review")
    BY <2>1 DEF InState, Steady
  <2>3. QED
    BY <1>1, <2>1, <2>2 DEF KanaLearned
<1>4. Allowed(t)' <=> Allowed(t)
  BY <1>1, <1>3 DEF Allowed
<1>5. \A l \in Levels : Mastered(t, l)' <=> Mastered(t, l)
  <2>1. TAKE l \in Levels
  <2>2. \A k \in LevelKeys(t, l) : k \in Cards
    BY LevelKeysAre DEF Steady
  <2>3. LevelKeys(t, l)' = LevelKeys(t, l)
    BY <1>0 DEF LevelKeys
  <2>4. InState(LevelKeys(t, l), "review")' = InState(LevelKeys(t, l), "review")
    BY <2>2, <2>3 DEF InState, Steady
  <2>5. QED
    BY <1>1, <2>3, <2>4 DEF Mastered
<1>6. Unlocked(t)' = Unlocked(t)
  BY <1>5 DEF Unlocked
<1>7. \A l : Offered(t, l)' <=> Offered(t, l)
  BY <1>1, <1>6 DEF Offered
<1>8. Candidates(t)' = {e \in LessonsOf[deck][t] :
                            Offered(t, e.level) /\ cards'[e.card] = "none"}
  BY <1>0, <1>7 DEF Candidates
<1>9. QED
  BY <1>2, <1>4, <1>8

Drops(t) == Remaining(t)' = Remaining(t) - Cardinality(NewCards(t) \ NewCards(t)')

LEMMA SameCount ==
    ASSUME Steady, NEW t \in Types, introduced'[t] = introduced[t],
           \A c \in Cards : TypeOf(c) = t => (cards'[c] = "none" <=> cards[c] = "none")
    PROVE  Drops(t)
<1>1. /\ Limit(t)' = Limit(t) /\ (Allowed(t)' <=> Allowed(t))
      /\ Candidates(t)' = {e \in LessonsOf[deck][t] :
                               Offered(t, e.level) /\ cards'[e.card] = "none"}
  BY SamePlan
<1>2. \A e \in LessonsOf[deck][t] : e.card \in Cards /\ TypeOf(e.card) = t
  <2>1. deck \in DOMAIN Decks
    BY DEF Steady, TypeOK
  <2>2. QED
    BY <2>1, DeckCards
<1>3. Candidates(t)' = Candidates(t)
  BY <1>1, <1>2 DEF Candidates
<1>4. CountsAre /\ CountsAre'
  BY CountsAreNow, CountsAreNext DEF Steady
<1>5. Remaining(t)' = Remaining(t)
  <2>1. Remaining(t) = IF Allowed(t)
            THEN Count(Cardinality(Candidates(t)), Limit(t), introduced[t]) ELSE 0
    BY <1>4 DEF CountsAre
  <2>2. Remaining(t)' = IF Allowed(t)'
            THEN Count(Cardinality(Candidates(t)'), Limit(t)', introduced'[t]) ELSE 0
    BY <1>4 DEF CountsAre
  <2>3. QED
    BY <1>1, <1>3, <2>1, <2>2
<1>6. Remaining(t) \in Nat
  BY <1>4 DEF CountsAre, Count
<1>7. Cardinality(NewCards(t) \ NewCards(t)') = 0
  <2>1. NewCards(t) \ NewCards(t)' = {}
    BY DEF NewCards
  <2>2. QED
    BY <2>1, FS_EmptySet
<1>8. QED
  BY <1>5, <1>6, <1>7 DEF Drops

LEMMA IntroducedOne ==
    ASSUME Steady, NEW k \in Offer, cards[k] = "none", cards'[k] # "none",
           \A c \in Cards \ {k} : cards'[c] = "none" <=> cards[c] = "none",
           introduced'[TypeOf(k)] = introduced[TypeOf(k)] + 1
    PROVE  Drops(TypeOf(k))
<1> DEFINE t == TypeOf(k)
           C == Candidates(t)
<1>0. TypeOK /\ k \in Cards /\ t \in Types /\ deck \in DOMAIN Decks
  BY OfferFacts, CardTypes DEF Steady, TypeOK
<1>1. PICK e \in NewKeys(t) : e.card = k
  BY <1>0, OfferFacts
<1>2. e \in C /\ Allowed(t) /\ Room(t)
  BY <1>0, <1>1, NewKeysAre
<1>3. /\ Limit(t)' = Limit(t) /\ Allowed(t)'
      /\ Candidates(t)' = {f \in LessonsOf[deck][t] :
                               Offered(t, f.level) /\ cards'[f.card] = "none"}
  BY <1>0, <1>2, SamePlan
<1>4. /\ \A f \in LessonsOf[deck][t] : f.card \in Cards /\ (f.card = k => f = e)
      /\ e \in LessonsOf[deck][t] /\ IsFiniteSet(C)
  <2>1. e \in LessonsOf[deck][t] /\ Placed(C)
    BY <1>0, <1>2, CandidateFacts
  <2>2. \A f \in LessonsOf[deck][t] : f.card \in Cards
    BY <1>0, DeckCards
  <2>3. \A f \in LessonsOf[deck][t] : f.card = e.card => f = e
    BY <1>0, <2>1, LessonFacts
  <2>4. QED
    BY <1>1, <2>1, <2>2, <2>3 DEF Placed
<1>5. Candidates(t)' = C \ {e}
  <2>1. ASSUME NEW f \in LessonsOf[deck][t]
        PROVE  cards'[f.card] = "none" <=> cards[f.card] = "none" /\ f # e
    <3>1. CASE f.card = k
      BY <1>1, <1>4, <3>1
    <3>2. CASE f.card # k
      BY <1>1, <1>4, <3>2
    <3>3. QED
      BY <3>1, <3>2
  <2>2. C = {f \in LessonsOf[deck][t] : Offered(t, f.level) /\ cards[f.card] = "none"}
    BY DEF Candidates
  <2> HIDE DEF C
  <2>3. QED
    BY <1>3, <2>1, <2>2
<1> DEFINE n == Cardinality(C)
<1>6. CountsAre /\ CountsAre'
  BY CountsAreNow, CountsAreNext DEF Steady
<1>7. /\ n \in Nat /\ Limit(t) \in Nat /\ introduced[t] \in Nat
      /\ Remaining(t) = Count(n, Limit(t), introduced[t])
      /\ Cardinality(Candidates(t)') \in Nat
      /\ Remaining(t)' = Count(Cardinality(Candidates(t)'), Limit(t), introduced[t] + 1)
  BY <1>0, <1>2, <1>3, <1>6 DEF CountsAre
<1> HIDE DEF C
<1>8. Cardinality(Candidates(t)') = n - 1
  BY <1>2, <1>4, <1>5, FS_RemoveElement
<1>9. n - 1 \in Nat
  BY <1>7, <1>8
<1>10. Limit(t) # 0 => introduced[t] < Limit(t)
  BY <1>2 DEF Room
<1> DEFINE limit == Limit(t)
           done == introduced[t]
<1> HIDE DEF n, limit, done
<1>11. n \in Nat /\ n - 1 \in Nat /\ limit \in Nat /\ done \in Nat /\ (limit # 0 => done < limit)
  BY <1>7, <1>9, <1>10 DEF limit, done
<1>12. Count(n - 1, limit, done + 1) = Count(n, limit, done) - 1
  BY <1>11 DEF Count
<1>13. Remaining(t)' = Remaining(t) - 1
  BY <1>7, <1>8, <1>12 DEF limit, done
<1>14. Cardinality(NewCards(t) \ NewCards(t)') = 1
  <2>1. NewCards(t) \ NewCards(t)' = {k}
    BY <1>0 DEF NewCards
  <2>2. QED
    BY <2>1, FS_Singleton
<1>15. QED
  BY <1>13, <1>14 DEF Drops

LEMMA AnswerDrops ==
    ASSUME Steady, Answer
    PROVE  \A t \in Types : Drops(t)
<1>1. PICK k \in Offer :
          /\ introduced' = Counted(k)
          /\ \/ cards' = [cards EXCEPT ![k] = "review"]
             \/ cards' = [cards EXCEPT ![k] = Lapsed(@)]
  BY DEF Answer
<1>2. k \in Cards /\ TypeOf(k) \in Types /\ TypeOK
  BY OfferFacts, CardTypes DEF Steady
<1>3. cards'[k] # "none" /\ \A c \in Cards \ {k} : cards'[c] = cards[c]
  BY <1>1, <1>2 DEF TypeOK, Lapsed
<1>4. /\ cards[k] # "none" => introduced' = introduced
      /\ cards[k] = "none" => introduced'[TypeOf(k)] = introduced[TypeOf(k)] + 1
      /\ \A t \in Types : t # TypeOf(k) => introduced'[t] = introduced[t]
  BY <1>1, <1>2 DEF TypeOK, Counted
<1>5. ASSUME NEW t \in Types
      PROVE  Drops(t)
  <2>1. CASE cards[k] # "none" \/ t # TypeOf(k)
    <3>1. introduced'[t] = introduced[t]
      BY <1>4, <2>1
    <3>2. \A c \in Cards : TypeOf(c) = t => (cards'[c] = "none" <=> cards[c] = "none")
      BY <1>3, <2>1
    <3>3. QED
      BY <3>1, <3>2, SameCount
  <2>2. CASE cards[k] = "none" /\ t = TypeOf(k)
    BY <1>3, <1>4, <2>2, IntroducedOne
  <2>3. QED
    BY <2>1, <2>2
<1>6. QED
  BY <1>5

(* While settings, content and the cards in Review stay as they are and    *)
(* the day goes on, new_remaining loses exactly the new cards introduced.  *)
THEOREM CountsFollowAnswers == Spec => CountsFollow
<1> DEFINE Quiet == UNCHANGED <<deck, stored, InState(Cards, "review")>> /\ TheDayGoesOn
           Follow == Quiet => \A t \in Types :
                         Remaining(t)' = Remaining(t) - Cardinality(NewCards(t) \ NewCards(t)')
<1>1. TypeOK /\ TypeOK' /\ [Next]_vars => Follow
  <2> SUFFICES ASSUME TypeOK, TypeOK', [Next]_vars, Quiet
               PROVE  \A t \in Types : Drops(t)
    BY DEF Drops
  <2>1. deck' = deck /\ stored' = stored /\ InState(Cards, "review")' = InState(Cards, "review")
    OBVIOUS
  <2>2. \A c \in Cards : cards'[c] = "review" <=> cards[c] = "review"
    BY <2>1 DEF InState
  <2>3. Steady
    BY <2>1, <2>2 DEF Steady
  <2>4. CASE Answer
    BY <2>3, <2>4, AnswerDrops
  <2>5. CASE UNCHANGED <<cards, introduced>>
    BY <2>3, <2>5, SameCount
  <2>6. CASE NextDay
    <3>1. PICK t \in Types : introduced[t] > 0
      BY <2>6 DEF NextDay
    <3>2. introduced'[t] = 0 /\ introduced[t] \in Nat /\ introduced[t] <= introduced'[t]
      BY <2>6 DEF NextDay, TypeOK, TheDayGoesOn
    <3>3. QED
      BY <3>1, <3>2
  <2>7. ASSUME NEW s \in DOMAIN Documents, SaveSettings(s) \/ ForeignDocument(s) PROVE FALSE
    BY <2>1, <2>7 DEF SaveSettings, ForeignDocument
  <2>8. ASSUME NEW d \in DOMAIN Decks, Rebuild(d) PROVE FALSE
    BY <2>1, <2>8 DEF Rebuild
  <2>9. QED
    BY <2>4, <2>5, <2>6, <2>7, <2>8 DEF Next, ComesDue, vars
<1>2. Spec => []TypeOK
  BY TypeCorrect
<1> HIDE DEF Follow
<1>3. Spec => [][Follow]_vars
  BY <1>1, <1>2, PTL DEF Spec
<1>4. QED
  BY <1>3 DEF Follow, CountsFollow

-----------------------------------------------------------------------------
(* Notes *)

LEMMA PrefixAgrees ==
    ASSUME NEW S, NEW s \in Seq(S), NEW t \in Seq(S), IsPrefix(s, t)
    PROVE  /\ Len(s) \in Nat /\ Len(t) \in Nat /\ Len(s) <= Len(t)
           /\ DOMAIN s = 1 .. Len(s) /\ DOMAIN t = 1 .. Len(t)
           /\ \A i \in 1 .. Len(s) : s[i] = t[i]
<1> DEFINE n == Len(s)
<1>1. /\ n \in Nat /\ Len(t) \in Nat /\ DOMAIN s = 1 .. n /\ DOMAIN t = 1 .. Len(t)
      /\ \A i \in 1 .. n : s[i] \in S
      /\ \A i \in 1 .. Len(t) : t[i] \in S
  BY SequenceFacts
<1>2. n <= Len(t) /\ SubSeq(s, 1, n) = SubSeq(t, 1, n)
  BY DEF IsPrefix
<1> HIDE DEF n
<1>3. \A i \in 1 .. n : t[i] \in S
  BY <1>1, <1>2
<1>4. \A i \in 1 .. n - 1 + 1 : SubSeq(s, 1, n)[i] = s[1 + i - 1]
  BY <1>1, SubSeqProperties
<1>5. \A i \in 1 .. n - 1 + 1 : SubSeq(t, 1, n)[i] = t[1 + i - 1]
  BY <1>1, <1>3, SubSeqProperties
<1>6. \A i \in 1 .. n : s[i] = t[i]
  <2>1. TAKE i \in 1 .. n
  <2>2. i \in 1 .. n - 1 + 1 /\ 1 + i - 1 = i
    BY <1>1
  <2>3. QED
    BY <1>2, <1>4, <1>5, <2>2
<1>7. QED
  BY <1>1, <1>2, <1>6 DEF n

LEMMA SameIds ==
    ASSUME NEW notes \in Seq(Notes), NEW more \in Seq(Notes), IsPrefix(notes, more),
           NEW i \in DOMAIN notes
    PROVE  i \in DOMAIN more /\ ImportVocab(more)[i].id = ImportVocab(notes)[i].id
<1>1. /\ DOMAIN notes = 1 .. Len(notes) /\ DOMAIN more = 1 .. Len(more)
      /\ Len(notes) \in Nat /\ Len(more) \in Nat /\ Len(notes) <= Len(more)
      /\ \A j \in 1 .. Len(notes) : notes[j] = more[j]
  BY PrefixAgrees
<1>2. i \in DOMAIN more /\ \A j \in 1 .. i : notes[j] = more[j]
  BY <1>1
<1>3. notes[i] = more[i]
  BY <1>1
<1>4. Nth(notes, i) = Nth(more, i)
  <2>1. {j \in 1 .. i : BaseId(notes[j]) = BaseId(notes[i])}
            = {j \in 1 .. i : BaseId(more[j]) = BaseId(more[i])}
    BY <1>2, <1>3
  <2>2. QED
    BY <2>1 DEF Nth
<1>5. /\ ImportVocab(notes)[i].id = IF Nth(notes, i) = 1 THEN BaseId(notes[i])
                                    ELSE Append(BaseId(notes[i]), Nth(notes, i))
      /\ ImportVocab(more)[i].id = IF Nth(more, i) = 1 THEN BaseId(more[i])
                                   ELSE Append(BaseId(more[i]), Nth(more, i))
  BY <1>2, VocabAt
<1>6. QED
  BY <1>2, <1>3, <1>4, <1>5

(* A deck that only grows at its end leaves every card with its note.      *)
LEMMA NotesAreKept ==
    ASSUME NEW d \in DOMAIN Decks, NEW e \in DOMAIN Decks, IsPrefix(Decks[d], Decks[e]),
           NEW i \in DOMAIN Decks[d]
    PROVE  {j \in DOMAIN Decks[e] : ContentOf[e].vocab[j].id = ContentOf[d].vocab[i].id} = {i}
<1>1. Decks[d] \in Seq(Notes) /\ Decks[e] \in Seq(Notes) /\ Importable(Decks[e])
  BY DecksAssumption
<1>2. /\ ContentOf[d].vocab = ImportVocab(Decks[d])
      /\ ContentOf[e].vocab = ImportVocab(Decks[e])
  <2>1. \A n, table : Build(n, table).vocab = ImportVocab(n)
    BY DEF Build
  <2>2. ContentOf[d] = Build(Decks[d], KanaTable) /\ ContentOf[e] = Build(Decks[e], KanaTable)
    BY DeckRows
  <2>3. QED
    BY <2>1, <2>2
<1>3. i \in DOMAIN Decks[e] /\ ImportVocab(Decks[e])[i].id = ImportVocab(Decks[d])[i].id
  BY <1>1, SameIds
<1>4. RowsAre(ImportVocab(Decks[e]), "vocab")
  BY <1>1, VocabRows
<1>5. DOMAIN ImportVocab(Decks[e]) = DOMAIN Decks[e]
  BY DEF ImportVocab
<1>6. \A j \in DOMAIN Decks[e] :
          ImportVocab(Decks[e])[j].id = ImportVocab(Decks[e])[i].id => j = i
  BY <1>3, <1>4, <1>5 DEF RowsAre
<1>7. QED
  BY <1>2, <1>3, <1>6

(* A rebuild from a deck that has only grown at its end leaves every card  *)
(* with the note it had, homographs included.                              *)
THEOREM NotesKept == Spec => CardsKeepTheirNote
<1> DEFINE Kept == IsPrefix(Decks[deck], Decks[deck']) =>
                       \A i \in DOMAIN Decks[deck] :
                           LET id == ContentOf[deck].vocab[i].id
                           IN  {j \in DOMAIN Decks[deck'] : ContentOf[deck'].vocab[j].id = id}
                                   = {i}
<1>1. TypeOK /\ TypeOK' => Kept
  <2>1. TypeOK => deck \in DOMAIN Decks
    BY DEF TypeOK
  <2>2. TypeOK' => deck' \in DOMAIN Decks
    BY DEF TypeOK
  <2>3. QED
    BY <2>1, <2>2, NotesAreKept
<1>2. Spec => []TypeOK
  BY TypeCorrect
<1> HIDE DEF Kept
<1>3. Spec => [][Kept]_vars
  BY <1>1, <1>2, PTL
<1>4. QED
  BY <1>3, PTL DEF Kept, CardsKeepTheirNote

-----------------------------------------------------------------------------
(* Steps by step: what holds at first and is kept holds to the end. *)

LEMMA StepByStep ==
    ASSUME NEW T \in SUBSET Nat, NEW L \in Nat, 0 \in T,
           \A n \in T : n < L => n + 1 \in T
    PROVE  \A n \in 0 .. L : n \in T
<1> DEFINE Not == {n \in 0 .. L : n \notin T}
<1>1. SUFFICES ASSUME Not # {} PROVE FALSE
  OBVIOUS
<1>2. Not \in SUBSET Nat
  OBVIOUS
<1>3. PICK m \in Not : \A n \in Not : m <= n
  <2> HIDE DEF Not
  <2>1. QED
    BY <1>1, <1>2, LeastElement
<1>4. m \in 0 .. L /\ m # 0 /\ m \notin T
  OBVIOUS
<1>5. m - 1 \in 0 .. L /\ m - 1 < L /\ m - 1 \in Nat /\ m - 1 + 1 = m /\ ~(m <= m - 1)
  BY <1>4
<1>6. m - 1 \in T
  BY <1>3, <1>5
<1>7. QED
  BY <1>4, <1>5, <1>6

(* The options are taken from the pool entry by entry. *)
LEMMA ChosenIs ==
    ASSUME NEW items, NEW dir, NEW item, NEW pool, Len(pool) \in Nat
    PROVE  LET c == Chosen(items, dir, item, pool)
           IN  /\ c[0] = << >>
               /\ \A n \in 1 .. Len(pool) :
                      c[n] = Taken(dir, item, items[pool[n].item], c[n - 1])
<1> DEFINE L == Len(pool)
           Step(n, prev) == Taken(dir, item, items[pool[n].item], prev)
           Builds(g, n) == g = [i \in 0 .. n |-> IF i = 0 THEN << >> ELSE Step(i, g[i - 1])]
           T == {n \in Nat : \E g : Builds(g, n)}
<1> HIDE DEF Step
<1>1. 0 \in T
  <2> DEFINE g == [i \in 0 .. 0 |-> << >>]
  <2>1. 0 .. 0 = {0}
    OBVIOUS
  <2>2. Builds(g, 0)
    BY <2>1
  <2>3. QED
    BY <2>2
<1>2. ASSUME NEW n \in T, n < L
      PROVE  n + 1 \in T
  <2>1. n \in Nat
    OBVIOUS
  <2>2. PICK g : Builds(g, n)
    OBVIOUS
  <2> DEFINE h == [i \in 0 .. n + 1 |-> IF i = n + 1 THEN Step(n + 1, g[n]) ELSE g[i]]
             k == [i \in 0 .. n + 1 |-> IF i = 0 THEN << >> ELSE Step(i, h[i - 1])]
  <2>3. \A i \in 0 .. n : g[i] = IF i = 0 THEN << >> ELSE Step(i, g[i - 1])
    BY <2>2
  <2>4. ASSUME NEW i \in 0 .. n + 1
        PROVE  h[i] = k[i]
    <3>1. CASE i = n + 1
      <4>1. h[i] = Step(n + 1, g[n]) /\ i # 0 /\ i - 1 = n
        BY <2>1, <3>1
      <4>2. h[n] = g[n] /\ n \in 0 .. n + 1
        BY <2>1
      <4>3. k[i] = Step(i, h[i - 1])
        BY <4>1
      <4>4. QED
        BY <3>1, <4>1, <4>2, <4>3
    <3>2. CASE i # n + 1
      <4>1. i \in 0 .. n /\ h[i] = g[i]
        BY <2>1, <3>2
      <4>2. i # 0 => i - 1 \in 0 .. n + 1 /\ h[i - 1] = g[i - 1]
        BY <2>1, <4>1
      <4>3. k[i] = IF i = 0 THEN << >> ELSE Step(i, h[i - 1])
        OBVIOUS
      <4> HIDE DEF h, k
      <4>4. QED
        BY <2>3, <4>1, <4>2, <4>3
    <3>3. QED
      BY <3>1, <3>2
  <2>5. h = k
    <3>1. /\ h = [i \in 0 .. n + 1 |-> h[i]]
          /\ k = [i \in 0 .. n + 1 |-> k[i]]
      OBVIOUS
    <3> HIDE DEF h, k
    <3>2. QED
      BY <2>4, <3>1
  <2>6. Builds(h, n + 1)
    BY <2>5
  <2> HIDE DEF Builds, h, k
  <2>7. \E u : Builds(u, n + 1)
    BY <2>6
  <2>8. QED
    BY <2>1, <2>7
<1>3. \E g : Builds(g, L)
  <2>1. T \in SUBSET Nat /\ L \in Nat /\ L \in 0 .. L
    OBVIOUS
  <2> HIDE DEF T
  <2>2. L \in T
    BY <1>1, <1>2, <2>1, StepByStep
  <2>3. QED
    BY <2>2 DEF T
<1> DEFINE c == Chosen(items, dir, item, pool)
<1>4. c = CHOOSE g : Builds(g, L)
  BY DEF Chosen, Step
<1> HIDE DEF c, T, Builds
<1>5. Builds(c, L)
  BY <1>3, <1>4
<1>6. c = [i \in 0 .. L |-> IF i = 0 THEN << >> ELSE Step(i, c[i - 1])]
  BY <1>5 DEF Builds
<1>7. c[0] = << >> /\ \A n \in 1 .. L : c[n] = Step(n, c[n - 1])
  <2>1. 0 \in 0 .. L /\ \A n \in 1 .. L : n \in 0 .. L /\ n # 0
    OBVIOUS
  <2>2. \A i \in 0 .. L : c[i] = IF i = 0 THEN << >> ELSE Step(i, c[i - 1])
    BY <1>6
  <2>3. QED
    BY <2>1, <2>2
<1>8. QED
  BY <1>7 DEF c, Step

-----------------------------------------------------------------------------
(* The options of a multiple choice *)

Answer1(dir, other) == AcceptedAnswers(dir, other)[1]

(* The other item has an answer that is wrong here.                        *)
HasWrong(dir, item, other) ==
    /\ Script(other) = Script(item)
    /\ AcceptedAnswers(dir, other) # << >>
    /\ Answer1(dir, other) # Answer1(dir, item)

(* The wrong answers among the first n entries of a pool.                  *)
WrongOnes(items, dir, item, pool, n) ==
    {Answer1(dir, items[pool[m].item]) :
        m \in {k \in 1 .. n : HasWrong(dir, item, items[pool[k].item])}}

LEMMA RangeIs ==
    ASSUME NEW S, NEW s \in Seq(S)
    PROVE  Range(s) = {s[i] : i \in 1 .. Len(s)} /\ Range(s) \subseteq S
<1>1. DOMAIN s = 1 .. Len(s) /\ \A i \in 1 .. Len(s) : s[i] \in S
  BY SequenceFacts
<1>2. QED
  BY <1>1 DEF Range

LEMMA RangeCount ==
    ASSUME NEW S, NEW s \in Seq(S), IsInjective(s)
    PROVE  IsFiniteSet(Range(s)) /\ Cardinality(Range(s)) = Len(s)
<1> DEFINE n == Len(s)
           D == 1 .. n
<1>1. n \in Nat /\ DOMAIN s = D /\ s = [i \in D |-> s[i]]
  OBVIOUS
<1>2. Range(s) = {s[i] : i \in D}
  BY RangeIs
<1>3. s \in [D -> Range(s)]
  BY <1>1, <1>2
<1>4. s \in Surjection(D, Range(s)) /\ s \in Injection(D, Range(s))
  BY <1>1, <1>2, <1>3 DEF Surjection, Injection
<1>5. IsFiniteSet(D) /\ Cardinality(D) = n
  <2>1. n \in Int
    BY <1>1
  <2> HIDE DEF n
  <2>2. IsFiniteSet(1 .. n) /\ Cardinality(1 .. n) = IF 1 > n THEN 0 ELSE n - 1 + 1
    BY <2>1, FS_Interval
  <2>3. QED
    BY <1>1, <2>2
<1>6. QED
  BY <1>4, <1>5, FS_Surjection

LEMMA AppendRange ==
    ASSUME NEW S, NEW s \in Seq(S), NEW e \in S
    PROVE  Range(Append(s, e)) = Range(s) \cup {e}
<1> DEFINE r == Append(s, e)
           n == Len(s)
<1>1. n \in Nat
  OBVIOUS
<1>2. r \in Seq(S) /\ Len(r) = n + 1 /\ r[n + 1] = e /\ \A i \in 1 .. n : r[i] = s[i]
  BY AppendFacts
<1> HIDE DEF r, n
<1>3. Range(r) = {r[i] : i \in 1 .. n + 1}
  BY <1>2, RangeIs
<1>4. Range(s) = {s[i] : i \in 1 .. n}
  BY RangeIs DEF n
<1>5. \A i \in 1 .. n + 1 : i \in 1 .. n \/ i = n + 1
  BY <1>1
<1>6. n + 1 \in 1 .. n + 1 /\ \A i \in 1 .. n : i \in 1 .. n + 1
  BY <1>1
<1>7. QED
  BY <1>2, <1>3, <1>4, <1>5, <1>6 DEF r

(* One entry: what is chosen stays different, stays wrong, and misses      *)
(* nothing while there is room.                                            *)
LEMMA TakenKeeps ==
    ASSUME NEW A, NEW s \in Seq(A), IsInjective(s), Len(s) <= WantedOptions,
           Len(s) < WantedOptions => A \subseteq Range(s),
           NEW dir, NEW item, NEW other, NEW B,
           B = IF HasWrong(dir, item, other) THEN A \cup {Answer1(dir, other)} ELSE A
    PROVE  LET r == Taken(dir, item, other, s)
           IN  /\ r \in Seq(B) /\ IsInjective(r) /\ Len(r) <= WantedOptions
               /\ Len(r) < WantedOptions => B \subseteq Range(r)
               /\ Range(s) \subseteq Range(r)
               /\ Len(s) = WantedOptions => r = s
<1> DEFINE r == Taken(dir, item, other, s)
           x == Answer1(dir, other)
           new == Len(s) < WantedOptions /\ HasWrong(dir, item, other) /\ x \notin Range(s)
<1>1. r = IF new THEN Append(s, x) ELSE s
  BY DEF Taken, IsWrong, HasWrong, Answer1
<1>2. Len(s) \in Nat /\ WantedOptions \in Nat
  BY ChoicesAssumption
<1>3. A \subseteq B
  OBVIOUS
<1>4. s \in Seq(B)
  BY <1>3, SeqWider
<1> HIDE DEF r, x
<1>5. CASE new
  <2>1. x \in B /\ B = A \cup {x}
    BY <1>5 DEF x
  <2>2. r = Append(s, x)
    BY <1>1, <1>5
  <2>3. r \in Seq(B) /\ IsInjective(r) /\ Len(r) = Len(s) + 1
    BY <1>4, <1>5, <2>1, <2>2, AppendOnce, AppendFacts
  <2>4. Range(r) = Range(s) \cup {x}
    BY <1>4, <2>1, <2>2, AppendRange
  <2>5. A \subseteq Range(s)
    BY <1>5
  <2>6. QED
    BY <1>2, <1>5, <2>1, <2>3, <2>4, <2>5 DEF r
<1>6. CASE ~new
  <2>1. r = s
    BY <1>1, <1>6
  <2>2. Len(s) < WantedOptions => B \subseteq Range(s)
    BY <1>6 DEF x
  <2>3. QED
    BY <1>4, <2>1, <2>2 DEF r
<1>7. QED
  BY <1>5, <1>6

LEMMA WrongOnesGrow ==
    ASSUME NEW items, NEW dir, NEW item, NEW pool, NEW n \in Nat
    PROVE  WrongOnes(items, dir, item, pool, n + 1) =
               LET other == items[pool[n + 1].item]
                   A == WrongOnes(items, dir, item, pool, n)
               IN  IF HasWrong(dir, item, other) THEN A \cup {Answer1(dir, other)} ELSE A
<1> DEFINE W(k) == HasWrong(dir, item, items[pool[k].item])
           x(k) == Answer1(dir, items[pool[k].item])
<1>1. \A k : k \in 1 .. n + 1 <=> k \in 1 .. n \/ k = n + 1
  OBVIOUS
<1>2. /\ WrongOnes(items, dir, item, pool, n) = {x(m) : m \in {k \in 1 .. n : W(k)}}
      /\ WrongOnes(items, dir, item, pool, n + 1) = {x(m) : m \in {k \in 1 .. n + 1 : W(k)}}
  BY DEF WrongOnes
<1> HIDE DEF W, x
<1>3. {x(m) : m \in {k \in 1 .. n + 1 : W(k)}} =
          IF W(n + 1) THEN {x(m) : m \in {k \in 1 .. n : W(k)}} \cup {x(n + 1)}
          ELSE {x(m) : m \in {k \in 1 .. n : W(k)}}
  BY <1>1
<1>4. QED
  BY <1>2, <1>3 DEF W, x

LEMMA WrongOnesFinite ==
    ASSUME NEW items, NEW dir, NEW item, NEW pool, NEW n \in Nat
    PROVE  IsFiniteSet(WrongOnes(items, dir, item, pool, n))
<1> DEFINE D == {k \in 1 .. n : HasWrong(dir, item, items[pool[k].item])}
           x(k) == Answer1(dir, items[pool[k].item])
           A == {x(m) : m \in D}
           g == [k \in D |-> x(k)]
<1>1. IsFiniteSet(D)
  <2>1. IsFiniteSet(1 .. n)
    BY FS_Interval
  <2>2. D \subseteq 1 .. n
    OBVIOUS
  <2> HIDE DEF D
  <2>3. QED
    BY <2>1, <2>2, FS_Subset
<1> HIDE DEF D, x
<1>2. g \in Surjection(D, A)
  BY DEF Surjection
<1>3. IsFiniteSet(A)
  <2> HIDE DEF g, A
  <2>1. QED
    BY <1>1, <1>2, FS_Surjection
<1>4. QED
  BY <1>3 DEF WrongOnes, D, x

(* Whatever the pool, the options are different and wrong, as many as      *)
(* wanted or all there are, and those of its first part come first.        *)
LEMMA Choosing ==
    ASSUME NEW items, NEW dir, NEW item, NEW pool, Len(pool) \in Nat,
           NEW part \in 0 .. Len(pool)
    PROVE  LET wrong == Distractors(items, dir, item, pool)
               all == WrongOnes(items, dir, item, pool, Len(pool))
               first == WrongOnes(items, dir, item, pool, part)
           IN  /\ IsInjective(wrong) /\ Range(wrong) \subseteq all
               /\ Len(wrong) = Min({WantedOptions, Cardinality(all)})
               /\ Range(wrong) \subseteq first \/ first \subseteq Range(wrong)
<1> DEFINE L == Len(pool)
           c == Chosen(items, dir, item, pool)
           A(n) == WrongOnes(items, dir, item, pool, n)
           other(n) == items[pool[n].item]
           Fine(n) == /\ c[n] \in Seq(A(n)) /\ IsInjective(c[n])
                      /\ Len(c[n]) <= WantedOptions
                      /\ Len(c[n]) < WantedOptions => A(n) \subseteq Range(c[n])
                      /\ part <= n =>
                             \/ Len(c[n]) = WantedOptions /\ Range(c[n]) \subseteq A(part)
                             \/ A(part) \subseteq Range(c[n])
           T == {n \in Nat : n <= L => Fine(n)}
<1>1. c[0] = << >> /\ \A n \in 1 .. L : c[n] = Taken(dir, item, other(n), c[n - 1])
  BY ChosenIs
<1>2. \A n \in Nat : A(n + 1) =
          IF HasWrong(dir, item, other(n + 1)) THEN A(n) \cup {Answer1(dir, other(n + 1))} ELSE A(n)
  BY WrongOnesGrow
<1>3. A(0) = {} /\ WantedOptions \in Nat /\ L \in Nat /\ part \in Nat /\ part <= L
  BY ChoicesAssumption DEF WrongOnes
<1> HIDE DEF A, c, other, L
<1>4. Fine(0)
  <2>1. c[0] = << >> /\ << >> \in Seq(A(0)) /\ Len(<< >>) = 0 /\ IsInjective(<< >>)
    BY <1>1 DEF IsInjective
  <2>2. part <= 0 => A(part) = {}
    <3>1. part <= 0 => part = 0
      BY <1>3
    <3>2. QED
      BY <1>3, <3>1
  <2>3. QED
    BY <1>3, <2>1, <2>2
<1>5. ASSUME NEW n \in Nat, n < L, Fine(n)
      PROVE  Fine(n + 1)
  <2> DEFINE s == c[n]
             r == c[n + 1]
  <2>1. r = Taken(dir, item, other(n + 1), s)
    <3>1. n + 1 \in 1 .. L /\ n + 1 - 1 = n
      BY <1>3, <1>5
    <3>2. QED
      BY <1>1, <3>1
  <2>2. /\ s \in Seq(A(n)) /\ IsInjective(s) /\ Len(s) <= WantedOptions
        /\ Len(s) < WantedOptions => A(n) \subseteq Range(s)
        /\ part <= n => \/ Len(s) = WantedOptions /\ Range(s) \subseteq A(part)
                        \/ A(part) \subseteq Range(s)
    BY <1>5
  <2>3. A(n + 1) = IF HasWrong(dir, item, other(n + 1))
                   THEN A(n) \cup {Answer1(dir, other(n + 1))} ELSE A(n)
    BY <1>2
  <2> HIDE DEF s, r, Fine
  <2>4. /\ r \in Seq(A(n + 1)) /\ IsInjective(r) /\ Len(r) <= WantedOptions
        /\ Len(r) < WantedOptions => A(n + 1) \subseteq Range(r)
        /\ Range(s) \subseteq Range(r)
        /\ Len(s) = WantedOptions => r = s
    BY <2>1, <2>2, <2>3, TakenKeeps
  <2>5. ASSUME part <= n + 1
        PROVE  \/ Len(r) = WantedOptions /\ Range(r) \subseteq A(part)
               \/ A(part) \subseteq Range(r)
    <3>1. CASE part <= n
      BY <2>2, <2>4, <3>1
    <3>2. CASE ~(part <= n)
      <4>1. part = n + 1
        BY <1>3, <2>5, <3>2
      <4>2. Len(r) \in Nat /\ Range(r) \subseteq A(n + 1)
        BY <2>4, RangeIs, SequenceFacts
      <4>3. Len(r) < WantedOptions \/ Len(r) = WantedOptions
        BY <1>3, <2>4, <4>2
      <4>4. QED
        BY <2>4, <4>1, <4>2, <4>3
    <3>3. QED
      BY <3>1, <3>2
  <2>6. QED
    BY <2>4, <2>5 DEF Fine, r
<1>6. Fine(L)
  <2> HIDE DEF Fine
  <2>1. 0 \in T /\ \A n \in T : n < L => n + 1 \in T
    BY <1>3, <1>4, <1>5
  <2>2. T \in SUBSET Nat /\ L \in 0 .. L
    BY <1>3
  <2> HIDE DEF T
  <2>3. L \in T
    BY <1>3, <2>1, <2>2, StepByStep
  <2>4. QED
    BY <1>3, <2>3 DEF T
<1> DEFINE wrong == Distractors(items, dir, item, pool)
<1>7. wrong = c[L]
  BY DEF Distractors, c, L
<1> HIDE DEF wrong
<1>8. /\ wrong \in Seq(A(L)) /\ IsInjective(wrong) /\ Len(wrong) <= WantedOptions
      /\ Len(wrong) < WantedOptions => A(L) \subseteq Range(wrong)
      /\ Range(wrong) \subseteq A(part) \/ A(part) \subseteq Range(wrong)
  BY <1>3, <1>6, <1>7
<1>9. /\ Range(wrong) \subseteq A(L)
      /\ IsFiniteSet(A(L)) /\ Cardinality(A(L)) \in Nat /\ Len(wrong) \in Nat
      /\ Cardinality(Range(wrong)) = Len(wrong)
  <2>1. IsFiniteSet(A(L))
    BY <1>3, WrongOnesFinite DEF A
  <2>2. Cardinality(Range(wrong)) = Len(wrong)
    BY <1>8, RangeCount
  <2>3. QED
    BY <1>8, <2>1, <2>2, RangeIs, SequenceFacts, FS_CardinalityType
<1>10. /\ Len(wrong) <= Cardinality(A(L))
       /\ Len(wrong) < WantedOptions => Len(wrong) = Cardinality(A(L))
  <2>1. Cardinality(Range(wrong)) <= Cardinality(A(L))
    BY <1>9, FS_Subset
  <2>2. Len(wrong) < WantedOptions => Range(wrong) = A(L)
    BY <1>8, <1>9
  <2>3. QED
    BY <1>9, <2>1, <2>2
<1>11. Len(wrong) = Min({WantedOptions, Cardinality(A(L))})
  <2> DEFINE k == Cardinality(A(L))
             M == {WantedOptions, k}
  <2>1. k \in Nat /\ WantedOptions \in Nat
    BY <1>3, <1>9
  <2>2. Len(wrong) \in Nat /\ Len(wrong) <= k /\ Len(wrong) <= WantedOptions
        /\ (Len(wrong) < WantedOptions => Len(wrong) = k)
    BY <1>8, <1>9, <1>10
  <2> HIDE DEF k
  <2>3. M \in SUBSET Nat /\ M # {}
    BY <2>1
  <2>4. Min(M) \in M /\ \A y \in M : Min(M) <= y
    BY <2>3, MinFacts
  <2>5. QED
    BY <2>1, <2>2, <2>4 DEF k
<1>12. QED
  BY <1>8, <1>9, <1>11 DEF wrong, A, L

-----------------------------------------------------------------------------
(* The pools the options are taken from *)

(* All of A is among the first n of a sequence. *)
Has(s, n, A) == \A x \in A : \E i \in 1 .. n : s[i] = x

LEMMA SeqOfSet ==
    ASSUME NEW S, IsFiniteSet(S), NEW f \in SetToSeqs(S)
    PROVE  f \in Seq(S) /\ Has(f, Len(f), S)
<1> DEFINE n == Cardinality(S)
           D == 1 .. n
<1>1. n \in Nat
  BY FS_CardinalityType
<1>2. f \in [D -> S] /\ \A i, j \in D : i # j => f[i] # f[j]
  BY DEF SetToSeqs
<1> HIDE DEF n
<1>3. f \in Seq(S) /\ Len(f) = n
  BY <1>1, <1>2
<1>4. f \in Injection(D, S)
  BY <1>2 DEF Injection, IsInjective
<1>5. Cardinality(D) = n
  <2>1. n \in Int
    BY <1>1
  <2>2. Cardinality(1 .. n) = IF 1 > n THEN 0 ELSE n - 1 + 1
    BY <2>1, FS_Interval
  <2>3. QED
    BY <1>1, <2>2
<1>6. f \in Surjection(D, S)
  <2> HIDE DEF D
  <2>1. QED
    BY <1>4, <1>5, FS_Injection DEF n
<1>7. QED
  BY <1>3, <1>6 DEF Surjection, Has

LEMMA ConcatAll ==
    ASSUME NEW S, NEW s \in Seq(S), NEW t \in Seq(S), NEW A, NEW B,
           Has(s, Len(s), A),
           Has(t, Len(t), B)
    PROVE  /\ s \o t \in Seq(S) /\ Len(s) \in Nat /\ Len(t) \in Nat
           /\ Len(s \o t) = Len(s) + Len(t)
           /\ \A i \in 1 .. Len(s) : (s \o t)[i] = s[i]
           /\ Has(s \o t, Len(s \o t), A \cup B)
<1> DEFINE m == Len(s)
           n == Len(t)
           r == s \o t
<1>1. m \in Nat /\ n \in Nat
  OBVIOUS
<1>2. /\ r \in Seq(S) /\ Len(r) = m + n
      /\ \A i \in 1 .. m + n : r[i] = IF i <= m THEN s[i] ELSE t[i - m]
  BY ConcatProperties
<1> HIDE DEF m, n, r
<1>3. \A i \in 1 .. m : i \in 1 .. m + n /\ r[i] = s[i]
  BY <1>1, <1>2
<1>4. ASSUME NEW x \in A PROVE \E i \in 1 .. m + n : r[i] = x
  <2>1. PICK i \in 1 .. m : s[i] = x
    BY DEF m, Has
  <2>2. QED
    BY <1>3, <2>1
<1>5. ASSUME NEW x \in B PROVE \E i \in 1 .. m + n : r[i] = x
  <2>1. PICK i \in 1 .. n : t[i] = x
    BY DEF n, Has
  <2> DEFINE j == i + m
  <2>2. j \in 1 .. m + n /\ ~(j <= m) /\ j - m = i
    BY <1>1
  <2> HIDE DEF j
  <2>3. r[j] = t[j - m]
    BY <1>2, <2>2
  <2>4. QED
    BY <2>1, <2>2, <2>3
<1>6. QED
  BY <1>1, <1>2, <1>3, <1>4, <1>5 DEF m, n, r, Has

LEMMA PoolFacts ==
    ASSUME NEW S, IsFiniteSet(S), NEW A \in SUBSET S, NEW B \in SUBSET S, NEW C \in SUBSET S,
           NEW a \in SetToSeqs(A), NEW b \in SetToSeqs(B), NEW c \in SetToSeqs(C)
    PROVE  LET pool == a \o b \o c
           IN  /\ Len(pool) \in Nat /\ Len(a) \in 0 .. Len(pool)
               /\ \A i \in 1 .. Len(a) : pool[i] \in A
               /\ Has(pool, Len(a), A)
               /\ \A i \in 1 .. Len(pool) : pool[i] \in S
               /\ Has(pool, Len(pool), A \cup B \cup C)
<1> DEFINE ab == a \o b
           pool == ab \o c
<1>1. IsFiniteSet(A) /\ IsFiniteSet(B) /\ IsFiniteSet(C)
  BY FS_Subset
<1>2. /\ a \in Seq(A) /\ Has(a, Len(a), A)
      /\ b \in Seq(B) /\ Has(b, Len(b), B)
      /\ c \in Seq(C) /\ Has(c, Len(c), C)
  BY <1>1, SeqOfSet
<1>3. a \in Seq(S) /\ b \in Seq(S) /\ c \in Seq(S)
  BY <1>2, SeqWider
<1>4. /\ ab \in Seq(S) /\ Len(a) \in Nat /\ Len(b) \in Nat /\ Len(ab) = Len(a) + Len(b)
      /\ \A i \in 1 .. Len(a) : ab[i] = a[i]
      /\ Has(ab, Len(ab), A \cup B)
  <2>1. Has(a, Len(a), A) /\ Has(b, Len(b), B)
    BY <1>2
  <2>2. QED
    BY <1>3, <2>1, ConcatAll, Zenon
<1> HIDE DEF ab
<1>5. /\ pool \in Seq(S) /\ Len(c) \in Nat /\ Len(pool) = Len(ab) + Len(c)
      /\ \A i \in 1 .. Len(ab) : pool[i] = ab[i]
      /\ Has(pool, Len(pool), (A \cup B) \cup C)
  <2>1. ab \in Seq(S) /\ Has(ab, Len(ab), A \cup B)
    BY <1>4
  <2>2. c \in Seq(S) /\ Has(c, Len(c), C)
    BY <1>2, <1>3
  <2>3. QED
    BY <2>1, <2>2, ConcatAll, Zenon
<1> HIDE DEF pool
<1>6. Len(pool) \in Nat /\ Len(a) \in 0 .. Len(pool) /\ \A i \in 1 .. Len(a) : i \in 1 .. Len(ab)
  BY <1>4, <1>5
<1>7. \A i \in 1 .. Len(a) : pool[i] = a[i] /\ a[i] \in A
  BY <1>2, <1>4, <1>5, <1>6, SequenceFacts
<1>8. Has(pool, Len(a), A)
  BY <1>2, <1>7 DEF Has
<1>9. \A i \in 1 .. Len(pool) : pool[i] \in S
  BY <1>5, SequenceFacts
<1>10. QED
  BY <1>5, <1>6, <1>7, <1>8, <1>9 DEF pool, ab

(* A pool of the entries of a set has the wrong answers of the set.        *)
LEMMA Enumerated ==
    ASSUME NEW items, NEW dir, NEW item, NEW pool, NEW n \in Nat, NEW S,
           \A i \in 1 .. n : pool[i] \in S,
           Has(pool, n, S)
    PROVE  WrongOnes(items, dir, item, pool, n) =
               {AcceptedAnswers(dir, items[e.item])[1] :
                   e \in {f \in S : /\ AcceptedAnswers(dir, items[f.item]) # << >>
                                    /\ Script(items[f.item]) = Script(item)}}
                   \ {AcceptedAnswers(dir, item)[1]}
<1> DEFINE ans(e) == AcceptedAnswers(dir, items[e.item])[1]
           right == AcceptedAnswers(dir, item)[1]
           Usable(f) == /\ AcceptedAnswers(dir, items[f.item]) # << >>
                        /\ Script(items[f.item]) = Script(item)
           W == WrongOnes(items, dir, item, pool, n)
<1>1. W = {ans(pool[m]) : m \in {k \in 1 .. n : Usable(pool[k]) /\ ans(pool[k]) # right}}
  BY DEF WrongOnes, HasWrong, Answer1
<1> HIDE DEF ans, right, Usable, W
<1>2. W = {ans(e) : e \in {f \in S : Usable(f)}} \ {right}
  BY <1>1 DEF Has
<1>3. QED
  BY <1>2 DEF ans, right, Usable, W

LEMMA CatalogFinite ==
    ASSUME NEW content, NEW type, Numbered(content[type])
    PROVE  IsFiniteSet(Catalog(content, type))
<1> DEFINE rows == content[type]
           D == {j \in DOMAIN rows : IsLesson(rows[j])}
           entry(i) == [item |-> rows[i].id, level |-> rows[i].level, position |-> i]
           all == Catalog(content, type)
           g == [i \in D |-> entry(i)]
<1>1. PICK n \in Nat : DOMAIN rows = 1 .. n
  BY DEF Numbered
<1>2. IsFiniteSet(D)
  <2>1. IsFiniteSet(1 .. n)
    BY FS_Interval
  <2>2. D \subseteq 1 .. n
    BY <1>1
  <2> HIDE DEF D
  <2>3. QED
    BY <2>1, <2>2, FS_Subset
<1>3. all = {entry(i) : i \in D}
  BY DEF Catalog
<1> HIDE DEF D, entry, all
<1>4. g \in Surjection(D, all)
  BY <1>3 DEF Surjection
<1>5. IsFiniteSet(all)
  <2> HIDE DEF g
  <2>1. QED
    BY <1>2, <1>4, FS_Surjection
<1>6. QED
  BY <1>5 DEF all

LEMMA FairNow ==
    ASSUME NEW content, NEW type, Numbered(content[type]), NEW dir, NEW item, NEW active
    PROVE  FairChoices(content, type, dir, item, active)
<1> DEFINE items == ItemsById(content)
           catalog == Catalog(content, type)
           bands == Bands(catalog, item, active)
           right == AcceptedAnswers(dir, item)[1]
           Usable(e) == /\ AcceptedAnswers(dir, items[e.item]) # << >>
                        /\ Script(items[e.item]) = Script(item)
           Answers(S) == {AcceptedAnswers(dir, items[e.item])[1] : e \in {f \in S : Usable(f)}}
           Others == {e \in catalog : e.item # item.id}
           Fair(pool) ==
               LET wrong == Distractors(items, dir, item, pool)
                   all == Answers(Others) \ {right}
                   own == Answers(bands[1]) \ {right}
               IN  /\ IsInjective(wrong) /\ Range(wrong) \subseteq all
                   /\ Len(wrong) = Min({WantedOptions, Cardinality(all)})
                   /\ Range(wrong) \subseteq own \/ own \subseteq Range(wrong)
<1>1. IsFiniteSet(catalog)
  BY CatalogFinite
<1>2. PICK A, B, C : /\ bands = <<A, B, C>>
                     /\ A \cup B \cup C = Others
  <2> DEFINE same == {e \in Others : e.level = item.level}
             near == {e \in Others \ same : e.level \in active \cup {NoLevel}}
             rest == Others \ (same \cup near)
  <2>1. bands = <<same, near, rest>>
    BY DEF Bands
  <2>2. same \cup near \cup rest = Others
    OBVIOUS
  <2> HIDE DEF same, near, rest, bands, Others
  <2>3. QED
    BY <2>1, <2>2
<1>3. Others \subseteq catalog
  OBVIOUS
<1> HIDE DEF catalog
<1>4. IsFiniteSet(Others)
  BY <1>1, <1>3, FS_Subset
<1> HIDE DEF bands, Others
<1>5. bands[1] = A /\ bands[2] = B /\ bands[3] = C /\ UNION Range(bands) = Others
  <2>1. bands[1] = A /\ bands[2] = B /\ bands[3] = C /\ DOMAIN bands = {1, 2, 3}
    BY <1>2
  <2>2. Range(bands) = {A, B, C}
    BY <2>1 DEF Range
  <2>3. UNION {A, B, C} = A \cup B \cup C
    OBVIOUS
  <2>4. QED
    BY <1>2, <2>1, <2>2, <2>3
<1>6. ASSUME NEW a \in SetToSeqs(A), NEW b \in SetToSeqs(B), NEW c \in SetToSeqs(C)
      PROVE  Fair(a \o b \o c)
  <2> DEFINE pool == a \o b \o c
             L == Len(pool)
             n == Len(a)
  <2>1. A \in SUBSET Others /\ B \in SUBSET Others /\ C \in SUBSET Others
    BY <1>2
  <2>2. /\ L \in Nat /\ n \in 0 .. L
        /\ \A i \in 1 .. n : pool[i] \in A
        /\ Has(pool, n, A)
        /\ \A i \in 1 .. L : pool[i] \in Others
        /\ Has(pool, L, Others)
    <3>1. /\ Len(pool) \in Nat /\ Len(a) \in 0 .. Len(pool)
          /\ \A i \in 1 .. Len(a) : pool[i] \in A
          /\ Has(pool, Len(a), A)
          /\ \A i \in 1 .. Len(pool) : pool[i] \in Others
          /\ Has(pool, Len(pool), A \cup B \cup C)
      BY <1>4, <2>1, PoolFacts, Zenon
    <3> HIDE DEF pool
    <3>2. QED
      BY <1>2, <3>1
  <2> HIDE DEF pool, n
  <2>3. WrongOnes(items, dir, item, pool, L) = Answers(Others) \ {right}
    <3> HIDE DEF L
    <3>1. QED
      BY <2>2, Enumerated
  <2>4. WrongOnes(items, dir, item, pool, n) = Answers(A) \ {right}
    <3>1. n \in Nat
      BY <2>2
    <3>2. QED
      BY <2>2, <3>1, Enumerated
  <2>5. LET wrong == Distractors(items, dir, item, pool)
            all == WrongOnes(items, dir, item, pool, L)
            first == WrongOnes(items, dir, item, pool, n)
        IN  /\ IsInjective(wrong) /\ Range(wrong) \subseteq all
            /\ Len(wrong) = Min({WantedOptions, Cardinality(all)})
            /\ Range(wrong) \subseteq first \/ first \subseteq Range(wrong)
    BY <2>2, Choosing
  <2> HIDE DEF items, Answers, right
  <2>6. Fair(pool)
    BY <1>5, <2>3, <2>4, <2>5
  <2>7. QED
    BY <2>6 DEF pool
<1>7. RankedPools(bands) =
          {a \o b \o c : a \in SetToSeqs(A), b \in SetToSeqs(B), c \in SetToSeqs(C)}
  BY <1>5 DEF RankedPools
<1>8. \A pool \in RankedPools(bands) : Fair(pool)
  <2> HIDE DEF Fair
  <2>1. TAKE pool \in RankedPools(bands)
  <2>2. PICK a \in SetToSeqs(A), b \in SetToSeqs(B), c \in SetToSeqs(C) : pool = a \o b \o c
    BY <1>7
  <2>3. Fair(a \o b \o c)
    BY <1>6
  <2>4. QED
    BY <2>2, <2>3
<1>9. QED
  BY <1>5, <1>8 DEF FairChoices, bands, catalog

LEMMA ChoicesAreFairNow == TypeOK => ChoicesAreFair
<1> SUFFICES ASSUME TypeOK PROVE Settings.active \in FairFor[deck]
  BY DEF ChoicesAreFair
<1> DEFINE notes == Decks[deck] \o MoreNotes
           table == KanaTable \o MoreKana
           content == Build(notes, table)
           actives == {s.active : s \in Range(Meaning)}
           Multiple(dir, item) == Mode("multiple_choice", dir, item) = "multiple_choice"
           All(active) == \A type \in Types :
                              \A dir \in Range(Directions[type]), item \in Range(content[type]) :
                                  Multiple(dir, item) =>
                                      FairChoices(content, type, dir, item, active)
<1>1. deck \in DOMAIN Decks /\ stored \in DOMAIN Meaning
  BY DEF TypeOK
<1>2. notes \in Seq(Notes) /\ Importable(notes)
  <2>1. Decks[deck] \in Seq(Notes) /\ MoreNotes \in Seq(Notes) /\ Importable(notes)
    BY <1>1, DecksAssumption, ChoicesAssumption
  <2>2. QED
    BY <2>1, ConcatProperties
<1>3. table \in Seq(Kana) /\ EachOnce(table)
  BY KanaAssumption, ChoicesAssumption, ConcatProperties
<1> HIDE DEF notes, table
<1>4. \A type \in Types : Numbered(content[type])
  BY <1>2, <1>3, ContentRows DEF RowsAre
<1> HIDE DEF content
<1>5. \A active : All(active)
  BY <1>4, FairNow
<1>6. Settings.active \in actives
  BY <1>1 DEF Settings, Range
<1> HIDE DEF actives, All
<1>7. FairFor[deck] = {active \in actives : All(active)}
  BY <1>1 DEF FairFor, content, notes, table, actives, All
<1>8. QED
  BY <1>5, <1>6, <1>7

(* Whatever content was built, whatever levels are active and whatever the *)
(* shuffle, the wrong options of a multiple choice are all different and   *)
(* wrong, as many as wanted or as there are, the item's own level first.   *)
THEOREM ChoicesFair == Spec => []ChoicesAreFair
<1>1. Spec => []TypeOK
  BY TypeCorrect
<1>2. TypeOK => ChoicesAreFair
  BY ChoicesAreFairNow
<1>3. QED
  BY <1>1, <1>2, PTL

=============================================================================
