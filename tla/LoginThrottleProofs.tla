------------------------ MODULE LoginThrottleProofs ------------------------
(***************************************************************************)
(* Proofs about LoginThrottle, for any clients, handlers, limit, window    *)
(* and threshold: what a client has left of its failures is what the       *)
(* window still holds of its attempts, so that no window lets more through *)
(* and no client pays for another; and the table forgets the past.         *)
(***************************************************************************)
EXTENDS LoginThrottle, FiniteSetTheorems, SequenceTheorems, NaturalsInduction,
        WellFoundedInduction, TLAPS

-----------------------------------------------------------------------------
(* The inductive invariant. *)

Times == 1 .. MaxClock

InOrder(s) == \A i, j \in 1 .. Len(s) : i < j => s[i] <= s[j]

(* s is what is left of the attempts a once some that had lapsed by the    *)
(* time now were dropped from the front.                                   *)
LeftOf(s, a, now) ==
    LET gone == Len(a) - Len(s)
    IN  /\ Len(s) <= Len(a)
        /\ \A i \in 1 .. Len(s) : s[i] = a[gone + i]
        /\ \A i \in 1 .. gone : a[i] + Window <= now

Types ==
    /\ clock \in Times
    /\ failures \in [Clients -> Seq(Times)]
    /\ login \in [Requests -> Clients \cup {NoClient}]
    /\ admitted \in [Clients -> Seq(Times)]

Attempts ==
    \A c \in Clients :
        /\ InOrder(admitted[c])
        /\ \A i \in 1 .. Len(admitted[c]) : admitted[c][i] <= clock

Entries == \A c \in Clients : LeftOf(failures[c], admitted[c], clock)

FewTracked == IsFiniteSet(Tracked)

IInv == Types /\ Attempts /\ Entries /\ NoWindowLetsMoreThrough /\ FewTracked

-----------------------------------------------------------------------------
(* What is dropped, and what is left *)

LEMMA LeastElement ==
    ASSUME NEW T \in SUBSET Nat, T # {}
    PROVE  \E x \in T : \A y \in T : x <= y
<1>1. PICK x \in T : \A y \in T : ~(<<y, x>> \in OpToRel(<, Nat))
  BY WFMin, NatLessThanWellFounded, Zenon
<1>2. \A y \in T : ~(y < x)
  BY <1>1, Zenon DEF OpToRel
<1>3. QED
  BY <1>2

LEMMA NumberFacts ==
    /\ Times \subseteq Nat /\ Window \in Nat /\ Window >= 1
    /\ MaxFailures \in Nat /\ MaxFailures >= 1 /\ PruneThreshold \in Nat
BY ThrottleAssumption DEF Times

(* The loop of _recent stops at the first failure that has not lapsed. *)
LEMMA DroppedFacts ==
    ASSUME NEW c, failures[c] \in Seq(Times)
    PROVE  /\ Dropped(c) \in 0 .. Len(failures[c])
           /\ \A i \in 1 .. Dropped(c) : Lapsed(failures[c][i])
           /\ Dropped(c) < Len(failures[c]) => ~Lapsed(failures[c][Dropped(c) + 1])
<1> DEFINE n == Len(failures[c])
           stops == {k \in 0 .. n : k < n => ~Lapsed(failures[c][k + 1])}
<1>1. n \in Nat /\ n \in stops /\ stops \subseteq Nat
  OBVIOUS
<1>2. PICK k \in stops : \A m \in stops : k <= m
  BY <1>1, LeastElement
<1>3. \A i \in 1 .. k : Lapsed(failures[c][i])
  <2>1. SUFFICES ASSUME NEW i \in 1 .. k, ~Lapsed(failures[c][i]) PROVE FALSE
    OBVIOUS
  <2>2. i - 1 \in 0 .. n /\ i - 1 + 1 = i /\ i - 1 < k
    BY <1>1, <1>2
  <2>3. i - 1 \in stops
    BY <2>1, <2>2
  <2>4. k \in Nat /\ k <= i - 1
    BY <1>1, <1>2, <2>3
  <2> HIDE DEF stops
  <2>5. QED
    BY <2>2, <2>4
<1>4. \E k0 \in 0 .. n : /\ \A i \in 1 .. k0 : Lapsed(failures[c][i])
                         /\ k0 < n => ~Lapsed(failures[c][k0 + 1])
  BY <1>2, <1>3
<1>5. QED
  BY <1>4 DEF Dropped

(* Dropping n lapsed times from the front of what is left. *)
LEMMA DropFront ==
    ASSUME NEW now \in Nat, NEW a \in Seq(Times), NEW s \in Seq(Times), NEW n \in 0 .. Len(s),
           InOrder(a), LeftOf(s, a, now), \A i \in 1 .. n : s[i] + Window <= now,
           n < Len(s) => ~(s[n + 1] + Window <= now)
    PROVE  LET left == SubSeq(s, n + 1, Len(s))
           IN  /\ left \in Seq(Times) /\ Len(left) = Len(s) - n /\ LeftOf(left, a, now)
               /\ \A i \in 1 .. Len(left) : ~(left[i] + Window <= now)
<1> DEFINE left == SubSeq(s, n + 1, Len(s))
<1> HIDE DEF left
<1>1. PICK ls \in Nat, gone \in Nat :
          /\ ls = Len(s) /\ Len(a) = gone + ls /\ n <= ls
          /\ \A i \in 1 .. ls : s[i] = a[gone + i]
          /\ \A i \in 1 .. gone : a[i] + Window <= now
  <2>1. Len(s) \in Nat /\ Len(a) \in Nat
    OBVIOUS
  <2>2. Len(a) - Len(s) \in Nat
    BY <2>1 DEF LeftOf
  <2>3. Len(a) = (Len(a) - Len(s)) + Len(s)
    BY <2>1
  <2>4. /\ \A i \in 1 .. Len(s) : s[i] = a[Len(a) - Len(s) + i]
        /\ \A i \in 1 .. Len(a) - Len(s) : a[i] + Window <= now
        /\ n <= Len(s)
    BY <2>1 DEF LeftOf
  <2>5. QED
    BY <2>1, <2>2, <2>3, <2>4, Zenon
<1>2. /\ n \in Nat /\ \A i \in 1 .. ls : s[i] \in Times /\ s[i] \in Nat
      /\ \A i \in 1 .. gone + ls : a[i] \in Nat
  <2>1. n \in Nat
    BY <1>1
  <2>2. /\ \A i \in 1 .. Len(s) : s[i] \in Times
        /\ \A i \in 1 .. Len(a) : a[i] \in Times
    OBVIOUS
  <2>3. QED
    BY <1>1, <2>1, <2>2, NumberFacts
<1>3. left \in Seq(Times) /\ Len(left) = ls - n /\ \A i \in 1 .. ls - n : left[i] = s[n + i]
  <2>1. left = SubSeq(s, n + 1, ls) /\ n + 1 \in Int /\ ls \in Int
    BY <1>1, <1>2 DEF left
  <2>2. \A i \in n + 1 .. ls : s[i] \in Times
    BY <1>1, <1>2
  <2> HIDE DEF left
  <2>3. /\ left \in Seq(Times)
        /\ Len(left) = IF n + 1 <= ls THEN ls - (n + 1) + 1 ELSE 0
        /\ \A i \in 1 .. ls - (n + 1) + 1 : left[i] = s[n + 1 + i - 1]
    BY <2>1, <2>2, SubSeqProperties
  <2>4. /\ ls - (n + 1) + 1 = ls - n /\ (n + 1 <= ls \/ ls - n = 0)
        /\ \A i \in Int : n + 1 + i - 1 = n + i
    BY <1>1, <1>2
  <2>5. QED
    BY <1>1, <1>2, <2>3, <2>4
<1>4. LeftOf(left, a, now)
  <2>1. Len(a) - Len(left) = gone + n /\ Len(left) <= Len(a)
    BY <1>1, <1>2, <1>3
  <2>2. \A i \in 1 .. ls - n : left[i] = a[gone + n + i]
    <3>1. SUFFICES ASSUME NEW i \in 1 .. ls - n PROVE left[i] = a[gone + n + i]
      OBVIOUS
    <3>2. n + i \in 1 .. ls /\ gone + (n + i) = gone + n + i
      BY <1>1, <1>2
    <3>3. QED
      BY <1>1, <1>3, <3>2
  <2>3. ASSUME NEW i \in 1 .. gone + n PROVE a[i] + Window <= now
    <3>1. CASE i <= gone
      BY <1>1, <3>1
    <3>2. CASE ~(i <= gone)
      <4>1. i - gone \in 1 .. n /\ i - gone \in 1 .. ls /\ gone + (i - gone) = i
        BY <1>1, <1>2, <3>2
      <4>2. s[i - gone] = a[i] /\ s[i - gone] + Window <= now
        BY <1>1, <4>1
      <4>3. QED
        BY <4>2
    <3>3. QED
      BY <3>1, <3>2
  <2>4. QED
    BY <1>3, <2>1, <2>2, <2>3 DEF LeftOf
<1>5. ASSUME NEW i \in 1 .. ls - n PROVE ~(left[i] + Window <= now)
  <2>1. n < ls /\ n + i \in 1 .. ls /\ n + 1 \in 1 .. ls
    BY <1>1, <1>2
  <2>2. gone + (n + 1) \in 1 .. gone + ls /\ gone + (n + i) \in 1 .. gone + ls
    BY <1>1, <2>1
  <2>3. gone + (n + 1) < gone + (n + i) \/ n + 1 = n + i
    BY <1>1, <1>2
  <2>4. a[gone + (n + 1)] \in Nat
    BY <1>2, <2>2
  <2>5. a[gone + (n + 1)] <= a[gone + (n + i)]
    <3>1. \A j, k \in 1 .. gone + ls : j < k => a[j] <= a[k]
      BY <1>1 DEF InOrder
    <3>2. CASE gone + (n + 1) < gone + (n + i)
      BY <2>2, <3>1, <3>2
    <3>3. CASE n + 1 = n + i
      BY <2>4, <3>3
    <3>4. QED
      BY <2>3, <3>2, <3>3
  <2>6. s[n + 1] <= left[i] /\ ~(s[n + 1] + Window <= now)
    BY <1>1, <1>3, <2>1, <2>5
  <2>7. s[n + 1] \in Nat /\ left[i] \in Nat
    BY <1>2, <1>3, <2>1
  <2>8. QED
    BY <2>6, <2>7, NumberFacts
<1>6. QED
  BY <1>1, <1>3, <1>4, <1>5 DEF left

LEMMA RecentFacts ==
    ASSUME Types, Attempts, Entries, NEW c \in Clients
    PROVE  /\ Recent(c) \in Seq(Times) /\ LeftOf(Recent(c), admitted[c], clock)
           /\ \A i \in 1 .. Len(Recent(c)) : ~Lapsed(Recent(c)[i])
           /\ failures[c] = << >> => Recent(c) = << >>
<1>1. /\ failures[c] \in Seq(Times) /\ admitted[c] \in Seq(Times) /\ clock \in Nat
      /\ InOrder(admitted[c]) /\ LeftOf(failures[c], admitted[c], clock)
  BY NumberFacts DEF Types, Attempts, Entries
<1>2. /\ Dropped(c) \in 0 .. Len(failures[c])
      /\ \A i \in 1 .. Dropped(c) : Lapsed(failures[c][i])
      /\ Dropped(c) < Len(failures[c]) => ~Lapsed(failures[c][Dropped(c) + 1])
  BY <1>1, DroppedFacts
<1>3. /\ Recent(c) \in Seq(Times) /\ LeftOf(Recent(c), admitted[c], clock)
      /\ Len(Recent(c)) = Len(failures[c]) - Dropped(c)
      /\ \A i \in 1 .. Len(Recent(c)) : ~(Recent(c)[i] + Window <= clock)
  <2> DEFINE s == failures[c]
             n == Dropped(c)
             left == SubSeq(s, n + 1, Len(s))
  <2>1. /\ \A i \in 1 .. n : s[i] + Window <= clock
        /\ n < Len(s) => ~(s[n + 1] + Window <= clock)
    BY <1>2 DEF Lapsed
  <2>2. /\ left \in Seq(Times) /\ Len(left) = Len(s) - n /\ LeftOf(left, admitted[c], clock)
        /\ \A i \in 1 .. Len(left) : ~(left[i] + Window <= clock)
    <3>1. s \in Seq(Times) /\ n \in 0 .. Len(s) /\ LeftOf(s, admitted[c], clock)
      BY <1>1, <1>2
    <3> HIDE DEF s, n
    <3>2. QED
      BY <1>1, <2>1, <3>1, DropFront
  <2>3. Recent(c) = left
    BY DEF Recent
  <2>4. QED
    BY <2>2, <2>3
<1>4. ASSUME failures[c] = << >> PROVE Recent(c) = << >>
  <2>1. Len(failures[c]) = 0 /\ Dropped(c) = 0
    BY <1>2, <1>4
  <2>2. Len(Recent(c)) = 0
    BY <1>3, <2>1
  <2>3. QED
    BY <1>3, <2>2, EmptySeq
<1>5. QED
  BY <1>3, <1>4 DEF Lapsed

-----------------------------------------------------------------------------
(* An attempt at time now is the last of both sequences. *)

LEMMA AppendFacts ==
    ASSUME NEW now \in Times, NEW a \in Seq(Times), NEW s \in Seq(Times),
           InOrder(a), \A i \in 1 .. Len(a) : a[i] <= now, LeftOf(s, a, now)
    PROVE  LET b == Append(a, now)
               t == Append(s, now)
           IN  /\ b \in Seq(Times) /\ t \in Seq(Times)
               /\ InOrder(b) /\ (\A i \in 1 .. Len(b) : b[i] <= now) /\ LeftOf(t, b, now)
               /\ (/\ Len(s) < MaxFailures
                   /\ \A i \in 1 .. Len(a) :
                          i + MaxFailures <= Len(a) => a[i + MaxFailures] >= a[i] + Window)
                  => \A i \in 1 .. Len(b) :
                         i + MaxFailures <= Len(b) => b[i + MaxFailures] >= b[i] + Window
<1> DEFINE b == Append(a, now)
           t == Append(s, now)
<1>1. PICK ls \in Nat, la \in Nat : ls = Len(s) /\ la = Len(a)
  OBVIOUS
<1>2. /\ b \in Seq(Times) /\ Len(b) = la + 1 /\ b[la + 1] = now
      /\ \A i \in 1 .. la : b[i] = a[i]
  BY <1>1
<1>3. /\ t \in Seq(Times) /\ Len(t) = ls + 1 /\ t[ls + 1] = now
      /\ \A i \in 1 .. ls : t[i] = s[i]
  BY <1>1
<1>4. now \in Nat /\ \A i \in 1 .. la : a[i] \in Nat /\ a[i] <= now
  <2>1. \A i \in 1 .. Len(a) : a[i] \in Times
    OBVIOUS
  <2>2. QED
    BY <1>1, <2>1, NumberFacts
<1>5. /\ ls <= la /\ \A i \in 1 .. ls : s[i] = a[la - ls + i]
      /\ \A i \in 1 .. la - ls : a[i] + Window <= now
  BY <1>1 DEF LeftOf
<1>6. \A i, j \in 1 .. la : i < j => a[i] <= a[j]
  BY <1>1 DEF InOrder
<1> HIDE DEF b, t
<1>7. \A i \in 1 .. la + 1 : i \in 1 .. la \/ i = la + 1
  BY <1>1
<1>8. \A i \in 1 .. la + 1 : b[i] <= now
  BY <1>2, <1>4, <1>7
<1>9. InOrder(b)
  <2>1. ASSUME NEW i \in 1 .. la + 1, NEW j \in 1 .. la + 1, i < j PROVE b[i] <= b[j]
    <3>1. i \in 1 .. la
      BY <1>1, <2>1
    <3>2. CASE j \in 1 .. la
      BY <1>2, <1>6, <2>1, <3>1, <3>2
    <3>3. CASE j = la + 1
      BY <1>2, <1>4, <3>1, <3>3
    <3>4. QED
      BY <1>7, <3>2, <3>3
  <2>2. QED
    BY <1>2, <2>1 DEF InOrder
<1>10. LeftOf(t, b, now)
  <2>1. Len(b) - Len(t) = la - ls /\ Len(t) <= Len(b)
    BY <1>1, <1>2, <1>3, <1>5
  <2>2. ASSUME NEW i \in 1 .. ls + 1 PROVE t[i] = b[la - ls + i]
    <3>1. CASE i \in 1 .. ls
      <4>1. la - ls + i \in 1 .. la
        BY <1>1, <1>5, <3>1
      <4>2. QED
        BY <1>2, <1>3, <1>5, <3>1, <4>1
    <3>2. CASE i = ls + 1
      <4>1. la - ls + i = la + 1
        BY <1>1, <3>2
      <4>2. QED
        BY <1>2, <1>3, <3>2, <4>1
    <3>3. QED
      BY <1>1, <3>1, <3>2
  <2>3. ASSUME NEW i \in 1 .. la - ls PROVE b[i] + Window <= now
    <3>1. i \in 1 .. la
      BY <1>1
    <3>2. QED
      BY <1>2, <1>5, <3>1
  <2>4. QED
    BY <1>3, <2>1, <2>2, <2>3 DEF LeftOf
<1>11. ASSUME ls < MaxFailures,
              \A i \in 1 .. la : i + MaxFailures <= la => a[i + MaxFailures] >= a[i] + Window,
              NEW i \in 1 .. la + 1, i + MaxFailures <= la + 1
       PROVE  b[i + MaxFailures] >= b[i] + Window
  <2>1. i \in 1 .. la /\ MaxFailures \in Nat /\ MaxFailures >= 1 /\ b[i] = a[i]
    BY <1>1, <1>2, <1>11, NumberFacts
  <2>2. CASE i + MaxFailures <= la
    <3>1. i + MaxFailures \in 1 .. la
      BY <1>1, <2>1, <2>2
    <3>2. QED
      BY <1>2, <1>11, <2>1, <2>2, <3>1
  <2>3. CASE ~(i + MaxFailures <= la)
    <3>1. i + MaxFailures = la + 1 /\ i \in 1 .. la - ls
      <4>1. ls < MaxFailures /\ i + MaxFailures <= la + 1 /\ i \in Nat /\ i >= 1
        BY <1>1, <1>11
      <4>2. QED
        BY <1>1, <2>1, <2>3, <4>1
    <3>2. a[i] + Window <= now /\ a[i] + Window \in Nat
      BY <1>4, <1>5, <2>1, <3>1, NumberFacts
    <3>3. b[i + MaxFailures] = now /\ b[i] + Window <= now
      BY <1>2, <2>1, <3>1, <3>2
    <3>4. QED
      BY <1>4, <2>1, <3>2, <3>3
  <2>4. QED
    BY <2>2, <2>3
<1>12. QED
  BY <1>1, <1>2, <1>3, <1>8, <1>9, <1>10, <1>11 DEF b, t

-----------------------------------------------------------------------------
(* The steps *)

(* The entries a step may leave: what was there, what is recent of it, or  *)
(* that and the attempt of now.                                            *)
LEMMA EntryKept ==
    ASSUME Types, Attempts, Entries, NEW c \in Clients, failures'[c] \in {failures[c], Recent(c)},
           admitted'[c] = admitted[c], clock' = clock
    PROVE  /\ failures'[c] \in Seq(Times) /\ LeftOf(failures'[c], admitted'[c], clock')
           /\ failures[c] = << >> => failures'[c] = << >>
BY RecentFacts DEF Types, Entries

LEMMA TrackedStep ==
    ASSUME FewTracked, NEW c \in Clients,
           \A d \in Clients \ {c} : failures[d] = << >> => failures'[d] = << >>
    PROVE  FewTracked'
<1>1. IsFiniteSet(Tracked \cup {c}) /\ Tracked' \subseteq Tracked \cup {c}
  BY FS_AddElement DEF FewTracked, Tracked
<1>2. QED
  BY <1>1, FS_Subset DEF FewTracked

(* A step that lets nobody through. *)
LEMMA NoAttemptStep ==
    ASSUME IInv, NEW c \in Clients, clock' = clock,
           login' \in [Requests -> Clients \cup {NoClient}],
           failures' \in [Clients -> Seq(Times)], admitted' = admitted,
           \A d \in Clients : failures'[d] \in {failures[d], Recent(d)}
    PROVE  IInv'
<1>1. Types' /\ Attempts' /\ NoWindowLetsMoreThrough'
  BY DEF IInv, Types, Attempts, NoWindowLetsMoreThrough
<1>2. \A d \in Clients : /\ LeftOf(failures'[d], admitted'[d], clock')
                         /\ failures[d] = << >> => failures'[d] = << >>
  BY EntryKept DEF IInv
<1>3. Entries'
  BY <1>2 DEF Entries
<1>4. FewTracked'
  BY <1>2, TrackedStep DEF IInv
<1>5. QED
  BY <1>1, <1>3, <1>4 DEF IInv

LEMMA TickStep == ASSUME IInv, Tick PROVE IInv'
<1>1. /\ clock \in Nat /\ clock' \in Times /\ clock' \in Nat /\ clock <= clock'
      /\ UNCHANGED <<failures, login, admitted>>
  BY NumberFacts, ThrottleAssumption DEF IInv, Types, Tick, Times
<1>2. \A c \in Clients : /\ admitted[c] \in Seq(Times)
                         /\ \A i \in 1 .. Len(admitted[c]) : admitted[c][i] \in Nat
  <2>1. \A c \in Clients : admitted[c] \in Seq(Times)
    BY DEF IInv, Types
  <2>2. \A c \in Clients : \A i \in 1 .. Len(admitted[c]) : admitted[c][i] \in Times
    BY <2>1
  <2>3. QED
    BY <2>1, <2>2, NumberFacts
<1>3. Types' /\ NoWindowLetsMoreThrough' /\ FewTracked'
  BY <1>1 DEF IInv, Types, NoWindowLetsMoreThrough, FewTracked, Tracked
<1>4. Attempts'
  BY <1>1, <1>2 DEF IInv, Attempts
<1>5. ASSUME NEW c \in Clients PROVE LeftOf(failures[c], admitted[c], clock')
  <2>1. LeftOf(failures[c], admitted[c], clock)
    BY DEF IInv, Entries
  <2>2. failures[c] \in Seq(Times) /\ admitted[c] \in Seq(Times)
    BY DEF IInv, Types
  <2>3. ASSUME NEW i \in 1 .. Len(admitted[c]) - Len(failures[c])
        PROVE  admitted[c][i] + Window <= clock'
    <3>1. i \in 1 .. Len(admitted[c])
      <4>1. \A m, n \in Nat : 1 .. m - n \subseteq 1 .. m
        OBVIOUS
      <4>2. Len(admitted[c]) \in Nat /\ Len(failures[c]) \in Nat
        BY <2>2
      <4>3. QED
        BY <4>1, <4>2
    <3>2. admitted[c][i] + Window <= clock /\ admitted[c][i] \in Nat
      BY <1>2, <2>1, <3>1 DEF LeftOf
    <3>3. QED
      BY <1>1, <3>2, NumberFacts
  <2>4. QED
    BY <2>1, <2>3 DEF LeftOf
<1>6. Entries'
  BY <1>1, <1>5 DEF Entries
<1>7. QED
  BY <1>3, <1>4, <1>6 DEF IInv

(* What an attempt does to the entries of its client and of the others. *)
LEMMA AttemptEntries ==
    ASSUME IInv, NEW r \in Requests, NEW c \in Clients, Attempt(r, c)
    PROVE  /\ clock' = clock /\ Len(Recent(c)) < MaxFailures
           /\ failures' \in [Clients -> Seq(Times)] /\ admitted' \in [Clients -> Seq(Times)]
           /\ failures'[c] = Append(Recent(c), clock) /\ admitted'[c] = Append(admitted[c], clock)
           /\ \A d \in Clients \ {c} : /\ failures'[d] \in {failures[d], Recent(d)}
                                       /\ failures'[d] = Swept(c, d)
                                       /\ admitted'[d] = admitted[d]
<1>1. /\ clock \in Times /\ failures \in [Clients -> Seq(Times)]
      /\ admitted \in [Clients -> Seq(Times)]
      /\ \A d \in Clients : Recent(d) \in Seq(Times)
  BY RecentFacts DEF IInv, Types
<1>2. \A d \in Clients : Swept(c, d) \in {failures[d], Recent(d)}
  BY DEF Swept
<1>3. /\ failures' = [d \in Clients |-> IF d = c THEN Append(Recent(c), clock) ELSE Swept(c, d)]
      /\ admitted' = [admitted EXCEPT ![c] = Append(admitted[c], clock)]
      /\ clock' = clock /\ Len(Recent(c)) < MaxFailures
  BY DEF Attempt, Allowed
<1>4. Append(Recent(c), clock) \in Seq(Times) /\ Append(admitted[c], clock) \in Seq(Times)
  BY <1>1
<1>5. QED
  BY <1>1, <1>2, <1>3, <1>4

LEMMA AttemptStep ==
    ASSUME IInv, NEW r \in Requests, NEW c \in Clients, Attempt(r, c)
    PROVE  IInv'
<1>1. /\ clock' = clock /\ Len(Recent(c)) < MaxFailures
      /\ failures' \in [Clients -> Seq(Times)] /\ admitted' \in [Clients -> Seq(Times)]
      /\ failures'[c] = Append(Recent(c), clock) /\ admitted'[c] = Append(admitted[c], clock)
      /\ \A d \in Clients \ {c} : /\ failures'[d] \in {failures[d], Recent(d)}
                                  /\ admitted'[d] = admitted[d]
  BY AttemptEntries
<1>2. /\ clock \in Times /\ admitted[c] \in Seq(Times) /\ Recent(c) \in Seq(Times)
      /\ InOrder(admitted[c]) /\ (\A i \in 1 .. Len(admitted[c]) : admitted[c][i] <= clock)
      /\ LeftOf(Recent(c), admitted[c], clock)
      /\ \A i \in 1 .. Len(admitted[c]) : i + MaxFailures <= Len(admitted[c]) =>
             admitted[c][i + MaxFailures] >= admitted[c][i] + Window
  BY RecentFacts DEF IInv, Types, Attempts, NoWindowLetsMoreThrough
<1>3. /\ InOrder(admitted'[c]) /\ \A i \in 1 .. Len(admitted'[c]) : admitted'[c][i] <= clock
      /\ LeftOf(failures'[c], admitted'[c], clock)
      /\ \A i \in 1 .. Len(admitted'[c]) : i + MaxFailures <= Len(admitted'[c]) =>
             admitted'[c][i + MaxFailures] >= admitted'[c][i] + Window
  BY <1>1, <1>2, AppendFacts
<1>4. Types'
  BY <1>1 DEF IInv, Types, Attempt
<1>5. Attempts' /\ NoWindowLetsMoreThrough'
  BY <1>1, <1>3 DEF IInv, Attempts, NoWindowLetsMoreThrough
<1>6. \A d \in Clients \ {c} : /\ LeftOf(failures'[d], admitted'[d], clock')
                               /\ failures[d] = << >> => failures'[d] = << >>
  BY <1>1, EntryKept DEF IInv
<1>7. Entries'
  BY <1>1, <1>3, <1>6 DEF Entries
<1>8. FewTracked'
  BY <1>6, TrackedStep DEF IInv
<1>9. QED
  BY <1>4, <1>5, <1>7, <1>8 DEF IInv

(* A success forgets the attempts with the failures. *)
LEMMA RightStep == ASSUME IInv, NEW r \in Requests, Right(r) PROVE IInv'
<1> DEFINE c == login[r]
<1>1. c \in Clients
  BY DEF IInv, Types, Right
<1>2. /\ failures' = [failures EXCEPT ![c] = << >>] /\ admitted' = [admitted EXCEPT ![c] = << >>]
      /\ clock' = clock /\ login' = [login EXCEPT ![r] = NoClient]
  BY DEF Right
<1>3. /\ failures'[c] = << >> /\ admitted'[c] = << >>
      /\ \A d \in Clients \ {c} : failures'[d] = failures[d] /\ admitted'[d] = admitted[d]
  BY <1>1, <1>2 DEF IInv, Types
<1> HIDE DEF c
<1>4. Types'
  <2>1. << >> \in Seq(Times)
    BY EmptySeq
  <2>2. QED
    BY <1>2, <2>1 DEF IInv, Types
<1>5. Len(<< >>) = 0 /\ 1 .. 0 = {}
  OBVIOUS
<1>6. InOrder(<< >>) /\ LeftOf(<< >>, << >>, clock)
  BY <1>5 DEF InOrder, LeftOf
<1>7. Attempts' /\ NoWindowLetsMoreThrough'
  BY <1>1, <1>2, <1>3, <1>5, <1>6 DEF IInv, Attempts, NoWindowLetsMoreThrough
<1>8. Entries'
  BY <1>1, <1>2, <1>3, <1>6 DEF IInv, Entries
<1>9. FewTracked'
  BY <1>1, <1>3, TrackedStep DEF IInv
<1>10. QED
  BY <1>4, <1>7, <1>8, <1>9 DEF IInv

LEMMA InvStep == ASSUME IInv, [Next]_vars PROVE IInv'
<1>1. /\ \A c \in Clients : failures[c] \in Seq(Times) /\ Recent(c) \in Seq(Times)
      /\ failures \in [Clients -> Seq(Times)]
      /\ login \in [Requests -> Clients \cup {NoClient}]
  BY RecentFacts DEF IInv, Types
<1>2. CASE Tick
  BY <1>2, TickStep
<1>3. ASSUME NEW r \in Requests, NEW c \in Clients, Refuse(r, c)
      PROVE  IInv'
  <2>1. /\ clock' = clock /\ login' = login /\ admitted' = admitted
        /\ failures' = [failures EXCEPT ![c] = Recent(c)]
    BY <1>3 DEF Refuse
  <2>2. /\ failures' \in [Clients -> Seq(Times)]
        /\ \A d \in Clients : failures'[d] \in {failures[d], Recent(d)}
    BY <1>1, <2>1
  <2>3. QED
    BY <1>1, <2>1, <2>2, NoAttemptStep
<1>4. ASSUME NEW r \in Requests, NEW c \in Clients, Attempt(r, c)
      PROVE  IInv'
  BY <1>4, AttemptStep
<1>5. ASSUME NEW r \in Requests, Wrong(r)
      PROVE  IInv'
  <2>1. /\ clock' = clock /\ admitted' = admitted /\ failures' = failures
        /\ login' \in [Requests -> Clients \cup {NoClient}] /\ login[r] \in Clients
    BY <1>1, <1>5 DEF Wrong
  <2>2. \A d \in Clients : failures'[d] \in {failures[d], Recent(d)}
    BY <2>1
  <2>3. QED
    BY <1>1, <2>1, <2>2, NoAttemptStep
<1>6. ASSUME NEW r \in Requests, Right(r)
      PROVE  IInv'
  BY <1>6, RightStep
<1>7. CASE UNCHANGED vars
  BY <1>7 DEF vars, IInv, Types, Attempts, Entries, NoWindowLetsMoreThrough, FewTracked, Tracked
<1>8. QED
  BY <1>2, <1>3, <1>4, <1>5, <1>6, <1>7 DEF Next

LEMMA InvInit == Init => IInv
<1> SUFFICES ASSUME Init PROVE IInv
  OBVIOUS
<1>1. << >> \in Seq(Times) /\ Len(<< >>) = 0 /\ 1 .. 0 = {}
  BY EmptySeq
<1>2. Types
  BY <1>1, ThrottleAssumption DEF Init, Types, Times
<1>3. Attempts /\ Entries /\ NoWindowLetsMoreThrough
  BY <1>1 DEF Init, Attempts, InOrder, Entries, LeftOf, NoWindowLetsMoreThrough
<1>4. FewTracked
  <2>1. Tracked = {}
    BY DEF Init, Tracked
  <2>2. QED
    BY <2>1, FS_EmptySet DEF FewTracked
<1>5. QED
  BY <1>2, <1>3, <1>4 DEF IInv

-----------------------------------------------------------------------------
(* The invariant holds, and what the run checks follows from it. *)

(* The table holds the attempts that were let through, as far as they are  *)
(* recent, at every moment (services/login_throttle.py).                   *)
THEOREM Invariance == Spec => []IInv
<1>1. Init => IInv
  BY InvInit
<1>2. IInv /\ [Next]_vars => IInv'
  BY InvStep
<1>3. QED
  BY <1>1, <1>2, PTL DEF Spec

(* The failures of a client stay in the order of time, so that looking at  *)
(* the oldest is enough (services/login_throttle.py).                      *)
THEOREM TypeCorrect == Spec => []TypeOK
<1>1. ASSUME IInv PROVE TypeOK
  <2>1. ASSUME NEW c \in Clients,
               NEW i \in 1 .. Len(failures[c]), NEW j \in 1 .. Len(failures[c]), i < j
        PROVE  failures[c][i] <= failures[c][j]
    <3>1. PICK ls \in Nat, la \in Nat : ls = Len(failures[c]) /\ la = Len(admitted[c])
      BY <1>1 DEF IInv, Types
    <3>2. /\ ls <= la /\ \A k \in 1 .. ls : failures[c][k] = admitted[c][la - ls + k]
          /\ \A k, m \in 1 .. la : k < m => admitted[c][k] <= admitted[c][m]
      BY <1>1, <3>1 DEF IInv, Entries, LeftOf, Attempts, InOrder
    <3>3. i \in 1 .. ls /\ j \in 1 .. ls
      BY <3>1
    <3>4. /\ la - ls + i \in 1 .. la /\ la - ls + j \in 1 .. la
          /\ la - ls + i < la - ls + j
      <4>1. ls <= la /\ i < j /\ i \in 1 .. ls /\ j \in 1 .. ls
        BY <2>1, <3>2, <3>3
      <4>2. \A m, n \in Nat : m <= n => \A x, y \in 1 .. m : x < y =>
                /\ n - m + x \in 1 .. n /\ n - m + y \in 1 .. n /\ n - m + x < n - m + y
        OBVIOUS
      <4>3. QED
        BY <4>1, <4>2
    <3>5. QED
      BY <3>2, <3>3, <3>4
  <2>2. QED
    BY <1>1, <2>1 DEF IInv, Types, TypeOK, Times
<1>2. QED
  BY <1>1, Invariance, PTL

(* No window of time lets more attempts through than the limit, however    *)
(* many handlers check at once (api/routers/auth.py).                      *)
THEOREM WindowHolds == Spec => []NoWindowLetsMoreThrough
<1>1. IInv => NoWindowLetsMoreThrough
  BY DEF IInv
<1>2. QED
  BY <1>1, Invariance, PTL

(* A client that is refused used up the window itself                      *)
(* (services/login_throttle.py).                                           *)
THEOREM RefusalIsEarned == Spec => []RefusedForItsOwn
<1>1. ASSUME IInv, NEW c \in Clients, ~Allowed(c)
      PROVE  /\ Len(admitted[c]) >= MaxFailures
             /\ ~Lapsed(admitted[c][Len(admitted[c]) - MaxFailures + 1])
  <2> DEFINE left == Recent(c)
  <2>1. /\ left \in Seq(Times) /\ LeftOf(left, admitted[c], clock)
        /\ \A i \in 1 .. Len(left) : ~Lapsed(left[i])
        /\ admitted[c] \in Seq(Times)
    BY <1>1, RecentFacts DEF IInv, Types
  <2>2. ~(Len(left) < MaxFailures)
    BY <1>1 DEF Allowed
  <2> HIDE DEF left
  <2>3. PICK ls \in Nat, la \in Nat : ls = Len(left) /\ la = Len(admitted[c])
    BY <2>1
  <2>4. ls <= la /\ \A i \in 1 .. ls : left[i] = admitted[c][la - ls + i]
    BY <2>1, <2>3 DEF LeftOf
  <2> DEFINE i == ls - MaxFailures + 1
  <2>5. i \in 1 .. ls /\ la - ls + i = la - MaxFailures + 1 /\ la >= MaxFailures
    <3>1. ls <= la /\ ~(ls < MaxFailures)
      BY <2>2, <2>3, <2>4
    <3>2. \A m, n, k \in Nat : m <= n /\ ~(m < k) /\ k >= 1 =>
              /\ m - k + 1 \in 1 .. m /\ n - m + (m - k + 1) = n - k + 1 /\ n >= k
      OBVIOUS
    <3>3. QED
      BY <3>1, <3>2, NumberFacts
  <2>6. left[i] = admitted[c][la - MaxFailures + 1] /\ ~Lapsed(left[i])
    BY <2>1, <2>3, <2>4, <2>5
  <2>7. QED
    BY <2>3, <2>5, <2>6
<1>2. IInv => RefusedForItsOwn
  BY <1>1 DEF RefusedForItsOwn
<1>3. QED
  BY <1>2, Invariance, PTL

LEMMA LastIsRecent ==
    ASSUME IInv, NEW r \in Requests, NEW c \in Clients, Attempt(r, c),
           Cardinality(Tracked') > PruneThreshold + 1, NEW d \in Tracked'
    PROVE  ~Lapsed(failures'[d][Len(failures'[d])])
<1> DEFINE kept == IF Recent(c) = << >> THEN Tracked \ {c} ELSE Tracked
           last == failures'[d]
<1>1. /\ failures'[c] = Append(Recent(c), clock)
      /\ \A e \in Clients \ {c} : failures'[e] = Swept(c, e)
      /\ last \in Seq(Times) /\ d \in Clients /\ last # << >>
      /\ failures' \in [Clients -> Seq(Times)]
  BY AttemptEntries DEF Tracked
<1>2. \A e \in Clients : /\ Recent(e) \in Seq(Times)
                         /\ \A i \in 1 .. Len(Recent(e)) : ~Lapsed(Recent(e)[i])
  BY RecentFacts DEF IInv
<1>3. clock \in Nat
  BY NumberFacts DEF IInv, Types
<1>4. CASE d = c
  <2>1. last[Len(last)] = clock
    BY <1>1, <1>2, <1>4
  <2>2. QED
    BY <1>3, <2>1, NumberFacts DEF Lapsed
<1>5. CASE d # c /\ Cardinality(kept) > PruneThreshold
  <2>1. last = Recent(d)
    BY <1>1, <1>5 DEF Swept
  <2>2. Len(last) \in 1 .. Len(last)
    BY <1>1
  <2>3. QED
    BY <1>1, <1>2, <2>1, <2>2
<1>6. CASE ~(Cardinality(kept) > PruneThreshold)
  <2>1. Tracked' \subseteq kept \cup {c}
    <3>1. ASSUME NEW e \in Clients, e # c, failures'[e] # << >> PROVE e \in kept
      <4>1. failures'[e] = failures[e]
        BY <1>1, <1>6, <3>1 DEF Swept
      <4>2. QED
        BY <3>1, <4>1 DEF Tracked
    <3>2. QED
      BY <3>1 DEF Tracked
  <2>2. IsFiniteSet(kept)
    BY FS_Subset DEF IInv, FewTracked
  <2> HIDE DEF kept
  <2>3. /\ IsFiniteSet(kept \cup {c})
        /\ Cardinality(kept \cup {c}) = IF c \in kept THEN Cardinality(kept)
                                        ELSE Cardinality(kept) + 1
        /\ Cardinality(kept) \in Nat
    BY <2>2, FS_AddElement, FS_CardinalityType
  <2>4. /\ Cardinality(Tracked') <= Cardinality(kept \cup {c})
        /\ Cardinality(Tracked') \in Nat
    BY <2>1, <2>3, FS_Subset, FS_CardinalityType
  <2>5. QED
    BY <1>6, <2>3, <2>4, NumberFacts
<1>7. QED
  BY <1>4, <1>5, <1>6

(* After an attempt the table has more entries than the threshold allows   *)
(* only if each of them is recent (services/login_throttle.py).            *)
THEOREM TableForgetsThePast == Spec => OnlyRecentBeyondThreshold
<1>1. ASSUME IInv, Next, Attempted
      PROVE  \E r \in Requests, c \in Clients : Attempt(r, c)
  <2>1. PICK q \in Requests : login[q] = NoClient /\ login'[q] # NoClient
    BY <1>1 DEF Attempted
  <2>2. ASSUME NEW r \in Requests, Wrong(r) \/ Right(r) PROVE FALSE
    <3>1. login' = [login EXCEPT ![r] = NoClient] /\ login \in [Requests -> Clients \cup {NoClient}]
      BY <1>1, <2>2 DEF Wrong, Right, IInv, Types
    <3>2. QED
      BY <2>1, <3>1
  <2>3. QED
    BY <1>1, <2>1, <2>2 DEF Next, Tick, Refuse
<1>2. IInv /\ [Next]_vars =>
          [Attempted /\ Cardinality(Tracked') > PruneThreshold + 1 =>
               \A c \in Tracked' : ~Lapsed(failures'[c][Len(failures'[c])])]_vars
  BY <1>1, LastIsRecent
<1>3. QED
  BY <1>2, Invariance, PTL DEF Spec, OnlyRecentBeyondThreshold
=============================================================================
