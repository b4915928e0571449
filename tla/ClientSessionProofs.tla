------------------------ MODULE ClientSessionProofs ------------------------
(***************************************************************************)
(* Proofs about ClientSession, for any number of tabs, logins, loads and   *)
(* failures: what each page and the storage may hold, and that a logout    *)
(* reaches every tab whatever was on its way.                              *)
(***************************************************************************)
EXTENDS ClientSession, FiniteSetTheorems, TLAPS

-----------------------------------------------------------------------------
(* The inductive invariant. *)

(* A page of the first n sessions. *)
Good(page, n) ==
    /\ page \in Tab
    /\ page.token <= n /\ \A r \in page.refreshes : r.session <= n
    /\ \A q, r \in page.refreshes : q.current /\ r.current => q = r
    /\ page.status = "authenticated" => page.token # None

Holds(page, s) == page.token = s \/ \E r \in page.refreshes : r.current /\ r.session = s

Empty(page) == page.token = None /\ \A r \in page.refreshes : ~r.current

Counters ==
    /\ storage \in 0 .. logins
    /\ logins \in Sessions /\ alive \subseteq 1 .. logins /\ revoking \subseteq 1 .. logins
    /\ loads \in 0 .. MaxLoads /\ failures \in 0 .. MaxFailures /\ left \subseteq 1 .. logins

Pages == tab \in [Tabs -> Tab] /\ \A t \in Tabs : Good(tab[t], logins)

(* Once the token is gone from the storage, a tab that still has something *)
(* of the session was sent a storage event.                                *)
ToldOrEmpty == storage = None => \A t \in Tabs : tab[t].removals > 0 \/ Empty(tab[t])

Quiet == \A t \in Tabs : tab[t].removals = 0

(* When no storage event is on its way, nothing anywhere belongs to a      *)
(* session that was left, refreshes that can still take effect included.   *)
NothingLeft ==
    Quiet => \A s \in left : storage # s /\ \A t \in Tabs : ~Holds(tab[t], s)

IInv == Counters /\ Pages /\ ToldOrEmpty /\ NothingLeft

-----------------------------------------------------------------------------
(* What the operations of session.ts make of a page *)

LEMMA NumberFacts == Sessions \subseteq Nat /\ None \in Nat /\ None \notin Sessions
BY ClientAssumption DEF Sessions, None

LEMMA ClearedFacts ==
    ASSUME NEW n \in Nat, NEW page, Good(page, n)
    PROVE  LET new == [Cleared(page) EXCEPT !.status = "anonymous"]
           IN  Good(new, n) /\ Empty(new) /\ new.removals = page.removals
<1> DEFINE Old(rs) == {[r EXCEPT !.current = FALSE] : r \in {q \in rs : q.restores}}
           old == Old(page.refreshes)
           new == [Cleared(page) EXCEPT !.status = "anonymous"]
<1>1. page \in Tab /\ page.refreshes \subseteq Refresh /\ \A r \in page.refreshes : r.session <= n
  BY DEF Good, Tab
<1>2. \A r \in Refresh : LET q == [r EXCEPT !.current = FALSE]
                         IN  q \in Refresh /\ q.session = r.session /\ q.current = FALSE
  BY DEF Refresh
<1>3. /\ old \subseteq Refresh
      /\ \A q \in old : q.session <= n /\ ~q.current
  BY <1>1, <1>2
<1>4. /\ new.token = None /\ new.refreshes = old /\ new.status = "anonymous"
      /\ new.removals = page.removals /\ new.calling = page.calling
      /\ new = [status |-> "anonymous", token |-> None, refreshes |-> old,
                calling |-> page.calling, removals |-> page.removals]
  <2> DEFINE base == [page EXCEPT !.token = None]
  <2>1. base \in Tab /\ base.refreshes = page.refreshes
    BY <1>1, NumberFacts DEF Tab
  <2>2. ASSUME NEW rs, rs = page.refreshes PROVE Old(rs) = old
    BY <2>2, Zenon
  <2>3. Cleared(page) = [base EXCEPT !.refreshes = Old(base.refreshes)]
    BY DEF Cleared
  <2>4. Old(base.refreshes) = old
    BY <2>1, <2>2, Zenon
  <2> HIDE DEF Old, old
  <2>5. Cleared(page) = [base EXCEPT !.refreshes = old]
    BY <2>3, <2>4
  <2>6. Cleared(page) \in [status : {page.status}, token : {None}, refreshes : {old},
                           calling : {page.calling}, removals : {page.removals}]
    BY <1>1, <2>5 DEF Tab
  <2>7. QED
    BY <2>6
<1>5. new \in Tab
  BY <1>1, <1>3, <1>4 DEF Tab
<1>6. None <= n
  BY DEF None
<1> HIDE DEF Old, old, new
<1>7. Good(new, n) /\ Empty(new)
  BY <1>3, <1>4, <1>5, <1>6 DEF Good, Empty
<1>8. QED
  BY <1>4, <1>7 DEF new

(* A refresh is replaced by what became of it. *)
LEMMA RepliedFacts ==
    ASSUME NEW n \in Nat, NEW page, Good(page, n), NEW r \in page.refreshes,
           NEW reply \in {"none", "pair", "rejected", "failed"}
    PROVE  LET new == [page EXCEPT !.refreshes = (@ \ {r}) \cup {[r EXCEPT !.reply = reply]}]
           IN  /\ Good(new, n) /\ new.removals = page.removals
               /\ \A s : Holds(new, s) => Holds(page, s)
               /\ Empty(page) => Empty(new)
<1> DEFINE q == [r EXCEPT !.reply = reply]
           rest == (page.refreshes \ {r}) \cup {q}
           new == [page EXCEPT !.refreshes = rest]
<1>1. page \in Tab /\ page.refreshes \subseteq Refresh /\ r \in Refresh
  BY DEF Good, Tab
<1>2. q \in Refresh /\ q.session = r.session /\ q.current = r.current
  BY <1>1 DEF Refresh
<1> HIDE DEF q
<1>3. /\ new \in Tab /\ new.refreshes = rest /\ new.token = page.token
      /\ new.status = page.status /\ new.removals = page.removals
  BY <1>1, <1>2 DEF Tab
<1>4. Good(new, n)
  BY <1>1, <1>2, <1>3 DEF Good
<1>5. (\A s : Holds(new, s) => Holds(page, s)) /\ (Empty(page) => Empty(new))
  BY <1>2, <1>3 DEF Holds, Empty
<1>6. QED
  BY <1>3, <1>4, <1>5 DEF q

(* A refresh has arrived. *)
LEMMA DoneFacts ==
    ASSUME NEW n \in Nat, NEW t \in Tabs, Good(tab[t], n), NEW r \in tab[t].refreshes,
           NEW status \in {"anonymous", "unreachable", "authenticated"}
    PROVE  LET new == Done(t, r, status)
           IN  /\ new \in Tab /\ new.removals = tab[t].removals /\ new.token = tab[t].token
               /\ new.refreshes = tab[t].refreshes \ {r}
               /\ new.status \in {status, tab[t].status}
               /\ status # "authenticated" => Good(new, n)
               /\ \A s : Holds(new, s) => Holds(tab[t], s)
               /\ Empty(tab[t]) => Empty(new)
<1> DEFINE new == Done(t, r, status)
<1>1. tab[t] \in Tab
  BY DEF Good
<1>2. /\ new \in Tab /\ new.removals = tab[t].removals /\ new.token = tab[t].token
      /\ new.refreshes = tab[t].refreshes \ {r} /\ new.status \in {status, tab[t].status}
  BY <1>1 DEF Done, Tab
<1> HIDE DEF new
<1>3. status # "authenticated" => Good(new, n)
  BY <1>2 DEF Good
<1>4. (\A s : Holds(new, s) => Holds(tab[t], s)) /\ (Empty(tab[t]) => Empty(new))
  BY <1>2 DEF Holds, Empty
<1>5. QED
  BY <1>2, <1>3, <1>4 DEF new

-----------------------------------------------------------------------------
(* The steps *)

(* A step of one page, that leaves the others and their storage events as  *)
(* they are.                                                               *)
LEMMA OnePageStep ==
    ASSUME IInv, Counters', logins <= logins', left' = left,
           NEW t \in Tabs, NEW new, Good(new, logins'), tab' = [tab EXCEPT ![t] = new],
           new.removals = tab[t].removals,
           storage' = None => storage = None /\ (Empty(tab[t]) => Empty(new)),
           Quiet => storage' \notin left /\ \A s \in left : ~Holds(new, s)
    PROVE  IInv'
<1>1. /\ tab' \in [Tabs -> Tab] /\ tab'[t] = new
      /\ \A u \in Tabs \ {t} : tab'[u] = tab[u]
  BY DEF IInv, Pages, Good
<1>2. logins \in Nat /\ logins' \in Nat
  BY NumberFacts DEF IInv, Counters
<1>3. ASSUME NEW u \in Tabs PROVE Good(tab'[u], logins')
  <2>1. CASE u = t
    BY <1>1, <2>1
  <2>2. CASE u # t
    <3>1. Good(tab[u], logins) /\ tab'[u] = tab[u]
      BY <1>1, <2>2 DEF IInv, Pages
    <3>2. tab[u].token \in Nat /\ \A r \in tab[u].refreshes : r.session \in Nat
      BY <3>1, NumberFacts DEF Good, Tab, Refresh
    <3>3. QED
      BY <1>2, <3>1, <3>2 DEF Good
  <2>3. QED
    BY <2>1, <2>2
<1>4. Pages'
  BY <1>1, <1>3 DEF Pages
<1>5. ToldOrEmpty'
  BY <1>1 DEF IInv, ToldOrEmpty
<1>6. Quiet' => Quiet
  BY <1>1 DEF Quiet
<1>7. NothingLeft'
  <2>1. SUFFICES ASSUME Quiet', NEW s \in left'
                 PROVE  storage' # s /\ \A u \in Tabs : ~Holds(tab'[u], s)
    BY DEF NothingLeft
  <2>2. QED
    BY <1>1, <1>6, <2>1 DEF IInv, NothingLeft
<1>8. QED
  BY <1>4, <1>5, <1>7 DEF IInv

(* A step that leaves the storage as it is and gives the page nothing new. *)
LEMMA PoorerPageStep ==
    ASSUME IInv, Counters', logins' = logins, left' = left, storage' = storage,
           NEW t \in Tabs, NEW new, Good(new, logins), tab' = [tab EXCEPT ![t] = new],
           new.removals = tab[t].removals,
           \A s \in left : Holds(new, s) => Holds(tab[t], s), Empty(tab[t]) => Empty(new)
    PROVE  IInv'
<1>1. logins <= logins' /\ Good(new, logins')
  BY NumberFacts DEF IInv, Counters
<1>2. Quiet => storage' \notin left /\ \A s \in left : ~Holds(new, s)
  BY DEF IInv, NothingLeft
<1>3. QED
  BY <1>1, <1>2, OnePageStep

(* A tab forgets the session: every other tab is told, or has nothing.     *)
LEMMA ForgetStep ==
    ASSUME IInv, Counters', logins' = logins,
           NEW t \in Tabs, NEW page, Good(page, logins), Forget(t, page)
    PROVE  IInv'
<1> DEFINE new == [Cleared(page) EXCEPT !.status = "anonymous"]
<1>1. logins \in Nat
  BY NumberFacts DEF IInv, Counters
<1>2. Good(new, logins) /\ Empty(new)
  BY <1>1, ClearedFacts
<1>3. /\ tab' = [u \in Tabs |-> IF u # t /\ storage # None
                                THEN [[tab EXCEPT ![t] = new][u] EXCEPT !.removals = @ + 1]
                                ELSE [tab EXCEPT ![t] = new][u]]
      /\ storage' = None /\ tab \in [Tabs -> Tab]
  BY DEF Forget, Told, IInv, Pages
<1> HIDE DEF new
<1>4. /\ tab'[t] = new
      /\ \A u \in Tabs \ {t} : /\ storage = None => tab'[u] = tab[u]
                               /\ storage # None => tab'[u] = [tab[u] EXCEPT !.removals = @ + 1]
  BY <1>3
<1>5. ASSUME NEW u \in Tabs
      PROVE  Good(tab'[u], logins) /\ (tab'[u].removals > 0 \/ Empty(tab'[u]))
  <2>1. CASE u = t
    BY <1>2, <1>4, <2>1
  <2>2. CASE u # t /\ storage = None
    BY <1>4, <2>2 DEF IInv, Pages, ToldOrEmpty
  <2>3. CASE u # t /\ storage # None
    <3>1. Good(tab[u], logins) /\ tab[u] \in Tab /\ tab[u].removals \in Nat
      BY DEF IInv, Pages, Tab
    <3>2. tab'[u] = [tab[u] EXCEPT !.removals = @ + 1] /\ tab[u].removals + 1 \in Nat
      BY <1>4, <2>3, <3>1
    <3>3. /\ tab'[u] \in Tab /\ tab'[u].removals = tab[u].removals + 1
          /\ tab'[u].token = tab[u].token /\ tab'[u].refreshes = tab[u].refreshes
          /\ tab'[u].status = tab[u].status
      BY <3>1, <3>2 DEF Tab
    <3>4. QED
      BY <3>1, <3>3 DEF Good
  <2>4. QED
    BY <2>1, <2>2, <2>3
<1>6. Pages'
  BY <1>3, <1>5 DEF Pages, Good
<1>7. ToldOrEmpty'
  BY <1>5 DEF ToldOrEmpty
<1>8. NothingLeft'
  <2>1. SUFFICES ASSUME Quiet', NEW s \in left'
                 PROVE  storage' # s /\ \A u \in Tabs : ~Holds(tab'[u], s)
    BY DEF NothingLeft
  <2>2. s # None
    BY <2>1 DEF Counters, None
  <2>3. \A u \in Tabs : Empty(tab'[u])
    BY <1>5, <2>1 DEF Quiet
  <2>4. QED
    BY <1>3, <2>2, <2>3 DEF Holds, Empty
<1>9. QED
  BY <1>6, <1>7, <1>8 DEF IInv

(* refreshSession(): whatever it joins or sends was the page's already, or *)
(* is what is stored.                                                      *)
LEMMA StartRefreshStep ==
    ASSUME IInv, Counters', logins' = logins, left' = left,
           NEW t \in Tabs, NEW page, Good(page, logins), NEW restores \in BOOLEAN,
           page.removals = tab[t].removals,
           \A s \in Sessions : Holds(page, s) => Holds(tab[t], s),
           Empty(tab[t]) => Empty(page),
           StartRefresh(t, page, restores)
    PROVE  IInv'
<1> DEFINE current == {r \in page.refreshes : r.current}
           Join(rs) == {[r EXCEPT !.restores = @ \/ restores] : r \in rs}
           join == Join(current)
           joined == [page EXCEPT !.refreshes = (@ \ current) \cup join]
           first == [session |-> storage, reply |-> "none", current |-> TRUE,
                     restores |-> restores]
           sent == [page EXCEPT !.refreshes = @ \cup {first}]
<1>1. /\ page \in Tab /\ page.refreshes \subseteq Refresh /\ storage \in 0 .. logins
      /\ logins \in Nat /\ logins \in Sessions
      /\ tab[t].removals \in Nat
  BY NumberFacts DEF Good, Tab, IInv, Counters, Pages
<1>2. \/ current # {} /\ tab' = [tab EXCEPT ![t] = joined] /\ storage' = storage
      \/ current = {} /\ storage = None /\ Forget(t, page)
      \/ current = {} /\ storage # None /\ tab' = [tab EXCEPT ![t] = sent] /\ storage' = storage
  BY DEF StartRefresh
<1>3. Quiet => \A s \in left : storage # s /\ ~Holds(page, s)
  <2>1. left \subseteq Sessions
    BY <1>1, ClientAssumption DEF IInv, Counters, Sessions
  <2>2. QED
    BY <2>1 DEF IInv, NothingLeft
<1>4. CASE current # {} /\ tab' = [tab EXCEPT ![t] = joined] /\ storage' = storage
  <2>1. PICK r \in page.refreshes : r.current
    BY <1>4
  <2>2. current = {r} /\ r \in Refresh
    BY <1>1, <2>1 DEF Good
  <2> DEFINE q == [r EXCEPT !.restores = @ \/ restores]
  <2>3. q \in Refresh /\ q.session = r.session /\ q.current = r.current
    BY <2>2 DEF Refresh
  <2>4. join = {q}
    BY <2>2
  <2> HIDE DEF q, current, join
  <2>5. /\ joined \in Tab /\ joined.refreshes = (page.refreshes \ {r}) \cup {q}
        /\ joined.token = page.token /\ joined.status = page.status
        /\ joined.removals = page.removals
    BY <1>1, <2>2, <2>3, <2>4 DEF Tab
  <2> HIDE DEF joined
  <2>6. Good(joined, logins)
    BY <1>1, <2>1, <2>3, <2>5 DEF Good
  <2>7. (\A s : Holds(joined, s) => Holds(page, s)) /\ (Empty(page) => Empty(joined))
    BY <2>1, <2>3, <2>5 DEF Holds, Empty
  <2>8. /\ storage' = None => storage = None /\ (Empty(tab[t]) => Empty(joined))
        /\ Quiet => storage' \notin left /\ \A s \in left : ~Holds(joined, s)
    BY <1>3, <1>4, <2>7
  <2>9. /\ Good(joined, logins') /\ logins <= logins' /\ joined.removals = tab[t].removals
        /\ tab' = [tab EXCEPT ![t] = joined]
    BY <1>1, <1>4, <2>5, <2>6
  <2>10. QED
    BY <2>8, <2>9, OnePageStep
<1>5. CASE current = {} /\ storage = None /\ Forget(t, page)
  BY <1>5, ForgetStep
<1>6. CASE current = {} /\ storage # None /\ tab' = [tab EXCEPT ![t] = sent] /\ storage' = storage
  <2>1. storage \in Sessions /\ storage <= logins
    BY <1>1, <1>6, ClientAssumption DEF Sessions, None
  <2>2. first \in Refresh
    BY <2>1 DEF Refresh
  <2>3. first.session = storage /\ first.current = TRUE
    OBVIOUS
  <2> HIDE DEF first
  <2>4. /\ sent \in Tab /\ sent.refreshes = page.refreshes \cup {first}
        /\ sent.token = page.token /\ sent.status = page.status
        /\ sent.removals = page.removals
    BY <1>1, <2>2 DEF Tab
  <2> HIDE DEF sent
  <2>5. \A r \in page.refreshes : ~r.current
    BY <1>6
  <2>6. Good(sent, logins)
    BY <1>1, <2>1, <2>3, <2>4, <2>5 DEF Good
  <2>7. \A s : Holds(sent, s) => Holds(page, s) \/ s = storage
    BY <2>3, <2>4 DEF Holds
  <2>8. /\ storage' = None => storage = None /\ (Empty(tab[t]) => Empty(sent))
        /\ Quiet => storage' \notin left /\ \A s \in left : ~Holds(sent, s)
    BY <1>3, <1>6, <2>7
  <2>9. /\ Good(sent, logins') /\ logins <= logins' /\ sent.removals = tab[t].removals
        /\ tab' = [tab EXCEPT ![t] = sent]
    BY <1>1, <1>6, <2>4, <2>6
  <2>10. QED
    BY <2>8, <2>9, OnePageStep
<1>7. QED
  BY <1>2, <1>4, <1>5, <1>6

(* The replies to a refresh, and their arrival. *)
LEMMA RefreshSteps ==
    ASSUME IInv, NEW t \in Tabs, NEW r \in tab[t].refreshes,
           ServerReplies(t, r) \/ RefreshFails(t, r) \/ PairArrives(t, r)
               \/ RejectionArrives(t, r) \/ FailureArrives(t, r)
    PROVE  IInv'
<1>1. /\ logins \in Nat /\ Good(tab[t], logins) /\ tab[t] \in Tab /\ r \in Refresh
      /\ tab \in [Tabs -> Tab] /\ r.session <= logins /\ r.session \in Sessions
      /\ failures \in Nat /\ MaxFailures \in Nat
  BY NumberFacts, ClientAssumption DEF IInv, Counters, Pages, Good, Tab, Refresh
<1>2. logins' = logins /\ left' = left /\ storage' \in 0 .. logins /\ Counters'
  BY <1>1, NumberFacts
     DEF ServerReplies, RefreshFails, PairArrives, RejectionArrives, FailureArrives, server,
         Forget, IInv, Counters, None
<1>3. Quiet => \A s \in left : storage # s /\ ~Holds(tab[t], s)
  BY DEF IInv, NothingLeft
<1>4. CASE ServerReplies(t, r) \/ RefreshFails(t, r)
  <2>1. PICK reply \in {"none", "pair", "rejected", "failed"} : Replied(t, r, reply)
    BY <1>4 DEF ServerReplies, RefreshFails
  <2> DEFINE new == [tab[t] EXCEPT !.refreshes = (@ \ {r}) \cup {[r EXCEPT !.reply = reply]}]
  <2>2. tab' = [tab EXCEPT ![t] = new] /\ storage' = storage
    BY <1>1, <1>4, <2>1 DEF Replied, ServerReplies, RefreshFails
  <2>3. /\ Good(new, logins) /\ new.removals = tab[t].removals
        /\ \A s : Holds(new, s) => Holds(tab[t], s)
        /\ Empty(tab[t]) => Empty(new)
    BY <1>1, <2>1, RepliedFacts
  <2> HIDE DEF new
  <2>4. QED
    BY <1>2, <2>2, <2>3, PoorerPageStep
<1>5. CASE PairArrives(t, r) /\ r.current
  <2> DEFINE new == [Done(t, r, "authenticated") EXCEPT !.token = r.session]
  <2>1. tab' = [tab EXCEPT ![t] = new] /\ storage' = r.session /\ storage' # None
    BY <1>1, <1>5, NumberFacts DEF PairArrives
  <2> DEFINE done == Done(t, r, "authenticated")
  <2>2. /\ done \in Tab /\ done.removals = tab[t].removals
        /\ done.refreshes = tab[t].refreshes \ {r}
    BY <1>1, DoneFacts
  <2>3. new = [done EXCEPT !.token = r.session]
    OBVIOUS
  <2> HIDE DEF done, new
  <2>4. /\ new \in Tab /\ new.removals = tab[t].removals /\ new.token = r.session
        /\ new.refreshes = tab[t].refreshes \ {r}
    BY <1>1, <2>2, <2>3 DEF Tab
  <2>5. Good(new, logins)
    BY <1>1, <2>4, NumberFacts DEF Good
  <2>6. \A s : Holds(new, s) => Holds(tab[t], s)
    BY <1>5, <2>4 DEF Holds
  <2>7. Quiet => storage' \notin left
    BY <1>3, <1>5, <2>1 DEF Holds
  <2>8. /\ Good(new, logins') /\ logins <= logins' /\ storage' # None
        /\ Quiet => storage' \notin left /\ \A s \in left : ~Holds(new, s)
    BY <1>1, <1>2, <1>3, <2>1, <2>5, <2>6, <2>7
  <2>9. QED
    BY <1>2, <2>1, <2>4, <2>8, OnePageStep
<1>6. ASSUME NEW status \in {"anonymous", "unreachable"},
             tab' = [tab EXCEPT ![t] = Done(t, r, status)], storage' = storage
      PROVE  IInv'
  <2> DEFINE new == Done(t, r, status)
  <2>1. /\ Good(new, logins) /\ new.removals = tab[t].removals
        /\ \A s : Holds(new, s) => Holds(tab[t], s)
        /\ Empty(tab[t]) => Empty(new)
    BY <1>1, DoneFacts
  <2> HIDE DEF new
  <2>2. tab' = [tab EXCEPT ![t] = new]
    BY <1>6 DEF new
  <2>3. QED
    BY <1>2, <1>6, <2>1, <2>2, PoorerPageStep
<1>7. CASE RejectionArrives(t, r) /\ r.current
  <2>1. Good(Done(t, r, "anonymous"), logins)
    BY <1>1, DoneFacts
  <2>2. Forget(t, Done(t, r, "anonymous"))
    BY <1>7 DEF RejectionArrives
  <2>3. QED
    BY <1>2, <2>1, <2>2, ForgetStep
<1>8. QED
  BY <1>4, <1>5, <1>6, <1>7 DEF PairArrives, RejectionArrives, FailureArrives

(* What the page and its user do. *)
LEMMA PageSteps ==
    ASSUME IInv, NEW t \in Tabs,
           Load(t) \/ Retry(t) \/ Login(t) \/ Call(t) \/ CallNeedsToken(t) \/ CallEnds(t)
    PROVE  IInv'
<1>1. /\ logins \in Nat /\ Good(tab[t], logins) /\ tab[t] \in Tab /\ tab \in [Tabs -> Tab]
      /\ storage \in 0 .. logins /\ MaxLogins \in Nat /\ loads \in Nat /\ MaxLoads \in Nat
      /\ tab[t].removals \in Nat
  BY NumberFacts, ClientAssumption DEF IInv, Counters, Pages, Good, Tab
<1>2. Quiet => \A s \in left : storage # s /\ ~Holds(tab[t], s)
  BY DEF IInv, NothingLeft
<1>3. ASSUME NEW status \in {"anonymous", "checking"}
      PROVE  LET new == Page(status)
             IN  /\ Good(new, logins) /\ new.removals = 0 /\ Empty(new)
                 /\ \A s \in Sessions : ~Holds(new, s)
  <2> DEFINE new == Page(status)
  <2>1. /\ new \in Tab /\ new.removals = 0 /\ new.token = None /\ new.refreshes = {}
        /\ new.status = status
    BY DEF Page, Tab
  <2> HIDE DEF new
  <2>2. Good(new, logins) /\ Empty(new) /\ \A s \in Sessions : ~Holds(new, s)
    BY <1>1, <2>1, NumberFacts DEF Good, Empty, Holds, None
  <2>3. QED
    BY <2>1, <2>2 DEF new
<1>4. ASSUME NEW calling \in BOOLEAN
      PROVE  LET new == [tab[t] EXCEPT !.calling = calling]
             IN  /\ Good(new, logins) /\ new.removals = tab[t].removals
                 /\ \A s : Holds(new, s) => Holds(tab[t], s)
                 /\ Empty(tab[t]) => Empty(new)
  BY <1>1 DEF Good, Tab, Holds, Empty
<1>5. CASE Load(t)
  <2>1. /\ Counters' /\ logins' = logins /\ left' = left /\ left \subseteq Sessions
        /\ tab[t].removals = 0
    BY <1>1, <1>5, NumberFacts
       DEF Load, StartRefresh, Forget, server, IInv, Counters, Sessions, None
  <2>2. CASE storage # None /\ StartRefresh(t, Page("checking"), TRUE)
    <3> DEFINE new == Page("checking")
    <3>1. /\ Good(new, logins) /\ new.removals = tab[t].removals /\ Empty(new)
          /\ \A s \in Sessions : ~Holds(new, s)
      BY <1>3, <2>1
    <3> HIDE DEF new
    <3>2. StartRefresh(t, new, TRUE)
      BY <2>2 DEF new
    <3>3. QED
      BY <2>1, <3>1, <3>2, StartRefreshStep
  <2>3. CASE storage = None /\ tab' = [tab EXCEPT ![t] = Page("anonymous")] /\ storage' = storage
    <3> DEFINE new == Page("anonymous")
    <3>1. /\ Good(new, logins) /\ new.removals = tab[t].removals /\ Empty(new)
          /\ \A s \in left : ~Holds(new, s)
      BY <1>3, <2>1
    <3> HIDE DEF new
    <3>2. tab' = [tab EXCEPT ![t] = new]
      BY <2>3 DEF new
    <3>3. QED
      BY <2>1, <2>3, <3>1, <3>2, PoorerPageStep
  <2>4. QED
    BY <1>5, <2>2, <2>3 DEF Load
<1>6. CASE Retry(t)
  <2> DEFINE new == [tab[t] EXCEPT !.status = "checking"]
  <2>1. Counters' /\ logins' = logins /\ left' = left
    BY <1>1, <1>6, NumberFacts
       DEF Retry, StartRefresh, Forget, server, IInv, Counters, Sessions, None
  <2>2. /\ Good(new, logins) /\ new.removals = tab[t].removals
        /\ \A s : Holds(new, s) => Holds(tab[t], s)
        /\ Empty(tab[t]) => Empty(new)
    BY <1>1 DEF Good, Tab, Holds, Empty
  <2> HIDE DEF new
  <2>3. StartRefresh(t, new, TRUE)
    BY <1>6 DEF Retry, new
  <2>4. QED
    BY <2>1, <2>2, <2>3, StartRefreshStep
<1>7. CASE Login(t)
  <2> DEFINE new == [tab[t] EXCEPT !.status = "authenticated", !.token = logins']
  <2>1. /\ logins' = logins + 1 /\ logins' \in Sessions /\ storage' = logins'
        /\ left' = left /\ tab' = [tab EXCEPT ![t] = new] /\ alive' = alive \cup {logins'}
        /\ UNCHANGED <<revoking, failures, loads>>
    <3>1. /\ logins' = logins + 1 /\ storage' = logins' /\ left' = left /\ logins < MaxLogins
          /\ alive' = alive \cup {logins'} /\ UNCHANGED <<revoking, failures, loads>>
      BY <1>7 DEF Login
    <3>2. tab' = [tab EXCEPT ![t] = new]
      BY <1>1, <1>7 DEF Login, Tab
    <3>3. QED
      BY <1>1, <3>1, <3>2 DEF Sessions
  <2>2. Counters' /\ logins <= logins' /\ storage' # None /\ logins' \notin left
    BY <1>1, <2>1 DEF IInv, Counters, None
  <2>3. /\ new \in Tab /\ new.token = logins' /\ new.refreshes = tab[t].refreshes
        /\ new.removals = tab[t].removals
    BY <1>1, <2>1 DEF Tab
  <2> HIDE DEF new
  <2>4. Good(new, logins')
    <3>1. \A r \in tab[t].refreshes : r.session \in Nat /\ r.session <= logins
      BY <1>1, NumberFacts DEF Good, Tab, Refresh
    <3>2. QED
      BY <1>1, <2>1, <2>2, <2>3, <3>1 DEF Good
  <2>5. Quiet => \A s \in left : ~Holds(new, s)
    BY <1>2, <2>2, <2>3 DEF Holds
  <2>6. QED
    BY <2>1, <2>2, <2>3, <2>4, <2>5, OnePageStep
<1>8. CASE Call(t) \/ CallEnds(t)
  <2>1. PICK calling \in BOOLEAN : tab' = [tab EXCEPT ![t].calling = calling]
    BY <1>8 DEF Call, CallEnds
  <2> DEFINE new == [tab[t] EXCEPT !.calling = calling]
  <2>2. Counters' /\ logins' = logins /\ left' = left /\ storage' = storage
    BY <1>8 DEF Call, CallEnds, server, IInv, Counters
  <2>3. /\ Good(new, logins) /\ new.removals = tab[t].removals
        /\ \A s : Holds(new, s) => Holds(tab[t], s)
        /\ Empty(tab[t]) => Empty(new)
    BY <1>4
  <2>4. tab' = [tab EXCEPT ![t] = new]
    BY <2>1
  <2> HIDE DEF new
  <2>5. QED
    BY <2>2, <2>3, <2>4, PoorerPageStep
<1>9. CASE CallNeedsToken(t)
  <2> DEFINE new == [tab[t] EXCEPT !.calling = FALSE]
  <2>1. Counters' /\ logins' = logins /\ left' = left
    BY <1>1, <1>9, NumberFacts
       DEF CallNeedsToken, StartRefresh, Forget, server, IInv, Counters, Sessions, None
  <2>2. /\ Good(new, logins) /\ new.removals = tab[t].removals
        /\ \A s : Holds(new, s) => Holds(tab[t], s)
        /\ Empty(tab[t]) => Empty(new)
    BY <1>4
  <2> HIDE DEF new
  <2>3. StartRefresh(t, new, FALSE)
    BY <1>9 DEF CallNeedsToken, new
  <2>4. QED
    BY <2>1, <2>2, <2>3, StartRefreshStep
<1>10. QED
  BY <1>5, <1>6, <1>7, <1>8, <1>9

(* A tab logs out, or follows the logout of another. *)
LEMMA LogoutSteps ==
    ASSUME IInv, NEW t \in Tabs, Logout(t) \/ FollowLogout(t)
    PROVE  IInv'
<1>1. /\ logins \in Nat /\ Good(tab[t], logins) /\ tab[t] \in Tab /\ tab[t].removals \in Nat
      /\ tab[t].token \in Nat /\ tab[t].token <= logins /\ storage \in 0 .. logins
  BY NumberFacts DEF IInv, Counters, Pages, Good, Tab
<1>2. CASE Logout(t)
  <2>1. {storage, tab[t].token} \ {None} \subseteq 1 .. logins
    BY <1>1 DEF None
  <2>2. Counters' /\ logins' = logins /\ Forget(t, tab[t])
    BY <1>1, <1>2, <2>1 DEF Logout, Forget, IInv, Counters, None
  <2>3. QED
    BY <1>1, <2>2, ForgetStep
<1>3. CASE FollowLogout(t)
  <2> DEFINE page == [tab[t] EXCEPT !.removals = @ - 1]
  <2>1. tab[t].removals - 1 \in Nat
    BY <1>1, <1>3 DEF FollowLogout
  <2>2. Good(page, logins)
    BY <1>1, <2>1 DEF Good, Tab
  <2> HIDE DEF page
  <2>3. Counters' /\ logins' = logins /\ Forget(t, page)
    BY <1>1, <1>3 DEF FollowLogout, Forget, server, IInv, Counters, None, page
  <2>4. QED
    BY <2>2, <2>3, ForgetStep
<1>4. QED
  BY <1>2, <1>3

(* What happens at the server alone, and to no page. *)
LEMMA ServerSteps ==
    ASSUME IInv, (\E s \in Sessions : RevokeArrives(s) \/ Lapse(s)) \/ UNCHANGED vars
    PROVE  IInv'
<1>1. /\ storage' = storage /\ tab' = tab /\ logins' = logins /\ loads' = loads /\ left' = left
      /\ alive' \subseteq alive /\ revoking' \subseteq revoking
  BY DEF RevokeArrives, Lapse, vars, server
<1>2. failures' \in 0 .. MaxFailures
  BY ClientAssumption DEF RevokeArrives, Lapse, vars, server, IInv, Counters
<1>3. Counters'
  BY <1>1, <1>2 DEF IInv, Counters
<1>4. Pages' /\ ToldOrEmpty' /\ NothingLeft'
  BY <1>1 DEF IInv, Pages, ToldOrEmpty, NothingLeft, Quiet
<1>5. QED
  BY <1>3, <1>4 DEF IInv

LEMMA InvStep == ASSUME IInv, [Next]_vars PROVE IInv'
BY RefreshSteps, PageSteps, LogoutSteps, ServerSteps DEF Next

LEMMA InvInit == Init => IInv
<1> SUFFICES ASSUME Init PROVE IInv
  OBVIOUS
<1> DEFINE first == [session |-> 1, reply |-> "none", current |-> TRUE, restores |-> TRUE]
           page == [Page("checking") EXCEPT !.refreshes = {first}]
<1>1. 1 \in Sessions /\ MaxLoads \in Nat /\ MaxFailures \in Nat
  BY ClientAssumption DEF Sessions
<1>2. Counters
  BY <1>1 DEF Init, Counters, None
<1>3. first \in Refresh /\ first.session = 1
  BY <1>1 DEF Refresh
<1>4. tab = [t \in Tabs |-> page]
  BY DEF Init
<1> HIDE DEF first
<1>5. /\ page \in Tab /\ page.refreshes = {first} /\ page.token = None
      /\ page.status = "checking"
  BY <1>3 DEF Page, Tab
<1> HIDE DEF page
<1>6. Good(page, logins)
  BY <1>3, <1>5 DEF Good, Init, None
<1>7. Pages /\ ToldOrEmpty /\ NothingLeft
  BY <1>4, <1>5, <1>6 DEF Pages, ToldOrEmpty, NothingLeft, Init, None
<1>8. QED
  BY <1>2, <1>7 DEF IInv

-----------------------------------------------------------------------------
(* The invariant holds, and what the run checks follows from it. *)

(* Tabs, what they were told and the stored token agree with each other at *)
(* every moment (auth/session.ts, auth/AuthProvider.tsx).                  *)
THEOREM Invariance == Spec => []IInv
<1>1. Init => IInv
  BY InvInit
<1>2. IInv /\ [Next]_vars => IInv'
  BY InvStep
<1>3. QED
  BY <1>1, <1>2, PTL DEF Spec

(* One refresh at a time is on its way in an epoch of a tab, and a page    *)
(* that counts as signed in has an access token (auth/session.ts).         *)
THEOREM TypeCorrect == Spec => []TypeOK
<1>1. ASSUME IInv PROVE TypeOK
  <2>1. ASSUME NEW t \in Tabs
        PROVE  /\ Cardinality({r \in tab[t].refreshes : r.current}) <= 1
               /\ tab[t].status = "authenticated" => tab[t].token # None
    <3> DEFINE current == {r \in tab[t].refreshes : r.current}
    <3>1. Good(tab[t], logins)
      BY <1>1 DEF IInv, Pages
    <3>2. current = {} \/ \E r : current = {r}
      BY <3>1 DEF Good
    <3> HIDE DEF current
    <3>3. Cardinality(current) <= 1
      <4>1. Cardinality(current) = 0 \/ Cardinality(current) = 1
        BY <3>2, FS_EmptySet, FS_Singleton, Zenon
      <4>2. QED
        BY <4>1
    <3>4. QED
      BY <3>1, <3>3 DEF Good, current
  <2>2. storage \in Sessions \cup {None}
    BY <1>1, ClientAssumption DEF IInv, Counters, Sessions, None
  <2>3. QED
    BY <1>1, <2>1, <2>2 DEF IInv, Counters, Pages, TypeOK
<1>2. QED
  BY <1>1, Invariance, PTL

(* Once every tab was told of a logout, no tab and no storage has anything *)
(* of the session, whatever refreshes were on their way (auth/session.ts). *)
THEOREM LogoutIsComplete == Spec => []LoggedOutEverywhere
<1>1. IInv => LoggedOutEverywhere
  BY DEF IInv, NothingLeft, Quiet, Holds, LoggedOutEverywhere
<1>2. QED
  BY <1>1, Invariance, PTL
=============================================================================
