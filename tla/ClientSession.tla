---------------------------- MODULE ClientSession ----------------------------
(***************************************************************************)
(* The login session in the browser (frontend/src/auth, api/client.ts):    *)
(* several tabs share the refresh token in localStorage, each holds an     *)
(* access token in memory, refreshes it when a call needs one, and follows *)
(* a logout in another tab when the storage event reaches it.  A token is  *)
(* the number of the session it belongs to: the pairs of one session are   *)
(* not told apart.  The epoch of session.ts is told by its effect: a       *)
(* refresh is current as long as its tab's epoch has not moved on.         *)
(***************************************************************************)
EXTENDS Naturals, FiniteSets

CONSTANTS
    Tabs,
    MaxLogins,    \* bound: the sessions, which are numbered
    MaxLoads,     \* bound: the pages loaded again
    MaxFailures   \* bound: the requests that do not reach the server

ASSUME ClientAssumption ==
    MaxLogins \in Nat \ {0} /\ MaxLoads \in Nat /\ MaxFailures \in Nat

VARIABLES
    storage,      \* the remembered refresh token, None when there is none
    tab,          \* the state of each page
    alive,        \* the sessions the server accepts
    logins,       \* the sessions ever started
    revoking,     \* the sessions whose logout is on its way to the server
    loads,        \* the pages loaded again so far
    failures,     \* the requests that failed so far
    left          \* history: the sessions a user logged out of

server == <<alive, logins, revoking, failures>>
vars == <<storage, tab, server, loads, left>>

None == 0
Sessions == 1 .. MaxLogins

Refresh == [session : Sessions,                               \* whose token is sent
            reply : {"none", "pair", "rejected", "failed"},
            current : BOOLEAN,                                \* its epoch is the tab's
            restores : BOOLEAN]                               \* restore() waits for it

Tab == [status : {"anonymous", "checking", "unreachable", "authenticated"},
        token : Sessions \cup {None},   \* the access token in memory
        refreshes : SUBSET Refresh,     \* on their way
        calling : BOOLEAN,              \* an API call is on its way
        removals : Nat]                 \* storage events on their way: the token was removed

Page(status) == [status |-> status, token |-> None, refreshes |-> {}, calling |-> FALSE,
                 removals |-> 0]

-----------------------------------------------------------------------------
(* session.ts *)

(* Mutant: the epoch does not move on. *)
Cleared_SameEpoch(page) == [page EXCEPT !.token = None]

(* clear(): a new epoch.  Of the refreshes of the old one only those that  *)
(* restore() waits for can have an effect still.                           *)
Cleared(page) ==
    [page EXCEPT !.token = None,
                 !.refreshes = {[r EXCEPT !.current = FALSE] : r \in {q \in @ : q.restores}}]

(* The browser tells the other tabs when the stored token is removed. *)
Told(pages, t) ==
    [u \in Tabs |-> IF u # t /\ storage # None
                    THEN [pages[u] EXCEPT !.removals = @ + 1] ELSE pages[u]]

(* A tab forgets the session, stored token included. *)
Forget(t, page) ==
    /\ tab' = Told([tab EXCEPT ![t] = [Cleared(page) EXCEPT !.status = "anonymous"]], t)
    /\ storage' = None

-----------------------------------------------------------------------------
(* client.ts *)

(* Mutant: a refresh under way is not joined. *)
StartRefresh_Again(t, page, restores) ==
    \/ storage = None /\ Forget(t, page)
    \/ /\ storage # None
       /\ tab' = [tab EXCEPT ![t] = [page EXCEPT !.refreshes = @ \cup
              {[session |-> storage, reply |-> "none", current |-> TRUE, restores |-> restores]}]]
       /\ UNCHANGED storage

(* refreshSession(): joins the refresh of this epoch, or sends the stored  *)
(* token; without one the session ends.                                    *)
StartRefresh(t, page, restores) ==
    LET current == {r \in page.refreshes : r.current}
    IN  \/ /\ current # {}
           /\ tab' = [tab EXCEPT ![t] = [page EXCEPT !.refreshes =
                  (@ \ current) \cup {[r EXCEPT !.restores = @ \/ restores] : r \in current}]]
           /\ UNCHANGED storage
        \/ current = {} /\ storage = None /\ Forget(t, page)
        \/ /\ current = {} /\ storage # None
           /\ tab' = [tab EXCEPT ![t] = [page EXCEPT !.refreshes = @ \cup
                  {[session |-> storage, reply |-> "none", current |-> TRUE,
                    restores |-> restores]}]]
           /\ UNCHANGED storage

Replied(t, r, reply) ==
    tab' = [tab EXCEPT ![t].refreshes = (@ \ {r}) \cup {[r EXCEPT !.reply = reply]}]

(* POST /auth/refresh, or a failure to reach the server. *)
ServerReplies(t, r) ==
    /\ r.reply = "none"
    /\ Replied(t, r, IF r.session \in alive THEN "pair" ELSE "rejected")
    /\ UNCHANGED <<storage, server, loads, left>>

RefreshFails(t, r) ==
    /\ r.reply = "none" /\ failures < MaxFailures
    /\ failures' = failures + 1
    /\ Replied(t, r, "failed")
    /\ UNCHANGED <<storage, alive, logins, revoking, loads, left>>

(* The page without refresh r, and with the status restore() gives it. *)
Done(t, r, status) ==
    [tab[t] EXCEPT !.refreshes = @ \ {r}, !.status = IF r.restores THEN status ELSE @]

(* The pair of the tab's epoch is stored; any other is dropped. *)
PairArrives(t, r) ==
    /\ r.reply = "pair"
    /\ \/ /\ r.current
          /\ tab' = [tab EXCEPT ![t] = [Done(t, r, "authenticated") EXCEPT !.token = r.session]]
          /\ storage' = r.session
       \/ /\ ~r.current
          /\ tab' = [tab EXCEPT ![t] = Done(t, r, "anonymous")]
          /\ UNCHANGED storage
    /\ UNCHANGED <<server, loads, left>>

(* A 401 of the tab's epoch ends the session. *)
RejectionArrives(t, r) ==
    /\ r.reply = "rejected"
    /\ \/ r.current /\ Forget(t, Done(t, r, "anonymous"))
       \/ /\ ~r.current
          /\ tab' = [tab EXCEPT ![t] = Done(t, r, "anonymous")]
          /\ UNCHANGED storage
    /\ UNCHANGED <<server, loads, left>>

FailureArrives(t, r) ==
    /\ r.reply = "failed"
    /\ tab' = [tab EXCEPT ![t] = Done(t, r, "unreachable")]
    /\ UNCHANGED <<storage, server, loads, left>>

(* An authenticated page calls the API; the call, or its token, may be     *)
(* rejected or expired at any later time, and then the page refreshes.     *)
Call(t) ==
    /\ tab[t].status = "authenticated" /\ ~tab[t].calling
    /\ tab' = [tab EXCEPT ![t].calling = TRUE]
    /\ UNCHANGED <<storage, server, loads, left>>

CallNeedsToken(t) ==
    /\ tab[t].calling
    /\ StartRefresh(t, [tab[t] EXCEPT !.calling = FALSE], FALSE)
    /\ UNCHANGED <<server, loads, left>>

CallEnds(t) ==
    /\ tab[t].calling
    /\ tab' = [tab EXCEPT ![t].calling = FALSE]
    /\ UNCHANGED <<storage, server, loads, left>>

-----------------------------------------------------------------------------
(* AuthProvider.tsx *)

(* The browser opens its pages on a session it remembers, which the server *)
(* may have ended.                                                         *)
Init ==
    /\ storage = 1 /\ logins = 1 /\ alive \in {{}, {1}}
    /\ tab = [t \in Tabs |-> [Page("checking") EXCEPT !.refreshes =
          {[session |-> 1, reply |-> "none", current |-> TRUE, restores |-> TRUE]}]]
    /\ revoking = {} /\ loads = 0 /\ failures = 0 /\ left = {}

(* A page is loaded again: it restores the remembered login.  A storage    *)
(* event that is on its way is waited for.                                 *)
Load(t) ==
    /\ tab[t].removals = 0 /\ loads < MaxLoads
    /\ loads' = loads + 1
    /\ \/ storage # None /\ StartRefresh(t, Page("checking"), TRUE)
       \/ storage = None /\ tab' = [tab EXCEPT ![t] = Page("anonymous")] /\ UNCHANGED storage
    /\ UNCHANGED <<server, left>>

Retry(t) ==
    /\ tab[t].status = "unreachable"
    /\ StartRefresh(t, [tab[t] EXCEPT !.status = "checking"], TRUE)
    /\ UNCHANGED <<server, loads, left>>

(* The login page shows in every other status too. *)
Login(t) ==
    /\ tab[t].status # "authenticated" /\ logins < MaxLogins
    /\ logins' = logins + 1 /\ alive' = alive \cup {logins'}
    /\ storage' = logins'
    /\ tab' = [tab EXCEPT ![t].status = "authenticated", ![t].token = logins']
    /\ UNCHANGED <<revoking, failures, loads, left>>

(* The session is forgotten here, and its end sent in the background. *)
Logout(t) ==
    /\ tab[t].status = "authenticated"
    /\ Forget(t, tab[t])
    /\ revoking' = revoking \cup ({storage} \ {None})
    /\ left' = left \cup ({storage, tab[t].token} \ {None})
    /\ UNCHANGED <<alive, logins, failures, loads>>

(* Another tab removed the token: this one follows. *)
FollowLogout(t) ==
    /\ tab[t].removals > 0
    /\ Forget(t, [tab[t] EXCEPT !.removals = @ - 1])
    /\ UNCHANGED <<server, loads, left>>

-----------------------------------------------------------------------------
(* The server *)

(* POST /auth/logout arrives, or does not. *)
RevokeArrives(s) ==
    /\ s \in revoking
    /\ revoking' = revoking \ {s}
    /\ \/ alive' = alive \ {s} /\ UNCHANGED failures
       \/ failures < MaxFailures /\ failures' = failures + 1 /\ UNCHANGED alive
    /\ UNCHANGED <<storage, tab, logins, loads, left>>

(* A session lapses. *)
Lapse(s) ==
    /\ s \in alive
    /\ alive' = alive \ {s}
    /\ UNCHANGED <<storage, tab, logins, revoking, failures, loads, left>>

Next ==
    \/ \E t \in Tabs :
        \/ Load(t) \/ Retry(t) \/ Login(t) \/ Logout(t) \/ FollowLogout(t)
        \/ Call(t) \/ CallNeedsToken(t) \/ CallEnds(t)
        \/ \E r \in tab[t].refreshes :
            ServerReplies(t, r) \/ RefreshFails(t, r)
            \/ PairArrives(t, r) \/ RejectionArrives(t, r) \/ FailureArrives(t, r)
    \/ \E s \in Sessions : RevokeArrives(s) \/ Lapse(s)

Spec == Init /\ [][Next]_vars

-----------------------------------------------------------------------------
(* Type correctness: an epoch has one refresh at a time, and a page that   *)
(* counts as signed in has an access token.                                *)
TypeOK ==
    /\ storage \in Sessions \cup {None}
    /\ tab \in [Tabs -> Tab]
    /\ \A t \in Tabs :
        /\ Cardinality({r \in tab[t].refreshes : r.current}) <= 1
        /\ tab[t].status = "authenticated" => tab[t].token # None
    /\ logins \in Sessions /\ alive \subseteq 1 .. logins /\ revoking \subseteq 1 .. logins
    /\ loads \in 0 .. MaxLoads /\ failures \in 0 .. MaxFailures /\ left \subseteq 1 .. logins

(* A session a user logged out of is gone from every tab and from the      *)
(* storage as soon as each tab was told: no refresh that was on its way,   *)
(* in whatever tab, brings it back, even if the server never hears of the  *)
(* logout.                                                                 *)
LoggedOutEverywhere ==
    (\A t \in Tabs : tab[t].removals = 0) =>
        \A s \in left : storage # s /\ \A t \in Tabs : tab[t].token # s
=============================================================================
