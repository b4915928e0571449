---------------------------- MODULE AuthSessions ----------------------------
(***************************************************************************)
(* Login sessions: the tokens AuthService issues (services/auth.py), the   *)
(* revocations a logout leaves in progress.db and in memory                *)
(* (db/revoked_session_store.py), and the WebSockets opened with a token   *)
(* (api/routers/ws.py): the window in which they must authenticate, and    *)
(* the registry through which a logout closes them.                        *)
(*                                                                         *)
(* The server is one asyncio loop, so each action is what runs between two *)
(* awaits.  A session's tokens are issued in pairs, and an older pair is   *)
(* accepted only when the newest is, so a session's tokens are known by    *)
(* the time of the newest pair.                                            *)
(***************************************************************************)
EXTENDS Naturals, FiniteSets

CONSTANTS
    Sessions,     \* session ids; a login takes one that was never used
    Logouts,      \* POST /auth/logout handlers that can run at once
    Sockets,      \* connections to /ws/tasks
    NoSession,
    AccessTTL, RefreshTTL,   \* lifetimes of the two tokens of a pair
    GateLimit,    \* sockets that may be waiting to authenticate
    MaxClock      \* bound: the clock stops here

Never == 0

ASSUME AuthAssumption ==
    /\ AccessTTL \in Nat \ {0} /\ RefreshTTL \in Nat /\ AccessTTL <= RefreshTTL
    /\ GateLimit \in Nat \ {0} /\ MaxClock \in Nat \ {0}
    /\ NoSession \notin Sessions
    /\ IsFiniteSet(Sockets)

VARIABLES
    clock,
    issued,       \* when each session's newest pair was issued
    stored,       \* the revoked_session rows: until when
    revoked,      \* the revocations in memory: until when
    logout,       \* the logout handlers
    socket,       \* the /ws/tasks handlers
    registry,     \* SessionSockets: the sockets of each session
    pending,      \* PendingAuthGate's counter
    ended         \* history: when the logout began that stored the last revocation
                  \* of the session, and those that were still to remember theirs

vars == <<clock, issued, stored, revoked, logout, socket, registry, pending, ended>>
sockets == <<socket, registry, pending>>

Logout == [pc : {"idle", "write", "remember", "close"}, sid : Sessions \cup {NoSession},
           now : Nat, todo : SUBSET Sockets]
Socket == [pc : {"off", "auth", "open", "closed"}, sid : Sessions \cup {NoSession},
           stuck : BOOLEAN]

IdleLogout == [pc |-> "idle", sid |-> NoSession, now |-> Never, todo |-> {}]
Off == [pc |-> "off", sid |-> NoSession, stuck |-> FALSE]

-----------------------------------------------------------------------------
(* Mutant: the signature and the lifetime are checked, the session is not. *)
Accepted_AnySession(sid, t, ttl) == t # Never /\ clock < t + ttl

(* A token of a pair issued at time t is accepted now. *)
Accepted(sid, t, ttl) == t # Never /\ clock < t + ttl /\ revoked[sid] = Never

(* Mutant: rows are pruned a lifetime early. *)
Prune_Early(rows, now) == [s \in Sessions |-> IF rows[s] <= now + 1 THEN Never ELSE rows[s]]

(* Lapsed revocations are forgotten. *)
Prune(rows, now) == [s \in Sessions |-> IF rows[s] <= now THEN Never ELSE rows[s]]

Until(h) == logout[h].now + RefreshTTL

-----------------------------------------------------------------------------
Init ==
    /\ clock = 1
    /\ issued = [s \in Sessions |-> Never]
    /\ stored = [s \in Sessions |-> Never]
    /\ revoked = [s \in Sessions |-> Never]
    /\ logout = [h \in Logouts |-> IdleLogout]
    /\ socket = [w \in Sockets |-> Off]
    /\ registry = [s \in Sessions |-> {}]
    /\ pending = 0
    /\ ended = [s \in Sessions |-> {}]

Tick ==
    /\ clock < MaxClock
    /\ clock' = clock + 1
    /\ UNCHANGED <<issued, stored, revoked, logout, sockets, ended>>

(* Mutant: the time a pair lapses takes the place of the time it was issued. *)
Login_Expiry(s) ==
    /\ issued[s] = Never
    /\ issued' = [issued EXCEPT ![s] = clock + RefreshTTL]
    /\ UNCHANGED <<clock, stored, revoked, logout, sockets, ended>>

(* POST /auth/login with the right password starts a session. *)
Login(s) ==
    /\ issued[s] = Never
    /\ issued' = [issued EXCEPT ![s] = clock]
    /\ UNCHANGED <<clock, stored, revoked, logout, sockets, ended>>

(* POST /auth/refresh: a new pair of the same session. *)
Refresh(s) ==
    /\ Accepted(s, issued[s], RefreshTTL)
    /\ issued' = [issued EXCEPT ![s] = clock]
    /\ UNCHANGED <<clock, stored, revoked, logout, sockets, ended>>

-----------------------------------------------------------------------------
(* POST /auth/logout *)

LogoutStart(h, s) ==
    /\ logout[h].pc = "idle"
    /\ Accepted(s, issued[s], RefreshTTL)
    /\ logout' = [logout EXCEPT ![h] = [IdleLogout EXCEPT
           !.pc = "write", !.sid = s, !.now = clock]]
    /\ UNCHANGED <<clock, issued, stored, revoked, sockets, ended>>

(* When the logouts of session s began that stored a revocation, but did   *)
(* not remember it yet.                                                    *)
Unremembered(s) ==
    {logout[h].now : h \in {g \in Logouts : logout[g].sid = s /\ logout[g].pc = "remember"}}

(* One transaction prunes the lapsed rows and stores the revocation. *)
LogoutWrite(h) ==
    /\ logout[h].pc = "write"
    /\ stored' = [Prune(stored, logout[h].now) EXCEPT ![logout[h].sid] = Until(h)]
    /\ logout' = [logout EXCEPT ![h].pc = "remember"]
    /\ ended' = [ended EXCEPT ![logout[h].sid] = {logout[h].now} \cup Unremembered(logout[h].sid)]
    /\ UNCHANGED <<clock, issued, revoked, sockets>>

(* The write fails: nothing changes in memory, the caller gets an error. *)
LogoutFails(h) ==
    /\ logout[h].pc = "write"
    /\ logout' = [logout EXCEPT ![h] = IdleLogout]
    /\ UNCHANGED <<clock, issued, stored, revoked, sockets, ended>>

(* The revocation is remembered and the sockets to close are listed, with  *)
(* no await in between.                                                    *)
LogoutRemember(h) ==
    /\ logout[h].pc = "remember"
    /\ revoked' = [Prune(revoked, logout[h].now) EXCEPT ![logout[h].sid] = Until(h)]
    /\ logout' = [logout EXCEPT ![h].pc = "close", ![h].todo = registry[logout[h].sid]]
    /\ UNCHANGED <<clock, issued, stored, sockets, ended>>

(* Mutant: the first socket that cannot be closed ends the list. *)
LogoutClose_GivesUp(h, w) ==
    /\ logout[h].pc = "close" /\ w \in logout[h].todo
    /\ \/ /\ socket[w].pc = "open" /\ socket' = [socket EXCEPT ![w].stuck = TRUE]
          /\ logout' = [logout EXCEPT ![h].todo = {}]
       \/ /\ socket[w].pc # "open" /\ UNCHANGED socket
          /\ logout' = [logout EXCEPT ![h].todo = @ \ {w}]
    /\ UNCHANGED <<clock, issued, stored, revoked, registry, pending, ended>>

(* One socket of the list is closed; closing may fail, and the rest are    *)
(* closed all the same.                                                    *)
LogoutClose(h, w) ==
    /\ logout[h].pc = "close" /\ w \in logout[h].todo
    /\ logout' = [logout EXCEPT ![h].todo = @ \ {w}]
    /\ \/ socket[w].pc # "open" /\ UNCHANGED socket
       \/ socket[w].pc = "open" /\ socket' = [socket EXCEPT ![w].pc = "closed"]
       \/ socket[w].pc = "open" /\ socket' = [socket EXCEPT ![w].stuck = TRUE]
    /\ UNCHANGED <<clock, issued, stored, revoked, registry, pending, ended>>

LogoutDone(h) ==
    /\ logout[h].pc = "close" /\ logout[h].todo = {}
    /\ logout' = [logout EXCEPT ![h] = IdleLogout]
    /\ UNCHANGED <<clock, issued, stored, revoked, sockets, ended>>

-----------------------------------------------------------------------------
(* /ws/tasks *)

(* Mutant: one slot too many. *)
Free_OneMore == pending <= GateLimit

Free == pending < GateLimit

(* A socket takes a slot of the gate before it is accepted, or is refused. *)
Connect(w) ==
    /\ socket[w].pc = "off"
    /\ Free
    /\ pending' = pending + 1
    /\ socket' = [socket EXCEPT ![w] = [Off EXCEPT !.pc = "auth"]]
    /\ UNCHANGED <<clock, issued, stored, revoked, logout, registry, ended>>

Leave == pending' = IF pending = 0 THEN 0 ELSE pending - 1

(* The first message holds an access token that is accepted: the slot is   *)
(* given back and the socket registered without an await in between.       *)
Authenticate(w, s) ==
    /\ socket[w].pc = "auth"
    /\ Accepted(s, issued[s], AccessTTL)
    /\ Leave
    /\ socket' = [socket EXCEPT ![w].pc = "open", ![w].sid = s]
    /\ registry' = [registry EXCEPT ![s] = @ \cup {w}]
    /\ UNCHANGED <<clock, issued, stored, revoked, logout, ended>>

TurnAway(w) ==
    /\ socket[w].pc = "auth"
    /\ Leave
    /\ socket' = [socket EXCEPT ![w] = Off]
    /\ UNCHANGED <<clock, issued, stored, revoked, logout, registry, ended>>

(* The client sends anything else, or goes away. *)
AuthFails(w) == TurnAway(w)

(* Nothing comes for 5 seconds. *)
AuthTimeout(w) == TurnAway(w)

(* Mutant: a stream that ends by itself stays registered. *)
Unregister_IfClosed(w) ==
    registry' = [registry EXCEPT ![socket[w].sid] = IF socket[w].pc = "closed" THEN @ \ {w} ELSE @]

Unregister(w) == registry' = [registry EXCEPT ![socket[w].sid] = @ \ {w}]

(* The client goes away, the stream fails, or the socket was closed here:  *)
(* the handler unsubscribes and unregisters.                               *)
StreamEnds(w) ==
    /\ socket[w].pc \in {"open", "closed"}
    /\ Unregister(w)
    /\ socket' = [socket EXCEPT ![w] = Off]
    /\ UNCHANGED <<clock, issued, stored, revoked, logout, pending, ended>>

-----------------------------------------------------------------------------
(* The process ends and is started again: load() deletes the lapsed rows   *)
(* and remembers the rest.                                                 *)
Restart ==
    /\ stored' = Prune(stored, clock)
    /\ revoked' = Prune(stored, clock)
    /\ logout' = [h \in Logouts |-> IdleLogout]
    /\ socket' = [w \in Sockets |-> Off]
    /\ registry' = [s \in Sessions |-> {}]
    /\ pending' = 0
    /\ UNCHANGED <<clock, issued, ended>>

LogoutStep(h) ==
    LogoutWrite(h) \/ LogoutFails(h) \/ LogoutRemember(h) \/ LogoutDone(h)
    \/ \E w \in Sockets : LogoutClose(h, w)

Next ==
    \/ Tick \/ Restart
    \/ \E s \in Sessions : Login(s) \/ Refresh(s)
    \/ \E h \in Logouts : LogoutStep(h) \/ \E s \in Sessions : LogoutStart(h, s)
    \/ \E w \in Sockets : Connect(w) \/ AuthFails(w) \/ AuthTimeout(w) \/ StreamEnds(w)
    \/ \E w \in Sockets, s \in Sessions : Authenticate(w, s)

(* The loop runs every handler that can go on; nothing obliges a client to *)
(* do anything.                                                            *)
Fairness ==
    /\ \A h \in Logouts : WF_vars(LogoutStep(h))
    /\ \A w \in Sockets : WF_vars(socket[w].pc = "closed" /\ StreamEnds(w))

Spec == Init /\ [][Next]_vars
FairSpec == Spec /\ Fairness

-----------------------------------------------------------------------------
(* Type correctness. *)
TypeOK ==
    /\ clock \in 1 .. MaxClock
    /\ issued \in [Sessions -> 0 .. MaxClock]
    /\ stored \in [Sessions -> Nat] /\ revoked \in [Sessions -> Nat]
    /\ logout \in [Logouts -> Logout]
    /\ socket \in [Sockets -> Socket]
    /\ registry \in [Sessions -> SUBSET Sockets]
    /\ pending \in Nat
    /\ ended \in [Sessions -> SUBSET (1 .. MaxClock)]

(* Once a logout has stored its revocation, the session stays logged out   *)
(* for a whole refresh lifetime from when the logout began, and no token   *)
(* that was issued by then is ever accepted again, whatever is pruned or   *)
(* restarted since, and though the process dies before it remembers the    *)
(* revocation; until it does, if it lives, tokens are accepted.  Of        *)
(* logouts that overlap this is said of one of them only: one that began   *)
(* earlier may be stored, or remembered, after one that began later, and   *)
(* shortens its revocation.                                                *)
EndedStaysEnded ==
    \A s \in Sessions, t \in 1 .. clock, ttl \in {AccessTTL, RefreshTTL} :
        Accepted(s, t, ttl) /\ ended[s] # {} /\ Unremembered(s) = {} =>
            \E began \in ended[s] : began < t /\ began + RefreshTTL <= clock

(* Once a session's revocation is remembered, each of its open streams is  *)
(* on a logout's list, or could not be closed: none was opened in between. *)
NoStreamSlipsIn ==
    \A s \in Sessions, w \in Sockets :
        socket[w].pc = "open" /\ socket[w].sid = s /\ revoked[s] # Never =>
            socket[w].stuck \/ \E h \in Logouts : logout[h].sid = s /\ w \in logout[h].todo

(* The registry knows exactly the streams whose handler still runs. *)
RegistryIsExact ==
    \A s \in Sessions :
        registry[s] = {w \in Sockets : socket[w].pc \in {"open", "closed"} /\ socket[w].sid = s}

(* The gate counts the sockets that have not authenticated yet, and no     *)
(* more than its limit: no slot is lost on any way out of the window.      *)
GateCounts ==
    /\ pending = Cardinality({w \in Sockets : socket[w].pc = "auth"})
    /\ pending <= GateLimit

(* The streams of a logged out session end. *)
StreamsEnd ==
    \A s \in Sessions, w \in Sockets :
        socket[w].pc = "open" /\ socket[w].sid = s /\ revoked[s] # Never
            ~> socket[w].pc # "open" \/ socket[w].stuck \/ revoked[s] = Never

(* What auth.py says of a revocation: every token of the session expires  *)
(* by the time it lapses.  A pair refreshed while the revocation is being  *)
(* written outlives it.                                                    *)
TokensLapseFirst ==
    \A s \in Sessions : revoked[s] # Never => issued[s] + RefreshTTL <= revoked[s]
=============================================================================
