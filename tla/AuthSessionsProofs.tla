------------------------- MODULE AuthSessionsProofs -------------------------
(***************************************************************************)
(* Proofs about AuthSessions, for any number of sessions, logouts and      *)
(* sockets and any lifetimes: a session whose logout was stored stays      *)
(* logged out, no stream of a revoked session slips past the logouts, the  *)
(* registry is exact and the gate counts.                                  *)
(***************************************************************************)
EXTENDS AuthSessions, FiniteSetTheorems, TLAPS

-----------------------------------------------------------------------------
(* The inductive invariant. *)

Active(h) == logout[h].pc # "idle"

(* A handler has a session exactly while it runs, and sockets to close     *)
(* only once the revocation is remembered.                                 *)
HandlerShape ==
    \A h \in Logouts :
        /\ Active(h) <=> logout[h].sid # NoSession
        /\ logout[h].todo # {} => logout[h].pc = "close"
        /\ logout[h].now <= clock
        /\ Active(h) => logout[h].now >= 1

(* Only a stream has a session. *)
SocketShape ==
    \A w \in Sockets : socket[w].pc \in {"open", "closed"} <=> socket[w].sid \in Sessions

(* A logout that is about to remember its revocation is counted. *)
Counted == \A s \in Sessions : Unremembered(s) \subseteq ended[s]

(* A revocation until v outlives the pairs issued by time t, or they       *)
(* lapsed.                                                                 *)
Covers(v, t) == v >= t + RefreshTTL \/ clock >= t + RefreshTTL

(* The stored revocation of a session covers the pairs that one of the     *)
(* counted logouts began with, and so does the remembered one, unless a    *)
(* logout is about to remember another.                                    *)
EndedCovers ==
    \A s \in Sessions :
        ended[s] # {} =>
            /\ \E began \in ended[s] : Covers(stored[s], began)
            /\ \/ Unremembered(s) # {}
               \/ \E began \in ended[s] : Covers(revoked[s], began)

IInv ==
    /\ TypeOK /\ HandlerShape /\ SocketShape
    /\ Counted /\ EndedCovers
    /\ RegistryIsExact /\ NoStreamSlipsIn /\ GateCounts

-----------------------------------------------------------------------------
(* Type correctness. *)

LEMMA IdleTypes == IdleLogout \in Logout /\ Off \in Socket
BY DEF IdleLogout, Logout, Off, Socket, Never

LEMMA InitInv == ASSUME Init PROVE IInv
<1>1. TypeOK
  BY AuthAssumption, IdleTypes DEF Init, TypeOK, Never
<1>2. HandlerShape /\ SocketShape
  BY AuthAssumption DEF Init, HandlerShape, SocketShape, Active, IdleLogout, Off, Never
<1>3. Counted /\ EndedCovers
  BY DEF Init, Counted, EndedCovers, Unremembered, IdleLogout
<1>4. RegistryIsExact /\ NoStreamSlipsIn
  BY DEF Init, RegistryIsExact, NoStreamSlipsIn, Off
<1>5. GateCounts
  <2>1. {w \in Sockets : socket[w].pc = "auth"} = {}
    BY DEF Init, Off
  <2>2. QED
    BY <2>1, FS_EmptySet, AuthAssumption DEF Init, GateCounts
<1>6. QED
  BY <1>1, <1>2, <1>3, <1>4, <1>5 DEF IInv

LEMMA PruneType ==
    ASSUME NEW rows \in [Sessions -> Nat], NEW now \in Nat
    PROVE  /\ Prune(rows, now) \in [Sessions -> Nat]
           /\ \A s \in Sessions : Prune(rows, now)[s] = IF rows[s] <= now THEN Never ELSE rows[s]
BY DEF Prune, Never

LEMMA FieldTypes ==
    ASSUME TypeOK
    PROVE  /\ \A h \in Logouts : /\ logout[h] \in Logout
                                 /\ logout[h].now \in Nat
                                 /\ Until(h) \in Nat
                                 /\ logout[h].sid \in Sessions \cup {NoSession}
                                 /\ logout[h].todo \subseteq Sockets
           /\ \A w \in Sockets : socket[w] \in Socket
           /\ \A s \in Sessions : /\ issued[s] \in Nat /\ ended[s] \subseteq Nat
                                  /\ stored[s] \in Nat /\ revoked[s] \in Nat
           /\ clock \in Nat /\ clock >= 1 /\ MaxClock \in Nat /\ RefreshTTL \in Nat
<1>1. \A h \in Logouts : logout[h] \in Logout
  BY DEF TypeOK
<1>2. \A w \in Sockets : socket[w] \in Socket
  BY DEF TypeOK
<1>3. clock \in Nat /\ clock >= 1 /\ MaxClock \in Nat /\ RefreshTTL \in Nat
  BY AuthAssumption DEF TypeOK
<1>4. \A s \in Sessions : /\ issued[s] \in Nat /\ ended[s] \subseteq Nat
                          /\ stored[s] \in Nat /\ revoked[s] \in Nat
  BY <1>3 DEF TypeOK
<1>5. QED
  BY <1>1, <1>2, <1>3, <1>4 DEF Logout, Until

LEMMA TypeStep == ASSUME TypeOK, HandlerShape, SocketShape, [Next]_vars PROVE TypeOK'
<1>0. /\ \A h \in Logouts : /\ logout[h] \in Logout
                            /\ logout[h].now \in Nat /\ Until(h) \in Nat
      /\ \A w \in Sockets : socket[w] \in Socket
      /\ clock \in Nat /\ MaxClock \in Nat /\ RefreshTTL \in Nat
  BY FieldTypes
<1>1. CASE UNCHANGED vars
  BY <1>1 DEF TypeOK, vars
<1>2. CASE Tick
  BY <1>0, <1>2 DEF TypeOK, Tick, sockets
<1>3. CASE Restart
  <2>1. Prune(stored, clock) \in [Sessions -> Nat]
    BY <1>0, PruneType DEF TypeOK
  <2>2. QED
    BY <1>3, <2>1, IdleTypes DEF TypeOK, Restart
<1>4. ASSUME NEW s \in Sessions, Login(s) \/ Refresh(s) PROVE TypeOK'
  BY <1>4 DEF TypeOK, Login, Refresh, sockets
<1>5. ASSUME NEW h \in Logouts, NEW s \in Sessions, LogoutStart(h, s) PROVE TypeOK'
  <2>1. [IdleLogout EXCEPT !.pc = "write", !.sid = s, !.now = clock] \in Logout
    BY <1>0 DEF IdleLogout, Logout
  <2>2. logout' \in [Logouts -> Logout]
    BY <1>5, <2>1 DEF TypeOK, LogoutStart
  <2>3. QED
    BY <1>5, <2>2 DEF TypeOK, LogoutStart, sockets
<1>6. ASSUME NEW h \in Logouts, LogoutWrite(h) PROVE TypeOK'
  <2>1. Prune(stored, logout[h].now) \in [Sessions -> Nat] /\ Until(h) \in Nat
    BY <1>0, PruneType DEF TypeOK
  <2>2. [logout[h] EXCEPT !.pc = "remember"] \in Logout
    BY <1>0 DEF Logout
  <2>3. logout' \in [Logouts -> Logout]
    BY <1>6, <2>2 DEF TypeOK, LogoutWrite
  <2>4. stored' \in [Sessions -> Nat]
    BY <1>6, <2>1 DEF LogoutWrite
  <2>5. ended' \in [Sessions -> SUBSET (1 .. MaxClock)]
    <3> DEFINE sid == logout[h].sid
               counted == {logout[h].now} \cup Unremembered(sid)
    <3>1. \A g \in Logouts : Active(g) => logout[g].now \in 1 .. MaxClock
      BY <1>0 DEF HandlerShape, TypeOK
    <3>2. counted \subseteq 1 .. MaxClock
      BY <1>6, <3>1 DEF Unremembered, Active, LogoutWrite
    <3>3. ended' = [ended EXCEPT ![sid] = counted]
      BY <1>6 DEF LogoutWrite
    <3> HIDE DEF counted, sid
    <3>4. QED
      BY <3>2, <3>3 DEF TypeOK
  <2>6. QED
    BY <1>6, <2>3, <2>4, <2>5 DEF TypeOK, LogoutWrite, sockets
<1>7. ASSUME NEW h \in Logouts, LogoutFails(h) PROVE TypeOK'
  BY <1>7, IdleTypes DEF TypeOK, LogoutFails, sockets
<1>8. ASSUME NEW h \in Logouts, LogoutRemember(h) PROVE TypeOK'
  <2>1. Prune(revoked, logout[h].now) \in [Sessions -> Nat] /\ Until(h) \in Nat
    BY <1>0, PruneType DEF TypeOK
  <2>2. logout[h].sid \in Sessions
    BY <1>0, <1>8 DEF HandlerShape, Active, LogoutRemember, Logout
  <2>3. registry[logout[h].sid] \in SUBSET Sockets
    BY <2>2 DEF TypeOK
  <2>4. [logout[h] EXCEPT !.pc = "close", !.todo = registry[logout[h].sid]] \in Logout
    BY <1>0, <2>3 DEF Logout
  <2>5. logout' \in [Logouts -> Logout]
    BY <1>8, <2>4 DEF TypeOK, LogoutRemember
  <2>6. revoked' \in [Sessions -> Nat]
    BY <1>8, <2>1 DEF LogoutRemember
  <2>7. QED
    BY <1>8, <2>5, <2>6 DEF TypeOK, LogoutRemember, sockets
<1>9. ASSUME NEW h \in Logouts, NEW w \in Sockets, LogoutClose(h, w) PROVE TypeOK'
  <2>1. [logout[h] EXCEPT !.todo = @ \ {w}] \in Logout
    BY <1>0 DEF Logout
  <2>2. logout' \in [Logouts -> Logout]
    BY <1>9, <2>1 DEF TypeOK, LogoutClose
  <2>3. [socket[w] EXCEPT !.pc = "closed"] \in Socket /\ [socket[w] EXCEPT !.stuck = TRUE] \in Socket
    BY <1>0 DEF Socket
  <2>4. socket' \in [Sockets -> Socket]
    BY <1>9, <2>3 DEF TypeOK, LogoutClose
  <2>5. QED
    BY <1>9, <2>2, <2>4 DEF TypeOK, LogoutClose
<1>10. ASSUME NEW h \in Logouts, LogoutDone(h) PROVE TypeOK'
  BY <1>10, IdleTypes DEF TypeOK, LogoutDone, sockets
<1>11. ASSUME NEW w \in Sockets, Connect(w) PROVE TypeOK'
  <2>1. [Off EXCEPT !.pc = "auth"] \in Socket
    BY DEF Off, Socket
  <2>2. QED
    BY <1>11, <2>1 DEF TypeOK, Connect
<1>12. ASSUME NEW w \in Sockets, TurnAway(w) PROVE TypeOK'
  BY <1>12, IdleTypes DEF TypeOK, TurnAway, Leave
<1>13. ASSUME NEW w \in Sockets, StreamEnds(w) PROVE TypeOK'
  <2>1. socket[w].sid \in Sessions
    BY <1>13 DEF SocketShape, StreamEnds
  <2>2. registry' \in [Sessions -> SUBSET Sockets]
    BY <1>13, <2>1 DEF TypeOK, StreamEnds, Unregister
  <2>3. QED
    BY <1>13, <2>2, IdleTypes DEF TypeOK, StreamEnds
<1>14. ASSUME NEW w \in Sockets, NEW s \in Sessions, Authenticate(w, s) PROVE TypeOK'
  <2>1. [socket[w] EXCEPT !.pc = "open", !.sid = s] \in Socket
    BY <1>0 DEF Socket
  <2>2. socket' \in [Sockets -> Socket]
    BY <1>14, <2>1 DEF TypeOK, Authenticate
  <2>3. QED
    BY <1>14, <2>2 DEF TypeOK, Authenticate, Leave
<1>15. QED
  BY <1>1, <1>2, <1>3, <1>4, <1>5, <1>6, <1>7, <1>8, <1>9, <1>10, <1>11, <1>12, <1>13, <1>14
     DEF Next, LogoutStep, AuthFails, AuthTimeout

-----------------------------------------------------------------------------
(* Handlers, sockets and times keep their shape. *)

(* The steps that leave the logout handlers alone, and those of a handler. *)
Elsewhere ==
    /\ UNCHANGED <<stored, revoked, logout, ended>> /\ clock' \in Nat /\ clock' >= clock
    /\ \A s \in Sessions : issued'[s] \in {issued[s], clock}

LEMMA StepShapes ==
    ASSUME TypeOK, [Next]_vars
    PROVE  \/ Elsewhere
           \/ Restart
           \/ \E h \in Logouts, s \in Sessions : LogoutStart(h, s)
           \/ \E h \in Logouts : LogoutWrite(h) \/ LogoutFails(h) \/ LogoutRemember(h)
           \/ \E h \in Logouts, w \in Sockets : LogoutClose(h, w)
           \/ \E h \in Logouts : LogoutDone(h)
<1>0. clock \in Nat
  BY FieldTypes
<1>1. CASE UNCHANGED vars
  BY <1>0, <1>1 DEF vars, Elsewhere
<1>2. CASE Tick
  BY <1>0, <1>2 DEF Tick, Elsewhere
<1>3. ASSUME NEW s \in Sessions, Login(s) \/ Refresh(s) PROVE Elsewhere
  BY <1>0, <1>3 DEF TypeOK, Login, Refresh, Elsewhere
<1>4. ASSUME NEW w \in Sockets, Connect(w) \/ TurnAway(w) \/ StreamEnds(w) PROVE Elsewhere
  BY <1>0, <1>4 DEF Connect, TurnAway, StreamEnds, Elsewhere
<1>5. ASSUME NEW w \in Sockets, NEW s \in Sessions, Authenticate(w, s) PROVE Elsewhere
  BY <1>0, <1>5 DEF Authenticate, Elsewhere
<1>6. QED
  BY <1>1, <1>2, <1>3, <1>4, <1>5 DEF Next, LogoutStep, AuthFails, AuthTimeout

(* What the steps of a handler change, field by field.                     *)
LEMMA StartEffect ==
    ASSUME TypeOK, NEW h \in Logouts, NEW s \in Sessions, LogoutStart(h, s)
    PROVE  /\ \A g \in Logouts \ {h} : logout'[g] = logout[g]
           /\ logout'[h].pc = "write" /\ logout'[h].sid = s
           /\ logout'[h].now = clock /\ logout'[h].todo = {}
BY DEF TypeOK, LogoutStart, IdleLogout

LEMMA WriteEffect ==
    ASSUME TypeOK, NEW h \in Logouts, LogoutWrite(h)
    PROVE  /\ \A g \in Logouts \ {h} : logout'[g] = logout[g]
           /\ \A g \in Logouts :
                 /\ logout'[g].sid = logout[g].sid /\ logout'[g].todo = logout[g].todo
                 /\ logout'[g].now = logout[g].now
           /\ logout[h].pc = "write" /\ logout'[h].pc = "remember"
<1>1. logout' = [logout EXCEPT ![h] = [logout[h] EXCEPT !.pc = "remember"]]
  BY DEF LogoutWrite
<1>2. \A g \in Logouts :
         logout'[g] = IF g = h THEN [logout[h] EXCEPT !.pc = "remember"] ELSE logout[g]
  BY <1>1 DEF TypeOK
<1>3. logout[h] \in Logout
  BY DEF TypeOK
<1>4. QED
  BY <1>2, <1>3 DEF LogoutWrite, Logout

LEMMA RememberEffect ==
    ASSUME TypeOK, NEW h \in Logouts, LogoutRemember(h)
    PROVE  /\ \A g \in Logouts \ {h} : logout'[g] = logout[g]
           /\ \A g \in Logouts :
                 /\ logout'[g].sid = logout[g].sid
                 /\ logout'[g].now = logout[g].now
           /\ logout[h].pc = "remember" /\ logout'[h].pc = "close"
           /\ logout'[h].todo = registry[logout[h].sid]
<1> DEFINE after == [logout[h] EXCEPT !.pc = "close", !.todo = registry[logout[h].sid]]
<1>1. logout' = [logout EXCEPT ![h] = after]
  BY DEF LogoutRemember
<1>2. \A g \in Logouts : logout'[g] = IF g = h THEN after ELSE logout[g]
  BY <1>1 DEF TypeOK
<1>3. logout[h] \in Logout
  BY DEF TypeOK
<1>4. /\ after.sid = logout[h].sid /\ after.now = logout[h].now
      /\ after.pc = "close" /\ after.todo = registry[logout[h].sid]
  BY <1>3 DEF Logout
<1>5. logout[h].pc = "remember"
  BY DEF LogoutRemember
<1> HIDE DEF after
<1>6. QED
  BY <1>2, <1>4, <1>5

LEMMA CloseEffect ==
    ASSUME TypeOK, NEW h \in Logouts, NEW w \in Sockets, LogoutClose(h, w)
    PROVE  /\ \A g \in Logouts \ {h} : logout'[g] = logout[g]
           /\ \A g \in Logouts :
                 /\ logout'[g].sid = logout[g].sid /\ logout'[g].pc = logout[g].pc
                 /\ logout'[g].now = logout[g].now
           /\ logout[h].pc = "close" /\ logout'[h].todo = logout[h].todo \ {w}
           /\ \A v \in Sockets \ {w} : socket'[v] = socket[v]
           /\ socket'[w].sid = socket[w].sid
           /\ \/ socket'[w] = socket[w] /\ socket[w].pc # "open"
              \/ socket[w].pc = "open" /\ socket'[w].pc = "closed"
              \/ socket[w].pc = "open" /\ socket'[w].pc = "open" /\ socket'[w].stuck
<1> DEFINE after == [logout[h] EXCEPT !.todo = @ \ {w}]
<1>1. logout' = [logout EXCEPT ![h] = after]
  BY DEF LogoutClose
<1>2. \A g \in Logouts : logout'[g] = IF g = h THEN after ELSE logout[g]
  BY <1>1 DEF TypeOK
<1>3. logout[h] \in Logout /\ socket[w] \in Socket
  BY DEF TypeOK
<1>4. /\ \A v \in Sockets \ {w} : socket'[v] = socket[v]
      /\ \/ socket'[w] = socket[w] /\ socket[w].pc # "open"
         \/ socket[w].pc = "open" /\ socket'[w] = [socket[w] EXCEPT !.pc = "closed"]
         \/ socket[w].pc = "open" /\ socket'[w] = [socket[w] EXCEPT !.stuck = TRUE]
  BY DEF TypeOK, LogoutClose
<1>5. QED
  BY <1>2, <1>3, <1>4 DEF LogoutClose, Logout, Socket

LEMMA HandlerStep ==
    ASSUME TypeOK, HandlerShape, [Next]_vars
    PROVE  HandlerShape'
<1>0. clock \in Nat /\ clock >= 1 /\ \A h \in Logouts : logout[h].now \in Nat
  BY FieldTypes
<1>1. CASE Elsewhere
  BY <1>0, <1>1 DEF HandlerShape, Active, Elsewhere
<1>2. CASE Restart
  BY <1>0, <1>2 DEF HandlerShape, Active, Restart, IdleLogout, Never
<1>3. ASSUME NEW h \in Logouts, NEW s \in Sessions, LogoutStart(h, s) PROVE HandlerShape'
  <2>1. clock' = clock
    BY <1>3 DEF LogoutStart
  <2>2. QED
    BY <1>0, <1>3, <2>1, StartEffect, AuthAssumption DEF HandlerShape, Active
<1>4. ASSUME NEW h \in Logouts, LogoutWrite(h) \/ LogoutFails(h) \/ LogoutRemember(h)
      PROVE  HandlerShape'
  <2>1. CASE LogoutWrite(h)
    BY <1>0, <2>1, WriteEffect DEF HandlerShape, Active, LogoutWrite
  <2>2. CASE LogoutFails(h)
    BY <1>0, <2>2 DEF TypeOK, HandlerShape, Active, LogoutFails, IdleLogout, Never
  <2>3. CASE LogoutRemember(h)
    <3>1. clock' = clock
      BY <2>3 DEF LogoutRemember
    <3>2. QED
      BY <1>0, <2>3, <3>1, RememberEffect DEF HandlerShape, Active
  <2>4. QED
    BY <1>4, <2>1, <2>2, <2>3
<1>5. ASSUME NEW h \in Logouts, NEW w \in Sockets, LogoutClose(h, w) PROVE HandlerShape'
  BY <1>0, <1>5, CloseEffect DEF HandlerShape, Active, LogoutClose
<1>6. ASSUME NEW h \in Logouts, LogoutDone(h) PROVE HandlerShape'
  BY <1>0, <1>6 DEF TypeOK, HandlerShape, Active, LogoutDone, IdleLogout, Never
<1>7. QED
  BY <1>1, <1>2, <1>3, <1>4, <1>5, <1>6, StepShapes

LEMMA SocketStep ==
    ASSUME TypeOK, SocketShape, [Next]_vars
    PROVE  SocketShape'
<1>1. CASE UNCHANGED socket
  BY <1>1 DEF SocketShape
<1>2. CASE Restart
  BY <1>2, AuthAssumption DEF SocketShape, Restart, Off
<1>3. ASSUME NEW h \in Logouts, NEW w \in Sockets, LogoutClose(h, w) PROVE SocketShape'
  BY <1>3, CloseEffect DEF SocketShape
<1>4. ASSUME NEW w \in Sockets, Connect(w) \/ TurnAway(w) \/ StreamEnds(w) PROVE SocketShape'
  BY <1>4, AuthAssumption DEF TypeOK, SocketShape, Connect, TurnAway, StreamEnds, Off
<1>5. ASSUME NEW w \in Sockets, NEW s \in Sessions, Authenticate(w, s) PROVE SocketShape'
  BY <1>5 DEF TypeOK, SocketShape, Authenticate
<1>6. QED
  BY <1>1, <1>2, <1>3, <1>4, <1>5 DEF Next, LogoutStep, AuthFails, AuthTimeout, vars, sockets,
     Tick, Login, Refresh, LogoutStart, LogoutWrite, LogoutFails, LogoutRemember, LogoutDone

(* Which logouts are about to remember their revocation.                   *)
LEMMA UnrememberedSteps ==
    ASSUME TypeOK, HandlerShape, [Next]_vars, NEW s \in Sessions
    PROVE  /\ Elsewhere => Unremembered(s)' = Unremembered(s)
           /\ Restart => Unremembered(s)' = {}
           /\ \A h \in Logouts, t \in Sessions :
                 LogoutStart(h, t) => Unremembered(s)' = Unremembered(s)
           /\ \A h \in Logouts :
                 LogoutFails(h) \/ LogoutDone(h) => Unremembered(s)' = Unremembered(s)
           /\ \A h \in Logouts, w \in Sockets :
                 LogoutClose(h, w) => Unremembered(s)' = Unremembered(s)
           /\ \A h \in Logouts : LogoutWrite(h) =>
                 Unremembered(s)' = Unremembered(s)
                                    \cup (IF logout[h].sid = s THEN {logout[h].now} ELSE {})
           /\ \A h \in Logouts : LogoutRemember(h) =>
                 /\ Unremembered(s)' \subseteq Unremembered(s)
                 /\ logout[h].sid = s => logout[h].now \in Unremembered(s)
                 /\ logout[h].sid # s => Unremembered(s)' = Unremembered(s)
<1> DEFINE Waits(g) == logout[g].sid = s /\ logout[g].pc = "remember"
<1>0. \A now : /\ now \in Unremembered(s) <=> \E g \in Logouts : Waits(g) /\ now = logout[g].now
               /\ now \in Unremembered(s)'
                     <=> \E g \in Logouts : Waits(g)' /\ now = logout'[g].now
  BY DEF Unremembered
<1>1. Elsewhere => Unremembered(s)' = Unremembered(s)
  BY DEF Elsewhere, Unremembered
<1>2. Restart => Unremembered(s)' = {}
  BY DEF Restart, Unremembered, IdleLogout
<1>3. ASSUME NEW h \in Logouts,
             \A g \in Logouts \ {h} : logout'[g] = logout[g],
             ~Waits(h), ~Waits(h)'
      PROVE  Unremembered(s)' = Unremembered(s)
  <2>1. \A g \in Logouts : /\ Waits(g)' <=> Waits(g)
                           /\ Waits(g) => logout'[g].now = logout[g].now
    BY <1>3
  <2>2. \A now : now \in Unremembered(s)' <=> now \in Unremembered(s)
    <3> HIDE DEF Waits
    <3>1. QED
      BY <1>0, <2>1
  <2>3. QED
    BY <2>2
<1>4. ASSUME NEW h \in Logouts, NEW t \in Sessions, LogoutStart(h, t)
      PROVE  Unremembered(s)' = Unremembered(s)
  BY <1>3, <1>4, StartEffect DEF LogoutStart
<1>5. ASSUME NEW h \in Logouts, LogoutFails(h) \/ LogoutDone(h)
      PROVE  Unremembered(s)' = Unremembered(s)
  BY <1>3, <1>5 DEF TypeOK, LogoutFails, LogoutDone, IdleLogout
<1>6. ASSUME NEW h \in Logouts, NEW w \in Sockets, LogoutClose(h, w)
      PROVE  Unremembered(s)' = Unremembered(s)
  BY <1>3, <1>6, CloseEffect
<1>7. ASSUME NEW h \in Logouts, LogoutWrite(h)
      PROVE  Unremembered(s)' = Unremembered(s)
                                \cup (IF logout[h].sid = s THEN {logout[h].now} ELSE {})
  <2>1. \A g \in Logouts : /\ Waits(g)' <=> Waits(g) \/ (g = h /\ logout[h].sid = s)
                           /\ logout'[g].now = logout[g].now
    BY <1>7, WriteEffect
  <2>2. QED
    BY <1>0, <2>1
<1>8. ASSUME NEW h \in Logouts, LogoutRemember(h)
      PROVE  /\ Unremembered(s)' \subseteq Unremembered(s)
             /\ logout[h].sid = s => logout[h].now \in Unremembered(s)
             /\ logout[h].sid # s => Unremembered(s)' = Unremembered(s)
  <2>1. \A g \in Logouts : /\ Waits(g)' <=> Waits(g) /\ g # h
                           /\ logout'[g].now = logout[g].now
    BY <1>8, RememberEffect
  <2>2. logout[h].pc = "remember"
    BY <1>8, RememberEffect
  <2>3. Unremembered(s)' \subseteq Unremembered(s)
    BY <1>0, <2>1
  <2>4. logout[h].sid = s => logout[h].now \in Unremembered(s)
    BY <1>0, <2>2
  <2>5. CASE logout[h].sid # s
    <3>1. ~Waits(h) /\ ~Waits(h)'
      BY <2>1, <2>5
    <3>2. Unremembered(s)' = Unremembered(s)
      BY <1>3, <1>8, <3>1, RememberEffect
    <3>3. QED
      BY <2>3, <2>5, <3>2
  <2>6. QED
    BY <2>3, <2>4, <2>5
<1>9. QED
  BY <1>1, <1>2, <1>4, <1>5, <1>6, <1>7, <1>8

LEMMA CountedStep ==
    ASSUME TypeOK, HandlerShape, Counted, [Next]_vars
    PROVE  Counted'
<1> SUFFICES ASSUME NEW s \in Sessions PROVE Unremembered(s)' \subseteq ended'[s]
  BY DEF Counted
<1>0. Unremembered(s) \subseteq ended[s]
  BY DEF Counted
<1>1. ASSUME NEW h \in Logouts, LogoutWrite(h) PROVE Unremembered(s)' \subseteq ended'[s]
  <2>1. ended'[s] = IF s = logout[h].sid THEN {logout[h].now} \cup Unremembered(s) ELSE ended[s]
    BY <1>1 DEF LogoutWrite, TypeOK
  <2>2. QED
    BY <1>0, <1>1, <2>1, UnrememberedSteps
<1>2. ASSUME UNCHANGED ended, Unremembered(s)' \subseteq Unremembered(s)
      PROVE  Unremembered(s)' \subseteq ended'[s]
  BY <1>0, <1>2
<1>3. ASSUME Restart \/ \E h \in Logouts : LogoutRemember(h) PROVE Unremembered(s)' \subseteq ended'[s]
  BY <1>2, <1>3, UnrememberedSteps DEF Restart, LogoutRemember
<1>4. ASSUME \/ Elsewhere
             \/ \E h \in Logouts, t \in Sessions : LogoutStart(h, t)
             \/ \E h \in Logouts : LogoutFails(h) \/ LogoutDone(h)
             \/ \E h \in Logouts, w \in Sockets : LogoutClose(h, w)
      PROVE  Unremembered(s)' \subseteq ended'[s]
  BY <1>2, <1>4, UnrememberedSteps DEF Elsewhere, LogoutStart, LogoutFails, LogoutDone, LogoutClose
<1>5. QED
  BY <1>1, <1>3, <1>4, StepShapes

-----------------------------------------------------------------------------
(* The revocations cover the logouts that are counted. *)

LEMMA PruneCovers ==
    ASSUME NEW rows \in [Sessions -> Nat], NEW now \in Nat, now <= clock, clock \in Nat,
           NEW s \in Sessions, NEW t \in Nat, Covers(rows[s], t)
    PROVE  Covers(Prune(rows, now)[s], t)
<1>1. CASE rows[s] <= now
  BY <1>1, AuthAssumption DEF Covers
<1>2. CASE ~(rows[s] <= now)
  BY <1>2, PruneType DEF Covers
<1>3. QED
  BY <1>1, <1>2

(* What one logout writes or remembers covers its own session from when it *)
(* began, and leaves every other session covered.                          *)
LEMMA UntilCovers ==
    ASSUME TypeOK, HandlerShape, NEW h \in Logouts, NEW rows \in [Sessions -> Nat],
           NEW s \in Sessions, NEW t \in Nat,
           logout[h].sid = s => t <= logout[h].now,
           logout[h].sid # s => Covers(rows[s], t)
    PROVE  Covers([Prune(rows, logout[h].now) EXCEPT ![logout[h].sid] = Until(h)][s], t)
<1> DEFINE pruned == Prune(rows, logout[h].now)
<1>0. /\ logout[h].now \in Nat /\ RefreshTTL \in Nat /\ clock \in Nat /\ logout[h].now <= clock
  BY FieldTypes DEF HandlerShape
<1>1. pruned \in [Sessions -> Nat]
  BY <1>0, PruneType
<1>2. CASE logout[h].sid = s
  <2>1. [pruned EXCEPT ![logout[h].sid] = Until(h)][s] = Until(h)
    BY <1>1, <1>2
  <2>2. Covers(Until(h), t)
    BY <1>0, <1>2 DEF Until, Covers
  <2>3. QED
    BY <2>1, <2>2
<1>3. CASE logout[h].sid # s
  <2>1. [pruned EXCEPT ![logout[h].sid] = Until(h)][s] = pruned[s]
    BY <1>1, <1>3
  <2>2. Covers(pruned[s], t)
    BY <1>0, <1>3, PruneCovers
  <2>3. QED
    BY <2>1, <2>2
<1>4. QED
  BY <1>2, <1>3

LEMMA CoverStep ==
    ASSUME TypeOK, HandlerShape, Counted, EndedCovers, [Next]_vars
    PROVE  EndedCovers'
<1> SUFFICES ASSUME NEW s \in Sessions, ended'[s] # {}
             PROVE  /\ \E began \in ended'[s] : Covers(stored[s], began)'
                    /\ \/ Unremembered(s)' # {}
                       \/ \E began \in ended'[s] : Covers(revoked[s], began)'
  BY DEF EndedCovers, Covers
<1>0. /\ \A h \in Logouts : logout[h].now \in Nat
      /\ ended[s] \subseteq Nat /\ stored[s] \in Nat /\ revoked[s] \in Nat
      /\ clock \in Nat /\ RefreshTTL \in Nat
      /\ stored \in [Sessions -> Nat] /\ revoked \in [Sessions -> Nat]
  BY FieldTypes DEF TypeOK
<1> DEFINE StoredCovers(b) == Covers(stored[s], b)
           MemoryCovers(b) == Covers(revoked[s], b)
<1>1. ended[s] # {} =>
          /\ \E began \in ended[s] : StoredCovers(began)
          /\ Unremembered(s) # {} \/ \E began \in ended[s] : MemoryCovers(began)
  BY DEF EndedCovers
<1>2. CASE Elsewhere
  <2>1. \A began \in ended[s] : /\ StoredCovers(began) => StoredCovers(began)'
                                /\ MemoryCovers(began) => MemoryCovers(began)'
    BY <1>0, <1>2 DEF Covers, Elsewhere
  <2>2. ended'[s] = ended[s] /\ Unremembered(s)' = Unremembered(s)
    BY <1>2, UnrememberedSteps DEF Elsewhere
  <2>3. QED
    BY <1>1, <2>1, <2>2
<1>3. CASE Restart
  <2>1. \A began \in ended[s] : StoredCovers(began) => Covers(Prune(stored, clock)[s], began)
    BY <1>0, PruneCovers
  <2>2. /\ stored' = Prune(stored, clock) /\ revoked' = Prune(stored, clock)
        /\ UNCHANGED <<clock, ended>>
    BY <1>3 DEF Restart
  <2>3. QED
    BY <1>1, <2>1, <2>2 DEF Covers
(* The steps that neither store nor remember a revocation.                 *)
<1>4. ASSUME \/ \E h \in Logouts, t \in Sessions : LogoutStart(h, t)
             \/ \E h \in Logouts : LogoutFails(h) \/ LogoutDone(h)
             \/ \E h \in Logouts, w \in Sockets : LogoutClose(h, w)
      PROVE  /\ \E began \in ended'[s] : Covers(stored[s], began)'
             /\ Unremembered(s)' # {} \/ \E began \in ended'[s] : Covers(revoked[s], began)'
  <2>1. UNCHANGED <<clock, stored, revoked, ended>>
    BY <1>4 DEF LogoutStart, LogoutFails, LogoutDone, LogoutClose
  <2>2. Unremembered(s)' = Unremembered(s)
    BY <1>4, UnrememberedSteps
  <2>3. QED
    BY <1>1, <2>1, <2>2 DEF Covers
<1>5. ASSUME NEW h \in Logouts, LogoutWrite(h)
      PROVE  /\ \E began \in ended'[s] : Covers(stored[s], began)'
             /\ Unremembered(s)' # {} \/ \E began \in ended'[s] : Covers(revoked[s], began)'
  <2>1. /\ stored' = [Prune(stored, logout[h].now) EXCEPT ![logout[h].sid] = Until(h)]
        /\ UNCHANGED <<clock, revoked>>
    BY <1>5 DEF LogoutWrite
  <2>2. ended'[s] = IF s = logout[h].sid THEN {logout[h].now} \cup Unremembered(s) ELSE ended[s]
    BY <1>5 DEF LogoutWrite, TypeOK
  <2>3. Unremembered(s)' = Unremembered(s)
                           \cup (IF logout[h].sid = s THEN {logout[h].now} ELSE {})
    BY <1>5, UnrememberedSteps
  <2>4. CASE logout[h].sid = s
    <3>1. Covers(stored'[s], logout[h].now)
      BY <1>0, <2>1, <2>4, UntilCovers
    <3>2. QED
      BY <2>1, <2>2, <2>3, <2>4, <3>1 DEF Covers
  <2>5. CASE logout[h].sid # s
    <3>1. \A began \in ended[s] : StoredCovers(began) => Covers(stored'[s], began)
      BY <1>0, <2>1, <2>5, UntilCovers
    <3>2. QED
      BY <1>1, <2>1, <2>2, <2>3, <2>5, <3>1 DEF Covers
  <2>6. QED
    BY <2>4, <2>5
<1>6. ASSUME NEW h \in Logouts, LogoutRemember(h)
      PROVE  /\ \E began \in ended'[s] : Covers(stored[s], began)'
             /\ Unremembered(s)' # {} \/ \E began \in ended'[s] : Covers(revoked[s], began)'
  <2>1. /\ revoked' = [Prune(revoked, logout[h].now) EXCEPT ![logout[h].sid] = Until(h)]
        /\ UNCHANGED <<clock, stored, ended>>
    BY <1>6 DEF LogoutRemember
  <2>2. CASE logout[h].sid = s
    <3>1. logout[h].now \in ended[s]
      BY <1>6, <2>2, UnrememberedSteps DEF Counted
    <3>2. Covers(revoked'[s], logout[h].now)
      BY <1>0, <2>1, <2>2, UntilCovers
    <3>3. QED
      BY <1>1, <2>1, <3>1, <3>2 DEF Covers
  <2>3. CASE logout[h].sid # s
    <3>1. \A began \in ended[s] : MemoryCovers(began) => Covers(revoked'[s], began)
      BY <1>0, <2>1, <2>3, UntilCovers
    <3>2. Unremembered(s)' = Unremembered(s)
      BY <1>6, <2>3, UnrememberedSteps
    <3>3. QED
      BY <1>1, <2>1, <3>1, <3>2 DEF Covers
  <2>4. QED
    BY <2>2, <2>3
<1>7. QED
  BY <1>2, <1>3, <1>4, <1>5, <1>6, StepShapes

-----------------------------------------------------------------------------
(* The registry, the streams and the gate. *)

(* What a step does to the sockets.                                        *)
LEMMA SocketShapes ==
    ASSUME [Next]_vars
    PROVE  \/ UNCHANGED sockets
           \/ Restart
           \/ \E h \in Logouts, w \in Sockets : LogoutClose(h, w)
           \/ \E w \in Sockets : Connect(w) \/ TurnAway(w) \/ StreamEnds(w)
           \/ \E w \in Sockets, s \in Sessions : Authenticate(w, s)
BY DEF Next, LogoutStep, AuthFails, AuthTimeout, vars, sockets, Tick, Login, Refresh,
   LogoutStart, LogoutWrite, LogoutFails, LogoutRemember, LogoutDone

LEMMA AuthenticateEffect ==
    ASSUME TypeOK, NEW w \in Sockets, NEW s \in Sessions, Authenticate(w, s)
    PROVE  /\ socket[w].pc = "auth" /\ socket'[w].pc = "open" /\ socket'[w].sid = s
           /\ \A v \in Sockets \ {w} : socket'[v] = socket[v]
           /\ registry' = [registry EXCEPT ![s] = @ \cup {w}]
           /\ revoked[s] = Never /\ UNCHANGED <<revoked, logout>>
<1> DEFINE after == [socket[w] EXCEPT !.pc = "open", !.sid = s]
<1>1. socket' = [socket EXCEPT ![w] = after]
  BY DEF Authenticate
<1>2. \A v \in Sockets : socket'[v] = IF v = w THEN after ELSE socket[v]
  BY <1>1 DEF TypeOK
<1>3. socket[w] \in Socket
  BY DEF TypeOK
<1>4. after.pc = "open" /\ after.sid = s
  BY <1>3 DEF Socket
<1> HIDE DEF after
<1>5. QED
  BY <1>2, <1>4 DEF Authenticate, Accepted

(* RegistryIsExact, member by member.                                      *)
Registered(s, w) == w \in registry[s] <=> socket[w].pc \in {"open", "closed"} /\ socket[w].sid = s

LEMMA ExactByMember ==
    RegistryIsExact => \A s \in Sessions, w \in Sockets : Registered(s, w)
BY DEF RegistryIsExact, Registered

LEMMA RegistryStep ==
    ASSUME TypeOK, TypeOK', RegistryIsExact, [Next]_vars
    PROVE  RegistryIsExact'
<1>0. (\A s \in Sessions, w \in Sockets : Registered(s, w)') => RegistryIsExact'
  BY DEF RegistryIsExact, Registered, TypeOK
<1>a. \A s \in Sessions, w \in Sockets :
         w \in registry[s] <=> socket[w].pc \in {"open", "closed"} /\ socket[w].sid = s
  BY ExactByMember DEF Registered
<1>1. CASE UNCHANGED sockets
  BY <1>1 DEF sockets, RegistryIsExact
<1>2. CASE Restart
  BY <1>2 DEF Restart, RegistryIsExact, Off
<1>3. ASSUME NEW h \in Logouts, NEW w \in Sockets, LogoutClose(h, w) PROVE RegistryIsExact'
  <2>1. \A v \in Sockets : /\ socket'[v].sid = socket[v].sid
                           /\ socket'[v].pc \in {"open", "closed"}
                                 <=> socket[v].pc \in {"open", "closed"}
    BY <1>3, CloseEffect
  <2>2. registry' = registry
    BY <1>3 DEF LogoutClose
  <2>3. QED
    BY <2>1, <2>2 DEF RegistryIsExact
<1>4. ASSUME NEW w \in Sockets, Connect(w) PROVE RegistryIsExact'
  BY <1>4 DEF TypeOK, Connect, RegistryIsExact, Off
<1>5. ASSUME NEW w \in Sockets, TurnAway(w) PROVE RegistryIsExact'
  BY <1>5 DEF TypeOK, TurnAway, RegistryIsExact, Off
<1>6. ASSUME NEW w \in Sockets, StreamEnds(w) PROVE RegistryIsExact'
  <2>1. \A v \in Sockets : socket'[v] = IF v = w THEN Off ELSE socket[v]
    BY <1>6 DEF TypeOK, StreamEnds
  <2>2. \A s \in Sessions :
           registry'[s] = IF s = socket[w].sid THEN registry[s] \ {w} ELSE registry[s]
    BY <1>6 DEF TypeOK, StreamEnds, Unregister
  <2>3. ASSUME NEW s \in Sessions, NEW v \in Sockets PROVE Registered(s, v)'
    <3>1. v \in registry'[s] <=> v \in registry[s] /\ ~(v = w /\ s = socket[w].sid)
      BY <2>2
    <3>2. CASE v = w
      <4>1. socket'[v].pc \notin {"open", "closed"}
        BY <2>1, <3>2 DEF Off
      <4>2. v \notin registry'[s]
        BY <3>1, <3>2, <1>a
      <4>3. QED
        BY <4>1, <4>2 DEF Registered
    <3>3. CASE v # w
      <4>1. socket'[v] = socket[v]
        BY <2>1, <3>3
      <4>2. QED
        BY <3>1, <3>3, <4>1, <1>a DEF Registered
    <3>4. QED
      BY <3>2, <3>3
  <2>4. QED
    BY <1>0, <2>3
<1>7. ASSUME NEW w \in Sockets, NEW t \in Sessions, Authenticate(w, t) PROVE RegistryIsExact'
  <2>1. \A s \in Sessions : registry'[s] = IF s = t THEN registry[s] \cup {w} ELSE registry[s]
    <3>1. registry' = [registry EXCEPT ![t] = @ \cup {w}]
      BY <1>7 DEF Authenticate
    <3>2. QED
      BY <3>1 DEF TypeOK
  <2>2. /\ socket[w].pc = "auth" /\ socket'[w].pc = "open" /\ socket'[w].sid = t
        /\ \A v \in Sockets \ {w} : socket'[v] = socket[v]
    BY <1>7, AuthenticateEffect
  <2>3. ASSUME NEW s \in Sessions, NEW v \in Sockets PROVE Registered(s, v)'
    <3>1. CASE v = w
      <4>1. v \notin registry[s]
        BY <1>a, <2>2, <3>1
      <4>2. v \in registry'[s] <=> s = t
        BY <2>1, <3>1, <4>1
      <4>3. socket'[v].pc = "open" /\ socket'[v].sid = t
        BY <2>2, <3>1
      <4>4. QED
        BY <4>2, <4>3 DEF Registered
    <3>2. CASE v # w
      <4>1. v \in registry'[s] <=> v \in registry[s]
        BY <2>1, <3>2
      <4>2. socket'[v] = socket[v]
        BY <2>2, <3>2
      <4>3. QED
        BY <4>1, <4>2, <1>a DEF Registered
    <3>3. QED
      BY <3>1, <3>2
  <2>4. QED
    BY <1>0, <2>3
<1>8. QED
  BY <1>1, <1>2, <1>3, <1>4, <1>5, <1>6, <1>7, SocketShapes

(* Only LogoutRemember revokes a session in memory while the server runs.  *)
LEMMA RevokedSteps ==
    ASSUME [Next]_vars
    PROVE  UNCHANGED revoked \/ Restart \/ \E h \in Logouts : LogoutRemember(h)
BY DEF Next, LogoutStep, AuthFails, AuthTimeout, vars, Tick, Login, Refresh, LogoutStart,
   LogoutWrite, LogoutFails, LogoutClose, LogoutDone, Connect, TurnAway, StreamEnds, Authenticate

(* A socket on a logout's list stays there until it is closed.             *)
Listed(s, w) == \E h \in Logouts : logout[h].sid = s /\ w \in logout[h].todo

LEMMA StreamStep ==
    ASSUME TypeOK, HandlerShape, SocketShape, RegistryIsExact, NoStreamSlipsIn, [Next]_vars
    PROVE  NoStreamSlipsIn'
<1> SUFFICES ASSUME NEW s \in Sessions, NEW w \in Sockets,
                    socket'[w].pc = "open", socket'[w].sid = s, revoked'[s] # Never
             PROVE  socket'[w].stuck \/ Listed(s, w)'
  BY DEF NoStreamSlipsIn, Listed
<1>0. socket[w].pc = "open" /\ socket[w].sid = s /\ revoked[s] # Never
          => socket[w].stuck \/ Listed(s, w)
  BY DEF NoStreamSlipsIn, Listed
<1>1. ~Restart
  BY DEF Restart, Off
<1>2. ASSUME NEW h \in Logouts, LogoutRemember(h) PROVE socket'[w].stuck \/ Listed(s, w)'
  <2>1. UNCHANGED sockets
    BY <1>2 DEF LogoutRemember
  <2>2. CASE logout[h].sid = s
    <3>1. w \in registry[s]
      BY <2>1 DEF sockets, RegistryIsExact
    <3>2. QED
      BY <1>2, <2>2, <3>1, RememberEffect DEF Listed
  <2>3. CASE logout[h].sid # s
    <3>1. revoked'[s] = Prune(revoked, logout[h].now)[s]
      BY <1>2, <2>3 DEF LogoutRemember, Prune
    <3>2. revoked[s] # Never
      BY <3>1 DEF Prune
    <3>3. QED
      BY <1>0, <1>2, <2>1, <2>3, <3>2, RememberEffect DEF Listed, sockets
  <2>4. QED
    BY <2>2, <2>3
<1>3. ASSUME UNCHANGED revoked, NEW h \in Logouts, NEW v \in Sockets, LogoutClose(h, v)
      PROVE  socket'[w].stuck \/ Listed(s, w)'
  <2>1. CASE w = v
    BY <1>3, <2>1, CloseEffect
  <2>2. CASE w # v
    BY <1>0, <1>3, <2>2, CloseEffect DEF Listed
  <2>3. QED
    BY <2>1, <2>2
<1>4. ASSUME UNCHANGED revoked, NEW v \in Sockets, NEW t \in Sessions, Authenticate(v, t)
      PROVE  socket'[w].stuck \/ Listed(s, w)'
  BY <1>0, <1>4, AuthenticateEffect DEF Listed
<1>5. ASSUME UNCHANGED revoked, NEW v \in Sockets, Connect(v) \/ TurnAway(v) \/ StreamEnds(v)
      PROVE  socket'[w].stuck \/ Listed(s, w)'
  <2>1. UNCHANGED logout /\ socket'[w] = socket[w]
    BY <1>5 DEF TypeOK, Connect, TurnAway, StreamEnds, Off
  <2>2. QED
    BY <1>0, <1>5, <2>1 DEF Listed
<1>6. ASSUME UNCHANGED <<revoked, sockets>>, ASSUME NEW h \in Logouts PROVE ~LogoutRemember(h)
      PROVE  socket'[w].stuck \/ Listed(s, w)'
  <2>1. socket[w].stuck \/ Listed(s, w)
    BY <1>0, <1>6 DEF sockets
  <2>2. ASSUME NEW h \in Logouts, logout[h].sid = s, w \in logout[h].todo
        PROVE  logout'[h] = logout[h] \/ \E v \in Sockets : LogoutClose(h, v)
    <3>1. logout[h].pc = "close" /\ logout[h].todo # {}
      BY <2>2 DEF HandlerShape
    <3>2. QED
      BY <1>1, <1>6, <2>2, <3>1 DEF TypeOK, Next, LogoutStep, AuthFails, AuthTimeout, vars, Tick,
         Login, Refresh, LogoutStart, LogoutWrite, LogoutFails, LogoutDone, LogoutClose,
         Connect, TurnAway, StreamEnds, Authenticate
  <2>3. QED
    BY <1>3, <1>6, <2>1, <2>2 DEF Listed, sockets
<1>7. QED
  BY <1>1, <1>2, <1>3, <1>4, <1>5, <1>6, SocketShapes, RevokedSteps

Waiting == {w \in Sockets : socket[w].pc = "auth"}

LEMMA GateStep ==
    ASSUME TypeOK, GateCounts, [Next]_vars
    PROVE  GateCounts'
<1>0. /\ IsFiniteSet(Waiting) /\ Cardinality(Waiting) \in Nat
      /\ pending = Cardinality(Waiting) /\ pending <= GateLimit /\ GateLimit \in Nat
  <2>1. IsFiniteSet(Waiting)
    BY FS_Subset, AuthAssumption DEF Waiting
  <2>2. QED
    BY <2>1, FS_CardinalityType, AuthAssumption DEF GateCounts, Waiting
<1>1. CASE UNCHANGED <<pending, Waiting>>
  BY <1>0, <1>1 DEF GateCounts, Waiting
<1>2. CASE Restart
  <2>1. Waiting' = {}
    BY <1>2 DEF Restart, Waiting, Off
  <2>2. QED
    BY <1>0, <1>2, <2>1, FS_EmptySet DEF Restart, GateCounts, Waiting
<1>3. ASSUME NEW w \in Sockets, Connect(w) PROVE GateCounts'
  <2>1. Waiting' = Waiting \cup {w} /\ w \notin Waiting
    BY <1>3 DEF TypeOK, Connect, Waiting, Off
  <2>2. Cardinality(Waiting') = Cardinality(Waiting) + 1
    BY <1>0, <2>1, FS_AddElement
  <2>3. pending' = pending + 1 /\ pending < GateLimit
    BY <1>3 DEF Connect, Free
  <2>4. QED
    BY <1>0, <2>2, <2>3 DEF GateCounts, Waiting
<1>4. ASSUME NEW w \in Sockets, Leave, w \in Waiting, Waiting' = Waiting \ {w} PROVE GateCounts'
  <2>1. Cardinality(Waiting') = Cardinality(Waiting) - 1
    BY <1>0, <1>4, FS_RemoveElement
  <2>2. Cardinality(Waiting) # 0
    BY <1>0, <1>4, FS_EmptySet
  <2>3. pending' = Cardinality(Waiting')
    BY <1>0, <1>4, <2>1, <2>2 DEF Leave
  <2>4. QED
    BY <1>0, <2>1, <2>3 DEF GateCounts, Waiting
<1>5. ASSUME NEW w \in Sockets, TurnAway(w) PROVE GateCounts'
  <2>1. Waiting' = Waiting \ {w} /\ w \in Waiting /\ Leave
    BY <1>5 DEF TypeOK, TurnAway, Waiting, Off
  <2>2. QED
    BY <1>4, <2>1
<1>6. ASSUME NEW w \in Sockets, NEW s \in Sessions, Authenticate(w, s) PROVE GateCounts'
  <2>1. Waiting' = Waiting \ {w} /\ w \in Waiting
    BY <1>6, AuthenticateEffect DEF Waiting
  <2>2. Leave
    BY <1>6 DEF Authenticate
  <2>3. QED
    BY <1>4, <2>1, <2>2
<1>7. ASSUME NEW w \in Sockets, StreamEnds(w) PROVE GateCounts'
  <2>1. UNCHANGED <<pending, Waiting>>
    BY <1>7 DEF TypeOK, StreamEnds, Waiting, Off
  <2>2. QED
    BY <1>1, <2>1
<1>8. ASSUME NEW h \in Logouts, NEW w \in Sockets, LogoutClose(h, w) PROVE GateCounts'
  <2>1. \A v \in Sockets : socket'[v].pc = "auth" <=> socket[v].pc = "auth"
    BY <1>8, CloseEffect
  <2>2. UNCHANGED <<pending, Waiting>>
    BY <1>8, <2>1 DEF LogoutClose, Waiting
  <2>3. QED
    BY <1>1, <2>2
<1>9. CASE UNCHANGED sockets
  BY <1>1, <1>9 DEF sockets, Waiting
<1>10. QED
  BY <1>2, <1>3, <1>5, <1>6, <1>7, <1>8, <1>9, SocketShapes

-----------------------------------------------------------------------------
(* The theorems. *)

LEMMA IInvStep == ASSUME IInv, [Next]_vars PROVE IInv'
BY TypeStep, HandlerStep, SocketStep, CountedStep, CoverStep, RegistryStep, StreamStep,
   GateStep DEF IInv

LEMMA Inductive == Spec => []IInv
<1>1. Init => IInv
  BY InitInv
<1>2. IInv /\ [Next]_vars => IInv'
  BY IInvStep
<1>3. QED
  BY <1>1, <1>2, PTL DEF Spec

(* A revocation that covers a pair refuses it.                             *)
LEMMA CoveredIsRefused == ASSUME TypeOK, EndedCovers PROVE EndedStaysEnded
<1> SUFFICES ASSUME NEW s \in Sessions, NEW t \in 1 .. clock, NEW ttl \in {AccessTTL, RefreshTTL},
                    Accepted(s, t, ttl), ended[s] # {}, Unremembered(s) = {}
             PROVE  \E began \in ended[s] : began < t /\ began + RefreshTTL <= clock
  BY DEF EndedStaysEnded
<1>1. PICK began \in ended[s] : Covers(revoked[s], began)
  BY DEF EndedCovers
<1>2. /\ began \in Nat /\ clock \in Nat /\ RefreshTTL \in Nat
      /\ AccessTTL \in Nat /\ 1 <= AccessTTL /\ AccessTTL <= RefreshTTL
  BY <1>1, FieldTypes, AuthAssumption
<1>3. revoked[s] = 0 /\ clock < t + ttl
  BY DEF Accepted, Never
<1>4. began + RefreshTTL <= clock
  BY <1>1, <1>2, <1>3 DEF Covers
<1>5. began < t
  BY <1>2, <1>3, <1>4
<1>6. QED
  BY <1>4, <1>5

(* The session tables and the handlers keep their types. *)
THEOREM TypeCorrect == Spec => []TypeOK
<1>1. IInv => TypeOK
  BY DEF IInv
<1>2. QED
  BY <1>1, Inductive, PTL

(* Once the write of a logout committed, the session stays logged out for  *)
(* a whole refresh lifetime, and after it no token is accepted that was    *)
(* issued by when the logout began, across prunes, restarts and a crash    *)
(* before the revocation is remembered; of logouts that overlap it holds   *)
(* of one (services/auth.py, db/revoked_session_store.py).                 *)
THEOREM LogoutIsFinal == Spec => []EndedStaysEnded
<1>1. IInv => EndedStaysEnded
  BY CoveredIsRefused DEF IInv
<1>2. QED
  BY <1>1, Inductive, PTL

(* No stream opens between a logout's list of the session's sockets and    *)
(* its revocation: an open stream of a revoked session is on a list, or    *)
(* could not be closed (api/routers/ws.py, api/routers/auth.py).           *)
THEOREM StreamsAreListed == Spec => []NoStreamSlipsIn
<1>1. IInv => NoStreamSlipsIn
  BY DEF IInv
<1>2. QED
  BY <1>1, Inductive, PTL

(* The registry holds exactly the sockets whose handler still runs, each   *)
(* under the session it authenticated as.                                  *)
THEOREM RegistryExact == Spec => []RegistryIsExact
<1>1. IInv => RegistryIsExact
  BY DEF IInv
<1>2. QED
  BY <1>1, Inductive, PTL

(* The gate's counter is the number of sockets in the authentication       *)
(* window, and no more than its limit.                                     *)
THEOREM GateIsExact == Spec => []GateCounts
<1>1. IInv => GateCounts
  BY DEF IInv
<1>2. QED
  BY <1>1, Inductive, PTL
=============================================================================
