--------------------------- MODULE LoginThrottle ---------------------------
(***************************************************************************)
(* The throttle of failed logins (services/login_throttle.py) and the      *)
(* login handlers that use it (api/routers/auth.py): an attempt is counted *)
(* as a failure before the slow password check is awaited, and a success   *)
(* forgets the client's failures.                                          *)
(***************************************************************************)
EXTENDS Naturals, Sequences, FiniteSets

CONSTANTS
    Clients,      \* client addresses
    Requests,     \* POST /auth/login handlers that can run at once
    MaxFailures, Window,
    PruneThreshold,
    NoClient,
    MaxClock      \* bound: the clock stops here

ASSUME ThrottleAssumption ==
    /\ MaxFailures \in Nat \ {0} /\ Window \in Nat \ {0}
    /\ PruneThreshold \in Nat /\ MaxClock \in Nat \ {0}
    /\ NoClient \notin Clients

VARIABLES
    clock,        \* the monotonic clock
    failures,     \* the times of each client's failures; << >> is no entry
    login,        \* the client each handler checks the password of
    admitted      \* history: the attempts let through since the last success

vars == <<clock, failures, login, admitted>>

-----------------------------------------------------------------------------
Lapsed(t) == t + Window <= clock

(* Lapsed failures are dropped from the front until one is recent. *)
Dropped(c) ==
    CHOOSE n \in 0 .. Len(failures[c]) :
        /\ \A i \in 1 .. n : Lapsed(failures[c][i])
        /\ n < Len(failures[c]) => ~Lapsed(failures[c][n + 1])

Recent(c) == SubSeq(failures[c], Dropped(c) + 1, Len(failures[c]))

Tracked == {c \in Clients : failures[c] # << >>}

(* Mutant: nothing is ever swept. *)
Swept_Never(c, d) == failures[d]

(* What an attempt of client c leaves of client d's entry: when more than  *)
(* the threshold are tracked, the lapsed failures of all are dropped.      *)
Swept(c, d) ==
    IF Cardinality(IF Recent(c) = << >> THEN Tracked \ {c} ELSE Tracked) > PruneThreshold
    THEN Recent(d) ELSE failures[d]

Allowed(c) == Len(Recent(c)) < MaxFailures

-----------------------------------------------------------------------------
Init ==
    /\ clock = 1
    /\ failures = [c \in Clients |-> << >>]
    /\ login = [r \in Requests |-> NoClient]
    /\ admitted = [c \in Clients |-> << >>]

Tick ==
    /\ clock < MaxClock
    /\ clock' = clock + 1
    /\ UNCHANGED <<failures, login, admitted>>

(* The attempt is refused: 429 with the time to wait. *)
Refuse(r, c) ==
    /\ login[r] = NoClient /\ ~Allowed(c)
    /\ failures' = [failures EXCEPT ![c] = Recent(c)]
    /\ UNCHANGED <<clock, login, admitted>>

(* Mutant: the newest failure is put first, where lapsed ones are looked for. *)
Attempt_Prepends(r, c) ==
    /\ login[r] = NoClient /\ Allowed(c)
    /\ failures' = [d \in Clients |-> IF d = c THEN <<clock>> \o Recent(c) ELSE Swept(c, d)]
    /\ login' = [login EXCEPT ![r] = c]
    /\ admitted' = [admitted EXCEPT ![c] = Append(@, clock)]
    /\ UNCHANGED clock

(* The attempt is let through, and counted before the password is checked. *)
Attempt(r, c) ==
    /\ login[r] = NoClient /\ Allowed(c)
    /\ failures' = [d \in Clients |-> IF d = c THEN Append(Recent(c), clock) ELSE Swept(c, d)]
    /\ login' = [login EXCEPT ![r] = c]
    /\ admitted' = [admitted EXCEPT ![c] = Append(@, clock)]
    /\ UNCHANGED clock

(* The password was wrong, or the check failed with an error. *)
Wrong(r) ==
    /\ login[r] # NoClient
    /\ login' = [login EXCEPT ![r] = NoClient]
    /\ UNCHANGED <<clock, failures, admitted>>

(* Mutant: a success forgets every client. *)
Right_ForgetsAll(r) ==
    /\ login[r] # NoClient
    /\ failures' = [c \in Clients |-> << >>]
    /\ admitted' = [admitted EXCEPT ![login[r]] = << >>]
    /\ login' = [login EXCEPT ![r] = NoClient]
    /\ UNCHANGED clock

(* Mutant: a success leaves the failures. *)
Right_KeepsThem(r) ==
    /\ login[r] # NoClient
    /\ admitted' = [admitted EXCEPT ![login[r]] = << >>]
    /\ login' = [login EXCEPT ![r] = NoClient]
    /\ UNCHANGED <<clock, failures>>

(* The password was right: the client's failures are forgotten, those of   *)
(* attempts that are still being checked included.                         *)
Right(r) ==
    /\ login[r] # NoClient
    /\ failures' = [failures EXCEPT ![login[r]] = << >>]
    /\ admitted' = [admitted EXCEPT ![login[r]] = << >>]
    /\ login' = [login EXCEPT ![r] = NoClient]
    /\ UNCHANGED clock

Next ==
    \/ Tick
    \/ \E r \in Requests, c \in Clients : Refuse(r, c) \/ Attempt(r, c)
    \/ \E r \in Requests : Wrong(r) \/ Right(r)

Spec == Init /\ [][Next]_vars

-----------------------------------------------------------------------------
(* Type correctness: the failures of a client are in the order of time. *)
TypeOK ==
    /\ clock \in 1 .. MaxClock
    /\ failures \in [Clients -> Seq(1 .. MaxClock)]
    /\ login \in [Requests -> Clients \cup {NoClient}]
    /\ admitted \in [Clients -> Seq(1 .. MaxClock)]
    /\ \A c \in Clients : \A i, j \in 1 .. Len(failures[c]) :
           i < j => failures[c][i] <= failures[c][j]

(* However many handlers check passwords at once, no window of time lets   *)
(* more than MaxFailures attempts of one client through without a success. *)
NoWindowLetsMoreThrough ==
    \A c \in Clients : \A i \in 1 .. Len(admitted[c]) :
        i + MaxFailures <= Len(admitted[c]) =>
            admitted[c][i + MaxFailures] >= admitted[c][i] + Window

(* A client is refused only for its own attempts: MaxFailures of them were *)
(* let through within the window.                                          *)
RefusedForItsOwn ==
    \A c \in Clients : ~Allowed(c) =>
        /\ Len(admitted[c]) >= MaxFailures
        /\ ~Lapsed(admitted[c][Len(admitted[c]) - MaxFailures + 1])

(* An attempt leaves more entries than the threshold allows only if each   *)
(* of them has a recent failure: the table does not grow with the past.    *)
Attempted == \E r \in Requests : login[r] = NoClient /\ login'[r] # NoClient

OnlyRecentBeyondThreshold ==
    [][Attempted /\ Cardinality(Tracked') > PruneThreshold + 1 =>
           \A c \in Tracked' : ~Lapsed(failures'[c][Len(failures'[c])])]_vars
=============================================================================
