------------------------------ MODULE Instances ------------------------------
(***************************************************************************)
(* Server processes on one data folder: startup and shutdown               *)
(* (api/services.py) take and release the instance lock                    *)
(* (db/instance_lock.py), migrate progress.db after a backup               *)
(* (db/migrate.py), sweep the temp files of dead builds and let the        *)
(* builds of a live one finish (services/content_repository.py).           *)
(*                                                                         *)
(* SQLite statements that change the schema are not part of a transaction, *)
(* so a process that dies within a migration leaves what it created.  The  *)
(* migration's own lock is always free here: only a process that holds     *)
(* the instance lock migrates.                                             *)
(***************************************************************************)
EXTENDS Naturals, Sequences, FiniteSets

CONSTANTS
    Processes,    \* server processes, by container
    Nobody,
    Images,       \* releases, by the newest revision each of them knows
    MaxReviews,   \* bound: reviews recorded
    MaxBuilds     \* bound: builds started, which are numbered

(* The tables each revision creates, in order. *)
Scripts == << <<"card_state", "review_log", "app_setting">>, <<"revoked_session">> >>

ASSUME InstanceAssumption ==
    /\ Nobody \notin Processes
    /\ Images \subseteq DOMAIN Scripts
    /\ MaxReviews \in Nat /\ MaxBuilds \in Nat

VARIABLES
    pc,           \* of each process
    image,        \* the release each process runs
    lock,         \* who holds the instance lock
    db,           \* progress.db
    done,         \* the tables a migration created since the last revision
    backups,      \* what is under backups/
    thread,       \* the build thread of each process
    temps,        \* the temp files next to content.db, by build
    builds,       \* how many builds have started
    spoiled       \* history: the reviews in progress.db when it was last left
                  \* between two revisions

progress == <<db, done, backups, spoiled>>
content == <<thread, temps, builds>>
vars == <<pc, image, lock, progress, content>>

Tables(r) == UNION {{Scripts[i][j] : j \in DOMAIN Scripts[i]} : i \in 1 .. r}
Revisions == 0 .. Len(Scripts)
Database == [file : BOOLEAN, tables : SUBSET Tables(Len(Scripts)), revision : Revisions,
             reviews : 0 .. MaxReviews]
NoBuild == 0
Thread == [pc : {"none", "run", "move"}, build : 0 .. MaxBuilds]
NoThread == [pc |-> "none", build |-> NoBuild]

Starting == {"inspect", "backup", "upgrade", "sweep", "open"}

(* The schema is that of the revision the file names. *)
Consistent(d) == d.tables = Tables(d.revision)

-----------------------------------------------------------------------------
Init ==
    /\ pc = [p \in Processes |-> "off"]
    /\ image \in [Processes -> Images]
    /\ lock = Nobody
    /\ db = [file |-> FALSE, tables |-> {}, revision |-> 0, reviews |-> 0]
    /\ done = [p \in Processes |-> 0]
    /\ backups = {}
    /\ thread = [p \in Processes |-> NoThread]
    /\ temps = {} /\ builds = 0
    /\ spoiled = 0

Goto(p, l) == pc' = [pc EXCEPT ![p] = l]

(* Mutant: the lock is not tested. *)
Acquire_Unlocked(p) == lock' = p

(* Without waiting: a process that finds the lock taken does not start. *)
Acquire(p) == lock = Nobody /\ lock' = p

Start(p, i) ==
    /\ pc[p] = "off"
    /\ Acquire(p)
    /\ image' = [image EXCEPT ![p] = i]
    /\ done' = [done EXCEPT ![p] = 0]
    /\ Goto(p, "inspect")
    /\ UNCHANGED <<db, backups, spoiled, content>>

(* run_migrations reads the revision of an existing file. *)
Inspect(p) ==
    /\ pc[p] = "inspect"
    /\ Goto(p, IF ~db.file THEN "upgrade"
               ELSE IF db.revision = image[p] THEN "sweep" ELSE "backup")
    /\ UNCHANGED <<image, lock, progress, content>>

(* Mutant: backups of one name take each other's place. *)
Kept_Latest == {db}

(* A backup never takes the place of another. *)
Kept == backups \cup {db}

TakeBackup(p) ==
    /\ pc[p] = "backup"
    /\ backups' = Kept
    /\ Goto(p, "upgrade")
    /\ UNCHANGED <<image, lock, db, done, spoiled, content>>

Behind(p) == pc[p] = "upgrade" /\ db.revision < image[p]
Script == Scripts[db.revision + 1]

CreateTable(p) ==
    /\ Behind(p) /\ done[p] < Len(Script)
    /\ Script[done[p] + 1] \notin db.tables
    /\ db' = [db EXCEPT !.file = TRUE, !.tables = @ \cup {Script[done[p] + 1]}]
    /\ done' = [done EXCEPT ![p] = @ + 1]
    /\ spoiled' = IF Consistent(db) THEN db.reviews ELSE spoiled
    /\ UNCHANGED <<pc, image, lock, backups, content>>

(* Mutant: the revision is recorded before its tables are there. *)
Created_Any(p) == TRUE

Created(p) == done[p] = Len(Script)

RecordRevision(p) ==
    /\ Behind(p) /\ Created(p)
    /\ db' = [db EXCEPT !.revision = @ + 1]
    /\ done' = [done EXCEPT ![p] = 0]
    /\ UNCHANGED <<pc, image, lock, backups, spoiled, content>>

Upgraded(p) ==
    /\ pc[p] = "upgrade" /\ db.revision = image[p]
    /\ Goto(p, "sweep")
    /\ UNCHANGED <<image, lock, progress, content>>

(* Any step of the startup may fail: the file is corrupt or read-only, the *)
(* revision is not one this release knows, a table exists already.         *)
StartupFails(p) ==
    /\ pc[p] \in Starting
    /\ Goto(p, "release")
    /\ UNCHANGED <<image, lock, progress, content>>

(* remove_stale_temp_files: a file that cannot be removed stays. *)
Sweep(p) ==
    /\ pc[p] = "sweep"
    /\ temps' \in SUBSET temps
    /\ Goto(p, "open")
    /\ UNCHANGED <<image, lock, progress, thread, builds>>

Opened(p) ==
    /\ pc[p] = "open"
    /\ Goto(p, "serve")
    /\ UNCHANGED <<image, lock, progress, content>>

-----------------------------------------------------------------------------
(* What a server does to the folder. *)

Review(p) ==
    /\ pc[p] = "serve"
    /\ {"card_state", "review_log"} \subseteq db.tables
    /\ db.reviews < MaxReviews
    /\ db' = [db EXCEPT !.reviews = @ + 1]
    /\ UNCHANGED <<pc, image, lock, done, backups, spoiled, content>>

StartBuild(p) ==
    /\ pc[p] = "serve" /\ thread[p] = NoThread
    /\ builds < MaxBuilds
    /\ builds' = builds + 1
    /\ thread' = [thread EXCEPT ![p] = [pc |-> "run", build |-> builds + 1]]
    /\ UNCHANGED <<pc, image, lock, progress, temps>>

(* The build is in a temp file of its own, and is to take the place of     *)
(* content.db.                                                             *)
WriteTemp(p) ==
    /\ thread[p].pc = "run"
    /\ temps' = temps \cup {thread[p].build}
    /\ thread' = [thread EXCEPT ![p].pc = "move"]
    /\ UNCHANGED <<pc, image, lock, progress, builds>>

(* The thread ends: the temp file was moved, or the build failed and       *)
(* removed it; either way it is gone.                                      *)
ThreadEnds(p) ==
    /\ thread[p].pc # "none"
    /\ temps' = temps \ {thread[p].build}
    /\ thread' = [thread EXCEPT ![p] = NoThread]
    /\ UNCHANGED <<pc, image, lock, progress, builds>>

-----------------------------------------------------------------------------
(* Shutdown. *)

Close(p) ==
    /\ pc[p] = "serve"
    /\ Goto(p, "closing")
    /\ UNCHANGED <<image, lock, progress, content>>

(* The build is over, or 30 seconds are. *)
Waited(p) ==
    /\ pc[p] = "closing"
    /\ Goto(p, "release")
    /\ UNCHANGED <<image, lock, progress, content>>

Release(p) ==
    /\ pc[p] = "release"
    /\ lock' = Nobody
    /\ Goto(p, "leaving")
    /\ UNCHANGED <<image, progress, content>>

(* The process ends once its threads have. *)
Exit(p) ==
    /\ pc[p] = "leaving" /\ thread[p] = NoThread
    /\ Goto(p, "off")
    /\ UNCHANGED <<image, lock, progress, content>>

(* The process is killed: the system frees the lock. *)
Kill(p) ==
    /\ pc[p] # "off"
    /\ Goto(p, "off")
    /\ lock' = IF lock = p THEN Nobody ELSE lock
    /\ thread' = [thread EXCEPT ![p] = NoThread]
    /\ UNCHANGED <<image, progress, temps, builds>>

Startup(p) ==
    \/ Inspect(p) \/ TakeBackup(p) \/ CreateTable(p) \/ RecordRevision(p) \/ Upgraded(p)
    \/ StartupFails(p) \/ Sweep(p) \/ Opened(p)

Next ==
    \E p \in Processes :
        \/ \E i \in Images : Start(p, i)
        \/ Startup(p)
        \/ Review(p) \/ StartBuild(p) \/ WriteTemp(p) \/ ThreadEnds(p)
        \/ Close(p) \/ Waited(p) \/ Release(p) \/ Exit(p) \/ Kill(p)

Spec == Init /\ [][Next]_vars

-----------------------------------------------------------------------------
(* Type correctness. *)
TypeOK ==
    /\ pc \in [Processes -> Starting \cup {"off", "serve", "closing", "release", "leaving"}]
    /\ image \in [Processes -> Images]
    /\ lock \in Processes \cup {Nobody}
    /\ db \in Database /\ backups \subseteq Database
    /\ done \in [Processes -> Nat]
    /\ thread \in [Processes -> Thread]
    /\ temps \subseteq 1 .. MaxBuilds
    /\ builds \in 0 .. MaxBuilds
    /\ spoiled \in 0 .. MaxReviews

(* A process that serves has all the tables of its release, and no other   *)
(* process is changing them: a migration that was cut off is never taken   *)
(* for a finished one.                                                     *)
ServedIsComplete ==
    \A p \in Processes :
        pc[p] \in {"sweep", "open", "serve"} =>
            /\ db.revision = image[p] /\ Tables(image[p]) \subseteq db.tables
            /\ \A q \in Processes : pc[q] # "upgrade"

(* A progress.db that is between two revisions has a backup that is not,   *)
(* and that holds every review it held when it came to be so, however many *)
(* processes have died or failed on it since.                              *)
HalfUpgradedHasBackup ==
    ~Consistent(db) =>
        spoiled = 0 \/ \E b \in backups : Consistent(b) /\ b.reviews = spoiled

(* Builds of two processes overlap, or lose their temp file to a sweep,    *)
(* only when a process stopped waiting for its own.                        *)
OnlyAbandonedBuildsMeet ==
    \A p \in Processes :
        /\ thread[p].pc = "move" /\ thread[p].build \notin temps => pc[p] = "leaving"
        /\ \A q \in Processes \ {p} :
              thread[p] # NoThread /\ thread[q] # NoThread => "leaving" \in {pc[p], pc[q]}

(* What remove_stale_temp_files asks of its caller, and the instance lock  *)
(* is there for: no sweep takes the file of a build that is running.       *)
BuildKeepsItsFile ==
    \A p \in Processes : thread[p].pc = "move" => thread[p].build \in temps
=============================================================================
