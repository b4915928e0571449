--------------------------- MODULE InstancesProofs ---------------------------
(***************************************************************************)
(* Proofs about Instances, for any number of server processes, reviews and *)
(* builds: one process at a time starts, serves and closes on the folder,  *)
(* it serves the schema of its release, and a migration that was cut off   *)
(* can be undone from a backup.                                            *)
(***************************************************************************)
EXTENDS Instances, TLAPS

-----------------------------------------------------------------------------
(* The inductive invariant. *)

(* Between flock and its release. *)
Holding == Starting \cup {"serve", "closing", "release"}

(* The lock is held by the one process that is between the two. *)
LockIsExact == \A p \in Processes : pc[p] \in Holding <=> lock = p

Newest == Len(Scripts)

(* The first k tables of the next revision are there, and k is not 0. *)
HalfUpgraded(k) ==
    /\ db.revision < Newest /\ k \in 1 .. Len(Script)
    /\ db.tables = Tables(db.revision) \cup {Script[j] : j \in 1 .. k}

SchemaShape ==
    /\ \/ Consistent(db)
       \/ db.revision < Newest /\ \E k \in 1 .. Len(Script) : HalfUpgraded(k)
    /\ ~db.file => Consistent(db) /\ db.revision = 0 /\ db.reviews = 0

BackedUp(n) == n = 0 \/ \E b \in backups : Consistent(b) /\ b.reviews = n

(* A migration on a whole schema has a backup of it, and one that created  *)
(* tables knows which, and that no review came since.                      *)
MigrationShape ==
    \A p \in Processes :
        /\ pc[p] \in {"inspect", "backup"} => done[p] = 0
        /\ pc[p] = "upgrade" =>
              /\ Consistent(db) => BackedUp(db.reviews)
              /\ done[p] > 0 => HalfUpgraded(done[p]) /\ db.reviews = spoiled

(* The schema of a process past the migration is that of its release. *)
SchemaIsServed ==
    \A p \in Processes :
        pc[p] \in {"sweep", "open", "serve"} =>
            db.revision = image[p] /\ Tables(image[p]) \subseteq db.tables

(* A build thread belongs to a process that served, and every build has a  *)
(* number of its own.                                                      *)
ThreadShape ==
    \A p \in Processes :
        /\ thread[p].pc = "none" => thread[p] = NoThread
        /\ thread[p].pc # "none" =>
              /\ pc[p] \in {"serve", "closing", "release", "leaving"}
              /\ thread[p].build \in 1 .. builds
        /\ \A q \in Processes \ {p} :
              thread[p].pc # "none" => thread[q].build # thread[p].build

(* Only a process that stopped waiting can miss its temp file. *)
TempShape ==
    \A p \in Processes :
        thread[p].pc = "move" /\ thread[p].build \notin temps => pc[p] = "leaving"

Schema == SchemaShape /\ MigrationShape /\ HalfUpgradedHasBackup /\ SchemaIsServed

IInv == TypeOK /\ LockIsExact /\ Schema /\ ThreadShape /\ TempShape

-----------------------------------------------------------------------------
(* The two revisions and their tables, spelled out. *)

LEMMA ScriptFacts ==
    /\ Newest = 2 /\ Revisions = 0 .. 2
    /\ Len(Scripts[1]) = 3 /\ Len(Scripts[2]) = 1
    /\ Scripts[1][1] = "card_state" /\ Scripts[1][2] = "review_log"
    /\ Scripts[1][3] = "app_setting" /\ Scripts[2][1] = "revoked_session"
    /\ \A i \in Images : i \in 1 .. 2
<1>1. DOMAIN Scripts = 1 .. 2
  BY DEF Scripts
<1>2. QED
  BY <1>1, InstanceAssumption DEF Newest, Revisions, Scripts

LEMMA TableFacts ==
    /\ Tables(0) = {}
    /\ Tables(1) = {"card_state", "review_log", "app_setting"}
    /\ Tables(2) = {"card_state", "review_log", "app_setting", "revoked_session"}
<1>1. DOMAIN Scripts[1] = 1 .. 3 /\ DOMAIN Scripts[2] = 1 .. 1
  BY DEF Scripts
<1>2. /\ {Scripts[1][j] : j \in 1 .. 3} = {"card_state", "review_log", "app_setting"}
      /\ {Scripts[2][j] : j \in 1 .. 1} = {"revoked_session"}
  BY ScriptFacts
<1>3. 1 .. 0 = {} /\ 1 .. 1 = {1} /\ 1 .. 2 = {1, 2}
  OBVIOUS
<1>4. Tables(0) = {}
  BY <1>3 DEF Tables
<1>5. Tables(1) = {"card_state", "review_log", "app_setting"}
  BY <1>1, <1>2, <1>3 DEF Tables
<1>6. Tables(2) = {"card_state", "review_log", "app_setting", "revoked_session"}
  BY <1>1, <1>2, <1>3 DEF Tables
<1>7. QED
  BY <1>4, <1>5, <1>6

-----------------------------------------------------------------------------
(* Type correctness. *)

LEMMA InitInv == ASSUME Init PROVE IInv
<1>1. /\ pc = [p \in Processes |-> "off"] /\ lock = Nobody
      /\ db = [file |-> FALSE, tables |-> {}, revision |-> 0, reviews |-> 0]
      /\ thread = [p \in Processes |-> NoThread] /\ builds = 0 /\ temps = {}
  BY DEF Init
<1>2. Consistent(db)
  BY <1>1, TableFacts DEF Consistent
<1>3. TypeOK
  <2>1. NoThread \in Thread
    BY InstanceAssumption DEF NoThread, Thread, NoBuild
  <2>2. db \in Database
    BY <1>1, ScriptFacts, InstanceAssumption DEF Database
  <2>3. QED
    BY <2>1, <2>2, InstanceAssumption DEF Init, TypeOK
<1>4. LockIsExact
  BY <1>1, InstanceAssumption DEF LockIsExact, Holding, Starting
<1>5. SchemaShape /\ MigrationShape /\ HalfUpgradedHasBackup /\ SchemaIsServed
  BY <1>1, <1>2 DEF SchemaShape, MigrationShape, HalfUpgradedHasBackup, SchemaIsServed
<1>6. ThreadShape /\ TempShape
  BY <1>1 DEF ThreadShape, TempShape, NoThread
<1>7. QED
  BY <1>3, <1>4, <1>5, <1>6 DEF IInv, Schema

(* The script of a process that is behind, and the next table of it. *)
LEMMA ScriptTypes ==
    ASSUME TypeOK, NEW p \in Processes, Behind(p)
    PROVE  /\ db.revision \in 0 .. 1 /\ db.revision + 1 \in Revisions
           /\ Len(Script) \in 1 .. 3
           /\ \A k \in 1 .. Len(Script) : Script[k] \in Tables(Newest)
<1>1. db.revision \in 0 .. 2 /\ image[p] \in 1 .. 2
  BY ScriptFacts DEF TypeOK, Database
<1>2. db.revision \in 0 .. 1
  BY <1>1 DEF Behind
<1>3. CASE db.revision = 0
  BY <1>3, ScriptFacts, TableFacts DEF Script
<1>4. CASE db.revision = 1
  BY <1>4, ScriptFacts, TableFacts DEF Script
<1>5. QED
  BY <1>2, <1>3, <1>4

LEMMA TypeStep == ASSUME TypeOK, ThreadShape, [Next]_vars PROVE TypeOK'
<1> USE DEF content, progress
<1>1. CASE UNCHANGED vars
  BY <1>1 DEF TypeOK, vars
<1>2. ASSUME NEW p \in Processes, NEW i \in Images, Start(p, i) PROVE TypeOK'
  BY <1>2 DEF TypeOK, Start, Acquire, Goto, Starting
<1>3. ASSUME NEW p \in Processes,
             Inspect(p) \/ Upgraded(p) \/ StartupFails(p) \/ Opened(p) \/ Close(p) \/ Waited(p)
               \/ Exit(p)
      PROVE  TypeOK'
  BY <1>3 DEF TypeOK, Inspect, Upgraded, StartupFails, Opened, Close, Waited, Exit, Goto, Starting
<1>4. ASSUME NEW p \in Processes, TakeBackup(p) PROVE TypeOK'
  BY <1>4 DEF TypeOK, TakeBackup, Kept, Goto, Starting
<1>5. ASSUME NEW p \in Processes, CreateTable(p) PROVE TypeOK'
  <2>1. done[p] + 1 \in 1 .. Len(Script)
    BY <1>5, ScriptTypes DEF TypeOK, CreateTable
  <2>2. Script[done[p] + 1] \in Tables(Len(Scripts))
    BY <1>5, <2>1, ScriptTypes DEF CreateTable, Newest
  <2>3. db' \in Database
    BY <1>5, <2>2 DEF TypeOK, CreateTable, Database
  <2>4. spoiled' \in 0 .. MaxReviews
    BY <1>5 DEF TypeOK, CreateTable, Database
  <2>5. QED
    BY <1>5, <2>3, <2>4 DEF TypeOK, CreateTable
<1>6. ASSUME NEW p \in Processes, RecordRevision(p) PROVE TypeOK'
  <2>1. db' \in Database
    BY <1>6, ScriptTypes DEF TypeOK, RecordRevision, Database
  <2>2. QED
    BY <1>6, <2>1 DEF TypeOK, RecordRevision
<1>7. ASSUME NEW p \in Processes, Sweep(p) PROVE TypeOK'
  BY <1>7 DEF TypeOK, Sweep, Goto, Starting
<1>8. ASSUME NEW p \in Processes, Review(p) PROVE TypeOK'
  <2>1. db \in Database /\ db.reviews + 1 \in 0 .. MaxReviews
    BY <1>8, InstanceAssumption DEF TypeOK, Review, Database
  <2>2. db' \in Database
    BY <1>8, <2>1 DEF Review, Database
  <2>3. QED
    BY <1>8, <2>2 DEF TypeOK, Review
<1>9. ASSUME NEW p \in Processes, StartBuild(p) PROVE TypeOK'
  <2>1. builds + 1 \in 0 .. MaxBuilds
    BY <1>9, InstanceAssumption DEF TypeOK, StartBuild
  <2>2. [pc |-> "run", build |-> builds + 1] \in Thread
    BY <2>1 DEF Thread
  <2>3. QED
    BY <1>9, <2>1, <2>2 DEF TypeOK, StartBuild
<1>10. ASSUME NEW p \in Processes, WriteTemp(p) PROVE TypeOK'
  <2>1. thread[p] \in Thread /\ thread[p].build \in 1 .. MaxBuilds
    BY <1>10, InstanceAssumption DEF TypeOK, WriteTemp, ThreadShape, Thread
  <2>2. [thread[p] EXCEPT !.pc = "move"] \in Thread
    BY <2>1 DEF Thread
  <2>3. thread' = [thread EXCEPT ![p] = [thread[p] EXCEPT !.pc = "move"]]
    BY <1>10 DEF WriteTemp
  <2>4. QED
    BY <1>10, <2>1, <2>2, <2>3 DEF TypeOK, WriteTemp
<1>11. ASSUME NEW p \in Processes, ThreadEnds(p) \/ Release(p) \/ Kill(p) PROVE TypeOK'
  <2>1. NoThread \in Thread
    BY InstanceAssumption DEF NoThread, Thread, NoBuild
  <2>2. QED
    BY <1>11, <2>1 DEF TypeOK, ThreadEnds, Release, Kill, Goto
<1>12. QED
  BY <1>1, <1>2, <1>3, <1>4, <1>5, <1>6, <1>7, <1>8, <1>9, <1>10, <1>11 DEF Next, Startup

-----------------------------------------------------------------------------
(* The lock *)

(* Two processes do not hold the lock. *)
LEMMA HeldByOne ==
    ASSUME LockIsExact, NEW p \in Processes, NEW q \in Processes,
           pc[p] \in Holding, pc[q] \in Holding
    PROVE  p = q
BY DEF LockIsExact

LEMMA LockStep == ASSUME TypeOK, LockIsExact, [Next]_vars PROVE LockIsExact'
<1> USE InstanceAssumption DEF LockIsExact, Holding, Starting, Goto, TypeOK
<1>1. CASE UNCHANGED vars
  BY <1>1 DEF vars
<1>2. ASSUME NEW p \in Processes, NEW i \in Images, Start(p, i) PROVE LockIsExact'
  BY <1>2 DEF Start, Acquire
<1>3. ASSUME NEW p \in Processes, Startup(p) PROVE LockIsExact'
  BY <1>3 DEF Startup, Inspect, TakeBackup, CreateTable, Behind, RecordRevision, Upgraded,
     StartupFails, Sweep, Opened
<1>4. ASSUME NEW p \in Processes,
             Review(p) \/ StartBuild(p) \/ WriteTemp(p) \/ ThreadEnds(p)
      PROVE  LockIsExact'
  BY <1>4 DEF Review, StartBuild, WriteTemp, ThreadEnds
<1>5. ASSUME NEW p \in Processes, Close(p) \/ Waited(p) PROVE LockIsExact'
  BY <1>5 DEF Close, Waited
<1>6. ASSUME NEW p \in Processes, Release(p) \/ Exit(p) \/ Kill(p) PROVE LockIsExact'
  BY <1>6 DEF Release, Exit, Kill
<1>7. QED
  BY <1>1, <1>2, <1>3, <1>4, <1>5, <1>6 DEF Next

-----------------------------------------------------------------------------
(* The build threads and their temp files *)

LEMMA ThreadStep ==
    ASSUME TypeOK, LockIsExact, ThreadShape, TempShape, [Next]_vars
    PROVE  ThreadShape' /\ TempShape'
<1> USE DEF Goto, TypeOK, content
<1>0. \A p \in Processes : thread[p] \in Thread
  OBVIOUS
<1>1. CASE UNCHANGED vars
  BY <1>1 DEF vars, ThreadShape, TempShape
<1>2. ASSUME NEW p \in Processes, NEW i \in Images, Start(p, i) PROVE ThreadShape' /\ TempShape'
  BY <1>2 DEF Start, Acquire, ThreadShape, TempShape
<1>3. ASSUME NEW p \in Processes,
             Inspect(p) \/ TakeBackup(p) \/ CreateTable(p) \/ RecordRevision(p) \/ Upgraded(p)
               \/ StartupFails(p) \/ Opened(p)
      PROVE  ThreadShape' /\ TempShape'
  <2>1. pc[p] \in Starting /\ thread[p].pc = "none"
    BY <1>3 DEF ThreadShape, Starting, Inspect, TakeBackup, CreateTable, Behind, RecordRevision,
       Upgraded, StartupFails, Opened
  <2>2. thread' = thread /\ temps' = temps /\ builds' = builds
    BY <1>3 DEF Inspect, TakeBackup, CreateTable, RecordRevision, Upgraded, StartupFails, Opened
  <2>3. \A q \in Processes \ {p} : pc'[q] = pc[q]
    BY <1>3 DEF Inspect, TakeBackup, CreateTable, RecordRevision, Upgraded, StartupFails, Opened
  <2>4. QED
    BY <2>1, <2>2, <2>3 DEF ThreadShape, TempShape
<1>4. ASSUME NEW p \in Processes, Sweep(p) PROVE ThreadShape' /\ TempShape'
  <2>1. thread[p].pc = "none"
    BY <1>4 DEF Sweep, ThreadShape
  <2>2. ASSUME NEW q \in Processes, thread[q].pc = "move" PROVE pc[q] = "leaving"
    <3>1. q # p /\ pc[q] \in {"serve", "closing", "release", "leaving"}
      BY <2>1, <2>2 DEF ThreadShape
    <3>2. pc[p] \in Holding
      BY <1>4 DEF Sweep, Holding, Starting
    <3>3. QED
      BY <3>1, <3>2, HeldByOne DEF Holding
  <2>3. ThreadShape'
    BY <1>4, <2>1 DEF Sweep, ThreadShape
  <2>4. TempShape'
    BY <1>4, <2>1, <2>2 DEF Sweep, TempShape
  <2>5. QED
    BY <2>3, <2>4
<1>5. ASSUME NEW p \in Processes, Review(p) PROVE ThreadShape' /\ TempShape'
  BY <1>5 DEF Review, ThreadShape, TempShape
<1>6. ASSUME NEW p \in Processes, StartBuild(p) PROVE ThreadShape' /\ TempShape'
  <2>1. /\ thread' = [thread EXCEPT ![p] = [pc |-> "run", build |-> builds + 1]]
        /\ builds' = builds + 1 /\ temps' = temps /\ pc' = pc /\ pc[p] = "serve"
        /\ builds \in Nat
    BY <1>6, InstanceAssumption DEF StartBuild
  <2>2. \A q \in Processes : thread[q].build \in 0 .. builds
    BY <2>1 DEF ThreadShape, NoThread, NoBuild
  <2>3. ThreadShape'
    BY <2>1, <2>2 DEF ThreadShape, NoThread
  <2>4. TempShape'
    BY <2>1 DEF TempShape
  <2>5. QED
    BY <2>3, <2>4
<1>7. ASSUME NEW p \in Processes, WriteTemp(p) PROVE ThreadShape' /\ TempShape'
  <2>1. /\ \A q \in Processes : thread'[q].build = thread[q].build
        /\ \A q \in Processes \ {p} : thread'[q] = thread[q]
        /\ thread'[p].pc = "move" /\ thread[p].pc = "run"
        /\ temps' = temps \cup {thread[p].build} /\ pc' = pc /\ builds' = builds
    BY <1>7, <1>0 DEF WriteTemp, Thread
  <2>2. ThreadShape'
    BY <2>1 DEF ThreadShape
  <2>3. TempShape'
    BY <2>1 DEF TempShape
  <2>4. QED
    BY <2>2, <2>3
<1>8. ASSUME NEW p \in Processes, ThreadEnds(p) PROVE ThreadShape' /\ TempShape'
  <2>1. /\ thread' = [thread EXCEPT ![p] = NoThread] /\ thread[p].pc # "none"
        /\ temps' = temps \ {thread[p].build} /\ pc' = pc /\ builds' = builds
    BY <1>8 DEF ThreadEnds
  <2>2. ThreadShape'
    <3>1. \A q \in Processes : thread[q].pc # "none" => thread[q].build # NoBuild
      BY InstanceAssumption DEF ThreadShape, NoBuild
    <3>2. QED
      BY <2>1, <3>1 DEF ThreadShape, NoThread
  <2>3. TempShape'
    BY <2>1 DEF TempShape, ThreadShape, NoThread
  <2>4. QED
    BY <2>2, <2>3
<1>9. ASSUME NEW p \in Processes, Close(p) \/ Waited(p) \/ Release(p) \/ Exit(p)
      PROVE  ThreadShape' /\ TempShape'
  <2>1. thread' = thread /\ temps' = temps /\ builds' = builds
    BY <1>9 DEF Close, Waited, Release, Exit
  <2>2. /\ \A q \in Processes \ {p} : pc'[q] = pc[q]
        /\ \/ pc'[p] \in {"closing", "release", "leaving"} /\ pc[p] # "leaving"
           \/ thread[p] = NoThread
    BY <1>9 DEF Close, Waited, Release, Exit
  <2>3. ThreadShape'
    BY <2>1, <2>2 DEF ThreadShape, NoThread
  <2>4. TempShape'
    BY <2>1, <2>2 DEF TempShape, NoThread
  <2>5. QED
    BY <2>3, <2>4
<1>10. ASSUME NEW p \in Processes, Kill(p) PROVE ThreadShape' /\ TempShape'
  <2>1. /\ thread' = [thread EXCEPT ![p] = NoThread]
        /\ temps' = temps /\ builds' = builds
        /\ \A q \in Processes \ {p} : pc'[q] = pc[q]
    BY <1>10 DEF Kill
  <2>2. ThreadShape'
    <3>1. \A q \in Processes : thread[q].pc # "none" => thread[q].build # NoBuild
      BY InstanceAssumption DEF ThreadShape, NoBuild
    <3>2. QED
      BY <2>1, <3>1 DEF ThreadShape, NoThread
  <2>3. TempShape'
    BY <2>1 DEF TempShape, NoThread
  <2>4. QED
    BY <2>2, <2>3
<1>11. QED
  BY <1>1, <1>2, <1>3, <1>4, <1>5, <1>6, <1>7, <1>8, <1>9, <1>10 DEF Next, Startup

-----------------------------------------------------------------------------
(* The schema and its backups *)

(* Half an upgrade has the first table of the next revision, which is not  *)
(* one of the revision the file names.                                     *)
LEMMA HalfFacts ==
    ASSUME TypeOK, NEW k, HalfUpgraded(k)
    PROVE  /\ db.revision \in 0 .. 1 /\ k \in 1 .. Len(Script) /\ Len(Script) \in 1 .. 3
           /\ Script[1] \in db.tables /\ ~Consistent(db)
           /\ Tables(db.revision) \subseteq db.tables
           /\ k = Len(Script) => db.tables = Tables(db.revision + 1)
<1>1. db.revision \in 0 .. 1
  BY ScriptFacts DEF HalfUpgraded, TypeOK, Database
<1>2. CASE db.revision = 0
  <2>1. /\ Script[1] = "card_state" /\ Script[2] = "review_log" /\ Script[3] = "app_setting"
        /\ Len(Script) = 3
    BY <1>2, ScriptFacts DEF Script
  <2>2. {Script[j] : j \in 1 .. 3} = {"card_state", "review_log", "app_setting"}
    BY <2>1
  <2>3. QED
    BY <1>2, <2>1, <2>2, TableFacts DEF HalfUpgraded, Consistent
<1>3. CASE db.revision = 1
  <2>1. Script[1] = "revoked_session" /\ Len(Script) = 1
    BY <1>3, ScriptFacts DEF Script
  <2>2. {Script[j] : j \in 1 .. 1} = {"revoked_session"}
    BY <2>1
  <2>3. QED
    BY <1>3, <2>1, <2>2, TableFacts DEF HalfUpgraded, Consistent
<1>4. QED
  BY <1>1, <1>2, <1>3

(* A step that leaves the file and the backups alone: what it may not do   *)
(* is enter the migration or the service.                                  *)
LEMMA SchemaKept ==
    ASSUME TypeOK, Schema, UNCHANGED progress,
           \A p \in Processes :
               /\ pc'[p] \in {"inspect", "backup", "upgrade"} =>
                      \/ pc[p] = pc'[p]
                      \/ pc[p] = "inspect" /\ pc'[p] = "backup"
               /\ pc'[p] \in {"sweep", "open", "serve"} =>
                      pc[p] \in {"sweep", "open", "serve"} /\ image'[p] = image[p]
    PROVE  Schema'
BY DEF Schema, SchemaShape, MigrationShape, HalfUpgradedHasBackup, SchemaIsServed, Consistent,
   HalfUpgraded, BackedUp, Script, progress

LEMMA ShapeKept ==
    ASSUME SchemaShape, db'.tables = db.tables, db'.revision = db.revision,
           db'.reviews = db.reviews, db'.file = db.file
    PROVE  SchemaShape'
<1>1. Script' = Script
  BY DEF Script
<1>2. ASSUME NEW k PROVE HalfUpgraded(k)' <=> HalfUpgraded(k)
  BY <1>1 DEF HalfUpgraded
<1>3. QED
  BY <1>1, <1>2 DEF SchemaShape, Consistent

LEMMA SchemaCreateTable ==
    ASSUME TypeOK, LockIsExact, Schema, NEW p \in Processes, CreateTable(p)
    PROVE  Schema'
<1> USE DEF TypeOK
<1>1. /\ Behind(p) /\ done[p] \in Nat /\ done[p] < Len(Script)
      /\ Script[done[p] + 1] \notin db.tables
      /\ db' = [db EXCEPT !.file = TRUE, !.tables = @ \cup {Script[done[p] + 1]}]
      /\ done' = [done EXCEPT ![p] = @ + 1]
      /\ spoiled' = IF Consistent(db) THEN db.reviews ELSE spoiled
      /\ pc' = pc /\ image' = image /\ backups' = backups /\ pc[p] = "upgrade"
  BY DEF CreateTable, Behind
<1>2. /\ db'.file = TRUE /\ db'.tables = db.tables \cup {Script[done[p] + 1]}
      /\ db'.revision = db.revision /\ db'.reviews = db.reviews /\ Script' = Script
      /\ done'[p] = done[p] + 1
  BY <1>1 DEF Database, Script
<1>3. \A q \in Processes : pc[q] \in Holding => q = p
  BY <1>1, HeldByOne DEF Holding, Starting
<1>4. db.revision \in 0 .. 1 /\ Len(Script) \in 1 .. 3
  BY <1>1, ScriptTypes
<1>5. HalfUpgraded(done[p])' /\ spoiled' = db'.reviews
      /\ BackedUp(spoiled)'
  <2>1. CASE done[p] = 0
    <3>1. Consistent(db)
      <4>1. ASSUME NEW k \in 1 .. Len(Script), HalfUpgraded(k) PROVE FALSE
        BY <1>1, <2>1, <4>1, HalfFacts
      <4>2. QED
        BY <4>1 DEF Schema, SchemaShape
    <3>2. {Script[j] : j \in 1 .. 1} = {Script[1]}
      OBVIOUS
    <3>3. HalfUpgraded(1)'
      BY <1>1, <1>2, <1>4, <2>1, <3>1, <3>2, ScriptFacts DEF HalfUpgraded, Consistent
    <3>4. BackedUp(db.reviews)
      BY <1>1, <3>1 DEF Schema, MigrationShape
    <3>5. QED
      BY <1>1, <1>2, <2>1, <3>1, <3>3, <3>4 DEF BackedUp, Consistent
  <2>2. CASE done[p] > 0
    <3>1. HalfUpgraded(done[p]) /\ db.reviews = spoiled
      BY <1>1, <2>2 DEF Schema, MigrationShape
    <3>2. ~Consistent(db)
      BY <3>1, HalfFacts
    <3>3. 1 .. done[p] + 1 = (1 .. done[p]) \cup {done[p] + 1}
      BY <1>1
    <3>4. {Script[j] : j \in 1 .. done[p] + 1}
            = {Script[j] : j \in 1 .. done[p]} \cup {Script[done[p] + 1]}
      BY <3>3
    <3>5. HalfUpgraded(done[p])'
      BY <1>1, <1>2, <1>4, <3>1, <3>4 DEF HalfUpgraded
    <3>6. BackedUp(spoiled)
      BY <3>2 DEF Schema, HalfUpgradedHasBackup, BackedUp
    <3>7. QED
      BY <1>1, <1>2, <3>1, <3>2, <3>5, <3>6 DEF BackedUp, Consistent
  <2>3. QED
    BY <1>1, <2>1, <2>2
<1>6. SchemaShape'
  <2>1. done[p] + 1 \in 1 .. Len(Script)'
    BY <1>1, <1>2, <1>4
  <2>2. QED
    BY <1>2, <1>5, <2>1 DEF SchemaShape, HalfUpgraded
<1>7. MigrationShape'
  <2>1. ~Consistent(db)'
    <3>1. Script[1] \in db'.tables
      <4>1. 1 \in 1 .. done[p] + 1
        BY <1>1
      <4>2. db'.tables = Tables(db.revision) \cup {Script[j] : j \in 1 .. done[p] + 1}
        BY <1>2, <1>5 DEF HalfUpgraded
      <4>3. QED
        BY <4>1, <4>2
    <3>2. Script[1] \notin Tables(db.revision)
      <4>1. CASE db.revision = 0
        BY <4>1, ScriptFacts, TableFacts DEF Script
      <4>2. CASE db.revision = 1
        BY <4>2, ScriptFacts, TableFacts DEF Script
      <4>3. QED
        BY <1>4, <4>1, <4>2
    <3>3. QED
      BY <1>2, <3>1, <3>2 DEF Consistent
  <2>2. QED
    BY <1>1, <1>3, <1>5, <2>1 DEF MigrationShape, Holding, Starting
<1>8. HalfUpgradedHasBackup'
  BY <1>5 DEF HalfUpgradedHasBackup, BackedUp
<1>9. SchemaIsServed'
  BY <1>1, <1>3 DEF SchemaIsServed, Holding, Starting
<1>10. QED
  BY <1>6, <1>7, <1>8, <1>9 DEF Schema

LEMMA SchemaRecordRevision ==
    ASSUME TypeOK, LockIsExact, Schema, NEW p \in Processes, RecordRevision(p)
    PROVE  Schema'
<1> USE DEF TypeOK
<1>1. /\ Behind(p) /\ done[p] = Len(Script) /\ pc[p] = "upgrade"
      /\ db' = [db EXCEPT !.revision = @ + 1]
      /\ pc' = pc /\ image' = image /\ backups' = backups /\ done'[p] = 0
  BY DEF RecordRevision, Created, Behind
<1>2. /\ db'.file = db.file /\ db'.tables = db.tables
      /\ db'.revision = db.revision + 1 /\ db'.reviews = db.reviews
  BY <1>1 DEF Database
<1>3. \A q \in Processes : pc[q] \in Holding => q = p
  BY <1>1, HeldByOne DEF Holding, Starting
<1>4. HalfUpgraded(done[p]) /\ db.reviews = spoiled
  <2>1. Len(Script) \in 1 .. 3
    BY <1>1, ScriptTypes
  <2>2. QED
    BY <1>1, <2>1 DEF Schema, MigrationShape
<1>5. ~Consistent(db) /\ db.tables = Tables(db.revision + 1)
  BY <1>1, <1>4, HalfFacts
<1>6. Consistent(db)' /\ db'.file
  BY <1>2, <1>5 DEF Consistent, Schema, SchemaShape, Database
<1>7. BackedUp(db.reviews)'
  BY <1>1, <1>2, <1>4, <1>5 DEF Schema, HalfUpgradedHasBackup, BackedUp, Consistent
<1>8. SchemaShape' /\ HalfUpgradedHasBackup'
  BY <1>6 DEF SchemaShape, HalfUpgradedHasBackup
<1>9. MigrationShape'
  BY <1>1, <1>3, <1>7 DEF MigrationShape, Holding, Starting
<1>10. SchemaIsServed'
  BY <1>1, <1>3 DEF SchemaIsServed, Holding, Starting
<1>11. QED
  BY <1>8, <1>9, <1>10 DEF Schema

(* A process enters the migration: it has a backup of the file, or there   *)
(* is no file.                                                             *)
LEMMA SchemaEnter ==
    ASSUME TypeOK, LockIsExact, Schema, NEW p \in Processes,
           pc' = [pc EXCEPT ![p] = "upgrade"], backups \subseteq backups',
           pc[p] \in {"inspect", "backup"}, UNCHANGED <<image, db, done, spoiled>>,
           db \in backups' \/ ~db.file
    PROVE  Schema'
<1> USE DEF TypeOK
<1>1. \A q \in Processes : pc[q] \in Holding => q = p
  BY HeldByOne DEF Holding, Starting
<1>2. BackedUp(db.reviews)' \/ ~Consistent(db)
  BY DEF BackedUp, Schema, SchemaShape, Consistent
<1>3. SchemaShape'
  BY ShapeKept DEF Schema
<1>4. HalfUpgradedHasBackup'
  BY DEF Schema, HalfUpgradedHasBackup, Consistent
<1>5. MigrationShape'
  BY <1>1, <1>2 DEF Schema, MigrationShape, Holding, Starting, Consistent
<1>6. SchemaIsServed'
  BY <1>1 DEF SchemaIsServed, Holding, Starting
<1>7. QED
  BY <1>3, <1>4, <1>5, <1>6 DEF Schema

(* A process enters the service: its revision is the file's.               *)
LEMMA SchemaServe ==
    ASSUME TypeOK, Schema, NEW p \in Processes,
           pc' = [pc EXCEPT ![p] = "sweep"], UNCHANGED <<image, progress>>,
           db.revision = image[p]
    PROVE  Schema'
<1> USE DEF TypeOK
<1>1. Tables(db.revision) \subseteq db.tables
  <2>1. CASE Consistent(db)
    BY <2>1 DEF Consistent
  <2>2. ASSUME NEW k, HalfUpgraded(k) PROVE Tables(db.revision) \subseteq db.tables
    BY <2>2, HalfFacts
  <2>3. QED
    BY <2>1, <2>2 DEF Schema, SchemaShape
<1>2. SchemaShape' /\ MigrationShape' /\ HalfUpgradedHasBackup'
  <2>1. SchemaShape'
    BY ShapeKept DEF Schema, progress
  <2>2. MigrationShape' /\ HalfUpgradedHasBackup'
    BY DEF Schema, MigrationShape, HalfUpgradedHasBackup, Consistent, HalfUpgraded, BackedUp,
       Script, progress
  <2>3. QED
    BY <2>1, <2>2
<1>3. SchemaIsServed'
  BY <1>1 DEF Schema, SchemaIsServed, progress
<1>4. QED
  BY <1>2, <1>3 DEF Schema

(* Reviews come to a server, while nobody migrates. *)
LEMMA SchemaReview ==
    ASSUME TypeOK, LockIsExact, Schema, NEW p \in Processes, Review(p)
    PROVE  Schema'
<1> USE DEF TypeOK
<1>1. /\ pc[p] = "serve" /\ pc' = pc /\ image' = image /\ backups' = backups
      /\ spoiled' = spoiled /\ done' = done /\ db.tables # {}
      /\ db' = [db EXCEPT !.reviews = @ + 1]
  BY DEF Review
<1>2. /\ db'.file = db.file /\ db'.tables = db.tables /\ db'.revision = db.revision
      /\ Script' = Script
  BY <1>1 DEF Database, Script
<1>3. \A q \in Processes : pc[q] # "upgrade"
  BY <1>1, HeldByOne DEF Holding, Starting
<1>4. db.file
  BY <1>1, TableFacts DEF Schema, SchemaShape, Consistent, Database
<1>5. SchemaShape'
  <2>1. Consistent(db) => Consistent(db)'
    BY <1>2 DEF Consistent
  <2>2. \A k \in 1 .. Len(Script) : HalfUpgraded(k) => HalfUpgraded(k)'
    BY <1>2 DEF HalfUpgraded
  <2>3. db'.revision = db.revision /\ 1 .. Len(Script') = 1 .. Len(Script) /\ db'.file
    BY <1>2, <1>4
  <2>4. \/ Consistent(db)
        \/ db.revision < Newest /\ \E k \in 1 .. Len(Script) : HalfUpgraded(k)
    BY DEF Schema, SchemaShape
  <2>5. CASE Consistent(db)
    BY <2>1, <2>3, <2>5 DEF SchemaShape
  <2>6. CASE ~Consistent(db)
    <3>1. PICK k \in 1 .. Len(Script) : db.revision < Newest /\ HalfUpgraded(k)
      BY <2>4, <2>6
    <3>2. HalfUpgraded(k)' /\ k \in 1 .. Len(Script') /\ db'.revision < Newest
      BY <2>2, <2>3, <3>1
    <3>3. QED
      BY <2>3, <3>2 DEF SchemaShape
  <2>7. QED
    BY <2>5, <2>6
<1>6. HalfUpgradedHasBackup'
  BY <1>1, <1>2 DEF Schema, HalfUpgradedHasBackup, Consistent
<1>7. MigrationShape' /\ SchemaIsServed'
  BY <1>1, <1>2, <1>3 DEF Schema, MigrationShape, SchemaIsServed
<1>8. QED
  BY <1>5, <1>6, <1>7 DEF Schema

LEMMA SchemaStep ==
    ASSUME TypeOK, LockIsExact, Schema, [Next]_vars
    PROVE  Schema'
<1> USE DEF Goto
<1>1. CASE UNCHANGED vars
  BY <1>1, SchemaKept DEF vars, progress
<1>2. ASSUME NEW p \in Processes, NEW i \in Images, Start(p, i) PROVE Schema'
  <2>1. /\ pc' = [pc EXCEPT ![p] = "inspect"] /\ image' = [image EXCEPT ![p] = i]
        /\ done' = [done EXCEPT ![p] = 0]
        /\ db' = db /\ backups' = backups /\ spoiled' = spoiled
    BY <1>2 DEF Start
  <2>2. SchemaShape'
    BY <2>1, ShapeKept DEF Schema
  <2>3. \A q \in Processes \ {p} : pc'[q] = pc[q] /\ image'[q] = image[q] /\ done'[q] = done[q]
    BY <2>1 DEF TypeOK
  <2>4. pc'[p] = "inspect" /\ done'[p] = 0
    BY <2>1 DEF TypeOK
  <2>5. MigrationShape'
    BY <2>1, <2>3, <2>4 DEF Schema, MigrationShape, Consistent, HalfUpgraded, BackedUp, Script
  <2>6. HalfUpgradedHasBackup' /\ SchemaIsServed'
    BY <2>1, <2>3, <2>4 DEF Schema, HalfUpgradedHasBackup, SchemaIsServed, Consistent
  <2>7. QED
    BY <2>2, <2>5, <2>6 DEF Schema
<1>3. ASSUME NEW p \in Processes, Inspect(p) PROVE Schema'
  <2>1. CASE ~db.file
    BY <1>3, <2>1, SchemaEnter DEF Inspect, progress
  <2>2. CASE db.file /\ db.revision = image[p]
    BY <1>3, <2>2, SchemaServe DEF Inspect
  <2>3. CASE db.file /\ db.revision # image[p]
    <3>1. pc[p] = "inspect" /\ pc' = [pc EXCEPT ![p] = "backup"] /\ UNCHANGED <<image, progress>>
      BY <1>3, <2>3 DEF Inspect
    <3>2. QED
      BY <3>1, SchemaKept DEF TypeOK
  <2>4. QED
    BY <2>1, <2>2, <2>3
<1>4. ASSUME NEW p \in Processes, TakeBackup(p) PROVE Schema'
  BY <1>4, SchemaEnter DEF TakeBackup, Kept
<1>5. ASSUME NEW p \in Processes, CreateTable(p) \/ RecordRevision(p) \/ Review(p) PROVE Schema'
  BY <1>5, SchemaCreateTable, SchemaRecordRevision, SchemaReview
<1>6. ASSUME NEW p \in Processes, Upgraded(p) PROVE Schema'
  BY <1>6, SchemaServe DEF Upgraded
<1>7. ASSUME NEW p \in Processes,
             StartupFails(p) \/ Sweep(p) \/ Opened(p) \/ StartBuild(p) \/ WriteTemp(p)
               \/ ThreadEnds(p) \/ Close(p) \/ Waited(p) \/ Release(p) \/ Exit(p) \/ Kill(p)
      PROVE  Schema'
  <2>1. UNCHANGED <<image, progress>>
    BY <1>7 DEF StartupFails, Sweep, Opened, StartBuild, WriteTemp, ThreadEnds, Close, Waited,
       Release, Exit, Kill
  <2>2. \/ pc' = pc
        \/ pc[p] = "sweep" /\ pc' = [pc EXCEPT ![p] = "open"]
        \/ pc[p] = "open" /\ pc' = [pc EXCEPT ![p] = "serve"]
        \/ \E l \in {"off", "closing", "release", "leaving"} : pc' = [pc EXCEPT ![p] = l]
    BY <1>7 DEF StartupFails, Sweep, Opened, StartBuild, WriteTemp, ThreadEnds, Close, Waited,
       Release, Exit, Kill
  <2>3. QED
    BY <2>1, <2>2, SchemaKept DEF TypeOK
<1>8. QED
  BY <1>1, <1>2, <1>3, <1>4, <1>5, <1>6, <1>7 DEF Next, Startup

-----------------------------------------------------------------------------
(* The invariant holds, and what the runs check follows from it. *)

LEMMA InvStep == ASSUME IInv, [Next]_vars PROVE IInv'
BY TypeStep, LockStep, SchemaStep, ThreadStep DEF IInv

(* Processes, the lock, the tables, the backups and the builds agree with  *)
(* each other at every moment (api/services.py, db/migrate.py).            *)
THEOREM Invariance == Spec => []IInv
<1>1. Init => IInv
  BY InitInv
<1>2. IInv /\ [Next]_vars => IInv'
  BY InvStep
<1>3. QED
  BY <1>1, <1>2, PTL DEF Spec

(* The state of the folder and of its processes has its type. *)
THEOREM TypeCorrect == Spec => []TypeOK
<1>1. IInv => TypeOK
  BY DEF IInv
<1>2. QED
  BY <1>1, Invariance, PTL

(* Of all the processes that were started on a folder, one at a time is    *)
(* between taking the instance lock and giving it up                       *)
(* (db/instance_lock.py).                                                  *)
THEOREM OneHolder ==
    Spec => [](\A p, q \in Processes : pc[p] \in Holding /\ pc[q] \in Holding => p = q)
<1>1. IInv => \A p, q \in Processes : pc[p] \in Holding /\ pc[q] \in Holding => p = q
  BY HeldByOne DEF IInv
<1>2. QED
  BY <1>1, Invariance, PTL

(* A server has the tables of its release and nobody migrates under it,    *)
(* wherever earlier migrations were cut off (db/migrate.py).               *)
THEOREM ServedCompletely == Spec => []ServedIsComplete
<1>1. IInv => ServedIsComplete
  <2>1. SUFFICES ASSUME IInv, NEW p \in Processes, pc[p] \in {"sweep", "open", "serve"}
                 PROVE  /\ db.revision = image[p] /\ Tables(image[p]) \subseteq db.tables
                        /\ \A q \in Processes : pc[q] # "upgrade"
    BY DEF ServedIsComplete
  <2>2. db.revision = image[p] /\ Tables(image[p]) \subseteq db.tables
    BY <2>1 DEF IInv, Schema, SchemaIsServed
  <2>3. \A q \in Processes : pc[q] # "upgrade"
    BY <2>1, HeldByOne DEF IInv, Holding, Starting
  <2>4. QED
    BY <2>2, <2>3
<1>2. QED
  BY <1>1, Invariance, PTL

(* A progress.db between two revisions can be put back without losing a    *)
(* review of the time it came to be so (db/migrate.py).                    *)
THEOREM HalfUpgradeCanBeUndone == Spec => []HalfUpgradedHasBackup
<1>1. IInv => HalfUpgradedHasBackup
  BY DEF IInv, Schema
<1>2. QED
  BY <1>1, Invariance, PTL

(* Builds overlap, or lose their temp file, only when a process gave up    *)
(* waiting for its own (api/services.py, content_repository.py).           *)
THEOREM BuildsMeetOnlyAbandoned == Spec => []OnlyAbandonedBuildsMeet
<1>1. IInv => OnlyAbandonedBuildsMeet
  <2>1. SUFFICES ASSUME IInv, NEW p \in Processes, NEW q \in Processes \ {p},
                        thread[p] # NoThread, thread[q] # NoThread
                 PROVE  "leaving" \in {pc[p], pc[q]}
    BY DEF OnlyAbandonedBuildsMeet, IInv, TempShape
  <2>2. /\ pc[p] \in {"serve", "closing", "release", "leaving"}
        /\ pc[q] \in {"serve", "closing", "release", "leaving"}
    BY <2>1 DEF IInv, ThreadShape
  <2>3. ~(pc[p] \in Holding /\ pc[q] \in Holding)
    BY <2>1, HeldByOne DEF IInv
  <2>4. QED
    BY <2>2, <2>3 DEF Holding
<1>2. QED
  BY <1>1, Invariance, PTL
=============================================================================
