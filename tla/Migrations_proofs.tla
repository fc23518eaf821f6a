-------------------------- MODULE Migrations_proofs --------------------------
(***************************************************************************)
(* What holds of the server's boot and the operator's command on one set   *)
(* of databases, for any number of files, databases, crashes and runs.     *)
(***************************************************************************)
EXTENDS Migrations, FiniteSetTheorems, TLAPS

USE MigrationsAssumption

-----------------------------------------------------------------------------
(* The inductive invariant                                                  *)

Phases == {"down", "opened", "applying", "writing", "seeding", "provisioning", "serving"}
Target == Path \cup {None}

RunSet == [phase : Phases, path : Target, listed : 0..MaxFile, todo : SUBSET (1..MaxFile)]

OperatorSet ==
    [runs : 0..MaxRuns, flag : Target, backup : Seq(0..MaxFile), copied : BOOLEAN,
     applied : Seq(0..MaxFile), target : Target, listed : 0..MaxFile,
     outcome : {"none", "applied", "failed"}]

FilesTyped ==
    /\ files \in [deployed : 1..MaxFile, broken : SUBSET (1..MaxFile)]
    /\ files.broken \subseteq 1..files.deployed

\* What was executed on a database: nothing twice, files in their order and
\* without a gap, and all of it recorded.
Sound(db) ==
    /\ db \in Database
    /\ ToSet(db.log) = db.recorded
    /\ IsInjective(db.log)
    /\ \A i, j \in DOMAIN db.log :
          i < j /\ Seeding \notin {db.log[i], db.log[j]} => db.log[i] < db.log[j]
    /\ \A f \in db.recorded : f # Seeding => 1..f \subseteq db.recorded

\* How far a run r has come with its database db.
Reached(r, db) ==
    /\ r.todo \subseteq 1..r.listed
    /\ 1..r.listed \subseteq r.todo \cup db.recorded
    /\ r.phase = "writing" => r.todo # {}
    /\ r.phase \in {"seeding", "provisioning", "serving"} => r.todo = {}
    /\ r.phase \in {"provisioning", "serving"} => Seeding \in db.recorded
    /\ r.phase = "serving" => db.admin

\* Of database db, once old, process p with its run r holds the lock if it writes.
OneHolds(p, r, db, old) ==
    \A q \in Process :
        db.lock = q <=> IF q = p THEN r.phase = "writing" ELSE old.lock = q

DatabasesSound ==
    /\ databases \in [Path -> Database]
    /\ \A d \in Path : Sound(databases[d])

RunsSound ==
    /\ process \in [Process -> RunSet]
    /\ \A p \in Process :
          \/ process[p] = Idle
          \/ /\ process[p].phase # "down" /\ process[p].path \in Path
             /\ Reached(process[p], DbOf(p))

\* The lock of a database is held by who writes it.
LocksHeld ==
    \A p \in Process, d \in Path :
        databases[d].lock = p <=> process[p].phase = "writing" /\ process[p].path = d

Core == FilesTyped /\ env \in Environments /\ DatabasesSound /\ RunsSound /\ LocksHeld

-----------------------------------------------------------------------------
(* Databases                                                                *)

\* One more execution of what was not executed, after what comes before it.
LEMMA ExecutedSound ==
    ASSUME NEW db, Sound(db), NEW f \in 0..MaxFile, f \notin db.recorded,
           f # Seeding => \A g \in 1..f : g # f => g \in db.recorded
    PROVE  /\ Sound(Executed(db, f))
           /\ Executed(db, f).recorded = db.recorded \cup {f}
           /\ Executed(db, f).lock = db.lock
           /\ Executed(db, f).admin = db.admin
<1> DEFINE log == Append(db.log, f)
           new == Executed(db, f)
           n == Len(db.log)
<1>1. /\ db \in Database /\ db.log \in Seq(0..MaxFile) /\ n \in Nat
      /\ db.recorded \subseteq 0..MaxFile
  BY DEF Sound, Database
<1>2. /\ log \in Seq(0..MaxFile) /\ DOMAIN log = 1..n + 1 /\ DOMAIN db.log = 1..n
      /\ log[n + 1] = f /\ \A i \in 1..n : log[i] = db.log[i]
  BY <1>1
<1> HIDE DEF n, log
<1>3. /\ new \in Database /\ new.log = log /\ new.recorded = db.recorded \cup {f}
      /\ new.lock = db.lock /\ new.admin = db.admin
  BY <1>1, <1>2 DEF Executed, Database, log
<1> HIDE DEF new
<1>4. db.recorded = {db.log[i] : i \in 1..n}
  BY <1>2 DEF Sound, ToSet
<1>5. ToSet(log) = new.recorded
  <2>1. ToSet(log) = {log[i] : i \in 1..n + 1}
    BY <1>2 DEF ToSet
  <2>2. {log[i] : i \in 1..n + 1} = {log[i] : i \in 1..n} \cup {log[n + 1]}
    <3>1. 1..n + 1 = (1..n) \cup {n + 1}
      BY <1>1
    <3> QED
      BY <3>1
  <2>3. {log[i] : i \in 1..n} = {db.log[i] : i \in 1..n}
    BY <1>2
  <2> QED
    BY <1>2, <1>3, <1>4, <2>1, <2>2, <2>3
<1>6. \A i \in 1..n : db.log[i] # f /\ db.log[i] \in db.recorded /\ db.log[i] \in 0..MaxFile
  BY <1>1, <1>4
<1>7. IsInjective(log)
  <2> SUFFICES ASSUME NEW i \in 1..n + 1, NEW j \in 1..n + 1, log[i] = log[j]
               PROVE  i = j
    BY <1>2 DEF IsInjective
  <2>1. \A a, b \in 1..n : db.log[a] = db.log[b] => a = b
    BY <1>2 DEF Sound, IsInjective
  <2>2. (i \in 1..n \/ i = n + 1) /\ (j \in 1..n \/ j = n + 1)
    BY <1>1
  <2> QED
    BY <1>2, <1>6, <2>1, <2>2
<1>8. ASSUME NEW i \in 1..n + 1, NEW j \in 1..n + 1, i < j,
             Seeding \notin {log[i], log[j]}
      PROVE  log[i] < log[j]
  <2>1. i \in 1..n /\ log[i] = db.log[i]
    BY <1>1, <1>2, <1>8
  <2>2. CASE j \in 1..n
    BY <1>2, <1>8, <2>1, <2>2 DEF Sound
  <2>3. CASE j = n + 1
    <3>1. /\ log[j] = f /\ f # Seeding /\ db.log[i] \in db.recorded
          /\ db.log[i] # Seeding /\ db.log[i] # f /\ db.log[i] \in 0..MaxFile
      BY <1>2, <1>6, <1>8, <2>1, <2>3
    <3>2. 1..db.log[i] \subseteq db.recorded
      BY <3>1 DEF Sound
    <3>3. ~(f < db.log[i])
      BY <3>1, <3>2 DEF Seeding
    <3> QED
      BY <2>1, <3>1, <3>3
  <2> QED
    BY <1>1, <2>2, <2>3
<1>9. ASSUME NEW g \in new.recorded, g # Seeding
      PROVE  1..g \subseteq new.recorded
  BY <1>3, <1>9 DEF Sound
<1> QED
  BY <1>2, <1>3, <1>5, <1>7, <1>8, <1>9 DEF Sound, new

\* The lock and the client are no part of what was executed.
LEMMA OthersSound ==
    ASSUME NEW db, Sound(db), NEW lock \in Process \cup {"free"}
    PROVE  /\ Sound([db EXCEPT !.lock = lock])
           /\ [db EXCEPT !.lock = lock].recorded = db.recorded
           /\ [db EXCEPT !.lock = lock].admin = db.admin
           /\ [db EXCEPT !.lock = lock].lock = lock
           /\ Sound([db EXCEPT !.admin = TRUE])
           /\ [db EXCEPT !.admin = TRUE].recorded = db.recorded
           /\ [db EXCEPT !.admin = TRUE].admin
           /\ [db EXCEPT !.admin = TRUE].lock = db.lock
<1>1. db \in Database
  BY DEF Sound
<1>2. /\ [db EXCEPT !.lock = lock] \in Database
      /\ [db EXCEPT !.lock = lock].recorded = db.recorded
      /\ [db EXCEPT !.lock = lock].log = db.log
      /\ [db EXCEPT !.lock = lock].admin = db.admin
      /\ [db EXCEPT !.lock = lock].lock = lock
  BY <1>1 DEF Database
<1>3. /\ [db EXCEPT !.admin = TRUE] \in Database
      /\ [db EXCEPT !.admin = TRUE].recorded = db.recorded
      /\ [db EXCEPT !.admin = TRUE].log = db.log
      /\ [db EXCEPT !.admin = TRUE].admin
      /\ [db EXCEPT !.admin = TRUE].lock = db.lock
  BY <1>1 DEF Database
<1> QED
  BY <1>2, <1>3 DEF Sound

-----------------------------------------------------------------------------
(* Steps of one process                                                     *)

\* Process p goes on to r and leaves its database d as db.
LEMMA Advance ==
    ASSUME Core, NEW p \in Process, NEW d \in Path, NEW r \in RunSet, NEW db,
           process[p].phase = "down" \/ process[p].path = d,
           process' = [process EXCEPT ![p] = r],
           databases' = [databases EXCEPT ![d] = db],
           Sound(db),
           databases[d].recorded \subseteq db.recorded,
           databases[d].admin => db.admin,
           r = Idle \/ (r.phase # "down" /\ r.path = d /\ Reached(r, db)),
           OneHolds(p, r, db, databases[d]),
           UNCHANGED <<files, env>>
    PROVE  Core'
<1>0. /\ databases \in [Path -> Database] /\ process \in [Process -> RunSet]
      /\ \A e \in Path : Sound(databases[e])
  BY DEF Core, DatabasesSound, RunsSound
<1>1. /\ databases'[d] = db /\ \A e \in Path \ {d} : databases'[e] = databases[e]
      /\ process'[p] = r /\ \A q \in Process \ {p} : process'[q] = process[q]
      /\ process' \in [Process -> RunSet]
  BY <1>0
<1>2. databases' \in [Path -> Database] /\ \A e \in Path : Sound(databases'[e])
  BY <1>0, <1>1 DEF Sound
<1>3. ASSUME NEW e \in Path
      PROVE  /\ databases[e].recorded \subseteq databases'[e].recorded
             /\ databases[e].admin => databases'[e].admin
  BY <1>1
<1>4. ASSUME NEW q \in Process
      PROVE  \/ process'[q] = Idle
             \/ /\ process'[q].phase # "down" /\ process'[q].path \in Path
                /\ Reached(process'[q], databases'[process'[q].path])
  <2>1. CASE q = p
    BY <1>1, <2>1
  <2>2. CASE q # p
    <3>1. process'[q] = process[q]
      BY <1>1, <2>2
    <3>2. \/ process[q] = Idle
          \/ /\ process[q].phase # "down" /\ process[q].path \in Path
             /\ Reached(process[q], databases[process[q].path])
      BY DEF Core, RunsSound, DbOf
    <3> QED
      BY <1>3, <3>1, <3>2 DEF Reached
  <2> QED
    BY <2>1, <2>2
<1>5. RunsSound'
  BY <1>1, <1>4 DEF RunsSound, DbOf, Reached, RunSet, Phases, Target, Idle, Process
<1>6. LocksHeld'
  <2> SUFFICES ASSUME NEW q \in Process, NEW e \in Path
               PROVE  databases'[e].lock = q <=>
                         process'[q].phase = "writing" /\ process'[q].path = e
    BY DEF LocksHeld, Process
  <2>1. databases[e].lock = q <=> process[q].phase = "writing" /\ process[q].path = e
    BY DEF Core, LocksHeld
  <2>2. CASE q # p
    BY <1>1, <2>1, <2>2 DEF OneHolds
  <2>3. CASE q = p /\ e = d
    BY <1>1, <2>3 DEF OneHolds, Idle
  <2>4. CASE q = p /\ e # d
    <3>1. databases[e].lock # p
      BY <2>1, <2>4
    <3>2. ~(r.phase = "writing" /\ r.path = e)
      BY <2>4 DEF Idle
    <3> QED
      BY <1>1, <2>4, <3>1, <3>2
  <2> QED
    BY <2>2, <2>3, <2>4
<1>7. DatabasesSound'
  BY <1>2 DEF DatabasesSound, Sound, Database, Process, Seeding
<1>8. FilesTyped' /\ env' \in Environments
  BY DEF Core, FilesTyped
<1> QED
  BY <1>5, <1>6, <1>7, <1>8 DEF Core


\* The first of the files that are left is one of them.
LEMMA NextFileIsFirst ==
    ASSUME NEW todo \in SUBSET (1..MaxFile), todo # {}
    PROVE  NextFile(todo) \in todo /\ \A f \in todo : NextFile(todo) <= f
<1> DEFINE S == 1..MaxFile
           upTo == {1..f : f \in todo}
<1>1. IsFiniteSet(S)
  BY FS_Interval
<1>2. FiniteSubsetsOf(S) = SUBSET S
  BY <1>1, FS_FiniteSubsetsOfFinite
<1>3. upTo \subseteq FiniteSubsetsOf(S) /\ upTo # {}
  <2>1. \A f \in todo : 1..f \subseteq S
    OBVIOUS
  <2>2. upTo \subseteq SUBSET S /\ upTo # {}
    BY <2>1
  <2> QED
    BY <1>2, <2>2
<1>4. IsWellFoundedOn(StrictSubsetOrdering(S), FiniteSubsetsOf(S))
  BY FS_StrictSubsetOrderingWellFounded
<1> HIDE DEF upTo
<1>5. \E x \in upTo : \A y \in upTo : <<y, x>> \notin StrictSubsetOrdering(S)
  BY <1>3, <1>4, WFMin
<1>6. PICK f \in todo : \A g \in todo : <<1..g, 1..f>> \notin StrictSubsetOrdering(S)
  BY <1>5 DEF upTo
<1>7. \A g \in todo : f <= g
  <2> SUFFICES ASSUME NEW g \in todo, g < f
               PROVE  FALSE
    OBVIOUS
  <2>1. 1..g \subseteq 1..f /\ 1..g # 1..f /\ 1..g \in SUBSET S /\ 1..f \in SUBSET S
    OBVIOUS
  <2>2. <<1..g, 1..f>> \in StrictSubsetOrdering(S)
    BY <2>1 DEF StrictSubsetOrdering
  <2> QED
    BY <1>6, <2>2
<1> QED
  BY <1>7 DEF NextFile, Min

\* What is known of a process that is up.
LEMMA Running ==
    ASSUME Core, NEW p \in Process, process[p].phase # "down"
    PROVE  /\ process[p] \in RunSet /\ process[p].path \in Path
           /\ DbOf(p) = databases[process[p].path] /\ Sound(DbOf(p))
           /\ DbOf(p).recorded \subseteq 0..MaxFile
           /\ Reached(process[p], DbOf(p))
           /\ DbOf(p).lock = p <=> process[p].phase = "writing"
<1>1. /\ process[p] \in RunSet
      /\ process[p] = Idle \/ (process[p].path \in Path /\ Reached(process[p], DbOf(p)))
  BY DEF Core, RunsSound
<1>2. process[p].path \in Path /\ Reached(process[p], DbOf(p))
  BY <1>1 DEF Idle
<1>3. Sound(DbOf(p)) /\ (DbOf(p).lock = p <=> process[p].phase = "writing")
  BY <1>2 DEF DbOf, Core, DatabasesSound, LocksHeld
<1> QED
  BY <1>1, <1>2, <1>3 DEF DbOf, Sound, Database

\* A process that is up goes on to r, and its database is db.
LEMMA GoesOn ==
    ASSUME Core, NEW p \in Process, process[p].phase # "down",
           NEW r \in RunSet, NEW db,
           Become(p, r), WriteDb(p, db) \/ (UNCHANGED databases /\ db = DbOf(p)),
           Sound(db),
           DbOf(p).recorded \subseteq db.recorded,
           DbOf(p).admin => db.admin,
           r = Idle \/ (r.phase # "down" /\ r.path = process[p].path /\ Reached(r, db)),
           OneHolds(p, r, db, DbOf(p)),
           UNCHANGED <<files, env>>
    PROVE  Core'
<1> DEFINE d == process[p].path
<1>1. d \in Path /\ DbOf(p) = databases[d] /\ databases \in [Path -> Database]
  BY Running DEF Core, DatabasesSound
<1>2. process' = [process EXCEPT ![p] = r] /\ databases' = [databases EXCEPT ![d] = db]
  BY <1>1 DEF Become, WriteDb
<1> HIDE DEF d
<1>3. /\ process[p].path = d /\ UNCHANGED <<files, env>>
      /\ databases[d].recorded \subseteq db.recorded
      /\ databases[d].admin => db.admin
      /\ r = Idle \/ (r.phase # "down" /\ r.path = d /\ Reached(r, db))
  BY <1>1 DEF d
<1>4. OneHolds(p, r, db, databases[d])
  BY <1>1 DEF OneHolds
<1> QED
  BY <1>1, <1>2, <1>3, <1>4, Advance

\* A run that ends leaves its database, or rolls back what it was writing.
LEMMA EndsIdle ==
    /\ Idle \in RunSet
    /\ Idle.phase = "down" /\ Idle.path = None
BY DEF Idle, RunSet, Phases, Target

LEMMA ListFilesCore ==
    ASSUME Core, NEW p \in Process, ListFiles(p)
    PROVE  Core'
<1> DEFINE r == [process[p] EXCEPT !.phase = "applying", !.listed = files.deployed,
                                   !.todo = Pending(DbOf(p).recorded)]
<1>1. process[p].phase = "opened" /\ files.deployed \in 1..MaxFile
  BY DEF ListFiles, Core, FilesTyped
<1>2. /\ process[p] \in RunSet /\ Sound(DbOf(p)) /\ DbOf(p).lock # p
      /\ DbOf(p).recorded \subseteq 0..MaxFile
  BY <1>1, Running
<1>3. /\ r \in RunSet /\ r.phase = "applying" /\ r.path = process[p].path
      /\ r.listed = files.deployed /\ r.todo = (1..files.deployed) \ DbOf(p).recorded
  <2>1. files.deployed \in 0..MaxFile /\ Pending(DbOf(p).recorded) \in SUBSET (1..MaxFile)
    BY <1>1 DEF Pending
  <2> QED
    BY <1>2, <2>1 DEF RunSet, Phases, Pending
<1>4. Become(p, r) /\ UNCHANGED <<files, databases, env>>
  BY DEF ListFiles
<1> HIDE DEF r
<1>5. Reached(r, DbOf(p))
  BY <1>3 DEF Reached
<1>6. OneHolds(p, r, DbOf(p), DbOf(p))
  BY <1>2, <1>3 DEF OneHolds
<1> QED
  BY <1>1, <1>2, <1>3, <1>4, <1>5, <1>6, GoesOn

LEMMA BeginFileCore ==
    ASSUME Core, NEW p \in Process, BeginFile(p)
    PROVE  Core'
<1> DEFINE r == [process[p] EXCEPT !.phase = "writing"]
           db == [DbOf(p) EXCEPT !.lock = p]
<1>1. process[p].phase = "applying" /\ process[p].todo # {} /\ DbOf(p).lock = "free"
  BY DEF BeginFile
<1>2. /\ process[p] \in RunSet /\ Sound(DbOf(p)) /\ Reached(process[p], DbOf(p))
  BY <1>1, Running
<1>3. /\ r \in RunSet /\ r.phase = "writing" /\ r.path = process[p].path
      /\ r.listed = process[p].listed /\ r.todo = process[p].todo
  BY <1>2 DEF RunSet, Phases
<1>4. /\ Sound(db) /\ db.recorded = DbOf(p).recorded /\ db.admin = DbOf(p).admin
      /\ db.lock = p
  BY <1>2, OthersSound
<1>5. Become(p, r) /\ WriteDb(p, db) /\ UNCHANGED <<files, env>>
  BY DEF BeginFile
<1> HIDE DEF r, db
<1>6. Reached(r, db)
  BY <1>1, <1>2, <1>3, <1>4 DEF Reached
<1>7. OneHolds(p, r, db, DbOf(p))
  BY <1>1, <1>3, <1>4 DEF OneHolds, Process
<1> QED
  BY <1>1, <1>3, <1>4, <1>5, <1>6, <1>7, GoesOn

\* The file that comes next was not executed before, all that precede it were.
LEMMA CommitFileCore ==
    ASSUME Core, NEW p \in Process, CommitFile(p)
    PROVE  Core'
<1> DEFINE f == NextFile(process[p].todo)
           r == [process[p] EXCEPT !.phase = "applying", !.todo = @ \ {f}]
           done == Executed(DbOf(p), f)
           db == [done EXCEPT !.lock = "free"]
<1>1. process[p].phase = "writing" /\ f \notin DbOf(p).recorded
  BY DEF CommitFile, Applies
<1>2. /\ process[p] \in RunSet /\ Sound(DbOf(p)) /\ Reached(process[p], DbOf(p))
      /\ DbOf(p).lock = p
  BY <1>1, Running
<1>3. /\ Become(p, r) /\ WriteDb(p, db) /\ UNCHANGED <<files, env>>
  BY DEF CommitFile
<1>4. /\ process[p].todo \in SUBSET (1..MaxFile) /\ process[p].todo # {}
      /\ process[p].listed \in 0..MaxFile
      /\ process[p].todo \subseteq 1..process[p].listed
      /\ 1..process[p].listed \subseteq process[p].todo \cup DbOf(p).recorded
  BY <1>1, <1>2 DEF Reached, RunSet
<1>5. f \in process[p].todo /\ \A g \in process[p].todo : f <= g
  BY <1>4, NextFileIsFirst
<1> HIDE DEF f
<1>6. f \in 1..MaxFile /\ \A g \in 1..f : g # f => g \in DbOf(p).recorded
  <2>1. f \in 1..MaxFile /\ f \in 1..process[p].listed
    BY <1>4, <1>5
  <2>2. ASSUME NEW g \in 1..f, g # f
        PROVE  g \in DbOf(p).recorded
    <3>1. g \in 1..process[p].listed /\ ~(f <= g)
      BY <1>4, <2>1, <2>2
    <3> QED
      BY <1>4, <1>5, <3>1
  <2> QED
    BY <2>1, <2>2
<1>7. /\ r \in RunSet /\ r.phase = "applying" /\ r.path = process[p].path
      /\ r.listed = process[p].listed /\ r.todo = process[p].todo \ {f}
  BY <1>2 DEF RunSet, Phases
<1>8. /\ Sound(done) /\ done.recorded = DbOf(p).recorded \cup {f}
      /\ done.admin = DbOf(p).admin
  BY <1>1, <1>2, <1>6, ExecutedSound
<1> HIDE DEF done
<1>9. Sound(db) /\ db.recorded = done.recorded /\ db.admin = done.admin /\ db.lock = "free"
  <2>1. Sound(done)
    BY <1>8
  <2> QED
    BY ONLY <2>1, OthersSound DEF db
<1> HIDE DEF r, db
<1>10. Reached(r, db)
  BY <1>4, <1>7, <1>8, <1>9 DEF Reached
<1>11. OneHolds(p, r, db, DbOf(p))
  BY <1>2, <1>7, <1>9 DEF OneHolds, Process
<1> QED
  BY <1>1, <1>3, <1>7, <1>8, <1>9, <1>10, <1>11, GoesOn

\* A run ends: what it was writing is rolled back.
LEMMA EndCore ==
    ASSUME Core, NEW p \in Process, process[p].phase # "down", Become(p, Idle),
           \/ WriteDb(p, [DbOf(p) EXCEPT !.lock = "free"]) /\ DbOf(p).lock = p
           \/ WriteDb(p, DbOf(p)) /\ DbOf(p).lock # p
           \/ UNCHANGED databases /\ DbOf(p).lock # p,
           UNCHANGED <<files, env>>
    PROVE  Core'
<1>1. Sound(DbOf(p))
  BY Running
<1>2. CASE DbOf(p).lock = p
  <2> DEFINE db == [DbOf(p) EXCEPT !.lock = "free"]
  <2>1. Sound(db) /\ db.recorded = DbOf(p).recorded /\ db.admin = DbOf(p).admin /\ db.lock = "free"
    BY <1>1, OthersSound
  <2>2. WriteDb(p, db)
    BY <1>2
  <2> HIDE DEF db
  <2>3. OneHolds(p, Idle, db, DbOf(p))
    BY <1>2, <2>1, EndsIdle DEF OneHolds, Process
  <2> QED
    BY <2>1, <2>2, <2>3, EndsIdle, GoesOn
<1>3. CASE DbOf(p).lock # p
  <2>1. OneHolds(p, Idle, DbOf(p), DbOf(p))
    BY <1>3, EndsIdle DEF OneHolds
  <2> QED
    BY <1>1, <1>3, <2>1, EndsIdle, GoesOn
<1> QED
  BY <1>2, <1>3

LEMMA RunCore ==
    ASSUME Core, NEW p \in Process, Run(p) \/ Crash(p)
    PROVE  Core'
<1>1. CASE FileFails(p)
  <2>1. process[p].phase = "writing"
    BY <1>1 DEF FileFails
  <2>2. DbOf(p).lock = p
    BY <2>1, Running
  <2> QED
    BY <1>1, <2>1, <2>2, EndCore DEF FileFails, Ends
<1>2. CASE Busy(p)
  <2>1. process[p].phase # "down" /\ DbOf(p).lock # p
    BY <1>2 DEF Busy
  <2> QED
    BY <1>2, <2>1, EndCore DEF Busy, Ends
<1>3. CASE Crash(p)
  BY <1>3, EndCore DEF Crash, RollsBack, Ends
<1> QED
  BY <1>1, <1>2, <1>3, ListFilesCore, BeginFileCore, CommitFileCore DEF Run

-----------------------------------------------------------------------------
(* The boot and the command                                                 *)

\* Databases and processes that do not move.
LEMMA RestUnmoved ==
    ASSUME Core, FilesTyped', UNCHANGED <<databases, env, process>>
    PROVE  Core'
<1>1. (env \in Environments)'
  BY DEF Core
<1>2. DatabasesSound'
  BY DEF Core, DatabasesSound, Sound, Database, Process, Seeding
<1>3. RunsSound'
  BY DEF Core, RunsSound, RunSet, Phases, Process, Seeding, Idle, Reached, DbOf
<1>4. LocksHeld'
  BY DEF Core, LocksHeld
<1> QED
  BY <1>1, <1>2, <1>3, <1>4 DEF Core

LEMMA Unmoved ==
    ASSUME Core, UNCHANGED <<files, databases, env, process>>
    PROVE  Core'
<1>1. FilesTyped'
  BY DEF Core, FilesTyped
<1> QED
  BY <1>1, RestUnmoved

LEMMA MergedInPath ==
    ASSUME env \in Environments, NEW p \in Process, NEW reached
    PROVE  Merged(p, reached) \in Path
<1>1. env[p] \in Environment
  OBVIOUS
<1> QED
  BY <1>1 DEF Environment, Merged

\* A process that is down opens the database of a path.
LEMMA OpensCore ==
    ASSUME Core, NEW p \in Process, NEW d \in Path, process[p].phase = "down",
           Become(p, [Idle EXCEPT !.phase = "opened", !.path = d]),
           UNCHANGED <<files, databases, env>>
    PROVE  Core'
<1> DEFINE r == [Idle EXCEPT !.phase = "opened", !.path = d]
<1>1. /\ r \in RunSet /\ r.phase = "opened" /\ r.path = d /\ r.listed = 0 /\ r.todo = {}
  BY EndsIdle DEF RunSet, Phases, Target, Idle
<1>2. process' = [process EXCEPT ![p] = r]
  BY DEF Become
<1>3. /\ databases \in [Path -> Database] /\ Sound(databases[d])
      /\ databases[d].lock # p
  BY DEF Core, DatabasesSound, LocksHeld
<1>4. databases' = [databases EXCEPT ![d] = databases[d]]
  BY <1>3
<1> HIDE DEF r
<1>5. Reached(r, databases[d])
  BY <1>1 DEF Reached
<1>6. OneHolds(p, r, databases[d], databases[d])
  BY <1>1, <1>3 DEF OneHolds
<1>7. r.phase # "down" /\ UNCHANGED <<files, env>>
  BY <1>1
<1>8. process[p].phase = "down" \/ process[p].path = d
  OBVIOUS
<1>9. databases[d].recorded \subseteq databases[d].recorded
  OBVIOUS
<1>10. databases[d].admin => databases[d].admin
  OBVIOUS
<1>11. r = Idle \/ (r.phase # "down" /\ r.path = d /\ Reached(r, databases[d]))
  BY <1>1, <1>5, <1>7
<1>12. Sound(databases[d])
  BY <1>3
<1>13. r \in RunSet
  BY <1>1
<1>14. UNCHANGED <<files, env>>
  BY <1>7
<1> QED
  BY <1>2, <1>4, <1>6, <1>8, <1>9, <1>10, <1>11, <1>12, <1>13, <1>14, Advance

LEMMA BootCore ==
    ASSUME Core, NEW reached \in BOOLEAN, Boot(reached)
    PROVE  Core'
<1>1. process["server"].phase = "down" /\ UNCHANGED <<files, databases, env>>
  BY DEF Boot
<1>2. CASE GetEnv(reached) = None
  BY <1>1, <1>2, Unmoved DEF Boot
<1>3. CASE GetEnv(reached) # None
  <2>1. GetEnv(reached) \in Path
    BY <1>3, MergedInPath DEF GetEnv, Core, Process
  <2>2. Become("server", [Idle EXCEPT !.phase = "opened", !.path = GetEnv(reached)])
    BY <1>3 DEF Boot
  <2> QED
    BY <1>1, <2>1, <2>2, OpensCore DEF Process
<1> QED
  BY <1>2, <1>3

LEMMA RunCommandCore ==
    ASSUME Core, NEW flag \in Flag, NEW reached \in BOOLEAN, RunCommand(flag, reached)
    PROVE  Core'
<1>1. ResolveTarget(flag, reached) \in Path
  BY MergedInPath DEF RunCommand, ResolveTarget, Flag, Core, Process
<1> QED
  BY <1>1, OpensCore DEF RunCommand, Asks, Process

\* One step of the boot from a database nobody writes, which becomes db.
LEMMA BootingCore ==
    ASSUME Core, NEW to \in {"provisioning", "serving"}, NEW db,
           process["server"].phase \in {"seeding", "provisioning"},
           DbOf("server").lock = "free",
           WriteDb("server", db),
           Become("server", [process["server"] EXCEPT !.phase = to]),
           UNCHANGED <<files, env>>,
           Sound(db), db.lock = "free",
           DbOf("server").recorded \subseteq db.recorded, Seeding \in db.recorded,
           DbOf("server").admin \/ to = "serving" => db.admin
    PROVE  Core'
<1> DEFINE r == [process["server"] EXCEPT !.phase = to]
<1>1. process["server"].phase # "down" /\ "server" \in Process
  BY DEF Process
<1>2. process["server"] \in RunSet /\ Reached(process["server"], DbOf("server"))
  BY <1>1, Running
<1>3. /\ r \in RunSet /\ r.phase = to /\ r.path = process["server"].path
      /\ r.listed = process["server"].listed /\ r.todo = process["server"].todo
  BY <1>2 DEF RunSet, Phases
<1>4. Become("server", r)
  OBVIOUS
<1> HIDE DEF r
<1>5. Reached(r, db)
  BY <1>2, <1>3 DEF Reached
<1>6. OneHolds("server", r, db, DbOf("server"))
  BY <1>3 DEF OneHolds, Process
<1>7. r.phase # "down"
  BY <1>3
<1> QED
  BY <1>1, <1>3, <1>4, <1>5, <1>6, <1>7, GoesOn

LEMMA SeedCore ==
    ASSUME Core, Seed
    PROVE  Core'
<1> DEFINE old == DbOf("server")
           db == IF Seeding \in old.recorded THEN old ELSE Executed(old, Seeding)
<1>1. /\ process["server"].phase = "seeding" /\ old.lock = "free" /\ WriteDb("server", db)
      /\ Become("server", [process["server"] EXCEPT !.phase = "provisioning"])
      /\ UNCHANGED <<files, env>>
  BY DEF Seed, Booting
<1>2. Sound(old)
  BY <1>1, Running DEF Process
<1>3. /\ Sound(db) /\ db.lock = "free" /\ old.recorded \subseteq db.recorded
      /\ Seeding \in db.recorded
      /\ old.admin => db.admin
  <2>1. CASE Seeding \in old.recorded
    BY <1>1, <1>2, <2>1
  <2>2. CASE Seeding \notin old.recorded
    <3>1. Seeding \in 0..MaxFile
      BY DEF Seeding
    <3> QED
      BY <1>1, <1>2, <2>2, <3>1, ExecutedSound
  <2> QED
    BY <2>1, <2>2
<1>4. /\ process["server"].phase \in {"seeding", "provisioning"}
      /\ "provisioning" \in {"provisioning", "serving"}
      /\ old.admin \/ "provisioning" = "serving" => db.admin
  BY <1>1, <1>3
<1> HIDE DEF db
<1> QED
  BY <1>1, <1>3, <1>4, BootingCore

LEMMA ProvisionCore ==
    ASSUME Core, Provision
    PROVE  Core'
<1> DEFINE old == DbOf("server")
           db == [old EXCEPT !.admin = TRUE]
<1>1. /\ process["server"].phase = "provisioning" /\ old.lock = "free" /\ WriteDb("server", db)
      /\ Become("server", [process["server"] EXCEPT !.phase = "serving"])
      /\ UNCHANGED <<files, env>>
  BY DEF Provision, Booting
<1>2. Sound(old) /\ Seeding \in old.recorded
  BY <1>1, Running DEF Process, Reached
<1>3. Sound(db) /\ db.lock = "free" /\ db.recorded = old.recorded /\ db.admin
  BY <1>1, <1>2, OthersSound
<1> HIDE DEF db
<1> QED
  BY <1>1, <1>2, <1>3, BootingCore

LEMMA MigratedCore ==
    ASSUME Core, Migrated
    PROVE  Core'
<1> DEFINE r == [process["server"] EXCEPT !.phase = "seeding"]
<1>1. /\ process["server"].phase = "applying" /\ process["server"].todo = {}
      /\ Become("server", r) /\ UNCHANGED <<files, databases, env>> /\ "server" \in Process
  BY DEF Migrated, Process
<1>2. /\ process["server"] \in RunSet /\ Reached(process["server"], DbOf("server"))
      /\ Sound(DbOf("server")) /\ DbOf("server").lock # "server"
  BY <1>1, Running
<1>3. /\ r \in RunSet /\ r.phase = "seeding" /\ r.path = process["server"].path
      /\ r.listed = process["server"].listed /\ r.todo = process["server"].todo
  BY <1>2 DEF RunSet, Phases
<1> HIDE DEF r
<1>4. Reached(r, DbOf("server"))
  BY <1>1, <1>2, <1>3 DEF Reached
<1>5. OneHolds("server", r, DbOf("server"), DbOf("server"))
  BY <1>2, <1>3 DEF OneHolds
<1> QED
  BY <1>1, <1>2, <1>3, <1>4, <1>5, GoesOn

LEMMA CommandEndsCore ==
    ASSUME Core, CommandEnds \/ BackupFails
    PROVE  Core'
<1>1. process["cli"].phase \in {"opened", "applying"} /\ "cli" \in Process
  BY DEF CommandEnds, BackupFails, Process
<1>2. process["cli"].phase # "down" /\ DbOf("cli").lock # "cli"
  BY <1>1, Running
<1> QED
  BY <1>1, <1>2, EndCore DEF CommandEnds, BackupFails, Ends

\* The release takes down the server it finds.
LEMMA RestartCore ==
    ASSUME Core, Restart
    PROVE  Core'
<1>1. CASE process["server"].phase = "down"
  BY <1>1, Unmoved DEF Restart, Deleted
<1>2. CASE process["server"].phase # "down"
  BY <1>2, EndCore DEF Restart, Deleted, RollsBack, Process
<1> QED
  BY <1>1, <1>2

LEMMA FilesCore ==
    ASSUME Core, Mend \/ \E broken \in BOOLEAN : Deploy(broken)
    PROVE  Core'
<1>1. UNCHANGED <<databases, env, process>>
  BY DEF Mend, Deploy
<1>2. FilesTyped'
  <2>1. CASE Mend
    BY <2>1 DEF Mend, Core, FilesTyped
  <2>2. CASE \E broken \in BOOLEAN : Deploy(broken)
    <3>1. PICK broken \in BOOLEAN : Deploy(broken)
      BY <2>2
    <3>2. /\ files.deployed \in 1..MaxFile /\ files.deployed < MaxFile
          /\ files.broken \subseteq 1..files.deployed
      BY <3>1 DEF Deploy, Core, FilesTyped
    <3>3. files.deployed + 1 \in 1..MaxFile /\ 1..files.deployed \subseteq 1..files.deployed + 1
      BY <3>2
    <3> DEFINE bad == files.broken \cup (IF broken THEN {files.deployed + 1} ELSE {})
    <3>4. bad \subseteq 1..files.deployed + 1 /\ bad \subseteq 1..MaxFile
      BY <3>2, <3>3
    <3>5. files' = [deployed |-> files.deployed + 1, broken |-> bad]
      BY <3>1 DEF Deploy
    <3> HIDE DEF bad
    <3> QED
      BY <3>3, <3>4, <3>5 DEF FilesTyped
  <2> QED
    BY <2>1, <2>2
<1> QED
  BY <1>1, <1>2, RestUnmoved

\* Every step preserves what is known of databases and runs.
LEMMA CoreStep ==
    ASSUME Core, [Next]_vars
    PROVE  Core'
<1>1. CASE ServerStep
  BY <1>1, BootCore, RunCore, MigratedCore, SeedCore, ProvisionCore DEF ServerStep, Process
<1>2. CASE CliStep
  <2>1. CASE Backup
    BY <2>1, Unmoved DEF Backup
  <2> QED
    BY <1>2, <2>1, RunCore, CommandEndsCore DEF CliStep, Process
<1>3. CASE Mend \/ \E broken \in BOOLEAN : Deploy(broken)
  BY <1>3, FilesCore
<1>4. CASE \E p \in Process : Crash(p)
  BY <1>4, RunCore
<1>5. CASE \E flag \in Flag : SecretsFailure(flag)
  BY <1>5, Unmoved DEF SecretsFailure
<1>6. CASE \E flag \in Flag : \E reached \in BOOLEAN : RunCommand(flag, reached)
  BY <1>6, RunCommandCore
<1>7. CASE UNCHANGED vars
  BY <1>7, Unmoved DEF vars
<1>8. CASE Restart
  BY <1>8, RestartCore
<1> QED
  BY <1>1, <1>2, <1>3, <1>4, <1>5, <1>6, <1>7, <1>8 DEF Next

-----------------------------------------------------------------------------
(* What the operator is told, and which database it is about                *)

\* A backup precedes what its run applied, and success is said of a database
\* that has the files.
OperatorSound ==
    /\ operator \in OperatorSet
    /\ operator.copied => ToSet(operator.backup) \cap ToSet(operator.applied) = {}
    /\ operator.outcome = "applied" =>
          /\ operator.target \in Path
          /\ 1..operator.listed \subseteq databases[operator.target].recorded
    /\ process["cli"].phase # "down" =>
          /\ operator.target = process["cli"].path /\ operator.outcome = "none"
          /\ operator.copied => ToSet(operator.backup) \subseteq DbOf("cli").recorded
          /\ process["cli"].phase = "opened" => operator.applied = <<>>

\* What either opened is what its environment says in full, or what --db says.
Resolved ==
    /\ process["server"].path \in {None, Merged("server", TRUE)}
    /\ operator.flag = None => operator.target \in {None, Merged("cli", TRUE)}

\* The supervisor has not given up on a server that is up.
Supervised ==
    /\ supervisor \in [restarts : 0..MaxRestarts, due : BOOLEAN]
    /\ process["server"].phase # "down" => supervisor.restarts < MaxRestarts

\* A step takes nothing back.
Grown == \A d \in Path : databases[d].recorded \subseteq databases'[d].recorded

LEMMA GrownByWrite ==
    ASSUME Core, NEW p \in Process, process[p].phase # "down",
           NEW db, WriteDb(p, db), DbOf(p).recorded \subseteq db.recorded
    PROVE  Grown
<1>1. /\ process[p].path \in Path /\ DbOf(p) = databases[process[p].path]
      /\ databases \in [Path -> Database]
  BY Running DEF Core, DatabasesSound
<1> QED
  BY <1>1 DEF WriteDb, Grown

LEMMA RecordedGrows ==
    ASSUME Core, [Next]_vars
    PROVE  Grown
<1>1. ASSUME NEW p \in Process, Run(p) \/ Crash(p)
      PROVE  Grown
  <2> DEFINE free == [DbOf(p) EXCEPT !.lock = "free"]
             held == [DbOf(p) EXCEPT !.lock = p]
  <2>1. ASSUME process[p].phase # "down"
        PROVE  /\ Sound(DbOf(p)) /\ free.recorded = DbOf(p).recorded
               /\ held.recorded = DbOf(p).recorded
    <3>1. Sound(DbOf(p))
      BY <2>1, Running
    <3> QED
      BY <3>1, OthersSound
  <2>2. CASE BeginFile(p)
    <3>1. process[p].phase # "down" /\ WriteDb(p, held)
      BY <2>2 DEF BeginFile
    <3> HIDE DEF held
    <3> QED
      BY <2>1, <3>1, GrownByWrite
  <2>3. CASE FileFails(p)
    <3>1. process[p].phase # "down" /\ WriteDb(p, free)
      BY <2>3 DEF FileFails
    <3> HIDE DEF free
    <3> QED
      BY <2>1, <3>1, GrownByWrite
  <2>4. CASE CommitFile(p)
    <3> DEFINE f == NextFile(process[p].todo)
               db == [Executed(DbOf(p), f) EXCEPT !.lock = "free"]
    <3>1. process[p].phase # "down" /\ WriteDb(p, db)
      BY <2>4 DEF CommitFile
    <3>2. db.recorded = DbOf(p).recorded \cup {f}
      <4>1. DbOf(p) \in Database
        BY <2>1, <3>1 DEF Sound
      <4> HIDE DEF f
      <4> QED
        BY <4>1 DEF Executed, Database
    <3> HIDE DEF db
    <3> QED
      BY <3>1, <3>2, GrownByWrite
  <2>5. CASE Crash(p)
    <3>1. process[p].phase # "down" /\ (WriteDb(p, free) \/ WriteDb(p, DbOf(p)))
      BY <2>5 DEF Crash, RollsBack
    <3> HIDE DEF free
    <3> QED
      BY <2>1, <3>1, GrownByWrite
  <2>6. CASE ListFiles(p) \/ Busy(p)
    BY <2>6 DEF ListFiles, Busy, Grown
  <2> QED
    BY <1>1, <2>2, <2>3, <2>4, <2>5, <2>6 DEF Run
<1>2. CASE Seed \/ Provision
  <2>1. process["server"].phase # "down" /\ "server" \in Process
    BY <1>2 DEF Seed, Provision, Booting, Process
  <2>2. DbOf("server") \in Database
    BY <2>1, Running DEF Sound
  <2>3. CASE Seed
    <3> DEFINE old == DbOf("server")
               db == IF Seeding \in old.recorded THEN old ELSE Executed(old, Seeding)
    <3>1. WriteDb("server", db)
      BY <2>3 DEF Seed, Booting
    <3>2. old.recorded \subseteq db.recorded
      BY <2>2 DEF Executed, Database
    <3> HIDE DEF db
    <3> QED
      BY <2>1, <3>1, <3>2, GrownByWrite
  <2>4. CASE Provision
    <3> DEFINE db == [DbOf("server") EXCEPT !.admin = TRUE]
    <3>1. WriteDb("server", db) /\ db.recorded = DbOf("server").recorded
      BY <2>2, <2>4 DEF Provision, Booting, Database
    <3> HIDE DEF db
    <3> QED
      BY <2>1, <3>1, GrownByWrite
  <2> QED
    BY <1>2, <2>3, <2>4
<1>3. CASE UNCHANGED databases
  BY <1>3 DEF Grown
<1>4. ASSUME NEW reached, Boot(reached)
      PROVE  UNCHANGED databases
  BY <1>4 DEF Boot
<1>5. ASSUME NEW flag, NEW reached, SecretsFailure(flag) \/ RunCommand(flag, reached)
      PROVE  UNCHANGED databases
  BY <1>5 DEF SecretsFailure, RunCommand
<1>6. ASSUME NEW broken, Mend \/ Deploy(broken) \/ Migrated \/ Backup \/ BackupFails \/ CommandEnds
      PROVE  UNCHANGED databases
  BY <1>6 DEF Mend, Deploy, Migrated, Backup, BackupFails, CommandEnds
<1>7. ASSUME Restart, process["server"].phase # "down"
      PROVE  Grown
  <2> DEFINE free == [DbOf("server") EXCEPT !.lock = "free"]
  <2>1. /\ "server" \in Process
        /\ WriteDb("server", free) \/ WriteDb("server", DbOf("server"))
    BY <1>7 DEF Restart, Deleted, RollsBack, Process
  <2>2. Sound(DbOf("server"))
    BY <1>7, <2>1, Running
  <2>3. free.recorded = DbOf("server").recorded
    BY <2>2, OthersSound
  <2> HIDE DEF free
  <2> QED
    BY <1>7, <2>1, <2>3, GrownByWrite
<1>8. ASSUME Restart, process["server"].phase = "down"
      PROVE  UNCHANGED databases
  BY <1>8 DEF Restart, Deleted
<1> QED
  BY <1>1, <1>2, <1>3, <1>4, <1>5, <1>6, <1>7, <1>8 DEF Next, ServerStep, CliStep, vars, Process

\* The command goes on, or the step is of someone else.
LEMMA OperatorUnmoved ==
    ASSUME Core, OperatorSound, Grown, UNCHANGED operator,
           \/ UNCHANGED <<process["cli"]>>
           \/ /\ process["cli"].phase # "down" /\ process'["cli"].phase # "opened"
              /\ process'["cli"].path = process["cli"].path
    PROVE  OperatorSound'
<1>1. process["cli"].phase # "down" => process["cli"].path \in Path
  BY Running DEF Process
<1>2. \A d \in Path : databases[d].recorded \subseteq databases'[d].recorded
  BY DEF Grown
<1>3. operator' \in OperatorSet
  BY DEF OperatorSound, OperatorSet, Target
<1>4. ASSUME operator.outcome = "applied"
      PROVE  operator.target \in Path /\ 1..operator.listed \subseteq databases'[operator.target].recorded
  BY <1>2, <1>4 DEF OperatorSound
<1>5. ASSUME process'["cli"].phase # "down"
      PROVE  /\ operator.target = process'["cli"].path /\ operator.outcome = "none"
             /\ operator.copied => ToSet(operator.backup) \subseteq databases'[process'["cli"].path].recorded
             /\ process'["cli"].phase = "opened" => operator.applied = <<>>
  BY <1>1, <1>2, <1>5 DEF OperatorSound, DbOf
<1>6. operator' = operator
  OBVIOUS
<1>7. operator.copied => ToSet(operator.backup) \cap ToSet(operator.applied) = {}
  BY DEF OperatorSound
<1>8. /\ operator'.copied => ToSet(operator'.backup) \cap ToSet(operator'.applied) = {}
      /\ operator'.outcome = "applied" =>
            /\ operator'.target \in Path
            /\ 1..operator'.listed \subseteq databases'[operator'.target].recorded
      /\ process'["cli"].phase # "down" =>
            /\ operator'.target = process'["cli"].path /\ operator'.outcome = "none"
            /\ operator'.copied =>
                  ToSet(operator'.backup) \subseteq databases'[process'["cli"].path].recorded
            /\ process'["cli"].phase = "opened" => operator'.applied = <<>>
  BY <1>4, <1>5, <1>6, <1>7
<1> QED
  BY <1>3, <1>8 DEF OperatorSound, DbOf, ToSet

\* The command ends, and reports what it may.
LEMMA OperatorEnds ==
    ASSUME Core, OperatorSound, Grown, NEW outcome \in {"none", "applied", "failed"},
           process["cli"].phase # "down", Ends("cli", outcome),
           outcome = "applied" => process["cli"].todo = {}
    PROVE  OperatorSound'
<1>1. /\ process["cli"] \in RunSet /\ process["cli"].path \in Path
      /\ Reached(process["cli"], DbOf("cli")) /\ DbOf("cli") = databases[process["cli"].path]
  BY Running DEF Process
<1>2. /\ operator' = [operator EXCEPT !.outcome = outcome, !.listed = process["cli"].listed]
      /\ process'["cli"].phase = "down"
  BY EndsIdle DEF Ends, Become, Core, RunsSound, Process
<1>3. operator \in OperatorSet /\ process["cli"].listed \in 0..MaxFile
  BY <1>1 DEF OperatorSound, RunSet
<1>4. /\ operator' \in OperatorSet /\ operator'.outcome = outcome
      /\ operator'.listed = process["cli"].listed /\ operator'.target = operator.target
      /\ operator'.copied = operator.copied /\ operator'.backup = operator.backup
      /\ operator'.applied = operator.applied
  BY <1>2, <1>3 DEF OperatorSet
<1>5. operator.target = process["cli"].path
  BY DEF OperatorSound
<1>6. ASSUME outcome = "applied"
      PROVE  1..process["cli"].listed \subseteq databases'[process["cli"].path].recorded
  <2>1. 1..process["cli"].listed \subseteq databases[process["cli"].path].recorded
    BY <1>1, <1>6 DEF Reached
  <2> QED
    BY <1>1, <2>1 DEF Grown
<1>7. operator'.copied => ToSet(operator'.backup) \cap ToSet(operator'.applied) = {}
  <2>1. /\ ToSet(operator'.backup) = ToSet(operator.backup)
        /\ ToSet(operator'.applied) = ToSet(operator.applied)
    BY <1>4
  <2> QED
    BY <1>4, <2>1 DEF OperatorSound
<1> QED
  BY <1>1, <1>2, <1>4, <1>5, <1>6, <1>7 DEF OperatorSound, OperatorSet, Target

\* What the command applies was not in its backup.
LEMMA OperatorCommits ==
    ASSUME Core, OperatorSound, Grown, CommitFile("cli")
    PROVE  OperatorSound'
<1> DEFINE f == NextFile(process["cli"].todo)
<1>1. process["cli"].phase = "writing" /\ f \notin DbOf("cli").recorded
  BY DEF CommitFile, Applies
<1>2. /\ process["cli"] \in RunSet /\ process["cli"].path \in Path
      /\ Reached(process["cli"], DbOf("cli")) /\ DbOf("cli") = databases[process["cli"].path]
  BY <1>1, Running DEF Process
<1>3. f \in 1..MaxFile
  BY <1>1, <1>2, NextFileIsFirst DEF Reached, RunSet
<1>4. /\ operator' = [operator EXCEPT !.applied = Append(@, f)]
      /\ process'["cli"] = [process["cli"] EXCEPT !.phase = "applying", !.todo = @ \ {f}]
  BY DEF CommitFile, Become, Core, RunsSound, Process
<1> HIDE DEF f
<1>5. process'["cli"].phase = "applying" /\ process'["cli"].path = process["cli"].path
  BY <1>2, <1>4 DEF RunSet
<1>6. /\ operator \in OperatorSet /\ operator.applied \in Seq(0..MaxFile)
  BY DEF OperatorSound, OperatorSet
<1>7. Append(operator.applied, f) \in Seq(0..MaxFile)
  BY <1>3, <1>6
<1>8. /\ operator' \in OperatorSet /\ operator'.applied = Append(operator.applied, f)
      /\ operator'.outcome = operator.outcome /\ operator'.copied = operator.copied
      /\ operator'.backup = operator.backup /\ operator'.target = operator.target
      /\ operator'.listed = operator.listed
  BY <1>4, <1>6, <1>7 DEF OperatorSet
<1>9. ToSet(Append(operator.applied, f)) = ToSet(operator.applied) \cup {f}
  <2> DEFINE n == Len(operator.applied)
             more == Append(operator.applied, f)
  <2>1. n \in Nat /\ DOMAIN operator.applied = 1..n
    BY <1>6
  <2>2. DOMAIN more = 1..n + 1 /\ more[n + 1] = f /\ \A i \in 1..n : more[i] = operator.applied[i]
    BY <1>6
  <2>3. 1..n + 1 = (1..n) \cup {n + 1}
    BY <2>1
  <2> HIDE DEF n, more
  <2>4. ToSet(more) = {more[i] : i \in 1..n} \cup {more[n + 1]}
    BY <2>2, <2>3 DEF ToSet
  <2>5. {more[i] : i \in 1..n} = {operator.applied[i] : i \in 1..n}
    BY <2>2
  <2> QED
    BY <2>1, <2>2, <2>4, <2>5 DEF ToSet, more
<1>10. /\ operator.target = process["cli"].path /\ operator.outcome = "none"
       /\ operator.copied => ToSet(operator.backup) \subseteq DbOf("cli").recorded
       /\ operator.copied => ToSet(operator.backup) \cap ToSet(operator.applied) = {}
  BY <1>1 DEF OperatorSound
<1>11. operator.copied => ToSet(operator.backup) \cap (ToSet(operator.applied) \cup {f}) = {}
  BY <1>1, <1>10
<1>12. operator.copied =>
          ToSet(operator.backup) \subseteq databases'[process["cli"].path].recorded
  BY <1>2, <1>10 DEF Grown
<1>13. /\ ToSet(operator'.backup) = ToSet(operator.backup)
       /\ ToSet(operator'.applied) = ToSet(operator.applied) \cup {f}
  BY <1>8, <1>9
<1> QED
  BY <1>5, <1>8, <1>10, <1>11, <1>12, <1>13 DEF OperatorSound, DbOf, OperatorSet, Target

\* The backup is the database as it is.
LEMMA OperatorBacksUp ==
    ASSUME Core, OperatorSound, Backup
    PROVE  OperatorSound'
<1>1. /\ process["cli"].phase = "opened" /\ UNCHANGED <<files, databases, env, process>>
      /\ operator' = [operator EXCEPT !.backup = DbOf("cli").log, !.copied = TRUE]
  BY DEF Backup
<1>2. /\ Sound(DbOf("cli")) /\ process["cli"].path \in Path
      /\ DbOf("cli") = databases[process["cli"].path]
  BY <1>1, Running DEF Process
<1>3. operator \in OperatorSet /\ DbOf("cli").log \in Seq(0..MaxFile)
  BY <1>2 DEF OperatorSound, Sound, Database
<1>4. /\ operator' \in OperatorSet /\ operator'.applied = operator.applied
      /\ operator'.outcome = operator.outcome /\ operator'.backup = DbOf("cli").log
      /\ operator'.target = operator.target /\ operator'.listed = operator.listed
  BY <1>1, <1>3 DEF OperatorSet
<1>5. /\ operator.applied = <<>> /\ operator.outcome = "none"
      /\ operator.target = process["cli"].path
  BY <1>1 DEF OperatorSound
<1>6. ToSet(operator'.backup) = DbOf("cli").recorded
  BY <1>2, <1>4 DEF Sound, ToSet
<1>7. ToSet(operator'.applied) = {}
  <2>1. ToSet(<<>>) = {}
    BY DEF ToSet
  <2> QED
    BY <1>4, <1>5, <2>1
<1> QED
  BY <1>1, <1>4, <1>5, <1>6, <1>7 DEF OperatorSound, DbOf, OperatorSet, Target

\* A run that begins knows nothing of the one before.
LEMMA OperatorAsks ==
    ASSUME Core, OperatorSound, NEW flag \in Flag, NEW target \in Target,
           NEW outcome \in {"none", "failed"},
           Asks(flag, target, outcome),
           \/ UNCHANGED <<process["cli"]>>
           \/ outcome = "none" /\ process'["cli"].path = target
    PROVE  OperatorSound'
<1>1. /\ operator' = [runs |-> operator.runs + 1, flag |-> flag, backup |-> <<>>,
                      copied |-> FALSE, applied |-> <<>>, target |-> target, listed |-> 0,
                      outcome |-> outcome]
      /\ operator.runs + 1 \in 0..MaxRuns
      /\ process["cli"].phase = "down"
  BY DEF Asks, OperatorSound, OperatorSet
<1>2. <<>> \in Seq(0..MaxFile)
  OBVIOUS
<1>3. operator' \in OperatorSet
  BY <1>1, <1>2 DEF OperatorSet, Flag, Target
<1> QED
  BY <1>1, <1>3 DEF OperatorSound, OperatorSet, Target

LEMMA OperatorStep ==
    ASSUME Core, OperatorSound, [Next]_vars
    PROVE  OperatorSound'
<1>0. Grown
  BY RecordedGrows
<1>1. process \in [Process -> RunSet] /\ "cli" \in Process /\ "server" # "cli"
  BY DEF Core, RunsSound, Process
<1>2. CASE ServerStep
  <2>1. ASSUME NEW outcome, Ends("server", outcome)
        PROVE  UNCHANGED <<operator, process["cli"]>>
    BY <1>1, <2>1 DEF Ends, Become
  <2>2. ASSUME Run("server")
        PROVE  UNCHANGED <<operator, process["cli"]>>
    BY <1>1, <2>1, <2>2 DEF Run, ListFiles, BeginFile, CommitFile, FileFails, Busy, Become
  <2>3. ASSUME NEW reached \in BOOLEAN, Boot(reached)
        PROVE  UNCHANGED <<operator, process["cli"]>>
    BY <1>1, <2>3 DEF Boot, Become
  <2>4. ASSUME Migrated \/ Seed \/ Provision
        PROVE  UNCHANGED <<operator, process["cli"]>>
    BY <1>1, <2>4 DEF Migrated, Seed, Provision, Booting, Become
  <2>5. UNCHANGED <<operator, process["cli"]>>
    BY <1>2, <2>2, <2>3, <2>4 DEF ServerStep
  <2> QED
    BY <1>0, <2>5, OperatorUnmoved
<1>3. CASE Run("cli")
  <2>1. CASE ListFiles("cli") \/ BeginFile("cli")
    <3>1. process["cli"].phase # "down" /\ UNCHANGED operator
      BY <2>1 DEF ListFiles, BeginFile
    <3>2. process'["cli"].phase # "opened" /\ process'["cli"].path = process["cli"].path
      <4>1. CASE ListFiles("cli")
        BY <1>1, <4>1 DEF ListFiles, Become, RunSet
      <4>2. CASE BeginFile("cli")
        BY <1>1, <4>2 DEF BeginFile, Become, RunSet
      <4> QED
        BY <2>1, <4>1, <4>2
    <3> QED
      BY <1>0, <3>1, <3>2, OperatorUnmoved
  <2>2. CASE CommitFile("cli")
    BY <1>0, <2>2, OperatorCommits
  <2>3. CASE FileFails("cli") \/ Busy("cli")
    <3>1. process["cli"].phase # "down" /\ Ends("cli", "failed")
      BY <2>3 DEF FileFails, Busy
    <3> QED
      BY <1>0, <3>1, OperatorEnds
  <2> QED
    BY <1>3, <2>1, <2>2, <2>3 DEF Run
<1>4. CASE Backup
  BY <1>4, OperatorBacksUp
<1>5. CASE CommandEnds \/ BackupFails
  <2>1. \/ process["cli"].phase # "down" /\ Ends("cli", "applied") /\ process["cli"].todo = {}
        \/ process["cli"].phase # "down" /\ Ends("cli", "failed")
    BY <1>5 DEF CommandEnds, BackupFails
  <2> QED
    BY <1>0, <2>1, OperatorEnds
<1>6. CASE \E p \in Process : Crash(p)
  <2>1. CASE Crash("server")
    <3>1. UNCHANGED <<operator, process["cli"]>>
      BY <1>1, <2>1 DEF Crash, Ends, Become
    <3> QED
      BY <1>0, <3>1, OperatorUnmoved
  <2>2. CASE Crash("cli")
    <3>1. process["cli"].phase # "down" /\ Ends("cli", "none")
      BY <2>2 DEF Crash
    <3> QED
      BY <1>0, <3>1, OperatorEnds
  <2> QED
    BY <1>6, <2>1, <2>2 DEF Process
<1>7. ASSUME NEW flag \in Flag, SecretsFailure(flag)
      PROVE  OperatorSound'
  <2>1. Asks(flag, None, "failed") /\ UNCHANGED <<process["cli"]>> /\ None \in Target
    BY <1>7 DEF SecretsFailure, Target
  <2> QED
    BY <2>1, OperatorAsks
<1>8. ASSUME NEW flag \in Flag, NEW reached \in BOOLEAN, RunCommand(flag, reached)
      PROVE  OperatorSound'
  <2> DEFINE target == ResolveTarget(flag, reached)
  <2>1. target \in Target
    BY MergedInPath DEF ResolveTarget, Flag, Target, Core, Process
  <2>2. Asks(flag, target, "none") /\ process'["cli"].path = target
    BY <1>1, <1>8 DEF RunCommand, Become, Idle
  <2> HIDE DEF target
  <2> QED
    BY <2>1, <2>2, OperatorAsks
<1>9. CASE Mend \/ (\E broken \in BOOLEAN : Deploy(broken)) \/ UNCHANGED vars
  <2>1. UNCHANGED <<operator, process["cli"]>>
    BY <1>9 DEF Mend, Deploy, vars
  <2> QED
    BY <1>0, <2>1, OperatorUnmoved
<1>10. CASE Restart
  <2>1. UNCHANGED <<operator, process["cli"]>>
    BY <1>1, <1>10 DEF Restart, Deleted, Become
  <2> QED
    BY <1>0, <2>1, OperatorUnmoved
<1> QED
  BY <1>2, <1>3, <1>4, <1>5, <1>6, <1>7, <1>8, <1>9, <1>10 DEF Next, CliStep

\* A step of a run, or its end, looks nothing up.
LEMMA ResolvedStays ==
    ASSUME Core, OperatorSound, Resolved, UNCHANGED env,
           process'["server"].path \in {None, process["server"].path},
           operator'.flag = operator.flag, operator'.target = operator.target
    PROVE  Resolved'
BY DEF Resolved, Merged

\* A lookup that fails yields no path, never another one.
LEMMA ResolvedStep ==
    ASSUME Core, OperatorSound, Resolved, [Next]_vars
    PROVE  Resolved'
<1>1. /\ process \in [Process -> RunSet] /\ "cli" \in Process /\ "server" \in Process
      /\ operator \in OperatorSet
  BY DEF Core, RunsSound, Process, OperatorSound
<1>2. UNCHANGED env
  BY DEF Next, ServerStep, CliStep, Run, ListFiles, BeginFile, CommitFile, FileFails, Busy, Boot,
         Migrated, Seed, Provision, Booting, Backup, BackupFails, CommandEnds, Mend, Crash,
         SecretsFailure, RunCommand, Deploy, Restart, vars
<1>3. Merged("server", TRUE)' = Merged("server", TRUE) /\ Merged("cli", TRUE)' = Merged("cli", TRUE)
  BY <1>2 DEF Merged
<1>4. ASSUME NEW reached \in BOOLEAN
      PROVE  /\ GetEnv(reached) \in {None, Merged("server", TRUE)}
             /\ ResolveTarget(None, reached) \in {None, Merged("cli", TRUE)}
  BY DEF GetEnv, ResolveTarget, Merged
<1>5. ASSUME NEW p \in Process, NEW outcome, Ends(p, outcome)
      PROVE  Resolved'
  <2>1. process'["server"].path \in {None, process["server"].path}
    BY <1>1, <1>5, EndsIdle DEF Ends, Become
  <2>2. operator'.flag = operator.flag /\ operator'.target = operator.target
    BY <1>1, <1>5 DEF Ends, OperatorSet
  <2> QED
    BY <1>2, <2>1, <2>2, ResolvedStays
<1>6. ASSUME NEW p \in Process, ListFiles(p) \/ BeginFile(p)
      PROVE  Resolved'
  <2>1. CASE ListFiles(p)
    <3>1. process'["server"].path = process["server"].path /\ UNCHANGED operator
      BY <1>1, <2>1 DEF ListFiles, Become, RunSet
    <3> QED
      BY <1>2, <3>1, ResolvedStays
  <2>2. CASE BeginFile(p)
    <3>1. process'["server"].path = process["server"].path /\ UNCHANGED operator
      BY <1>1, <2>2 DEF BeginFile, Become, RunSet
    <3> QED
      BY <1>2, <3>1, ResolvedStays
  <2> QED
    BY <1>6, <2>1, <2>2
<1>7. ASSUME NEW p \in Process, CommitFile(p)
      PROVE  Resolved'
  <2>1. PICK f : /\ process' = [process EXCEPT ![p] = [process[p] EXCEPT !.phase = "applying",
                                                                        !.todo = @ \ {f}]]
                 /\ operator' = IF p = "server" THEN operator
                                ELSE [operator EXCEPT !.applied = Append(@, f)]
    BY <1>7 DEF CommitFile, Become
  <2>2. operator'.flag = operator.flag /\ operator'.target = operator.target
    BY <1>1, <2>1 DEF OperatorSet
  <2>3. process'["server"].path = process["server"].path
    BY <1>1, <2>1 DEF RunSet
  <2> QED
    BY <1>2, <2>2, <2>3, ResolvedStays
<1>8. ASSUME NEW p \in Process, Run(p) \/ Crash(p) \/ BackupFails \/ CommandEnds
      PROVE  Resolved'
  BY <1>1, <1>5, <1>6, <1>7, <1>8 DEF Run, FileFails, Busy, Crash, BackupFails, CommandEnds
<1>9. ASSUME NEW reached \in BOOLEAN, Boot(reached)
      PROVE  Resolved'
  <2>1. /\ process'["server"].path \in {process["server"].path, GetEnv(reached)}
        /\ UNCHANGED operator
    BY <1>1, <1>9 DEF Boot, Become, Idle
  <2> QED
    BY <1>3, <1>4, <2>1 DEF Resolved
<1>10. CASE Migrated \/ Seed \/ Provision
  <2>1. \/ Become("server", [process["server"] EXCEPT !.phase = "seeding"])
        \/ Become("server", [process["server"] EXCEPT !.phase = "provisioning"])
        \/ Become("server", [process["server"] EXCEPT !.phase = "serving"])
    BY <1>10 DEF Migrated, Seed, Provision, Booting
  <2>2. process'["server"].path = process["server"].path
    BY <1>1, <2>1 DEF Become, RunSet
  <2>3. UNCHANGED operator
    BY <1>10 DEF Migrated, Seed, Provision, Booting
  <2> QED
    BY <1>2, <2>2, <2>3, ResolvedStays
<1>11. CASE Backup
  <2>1. /\ operator'.flag = operator.flag /\ operator'.target = operator.target
        /\ UNCHANGED process
    BY <1>1, <1>11 DEF Backup, OperatorSet
  <2> QED
    BY <1>2, <2>1, ResolvedStays
<1>12. ASSUME NEW flag \in Flag, SecretsFailure(flag)
       PROVE  Resolved'
  <2>1. operator'.target = None /\ UNCHANGED process
    BY <1>12 DEF SecretsFailure, Asks
  <2> QED
    BY <1>3, <2>1 DEF Resolved
<1>13. ASSUME NEW flag \in Flag, NEW reached \in BOOLEAN, RunCommand(flag, reached)
       PROVE  Resolved'
  <2>1. /\ operator'.flag = flag /\ operator'.target = ResolveTarget(flag, reached)
        /\ process'["server"].path = process["server"].path
    BY <1>1, <1>13 DEF RunCommand, Asks, Become
  <2> QED
    BY <1>3, <1>4, <2>1 DEF Resolved
<1>14. CASE Restart
  <2>1. process'["server"].path \in {None, process["server"].path} /\ UNCHANGED operator
    BY <1>1, <1>14, EndsIdle DEF Restart, Deleted, Become
  <2> QED
    BY <1>2, <2>1, ResolvedStays
<1>15. CASE Mend \/ (\E broken \in BOOLEAN : Deploy(broken)) \/ UNCHANGED vars
  BY <1>3, <1>15 DEF Mend, Deploy, vars, Resolved
<1> QED
  BY <1>8, <1>9, <1>10, <1>11, <1>12, <1>13, <1>14, <1>15, <1>1 DEF Next, ServerStep, CliStep

-----------------------------------------------------------------------------
(* What is counted                                                          *)

\* A server that is up goes on, or something else happens.
LEMMA SupervisedStays ==
    ASSUME Supervised, UNCHANGED supervisor,
           process'["server"].phase = "down" \/ process["server"].phase # "down"
    PROVE  Supervised'
BY DEF Supervised

\* A server that is gone may count.
LEMMA SupervisedCounts ==
    ASSUME Supervised, Counted("server"), supervisor.restarts < MaxRestarts,
           process'["server"].phase = "down"
    PROVE  Supervised'
<1>1. PICK short \in {0, 1} : supervisor' = [supervisor EXCEPT !.restarts = @ + short]
  BY DEF Counted
<1>2. supervisor.restarts + short \in 0..MaxRestarts
  BY DEF Supervised
<1> QED
  BY <1>1, <1>2 DEF Supervised

LEMMA SupervisedStep ==
    ASSUME Core, Supervised, [Next]_vars
    PROVE  Supervised'
<1>1. process \in [Process -> RunSet] /\ "server" \in Process /\ "server" # "cli"
  BY DEF Core, RunsSound, Process
<1>2. ASSUME NEW outcome, Ends("server", outcome), process["server"].phase # "down"
      PROVE  Supervised'
  <2>1. process'["server"].phase = "down" /\ Counted("server")
    BY <1>1, <1>2, EndsIdle DEF Ends, Become
  <2> QED
    BY <1>2, <2>1, SupervisedCounts DEF Supervised
<1>3. ASSUME NEW outcome, Ends("cli", outcome)
      PROVE  UNCHANGED <<supervisor, process["server"]>>
  BY <1>1, <1>3 DEF Ends, Become, Counted
<1>4. ASSUME ListFiles("server") \/ BeginFile("server") \/ CommitFile("server")
             \/ Migrated \/ Seed \/ Provision
      PROVE  UNCHANGED supervisor /\ process["server"].phase # "down"
  BY <1>4 DEF ListFiles, BeginFile, CommitFile, Migrated, Seed, Provision, Booting
<1>5. ASSUME ListFiles("cli") \/ BeginFile("cli") \/ CommitFile("cli") \/ Backup
      PROVE  UNCHANGED <<supervisor, process["server"]>>
  BY <1>1, <1>5 DEF ListFiles, BeginFile, CommitFile, Backup, Become
<1>6. ASSUME FileFails("server") \/ Busy("server") \/ Crash("server")
      PROVE  Supervised'
  <2>1. process["server"].phase # "down" /\ \E outcome : Ends("server", outcome)
    BY <1>6 DEF FileFails, Busy, Crash
  <2> QED
    BY <1>2, <2>1
<1>7. ASSUME FileFails("cli") \/ Busy("cli") \/ Crash("cli") \/ BackupFails \/ CommandEnds
      PROVE  UNCHANGED <<supervisor, process["server"]>>
  BY <1>3, <1>7 DEF FileFails, Busy, Crash, BackupFails, CommandEnds
<1>8. ASSUME NEW reached \in BOOLEAN, Boot(reached)
      PROVE  Supervised'
  <2>1. process["server"].phase = "down" /\ supervisor.restarts < MaxRestarts
    BY <1>8 DEF Boot
  <2>2. \/ UNCHANGED process /\ Counted("server")
        \/ UNCHANGED supervisor
    BY <1>8 DEF Boot
  <2>3. CASE UNCHANGED process /\ Counted("server")
    BY <2>1, <2>3, SupervisedCounts
  <2>4. CASE UNCHANGED supervisor
    BY <2>1, <2>4 DEF Supervised
  <2> QED
    BY <2>2, <2>3, <2>4
<1>9. ASSUME NEW flag, NEW reached, SecretsFailure(flag) \/ RunCommand(flag, reached)
      PROVE  UNCHANGED <<supervisor, process["server"]>>
  BY <1>1, <1>9 DEF SecretsFailure, RunCommand, Become
<1>10. ASSUME NEW broken, Mend \/ Deploy(broken)
       PROVE  Supervised'
  <2>1. supervisor' = [supervisor EXCEPT !.due = TRUE] /\ UNCHANGED process
    BY <1>10 DEF Mend, Deploy
  <2> QED
    BY <2>1 DEF Supervised
<1>11. CASE Restart
  <2>1. process'["server"].phase = "down"
    BY <1>1, <1>11, EndsIdle DEF Restart, Deleted, Become
  <2>2. supervisor' = [restarts |-> 0, due |-> FALSE]
    BY <1>11 DEF Restart
  <2> QED
    BY <2>1, <2>2 DEF Supervised
<1>12. ASSUME UNCHANGED <<supervisor, process["server"]>>
       PROVE  Supervised'
  BY <1>12 DEF Supervised
<1>13. CASE UNCHANGED vars
  BY <1>12, <1>13 DEF vars
<1> QED
  BY <1>4, <1>5, <1>6, <1>7, <1>8, <1>9, <1>10, <1>11, <1>12, <1>13, SupervisedStays
  DEF Next, ServerStep, CliStep, Run, Process

-----------------------------------------------------------------------------
(* Theorems                                                                 *)

IInv == Core /\ OperatorSound /\ Resolved /\ Supervised /\ faults \in 0..MaxFaults

LEMMA InitIInv == Init => IInv
<1> SUFFICES ASSUME Init PROVE IInv
  OBVIOUS
<1> USE DEF Init
<1>1. FilesTyped /\ env \in Environments /\ faults \in 0..MaxFaults
  BY DEF FilesTyped
<1>2. DatabasesSound
  <2> DEFINE empty == [log |-> <<>>, recorded |-> {}, admin |-> FALSE, lock |-> "free"]
  <2>1. empty \in Database
    <3>1. <<>> \in Seq(0..MaxFile)
      OBVIOUS
    <3> QED
      BY <3>1 DEF Database
  <2>2. empty.log = <<>> /\ empty.recorded = {}
    OBVIOUS
  <2> HIDE DEF empty
  <2>3. Sound(empty)
    BY <2>1, <2>2 DEF Sound, ToSet, IsInjective
  <2> QED
    BY <2>1, <2>3 DEF DatabasesSound, empty
<1>3. RunsSound
  BY EndsIdle DEF RunsSound
<1>4. LocksHeld
  BY DEF LocksHeld, Process, Idle
<1>5. OperatorSound
  <2>1. <<>> \in Seq(0..MaxFile) /\ None \in Target
    BY DEF Target
  <2> QED
    BY <2>1, EndsIdle DEF OperatorSound, OperatorSet, Process
<1>6. Resolved
  BY EndsIdle DEF Resolved, Process
<1>7. Supervised
  BY EndsIdle DEF Supervised, Process
<1> QED
  BY <1>1, <1>2, <1>3, <1>4, <1>5, <1>6, <1>7 DEF IInv, Core

LEMMA StepIInv == IInv /\ [Next]_vars => IInv'
<1> SUFFICES ASSUME IInv, [Next]_vars PROVE IInv'
  OBVIOUS
<1>1. Core /\ OperatorSound /\ Resolved /\ Supervised /\ faults \in 0..MaxFaults
  BY DEF IInv
<1>2. faults' \in 0..MaxFaults
  <2>1. ASSUME NEW p \in Process, NEW reached \in BOOLEAN, LooksUp(p, reached)
        PROVE  faults' \in 0..MaxFaults
    BY <1>1, <2>1 DEF LooksUp
  <2>2. ASSUME NEW p \in Process, Crash(p) \/ Busy(p)
        PROVE  faults' \in 0..MaxFaults
    BY <1>1, <2>2 DEF Crash, Busy
  <2>3. ASSUME NEW p \in Process, ListFiles(p) \/ BeginFile(p) \/ CommitFile(p) \/ FileFails(p)
        PROVE  faults' \in 0..MaxFaults
    BY <1>1, <2>3 DEF ListFiles, BeginFile, CommitFile, FileFails
  <2>4. CASE Migrated \/ Seed \/ Provision \/ Backup \/ BackupFails \/ CommandEnds \/ Restart
    BY <1>1, <2>4 DEF Migrated, Seed, Provision, Booting, Backup, BackupFails, CommandEnds, Restart
  <2>5. CASE Mend \/ (\E broken \in BOOLEAN : Deploy(broken)) \/ UNCHANGED vars
    BY <1>1, <2>5 DEF Mend, Deploy, vars
  <2>6. ASSUME NEW reached \in BOOLEAN, Boot(reached)
        PROVE  faults' \in 0..MaxFaults
    BY <2>1, <2>6 DEF Boot, Process
  <2>7. ASSUME NEW flag \in Flag, SecretsFailure(flag)
        PROVE  faults' \in 0..MaxFaults
    BY <2>1, <2>7 DEF SecretsFailure, Process
  <2>8. ASSUME NEW flag \in Flag, NEW reached \in BOOLEAN, RunCommand(flag, reached)
        PROVE  faults' \in 0..MaxFaults
    BY <2>1, <2>8 DEF RunCommand, Process
  <2> QED
    BY <1>1, <2>2, <2>3, <2>4, <2>5, <2>6, <2>7, <2>8 DEF Next, ServerStep, CliStep, Run, Process
<1> QED
  BY <1>1, <1>2, CoreStep, OperatorStep, ResolvedStep, SupervisedStep DEF IInv

\* The state of databases, processes and operator as IInv describes it, with
\* crashes and failed lookups anywhere.
THEOREM MigrationsInvariant == Spec => []IInv
BY InitIInv, StepIInv, PTL DEF Spec

\* Type correctness, and that a database is locked by who writes it.
THEOREM MigrationsTypeCorrect == Spec => []TypeOK
<1>1. IInv => TypeOK
  <2> SUFFICES ASSUME IInv PROVE TypeOK
    OBVIOUS
  <2>1. /\ Core /\ operator \in OperatorSet /\ faults \in 0..MaxFaults
        /\ supervisor \in [restarts : 0..MaxRestarts, due : BOOLEAN]
    BY DEF IInv, OperatorSound, Supervised
  <2>2. ASSUME NEW p \in Process
        PROVE  /\ process[p] \in RunSet
               /\ process[p].phase = "writing" <=>
                     \E d \in Path : databases[d].lock = p /\ process[p].path = d
    <3>1. process[p] \in RunSet /\ (process[p].phase = "writing" => process[p].path \in Path)
      BY <2>1 DEF Core, RunsSound, Idle
    <3> QED
      BY <2>1, <3>1 DEF Core, LocksHeld
  <2>3. /\ files.deployed \in 1..MaxFile /\ files.broken \subseteq 1..files.deployed
        /\ \A d \in Path : databases[d] \in Database
        /\ env \in Environments
    BY <2>1 DEF Core, FilesTyped, DatabasesSound
  <2>4. /\ operator.runs \in 0..MaxRuns /\ operator.flag \in Path \cup {None}
        /\ operator.outcome \in {"none", "applied", "failed"}
    BY <2>1 DEF OperatorSet, Target
  <2> QED
    BY <2>1, <2>2, <2>3, <2>4 DEF TypeOK, RunSet, Phases, Target
<1> QED
  BY <1>1, MigrationsInvariant, PTL

\* No file and no seed is executed twice on a database or out of order, and
\* _migrations is what was executed: for all files, databases and crashes.
THEOREM NothingRunsTwice == Spec => []OnceAndInOrder
<1>1. IInv => OnceAndInOrder
  BY DEF IInv, Core, DatabasesSound, Sound, OnceAndInOrder
<1> QED
  BY <1>1, MigrationsInvariant, PTL

\* Serving means migrated, seeded and provisioned; success means applied; and a
\* backup is of the time before.
THEOREM ReadyMeansComplete == Spec => []ReadyIsComplete
<1>1. IInv => ReadyIsComplete
  <2> SUFFICES ASSUME IInv PROVE ReadyIsComplete
    OBVIOUS
  <2>1. ASSUME process["server"].phase = "serving"
        PROVE  /\ 0..process["server"].listed \subseteq DbOf("server").recorded
               /\ DbOf("server").admin
    <3>1. /\ Reached(process["server"], DbOf("server")) /\ process["server"] \in RunSet
      BY <2>1, Running DEF IInv, Process
    <3>2. /\ 1..process["server"].listed \subseteq DbOf("server").recorded
          /\ 0 \in DbOf("server").recorded /\ DbOf("server").admin
          /\ process["server"].listed \in 0..MaxFile
      BY <2>1, <3>1 DEF Reached, RunSet, Seeding
    <3> QED
      BY <3>2
  <2> QED
    BY <2>1 DEF IInv, OperatorSound, ReadyIsComplete
<1> QED
  BY <1>1, MigrationsInvariant, PTL

\* Where the environments agree, what a command without --db reported as applied
\* is no longer to do for a server that boots: for all sources of DATABASE_PATH,
\* lookups that fail and crashes.
THEOREM BeforehandIsFound == Spec => MigratedBeforehand
<1>1. ASSUME IInv, ListFiles("server"), SameSources,
             operator.flag = None, operator.outcome = "applied"
      PROVE  process'["server"].todo \cap 1..operator.listed = {}
  <2>1. /\ process["server"].phase = "opened" /\ "server" \in Process /\ "cli" \in Process
        /\ Core /\ OperatorSound /\ Resolved /\ process \in [Process -> RunSet]
    BY <1>1 DEF ListFiles, Process, IInv, Core, RunsSound
  <2>2. process["server"].path \in Path /\ DbOf("server") = databases[process["server"].path]
    BY <2>1, Running
  <2>3. process["server"].path = Merged("server", TRUE)
    BY <2>1, <2>2 DEF Resolved
  <2>4. /\ operator.target \in Path
        /\ 1..operator.listed \subseteq databases[operator.target].recorded
    BY <1>1, <2>1 DEF OperatorSound
  <2>5. operator.target = Merged("cli", TRUE)
    BY <1>1, <2>1, <2>4 DEF Resolved
  <2>6. Merged("cli", TRUE) = Merged("server", TRUE)
    BY <1>1 DEF SameSources, Merged
  <2>7. process'["server"].todo = (1..files.deployed) \ DbOf("server").recorded
    BY <1>1, <2>1 DEF ListFiles, Become, Pending, RunSet
  <2> QED
    BY <2>2, <2>3, <2>4, <2>5, <2>6, <2>7
<1> QED
  BY <1>1, MigrationsInvariant, PTL DEF MigratedBeforehand
=============================================================================
