----------------------------- MODULE Migrations -----------------------------
(***************************************************************************)
(* How a database gets its schema: the server migrates, seeds and          *)
(* provisions it when it boots (DatabaseModule), and an operator may       *)
(* migrate it beforehand with `pnpm db:migrate' (migrate-cli).  Both use   *)
(* MigrationRunner and keep the files they have applied in _migrations.    *)
(*                                                                         *)
(* Files are numbered in their lexical order.  A file is applied in a      *)
(* transaction of its own, which holds the write lock of its database; no  *)
(* file can be applied to a database twice, because its DDL would find     *)
(* what it creates and _migrations already has its name.  A process may    *)
(* die at any step.  The supervisor starts the server again until too many *)
(* boots were short; a release starts it afresh.                           *)
(***************************************************************************)
EXTENDS Integers, Sequences, FiniteSets, Functions, SequencesExt

CONSTANTS
    Path,       \* database files
    Default,    \* the one env.schema.ts falls back to
    None,       \* a variable that is not set
    Environments, \* what the two processes may find in their environments
    MaxRestarts,  \* max_restarts: the short boots after which the supervisor gives up
    MaxFile,    \* bound on the files ever deployed
    MaxFaults,  \* bound on crashes, lookups that fail and locks that are waited for in vain
    MaxRuns     \* bound on the operator's runs

VARIABLES
    files,      \* the migrations directory: how many, and which of them fail
    databases,  \* [Path -> Database]
    env,        \* of each process, where its DATABASE_PATH comes from
    process,    \* the server and the operator's command
    operator,   \* what the operator asked for, and was told
    supervisor, \* the boots it counts, and whether a release is to restart the server
    faults

vars == <<files, databases, env, process, operator, supervisor, faults>>

Process == {"server", "cli"}
Seeding == 0  \* the seed's name among the files'

\* START_TOKEN; DATABASE_PATH as Doppler has it for the project and the config
\* this environment names; and as its shell has it, or else .env.
Environment == [token : BOOLEAN, secret : Path \cup {None}, local : Path \cup {None}]

ASSUME MigrationsAssumption ==
    /\ Default \in Path /\ None \notin Path
    /\ Environments \subseteq [Process -> Environment]
    /\ MaxRestarts \in Nat \ {0}
    /\ MaxFile \in Nat \ {0} /\ MaxFaults \in Nat /\ MaxRuns \in Nat

\* What was executed on a database, what _migrations says of it, and who writes.
Database ==
    [log : Seq(0..MaxFile), recorded : SUBSET (0..MaxFile), admin : BOOLEAN,
     lock : Process \cup {"free"}]

Idle == [phase |-> "down", path |-> None, listed |-> 0, todo |-> {}]

TypeOK ==
    /\ files.deployed \in 1..MaxFile /\ files.broken \subseteq 1..files.deployed
    /\ \A d \in Path : databases[d] \in Database
    /\ env \in Environments
    /\ \A p \in Process :
          /\ process[p].phase \in {"down", "opened", "applying", "writing",
                                   "seeding", "provisioning", "serving"}
          /\ process[p].path \in Path \cup {None}
          /\ process[p].todo \subseteq 1..MaxFile
          /\ process[p].phase = "writing" <=>
                \E d \in Path : databases[d].lock = p /\ process[p].path = d
    /\ operator.runs \in 0..MaxRuns /\ operator.flag \in Path \cup {None}
    /\ operator.outcome \in {"none", "applied", "failed"}
    /\ supervisor \in [restarts : 0..MaxRestarts, due : BOOLEAN]
    /\ faults \in 0..MaxFaults

-----------------------------------------------------------------------------
(* The environment of a process: its shell and .env, then Doppler over them. *)

Merged(p, reached) ==
    IF env[p].token /\ reached /\ env[p].secret # None THEN env[p].secret
    ELSE IF env[p].local # None THEN env[p].local ELSE Default

\* Mutant: a lookup that fails is passed over.
ResolveTarget_FallsBack(flag, reached) == IF flag # None THEN flag ELSE Merged("cli", reached)

\* resolveTarget: --db, or what its environment says; None when it cannot tell.
ResolveTarget(flag, reached) ==
    IF flag # None THEN flag
    ELSE IF env["cli"].token /\ ~reached THEN None ELSE Merged("cli", reached)

\* inyectEnv and getEnv, before the server opens anything.
GetEnv(reached) ==
    IF env["server"].token /\ ~reached THEN None ELSE Merged("server", reached)

\* A lookup fails only where there is one.
LooksUp(p, reached) ==
    IF reached THEN UNCHANGED faults
    ELSE env[p].token /\ faults < MaxFaults /\ faults' = faults + 1

-----------------------------------------------------------------------------
(* MigrationRunner.run, in either process.                                  *)

DbOf(p)         == databases[process[p].path]
Become(p, r)    == process' = [process EXCEPT ![p] = r]
WriteDb(p, db)  == databases' = [databases EXCEPT ![process[p].path] = db]
Executed(db, f) == [db EXCEPT !.log = Append(@, f), !.recorded = @ \cup {f}]

Pending(recorded) == (1..files.deployed) \ recorded

\* The files are sorted by name, and the loop takes them in that order.
NextFile(todo) == Min(todo)

\* The names known and the files there are, read before any is applied.
ListFiles(p) ==
    /\ process[p].phase = "opened"
    /\ Become(p, [process[p] EXCEPT !.phase = "applying", !.listed = files.deployed,
                                    !.todo = Pending(DbOf(p).recorded)])
    /\ UNCHANGED <<files, databases, env, operator, supervisor, faults>>

BeginFile(p) ==
    /\ process[p].phase = "applying" /\ process[p].todo # {}
    /\ DbOf(p).lock = "free"
    /\ WriteDb(p, [DbOf(p) EXCEPT !.lock = p])
    /\ Become(p, [process[p] EXCEPT !.phase = "writing"])
    /\ UNCHANGED <<files, env, operator, supervisor, faults>>

\* Mutant: a file that is known by now is applied again.
Applies_Again(db, f) == f \notin files.broken

\* A file that was applied in the meantime fails as a broken one does.
Applies(db, f) == f \notin files.broken \cup db.recorded

CommitFile(p) ==
    LET f == NextFile(process[p].todo)
    IN  /\ process[p].phase = "writing" /\ Applies(DbOf(p), f)
        /\ WriteDb(p, [Executed(DbOf(p), f) EXCEPT !.lock = "free"])
        /\ Become(p, [process[p] EXCEPT !.phase = "applying", !.todo = @ \ {f}])
        /\ operator' = IF p = "server" THEN operator
                       ELSE [operator EXCEPT !.applied = Append(@, f)]
        /\ UNCHANGED <<files, env, supervisor, faults>>

\* A server that is gone counts, if it did not live for min_uptime.
Counted(p) ==
    IF p = "server" THEN \E short \in {0, 1} : supervisor' = [supervisor EXCEPT !.restarts = @ + short]
    ELSE UNCHANGED supervisor

\* What the operator is told of a run that is over.
Ends(p, outcome) ==
    /\ Become(p, Idle) /\ Counted(p)
    /\ operator' = IF p = "server" THEN operator
                   ELSE [operator EXCEPT !.outcome = outcome, !.listed = process[p].listed]

\* Mutant: the transaction stays open.
FileFails_KeepsLock(p) ==
    /\ process[p].phase = "writing" /\ ~Applies(DbOf(p), NextFile(process[p].todo))
    /\ Ends(p, "failed")
    /\ UNCHANGED <<files, databases, env, faults>>

\* The file is rolled back; the run is over, and so is the boot.
FileFails(p) ==
    /\ process[p].phase = "writing" /\ ~Applies(DbOf(p), NextFile(process[p].todo))
    /\ WriteDb(p, [DbOf(p) EXCEPT !.lock = "free"])
    /\ Ends(p, "failed")
    /\ UNCHANGED <<files, env, faults>>

\* SQLITE_BUSY: the other process holds the lock for longer than one waits.
Busy(p) ==
    /\ \/ process[p].phase = "applying" /\ process[p].todo # {}
       \/ process[p].phase \in {"seeding", "provisioning"}
    /\ DbOf(p).lock \notin {"free", p}
    /\ faults < MaxFaults /\ faults' = faults + 1
    /\ Ends(p, "failed")
    /\ UNCHANGED <<files, databases, env>>

\* A process is gone, and with it the transaction it has open.
RollsBack(p) ==
    WriteDb(p, IF DbOf(p).lock = p THEN [DbOf(p) EXCEPT !.lock = "free"] ELSE DbOf(p))

Crash(p) ==
    /\ process[p].phase # "down" /\ faults < MaxFaults
    /\ RollsBack(p)
    /\ Ends(p, "none")
    /\ faults' = faults + 1
    /\ UNCHANGED <<files, env>>

Run(p) == ListFiles(p) \/ BeginFile(p) \/ CommitFile(p) \/ FileFails(p) \/ Busy(p)

-----------------------------------------------------------------------------
(* The boot of the server.                                                  *)

\* inyectEnv, getEnv and the constructor of DatabaseService, unless the
\* supervisor has given up.
Boot(reached) ==
    /\ process["server"].phase = "down" /\ supervisor.restarts < MaxRestarts
    /\ LooksUp("server", reached)
    /\ LET target == GetEnv(reached)
       IN  IF target = None THEN UNCHANGED process /\ Counted("server")
           ELSE /\ Become("server", [Idle EXCEPT !.phase = "opened", !.path = target])
                /\ UNCHANGED supervisor
    /\ UNCHANGED <<files, databases, env, operator>>

\* One step of the boot, which finds the database not locked.
Booting(from, to, db) ==
    /\ process["server"].phase = from
    /\ DbOf("server").lock = "free"
    /\ WriteDb("server", db)
    /\ Become("server", [process["server"] EXCEPT !.phase = to])
    /\ UNCHANGED <<files, env, operator, supervisor, faults>>

Migrated ==
    /\ process["server"].phase = "applying" /\ process["server"].todo = {}
    /\ Become("server", [process["server"] EXCEPT !.phase = "seeding"])
    /\ UNCHANGED <<files, databases, env, operator, supervisor, faults>>

\* seedProvidersFromFile: one transaction, which records itself.
Seed ==
    LET db == DbOf("server")
    IN  Booting("seeding", "provisioning",
                IF Seeding \in db.recorded THEN db ELSE Executed(db, Seeding))

\* ensureDefaultAdminClient, if the table is empty.
Provision == Booting("provisioning", "serving", [DbOf("server") EXCEPT !.admin = TRUE])

-----------------------------------------------------------------------------
(* pnpm db:migrate, in the mode that applies.                               *)

\* What --db names, if anything.
Flag == Path \cup {None}

\* What is known of a run that has just begun, or ended before it began.
Asks(flag, target, outcome) ==
    /\ process["cli"].phase = "down" /\ operator.runs < MaxRuns
    /\ operator' = [runs |-> operator.runs + 1, flag |-> flag, backup |-> <<>>,
                    copied |-> FALSE, applied |-> <<>>, target |-> target, listed |-> 0,
                    outcome |-> outcome]

RunCommand(flag, reached) ==
    LET target == ResolveTarget(flag, reached)
    IN  /\ target # None /\ (flag # None => reached)
        /\ Asks(flag, target, "none")
        /\ LooksUp("cli", reached)
        /\ Become("cli", [Idle EXCEPT !.phase = "opened", !.path = target])
        /\ UNCHANGED <<files, databases, env, supervisor>>

\* The secrets cannot be loaded: the command ends before it opens anything.
SecretsFailure(flag) ==
    /\ ResolveTarget(flag, FALSE) = None
    /\ Asks(flag, None, "failed")
    /\ LooksUp("cli", FALSE)
    /\ UNCHANGED <<files, databases, env, process, supervisor>>

\* Mutant: the copy is taken when the files are applied.
Backup_After ==
    /\ process["cli"].phase = "applying" /\ process["cli"].todo = {} /\ ~operator.copied
    /\ operator' = [operator EXCEPT !.backup = DbOf("cli").log, !.copied = TRUE]
    /\ UNCHANGED <<files, databases, env, process, supervisor, faults>>

\* createBackup, when --backup asks for it: a copy under a name of its own.
Backup ==
    /\ process["cli"].phase = "opened" /\ ~operator.copied
    /\ operator' = [operator EXCEPT !.backup = DbOf("cli").log, !.copied = TRUE]
    /\ UNCHANGED <<files, databases, env, process, supervisor, faults>>

\* No copy, no migration: the command ends before it applies anything.
BackupFails ==
    /\ process["cli"].phase = "opened" /\ ~operator.copied
    /\ Ends("cli", "failed")
    /\ UNCHANGED <<files, databases, env, faults>>

CommandEnds ==
    /\ process["cli"].phase = "applying" /\ process["cli"].todo = {}
    /\ Ends("cli", "applied")
    /\ UNCHANGED <<files, databases, env, faults>>

-----------------------------------------------------------------------------
(* Releases.                                                                *)

\* A release brings a file, which may be broken, and a later one mends it; the
\* files are in place before the server is restarted.
Deploy(broken) ==
    /\ files.deployed < MaxFile
    /\ files' = [deployed |-> files.deployed + 1,
                 broken |-> files.broken \cup (IF broken THEN {files.deployed + 1} ELSE {})]
    /\ supervisor' = [supervisor EXCEPT !.due = TRUE]
    /\ UNCHANGED <<databases, env, process, operator, faults>>

Mend ==
    /\ files.broken # {} /\ files' = [files EXCEPT !.broken = {}]
    /\ supervisor' = [supervisor EXCEPT !.due = TRUE]
    /\ UNCHANGED <<databases, env, process, operator, faults>>

\* What pm2 delete does to the server.
Deleted ==
    IF process["server"].phase = "down" THEN UNCHANGED <<databases, process>>
    ELSE RollsBack("server") /\ Become("server", Idle)


\* pm2 delete and pm2 start, the last the release does: nothing counted so far.
Restart ==
    /\ supervisor.due /\ supervisor' = [restarts |-> 0, due |-> FALSE]
    /\ Deleted
    /\ UNCHANGED <<files, env, operator, faults>>

Init ==
    /\ files = [deployed |-> 1, broken |-> {}]
    /\ databases = [d \in Path |->
          [log |-> <<>>, recorded |-> {}, admin |-> FALSE, lock |-> "free"]]
    /\ env \in Environments
    /\ process = [p \in Process |-> Idle]
    /\ operator = [runs |-> 0, flag |-> None, backup |-> <<>>, copied |-> FALSE,
                   applied |-> <<>>, target |-> None, listed |-> 0, outcome |-> "none"]
    /\ supervisor = [restarts |-> 0, due |-> FALSE]
    /\ faults = 0

ServerStep == (\E reached \in BOOLEAN : Boot(reached)) \/ Run("server") \/ Migrated \/ Seed \/ Provision
CliStep    == Run("cli") \/ Backup \/ BackupFails \/ CommandEnds

Next ==
    \/ ServerStep \/ CliStep \/ Mend \/ Restart
    \/ \E p \in Process : Crash(p)
    \/ \E flag \in Flag : SecretsFailure(flag) \/ \E reached \in BOOLEAN : RunCommand(flag, reached)
    \/ \E broken \in BOOLEAN : Deploy(broken)

Spec == Init /\ [][Next]_vars

\* A process that runs goes on; the supervisor starts a server that is down as
\* long as it has not given up; a release that has begun is finished.
FairSpec == Spec /\ WF_vars(ServerStep) /\ WF_vars(CliStep) /\ WF_vars(Restart)

(***************************************************************************)
(* Properties                                                              *)
(***************************************************************************)

\* Whatever the server and the command do at once, and wherever they die, each
\* file and the seed is executed at most once, files in their order, and
\* _migrations says exactly what was executed.
OnceAndInOrder ==
    \A d \in Path :
        LET db == databases[d]
        IN  /\ IsInjective(db.log) /\ ToSet(db.log) = db.recorded
            /\ \A i, j \in DOMAIN db.log :
                  i < j /\ Seeding \notin {db.log[i], db.log[j]} => db.log[i] < db.log[j]

\* A server that serves has every file it found when it booted, the seed and a
\* client; a command that reported success leaves no file of its listing out;
\* and its backup is the database before it.
ReadyIsComplete ==
    LET server == process["server"]  db == DbOf("server")
    IN  /\ server.phase = "serving" =>
              0..server.listed \subseteq db.recorded /\ db.admin
        /\ operator.copied => ToSet(operator.backup) \cap ToSet(operator.applied) = {}
        /\ operator.outcome = "applied" =>
              1..operator.listed \subseteq databases[operator.target].recorded

\* The two environments agree where it counts: on all of it, or on what Doppler
\* says, whatever their shells and .env add.
SameSources ==
    \/ env["cli"] = env["server"]
    \/ /\ env["cli"].token /\ env["server"].token
       /\ env["cli"].secret # None /\ env["cli"].secret = env["server"].secret

\* What a command without --db reported as applied, the server finds applied
\* when it boots, whichever lookups failed before and whoever died in between.
MigratedBeforehand ==
    [][ListFiles("server") /\ SameSources /\ operator.flag = None /\ operator.outcome = "applied" =>
          process'["server"].todo \cap 1..operator.listed = {}]_vars

=============================================================================
