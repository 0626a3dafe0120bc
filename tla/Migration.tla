----------------------------- MODULE Migration ------------------------------
(***************************************************************************)
(* src/tools/ceasy_cli/src/migration.c: `ceasy db:migrate` applies the SQL *)
(* files of db/migrations to the SQLite database, each file in a           *)
(* transaction that also records its version in schema_migrations.         *)
(* Several runners may run at once (a deploy on two terminals), a runner   *)
(* may be killed, statements may fail, and files may be generated in       *)
(* between.  A file is <<version, name>>: the 14 digits of the second it   *)
(* was generated in (generator.c), and the name that follows them; both    *)
(* are numbers here, and filenames compare as the pairs do.                *)
(***************************************************************************)
EXTENDS Integers, Sequences, FiniteSets, SequencesExt

CONSTANTS
    Runners,      \* processes that run `ceasy db:migrate`
    Versions,     \* the seconds at which files are generated
    Names,        \* the names given to them
    Statements,   \* statements in a migration file
    MaxFiles,     \* bound: files in db/migrations
    MaxFailures   \* bound: failures of files, memory or SQLite, and runners killed

ASSUME BoundsAssumption ==
    /\ Versions \subseteq Nat /\ Names \subseteq Nat
    /\ Statements \in Nat \ {0}
    /\ MaxFiles \in Nat /\ MaxFailures \in Nat
    /\ "none" \notin Runners

Files == Versions \X Names
Version(file) == file[1]
None == "none"

VARIABLES
    files,      \* db/migrations: the well-named files
    broken,     \* those whose last statement SQLite refuses
    stray,      \* is there a .sql file whose name is not a migration's?
    table,      \* does schema_migrations exist?
    recorded,   \* the versions in schema_migrations
    schema,     \* the migration statements applied to the database, in order
    writer,     \* the runner that holds SQLite's write lock
    runner,     \* each runner's place, list of migrations and transaction
    failures    \* failures so far

disk == <<files, broken, stray>>
database == <<table, recorded, schema, writer>>
vars == <<disk, database, runner, failures>>

NoTx == [open |-> FALSE, schema |-> <<>>, recorded |-> {}]
Stopped(result) ==
    [at |-> "idle", list |-> <<>>, index |-> 1, tx |-> NoTx, result |-> result]

Places == {"idle", "open", "create", "check", "begin", "execute", "record",
           "commit", "rollback"}

Transaction ==
    [open : BOOLEAN, schema : Seq(Files \X (1 .. Statements)),
     recorded : SUBSET Versions]
Progress ==
    [at : Places, list : Seq(Files), index : Nat \ {0}, tx : Transaction,
     result : {"none", "failed", "migrated"}]

(* The type of every variable; SQLite has at most one writer, and it is in *)
(* a transaction.                                                          *)
TypeOK ==
    /\ files \subseteq Files /\ broken \subseteq files /\ stray \in BOOLEAN
    /\ table \in BOOLEAN
    /\ recorded \subseteq Versions
    /\ schema \in Seq(Files \X (1 .. Statements))
    /\ writer \in Runners \cup {None}
    /\ runner \in [Runners -> Progress]
    /\ failures \in 0 .. MaxFailures
    /\ \A r \in Runners : writer = r => runner[r].tx.open

Init ==
    /\ files = {} /\ broken = {} /\ stray = FALSE
    /\ table = FALSE /\ recorded = {} /\ schema = <<>> /\ writer = None
    /\ runner = [r \in Runners |-> Stopped("none")]
    /\ failures = 0

-----------------------------------------------------------------------------
(* The developer: `ceasy generate migration` refuses a file that exists. *)

generator_migration ==
    \E file \in Files \ files, isBroken \in BOOLEAN :
        /\ Cardinality(files) < MaxFiles
        /\ files' = files \cup {file}
        /\ broken' = IF isBroken THEN broken \cup {file} ELSE broken
        /\ UNCHANGED <<stray, database, runner, failures>>

(* The developer repairs a file or puts a stray one there or away. *)
Edit ==
    /\ \/ \E file \in broken : broken' = broken \ {file} /\ UNCHANGED stray
       \/ stray' = ~stray /\ UNCHANGED broken
    /\ UNCHANGED <<files, database, runner, failures>>

-----------------------------------------------------------------------------
(* Helpers *)

At(r, place) == runner[r].at = place

Current(r) == runner[r].list[runner[r].index]

Goto(r, place) == runner' = [runner EXCEPT ![r].at = place]

(* The process prints its error, closes the database and returns false. *)
Fail(r) ==
    /\ runner' = [runner EXCEPT ![r] = Stopped("failed")]
    /\ writer' = IF writer = r THEN None ELSE writer
    /\ UNCHANGED <<table, recorded, schema>>

Failure == failures < MaxFailures /\ failures' = failures + 1

(* Mutant: the files are ordered by the name after the version. *)
BeforeByName(f, g) == f[2] < g[2] \/ (f[2] = g[2] /\ f[1] < g[1])

(* migration_compare: strcmp of the names *)
Before(f, g) == f[1] < g[1] \/ (f[1] = g[1] /\ f[2] < g[2])

(* What qsort makes of the names: all of them, each before the next. *)
SortedLists(set) ==
    {list \in [1 .. Cardinality(set) -> set] :
        \A i, j \in 1 .. Cardinality(set) : i < j => Before(list[i], list[j])}

-----------------------------------------------------------------------------
(* migration_run, one action per step that another process can see *)

(* migration_collect reads the directory once; a stray .sql file ends it.  *)
Collect(r) ==
    /\ At(r, "idle")
    /\ IF stray
       THEN runner' = [runner EXCEPT ![r] = Stopped("failed")]
       ELSE \E list \in SortedLists(files) :
                runner' = [runner EXCEPT ![r] =
                              [Stopped("none") EXCEPT !.at = "open", !.list = list]]
    /\ UNCHANGED <<disk, database, failures>>

Open(r) ==
    /\ At(r, "open")
    /\ Goto(r, "create")
    /\ UNCHANGED <<disk, database, failures>>

(* CREATE TABLE IF NOT EXISTS writes only when the table is missing. *)
Create(r) ==
    /\ At(r, "create")
    /\ table \/ writer = None
    /\ table' = TRUE
    /\ Goto(r, "check")
    /\ UNCHANGED <<disk, recorded, schema, writer, failures>>

(* Mutant: the loop ends one migration early. *)
MoreShort(r) == runner[r].index < Len(runner[r].list)

More(r) == runner[r].index <= Len(runner[r].list)

Applied(r) == Version(Current(r)) \in recorded

Skip(r) ==
    /\ At(r, "check") /\ More(r)
    /\ Applied(r)
    /\ runner' = [runner EXCEPT ![r].index = @ + 1]
    /\ UNCHANGED <<disk, database, failures>>

(* The file is read before BEGIN. *)
Read(r) ==
    /\ At(r, "check") /\ More(r)
    /\ ~Applied(r)
    /\ Goto(r, "begin")
    /\ UNCHANGED <<disk, database, failures>>

(* Mutant: the migration runs without BEGIN. *)
BeginMissing(r) ==
    /\ At(r, "begin")
    /\ Goto(r, "execute")
    /\ UNCHANGED <<disk, database, failures>>

(* BEGIN is deferred: it takes no lock. *)
Begin(r) ==
    /\ At(r, "begin")
    /\ runner' = [runner EXCEPT ![r].at = "execute",
                                ![r].tx = [NoTx EXCEPT !.open = TRUE]]
    /\ UNCHANGED <<disk, database, failures>>

MayWrite(r) == writer \in {r, None}

Done(r) == Len(runner[r].tx.schema)

Breaks(r) == Current(r) \in broken /\ Done(r) = Statements - 1

(* Each statement of the file; the first takes the write lock. *)
Execute(r) ==
    /\ At(r, "execute")
    /\ Done(r) < Statements
    /\ MayWrite(r) /\ ~Breaks(r)
    /\ writer' = r
    /\ runner' = [runner EXCEPT
                    ![r].tx.schema = Append(@, <<Current(r), Done(r) + 1>>),
                    ![r].at = IF Done(r) + 1 = Statements THEN "record" ELSE @]
    /\ UNCHANGED <<disk, table, recorded, schema, failures>>

(* Mutant: INSERT OR IGNORE into schema_migrations. *)
ConflictIgnored(r) == FALSE

(* The version is the primary key of schema_migrations. *)
Conflict(r) == Version(Current(r)) \in recorded

Record(r) ==
    /\ At(r, "record")
    /\ ~Conflict(r)
    /\ runner' = [runner EXCEPT ![r].tx.recorded = {Version(Current(r))},
                                ![r].at = "commit"]
    /\ UNCHANGED <<disk, database, failures>>

Commit(r) ==
    /\ At(r, "commit")
    /\ schema' = schema \o runner[r].tx.schema
    /\ recorded' = recorded \cup runner[r].tx.recorded
    /\ writer' = None
    /\ runner' = [runner EXCEPT ![r].at = "check", ![r].index = @ + 1, ![r].tx = NoTx]
    /\ UNCHANGED <<disk, table, failures>>

(* A statement fails: it is wrong, or what it makes is there already, or   *)
(* the write lock was not released within the busy timeout of five         *)
(* seconds, or the version is recorded already.                            *)
Refused(r) ==
    \/ At(r, "execute") /\ Breaks(r)
    \/ At(r, "execute") /\ <<Current(r), Done(r) + 1>> \in Range(schema)
    \/ At(r, "execute") /\ ~MayWrite(r)
    \/ At(r, "record") /\ Conflict(r)

MigrationFails(r) ==
    /\ At(r, "begin") \/ At(r, "execute") \/ At(r, "record") \/ At(r, "commit")
    /\ IF Refused(r) THEN UNCHANGED failures ELSE Failure
    /\ Goto(r, "rollback")
    /\ UNCHANGED <<disk, database>>

(* Mutant: the runner goes on with the next migration after a failure. *)
RollbackContinues(r) ==
    /\ At(r, "rollback")
    /\ runner' = [runner EXCEPT ![r].at = "check", ![r].index = @ + 1, ![r].tx = NoTx]
    /\ writer' = IF writer = r THEN None ELSE writer
    /\ UNCHANGED <<disk, table, recorded, schema, failures>>

(* The runner stops at the first migration that fails. *)
Rollback(r) ==
    /\ At(r, "rollback")
    /\ Fail(r)
    /\ UNCHANGED <<disk, failures>>

(* The directory, the file, the database or schema_migrations cannot be    *)
(* read, or the table is not created within the busy timeout.              *)
RunFails(r) ==
    /\ At(r, "open") \/ At(r, "create") \/ (At(r, "check") /\ More(r))
    /\ IF At(r, "create") /\ ~table /\ writer # None THEN UNCHANGED failures ELSE Failure
    /\ Fail(r)
    /\ UNCHANGED disk

Finish(r) ==
    /\ At(r, "check") /\ ~More(r)
    /\ runner' = [runner EXCEPT ![r] = Stopped("migrated")]
    /\ UNCHANGED <<disk, database, failures>>

(* A killed runner's transaction is undone by the next reader of the WAL. *)
Crash(r) ==
    /\ ~At(r, "idle")
    /\ Failure
    /\ Fail(r)
    /\ UNCHANGED disk

-----------------------------------------------------------------------------
Step(r) ==
    \/ Open(r)
    \/ Create(r)
    \/ Skip(r)
    \/ Read(r)
    \/ Begin(r)
    \/ Execute(r)
    \/ Record(r)
    \/ Commit(r)
    \/ MigrationFails(r)
    \/ Rollback(r)
    \/ RunFails(r)
    \/ Finish(r)

Next ==
    \/ generator_migration
    \/ Edit
    \/ \E r \in Runners : Collect(r) \/ Step(r) \/ Crash(r)

Spec == Init /\ [][Next]_vars

(* A runner is a sequential program that waits at most five seconds for a  *)
(* lock, so it always moves on; somebody keeps running `db:migrate`.       *)
FairSpec == Spec /\ \A r \in Runners : WF_vars(Step(r)) /\ WF_vars(Collect(r))

-----------------------------------------------------------------------------
(* Properties *)

Ran(file) == {i \in DOMAIN schema : schema[i][1] = file}

(* Whatever fails, crashes or runs at the same time, a migration is        *)
(* applied whole, once and in one piece, or not at all, and its version is *)
(* recorded exactly when one of the files with that version was applied    *)
(* (BEGIN, the file, the record and COMMIT of migration_run 250-253).      *)
AppliedOnceAndRecorded ==
    /\ \A file \in Files :
        \/ Ran(file) = {}
        \/ \E start \in DOMAIN schema :
            /\ Ran(file) = start .. start + Statements - 1
            /\ \A i \in Ran(file) : schema[i][2] = i - start + 1
    /\ \A version \in Versions :
        version \in recorded
          <=> Cardinality({file \in Files : Version(file) = version /\ Ran(file) # {}}) = 1

(* "Migrations live under db/migrations and run in filename order"         *)
(* (README.md 22): a runner is at work on a file only when every file that *)
(* it found with an earlier version is recorded.                           *)
FilenameOrder ==
    \A r \in Runners :
        runner[r].at \in {"execute", "record", "commit"} =>
            \A file \in Range(runner[r].list) :
                Version(file) < Version(Current(r)) => Version(file) \in recorded

(* A run that is about to report success has left the version of every     *)
(* file it found in schema_migrations, by itself or by another runner.     *)
SuccessIsComplete ==
    \A r \in Runners : At(r, "check") /\ ~More(r) =>
        \A file \in Range(runner[r].list) : Version(file) \in recorded

(* Once the developer stops breaking things, every migration is applied in *)
(* the end, however the runners get into each other's way: a runner that   *)
(* loses the race fails, and the one it lost to has committed.             *)
EventuallyMigrated ==
    <>[](broken = {} /\ ~stray)
        => <>[](\A file \in files : Version(file) \in recorded)

(* README.md 22: the migrations under db/migrations run.  When a run is    *)
(* about to report success, each file it found has been applied.           *)
EveryFileRuns ==
    \A r \in Runners : At(r, "check") /\ ~More(r) =>
        \A file \in Range(runner[r].list) : Ran(file) # {}
=============================================================================
