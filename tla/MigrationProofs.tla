-------------------------- MODULE MigrationProofs ---------------------------
(***************************************************************************)
(* What holds of Migration for every set of runners, every directory and   *)
(* every number of failures.                                               *)
(***************************************************************************)
EXTENDS Migration, SequenceTheorems, FiniteSetTheorems, TLAPS

-----------------------------------------------------------------------------
(* The invariant.                                                          *)

InTransaction == {"execute", "record", "commit"}

(* What a runner's transaction holds, by the place the runner is at: the   *)
(* first statements of the current file, whole from "record" on, under the *)
(* write lock, and at "commit" a version that nobody has recorded since.   *)
AtWork(r) ==
    /\ At(r, "begin") \/ runner[r].at \in InTransaction => More(r)
    /\ runner[r].tx.open => runner[r].at \in InTransaction \cup {"rollback"}
    /\ runner[r].at \in InTransaction =>
        /\ runner[r].tx.open
        /\ \A i \in 1 .. Done(r) : runner[r].tx.schema[i] = <<Current(r), i>>
        /\ Done(r) # 0 => writer = r
    /\ At(r, "execute") => Done(r) < Statements
    /\ At(r, "record") \/ At(r, "commit") => Done(r) = Statements
    /\ At(r, "commit") =>
        /\ Version(Current(r)) \notin recorded
        /\ runner[r].tx.recorded = {Version(Current(r))}

(* A runner's list is in the order of the names, and what it has passed is *)
(* recorded.                                                               *)
InOrder(r) ==
    /\ \A i, j \in DOMAIN runner[r].list :
        i < j => Before(runner[r].list[i], runner[r].list[j])
    /\ \A i \in DOMAIN runner[r].list :
        i < runner[r].index => Version(runner[r].list[i]) \in recorded

(* A file is in the database whole and in one piece, or not at all. *)
Whole(file) ==
    \/ Ran(file) = {}
    \/ \E start \in DOMAIN schema :
        /\ Ran(file) = start .. start + Statements - 1
        /\ \A i \in Ran(file) : schema[i][2] = i - start + 1

(* The files of a version that are in the database. *)
RanAt(version) == {file \in Files : Version(file) = version /\ Ran(file) # {}}

Recorded ==
    \A version \in Versions :
        /\ version \in recorded <=> RanAt(version) # {}
        /\ \A f, g \in RanAt(version) : f = g

IInv ==
    /\ TypeOK
    /\ IsFiniteSet(files)
    /\ \A r \in Runners : AtWork(r) /\ InOrder(r)
    /\ \A file \in Files : Whole(file)
    /\ Recorded

-----------------------------------------------------------------------------
(* Types.                                                                  *)

(* No transaction is open in a runner that has stopped. *)
LEMMA NoTxType == NoTx \in Transaction /\ NoTx.schema = <<>> /\ ~NoTx.open
  BY DEF NoTx, Transaction

(* A runner that has stopped is at the start, with no list. *)
LEMMA StoppedType ==
  ASSUME NEW result \in {"none", "failed", "migrated"}
  PROVE  /\ Stopped(result) \in Progress
         /\ Stopped(result).at = "idle"
         /\ Stopped(result).list = <<>>
         /\ Stopped(result).index = 1
         /\ Stopped(result).tx = NoTx
  BY NoTxType DEF Stopped, Progress, Places

(* Statements is a positive number, and no runner is called "none". *)
LEMMA Bounds == Statements \in Nat /\ Statements > 0 /\ None \notin Runners
  BY BoundsAssumption DEF None

(* The current file is one of the list's while there is more to do. *)
LEMMA CurrentType ==
  ASSUME TypeOK, NEW r \in Runners, More(r)
  PROVE  /\ runner[r].index \in DOMAIN runner[r].list
         /\ Current(r) \in Files
         /\ Version(Current(r)) \in Versions
<1>1. /\ runner[r].list \in Seq(Files) /\ runner[r].index \in Nat \ {0}
  BY DEF TypeOK, Progress
<1>2. runner[r].index \in 1 .. Len(runner[r].list)
  BY <1>1, LenProperties DEF More
<1> QED
  BY <1>1, <1>2, LenProperties DEF Current, Files, Version

(* The list that qsort makes is a sequence of the files, in order. *)
LEMMA SortedType ==
  ASSUME TypeOK, IsFiniteSet(files), NEW list \in SortedLists(files)
  PROVE  /\ list \in Seq(Files)
         /\ \A i, j \in DOMAIN list : i < j => Before(list[i], list[j])
<1>1. Cardinality(files) \in Nat
  BY FS_CardinalityType
<1>2. list \in [1 .. Cardinality(files) -> files]
  BY DEF SortedLists
<1>3. list \in [1 .. Cardinality(files) -> Files]
  BY <1>2 DEF TypeOK
<1>4. list \in Seq(Files)
  BY <1>1, <1>3, IsASeq
<1> QED
  BY <1>2, <1>4 DEF SortedLists

-----------------------------------------------------------------------------
(* A step of one runner leaves the others' part of the invariant alone.    *)

(* What is written to the database while a runner holds no lock and is not *)
(* about to commit does not disturb it.                                    *)
LEMMA OthersKeep ==
  ASSUME TypeOK, NEW q \in Runners, AtWork(q), InOrder(q),
         runner'[q] = runner[q],
         recorded \subseteq recorded',
         writer = q => writer' = q,
         At(q, "commit") => recorded' = recorded
  PROVE  AtWork(q)' /\ InOrder(q)'
<1>1. At(q, "begin")' = At(q, "begin") /\ At(q, "execute")' = At(q, "execute")
      /\ At(q, "record")' = At(q, "record") /\ At(q, "commit")' = At(q, "commit")
      /\ More(q)' = More(q) /\ Done(q)' = Done(q) /\ Current(q)' = Current(q)
  BY DEF At, More, Done, Current
<1>2. InOrder(q)'
  BY DEF InOrder
<1>3. AtWork(q)'
  BY <1>1 DEF AtWork, Version
<1> QED
  BY <1>2, <1>3

(* The pieces in the database depend on what is stored there only. *)
LEMMA PiecesKeep ==
  ASSUME \A file \in Files : Whole(file), Recorded, UNCHANGED <<schema, recorded>>
  PROVE  (\A file \in Files : Whole(file)') /\ Recorded'
<1>1. \A file : Ran(file)' = Ran(file)
  BY DEF Ran
<1>2. \A version : RanAt(version)' = RanAt(version)
  BY <1>1 DEF RanAt
<1>3. \A file \in Files : Whole(file)'
  BY <1>1 DEF Whole
<1>4. Recorded'
  BY <1>2 DEF Recorded
<1> QED
  BY <1>3, <1>4

(* A step of one runner that stores nothing keeps the invariant, if it     *)
(* keeps the runner's own part.                                            *)
LEMMA OneRunner ==
  ASSUME IInv, NEW r \in Runners, NEW new \in Progress,
         runner' = [runner EXCEPT ![r] = new],
         AtWork(r)', InOrder(r)',
         UNCHANGED <<disk, recorded, schema>>,
         table' \in BOOLEAN, failures' \in 0 .. MaxFailures,
         \/ writer' = writer
         \/ writer' = r /\ writer \in {r, None}
         \/ writer = r /\ writer' = None,
         writer' = r => new.tx.open
  PROVE  IInv'
<1>1. TypeOK /\ (\A q \in Runners : AtWork(q) /\ InOrder(q))
  BY DEF IInv
<1>2. /\ runner \in [Runners -> Progress] /\ runner' \in [Runners -> Progress]
      /\ runner'[r] = new /\ \A q \in Runners \ {r} : runner'[q] = runner[q]
  BY <1>1 DEF TypeOK
<1>3. \A q \in Runners : AtWork(q)' /\ InOrder(q)'
  <2> SUFFICES ASSUME NEW q \in Runners \ {r}
               PROVE  AtWork(q)' /\ InOrder(q)'
    OBVIOUS
  <2>1. writer = q => writer' = q
    BY Bounds
  <2> QED
    BY <1>1, <1>2, <2>1, OthersKeep
<1>4. TypeOK'
  <2>1. writer' \in Runners \cup {None}
    BY <1>1 DEF TypeOK
  <2>2. \A q \in Runners : writer' = q => runner'[q].tx.open
    BY <1>1, <1>2, Bounds DEF TypeOK
  <2> QED
    BY <1>1, <1>2, <2>1, <2>2 DEF TypeOK, disk
<1>5. IsFiniteSet(files)' /\ (\A file \in Files : Whole(file)') /\ Recorded'
  BY PiecesKeep DEF IInv, disk
<1> QED
  BY <1>3, <1>4, <1>5 DEF IInv

-----------------------------------------------------------------------------
(* The developer.                                                          *)

(* The runners' part of the invariant is about the database only. *)
LEMMA DeveloperKeeps == IInv /\ (generator_migration \/ Edit) => IInv'
<1> SUFFICES ASSUME IInv, generator_migration \/ Edit
             PROVE  IInv'
  OBVIOUS
<1>1. UNCHANGED <<runner, failures, table, recorded, schema, writer>>
  BY DEF generator_migration, Edit, database
<1>2. TypeOK' /\ IsFiniteSet(files)'
  <2>1. CASE generator_migration
    <3>1. PICK file \in Files \ files : files' = files \cup {file}
      BY <2>1 DEF generator_migration
    <3>2. IsFiniteSet(files')
      BY <3>1, FS_AddElement DEF IInv
    <3>3. /\ files' \subseteq Files /\ broken' \subseteq files'
          /\ stray' = stray
      BY <2>1 DEF generator_migration, IInv, TypeOK
    <3> QED
      BY <1>1, <3>2, <3>3 DEF IInv, TypeOK
  <2>2. CASE Edit
    BY <1>1, <2>2 DEF Edit, IInv, TypeOK
  <2> QED
    BY <2>1, <2>2
<1>3. \A r \in Runners : AtWork(r)' /\ InOrder(r)'
  BY <1>1, OthersKeep DEF IInv
<1>4. (\A file \in Files : Whole(file)') /\ Recorded'
  BY <1>1, PiecesKeep DEF IInv
<1> QED
  BY <1>2, <1>3, <1>4 DEF IInv

-----------------------------------------------------------------------------
(* The steps of a run that store nothing.                                  *)

(* What the invariant says of one runner, with its type. *)
LEMMA Known ==
  ASSUME IInv, NEW r \in Runners
  PROVE  /\ TypeOK /\ AtWork(r) /\ InOrder(r)
         /\ runner \in [Runners -> Progress] /\ runner[r] \in Progress
         /\ runner[r].at \in Places /\ runner[r].list \in Seq(Files)
         /\ runner[r].index \in Nat \ {0} /\ runner[r].tx \in Transaction
         /\ runner[r].tx.schema \in Seq(Files \X (1 .. Statements))
         /\ Done(r) \in Nat
         /\ writer = r => runner[r].tx.open
         /\ table \in BOOLEAN /\ failures \in 0 .. MaxFailures
<1>1. TypeOK /\ AtWork(r) /\ InOrder(r)
  BY DEF IInv
<1>2. runner \in [Runners -> Progress] /\ runner[r] \in Progress
  BY <1>1 DEF TypeOK
<1>3. /\ runner[r].at \in Places /\ runner[r].list \in Seq(Files)
      /\ runner[r].index \in Nat \ {0} /\ runner[r].tx \in Transaction
  BY <1>2 DEF Progress
<1>4. runner[r].tx.schema \in Seq(Files \X (1 .. Statements))
  BY <1>3 DEF Transaction
<1>5. Done(r) \in Nat
  BY <1>4, LenProperties DEF Done
<1> QED
  BY <1>1, <1>2, <1>3, <1>4, <1>5 DEF TypeOK

(* A runner that moves on, its list and transaction as they were, keeps    *)
(* the invariant if its new place allows what it has.                      *)
LEMMA Moves ==
  ASSUME IInv, NEW r \in Runners, NEW place \in Places, Goto(r, place),
         place = "begin" => More(r),
         place \notin InTransaction,
         runner[r].tx.open => place = "rollback",
         UNCHANGED <<disk, recorded, schema, writer>>,
         table' \in BOOLEAN, failures' \in 0 .. MaxFailures
  PROVE  IInv'
<1> DEFINE new == [runner[r] EXCEPT !.at = place]
<1>1. /\ new \in Progress /\ runner' = [runner EXCEPT ![r] = new]
      /\ new.at = place /\ new.list = runner[r].list /\ new.index = runner[r].index
      /\ new.tx = runner[r].tx
  BY Known DEF Goto, Progress
<1> HIDE DEF new
<1>2. runner'[r] = new
  BY <1>1, Known
<1>3. AtWork(r)'
  BY <1>1, <1>2 DEF AtWork, At, InTransaction, More
<1>4. InOrder(r)'
  BY <1>1, <1>2, Known DEF InOrder
<1>5. writer' = r => new.tx.open
  BY <1>1, Known
<1> QED
  BY <1>1, <1>3, <1>4, <1>5, OneRunner

(* A runner that stops leaves an idle process and no lock behind. *)
LEMMA Stops ==
  ASSUME IInv, NEW r \in Runners, NEW result \in {"none", "failed", "migrated"},
         runner' = [runner EXCEPT ![r] = Stopped(result)],
         writer' = (IF writer = r THEN None ELSE writer),
         UNCHANGED <<disk, table, recorded, schema>>,
         failures' \in 0 .. MaxFailures
  PROVE  IInv'
<1>1. runner'[r] = Stopped(result)
  BY Known
<1>2. AtWork(r)' /\ InOrder(r)'
  BY <1>1, StoppedType, NoTxType DEF AtWork, InOrder, At, InTransaction
<1>3. writer' # r
  BY Bounds
<1> QED
  BY <1>2, <1>3, StoppedType, Known, OneRunner

(* A runner without a transaction is not the writer. *)
LEMMA NoLock ==
  ASSUME IInv, NEW r \in Runners, ~runner[r].tx.open
  PROVE  writer # r
  BY Known

(* Every step of a run before BEGIN and after its end. *)
LEMMA OutsideTransaction ==
  ASSUME IInv, NEW r \in Runners,
         \/ Collect(r) \/ Open(r) \/ Create(r) \/ Skip(r) \/ Read(r)
         \/ RunFails(r) \/ Finish(r)
  PROVE  IInv'
<1> USE Known
<1>1. ~runner[r].tx.open /\ writer # r
  BY NoLock DEF Collect, Open, Create, Skip, Read, RunFails, Finish, AtWork, At, InTransaction
<1>2. CASE Collect(r)
  <2>1. CASE stray
    BY <1>1, <1>2, <2>1, Stops DEF Collect, database
  <2>2. CASE ~stray
    <3>1. PICK list \in SortedLists(files) :
             runner' = [runner EXCEPT ![r] =
                          [Stopped("none") EXCEPT !.at = "open", !.list = list]]
      BY <1>2, <2>2 DEF Collect
    <3> DEFINE new == [Stopped("none") EXCEPT !.at = "open", !.list = list]
    <3>2. /\ list \in Seq(Files)
          /\ \A i, j \in DOMAIN list : i < j => Before(list[i], list[j])
      BY SortedType DEF IInv
    <3>3. /\ new \in Progress /\ new.at = "open" /\ new.list = list
          /\ new.index = 1 /\ new.tx = NoTx
      BY <3>2, StoppedType DEF Progress, Places
    <3>4. runner' = [runner EXCEPT ![r] = new]
      BY <3>1
    <3> HIDE DEF new
    <3>5. runner'[r] = new
      BY <3>4
    <3>6. AtWork(r)'
      BY <3>3, <3>5, NoTxType DEF AtWork, At, InTransaction
    <3>7. InOrder(r)'
      BY <3>2, <3>3, <3>5, LenProperties DEF InOrder
    <3>8. UNCHANGED <<disk, table, recorded, schema, writer, failures>>
      BY <1>2 DEF Collect, database
    <3> QED
      BY <1>1, <3>3, <3>4, <3>6, <3>7, <3>8, OneRunner
  <2> QED
    BY <2>1, <2>2
<1>3. CASE Open(r)
  BY <1>1, <1>3, Moves DEF Open, Places, InTransaction, database
<1>4. CASE Create(r)
  BY <1>1, <1>4, Moves DEF Create, Places, InTransaction
<1>5. CASE Skip(r)
  <2> DEFINE new == [runner[r] EXCEPT !.index = @ + 1]
  <2>1. /\ new \in Progress /\ new.at = runner[r].at /\ new.list = runner[r].list
        /\ new.index = runner[r].index + 1 /\ new.tx = runner[r].tx
    <3>1. runner[r] \in Progress /\ runner[r].index + 1 \in Nat \ {0}
      OBVIOUS
    <3> QED
      BY <3>1 DEF Progress
  <2>2. runner' = [runner EXCEPT ![r] = new]
    BY <1>5 DEF Skip
  <2> HIDE DEF new
  <2>3. runner'[r] = new
    BY <2>2
  <2>4. UNCHANGED <<disk, table, recorded, schema, writer, failures>>
    BY <1>5 DEF Skip, database
  <2>5. AtWork(r)'
    BY <1>1, <1>5, <2>1, <2>3 DEF Skip, AtWork, At, InTransaction
  <2>6. InOrder(r)'
    <3> SUFFICES ASSUME NEW i \in DOMAIN runner[r].list, i < runner[r].index + 1
                 PROVE  Version(runner[r].list[i]) \in recorded
      BY <2>1, <2>3, <2>4 DEF InOrder
    <3>1. i \in Nat
      BY LenProperties
    <3>2. CASE i = runner[r].index
      BY <1>5, <3>2 DEF Skip, Applied, Current
    <3>3. CASE i < runner[r].index
      BY <3>3 DEF InOrder
    <3> QED
      BY <3>1, <3>2, <3>3
  <2> QED
    BY <1>1, <2>1, <2>2, <2>4, <2>5, <2>6, OneRunner
<1>6. CASE Read(r)
  BY <1>1, <1>6, Moves DEF Read, Places, InTransaction, database
<1>7. CASE RunFails(r)
  <2>1. failures' \in 0 .. MaxFailures
    BY <1>7, BoundsAssumption DEF RunFails, Failure
  <2> QED
    BY <1>7, <2>1, Stops DEF RunFails, Fail
<1>8. CASE Finish(r)
  BY <1>1, <1>8, Stops DEF Finish, database
<1> QED
  BY <1>2, <1>3, <1>4, <1>5, <1>6, <1>7, <1>8

-----------------------------------------------------------------------------
(* The transaction of one migration.                                       *)

(* BEGIN, the statements and the record of a migration store nothing. *)
LEMMA InsideTransaction ==
  ASSUME IInv, NEW r \in Runners, Begin(r) \/ Execute(r) \/ Record(r)
  PROVE  IInv'
<1> USE Known
<1>1. CASE Begin(r)
  <2> DEFINE begun == [NoTx EXCEPT !.open = TRUE]
             new == [runner[r] EXCEPT !.at = "execute", !.tx = begun]
  <2>1. begun \in Transaction /\ begun.open /\ begun.schema = <<>>
    BY NoTxType DEF Transaction
  <2>2. runner' = [runner EXCEPT ![r] = new]
    BY <1>1 DEF Begin
  <2> HIDE DEF begun
  <2>3. /\ new \in Progress /\ new.at = "execute" /\ new.list = runner[r].list
        /\ new.index = runner[r].index /\ new.tx = begun
    BY <2>1 DEF Progress, Places
  <2> HIDE DEF new
  <2>4. runner'[r] = new
    BY <2>2
  <2>5. UNCHANGED <<disk, table, recorded, schema, writer, failures>>
    BY <1>1 DEF Begin, database
  <2>6. Done(r)' = 0 /\ More(r)'
    BY <1>1, <2>1, <2>3, <2>4, EmptySeq DEF Done, More, Begin, AtWork
  <2>7. AtWork(r)'
    BY <2>1, <2>3, <2>4, <2>6, Bounds DEF AtWork, At, InTransaction
  <2>8. InOrder(r)'
    BY <2>3, <2>4, <2>5 DEF InOrder
  <2> QED
    BY <2>1, <2>2, <2>3, <2>5, <2>7, <2>8, OneRunner
<1>2. CASE Execute(r)
  <2> DEFINE text == <<Current(r), Done(r) + 1>>
             longer == Append(runner[r].tx.schema, text)
             tx == [runner[r].tx EXCEPT !.schema = longer]
             place == IF Done(r) + 1 = Statements THEN "record" ELSE "execute"
             new == [runner[r] EXCEPT !.tx = tx, !.at = place]
  <2>1. More(r) /\ runner[r].at = "execute" /\ runner[r].tx.open /\ Done(r) < Statements
    BY <1>2 DEF Execute, At, AtWork, InTransaction
  <2>2. text \in Files \X (1 .. Statements)
    BY <2>1, CurrentType, Bounds
  <2>3. /\ longer \in Seq(Files \X (1 .. Statements)) /\ Len(longer) = Done(r) + 1
        /\ \A i \in 1 .. Done(r) : longer[i] = runner[r].tx.schema[i]
        /\ longer[Done(r) + 1] = text
    BY <2>2, AppendProperties DEF Done
  <2>4. runner' = [runner EXCEPT ![r] = new]
    BY <1>2 DEF Execute, At
  <2>5. tx \in Transaction /\ tx.open /\ tx.schema = longer
    BY <2>1, <2>3 DEF Transaction
  <2> HIDE DEF tx, longer
  <2>6. /\ new \in Progress /\ new.at = place /\ new.list = runner[r].list
        /\ new.index = runner[r].index /\ new.tx = tx
    BY <2>5 DEF Progress, Places
  <2> HIDE DEF new
  <2>7. runner'[r] = new
    BY <2>4
  <2>8. /\ UNCHANGED <<disk, table, recorded, schema, failures>>
        /\ writer' = r /\ writer \in {r, None}
    BY <1>2 DEF Execute, MayWrite
  <2>9. Done(r)' = Done(r) + 1 /\ More(r)' /\ Current(r)' = Current(r)
    BY <2>1, <2>3, <2>5, <2>6, <2>7 DEF Done, More, Current
  <2>10. \A i \in 1 .. Done(r) + 1 : longer[i] = <<Current(r), i>>
    <3>1. \A i \in 1 .. Done(r) : runner[r].tx.schema[i] = <<Current(r), i>>
      BY <2>1 DEF AtWork, InTransaction
    <3> SUFFICES ASSUME NEW i \in 1 .. Done(r) + 1
                 PROVE  longer[i] = <<Current(r), i>>
      OBVIOUS
    <3>2. CASE i = Done(r) + 1
      BY <2>3, <3>2
    <3>3. CASE i \in 1 .. Done(r)
      BY <2>3, <3>1, <3>3
    <3>4. Done(r) \in Nat
      OBVIOUS
    <3> QED
      BY <3>2, <3>3, <3>4
  <2>11. AtWork(r)'
    <3>1. /\ runner'[r].at = place /\ runner'[r].tx.open /\ runner'[r].tx.schema = longer
          /\ Done(r) \in Nat /\ Statements \in Nat
      BY <2>5, <2>6, <2>7, Bounds
    <3>2. /\ place \in {"execute", "record"}
          /\ place = "execute" => Done(r) + 1 < Statements
          /\ place = "record" => Done(r) + 1 = Statements
      BY <2>1, <3>1
    <3> QED
      BY <2>8, <2>9, <2>10, <3>1, <3>2 DEF AtWork, At, InTransaction
  <2>12. InOrder(r)'
    BY <2>6, <2>7, <2>8 DEF InOrder
  <2> QED
    BY <2>4, <2>5, <2>6, <2>8, <2>11, <2>12, OneRunner
<1>3. CASE Record(r)
  <2> DEFINE tx == [runner[r].tx EXCEPT !.recorded = {Version(Current(r))}]
             new == [runner[r] EXCEPT !.tx = tx, !.at = "commit"]
  <2>1. /\ More(r) /\ runner[r].at = "record" /\ runner[r].tx.open /\ Done(r) = Statements
        /\ Version(Current(r)) \in Versions /\ Version(Current(r)) \notin recorded
    BY <1>3, CurrentType DEF Record, Conflict, At, AtWork, InTransaction
  <2>2. runner' = [runner EXCEPT ![r] = new]
    BY <1>3 DEF Record
  <2>3. /\ tx \in Transaction /\ tx.open /\ tx.schema = runner[r].tx.schema
        /\ tx.recorded = {Version(Current(r))}
    BY <2>1 DEF Transaction
  <2> HIDE DEF tx
  <2>4. /\ new \in Progress /\ new.at = "commit" /\ new.list = runner[r].list
        /\ new.index = runner[r].index /\ new.tx = tx
    BY <2>3 DEF Progress, Places
  <2> HIDE DEF new
  <2>5. runner'[r] = new
    BY <2>2
  <2>6. UNCHANGED <<disk, table, recorded, schema, writer, failures>>
    BY <1>3 DEF Record, database
  <2>7. Done(r)' = Done(r) /\ More(r)' /\ Current(r)' = Current(r)
    BY <2>1, <2>3, <2>4, <2>5 DEF Done, More, Current
  <2>8. AtWork(r)'
    BY <2>1, <2>3, <2>4, <2>5, <2>6, <2>7 DEF AtWork, At, InTransaction, Version
  <2>9. InOrder(r)'
    BY <2>4, <2>5, <2>6 DEF InOrder
  <2> QED
    BY <2>2, <2>3, <2>4, <2>6, <2>8, <2>9, OneRunner
<1> QED
  BY <1>1, <1>2, <1>3

(* A migration that fails, and a runner that is killed, store nothing. *)
LEMMA GivesUp ==
  ASSUME IInv, NEW r \in Runners, MigrationFails(r) \/ Rollback(r) \/ Crash(r)
  PROVE  IInv'
<1> USE Known
<1>1. failures' \in 0 .. MaxFailures
  BY BoundsAssumption DEF MigrationFails, Rollback, Crash, Failure
<1>2. CASE MigrationFails(r)
  BY <1>1, <1>2, Moves DEF MigrationFails, Places, InTransaction, database
<1>3. CASE Rollback(r) \/ Crash(r)
  BY <1>1, <1>3, Stops DEF Rollback, Crash, Fail
<1> QED
  BY <1>2, <1>3

(* What COMMIT stores: the statements of the current file, in order, after *)
(* all that was there, where none of that file was.                        *)
LEMMA CommitStores ==
  ASSUME IInv, NEW r \in Runners, Commit(r)
  PROVE  /\ More(r) /\ writer = r /\ Current(r) \in Files
         /\ Version(Current(r)) \in Versions \ recorded
         /\ recorded' = recorded \cup {Version(Current(r))}
         /\ schema' \in Seq(Files \X (1 .. Statements))
         /\ Len(schema) \in Nat /\ Len(schema') = Len(schema) + Statements
         /\ \A i \in 1 .. Len(schema) : schema'[i] = schema[i]
         /\ \A i \in 1 .. Statements : schema'[Len(schema) + i] = <<Current(r), i>>
<1> USE Known
<1>1. /\ More(r) /\ Done(r) = Statements
      /\ Version(Current(r)) \notin recorded
      /\ runner[r].tx.recorded = {Version(Current(r))}
      /\ \A i \in 1 .. Done(r) : runner[r].tx.schema[i] = <<Current(r), i>>
      /\ Done(r) # 0 => writer = r
  BY DEF Commit, At, AtWork, InTransaction
<1>2. writer = r /\ Current(r) \in Files /\ Version(Current(r)) \in Versions
  BY <1>1, Bounds, CurrentType
<1>3. /\ schema \in Seq(Files \X (1 .. Statements))
      /\ runner[r].tx.schema \in Seq(Files \X (1 .. Statements))
  BY DEF TypeOK
<1>4. schema' = schema \o runner[r].tx.schema
  BY DEF Commit
<1>5. /\ schema' \in Seq(Files \X (1 .. Statements))
      /\ Len(schema) \in Nat /\ Len(schema') = Len(schema) + Statements
      /\ \A i \in 1 .. Len(schema) : schema'[i] = schema[i]
      /\ \A i \in 1 .. Statements :
            schema'[Len(schema) + i] = runner[r].tx.schema[i]
  <2>1. Len(runner[r].tx.schema) = Statements
    BY <1>1 DEF Done
  <2>2. Len(schema) \in Nat
    BY <1>3, LenProperties
  <2>3. \A i \in 1 .. Statements :
           /\ Len(schema) + i \in 1 .. Len(schema) + Statements
           /\ Len(schema) + i > Len(schema)
           /\ (Len(schema) + i) - Len(schema) = i
    BY <2>2, Bounds
  <2>4. /\ schema' \in Seq(Files \X (1 .. Statements))
        /\ Len(schema') = Len(schema) + Statements
        /\ \A i \in 1 .. Len(schema') :
              schema'[i] = IF i <= Len(schema) THEN schema[i]
                           ELSE runner[r].tx.schema[i - Len(schema)]
    <3>1. PICK s, t \in Seq(Files \X (1 .. Statements)) :
             s = schema /\ t = runner[r].tx.schema
      BY <1>3
    <3>2. /\ s \o t \in Seq(Files \X (1 .. Statements))
          /\ Len(s \o t) = Len(s) + Len(t)
          /\ \A i \in 1 .. Len(s) + Len(t) :
                (s \o t)[i] = IF i <= Len(s) THEN s[i] ELSE t[i - Len(s)]
      BY ConcatProperties
    <3> QED
      BY <1>4, <2>1, <3>1, <3>2
  <2>5. ASSUME NEW i \in 1 .. Len(schema)
        PROVE  schema'[i] = schema[i]
    BY <2>2, <2>4, Bounds
  <2>6. ASSUME NEW i \in 1 .. Statements
        PROVE  schema'[Len(schema) + i] = runner[r].tx.schema[i]
    <3>1. /\ ~(Len(schema) + i <= Len(schema)) /\ (Len(schema) + i) - Len(schema) = i
          /\ Len(schema) + i \in 1 .. Len(schema')
      BY <2>2, <2>3, <2>4
    <3> QED
      BY <2>4, <3>1
  <2> QED
    BY <2>2, <2>4, <2>5, <2>6
<1>6. recorded' = recorded \cup {Version(Current(r))}
  BY <1>1 DEF Commit
<1> QED
  BY <1>1, <1>2, <1>5, <1>6

(* After COMMIT the current file is in the database in one piece, and it   *)
(* is the only one of its version there.                                   *)
LEMMA CommitPieces ==
  ASSUME IInv, NEW r \in Runners, Commit(r)
  PROVE  (\A file \in Files : Whole(file)') /\ Recorded'
<1>0. PICK f \in Files, n \in Nat : f = Current(r) /\ n = Len(schema)
  BY CommitStores
<1>1. /\ f \in Files /\ Version(f) \in Versions \ recorded
      /\ recorded' = recorded \cup {Version(f)}
      /\ n \in Nat /\ Len(schema') = n + Statements
      /\ \A i \in 1 .. n : schema'[i] = schema[i]
      /\ \A i \in 1 .. Statements : schema'[n + i] = <<f, i>>
  BY <1>0, CommitStores
<1>2. DOMAIN schema = 1 .. n /\ DOMAIN schema' = 1 .. n + Statements
  BY <1>0, <1>1, CommitStores, LenProperties DEF IInv, TypeOK
<1>3. Ran(f) = {}
  BY <1>1 DEF IInv, Recorded, RanAt
<1>4. \A i \in n + 1 .. n + Statements : schema'[i] = <<f, i - n>>
  <2> SUFFICES ASSUME NEW i \in n + 1 .. n + Statements
               PROVE  schema'[i] = <<f, i - n>>
    OBVIOUS
  <2>1. i - n \in 1 .. Statements /\ n + (i - n) = i
    BY <1>1, Bounds
  <2> QED
    BY <1>1, <2>1
<1>5. Ran(f)' = n + 1 .. n + Statements
  <2>1. \A i \in 1 .. n : schema'[i][1] # f
    BY <1>1, <1>2, <1>3 DEF Ran
  <2>2. Ran(f)' = {i \in 1 .. n + Statements : schema'[i][1] = f}
    BY <1>2 DEF Ran
  <2> QED
    BY <1>1, <1>4, <2>1, <2>2, Bounds
<1>6. ASSUME NEW g, g # f
      PROVE  Ran(g)' = Ran(g)
  <2>1. Ran(g)' = {i \in 1 .. n + Statements : schema'[i][1] = g}
    BY <1>2 DEF Ran
  <2>2. Ran(g) = {i \in 1 .. n : schema[i][1] = g}
    BY <1>2 DEF Ran
  <2> QED
    BY <1>1, <1>4, <1>6, <2>1, <2>2, Bounds
<1>7. Whole(f)'
  <2>1. n + 1 \in DOMAIN schema' /\ Ran(f)' = n + 1 .. (n + 1) + Statements - 1
    BY <1>1, <1>2, <1>5, Bounds
  <2>2. \A i \in Ran(f)' : schema'[i][2] = i - (n + 1) + 1
    BY <1>1, <1>4, <1>5
  <2>3. \E start \in DOMAIN schema' :
           /\ Ran(f)' = start .. start + Statements - 1
           /\ \A i \in Ran(f)' : schema'[i][2] = i - start + 1
    BY <2>1, <2>2
  <2> QED
    BY <2>3 DEF Whole
<1>8. ASSUME NEW g \in Files, g # f
      PROVE  Whole(g)'
  <2>1. CASE Ran(g) = {}
    BY <1>6, <1>8, <2>1 DEF Whole
  <2>2. CASE Ran(g) # {}
    <3>1. PICK start \in DOMAIN schema :
             /\ Ran(g) = start .. start + Statements - 1
             /\ \A i \in Ran(g) : schema[i][2] = i - start + 1
      BY <2>2 DEF IInv, Whole
    <3>2. start \in DOMAIN schema'
      BY <1>1, <1>2, Bounds
    <3>3. Ran(g) \subseteq 1 .. n
      BY <1>2 DEF Ran
    <3>4. \A i \in Ran(g)' : schema'[i][2] = i - start + 1
      BY <1>1, <1>6, <1>8, <3>1, <3>3
    <3>5. \E s \in DOMAIN schema' :
             /\ Ran(g)' = s .. s + Statements - 1
             /\ \A i \in Ran(g)' : schema'[i][2] = i - s + 1
      BY <1>6, <1>8, <3>1, <3>2, <3>4
    <3> QED
      BY <3>5 DEF Whole
  <2> QED
    BY <2>1, <2>2
<1>9. RanAt(Version(f))' = {f}
  <2>1. Ran(f)' # {}
    <3>1. n + 1 \in n + 1 .. n + Statements
      BY <1>1, Bounds
    <3> QED
      BY <1>5, <3>1
  <2>2. \A g \in Files : Version(g) = Version(f) => Ran(g) = {}
    BY <1>1 DEF IInv, Recorded, RanAt
  <2> QED
    BY <1>1, <1>6, <2>1, <2>2 DEF RanAt
<1>10. ASSUME NEW version \in Versions, version # Version(f)
       PROVE  RanAt(version)' = RanAt(version)
  BY <1>6, <1>10 DEF RanAt
<1>11. Recorded'
  BY <1>1, <1>9, <1>10 DEF IInv, Recorded
<1> QED
  BY <1>7, <1>8, <1>11

(* COMMIT keeps the invariant: it holds the write lock, so that no other   *)
(* runner is about to commit too.                                          *)
LEMMA CommitKeeps ==
  ASSUME IInv, NEW r \in Runners, Commit(r)
  PROVE  IInv'
<1> USE Known
<1> DEFINE new == [runner[r] EXCEPT !.at = "check", !.index = @ + 1, !.tx = NoTx]
<1>1. /\ new \in Progress /\ new.at = "check" /\ new.list = runner[r].list
      /\ new.index = runner[r].index + 1 /\ new.tx = NoTx
  <2>1. runner[r] \in Progress /\ runner[r].index + 1 \in Nat \ {0}
    OBVIOUS
  <2> QED
    BY <2>1, NoTxType DEF Progress, Places
<1>2. runner' = [runner EXCEPT ![r] = new]
  BY DEF Commit
<1> HIDE DEF new
<1>3. runner'[r] = new /\ \A q \in Runners \ {r} : runner'[q] = runner[q]
  BY <1>2
<1>4. writer' = None /\ writer = r /\ UNCHANGED <<disk, table, failures>>
  BY CommitStores DEF Commit
<1>5. recorded' = recorded \cup {Version(Current(r))}
  BY CommitStores
<1>6. AtWork(r)'
  BY <1>1, <1>3, NoTxType DEF AtWork, At, InTransaction
<1>7. InOrder(r)'
  <2>1. \A i \in DOMAIN runner[r].list : i < runner[r].index + 1 =>
           i < runner[r].index \/ i = runner[r].index
    <3>1. DOMAIN runner[r].list = 1 .. Len(runner[r].list) /\ runner[r].index \in Nat
      BY LenProperties
    <3>2. \A i \in Nat : i < runner[r].index + 1 => i < runner[r].index \/ i = runner[r].index
      BY <3>1
    <3> QED
      BY <3>1, <3>2, LenProperties
  <2>2. Version(runner[r].list[runner[r].index]) \in recorded'
    BY <1>5 DEF Current
  <2>3. InOrder(r) /\ runner'[r].list = runner[r].list /\ runner'[r].index = runner[r].index + 1
    BY <1>1, <1>3
  <2> QED
    BY <1>5, <2>1, <2>2, <2>3 DEF InOrder, Version
<1>8. ASSUME NEW q \in Runners \ {r}
      PROVE  AtWork(q)' /\ InOrder(q)'
  <2>1. AtWork(q) /\ InOrder(q) /\ TypeOK
    BY DEF IInv
  <2>2. ~At(q, "commit")
    BY <1>4, <2>1, Bounds DEF AtWork, InTransaction, At
  <2> QED
    BY <1>3, <1>4, <1>5, <2>1, <2>2, OthersKeep
<1>9. TypeOK'
  <2>1. runner' \in [Runners -> Progress]
    BY <1>1, <1>2
  <2>2. recorded' \subseteq Versions /\ schema' \in Seq(Files \X (1 .. Statements))
    BY <1>5, CommitStores DEF TypeOK
  <2> QED
    BY <1>4, <2>1, <2>2, Bounds DEF TypeOK, disk
<1>10. IsFiniteSet(files)'
  BY <1>4 DEF IInv, disk
<1> QED
  BY <1>6, <1>7, <1>8, <1>9, <1>10, CommitPieces DEF IInv

-----------------------------------------------------------------------------
(* The theorems.                                                           *)

(* Every step of any runner or of the developer keeps the invariant.       *)
LEMMA NextKeeps == IInv /\ [Next]_vars => IInv'
<1> SUFFICES ASSUME IInv, [Next]_vars
             PROVE  IInv'
  OBVIOUS
<1>1. CASE generator_migration \/ Edit
  BY <1>1, DeveloperKeeps
<1>2. ASSUME NEW r \in Runners, Collect(r) \/ Step(r) \/ Crash(r)
      PROVE  IInv'
  BY <1>2, OutsideTransaction, InsideTransaction, CommitKeeps, GivesUp DEF Step
<1>3. CASE UNCHANGED vars
  <2>1. UNCHANGED <<files, broken, stray, table, recorded, schema, writer, runner, failures>>
    BY <1>3 DEF vars, disk, database
  <2>2. TypeOK' /\ IsFiniteSet(files)'
    BY <2>1 DEF IInv, TypeOK
  <2>3. \A r \in Runners : AtWork(r)' /\ InOrder(r)'
    BY <2>1, OthersKeep DEF IInv
  <2>4. (\A file \in Files : Whole(file)') /\ Recorded'
    BY <2>1, PiecesKeep DEF IInv
  <2> QED
    BY <2>2, <2>3, <2>4 DEF IInv
<1> QED
  BY <1>1, <1>2, <1>3 DEF Next

(* The invariant holds before any file is there and any runner started. *)
LEMMA InitHolds == Init => IInv
<1> SUFFICES ASSUME Init
             PROVE  IInv
  OBVIOUS
<1>1. TypeOK
  <2>1. runner \in [Runners -> Progress]
    BY StoppedType DEF Init
  <2>2. failures \in 0 .. MaxFailures /\ writer = None /\ schema = <<>>
    BY BoundsAssumption DEF Init
  <2>3. schema \in Seq(Files \X (1 .. Statements))
    BY <2>2
  <2>4. /\ files \subseteq Files /\ broken \subseteq files /\ stray \in BOOLEAN
        /\ table \in BOOLEAN /\ recorded \subseteq Versions
    BY DEF Init
  <2> QED
    BY <2>1, <2>2, <2>3, <2>4, Bounds DEF TypeOK
<1>2. IsFiniteSet(files)
  BY FS_EmptySet DEF Init
<1>3. ASSUME NEW r \in Runners
      PROVE  AtWork(r) /\ InOrder(r)
  <2>1. runner[r] = Stopped("none")
    BY DEF Init
  <2> QED
    BY <2>1, StoppedType, NoTxType DEF AtWork, InOrder, At, InTransaction
<1>4. \A file : Ran(file) = {}
  BY DEF Init, Ran
<1>5. (\A file \in Files : Whole(file)) /\ Recorded
  BY <1>4 DEF Whole, Recorded, RanAt, Init
<1> QED
  BY <1>1, <1>2, <1>3, <1>5 DEF IInv

(* The invariant of every run of any number of runners. *)
THEOREM MigrationInvariant == Spec => []IInv
<1> QED
  BY InitHolds, NextKeeps, PTL DEF Spec

(* Every variable keeps its type, and the holder of SQLite's write lock is *)
(* in a transaction.                                                       *)
THEOREM MigrationTypes == Spec => []TypeOK
<1>1. IInv => TypeOK
  BY DEF IInv
<1> QED
  BY <1>1, MigrationInvariant, PTL

(* migration_run 250-253: whatever fails, crashes or runs at the same      *)
(* time, a migration is applied whole, once and in one piece, or not at    *)
(* all, and a version is recorded exactly when one of its files was.       *)
THEOREM MigrationsApplyOnce == Spec => []AppliedOnceAndRecorded
<1>1. IInv => AppliedOnceAndRecorded
  <2> SUFFICES ASSUME IInv
               PROVE  AppliedOnceAndRecorded
    OBVIOUS
  <2>1. ASSUME NEW version \in Versions
        PROVE  version \in recorded <=> Cardinality(RanAt(version)) = 1
    <3>1. CASE RanAt(version) = {}
      BY <3>1, FS_EmptySet DEF IInv, Recorded
    <3>2. CASE RanAt(version) # {}
      <4>1. PICK f \in RanAt(version) : TRUE
        BY <3>2
      <4>2. RanAt(version) = {f}
        BY <4>1 DEF IInv, Recorded
      <4>3. Cardinality(RanAt(version)) = 1
        BY <4>2, FS_Singleton
      <4> QED
        BY <3>2, <4>3 DEF IInv, Recorded
    <3> QED
      BY <3>1, <3>2
  <2> QED
    BY <2>1 DEF IInv, Whole, RanAt, AppliedOnceAndRecorded
<1> QED
  BY <1>1, MigrationInvariant, PTL

(* README.md 22: migrations run in filename order, also where several      *)
(* runners share the work.                                                 *)
THEOREM MigrationsKeepOrder == Spec => []FilenameOrder
<1>1. IInv => FilenameOrder
  <2> SUFFICES ASSUME IInv, NEW r \in Runners, runner[r].at \in InTransaction,
                      NEW file \in Range(runner[r].list),
                      Version(file) < Version(Current(r))
               PROVE  Version(file) \in recorded
    BY DEF FilenameOrder, InTransaction
  <2>1. /\ More(r) /\ InOrder(r) /\ TypeOK /\ runner[r].list \in Seq(Files)
        /\ runner[r].index \in Nat
    BY Known DEF AtWork
  <2>2. runner[r].index \in DOMAIN runner[r].list
    BY <2>1, CurrentType
  <2>3. PICK i \in DOMAIN runner[r].list : file = runner[r].list[i]
    BY DEF Range
  <2>4. i \in Nat
    BY <2>1, LenProperties
  <2>5. Version(file) \in Nat /\ Version(Current(r)) \in Nat
    <3>1. file \in Files /\ Current(r) \in Files
      BY <2>1, <2>2, <2>3 DEF Current
    <3> QED
      BY <3>1, BoundsAssumption DEF Files, Version
  <2>6. ~(runner[r].index < i)
    <3> SUFFICES ASSUME runner[r].index < i
                 PROVE  FALSE
      OBVIOUS
    <3>1. Before(Current(r), file)
      BY <2>1, <2>2, <2>3 DEF InOrder, Current
    <3> QED
      BY <2>5, <3>1 DEF Before, Version
  <2>7. i # runner[r].index
    BY <2>3, <2>5 DEF Current
  <2>8. i < runner[r].index
    BY <2>1, <2>4, <2>6, <2>7
  <2> QED
    BY <2>1, <2>3, <2>8 DEF InOrder
<1> QED
  BY <1>1, MigrationInvariant, PTL

(* A run of migration_run that is about to report success has left every   *)
(* version that it found in schema_migrations.                             *)
THEOREM SuccessMeansRecorded == Spec => []SuccessIsComplete
<1>1. IInv => SuccessIsComplete
  <2> SUFFICES ASSUME IInv, NEW r \in Runners, ~More(r),
                      NEW file \in Range(runner[r].list)
               PROVE  Version(file) \in recorded
    BY DEF SuccessIsComplete
  <2>1. InOrder(r) /\ runner[r].list \in Seq(Files) /\ runner[r].index \in Nat
    BY Known
  <2>2. PICK i \in DOMAIN runner[r].list : file = runner[r].list[i]
    BY DEF Range
  <2>3. i < runner[r].index
    BY <2>1, <2>2, LenProperties DEF More
  <2> QED
    BY <2>1, <2>2, <2>3 DEF InOrder
<1> QED
  BY <1>1, MigrationInvariant, PTL

=============================================================================
