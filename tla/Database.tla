------------------------------ MODULE Database ------------------------------
(***************************************************************************)
(* src/src/database/database.c: one Database handle over one SQLite        *)
(* connection.  SQL handed to database_write is queued; every other call   *)
(* first runs the queue (database_flush), in a transaction of its own      *)
(* unless the caller opened one with database_begin.  A call is a sequence *)
(* of steps, one per statement SQLite executes, so that a failure or the   *)
(* death of the process can fall between any two of them.                  *)
(*                                                                         *)
(* Every SQL text changes the database and is known by the number of its   *)
(* issue; the stored database is the sequence of the texts applied to it.  *)
(***************************************************************************)
EXTENDS Integers, Sequences, FiniteSets, SequencesExt

CONSTANTS
    MaxIssued,   \* bound: SQL texts handed to the library
    MaxFaults,   \* bound: failures that are not the SQL's own (busy, full, I/O)
    MaxCopies    \* bound: times one text is counted in the stored database

ASSUME BoundsAssumption ==
    MaxIssued \in Nat /\ MaxFaults \in Nat /\ MaxCopies \in Nat \ {0}

VARIABLES
    db,      \* the Database struct: is the connection set, writes, in_transaction
    sqlite,  \* the connection: open, its transaction, the stored database
    op,      \* the call in progress
    reply,   \* what the last call returned
    hist     \* what the caller did and was told

vars == <<db, sqlite, op, reply, hist>>

Ids == 1 .. MaxIssued
Kinds == {"flush", "execute", "begin", "commit", "rollback", "read", "prepare",
          "close"}

Closed == [open |-> FALSE, queue |-> <<>>, inTransaction |-> FALSE]
NoOp == [kind |-> "none", at |-> "idle", index |-> 0, own |-> FALSE, ok |-> TRUE]
NoReply == [kind |-> "none", ok |-> TRUE]

Handle == [open : BOOLEAN, queue : Seq(Ids), inTransaction : BOOLEAN]
Connection == [open : BOOLEAN, inTx : BOOLEAN, tx : Seq(Ids), stored : Seq(Ids),
               statement : BOOLEAN]
Operation == [kind : Kinds \cup {"none"}, at : {"idle", "flush", "run", "act"},
              index : 0 .. MaxIssued, own : BOOLEAN, ok : BOOLEAN]
Reply == [kind : Kinds \cup {"none", "write", "step"}, ok : BOOLEAN]
History == [issued : 0 .. MaxIssued, bad : SUBSET Ids, acked : SUBSET Ids,
            dropped : SUBSET Ids, stepped : SUBSET Ids,
            kept : SUBSET Ids, undone : SUBSET Ids,
            since : 0 .. MaxIssued, faults : 0 .. MaxFaults, tainted : BOOLEAN]

(* The type of every variable. *)
TypeOK ==
    /\ db \in Handle
    /\ sqlite \in Connection
    /\ op \in Operation
    /\ reply \in Reply
    /\ hist \in History
    /\ op.index <= Len(db.queue)
    /\ ~sqlite.inTx => sqlite.tx = <<>>

Init ==
    /\ db = Closed
    /\ sqlite = [open |-> FALSE, inTx |-> FALSE, tx |-> <<>>, stored |-> <<>>,
                 statement |-> FALSE]
    /\ op = NoOp
    /\ reply = NoReply
    /\ hist = [issued |-> 0, bad |-> {}, acked |-> {}, dropped |-> {},
               stepped |-> {}, kept |-> {}, undone |-> {}, since |-> 0, faults |-> 0, tainted |-> FALSE]

-----------------------------------------------------------------------------
(* SQLite, as database.c uses it.  A statement outside a transaction       *)
(* commits by itself; a failed statement has no effect, but some failures  *)
(* (disk full, I/O, memory) also roll the whole transaction back.          *)

(* A text that runs again and again is written down MaxCopies times only.  *)
Counted(s, id) ==
    Cardinality({i \in DOMAIN (s.stored \o s.tx) : (s.stored \o s.tx)[i] = id})
        < MaxCopies

Applied(s, id) ==
    IF ~Counted(s, id) THEN s
    ELSE IF s.inTx THEN [s EXCEPT !.tx = Append(@, id)]
    ELSE [s EXCEPT !.stored = Append(@, id)]

Begun(s) == [s EXCEPT !.inTx = TRUE]

RolledBack(s) == [s EXCEPT !.inTx = FALSE, !.tx = <<>>]

Committed(s) == [s EXCEPT !.inTx = FALSE, !.tx = <<>>, !.stored = @ \o s.tx]

AfterFailure(s) == {s, RolledBack(s)}

Visible == Range(sqlite.stored \o sqlite.tx)

MayFault == hist.faults < MaxFaults

(* The texts that are gone for good when SQLite's state becomes s: those of *)
(* a transaction that ended without being stored, save the queued ones.     *)
Lost(s) == Range(sqlite.tx) \ (Range(s.stored \o s.tx) \cup Range(db.queue))

Faulted(h) == [h EXCEPT !.faults = @ + 1]

-----------------------------------------------------------------------------
Idle == op.at = "idle"

Return(ok) ==
    /\ op' = NoOp
    /\ reply' = [kind |-> op.kind, ok |-> ok]

database_open ==
    /\ Idle /\ ~db.open /\ ~sqlite.open
    /\ db' = [Closed EXCEPT !.open = TRUE]
    /\ sqlite' = [sqlite EXCEPT !.open = TRUE]
    /\ reply' = NoReply
    /\ UNCHANGED <<op, hist>>

(* realloc or the copy of the text may fail, and leaves the queue alone. *)
database_write ==
    /\ Idle /\ db.open
    /\ hist.issued < MaxIssued
    /\ \E isBad \in BOOLEAN, ok \in BOOLEAN :
        LET id == hist.issued + 1 IN
        /\ ~ok => MayFault /\ ~isBad
        /\ db' = IF ok THEN [db EXCEPT !.queue = Append(@, id)] ELSE db
        /\ hist' = [hist EXCEPT !.issued = id,
                                !.bad = IF isBad THEN @ \cup {id} ELSE @,
                                !.acked = IF ok THEN @ \cup {id} ELSE @,
                                !.faults = IF ok THEN @ ELSE @ + 1]
        /\ reply' = [kind |-> "write", ok |-> ok]
    /\ UNCHANGED <<sqlite, op>>

(* Every other call is a call of database_flush and what follows it. *)
Start(kind) ==
    /\ Idle /\ db.open
    /\ op' = [NoOp EXCEPT !.kind = kind, !.at = "flush"]
    /\ UNCHANGED <<db, sqlite, reply>>

Plain(kind) ==
    /\ kind \in {"flush", "read", "close"}
    /\ Start(kind)
    /\ UNCHANGED hist

(* Mutants: the SQL runs before what is queued. *)
Unflushed(kind) ==
    /\ Idle /\ db.open
    /\ op' = [NoOp EXCEPT !.kind = kind, !.at = "act"]
    /\ UNCHANGED <<db, sqlite, reply>>

ExecuteUnflushed ==
    /\ hist.issued < MaxIssued
    /\ Unflushed("execute")
    /\ \E isBad \in BOOLEAN :
        hist' = [hist EXCEPT !.issued = @ + 1,
                             !.bad = IF isBad THEN @ \cup {hist.issued + 1} ELSE @]

TransactionUnflushed(kind) ==
    /\ kind \in {"begin", "commit", "rollback"}
    /\ db.inTransaction = (kind # "begin")
    /\ Unflushed(kind)
    /\ UNCHANGED hist

database_execute_sql ==
    /\ hist.issued < MaxIssued
    /\ Start("execute")
    /\ \E isBad \in BOOLEAN :
        hist' = [hist EXCEPT !.issued = @ + 1,
                             !.bad = IF isBad THEN @ \cup {hist.issued + 1} ELSE @]

database_prepare ==
    /\ ~sqlite.statement
    /\ Start("prepare")
    /\ UNCHANGED hist

database_transaction_sql(kind) ==
    /\ kind \in {"begin", "commit", "rollback"}
    /\ db.inTransaction = (kind # "begin")
    /\ Start(kind)
    /\ UNCHANGED hist

-----------------------------------------------------------------------------
(* database_flush *)

(* Mutant: a failed flush frees the queue. *)
FlushFailsForgets ==
    /\ IF op.kind = "close"
       THEN op' = [op EXCEPT !.at = "act", !.index = 0, !.ok = FALSE] /\ UNCHANGED reply
       ELSE Return(FALSE)
    /\ db' = [db EXCEPT !.queue = <<>>]

(* A failed flush keeps the queue and ends the call; database_close goes on. *)
FlushFails ==
    /\ IF op.kind = "close"
       THEN op' = [op EXCEPT !.at = "act", !.index = 0, !.ok = FALSE] /\ UNCHANGED reply
       ELSE Return(FALSE)
    /\ UNCHANGED db

FlushEmpty ==
    /\ op.at = "flush"
    /\ db.queue = <<>>
    /\ op' = [op EXCEPT !.at = "act"]
    /\ UNCHANGED <<db, sqlite, reply, hist>>

(* Mutant: the writes run without a transaction. *)
OwnTransactionNever == FALSE

OwnTransaction == ~db.inTransaction

FlushBegin ==
    /\ op.at = "flush"
    /\ db.queue # <<>>
    /\ OwnTransaction => ~sqlite.inTx
    /\ op' = [op EXCEPT !.at = "run", !.own = OwnTransaction]
    /\ sqlite' = IF OwnTransaction THEN Begun(sqlite) ELSE sqlite
    /\ UNCHANGED <<db, reply, hist>>

FlushBeginFails ==
    /\ op.at = "flush"
    /\ db.queue # <<>>
    /\ OwnTransaction
    /\ sqlite.inTx \/ MayFault
    /\ FlushFails
    /\ hist' = IF sqlite.inTx THEN hist ELSE Faulted(hist)
    /\ UNCHANGED sqlite

Running == op.at = "run" /\ op.index < Len(db.queue)

(* Mutant: each write is taken off the queue while the loop counts on. *)
FlushWriteShifts ==
    /\ Running
    /\ db.queue[op.index + 1] \notin hist.bad
    /\ sqlite' = Applied(sqlite, db.queue[op.index + 1])
    /\ db' = [db EXCEPT !.queue = Tail(@)]
    /\ op' = [op EXCEPT !.index = @ + 1]
    /\ UNCHANGED <<reply, hist>>

FlushWrite ==
    /\ Running
    /\ db.queue[op.index + 1] \notin hist.bad
    /\ sqlite' = Applied(sqlite, db.queue[op.index + 1])
    /\ op' = [op EXCEPT !.index = @ + 1]
    /\ UNCHANGED <<db, reply, hist>>

AfterFlushFailure(own, s) == IF own THEN RolledBack(s) ELSE s

(* Either the text is wrong, or a fault strikes and may end SQLite's       *)
(* transaction.  Only a transaction of the flush itself is rolled back.    *)
FlushWriteFails ==
    /\ Running
    /\ LET isBad == db.queue[op.index + 1] \in hist.bad IN
        \E s \in IF isBad THEN {sqlite} ELSE AfterFailure(sqlite) :
            /\ isBad \/ MayFault
            /\ sqlite' = AfterFlushFailure(op.own, s)
            /\ hist' = [(IF isBad THEN hist ELSE Faulted(hist)) EXCEPT
                            !.dropped = @ \cup Lost(s),
                            !.tainted = @ \/ ~op.own]
    /\ FlushFails

FlushedAll == op.at = "run" /\ op.index = Len(db.queue)

FlushCommit ==
    /\ FlushedAll
    /\ sqlite' = IF op.own THEN Committed(sqlite) ELSE sqlite
    /\ db' = [db EXCEPT !.queue = <<>>]
    /\ op' = [op EXCEPT !.at = "act", !.index = 0]
    /\ UNCHANGED <<reply, hist>>

FlushCommitFails ==
    /\ FlushedAll /\ op.own
    /\ MayFault
    /\ sqlite' = AfterFlushFailure(TRUE, sqlite)
    /\ hist' = Faulted(hist)
    /\ FlushFails

-----------------------------------------------------------------------------
(* What each call does once the queue is empty. *)

Acting(kind) == op.at = "act" /\ op.kind = kind

FlushDone ==
    /\ Acting("flush")
    /\ Return(TRUE)
    /\ UNCHANGED <<db, sqlite, hist>>

ExecuteDone ==
    /\ Acting("execute")
    /\ hist.issued \notin hist.bad
    /\ Return(TRUE)
    /\ sqlite' = Applied(sqlite, hist.issued)
    /\ hist' = [hist EXCEPT !.acked = @ \cup {hist.issued}]
    /\ UNCHANGED db

(* SQLite refuses the statement, or a fault strikes; in_transaction keeps  *)
(* its value either way.                                                   *)
ActFails ==
    /\ op.at = "act"
    /\ op.kind \in {"execute", "read", "prepare", "begin", "commit", "rollback"}
    /\ LET isBad == op.kind = "execute" /\ hist.issued \in hist.bad
           refused == op.kind \in {"begin", "commit", "rollback"}
                        /\ sqlite.inTx = (op.kind = "begin")
       IN
        /\ isBad \/ refused \/ (MayFault /\ op.kind # "rollback")
        /\ \E s \in IF isBad \/ refused THEN {sqlite} ELSE AfterFailure(sqlite) :
            /\ sqlite' = s
            /\ hist' = [(IF isBad \/ refused THEN hist ELSE Faulted(hist)) EXCEPT
                            !.dropped = @ \cup Lost(s)]
    /\ Return(FALSE)
    /\ UNCHANGED db

ReadDone ==
    /\ Acting("read")
    /\ Return(TRUE)
    /\ UNCHANGED <<db, sqlite, hist>>

PrepareDone ==
    /\ Acting("prepare")
    /\ Return(TRUE)
    /\ sqlite' = [sqlite EXCEPT !.statement = TRUE]
    /\ UNCHANGED <<db, hist>>

BeginDone ==
    /\ Acting("begin") /\ ~sqlite.inTx
    /\ Return(TRUE)
    /\ sqlite' = Begun(sqlite)
    /\ db' = [db EXCEPT !.inTransaction = TRUE]
    /\ hist' = [hist EXCEPT !.since = hist.issued]

(* What the caller was told was taken since database_begin. *)
Inside == {id \in hist.acked : id > hist.since}

CommitDone ==
    /\ Acting("commit") /\ sqlite.inTx
    /\ Return(TRUE)
    /\ sqlite' = Committed(sqlite)
    /\ db' = [db EXCEPT !.inTransaction = FALSE]
    /\ hist' = [hist EXCEPT !.kept = @ \cup Inside]

RollbackDone ==
    /\ Acting("rollback") /\ sqlite.inTx
    /\ Return(TRUE)
    /\ sqlite' = RolledBack(sqlite)
    /\ db' = [db EXCEPT !.inTransaction = FALSE]
    /\ hist' = [hist EXCEPT !.dropped = @ \cup Lost(RolledBack(sqlite)),
                            !.undone = @ \cup Inside]

(* sqlite3_close refuses while a statement is prepared: the handle forgets *)
(* the connection all the same.  What is still queued is freed.            *)
CloseDone ==
    /\ Acting("close")
    /\ Return(op.ok /\ ~sqlite.statement)
    /\ db' = [db EXCEPT !.open = FALSE, !.queue = <<>>]
    /\ sqlite' = IF sqlite.statement THEN sqlite
                 ELSE [RolledBack(sqlite) EXCEPT !.open = FALSE]
    /\ hist' = [hist EXCEPT !.dropped = @ \cup Range(sqlite.tx) \cup Range(db.queue)]

(* A prepared statement runs without a flush. *)
database_step ==
    /\ Idle /\ db.open /\ sqlite.statement
    /\ hist.issued < MaxIssued
    /\ \E ok \in BOOLEAN, s \in {Applied(sqlite, hist.issued + 1)} \cup AfterFailure(sqlite) :
        /\ ok = (s = Applied(sqlite, hist.issued + 1))
        /\ ~ok => MayFault
        /\ sqlite' = s
        /\ hist' = [hist EXCEPT !.issued = @ + 1,
                                !.dropped = @ \cup Lost(s),
                                !.acked = IF ok THEN @ \cup {hist.issued + 1} ELSE @,
                                !.stepped = @ \cup {hist.issued + 1},
                                !.faults = IF ok THEN @ ELSE @ + 1]
        /\ reply' = [kind |-> "step", ok |-> ok]
    /\ UNCHANGED <<db, op>>

database_statement_destroy ==
    /\ Idle /\ db.open /\ sqlite.statement
    /\ sqlite' = [sqlite EXCEPT !.statement = FALSE]
    /\ reply' = NoReply
    /\ UNCHANGED <<db, op, hist>>

(* The process ends: the kernel closes the connection, SQLite's journal    *)
(* undoes the open transaction, and the queue is lost.                     *)
Crash ==
    /\ sqlite.open
    /\ db' = Closed
    /\ sqlite' = [RolledBack(sqlite) EXCEPT !.open = FALSE, !.statement = FALSE]
    /\ op' = NoOp
    /\ reply' = NoReply
    /\ hist' = [hist EXCEPT !.dropped = @ \cup (hist.acked \ Range(sqlite.stored))]

-----------------------------------------------------------------------------
Call ==
    \/ database_write
    \/ database_execute_sql
    \/ database_prepare
    \/ \E kind \in Kinds : Plain(kind) \/ database_transaction_sql(kind)

FlushStep ==
    \/ FlushEmpty
    \/ FlushBegin
    \/ FlushBeginFails
    \/ FlushWrite
    \/ FlushWriteFails
    \/ FlushCommit
    \/ FlushCommitFails

ActStep ==
    \/ FlushDone
    \/ ExecuteDone
    \/ ReadDone
    \/ PrepareDone
    \/ BeginDone
    \/ CommitDone
    \/ RollbackDone
    \/ CloseDone
    \/ ActFails

Next ==
    \/ database_open
    \/ Call
    \/ FlushStep
    \/ ActStep
    \/ database_step
    \/ database_statement_destroy
    \/ Crash

Spec == Init /\ [][Next]_vars

(* A call runs to its return, and a caller inside a transaction keeps      *)
(* asking for its end.                                                     *)
FairSpec ==
    /\ Spec
    /\ WF_vars(FlushStep \/ ActStep)
    /\ SF_vars(database_transaction_sql("rollback"))

-----------------------------------------------------------------------------
(* Properties *)

Replied(kind) == Idle /\ reply = [kind |-> kind, ok |-> TRUE]

(* Texts reach the database in the order of their issue, each at most      *)
(* once, whatever fails: a failed flush outside a transaction undoes what  *)
(* it ran before it keeps the queue (database_flush 174-190).  Statements  *)
(* prepared by the caller run past the queue and are left out; so is a     *)
(* connection on which a flush failed inside the caller's transaction,     *)
(* which runs the first writes of the queue again.                         *)
IssueOrder ==
    LET order == sqlite.stored \o sqlite.tx
    IN ~hist.tainted =>
        \A i, j \in DOMAIN order :
            i < j /\ {order[i], order[j]} \cap hist.stepped = {} => order[i] < order[j]

(* database_flush outside a transaction stores the whole queue, in order,  *)
(* or nothing of it: the database never shows part of a batch.             *)
FlushAtomic ==
    [][(op.at = "run" /\ ~db.inTransaction /\ sqlite'.stored # sqlite.stored)
        => sqlite'.stored = sqlite.stored \o db.queue]_vars

(* "It is executed by database_flush or before database_read" (database.h  *)
(* 49): a read that succeeds sees every write that was acknowledged and    *)
(* was not undone since by the end of a transaction, a close or a crash.   *)
ReadYourWrites ==
    Replied("read") => hist.acked \ hist.dropped \subseteq Visible

(* What database_commit and database_rollback report is what happened: a   *)
(* commit that succeeds has stored everything acknowledged since           *)
(* database_begin, and what a successful rollback undid never comes back,  *)
(* even if SQLite ended the transaction by itself in between.  Between     *)
(* calls SQLite is in a transaction only if in_transaction says so: a      *)
(* failed database_flush leaves none of its own open, which would block    *)
(* every other process of the server.                                      *)
TransactionOutcome ==
    /\ hist.kept \subseteq Range(sqlite.stored)
    /\ hist.undone \cap Visible = {}
    /\ Idle /\ db.open /\ sqlite.inTx => db.inTransaction

(* A caller that keeps asking for the rollback of its transaction leaves   *)
(* it: test_database.c 63-72 opens a transaction and asserts that          *)
(* database_rollback ends it.                                              *)
RollbackEnds ==
    (db.open /\ db.inTransaction) ~> ~(db.open /\ db.inTransaction)
=============================================================================
