--------------------------- MODULE DatabaseProofs ---------------------------
(***************************************************************************)
(* What holds of Database for every number of texts, failures and copies.  *)
(***************************************************************************)
EXTENDS Database, SequenceTheorems, FiniteSetTheorems, TLAPS

-----------------------------------------------------------------------------
(* The invariant, in parts that each relate two or three pieces of state.  *)

Stored == Range(sqlite.stored)
Pending == Range(sqlite.tx)
Queued == Range(db.queue)

\* The loop of database_flush runs in a transaction that it began itself.
OwnRun == op.at = "run" /\ op.own

(* Which call may be where, and who a transaction of SQLite belongs to. *)
Shape ==
    /\ db.open => sqlite.open
    /\ op.at # "idle" => db.open
    /\ ~db.open => db.queue = <<>>
    /\ sqlite.inTx => sqlite.open
    /\ op.at # "run" => op.index = 0
    /\ op.at = "run" => (op.own <=> ~db.inTransaction)
    /\ OwnRun => sqlite.inTx
    /\ op.at = "act" /\ op.kind # "close" => db.queue = <<>>
    /\ op.at = "idle" => op.kind = "none"
    /\ op.kind = "begin" => ~db.inTransaction
    /\ op.kind \in {"commit", "rollback"} => db.inTransaction
    /\ op.kind = "execute" => hist.issued # 0
    /\ db.open /\ sqlite.inTx => db.inTransaction \/ OwnRun
    /\ Len(db.queue) <= hist.issued

(* Every text that is anywhere was issued, and the one database_execute is *)
(* about to run is nowhere yet.                                            *)
Issued ==
    /\ hist.acked \cup hist.undone \cup Queued \cup Stored \cup Pending \subseteq 1 .. hist.issued
    /\ hist.undone \subseteq hist.acked
    /\ hist.since <= hist.issued
    /\ op.kind = "execute" =>
          hist.issued \notin hist.acked \cup Queued \cup Stored \cup Pending

(* The part of the queue that the loop has run is in the database. *)
Ran == op.at = "run" => \A i \in 1 .. op.index : db.queue[i] \in Stored \cup Pending

(* Nothing acknowledged is forgotten but what was dropped. *)
NothingForgotten ==
    /\ hist.acked \ hist.dropped \subseteq Queued \cup Stored \cup Pending
    /\ Replied("read") => Queued = {}

(* A transaction of the caller holds, in SQLite or in the queue, all that  *)
(* was taken since database_begin, and none of it is stored.               *)
InTransaction ==
    /\ hist.kept \subseteq Stored
    /\ hist.undone \cap (Queued \cup Stored \cup Pending) = {}
    /\ db.open /\ db.inTransaction /\ sqlite.inTx =>
          /\ Inside \subseteq Queued \cup Stored \cup Pending
          /\ \A id \in Stored : id <= hist.since

(* Outside a transaction of the caller no queued text is stored, and that  *)
(* of the flush holds exactly the writes the loop has run.                 *)
Batch ==
    /\ db.open /\ ~db.inTransaction => Queued \cap Stored = {}
    /\ OwnRun => sqlite.tx = SubSeq(db.queue, 1, op.index)
    /\ \A i, j \in DOMAIN db.queue : i < j => db.queue[i] < db.queue[j]

(* What is still to run comes after all that the queue has put down. *)
Ascending ==
    ~hist.tainted =>
       \A j \in DOMAIN db.queue :
          /\ \A id \in Stored \ hist.stepped : OwnRun \/ j > op.index => id < db.queue[j]
          /\ \A id \in Pending \ hist.stepped : j > op.index => id < db.queue[j]

IInv ==
    /\ TypeOK /\ Shape
    /\ Issued
    /\ Ran
    /\ NothingForgotten
    /\ InTransaction
    /\ Batch
    /\ Ascending
    /\ IssueOrder

-----------------------------------------------------------------------------
(* Sequences of texts.                                                     *)

\* A concatenation holds what its parts hold.
LEMMA RangeConcat ==
    ASSUME NEW S, NEW s \in Seq(S), NEW t \in Seq(S)
    PROVE  Range(s \o t) = Range(s) \cup Range(t)
<1>1. /\ s \o t \in Seq(S) /\ Len(s \o t) = Len(s) + Len(t)
      /\ \A i \in 1 .. Len(s) + Len(t) :
            (s \o t)[i] = IF i <= Len(s) THEN s[i] ELSE t[i - Len(s)]
  BY ConcatProperties
<1>2. /\ DOMAIN (s \o t) = 1 .. Len(s) + Len(t)
      /\ DOMAIN s = 1 .. Len(s) /\ DOMAIN t = 1 .. Len(t)
      /\ Len(s) \in Nat /\ Len(t) \in Nat
  BY <1>1, LenProperties
<1>3. ASSUME NEW x \in Range(s \o t) PROVE x \in Range(s) \cup Range(t)
  BY <1>1, <1>2 DEF Range
<1>4. ASSUME NEW x \in Range(s) PROVE x \in Range(s \o t)
  <2>1. PICK i \in 1 .. Len(s) : s[i] = x
    BY <1>2 DEF Range
  <2>2. i \in 1 .. Len(s) + Len(t) /\ (s \o t)[i] = x
    BY <2>1, <1>1, <1>2
  <2> QED
    BY <2>2, <1>2 DEF Range
<1>5. ASSUME NEW x \in Range(t) PROVE x \in Range(s \o t)
  <2>1. PICK i \in 1 .. Len(t) : t[i] = x
    BY <1>2 DEF Range
  <2>2. Len(s) + i \in 1 .. Len(s) + Len(t) /\ (s \o t)[Len(s) + i] = x
    BY <2>1, <1>1, <1>2
  <2> QED
    BY <2>2, <1>2 DEF Range
<1> QED
  BY <1>3, <1>4, <1>5

\* Append adds one text, at the end.
LEMMA RangeAppend ==
    ASSUME NEW S, NEW s \in Seq(S), NEW x \in S
    PROVE  /\ Append(s, x) \in Seq(S)
           /\ Len(Append(s, x)) = Len(s) + 1
           /\ DOMAIN Append(s, x) = 1 .. Len(s) + 1
           /\ \A i \in 1 .. Len(s) : Append(s, x)[i] = s[i]
           /\ Append(s, x)[Len(s) + 1] = x
           /\ Range(Append(s, x)) = Range(s) \cup {x}
<1>1. /\ Append(s, x) \in Seq(S) /\ Len(Append(s, x)) = Len(s) + 1
      /\ \A i \in 1 .. Len(s) : Append(s, x)[i] = s[i]
      /\ Append(s, x)[Len(s) + 1] = x
  BY LenProperties
<1>2. DOMAIN Append(s, x) = 1 .. Len(s) + 1 /\ DOMAIN s = 1 .. Len(s) /\ Len(s) \in Nat
  BY <1>1, LenProperties
<1>3. \A i \in 1 .. Len(s) + 1 : i = Len(s) + 1 \/ i \in 1 .. Len(s)
  BY <1>2
<1>4. Range(Append(s, x)) = Range(s) \cup {x}
  BY <1>1, <1>2, <1>3 DEF Range
<1> QED
  BY <1>1, <1>2, <1>4

\* What SQLite does with one text that is not refused.
LEMMA AppliedText ==
    ASSUME BoundsAssumption, NEW s \in Connection, NEW id \in Ids
    PROVE  \/ Applied(s, id) = s /\ id \in Range(s.stored) \cup Range(s.tx)
           \/ s.inTx /\ Applied(s, id) = [s EXCEPT !.tx = Append(s.tx, id)]
           \/ ~s.inTx /\ Applied(s, id) = [s EXCEPT !.stored = Append(s.stored, id)]
<1>1. CASE Counted(s, id)
  BY <1>1 DEF Applied
<1>2. CASE ~Counted(s, id)
  <2> DEFINE all == s.stored \o s.tx
             places == {i \in DOMAIN all : all[i] = id}
  <2>1. places # {}
    <3>1. SUFFICES ASSUME places = {} PROVE FALSE
      OBVIOUS
    <3>2. Cardinality(places) = 0
      BY <3>1, FS_EmptySet
    <3>3. 0 < MaxCopies
      BY DEF BoundsAssumption
    <3> QED
      BY <1>2, <3>2, <3>3 DEF Counted
  <2>2. id \in Range(all)
    BY <2>1 DEF Range
  <2>3. s.stored \in Seq(Ids) /\ s.tx \in Seq(Ids)
    BY DEF Connection
  <2>4. id \in Range(s.stored) \cup Range(s.tx)
    BY <2>2, <2>3, RangeConcat
  <2>5. Applied(s, id) = s
    BY <1>2 DEF Applied
  <2> QED
    BY <2>4, <2>5
<1> QED
  BY <1>1, <1>2


-----------------------------------------------------------------------------
(* The first layer: types, and which call may be where.                    *)

Sound == TypeOK /\ Shape

USE DEF Idle, Kinds

\* What a closed handle and no call are.
LEMMA Constants ==
    ASSUME BoundsAssumption
    PROVE  /\ NoOp \in Operation
           /\ NoOp.kind = "none" /\ NoOp.at = "idle" /\ NoOp.index = 0 /\ ~NoOp.own /\ NoOp.ok
           /\ Closed \in Handle
           /\ ~Closed.open /\ Closed.queue = <<>> /\ ~Closed.inTransaction
           /\ NoReply \in Reply /\ NoReply.kind = "none"
<1>1. 0 \in 0 .. MaxIssued
  BY DEF BoundsAssumption
<1>2. <<>> \in Seq(Ids)
  BY EmptySeq
<1>3. NoOp \in Operation /\ NoReply \in Reply
  BY <1>1 DEF NoOp, NoReply, Operation, Reply
<1>4. Closed \in Handle
  BY <1>2 DEF Closed, Handle
<1> QED
  BY <1>3, <1>4 DEF NoOp, NoReply, Closed

\* The texts of a sequence are texts.
LEMMA RangeType ==
    ASSUME NEW S, NEW s \in Seq(S)
    PROVE  Range(s) \subseteq S
  BY LenProperties DEF Range

\* What the end and the beginning of a transaction make of a connection.
LEMMA EndSound ==
    ASSUME NEW s \in Connection
    PROVE  /\ RolledBack(s) \in Connection
           /\ RolledBack(s).tx = <<>> /\ RolledBack(s).stored = s.stored
           /\ ~RolledBack(s).inTx /\ RolledBack(s).open = s.open
           /\ RolledBack(s).statement = s.statement
           /\ Committed(s) \in Connection
           /\ Committed(s).tx = <<>> /\ Committed(s).stored = s.stored \o s.tx
           /\ ~Committed(s).inTx /\ Committed(s).open = s.open
           /\ Begun(s) \in Connection
           /\ Begun(s).inTx /\ Begun(s).tx = s.tx /\ Begun(s).stored = s.stored
           /\ Begun(s).open = s.open
<1>1. s.stored \o s.tx \in Seq(Ids) /\ <<>> \in Seq(Ids)
  BY EmptySeq, ConcatProperties DEF Connection
<1>2. RolledBack(s) \in Connection /\ Begun(s) \in Connection
  BY <1>1 DEF RolledBack, Begun, Connection
<1>3. Committed(s) \in Connection
  BY <1>1 DEF Committed, Connection
<1> QED
  BY <1>2, <1>3 DEF RolledBack, Committed, Begun, Connection

\* A fault is counted and changes nothing else of what the caller knows.
LEMMA FaultedSound ==
    ASSUME BoundsAssumption, hist \in History, MayFault
    PROVE  /\ Faulted(hist) \in History
           /\ \A f \in {"issued", "bad", "acked", "dropped", "stepped", "kept", "undone",
                        "since", "tainted"} : Faulted(hist)[f] = hist[f]
<1>1. hist.faults + 1 \in 0 .. MaxFaults
  BY DEF MayFault, History, BoundsAssumption
<1> QED
  BY <1>1 DEF Faulted, History

\* How a call ends.
LEMMA ReturnSound ==
    ASSUME BoundsAssumption, op \in Operation, NEW ok \in BOOLEAN, Return(ok)
    PROVE  /\ op' = NoOp /\ op' \in Operation /\ reply' \in Reply
           /\ op'.kind = "none" /\ op'.at = "idle" /\ op'.index = 0
           /\ reply'.kind = op.kind /\ reply'.ok = ok
  BY Constants DEF Return, Operation, Reply

\* A flush that fails ends its call, but that of database_close.
LEMMA FlushFailsSound ==
    ASSUME BoundsAssumption, TypeOK, FlushFails
    PROVE  /\ op' \in Operation /\ reply' \in Reply /\ db' = db
           /\ op'.index = 0
           /\ \/ op'.kind = "none" /\ op'.at = "idle" /\ reply'.kind = op.kind /\ ~reply'.ok
              \/ op'.kind = "close" /\ op'.at = "act" /\ reply' = reply
<1>1. CASE op.kind = "close"
  <2>1. op' = [op EXCEPT !.at = "act", !.index = 0, !.ok = FALSE] /\ reply' = reply /\ db' = db
    BY <1>1 DEF FlushFails
  <2>2. 0 \in 0 .. MaxIssued
    BY DEF BoundsAssumption
  <2> QED
    BY <1>1, <2>1, <2>2 DEF TypeOK, Operation
<1>2. CASE op.kind # "close"
  <2>1. Return(FALSE) /\ db' = db
    BY <1>2 DEF FlushFails
  <2> QED
    BY <2>1, ReturnSound DEF TypeOK
<1> QED
  BY <1>1, <1>2

\* What a failure may make of SQLite's transaction.
LEMMA AfterFailureSound ==
    ASSUME TypeOK, NEW s \in AfterFailure(sqlite)
    PROVE  /\ s \in Connection
           /\ s.stored = sqlite.stored /\ s.open = sqlite.open
           /\ s.statement = sqlite.statement
           /\ s.inTx => sqlite.inTx /\ s.tx = sqlite.tx
           /\ ~s.inTx => s.tx = <<>>
  BY EndSound DEF AfterFailure, TypeOK

\* What is lost was issued.
LEMMA LostType ==
    ASSUME TypeOK, NEW s
    PROVE  Lost(s) \in SUBSET Ids
  BY RangeType DEF Lost, TypeOK, Connection

\* The part of the queue that has run, one text later.
LEMMA SubSeqGrows ==
    ASSUME NEW S, NEW s \in Seq(S), NEW n \in Nat, n < Len(s)
    PROVE  SubSeq(s, 1, n + 1) = Append(SubSeq(s, 1, n), s[n + 1])
<1>1. n + 1 \in 1 .. Len(s) /\ s[n + 1] \in S /\ Len(s) \in Nat
  BY LenProperties
<1>2. SubSeq(s, 1, n + 1) = SubSeq(s, 1, (n + 1) - 1) \o <<s[n + 1]>>
  BY <1>1, SubSeqRecursiveSecond
<1>3. (n + 1) - 1 = n
  OBVIOUS
<1>4. \A i \in 1 .. n : s[i] \in S
  BY <1>1, LenProperties
<1>5. SubSeq(s, 1, n) \in Seq(S)
  BY <1>4, SubSeqProperties
<1>6. Append(SubSeq(s, 1, n), s[n + 1]) = SubSeq(s, 1, n) \o <<s[n + 1]>>
  BY <1>1, <1>5, AppendIsConcat
<1> QED
  BY <1>2, <1>3, <1>6

\* A text that SQLite runs leaves its connection well formed.
LEMMA AppliedSound ==
    ASSUME BoundsAssumption, NEW s \in Connection, NEW id \in Ids,
           ~s.inTx => s.tx = <<>>
    PROVE  /\ Applied(s, id) \in Connection
           /\ Applied(s, id).inTx = s.inTx /\ Applied(s, id).open = s.open
           /\ Applied(s, id).statement = s.statement
           /\ ~s.inTx => Applied(s, id).tx = <<>>
<1>1. s.tx \in Seq(Ids) /\ s.stored \in Seq(Ids)
  BY DEF Connection
<1>2. Append(s.tx, id) \in Seq(Ids) /\ Append(s.stored, id) \in Seq(Ids)
  BY <1>1, RangeAppend
<1>3. [s EXCEPT !.tx = Append(s.tx, id)] \in Connection
      /\ [s EXCEPT !.stored = Append(s.stored, id)] \in Connection
  BY <1>2 DEF Connection
<1>4. CASE Applied(s, id) = s
  BY <1>4
<1>5. CASE s.inTx /\ Applied(s, id) = [s EXCEPT !.tx = Append(s.tx, id)]
  BY <1>3, <1>5 DEF Connection
<1>6. CASE ~s.inTx /\ Applied(s, id) = [s EXCEPT !.stored = Append(s.stored, id)]
  BY <1>3, <1>6 DEF Connection
<1> QED
  BY <1>4, <1>5, <1>6, AppliedText

\* A process that has just started.
LEMMA InitSound == BoundsAssumption /\ Init => Sound
<1> SUFFICES ASSUME BoundsAssumption, Init PROVE Sound
  OBVIOUS
<1>1. sqlite \in Connection /\ sqlite.tx = <<>> /\ ~sqlite.inTx
  BY EmptySeq DEF Init, Connection
<1>2. hist \in History
  BY DEF Init, History, BoundsAssumption
<1>3. Len(db.queue) = 0 /\ op.index = 0 /\ hist.issued = 0
  BY Constants DEF Init
<1> QED
  BY <1>1, <1>2, <1>3, Constants DEF Init, Sound, TypeOK, Shape, OwnRun

\* The calls that begin.
LEMMA CallSound ==
    ASSUME BoundsAssumption, Sound, database_open \/ Call
    PROVE  Sound'
<1> USE DEF Sound, TypeOK
<1>1. CASE database_open
  <2>1. db' \in Handle /\ sqlite' \in Connection /\ reply' \in Reply
    BY <1>1, Constants DEF database_open, Handle, Connection
  <2>2. op' = op /\ hist' = hist /\ sqlite'.inTx = sqlite.inTx /\ sqlite'.tx = sqlite.tx
    BY <1>1 DEF database_open, Connection
  <2>3. db'.queue = <<>> /\ db.queue = <<>> /\ op.index = 0
    BY <1>1, Constants DEF database_open, Shape, Handle
  <2>4. Shape'
    BY <1>1, <2>2, <2>3, Constants DEF database_open, Shape, OwnRun, Handle, Connection
  <2> QED
    BY <2>1, <2>2, <2>3, <2>4
<1>2. CASE database_write
  <2>1. PICK isBad \in BOOLEAN, ok \in BOOLEAN :
          /\ ~ok => MayFault
          /\ db' = IF ok THEN [db EXCEPT !.queue = Append(db.queue, hist.issued + 1)] ELSE db
          /\ hist' = [hist EXCEPT !.issued = hist.issued + 1,
                                  !.bad = IF isBad THEN hist.bad \cup {hist.issued + 1} ELSE hist.bad,
                                  !.acked = IF ok THEN hist.acked \cup {hist.issued + 1} ELSE hist.acked,
                                  !.faults = IF ok THEN hist.faults ELSE hist.faults + 1]
          /\ reply' = [kind |-> "write", ok |-> ok]
    BY <1>2 DEF database_write
  <2>2. hist.issued + 1 \in Ids
    BY <1>2 DEF database_write, Ids, History, BoundsAssumption
  <2>3. hist' \in History /\ reply' \in Reply
    <3>1. reply' \in Reply
      BY <2>1 DEF Reply
    <3>2. hist.issued + 1 \in 0 .. MaxIssued
      BY <2>2 DEF Ids
    <3>3. ~ok => hist.faults + 1 \in 0 .. MaxFaults
      BY <2>1 DEF History, MayFault, BoundsAssumption
    <3>4. hist.bad \cup {hist.issued + 1} \in SUBSET Ids /\ hist.acked \cup {hist.issued + 1} \in SUBSET Ids
      BY <2>2 DEF History
    <3> QED
      BY <2>1, <3>1, <3>2, <3>3, <3>4 DEF History
  <2>4. /\ db' \in Handle /\ db'.open = db.open /\ db'.inTransaction = db.inTransaction
        /\ Len(db'.queue) <= Len(db.queue) + 1
    <3>1. CASE ok
      <4>1. /\ Append(db.queue, hist.issued + 1) \in Seq(Ids)
            /\ Len(Append(db.queue, hist.issued + 1)) = Len(db.queue) + 1
        BY <2>2, RangeAppend DEF Handle
      <4>2. db' = [db EXCEPT !.queue = Append(db.queue, hist.issued + 1)]
        BY <2>1, <3>1
      <4>3. /\ db' \in Handle /\ db'.open = db.open /\ db'.inTransaction = db.inTransaction
            /\ db'.queue = Append(db.queue, hist.issued + 1)
        BY <4>1, <4>2 DEF Handle
      <4> QED
        BY <4>1, <4>3, LenProperties DEF Handle
    <3>2. CASE ~ok
      BY <2>1, <3>2, LenProperties DEF Handle
    <3> QED
      BY <3>1, <3>2
  <2>5. /\ sqlite' = sqlite /\ op' = op /\ op.at = "idle" /\ db.open
        /\ hist'.issued = hist.issued + 1
    BY <1>2, <2>1 DEF database_write, History
  <2>6. op'.index <= Len(db'.queue)
    BY <2>4, <2>5 DEF Shape, Handle
  <2>7. Shape'
    <3>1. Len(db'.queue) <= hist'.issued
      BY <2>3, <2>4, <2>5 DEF Shape, History, Handle
    <3> QED
      BY <2>3, <2>4, <2>5, <3>1 DEF Shape, OwnRun, History
  <2> QED
    BY <2>3, <2>4, <2>5, <2>6, <2>7
<1>3. CASE database_execute_sql
  <2>1. hist.issued + 1 \in Ids /\ hist.issued + 1 # 0
    BY <1>3 DEF database_execute_sql, Ids, History, BoundsAssumption
  <2>2. hist' \in History /\ hist'.issued = hist.issued + 1
    <3>1. hist.issued + 1 \in 0 .. MaxIssued
      BY <2>1 DEF Ids
    <3>2. hist.bad \cup {hist.issued + 1} \in SUBSET Ids
      BY <2>1 DEF History
    <3> QED
      BY <1>3, <3>1, <3>2 DEF database_execute_sql, History
  <2>3. op' = [NoOp EXCEPT !.kind = "execute", !.at = "flush"]
    BY <1>3 DEF database_execute_sql, Start
  <2>4. op' \in Operation /\ op'.index = 0 /\ op'.at = "flush" /\ op'.kind = "execute"
    BY <2>3, Constants DEF Operation
  <2>5. db' = db /\ sqlite' = sqlite /\ reply' = reply /\ db.open /\ op.at = "idle"
    BY <1>3 DEF database_execute_sql, Start
  <2>6. Shape'
    BY <2>1, <2>2, <2>4, <2>5 DEF Shape, OwnRun, History, Handle
  <2> QED
    BY <2>2, <2>4, <2>5, <2>6 DEF Handle
<1>4. ASSUME NEW kind \in Kinds \ {"execute"}, Start(kind), hist' = hist,
             kind = "begin" => ~db.inTransaction,
             kind \in {"commit", "rollback"} => db.inTransaction
      PROVE  Sound'
  <2>1. op' = [NoOp EXCEPT !.kind = kind, !.at = "flush"]
    BY <1>4 DEF Start
  <2>2. op' \in Operation /\ op'.index = 0 /\ op'.at = "flush" /\ op'.kind = kind
    BY <2>1, Constants DEF Operation
  <2>3. db' = db /\ sqlite' = sqlite /\ reply' = reply /\ db.open /\ op.at = "idle"
    BY <1>4 DEF Start
  <2>4. Shape'
    BY <1>4, <2>2, <2>3 DEF Shape, OwnRun
  <2> QED
    BY <1>4, <2>2, <2>3, <2>4 DEF Handle
<1>5. CASE database_prepare
  BY <1>4, <1>5 DEF database_prepare
<1>6. ASSUME NEW kind \in Kinds, Plain(kind) \/ database_transaction_sql(kind)
      PROVE  Sound'
  BY <1>4, <1>6 DEF Plain, database_transaction_sql
<1> QED
  BY <1>1, <1>2, <1>3, <1>5, <1>6 DEF Call

\* The steps of database_flush.
LEMMA FlushStepSound ==
    ASSUME BoundsAssumption, Sound, FlushStep
    PROVE  Sound'
<1> USE DEF Sound, TypeOK
<1>1. CASE FlushEmpty
  <2>1. op' = [op EXCEPT !.at = "act"] /\ UNCHANGED <<db, sqlite, reply, hist>>
        /\ db.queue = <<>> /\ op.at = "flush"
    BY <1>1 DEF FlushEmpty
  <2>2. op' \in Operation /\ op'.at = "act" /\ op'.kind = op.kind /\ op'.index = op.index
    BY <2>1 DEF Operation
  <2>3. Shape'
    BY <2>1, <2>2 DEF Shape, OwnRun
  <2> QED
    BY <2>1, <2>2, <2>3
<1>2. CASE FlushBegin
  <2>1. /\ op' = [op EXCEPT !.at = "run", !.own = OwnTransaction]
        /\ sqlite' = IF OwnTransaction THEN Begun(sqlite) ELSE sqlite
        /\ UNCHANGED <<db, reply, hist>>
        /\ db.queue # <<>> /\ op.at = "flush" /\ OwnTransaction = ~db.inTransaction
    BY <1>2 DEF FlushBegin, OwnTransaction
  <2>2. /\ op' \in Operation /\ op'.at = "run" /\ op'.kind = op.kind /\ op'.index = op.index
        /\ op'.own <=> ~db.inTransaction
    BY <2>1 DEF Operation, Handle
  <2>3. sqlite' \in Connection /\ ~sqlite'.inTx => sqlite'.tx = <<>>
    BY <2>1, EndSound
  <2>4. sqlite' \in Connection /\ sqlite'.open = sqlite.open
    BY <2>1, EndSound
  <2>5. ~db.inTransaction => sqlite'.inTx
    BY <2>1, EndSound
  <2>6. db.inTransaction => sqlite' = sqlite
    BY <2>1
  <2>7. Shape'
    BY <2>1, <2>2, <2>4, <2>5, <2>6 DEF Shape, OwnRun
  <2> QED
    BY <2>1, <2>2, <2>3, <2>4, <2>7
<1>3. CASE FlushBeginFails
  <2>1. /\ FlushFails /\ sqlite' = sqlite /\ op.at = "flush"
        /\ hist' = hist \/ (MayFault /\ hist' = Faulted(hist))
    BY <1>3 DEF FlushBeginFails
  <2>2. hist' \in History /\ hist'.issued = hist.issued
    BY <2>1, FaultedSound
  <2>3. Shape'
    BY <2>1, <2>2, FlushFailsSound DEF Shape, OwnRun
  <2> QED
    BY <2>1, <2>2, <2>3, FlushFailsSound DEF Handle
<1>4. CASE FlushWrite
  <2>1. /\ op' = [op EXCEPT !.index = op.index + 1]
        /\ sqlite' = Applied(sqlite, db.queue[op.index + 1])
        /\ UNCHANGED <<db, reply, hist>>
        /\ op.at = "run" /\ op.index < Len(db.queue)
    BY <1>4 DEF FlushWrite, Running
  <2>2. db.queue[op.index + 1] \in Ids
    BY <2>1 DEF Handle, Operation
  <2>3. /\ sqlite' \in Connection
        /\ sqlite'.inTx = sqlite.inTx /\ sqlite'.open = sqlite.open
        /\ ~sqlite'.inTx => sqlite'.tx = <<>>
    BY <2>1, <2>2, AppliedSound
  <2>4. op.index + 1 \in 0 .. MaxIssued /\ op.index + 1 <= Len(db.queue)
    BY <2>1, <1>4 DEF Operation, Handle, History, Shape, BoundsAssumption
  <2>5. op' \in Operation /\ op'.at = "run" /\ op'.kind = op.kind /\ op'.own = op.own /\ op'.index = op.index + 1
    BY <2>1, <2>4 DEF Operation
  <2>6. Shape'
    BY <2>1, <2>3, <2>5 DEF Shape, OwnRun
  <2> QED
    BY <2>1, <2>3, <2>4, <2>5, <2>6
<1>5. CASE FlushWriteFails
  <2>1. PICK s \in AfterFailure(sqlite) :
          /\ sqlite' = AfterFlushFailure(op.own, s)
          /\ \/ hist' = [hist EXCEPT !.dropped = hist.dropped \cup Lost(s),
                                     !.tainted = hist.tainted \/ ~op.own]
             \/ MayFault /\ hist' = [Faulted(hist) EXCEPT
                                       !.dropped = Faulted(hist).dropped \cup Lost(s),
                                       !.tainted = Faulted(hist).tainted \/ ~op.own]
    BY <1>5 DEF FlushWriteFails, AfterFailure
  <2>2. FlushFails /\ op.at = "run"
    BY <1>5 DEF FlushWriteFails, Running
  <2>3. hist' \in History /\ hist'.issued = hist.issued
    <3>1. Lost(s) \in SUBSET Ids /\ op.own \in BOOLEAN
      BY LostType DEF Operation
    <3>2. CASE hist' = [hist EXCEPT !.dropped = hist.dropped \cup Lost(s),
                                    !.tainted = hist.tainted \/ ~op.own]
      BY <3>1, <3>2 DEF History
    <3>3. ASSUME MayFault, NEW h, h = Faulted(hist),
                 hist' = [h EXCEPT !.dropped = h.dropped \cup Lost(s),
                                   !.tainted = h.tainted \/ ~op.own]
          PROVE  hist' \in History /\ hist'.issued = hist.issued
      <4>1. h \in History /\ h.issued = hist.issued
        BY <3>3, FaultedSound
      <4> QED
        BY <3>1, <3>3, <4>1 DEF History
    <3> QED
      BY <2>1, <3>2, <3>3
  <2>4. /\ sqlite' \in Connection /\ sqlite'.open = sqlite.open
        /\ op.own => ~sqlite'.inTx
        /\ sqlite'.inTx => sqlite.inTx
        /\ ~sqlite'.inTx => sqlite'.tx = <<>>
    <3>1. /\ s \in Connection /\ s.open = sqlite.open
          /\ s.inTx => sqlite.inTx
          /\ ~s.inTx => s.tx = <<>>
      BY AfterFailureSound
    <3>2. CASE op.own
      <4>1. sqlite' = RolledBack(s)
        BY <2>1, <3>2 DEF AfterFlushFailure
      <4> QED
        BY <3>1, <4>1, EndSound
    <3>3. CASE ~op.own
      <4>1. sqlite' = s
        BY <2>1, <3>3 DEF AfterFlushFailure
      <4> QED
        BY <3>1, <3>3, <4>1
    <3> QED
      BY <3>2, <3>3
  <2>5. Shape'
    BY <2>2, <2>3, <2>4, FlushFailsSound DEF Shape, OwnRun
  <2> QED
    BY <2>2, <2>3, <2>4, <2>5, FlushFailsSound DEF Handle
<1>6. CASE FlushCommit
  <2>1. /\ sqlite' = IF op.own THEN Committed(sqlite) ELSE sqlite
        /\ db' = [db EXCEPT !.queue = <<>>]
        /\ op' = [op EXCEPT !.at = "act", !.index = 0]
        /\ UNCHANGED <<reply, hist>> /\ op.at = "run"
    BY <1>6 DEF FlushCommit, FlushedAll
  <2>2. /\ db' \in Handle /\ db'.queue = <<>> /\ db'.open = db.open
        /\ db'.inTransaction = db.inTransaction
    BY <2>1, EmptySeq DEF Handle
  <2>3. 0 \in 0 .. MaxIssued /\ Len(<<>>) = 0
    BY DEF BoundsAssumption
  <2>4. op' \in Operation /\ op'.at = "act" /\ op'.index = 0 /\ op'.kind = op.kind
    BY <2>1, <2>3 DEF Operation
  <2>5. sqlite' \in Connection /\ sqlite'.open = sqlite.open
    BY <2>1, EndSound
  <2>6. op.own => ~sqlite'.inTx /\ sqlite'.tx = <<>>
    BY <2>1, EndSound
  <2>7. ~op.own => sqlite' = sqlite
    BY <2>1
  <2>8. Shape'
    BY <2>1, <2>2, <2>3, <2>4, <2>5, <2>6, <2>7 DEF Shape, OwnRun, History
  <2> QED
    BY <2>1, <2>2, <2>3, <2>4, <2>5, <2>6, <2>7, <2>8
<1>7. CASE FlushCommitFails
  <2>1. /\ FlushFails /\ op.at = "run" /\ op.own
        /\ sqlite' = RolledBack(sqlite) /\ MayFault /\ hist' = Faulted(hist)
    BY <1>7 DEF FlushCommitFails, FlushedAll, AfterFlushFailure
  <2>2. hist' \in History /\ hist'.issued = hist.issued
    BY <2>1, FaultedSound
  <2>3. Shape'
    BY <2>1, <2>2, EndSound, FlushFailsSound DEF Shape, OwnRun
  <2>4. sqlite' \in Connection /\ sqlite'.tx = <<>>
    BY <2>1, EndSound
  <2>5. op' \in Operation /\ reply' \in Reply /\ db' = db /\ op'.index = 0
    BY <2>1, FlushFailsSound
  <2> QED
    BY <2>2, <2>3, <2>4, <2>5 DEF Handle
<1> QED
  BY <1>1, <1>2, <1>3, <1>4, <1>5, <1>6, <1>7 DEF FlushStep

\* What each call does once the queue is empty.
LEMMA ActStepSound ==
    ASSUME BoundsAssumption, Sound, ActStep
    PROVE  Sound'
<1> USE DEF Sound, TypeOK
<1>0. ASSUME NEW ok \in BOOLEAN, Return(ok), hist' \in History, hist'.issued = hist.issued,
             db' \in Handle, Len(db'.queue) <= Len(db.queue), db'.open => db.open,
             ~db'.open => db'.queue = <<>>,
             sqlite' \in Connection, ~sqlite'.inTx => sqlite'.tx = <<>>,
             sqlite'.inTx => sqlite'.open, db'.open => sqlite'.open,
             db'.open /\ sqlite'.inTx => db'.inTransaction
      PROVE  Sound'
  <2>1. Len(db'.queue) <= hist'.issued /\ op'.index <= Len(db'.queue)
    BY <1>0, ReturnSound DEF Shape, Handle, History
  <2>2. Shape'
    BY <1>0, <2>1, ReturnSound DEF Shape, OwnRun
  <2> QED
    BY <1>0, <2>1, <2>2, ReturnSound
<1>a. op.at = "act"
  BY DEF ActStep, FlushDone, ExecuteDone, ReadDone, PrepareDone, BeginDone, CommitDone, RollbackDone,
         CloseDone, ActFails, Acting
<1>b. /\ db.open /\ sqlite.open /\ (sqlite.inTx => db.inTransaction)
      /\ Len(db.queue) \in Nat /\ Len(db.queue) <= Len(db.queue)
  BY <1>a, LenProperties DEF Shape, OwnRun, Handle
<1>1. CASE FlushDone \/ ReadDone
  <2>1. Return(TRUE) /\ UNCHANGED <<db, sqlite, hist>> /\ op.at = "act"
    BY <1>1 DEF FlushDone, ReadDone, Acting
  <2> QED
    BY <2>1, <1>0, <1>b
<1>2. CASE PrepareDone
  <2>1. /\ Return(TRUE) /\ UNCHANGED <<db, hist>> /\ op.at = "act"
        /\ sqlite' = [sqlite EXCEPT !.statement = TRUE]
    BY <1>2 DEF PrepareDone, Acting
  <2>2. /\ sqlite' \in Connection /\ sqlite'.open = sqlite.open
        /\ sqlite'.inTx = sqlite.inTx /\ sqlite'.tx = sqlite.tx
    BY <2>1 DEF Connection
  <2> QED
    BY <2>1, <2>2, <1>0, <1>b
<1>3. CASE ExecuteDone
  <2>1. /\ Return(TRUE) /\ db' = db /\ op.at = "act" /\ op.kind = "execute"
        /\ sqlite' = Applied(sqlite, hist.issued)
        /\ hist' = [hist EXCEPT !.acked = hist.acked \cup {hist.issued}]
    BY <1>3 DEF ExecuteDone, Acting
  <2>2. hist.issued \in Ids
    BY <2>1 DEF Shape, History, Ids
  <2>3. /\ sqlite' \in Connection
        /\ ~sqlite'.inTx => sqlite'.tx = <<>>
    BY <2>1, <2>2, AppliedSound
  <2>4. sqlite'.open = sqlite.open /\ sqlite'.inTx = sqlite.inTx
    BY <2>1, <2>2, AppliedSound
  <2>5. hist' \in History /\ hist'.issued = hist.issued
    BY <2>1, <2>2 DEF History
  <2> QED
    BY <2>1, <2>3, <2>4, <2>5, <1>0, <1>b
<1>4. CASE BeginDone
  <2>1. /\ Return(TRUE) /\ op.at = "act" /\ op.kind = "begin"
        /\ sqlite' = Begun(sqlite)
        /\ db' = [db EXCEPT !.inTransaction = TRUE]
        /\ hist' = [hist EXCEPT !.since = hist.issued]
    BY <1>4 DEF BeginDone, Acting
  <2>2. /\ db' \in Handle /\ db'.open = db.open /\ db'.queue = db.queue /\ db'.inTransaction
    BY <2>1 DEF Handle
  <2>3. hist' \in History /\ hist'.issued = hist.issued
    BY <2>1 DEF History
  <2>4. /\ sqlite' \in Connection /\ sqlite'.open = sqlite.open /\ sqlite'.inTx
    BY <2>1, EndSound
  <2> QED
    BY <2>1, <2>2, <2>3, <2>4, <1>0, <1>b
<1>5. CASE CommitDone \/ RollbackDone
  <2>1. /\ Return(TRUE) /\ op.at = "act"
        /\ sqlite' = Committed(sqlite) \/ sqlite' = RolledBack(sqlite)
        /\ db' = [db EXCEPT !.inTransaction = FALSE]
    BY <1>5 DEF CommitDone, RollbackDone, Acting
  <2>2. hist' \in History /\ hist'.issued = hist.issued
    <3>1. Inside \in SUBSET Ids
      BY DEF Inside, History
    <3>2. CASE hist' = [hist EXCEPT !.kept = hist.kept \cup Inside]
      BY <3>1, <3>2 DEF History
    <3>3. ASSUME hist' = [hist EXCEPT !.dropped = hist.dropped \cup Lost(RolledBack(sqlite)),
                                      !.undone = hist.undone \cup Inside]
          PROVE  hist' \in History /\ hist'.issued = hist.issued
      BY <3>1, <3>3, LostType DEF History
    <3> QED
      BY <1>5, <3>2, <3>3 DEF CommitDone, RollbackDone
  <2>3. db' \in Handle /\ db'.open = db.open /\ db'.queue = db.queue
    BY <2>1 DEF Handle
  <2>4. /\ sqlite' \in Connection /\ sqlite'.open = sqlite.open /\ ~sqlite'.inTx
        /\ sqlite'.tx = <<>>
    BY <2>1, EndSound
  <2> QED
    BY <2>1, <2>2, <2>3, <2>4, <1>0, <1>b
<1>6. CASE CloseDone
  <2>1. /\ Return(op.ok /\ ~sqlite.statement)
        /\ db' = [db EXCEPT !.open = FALSE, !.queue = <<>>]
        /\ sqlite' = IF sqlite.statement THEN sqlite
                     ELSE [RolledBack(sqlite) EXCEPT !.open = FALSE]
        /\ hist' = [hist EXCEPT !.dropped = hist.dropped \cup Range(sqlite.tx) \cup Range(db.queue)]
    BY <1>6 DEF CloseDone, Acting
  <2>2. db' \in Handle /\ ~db'.open /\ db'.queue = <<>> /\ Len(db'.queue) <= Len(db.queue)
    <3>1. <<>> \in Seq(Ids) /\ Len(<<>>) <= Len(db.queue)
      BY <1>b, EmptySeq
    <3>2. db' = [db EXCEPT !.open = FALSE, !.queue = <<>>]
      BY <2>1
    <3>3. db' \in Handle /\ ~db'.open /\ db'.queue = <<>>
      BY <3>1, <3>2 DEF Handle
    <3> QED
      BY <3>1, <3>3
  <2>3. hist' \in History /\ hist'.issued = hist.issued
    BY <2>1, RangeType DEF History, Connection, Handle
  <2>4. CASE ~sqlite.statement
    <3>1. sqlite' \in Connection /\ ~sqlite'.inTx /\ sqlite'.tx = <<>>
      <4>1. RolledBack(sqlite) \in Connection /\ ~RolledBack(sqlite).inTx
            /\ RolledBack(sqlite).tx = <<>>
        BY EndSound
      <4>2. sqlite' = [RolledBack(sqlite) EXCEPT !.open = FALSE]
        BY <2>1, <2>4
      <4> QED
        BY <4>1, <4>2 DEF Connection
    <3> QED
      BY <2>1, <2>2, <2>3, <3>1, <1>0
  <2>5. CASE sqlite.statement
    BY <2>1, <2>2, <2>3, <2>5, <1>0 DEF Shape
  <2> QED
    BY <2>4, <2>5
<1>7. CASE ActFails
  <2>1. PICK s \in AfterFailure(sqlite) :
          /\ sqlite' = s
          /\ \/ hist' = [hist EXCEPT !.dropped = hist.dropped \cup Lost(s)]
             \/ MayFault /\ hist' = [Faulted(hist) EXCEPT
                                       !.dropped = Faulted(hist).dropped \cup Lost(s)]
    BY <1>7 DEF ActFails, AfterFailure
  <2>2. hist' \in History /\ hist'.issued = hist.issued
    BY <2>1, FaultedSound, LostType DEF History
  <2>3. Return(FALSE) /\ db' = db /\ op.at = "act"
    BY <1>7 DEF ActFails
  <2> QED
    BY <2>1, <2>2, <2>3, <1>0, AfterFailureSound, <1>b
<1> QED
  BY <1>1, <1>2, <1>3, <1>4, <1>5, <1>6, <1>7 DEF ActStep

\* Prepared statements, and the end of the process.
LEMMA OtherSound ==
    ASSUME BoundsAssumption, Sound, database_step \/ database_statement_destroy \/ Crash
    PROVE  Sound'
<1> USE DEF Sound, TypeOK
<1>1. CASE database_step
  <2> DEFINE id == hist.issued + 1
  <2>1. PICK ok \in BOOLEAN, s \in {Applied(sqlite, id)} \cup AfterFailure(sqlite) :
          /\ ~ok => MayFault
          /\ sqlite' = s
          /\ hist' = [hist EXCEPT !.issued = id,
                                  !.dropped = hist.dropped \cup Lost(s),
                                  !.acked = IF ok THEN hist.acked \cup {id} ELSE hist.acked,
                                  !.stepped = hist.stepped \cup {id},
                                  !.faults = IF ok THEN hist.faults ELSE hist.faults + 1]
          /\ reply' = [kind |-> "step", ok |-> ok]
    BY <1>1 DEF database_step
  <2>2. id \in Ids /\ id \in 0 .. MaxIssued
    <3>1. hist.issued < MaxIssued
      BY <1>1 DEF database_step
    <3> QED
      BY <3>1 DEF Ids, History, BoundsAssumption
  <2>3. ~ok => hist.faults + 1 \in 0 .. MaxFaults
    BY <2>1 DEF History, MayFault, BoundsAssumption
  <2>4. /\ hist.acked \cup {id} \in SUBSET Ids /\ hist.stepped \cup {id} \in SUBSET Ids
        /\ hist.dropped \cup Lost(s) \in SUBSET Ids
    BY <2>2, LostType DEF History
  <2>5. hist' \in History /\ hist'.issued = hist.issued + 1
    <3> HIDE DEF id
    <3>1. hist' \in History /\ hist'.issued = id
      BY <2>1, <2>2, <2>3, <2>4 DEF History
    <3> QED
      BY <3>1 DEF id
  <2>6. sqlite' \in Connection /\ sqlite'.open = sqlite.open
    BY <2>1, <2>2, AppliedSound, AfterFailureSound
  <2>7. sqlite'.inTx => sqlite.inTx
    BY <2>1, <2>2, AppliedSound, AfterFailureSound
  <2>8. ~sqlite'.inTx => sqlite'.tx = <<>>
    BY <2>1, <2>2, AppliedSound, AfterFailureSound
  <2>9. op' = op /\ db' = db /\ op.at = "idle" /\ reply' \in Reply
    BY <1>1, <2>1 DEF database_step, Reply
  <2>10. Shape'
    BY <2>5, <2>6, <2>7, <2>9 DEF Shape, OwnRun, History, Handle
  <2> QED
    BY <2>5, <2>6, <2>8, <2>9, <2>10
<1>2. CASE database_statement_destroy
  <2>1. /\ sqlite' = [sqlite EXCEPT !.statement = FALSE] /\ reply' = NoReply
        /\ UNCHANGED <<db, op, hist>>
    BY <1>2 DEF database_statement_destroy
  <2>2. /\ sqlite' \in Connection /\ sqlite'.open = sqlite.open
        /\ sqlite'.inTx = sqlite.inTx /\ sqlite'.tx = sqlite.tx
    BY <2>1 DEF Connection
  <2>3. Shape'
    BY <2>1, <2>2 DEF Shape, OwnRun
  <2> QED
    BY <2>1, <2>2, <2>3, Constants
<1>3. CASE Crash
  <2>1. /\ db' = Closed /\ op' = NoOp /\ reply' = NoReply
        /\ sqlite' = [RolledBack(sqlite) EXCEPT !.open = FALSE, !.statement = FALSE]
        /\ hist' = [hist EXCEPT !.dropped = hist.dropped \cup (hist.acked \ Range(sqlite.stored))]
    BY <1>3 DEF Crash
  <2>2. RolledBack(sqlite) \in Connection /\ ~RolledBack(sqlite).inTx
        /\ RolledBack(sqlite).tx = <<>>
    BY EndSound
  <2>3. sqlite' \in Connection /\ ~sqlite'.inTx /\ sqlite'.tx = <<>>
    BY <2>1, <2>2 DEF Connection
  <2>4. hist' \in History /\ hist'.issued = hist.issued
    BY <2>1 DEF History
  <2>5. Len(db'.queue) = 0 /\ 0 <= hist'.issued
    BY <2>1, <2>4, Constants DEF History
  <2>6. Shape'
    BY <2>1, <2>3, <2>4, <2>5, Constants DEF Shape, OwnRun
  <2> QED
    BY <2>1, <2>3, <2>4, <2>5, <2>6, Constants
<1> QED
  BY <1>1, <1>2, <1>3

\* So every step keeps the first layer.
LEMMA NextSound == BoundsAssumption /\ Sound /\ [Next]_vars => Sound'
<1>1. ASSUME Sound, UNCHANGED vars PROVE Sound'
  BY <1>1 DEF vars, Sound, TypeOK, Shape, OwnRun
<1> QED
  BY <1>1, CallSound, FlushStepSound, ActStepSound, OtherSound DEF Next

(* The variables of Database keep their types, for any number of texts and *)
(* failures: no text is invented, no index runs past the queue.            *)
THEOREM DatabaseTypes == Spec => []TypeOK
<1>1. Init => Sound
  BY InitSound, BoundsAssumption
<1>2. Sound /\ [Next]_vars => Sound'
  BY NextSound, BoundsAssumption
<1>3. Sound => TypeOK
  BY DEF Sound
<1> QED
  BY <1>1, <1>2, <1>3, PTL DEF Spec

-----------------------------------------------------------------------------
(* The second layer.  A step is one of five kinds: it leaves the texts     *)
(* where they are, settles a transaction, gives one up, puts one text down *)
(* or queues one.                                                          *)

Sorted(s, past) == \A i, j \in DOMAIN s : i < j /\ {s[i], s[j]} \cap past = {} => s[i] < s[j]

\* IssueOrder is about the database as a whole.
LEMMA OrderIsSorted == IssueOrder <=> (~hist.tainted => Sorted(sqlite.stored \o sqlite.tx, hist.stepped))
  BY DEF IssueOrder, Sorted

\* A text greater than all that are in order, or that is left out, goes last.
LEMMA SortedAppend ==
    ASSUME NEW s \in Seq(Ids), NEW id \in Ids, NEW past, NEW more, past \subseteq more,
           Sorted(s, past),
           id \in more \/ \A v \in Range(s) \ past : v < id
    PROVE  Sorted(Append(s, id), more)
<1> DEFINE t == Append(s, id)
<1>1. /\ DOMAIN t = 1 .. Len(s) + 1 /\ t[Len(s) + 1] = id /\ DOMAIN s = 1 .. Len(s)
      /\ \A i \in 1 .. Len(s) : t[i] = s[i]
      /\ Len(s) \in Nat
  BY RangeAppend, LenProperties
<1> HIDE DEF t
<1>2. SUFFICES ASSUME NEW i \in DOMAIN t, NEW j \in DOMAIN t, i < j, {t[i], t[j]} \cap more = {}
               PROVE  t[i] < t[j]
  BY DEF Sorted, t
<1>3. i \in 1 .. Len(s) /\ t[i] = s[i] /\ t[i] \notin more /\ t[j] \notin more
  BY <1>1, <1>2
<1>4. CASE j = Len(s) + 1
  <2>1. t[j] = id /\ s[i] \in Range(s)
    BY <1>1, <1>3, <1>4 DEF Range
  <2> QED
    BY <2>1, <1>3
<1>5. CASE j # Len(s) + 1
  <2>1. j \in 1 .. Len(s) /\ t[j] = s[j]
    BY <1>1, <1>5
  <2> QED
    BY <2>1, <1>1, <1>2, <1>3 DEF Sorted
<1> QED
  BY <1>4, <1>5

\* What is left when the transaction is rolled back is in order too.
LEMMA SortedPrefix ==
    ASSUME NEW s \in Seq(Ids), NEW t \in Seq(Ids), NEW past, NEW more, past \subseteq more,
           Sorted(s \o t, past)
    PROVE  Sorted(s, more)
<1>1. /\ Len(s) \in Nat /\ Len(t) \in Nat /\ DOMAIN s = 1 .. Len(s)
      /\ DOMAIN (s \o t) = 1 .. Len(s) + Len(t)
      /\ \A i \in 1 .. Len(s) : (s \o t)[i] = s[i]
  BY ConcatProperties, LenProperties
<1>2. \A i \in DOMAIN s : i \in DOMAIN (s \o t) /\ (s \o t)[i] = s[i]
  BY <1>1
<1> QED
  BY <1>2 DEF Sorted

\* Nor does it matter that more texts are left out.
LEMMA SortedMore ==
    ASSUME NEW s, NEW past, NEW more, past \subseteq more, Sorted(s, past)
    PROVE  Sorted(s, more)
  BY DEF Sorted

\* Of a process that has just started, all of it.
LEMMA InitIInv == Init => IInv
<1> SUFFICES ASSUME Init PROVE IInv
  OBVIOUS
<1>1. Sound
  BY InitSound, BoundsAssumption
<1>2. Range(<<>>) = {}
  BY DEF Range
<1>3. Queued = {} /\ Stored = {} /\ Pending = {}
  BY <1>2, Constants, BoundsAssumption DEF Init, Queued, Stored, Pending
<1>4. Issued /\ NothingForgotten /\ InTransaction /\ Ran
  BY <1>3, Constants, BoundsAssumption DEF Init, Issued, NothingForgotten, InTransaction, Ran, Inside, Replied
<1>5. Batch /\ Ascending
  BY <1>3, Constants, BoundsAssumption DEF Init, Batch, Ascending, OwnRun
<1>6. IssueOrder
  BY DEF Init, IssueOrder
<1> QED
  BY <1>1, <1>4, <1>5, <1>6 DEF IInv, Sound

\* The sequences of a state, with their types.
LEMMA Sequential ==
    ASSUME TypeOK
    PROVE  /\ sqlite.stored \in Seq(Ids) /\ sqlite.tx \in Seq(Ids) /\ db.queue \in Seq(Ids)
           /\ Stored \subseteq Ids /\ Pending \subseteq Ids /\ Queued \subseteq Ids
           /\ Range(sqlite.stored \o sqlite.tx) = Stored \cup Pending
           /\ DOMAIN db.queue = 1 .. Len(db.queue) /\ Len(db.queue) \in Nat
           /\ \A j \in 1 .. Len(db.queue) : db.queue[j] \in Queued
           /\ Visible = Stored \cup Pending
<1>1. sqlite.stored \in Seq(Ids) /\ sqlite.tx \in Seq(Ids) /\ db.queue \in Seq(Ids)
  BY DEF TypeOK, Connection, Handle
<1>2. DOMAIN db.queue = 1 .. Len(db.queue) /\ Len(db.queue) \in Nat
  BY <1>1, LenProperties
<1>3. \A j \in 1 .. Len(db.queue) : db.queue[j] \in Queued
  BY <1>2 DEF Queued, Range
<1>4. Stored \subseteq Ids /\ Pending \subseteq Ids /\ Queued \subseteq Ids
  BY <1>1, RangeType DEF Stored, Pending, Queued
<1>5. Range(sqlite.stored \o sqlite.tx) = Stored \cup Pending
  BY <1>1, RangeConcat DEF Stored, Pending
<1> QED
  BY <1>1, <1>2, <1>3, <1>4, <1>5 DEF Visible

\* A transaction of the caller, as database.c and SQLite both see it.
CallersTransaction == db.open /\ db.inTransaction /\ sqlite.inTx

\* A step that leaves every text where it is.
LEMMA Quiet ==
    ASSUME IInv, Sound',
           sqlite'.stored = sqlite.stored, sqlite'.tx = sqlite.tx, db'.queue = db.queue,
           hist'.acked = hist.acked, hist'.dropped = hist.dropped, hist'.stepped = hist.stepped,
           hist'.kept = hist.kept, hist'.undone = hist.undone, hist'.tainted = hist.tainted,
           \/ hist'.issued = hist.issued /\ (op'.kind = "execute" => op.kind = "execute")
           \/ hist'.issued = hist.issued + 1,
           op'.index = 0, op'.at # "run" \/ sqlite.tx = <<>> \/ ~OwnRun',
           op.at # "run",
           Replied("read")' => Queued = {},
           ~CallersTransaction' \/ (CallersTransaction /\ hist'.since = hist.since) \/ hist'.since = hist.issued,
           hist'.since <= hist'.issued,
           db'.open /\ ~db'.inTransaction => Queued = {} \/ (db.open /\ ~db.inTransaction)
    PROVE  IInv'
<1>1. Stored' = Stored /\ Pending' = Pending /\ Queued' = Queued
  BY DEF Stored, Pending, Queued
<1>2. hist.issued \in Nat /\ hist'.issued \in Nat /\ op.index = 0
  BY DEF IInv, Sound, TypeOK, Shape, History
<1>3. Issued'
  BY <1>1, <1>2 DEF IInv, Issued
<1>4. Ran'
  BY DEF Ran
<1>5. NothingForgotten'
  BY <1>1 DEF IInv, NothingForgotten
<1>6. InTransaction'
  <2>1. CASE ~CallersTransaction'
    BY <1>1, <2>1 DEF IInv, InTransaction, CallersTransaction
  <2>2. CASE CallersTransaction /\ hist'.since = hist.since
    BY <1>1, <2>2 DEF IInv, InTransaction, CallersTransaction, Inside
  <2>3. CASE hist'.since = hist.issued
    <3>1. Inside' = {} /\ \A id \in Stored : id <= hist.issued
      BY <1>2, <2>3 DEF IInv, Issued, Inside
    <3> QED
      BY <1>1, <2>3, <3>1 DEF IInv, InTransaction
  <2> QED
    BY <2>1, <2>2, <2>3
<1>7. Batch'
  <2>1. OwnRun' => sqlite'.tx = SubSeq(db'.queue, 1, op'.index)
    <3>1. SubSeq(db.queue, 1, 0) = <<>>
      BY SubSeqEmpty
    <3> QED
      BY <3>1 DEF OwnRun
  <2> QED
    BY <1>1, <2>1 DEF IInv, Batch
<1>8. Ascending'
  <2>1. \A j \in DOMAIN db.queue : j > op.index
    BY <1>2 DEF IInv, Sound, TypeOK, Handle
  <2>2. ASSUME ~hist.tainted, NEW j \in DOMAIN db.queue
        PROVE  \A id \in (Stored \cup Pending) \ hist.stepped : id < db.queue[j]
    BY <2>1, <2>2 DEF IInv, Ascending
  <2> QED
    BY <1>1, <2>2 DEF Ascending
<1>9. IssueOrder'
  BY DEF IInv, IssueOrder
<1> QED
  BY <1>3, <1>4, <1>5, <1>6, <1>7, <1>8, <1>9 DEF IInv, Sound

\* A step that ends with an empty queue and what was pending stored or pending still.
LEMMA Settles ==
    ASSUME IInv, Sound', db'.queue = <<>>,
           \/ sqlite'.stored = sqlite.stored /\ sqlite'.tx = sqlite.tx
           \/ sqlite'.stored = sqlite.stored \o sqlite.tx /\ sqlite'.tx = <<>>,
           hist'.acked = hist.acked, hist'.stepped = hist.stepped, hist'.undone = hist.undone,
           hist'.tainted = hist.tainted, hist'.issued = hist.issued, hist'.since = hist.since,
           hist.kept \subseteq hist'.kept, hist'.kept \subseteq hist.kept \cup Stored',
           hist'.acked \ hist'.dropped \subseteq Stored \cup Pending,
           op'.at # "run", op'.kind # "execute" \/ op.kind = "execute",
           CallersTransaction' =>
              CallersTransaction /\ Stored' = Stored /\ Inside \subseteq Stored \cup Pending
    PROVE  IInv'
<1>1. Queued' = {} /\ DOMAIN db'.queue = {}
  BY DEF Queued, Range
<1>2. /\ Stored \subseteq Stored' /\ Stored' \cup Pending' = Stored \cup Pending
      /\ sqlite'.stored \o sqlite'.tx = sqlite.stored \o sqlite.tx
  <2>0. /\ sqlite.stored \in Seq(Ids) /\ sqlite.tx \in Seq(Ids)
        /\ Range(sqlite.stored \o sqlite.tx) = Stored \cup Pending
    BY Sequential DEF IInv
  <2>1. CASE sqlite'.stored = sqlite.stored /\ sqlite'.tx = sqlite.tx
    BY <2>1 DEF Stored, Pending
  <2>2. CASE sqlite'.stored = sqlite.stored \o sqlite.tx /\ sqlite'.tx = <<>>
    <3>1. Stored' = Stored \cup Pending /\ Pending' = {}
      <4>1. Range(<<>>) = {}
        BY DEF Range
      <4> QED
        BY <2>0, <2>2, <4>1 DEF Stored, Pending
    <3>2. sqlite'.stored \o sqlite'.tx = sqlite.stored \o sqlite.tx
      BY <2>0, <2>2, ConcatProperties, ConcatEmptySeq
    <3> QED
      BY <3>1, <3>2
  <2> QED
    BY <2>1, <2>2
<1>3. Issued'
  BY <1>1, <1>2 DEF IInv, Issued
<1>4. Ran' /\ Batch' /\ Ascending'
  BY <1>1 DEF Ran, Batch, Ascending, OwnRun
<1>5. NothingForgotten'
  BY <1>1, <1>2 DEF NothingForgotten
<1>6. InTransaction'
  <2>1. hist'.kept \subseteq Stored' /\ hist'.undone \cap (Queued' \cup Stored' \cup Pending') = {}
    BY <1>1, <1>2 DEF IInv, InTransaction
  <2>2. Inside' = Inside
    BY DEF Inside
  <2> QED
    BY <1>1, <1>2, <2>1, <2>2 DEF IInv, InTransaction, CallersTransaction
<1>7. IssueOrder'
  BY <1>2 DEF IInv, IssueOrder
<1> QED
  BY <1>3, <1>4, <1>5, <1>6, <1>7 DEF IInv, Sound

\* A step that gives up what is pending.
LEMMA GivesUp ==
    ASSUME IInv, Sound', sqlite'.stored = sqlite.stored, sqlite'.tx = <<>>,
           db'.queue = db.queue \/ db'.queue = <<>>,
           hist'.acked = hist.acked, hist.stepped \subseteq hist'.stepped,
           hist'.issued >= hist.issued, hist'.kept = hist.kept, hist'.since = hist.since,
           hist.tainted => hist'.tainted,
           hist'.undone \subseteq hist.acked, hist'.undone \cap (Stored \cup Queued') = {},
           hist'.acked \ hist'.dropped \subseteq Stored \cup Queued',
           op'.at # "run", op'.kind # "execute", ~CallersTransaction', ~Replied("read")',
           hist'.tainted \/ OwnRun \/ db'.queue = <<>> \/ op.index = 0,
           db'.open /\ ~db'.inTransaction => db'.queue = <<>> \/ (db.open /\ ~db.inTransaction)
    PROVE  IInv'
<1>1. Stored' = Stored /\ Pending' = {} /\ Queued' \subseteq Queued
  BY DEF Stored, Pending, Queued, Range
<1>2. db'.queue = <<>> => Queued' = {} /\ DOMAIN db'.queue = {}
  BY DEF Queued, Range
<1>3. Issued'
  <2>1. hist.issued \in Nat /\ hist'.issued \in Nat /\ hist.since \in Nat
    BY DEF IInv, Sound, TypeOK, History
  <2> QED
    BY <1>1, <2>1 DEF IInv, Issued
<1>4. Ran'
  BY DEF Ran
<1>5. NothingForgotten'
  BY <1>1 DEF NothingForgotten
<1>6. InTransaction'
  BY <1>1 DEF IInv, InTransaction, CallersTransaction
<1>7. Batch'
  BY <1>1, <1>2 DEF IInv, Batch, OwnRun, Queued
<1>8. Ascending'
  <2>1. CASE db'.queue = <<>>
    BY <1>2, <2>1 DEF Ascending
  <2>2. CASE db'.queue = db.queue /\ ~hist'.tainted
    <3>1. SUFFICES ASSUME NEW j \in DOMAIN db.queue, NEW id \in Stored \ hist'.stepped
                   PROVE  id < db.queue[j]
      BY <1>1, <2>2 DEF Ascending
    <3>2. j \in 1 .. Len(db.queue) /\ (OwnRun \/ db.queue = <<>> \/ op.index = 0)
      BY <2>2, Sequential DEF IInv
    <3>3. db.queue # <<>>
      BY <3>2
    <3>4. OwnRun \/ j > op.index
      BY <3>2, <3>3
    <3> QED
      BY <2>2, <3>4 DEF IInv, Ascending
  <2> QED
    BY <2>1, <2>2 DEF Ascending
<1>9. IssueOrder'
  <2>1. sqlite'.stored \o sqlite'.tx = sqlite.stored
    BY Sequential, ConcatEmptySeq DEF IInv
  <2>2. ~hist'.tainted => Sorted(sqlite.stored, hist'.stepped)
    BY Sequential, SortedPrefix, OrderIsSorted DEF IInv
  <2> QED
    BY <2>1, <2>2 DEF IssueOrder, Sorted
<1> QED
  BY <1>3, <1>4, <1>5, <1>6, <1>7, <1>8, <1>9 DEF IInv, Sound

\* A step in which SQLite runs one text, which comes after all that is there.
LEMMA Puts ==
    ASSUME IInv, Sound', NEW id \in Ids, sqlite' = Applied(sqlite, id), db' = db,
           hist'.undone = hist.undone, hist'.kept = hist.kept, hist'.since = hist.since,
           hist'.tainted = hist.tainted, hist.dropped \subseteq hist'.dropped,
           hist'.issued >= hist.issued, id <= hist'.issued,
           hist'.acked \subseteq hist.acked \cup {id},
           hist.acked \subseteq hist'.acked,
           hist.stepped \subseteq hist'.stepped,
           id \in hist'.stepped \/ \A v \in (Stored \cup Pending) \ hist.stepped : hist.tainted \/ v < id,
           id \notin hist.undone,
           op'.kind = "execute" =>
              op.kind = "execute" /\ hist'.issued = hist.issued /\ id # hist.issued /\ hist'.acked = hist.acked,
           ~Replied("read")',
           \/ /\ op.at # "run" /\ op'.at # "run" /\ op'.index = 0 /\ op.index = 0
              /\ id \notin Queued /\ (id \in hist'.stepped \/ Queued = {})
           \/ /\ op.at = "run" /\ op'.at = "run" /\ op'.index = op.index + 1 /\ op'.own = op.own
              /\ op.index < Len(db.queue) /\ id = db.queue[op.index + 1]
              /\ hist'.stepped = hist.stepped
    PROVE  IInv'
<1>1. /\ sqlite \in Connection /\ hist \in History /\ hist' \in History /\ op \in Operation
      /\ sqlite.stored \in Seq(Ids) /\ sqlite.tx \in Seq(Ids)
      /\ DOMAIN db.queue = 1 .. Len(db.queue) /\ Len(db.queue) \in Nat
      /\ \A j \in 1 .. Len(db.queue) : db.queue[j] \in Queued /\ db.queue[j] \in Nat
      /\ Stored \subseteq Nat /\ Pending \subseteq Nat /\ id \in Nat
  BY Sequential DEF IInv, Sound, TypeOK, Ids
<1>2. /\ Queued' = Queued /\ Stored' \cup Pending' = Stored \cup Pending \cup {id}
      /\ Stored \subseteq Stored' /\ Stored' \subseteq Stored \cup {id}
      /\ Pending' \subseteq Pending \cup {id}
      /\ sqlite.inTx => Stored' = Stored
      /\ sqlite'.inTx = sqlite.inTx /\ sqlite'.open = sqlite.open
      /\ \/ sqlite'.stored \o sqlite'.tx = sqlite.stored \o sqlite.tx
         \/ sqlite'.stored \o sqlite'.tx = Append(sqlite.stored \o sqlite.tx, id)
  <2>1. CASE Applied(sqlite, id) = sqlite /\ id \in Range(sqlite.stored) \cup Range(sqlite.tx)
    BY <2>1 DEF Queued, Stored, Pending
  <2>2. CASE sqlite.inTx /\ Applied(sqlite, id) = [sqlite EXCEPT !.tx = Append(sqlite.tx, id)]
    <3>1. /\ sqlite'.tx = Append(sqlite.tx, id) /\ sqlite'.stored = sqlite.stored
          /\ sqlite'.inTx = sqlite.inTx /\ sqlite'.open = sqlite.open
      BY <2>2, <1>1 DEF Connection
    <3>2. Range(sqlite'.tx) = Range(sqlite.tx) \cup {id}
      BY <1>1, <3>1, RangeAppend
    <3>3. sqlite'.stored \o sqlite'.tx = Append(sqlite.stored \o sqlite.tx, id)
      <4>1. sqlite.stored \o Append(sqlite.tx, id) = Append(sqlite.stored \o sqlite.tx, id)
        <5>1. sqlite.stored \in Seq(Ids) /\ sqlite.tx \in Seq(Ids)
          BY <1>1
        <5>2. \A s, t \in Seq(Ids), x \in Ids : s \o Append(t, x) = Append(s \o t, x)
          OBVIOUS
        <5> QED
          BY <5>1, <5>2, Zenon
      <4> QED
        BY <3>1, <4>1
    <3> QED
      BY <3>1, <3>2, <3>3 DEF Queued, Stored, Pending
  <2>3. CASE ~sqlite.inTx /\ Applied(sqlite, id) = [sqlite EXCEPT !.stored = Append(sqlite.stored, id)]
    <3>1. /\ sqlite'.tx = sqlite.tx /\ sqlite'.stored = Append(sqlite.stored, id)
          /\ sqlite'.inTx = sqlite.inTx /\ sqlite'.open = sqlite.open
      BY <2>3, <1>1 DEF Connection
    <3>2. Range(sqlite'.stored) = Range(sqlite.stored) \cup {id}
      BY <1>1, <3>1, RangeAppend
    <3>3. sqlite.tx = <<>> /\ Append(sqlite.stored, id) \in Seq(Ids)
      BY <1>1, <2>3, RangeAppend DEF IInv, Sound, TypeOK
    <3>4. sqlite'.stored \o sqlite'.tx = Append(sqlite.stored \o sqlite.tx, id)
      BY <1>1, <3>1, <3>3, ConcatEmptySeq
    <3> QED
      BY <2>3, <3>1, <3>2, <3>4 DEF Queued, Stored, Pending
  <2> QED
    BY <1>1, <2>1, <2>2, <2>3, AppliedText, BoundsAssumption
<1>3. Issued'
  <2>1. hist.issued \in Nat /\ hist'.issued \in Nat /\ hist.since \in Nat
    BY <1>1 DEF History
  <2>2. hist'.acked \cup hist'.undone \cup Queued' \cup Stored' \cup Pending' \subseteq 1 .. hist'.issued
    BY <1>1, <1>2, <2>1 DEF IInv, Issued, Ids
  <2> QED
    BY <1>1, <1>2, <2>1, <2>2 DEF IInv, Issued
<1>4. Ran'
  BY <1>1, <1>2 DEF IInv, Ran, Operation
<1>5. NothingForgotten'
  BY <1>1, <1>2 DEF IInv, NothingForgotten
<1>6. InTransaction'
  <2>1. hist'.kept \subseteq Stored' /\ hist'.undone \cap (Queued' \cup Stored' \cup Pending') = {}
    BY <1>2 DEF IInv, InTransaction
  <2>2. Inside' \subseteq Inside \cup {id}
    BY DEF Inside
  <2> QED
    BY <1>2, <2>1, <2>2 DEF IInv, InTransaction
<1>7. Batch'
  <2>1. db.open /\ ~db.inTransaction => Queued' \cap Stored' = {}
    <3>1. CASE op.at # "run"
      BY <1>2, <3>1 DEF IInv, Batch
    <3>2. CASE op.at = "run"
      BY <1>2, <3>2 DEF IInv, Batch, Sound, Shape, OwnRun
    <3> QED
      BY <3>1, <3>2
  <2>2. ASSUME OwnRun' PROVE sqlite'.tx = SubSeq(db.queue, 1, op.index + 1)
    <3>1. OwnRun /\ sqlite.inTx /\ sqlite.tx = SubSeq(db.queue, 1, op.index) /\ db.open /\ ~db.inTransaction
      BY <2>2 DEF OwnRun, IInv, Batch, Sound, Shape
    <3>2. op.index \in Nat /\ op.index < Len(db.queue) /\ id = db.queue[op.index + 1]
      BY <1>1, <2>2 DEF OwnRun, Operation
    <3>3. id \notin Stored
      BY <1>1, <3>1, <3>2 DEF IInv, Batch
    <3>4. id \notin Pending
      <4>1. SUFFICES ASSUME id \in Pending PROVE FALSE
        OBVIOUS
      <4>2. PICK i \in DOMAIN sqlite.tx : sqlite.tx[i] = id
        BY <4>1 DEF Pending, Range
      <4>3. db.queue \in Seq(Ids)
        BY Sequential DEF IInv
      <4>4. /\ Len(SubSeq(db.queue, 1, op.index)) = op.index
            /\ \A k \in 1 .. op.index : SubSeq(db.queue, 1, op.index)[k] = db.queue[k]
            /\ SubSeq(db.queue, 1, op.index) \in Seq(Ids)
        BY <3>2, <4>3, SubSeqProperties
      <4>5. i \in 1 .. op.index /\ db.queue[i] = db.queue[op.index + 1]
        BY <1>1, <3>1, <3>2, <4>2, <4>4, LenProperties
      <4>6. i < op.index + 1 /\ i \in DOMAIN db.queue /\ op.index + 1 \in DOMAIN db.queue
        BY <1>1, <3>2, <4>5
      <4> QED
        BY <1>1, <4>5, <4>6 DEF IInv, Batch
    <3>5. sqlite'.tx = Append(sqlite.tx, id)
      BY <1>1, <3>1, <3>3, <3>4, AppliedText, BoundsAssumption DEF Stored, Pending, Connection
    <3>6. db.queue \in Seq(Ids)
      BY Sequential DEF IInv
    <3>7. SubSeq(db.queue, 1, op.index + 1) = Append(SubSeq(db.queue, 1, op.index), id)
      BY <3>2, <3>6, SubSeqGrows
    <3> QED
      BY <3>1, <3>5, <3>7
  <2> QED
    BY <2>1, <2>2, <1>2 DEF IInv, Batch, OwnRun
<1>8. Ascending'
  <2>1. SUFFICES ASSUME ~hist.tainted, NEW j \in DOMAIN db.queue
                 PROVE  /\ \A v \in Stored' \ hist'.stepped : OwnRun' \/ j > op'.index => v < db.queue[j]
                        /\ \A v \in Pending' \ hist'.stepped : j > op'.index => v < db.queue[j]
    BY DEF Ascending
  <2>2. j \in 1 .. Len(db.queue) /\ db.queue[j] \in Queued /\ j \in Nat /\ op.index \in Nat
    BY <1>1, <2>1 DEF Operation
  <2>3. CASE op.at # "run"
    BY <1>1, <1>2, <2>1, <2>2, <2>3 DEF IInv, Ascending, OwnRun
  <2>4. CASE op.at = "run"
    <3>1. j > op.index + 1 => id < db.queue[j]
      <4>1. op.index + 1 \in DOMAIN db.queue /\ id = db.queue[op.index + 1]
        BY <1>1, <2>2, <2>4
      <4> QED
        BY <2>1, <2>2, <4>1 DEF IInv, Batch
    <3>2. OwnRun => Stored' = Stored
      BY <1>2 DEF IInv, Sound, Shape
    <3> QED
      BY <1>1, <1>2, <2>1, <2>2, <2>4, <3>1, <3>2 DEF IInv, Ascending, OwnRun
  <2> QED
    BY <2>3, <2>4
<1>9. IssueOrder'
  <2>1. SUFFICES ASSUME ~hist.tainted PROVE Sorted(sqlite'.stored \o sqlite'.tx, hist'.stepped)
    BY DEF IssueOrder, Sorted
  <2>2. Sorted(sqlite.stored \o sqlite.tx, hist.stepped)
    BY <2>1, OrderIsSorted DEF IInv
  <2>3. sqlite.stored \o sqlite.tx \in Seq(Ids) /\ Range(sqlite.stored \o sqlite.tx) = Stored \cup Pending
    BY <1>1, Sequential, ConcatProperties DEF IInv
  <2>4. Sorted(Append(sqlite.stored \o sqlite.tx, id), hist'.stepped)
    BY <2>1, <2>2, <2>3, SortedAppend
  <2>5. Sorted(sqlite.stored \o sqlite.tx, hist'.stepped)
    BY <2>2, SortedMore
  <2> QED
    BY <1>2, <2>4, <2>5
<1> QED
  BY <1>3, <1>4, <1>5, <1>6, <1>7, <1>8, <1>9 DEF IInv, Sound

-----------------------------------------------------------------------------
(* Every action is a step of one of these kinds.                           *)

\* The calls that begin.
LEMMA CallKeeps ==
    ASSUME IInv, Sound', database_open \/ Call
    PROVE  IInv'
<1>a. /\ hist \in History /\ op \in Operation /\ db \in Handle /\ sqlite \in Connection
      /\ Sound
  BY DEF IInv, Sound, TypeOK
<1>1. CASE database_open
  <2>1. /\ sqlite' = [sqlite EXCEPT !.open = TRUE] /\ db' = [Closed EXCEPT !.open = TRUE]
        /\ op' = op /\ hist' = hist /\ reply' = NoReply /\ ~db.open /\ ~sqlite.open
    BY <1>1 DEF database_open
  <2>2. /\ sqlite'.stored = sqlite.stored /\ sqlite'.tx = sqlite.tx /\ sqlite'.inTx = sqlite.inTx
        /\ db'.queue = db.queue /\ ~db'.inTransaction /\ ~Replied("read")'
    BY <1>a, <2>1, Constants, BoundsAssumption DEF Connection, Handle, Sound, Shape, Replied
  <2>3. op.at # "run" /\ op.index = 0 /\ Queued = {}
    BY <1>a, <2>1 DEF Sound, Shape, Queued, Range
  <2>4. hist.since <= hist.issued
    BY DEF IInv, Issued
  <2> QED
    BY <2>1, <2>2, <2>3, <2>4, Quiet DEF CallersTransaction
<1>2. CASE database_write
  <2> DEFINE id == hist.issued + 1
  <2>1. PICK isBad \in BOOLEAN, ok \in BOOLEAN :
          /\ db' = IF ok THEN [db EXCEPT !.queue = Append(db.queue, id)] ELSE db
          /\ hist' = [hist EXCEPT !.issued = id,
                                  !.bad = IF isBad THEN hist.bad \cup {id} ELSE hist.bad,
                                  !.acked = IF ok THEN hist.acked \cup {id} ELSE hist.acked,
                                  !.faults = IF ok THEN hist.faults ELSE hist.faults + 1]
          /\ reply' = [kind |-> "write", ok |-> ok]
    BY <1>2 DEF database_write
  <2>2. /\ op.at = "idle" /\ op' = op /\ sqlite' = sqlite /\ ~Replied("read")'
        /\ db.open /\ op.kind = "none" /\ op.index = 0
    BY <1>2, <2>1, <1>a DEF database_write, Replied, Sound, Shape
  <2>3. id \in Ids /\ id \in Nat /\ hist.issued \in Nat
    <3>1. hist.issued < MaxIssued
      BY <1>2 DEF database_write
    <3> QED
      BY <1>a, <3>1, BoundsAssumption DEF History, Ids
  <2> HIDE DEF id
  <2>4. /\ hist'.issued = id
        /\ \A f \in {"dropped", "stepped", "kept", "undone", "since", "tainted"} : hist'[f] = hist[f]
        /\ hist'.acked = IF ok THEN hist.acked \cup {id} ELSE hist.acked
    BY <1>a, <2>1 DEF History
  <2>5. hist.since <= id
    BY <1>a, <2>3 DEF IInv, Issued, History, id
  <2>6. CASE ~ok
    <3>1. db' = db /\ hist'.acked = hist.acked
      BY <2>1, <2>4, <2>6
    <3> QED
      BY <2>2, <2>4, <2>5, <3>1, Quiet DEF CallersTransaction, id
  <2>7. CASE ok
    <3>1. /\ db'.queue = Append(db.queue, id) /\ db'.open = db.open
          /\ db'.inTransaction = db.inTransaction /\ hist'.acked = hist.acked \cup {id}
      BY <1>a, <2>1, <2>4, <2>7 DEF Handle
    <3>2. db.queue \in Seq(Ids) /\ DOMAIN db.queue = 1 .. Len(db.queue) /\ Len(db.queue) \in Nat
      BY Sequential DEF IInv
    <3>3. /\ Queued' = Queued \cup {id} /\ Stored' = Stored /\ Pending' = Pending
          /\ DOMAIN db'.queue = 1 .. Len(db.queue) + 1 /\ db'.queue[Len(db.queue) + 1] = id
          /\ \A i \in 1 .. Len(db.queue) : db'.queue[i] = db.queue[i]
      BY <2>2, <2>3, <3>1, <3>2, RangeAppend DEF Queued, Stored, Pending
    <3>4. \A v \in Queued \cup Stored \cup Pending \cup hist.acked \cup hist.undone :
             v \in Nat /\ v <= hist.issued /\ v < id
      BY <2>3 DEF IInv, Issued, id
    <3>5. Issued'
      BY <2>2, <2>3, <2>4, <2>5, <3>1, <3>3, <3>4 DEF IInv, Issued, id
    <3>6. Ran' /\ ~OwnRun /\ ~OwnRun'
      BY <2>2 DEF Ran, OwnRun
    <3>7. NothingForgotten'
      BY <2>2, <2>4, <3>1, <3>3 DEF IInv, NothingForgotten
    <3>8. InTransaction'
      <4>1. Inside' \subseteq Inside \cup {id}
        BY <2>4, <3>1 DEF Inside
      <4> QED
        BY <2>2, <2>4, <3>1, <3>3, <3>4, <4>1 DEF IInv, InTransaction
    <3>9. \A i \in DOMAIN db.queue : db.queue[i] < id
      BY <3>4 DEF Queued, Range
    <3>10. Batch'
      <4>1. db'.open /\ ~db'.inTransaction => Queued' \cap Stored' = {}
        BY <2>2, <3>1, <3>3, <3>4 DEF IInv, Batch
      <4>2. ASSUME NEW i \in DOMAIN db'.queue, NEW j \in DOMAIN db'.queue, i < j
            PROVE  db'.queue[i] < db'.queue[j]
        <5>1. i \in DOMAIN db.queue /\ db'.queue[i] = db.queue[i]
          BY <3>2, <3>3, <4>2
        <5>2. CASE j = Len(db.queue) + 1
          BY <3>3, <3>9, <5>1, <5>2
        <5>3. CASE j # Len(db.queue) + 1
          <6>1. j \in DOMAIN db.queue /\ db'.queue[j] = db.queue[j]
            BY <3>2, <3>3, <5>3
          <6> QED
            BY <4>2, <5>1, <6>1 DEF IInv, Batch
        <5> QED
          BY <5>2, <5>3
      <4> QED
        BY <3>6, <4>1, <4>2 DEF Batch
    <3>11. Ascending'
      <4>1. SUFFICES ASSUME ~hist.tainted, NEW j \in DOMAIN db'.queue,
                            NEW v \in (Stored \cup Pending) \ hist.stepped
                     PROVE  v < db'.queue[j]
        BY <2>4, <3>3 DEF Ascending
      <4>2. CASE j = Len(db.queue) + 1
        BY <3>3, <3>4, <4>2
      <4>3. CASE j # Len(db.queue) + 1
        <5>1. j \in DOMAIN db.queue /\ db'.queue[j] = db.queue[j] /\ j > op.index
          BY <2>2, <3>2, <3>3, <4>3
        <5> QED
          BY <4>1, <5>1 DEF IInv, Ascending
      <4> QED
        BY <4>2, <4>3
    <3>12. IssueOrder'
      BY <2>2, <2>4 DEF IInv, IssueOrder
    <3> QED
      BY <3>5, <3>6, <3>7, <3>8, <3>10, <3>11, <3>12 DEF IInv, Sound
  <2> QED
    BY <2>6, <2>7
<1>3. ASSUME NEW kind \in Kinds, Start(kind), hist'.issued \in {hist.issued, hist.issued + 1},
             kind = "execute" => hist'.issued = hist.issued + 1,
             \A f \in {"acked", "dropped", "stepped", "kept", "undone", "since", "tainted"} :
                hist'[f] = hist[f]
      PROVE  IInv'
  <2>1. /\ op' = [NoOp EXCEPT !.kind = kind, !.at = "flush"]
        /\ UNCHANGED <<db, sqlite, reply>> /\ op.at = "idle" /\ db.open
    BY <1>3 DEF Start
  <2>2. op'.kind = kind /\ op'.at = "flush" /\ op'.index = 0
    BY <2>1, Constants, BoundsAssumption DEF Operation
  <2>3. ~Replied("read")' /\ ~OwnRun'
    BY <2>2 DEF Replied, OwnRun
  <2>4. hist.since <= hist'.issued
    BY <1>3, <1>a DEF IInv, Issued, History
  <2> QED
    BY <1>3, <2>1, <2>2, <2>3, <2>4, Quiet DEF CallersTransaction
<1>4. CASE database_execute_sql
  <2>1. /\ Start("execute") /\ hist'.issued = hist.issued + 1
        /\ \A f \in {"acked", "dropped", "stepped", "kept", "undone", "since", "tainted"} :
                hist'[f] = hist[f]
    BY <1>4, <1>a DEF database_execute_sql, History
  <2> QED
    BY <2>1, <1>3
<1>5. CASE database_prepare
  BY <1>3, <1>5 DEF database_prepare
<1>6. ASSUME NEW kind \in Kinds, Plain(kind) \/ database_transaction_sql(kind)
      PROVE  IInv'
  BY <1>3, <1>6 DEF Plain, database_transaction_sql
<1> QED
  BY <1>1, <1>2, <1>4, <1>5, <1>6 DEF Call

\* The steps of database_flush.
LEMMA FlushStepKeeps ==
    ASSUME IInv, Sound', FlushStep
    PROVE  IInv'
<1>a. /\ hist \in History /\ op \in Operation /\ db \in Handle /\ sqlite \in Connection
      /\ Sound /\ TypeOK /\ BoundsAssumption /\ hist.since <= hist.issued
      /\ hist.issued \in Nat
  BY BoundsAssumption DEF IInv, Sound, TypeOK, Issued, History
<1>b. op.at # "idle" => ~Replied("read")
  BY DEF Replied
<1>1. CASE FlushEmpty
  <2>1. op' = [op EXCEPT !.at = "act"] /\ UNCHANGED <<db, sqlite, reply, hist>>
        /\ op.at = "flush"
    BY <1>1 DEF FlushEmpty
  <2>2. op'.at = "act" /\ op'.kind = op.kind /\ op'.index = 0
    BY <1>a, <2>1 DEF Operation, Sound, Shape
  <2>3. ~Replied("read")'
    BY <2>2 DEF Replied
  <2> QED
    BY <1>a, <2>1, <2>2, <2>3, Quiet DEF CallersTransaction
<1>2. CASE FlushBegin
  <2>1. /\ op' = [op EXCEPT !.at = "run", !.own = OwnTransaction]
        /\ sqlite' = IF OwnTransaction THEN Begun(sqlite) ELSE sqlite
        /\ UNCHANGED <<db, reply, hist>>
        /\ op.at = "flush" /\ OwnTransaction = ~db.inTransaction
        /\ OwnTransaction => ~sqlite.inTx
    BY <1>2 DEF FlushBegin, OwnTransaction
  <2>2. /\ op'.at = "run" /\ op'.kind = op.kind /\ op'.index = 0
        /\ op'.own <=> ~db.inTransaction
    BY <1>a, <2>1 DEF Operation, Handle, Sound, Shape
  <2>3. sqlite'.stored = sqlite.stored /\ sqlite'.tx = sqlite.tx
    BY <1>a, <2>1, EndSound
  <2>4. db.inTransaction => sqlite' = sqlite
    BY <2>1
  <2>5. OwnRun' => sqlite.tx = <<>>
    BY <1>a, <2>1, <2>2 DEF OwnRun, TypeOK
  <2>6. ~Replied("read")'
    BY <2>2 DEF Replied
  <2>7. ~CallersTransaction' \/ CallersTransaction
    BY <2>1, <2>4 DEF CallersTransaction
  <2> QED
    BY <1>a, <2>1, <2>2, <2>3, <2>5, <2>6, <2>7, Quiet
<1>c. ASSUME FlushFails
      PROVE  /\ op'.index = 0 /\ op'.at # "run" /\ op'.kind # "execute" /\ db' = db
             /\ op.at = "flush" \/ op.at = "run" => ~Replied("read")'
  <2>1. FlushFails /\ op \in Operation
    BY <1>a, <1>c
  <2> QED
    BY <1>a, <2>1, FlushFailsSound DEF Replied
<1>d. OwnRun => Pending \subseteq Queued
  <2>1. db.queue \in Seq(Ids) /\ op.index \in 0 .. Len(db.queue) /\ Len(db.queue) \in Nat
    BY <1>a, Sequential DEF Operation, TypeOK
  <2>2. /\ \A k \in 1 .. op.index : db.queue[k] \in Ids
        /\ \A k \in 1 .. op.index : db.queue[k] \in Queued
    BY <2>1, Sequential DEF IInv
  <2>3. /\ Len(SubSeq(db.queue, 1, op.index)) = op.index
        /\ SubSeq(db.queue, 1, op.index) \in Seq(Ids)
        /\ \A k \in 1 .. op.index : SubSeq(db.queue, 1, op.index)[k] = db.queue[k]
    BY <2>1, <2>2, SubSeqProperties
  <2>4. DOMAIN SubSeq(db.queue, 1, op.index) = 1 .. op.index
    BY <2>3, LenProperties
  <2>5. Range(SubSeq(db.queue, 1, op.index)) \subseteq Queued
    BY <2>2, <2>3, <2>4 DEF Range
  <2> QED
    BY <2>5 DEF IInv, Batch, Pending
<1>3. CASE FlushBeginFails
  <2>1. /\ FlushFails /\ sqlite' = sqlite /\ op.at = "flush"
        /\ hist' = hist \/ (MayFault /\ hist' = Faulted(hist))
    BY <1>3 DEF FlushBeginFails
  <2>2. \A f \in {"issued", "acked", "dropped", "stepped", "kept", "undone", "since", "tainted"} :
           hist'[f] = hist[f]
    BY <1>a, <2>1, FaultedSound
  <2> QED
    BY <1>a, <1>c, <2>1, <2>2, Quiet DEF CallersTransaction
<1>4. CASE FlushWrite
  <2> DEFINE id == db.queue[op.index + 1]
  <2>1. /\ op' = [op EXCEPT !.index = op.index + 1] /\ sqlite' = Applied(sqlite, id)
        /\ UNCHANGED <<db, reply, hist>> /\ op.at = "run" /\ op.index < Len(db.queue)
    BY <1>4 DEF FlushWrite, Running
  <2>2. op.index + 1 \in 1 .. Len(db.queue) /\ op.index \in Nat
    BY <1>a, <2>1, LenProperties DEF Handle, Operation
  <2>3. id \in Ids /\ id \in Queued
    BY <2>2, Sequential DEF IInv
  <2>4. id <= hist.issued /\ id \notin hist.undone
    BY <2>3 DEF IInv, Issued, InTransaction
  <2>5. op.kind = "execute" => id # hist.issued
    BY <2>3 DEF IInv, Issued
  <2>6. \A v \in (Stored \cup Pending) \ hist.stepped : hist.tainted \/ v < id
    BY <2>2, Sequential DEF IInv, Ascending
  <2>7. op'.kind = op.kind /\ op'.at = "run" /\ op'.own = op.own /\ op'.index = op.index + 1
    BY <1>a, <2>1 DEF Operation
  <2>8. ~Replied("read")'
    BY <2>7 DEF Replied
  <2> HIDE DEF id
  <2>9. id = db.queue[op.index + 1] /\ hist'.issued >= hist.issued
    BY <1>a, <2>1 DEF id
  <2> QED
    BY <2>1, <2>3, <2>4, <2>5, <2>6, <2>7, <2>8, <2>9, Puts
<1>5. CASE FlushWriteFails
  <2>1. PICK s \in AfterFailure(sqlite) :
          /\ sqlite' = AfterFlushFailure(op.own, s)
          /\ \/ hist' = [hist EXCEPT !.dropped = hist.dropped \cup Lost(s),
                                     !.tainted = hist.tainted \/ ~op.own]
             \/ MayFault /\ hist' = [Faulted(hist) EXCEPT
                                       !.dropped = Faulted(hist).dropped \cup Lost(s),
                                       !.tainted = Faulted(hist).tainted \/ ~op.own]
    BY <1>5 DEF FlushWriteFails, AfterFailure
  <2>2. FlushFails /\ op.at = "run"
    BY <1>5 DEF FlushWriteFails, Running
  <2>3. /\ \A f \in {"issued", "acked", "stepped", "kept", "undone", "since"} : hist'[f] = hist[f]
        /\ hist'.dropped = hist.dropped \cup Lost(s)
        /\ hist'.tainted <=> hist.tainted \/ ~op.own
    <3>1. PICK h \in History :
             /\ hist' = [h EXCEPT !.dropped = h.dropped \cup Lost(s),
                                  !.tainted = h.tainted \/ ~op.own]
             /\ \A f \in {"issued", "acked", "dropped", "stepped", "kept", "undone",
                          "since", "tainted"} : h[f] = hist[f]
      <4>1. ASSUME MayFault
            PROVE  /\ Faulted(hist) \in History
                   /\ \A f \in {"issued", "acked", "dropped", "stepped", "kept", "undone",
                                "since", "tainted"} : Faulted(hist)[f] = hist[f]
        BY <1>a, <4>1, FaultedSound
      <4> QED
        BY <1>a, <2>1, <4>1
    <3>2. /\ \A f \in {"issued", "acked", "stepped", "kept", "undone", "since"} : hist'[f] = h[f]
          /\ hist'.dropped = h.dropped \cup Lost(s)
      BY <3>1 DEF History
    <3>3. hist'.tainted = (h.tainted \/ ~op.own)
      BY <3>1 DEF History
    <3> QED
      BY <3>1, <3>2, <3>3
  <2>4. /\ s \in Connection /\ s.stored = sqlite.stored
        /\ s = sqlite \/ (~s.inTx /\ s.tx = <<>>)
    BY <1>a, <2>1, EndSound DEF AfterFailure
  <2>6. CASE sqlite' = sqlite /\ ~op.own
    <3>1. /\ Stored' = Stored /\ Pending' = Pending /\ Queued' = Queued
          /\ hist'.tainted /\ db' = db
      BY <1>c, <2>2, <2>3, <2>6 DEF Stored, Pending, Queued
    <3>2. Issued'
      BY <1>c, <2>2, <2>3, <3>1 DEF IInv, Issued
    <3>3. Ran' /\ Batch' /\ Ascending' /\ IssueOrder'
      BY <1>c, <2>2, <3>1 DEF Ran, IInv, Batch, Ascending, IssueOrder, OwnRun
    <3>4. NothingForgotten'
      BY <1>c, <2>2, <2>3, <3>1 DEF IInv, NothingForgotten
    <3>5. InTransaction'
      BY <2>3, <2>6, <3>1 DEF IInv, InTransaction, Inside
    <3> QED
      BY <3>2, <3>3, <3>4, <3>5 DEF IInv, Sound
  <2>7. CASE sqlite'.tx = <<>> /\ sqlite'.stored = sqlite.stored /\ ~sqlite'.inTx
    <3>1. s = sqlite \/ Pending \ (Stored \cup Queued) \subseteq Lost(s)
      <4>1. CASE s # sqlite
        <5>1. s.tx = <<>> /\ s.stored = sqlite.stored /\ <<>> \in Seq(Ids) /\ s.stored \in Seq(Ids)
          BY <1>a, <2>4, <4>1, EmptySeq DEF Connection
        <5>2. s.stored \o s.tx = sqlite.stored
          BY <5>1, ConcatEmptySeq
        <5> QED
          BY <5>2 DEF Lost, Pending, Stored, Queued
      <4> QED
        BY <4>1
    <3>2. s = sqlite => op.own \/ Pending = {}
      <4>1. ~op.own => sqlite' = s
        BY <2>1 DEF AfterFlushFailure
      <4> QED
        BY <2>7, <4>1 DEF Pending, Range
    <3>3. hist'.acked \ hist'.dropped \subseteq Stored \cup Queued
      BY <1>d, <2>2, <2>3, <3>1, <3>2 DEF IInv, NothingForgotten, OwnRun
    <3>4. hist'.tainted \/ OwnRun
      BY <2>2, <2>3 DEF OwnRun
    <3>5. Queued' = Queued
      BY <1>c, <2>2 DEF Queued
    <3>6. hist.undone \subseteq hist.acked /\ hist.undone \cap (Stored \cup Queued) = {}
      BY DEF IInv, Issued, InTransaction
    <3>7. ~CallersTransaction'
      BY <2>7 DEF CallersTransaction
    <3>8. /\ hist'.acked = hist.acked /\ hist'.undone = hist.undone /\ hist'.since = hist.since
          /\ hist'.kept = hist.kept /\ hist'.stepped = hist.stepped /\ hist'.issued >= hist.issued
          /\ hist.tainted => hist'.tainted
      BY <1>a, <2>3
    <3> QED
      BY <1>c, <2>2, <2>7, <3>3, <3>4, <3>5, <3>6, <3>7, <3>8, GivesUp
  <2>8. CASE op.own
    <3>1. sqlite' = RolledBack(s)
      BY <2>1, <2>8 DEF AfterFlushFailure
    <3> QED
      BY <2>4, <2>7, <3>1, EndSound
  <2>9. CASE ~op.own /\ s # sqlite
    <3>1. sqlite' = s
      BY <2>1, <2>9 DEF AfterFlushFailure
    <3> QED
      BY <2>4, <2>7, <2>9, <3>1
  <2>10. CASE ~op.own /\ s = sqlite
    BY <2>1, <2>6, <2>10 DEF AfterFlushFailure
  <2> QED
    BY <2>8, <2>9, <2>10
<1>6. CASE FlushCommit
  <2>1. /\ sqlite' = IF op.own THEN Committed(sqlite) ELSE sqlite
        /\ db' = [db EXCEPT !.queue = <<>>]
        /\ op' = [op EXCEPT !.at = "act", !.index = 0]
        /\ UNCHANGED <<reply, hist>> /\ op.at = "run" /\ op.index = Len(db.queue)
    BY <1>6 DEF FlushCommit, FlushedAll
  <2>2. db'.queue = <<>> /\ db'.open = db.open /\ db'.inTransaction = db.inTransaction
    BY <1>a, <2>1 DEF Handle
  <2>3. op'.at = "act" /\ op'.kind = op.kind
    BY <1>a, <2>1 DEF Operation
  <2>4. Queued \subseteq Stored \cup Pending
    BY <2>1, Sequential DEF IInv, Ran, Queued, Range
  <2>5. hist.acked \ hist.dropped \subseteq Stored \cup Pending
    BY <2>4 DEF IInv, NothingForgotten
  <2>6. \/ sqlite'.stored = sqlite.stored /\ sqlite'.tx = sqlite.tx
        \/ sqlite'.stored = sqlite.stored \o sqlite.tx /\ sqlite'.tx = <<>>
    BY <1>a, <2>1, EndSound
  <2>7. CallersTransaction' =>
           CallersTransaction /\ Stored' = Stored /\ Inside \subseteq Stored \cup Pending
    <3>1. op.own => ~sqlite'.inTx
      BY <1>a, <2>1, EndSound
    <3>2. ~op.own => sqlite' = sqlite
      BY <2>1
    <3> QED
      BY <2>2, <2>4, <3>1, <3>2 DEF IInv, InTransaction, CallersTransaction, Stored
  <2>8. /\ hist'.kept = hist.kept /\ hist'.acked \ hist'.dropped \subseteq Stored \cup Pending
        /\ op'.at # "run" /\ (op'.kind # "execute" \/ op.kind = "execute")
    BY <2>1, <2>3, <2>5
  <2> QED
    BY <2>1, <2>2, <2>6, <2>7, <2>8, Settles
<1>7. CASE FlushCommitFails
  <2>1. /\ FlushFails /\ op.at = "run" /\ op.own
        /\ sqlite' = RolledBack(sqlite) /\ MayFault /\ hist' = Faulted(hist)
    BY <1>7 DEF FlushCommitFails, FlushedAll, AfterFlushFailure
  <2>2. \A f \in {"issued", "acked", "dropped", "stepped", "kept", "undone", "since", "tainted"} :
           hist'[f] = hist[f]
    BY <1>a, <2>1, FaultedSound
  <2>3. sqlite'.stored = sqlite.stored /\ sqlite'.tx = <<>> /\ ~sqlite'.inTx
    BY <1>a, <2>1, EndSound
  <2>4. /\ OwnRun /\ Queued' = Queued
        /\ hist'.acked \ hist'.dropped \subseteq Stored \cup Queued
    BY <1>c, <1>d, <2>1, <2>2 DEF OwnRun, IInv, NothingForgotten, Queued
  <2>5. hist.undone \subseteq hist.acked /\ hist.undone \cap (Stored \cup Queued) = {}
    BY DEF IInv, Issued, InTransaction
  <2>6. ~CallersTransaction' /\ hist'.issued >= hist.issued
    BY <1>a, <2>2, <2>3 DEF CallersTransaction
  <2> QED
    BY <1>c, <2>1, <2>2, <2>3, <2>4, <2>5, <2>6, GivesUp
<1> QED
  BY <1>1, <1>2, <1>3, <1>4, <1>5, <1>6, <1>7 DEF FlushStep

\* What each call does once the queue is empty.
LEMMA ActStepKeeps ==
    ASSUME IInv, Sound', ActStep
    PROVE  IInv'
<1>a. /\ hist \in History /\ op \in Operation /\ db \in Handle /\ sqlite \in Connection
      /\ Sound /\ TypeOK /\ BoundsAssumption /\ hist.since <= hist.issued
      /\ hist.issued \in Nat
  BY BoundsAssumption DEF IInv, Sound, TypeOK, Issued, History
<1>b. op.at = "act" /\ op.index = 0
  BY <1>a DEF ActStep, FlushDone, ExecuteDone, ReadDone, PrepareDone, BeginDone, CommitDone,
         RollbackDone, CloseDone, ActFails, Acting, Sound, Shape
<1>c. op.kind # "close" => db.queue = <<>> /\ Queued = {}
  BY <1>a, <1>b DEF Sound, Shape, Queued, Range
<1>d. ASSUME NEW ok \in BOOLEAN, Return(ok)
      PROVE  /\ op'.kind = "none" /\ op'.at = "idle" /\ op'.index = 0
             /\ Replied("read")' => op.kind = "read" /\ ok
  BY <1>a, <1>d, ReturnSound DEF Replied
<1>1. CASE FlushDone \/ ReadDone \/ PrepareDone
  <2>1. /\ Return(TRUE) /\ UNCHANGED <<db, hist>> /\ op.kind # "close"
        /\ sqlite' = sqlite \/ sqlite' = [sqlite EXCEPT !.statement = TRUE]
    BY <1>1 DEF FlushDone, ReadDone, PrepareDone, Acting
  <2>2. sqlite'.stored = sqlite.stored /\ sqlite'.tx = sqlite.tx /\ sqlite'.inTx = sqlite.inTx
    BY <1>a, <2>1 DEF Connection
  <2> QED
    BY <1>a, <1>b, <1>c, <1>d, <2>1, <2>2, Quiet DEF CallersTransaction
<1>2. CASE ExecuteDone
  <2>1. /\ Return(TRUE) /\ db' = db /\ op.kind = "execute"
        /\ sqlite' = Applied(sqlite, hist.issued)
        /\ hist' = [hist EXCEPT !.acked = hist.acked \cup {hist.issued}]
    BY <1>2 DEF ExecuteDone, Acting
  <2>2. hist.issued \in Ids
    BY <1>a, <2>1 DEF Sound, Shape, History, Ids
  <2>3. /\ hist'.acked = hist.acked \cup {hist.issued} /\ hist'.issued = hist.issued
        /\ \A f \in {"dropped", "stepped", "kept", "undone", "since", "tainted"} : hist'[f] = hist[f]
    BY <1>a, <2>1 DEF History
  <2>4. /\ hist.issued \notin hist.acked \cup Queued \cup Stored \cup Pending
        /\ \A v \in Stored \cup Pending : v \in 1 .. hist.issued
        /\ hist.issued \notin hist.undone
    BY <2>1 DEF IInv, Issued
  <2>5. \A v \in (Stored \cup Pending) \ hist.stepped : hist.tainted \/ v < hist.issued
    BY <1>a, <2>4
  <2>6. hist'.issued >= hist.issued /\ hist.issued <= hist'.issued
    BY <1>a, <2>3
  <2> QED
    BY <1>b, <1>c, <1>d, <2>1, <2>2, <2>3, <2>4, <2>5, <2>6, Puts
<1>3. CASE BeginDone
  <2>1. /\ Return(TRUE) /\ op.kind = "begin" /\ sqlite' = Begun(sqlite)
        /\ db' = [db EXCEPT !.inTransaction = TRUE]
        /\ hist' = [hist EXCEPT !.since = hist.issued]
    BY <1>3 DEF BeginDone, Acting
  <2>2. /\ db'.open = db.open /\ db'.queue = db.queue /\ db'.inTransaction
    BY <1>a, <2>1 DEF Handle
  <2>3. hist'.since = hist.issued /\ \A f \in {"issued", "acked", "dropped", "stepped", "kept", "undone", "tainted"} :
           hist'[f] = hist[f]
    BY <1>a, <2>1 DEF History
  <2>4. sqlite'.stored = sqlite.stored /\ sqlite'.tx = sqlite.tx
    BY <1>a, <2>1, EndSound
  <2>5. ~Replied("read")' /\ hist'.since <= hist'.issued /\ op'.at # "run" /\ op'.index = 0
        /\ op'.kind # "execute"
    <3>1. /\ op'.kind = "none" /\ op'.at = "idle" /\ op'.index = 0
          /\ Replied("read")' => op.kind = "read"
      BY <1>d, <2>1
    <3> QED
      BY <1>a, <2>1, <2>3, <3>1
  <2> QED
    BY <1>b, <2>1, <2>2, <2>3, <2>4, <2>5, Quiet
<1>4. CASE CommitDone
  <2>1. /\ Return(TRUE) /\ op.kind = "commit" /\ sqlite.inTx /\ sqlite' = Committed(sqlite)
        /\ db' = [db EXCEPT !.inTransaction = FALSE]
        /\ hist' = [hist EXCEPT !.kept = hist.kept \cup Inside]
    BY <1>4 DEF CommitDone, Acting
  <2>2. db'.queue = <<>> /\ CallersTransaction
    BY <1>a, <1>b, <1>c, <2>1 DEF Handle, Sound, Shape, CallersTransaction
  <2>3. hist'.kept = hist.kept \cup Inside /\ \A f \in {"issued", "acked", "dropped", "stepped", "undone", "since", "tainted"} :
           hist'[f] = hist[f]
    BY <1>a, <2>1 DEF History
  <2>4. /\ sqlite'.stored = sqlite.stored \o sqlite.tx /\ sqlite'.tx = <<>> /\ ~sqlite'.inTx
        /\ Stored' = Stored \cup Pending
    BY <1>a, <2>1, EndSound, Sequential DEF Stored
  <2>5. Inside \subseteq Stored' /\ hist.acked \ hist.dropped \subseteq Stored \cup Pending
    BY <1>c, <2>1, <2>2, <2>4 DEF IInv, InTransaction, CallersTransaction, NothingForgotten
  <2> QED
    BY <1>b, <1>d, <2>1, <2>2, <2>3, <2>4, <2>5, Settles DEF CallersTransaction
<1>5. CASE RollbackDone
  <2>1. /\ Return(TRUE) /\ op.kind = "rollback" /\ sqlite.inTx /\ sqlite' = RolledBack(sqlite)
        /\ db' = [db EXCEPT !.inTransaction = FALSE]
        /\ hist' = [hist EXCEPT !.dropped = hist.dropped \cup Lost(RolledBack(sqlite)),
                                !.undone = hist.undone \cup Inside]
    BY <1>5 DEF RollbackDone, Acting
  <2>2. db'.queue = <<>> /\ CallersTransaction /\ Queued' = {}
    BY <1>a, <1>b, <1>c, <2>1 DEF Handle, Sound, Shape, CallersTransaction, Queued, Range
  <2>3. /\ hist'.undone = hist.undone \cup Inside
        /\ hist'.dropped = hist.dropped \cup Lost(RolledBack(sqlite))
        /\ \A f \in {"issued", "acked", "stepped", "kept", "since", "tainted"} : hist'[f] = hist[f]
    BY <1>a, <2>1 DEF History
  <2>4. sqlite'.stored = sqlite.stored /\ sqlite'.tx = <<>> /\ ~sqlite'.inTx
    BY <1>a, <2>1, EndSound
  <2>5. Lost(RolledBack(sqlite)) = Pending \ Stored
    <3>1. RolledBack(sqlite).stored \o RolledBack(sqlite).tx = sqlite.stored
      BY <1>a, EndSound, Sequential, ConcatEmptySeq
    <3> QED
      BY <1>c, <2>1, <3>1 DEF Lost, Pending, Stored, Queued
  <2>6. hist'.acked \ hist'.dropped \subseteq Stored
    BY <1>c, <2>1, <2>3, <2>5 DEF IInv, NothingForgotten
  <2>7. Inside \cap Stored = {}
    <3>1. \A id \in Stored : id \in Nat /\ id <= hist.since
      BY <1>a, <2>2, Sequential DEF IInv, InTransaction, CallersTransaction, Ids
    <3> QED
      BY <1>a, <3>1 DEF Inside, History
  <2>8. hist'.undone \subseteq hist.acked /\ hist'.undone \cap (Stored \cup Queued') = {}
    BY <2>2, <2>3, <2>7 DEF IInv, Issued, InTransaction, Inside
  <2>9. hist'.issued >= hist.issued /\ ~CallersTransaction'
    BY <1>a, <2>3, <2>4 DEF CallersTransaction
  <2> QED
    BY <1>b, <1>d, <2>1, <2>2, <2>3, <2>4, <2>6, <2>8, <2>9, GivesUp
<1>6. CASE CloseDone
  <2>1. /\ Return(op.ok /\ ~sqlite.statement) /\ op.kind = "close"
        /\ db' = [db EXCEPT !.open = FALSE, !.queue = <<>>]
        /\ sqlite' = IF sqlite.statement THEN sqlite
                     ELSE [RolledBack(sqlite) EXCEPT !.open = FALSE]
        /\ hist' = [hist EXCEPT !.dropped = hist.dropped \cup Range(sqlite.tx) \cup Range(db.queue)]
    BY <1>6 DEF CloseDone, Acting
  <2>2. db'.queue = <<>> /\ ~db'.open /\ Queued' = {} /\ ~CallersTransaction'
    BY <1>a, <2>1 DEF Handle, Queued, Range, CallersTransaction
  <2>3. /\ hist'.dropped = hist.dropped \cup Pending \cup Queued
        /\ \A f \in {"issued", "acked", "stepped", "kept", "undone", "since", "tainted"} : hist'[f] = hist[f]
    BY <1>a, <2>1 DEF History, Pending, Queued
  <2>4. op'.kind = "none" /\ op'.at = "idle" /\ op'.index = 0 /\ ~Replied("read")'
    BY <1>d, <2>1
  <2>5. hist'.acked \ hist'.dropped \subseteq Stored
    BY <2>3 DEF IInv, NothingForgotten
  <2>6. CASE sqlite.statement
    <3>1. sqlite' = sqlite
      BY <2>1, <2>6
    <3> QED
      BY <2>2, <2>3, <2>4, <2>5, <3>1, Settles
  <2>7. CASE ~sqlite.statement
    <3>1. sqlite' = [RolledBack(sqlite) EXCEPT !.open = FALSE]
      BY <2>1, <2>7
    <3>2. sqlite'.stored = sqlite.stored /\ sqlite'.tx = <<>>
      <4>1. /\ RolledBack(sqlite) \in Connection
            /\ RolledBack(sqlite).stored = sqlite.stored /\ RolledBack(sqlite).tx = <<>>
        BY <1>a, EndSound
      <4> QED
        BY <3>1, <4>1 DEF Connection
    <3>3. hist.undone \subseteq hist.acked /\ hist.undone \cap (Stored \cup Queued') = {}
      BY <2>2 DEF IInv, Issued, InTransaction
    <3>4. hist'.issued >= hist.issued
      BY <1>a, <2>3
    <3> QED
      BY <2>2, <2>3, <2>4, <2>5, <3>2, <3>3, <3>4, GivesUp
  <2> QED
    BY <2>6, <2>7
<1>7. CASE ActFails
  <2>1. PICK s \in AfterFailure(sqlite) :
          /\ sqlite' = s
          /\ \/ s = sqlite /\ hist' = [hist EXCEPT !.dropped = hist.dropped \cup Lost(s)]
             \/ MayFault /\ hist' = [Faulted(hist) EXCEPT
                                       !.dropped = Faulted(hist).dropped \cup Lost(s)]
    BY <1>7 DEF ActFails, AfterFailure
  <2>2. Return(FALSE) /\ db' = db /\ op.kind # "close"
    BY <1>7 DEF ActFails
  <2>3. /\ \A f \in {"issued", "acked", "stepped", "kept", "undone", "since", "tainted"} : hist'[f] = hist[f]
        /\ hist'.dropped = hist.dropped \cup Lost(s)
    BY <1>a, <2>1, FaultedSound DEF History
  <2>4. s = sqlite \/ (s.stored = sqlite.stored /\ ~s.inTx /\ s.tx = <<>>)
    BY <1>a, <2>1, EndSound DEF AfterFailure
  <2>5. op'.kind = "none" /\ op'.at = "idle" /\ op'.index = 0 /\ ~Replied("read")'
    BY <1>d, <2>2
  <2>6. CASE s = sqlite
    <3>1. Lost(s) = {}
      BY <2>6, Sequential, <1>a DEF Lost, Pending, Stored
    <3>2. hist'.dropped = hist.dropped
      BY <2>3, <3>1
    <3> QED
      BY <1>a, <1>b, <2>1, <2>2, <2>3, <2>5, <2>6, <3>2, Quiet DEF CallersTransaction
  <2>7. CASE s.stored = sqlite.stored /\ ~s.inTx /\ s.tx = <<>>
    <3>1. Lost(s) = Pending \ (Stored \cup Queued)
      <4>1. s.stored \o s.tx = sqlite.stored
        BY <1>a, <2>7, Sequential, ConcatEmptySeq
      <4> QED
        BY <4>1 DEF Lost, Pending, Stored, Queued
    <3>2. hist'.acked \ hist'.dropped \subseteq Stored \cup Queued
      BY <2>3, <3>1 DEF IInv, NothingForgotten
    <3>3. hist.undone \subseteq hist.acked /\ hist.undone \cap (Stored \cup Queued) = {} /\ Queued' = Queued
      BY <2>2 DEF IInv, Issued, InTransaction, Queued
    <3>4. hist'.issued >= hist.issued /\ ~CallersTransaction'
      BY <1>a, <2>1, <2>3, <2>7 DEF CallersTransaction
    <3> QED
      BY <1>b, <2>1, <2>2, <2>3, <2>5, <2>7, <3>2, <3>3, <3>4, GivesUp
  <2> QED
    BY <2>4, <2>6, <2>7
<1> QED
  BY <1>1, <1>2, <1>3, <1>4, <1>5, <1>6, <1>7 DEF ActStep

\* Prepared statements, and the end of the process.
LEMMA OtherKeeps ==
    ASSUME IInv, Sound', database_step \/ database_statement_destroy \/ Crash
    PROVE  IInv'
<1>a. /\ hist \in History /\ op \in Operation /\ db \in Handle /\ sqlite \in Connection
      /\ Sound /\ TypeOK /\ BoundsAssumption /\ hist.since <= hist.issued
      /\ hist.issued \in Nat
  BY BoundsAssumption DEF IInv, Sound, TypeOK, Issued, History
<1>1. CASE database_step
  <2> DEFINE id == hist.issued + 1
  <2>1. PICK ok \in BOOLEAN, s \in {Applied(sqlite, id)} \cup AfterFailure(sqlite) :
          /\ ok = (s = Applied(sqlite, id))
          /\ sqlite' = s
          /\ hist' = [hist EXCEPT !.issued = id,
                                  !.dropped = hist.dropped \cup Lost(s),
                                  !.acked = IF ok THEN hist.acked \cup {id} ELSE hist.acked,
                                  !.stepped = hist.stepped \cup {id},
                                  !.faults = IF ok THEN hist.faults ELSE hist.faults + 1]
          /\ reply' = [kind |-> "step", ok |-> ok]
    BY <1>1 DEF database_step
  <2>2. id \in Ids /\ id \in Nat
    <3>1. hist.issued < MaxIssued
      BY <1>1 DEF database_step
    <3> QED
      BY <1>a, <3>1 DEF Ids, History, BoundsAssumption
  <2> HIDE DEF id
  <2>3. /\ hist'.issued = id /\ hist'.dropped = hist.dropped \cup Lost(s)
        /\ hist'.acked = IF ok THEN hist.acked \cup {id} ELSE hist.acked
        /\ hist'.stepped = hist.stepped \cup {id}
        /\ \A f \in {"kept", "undone", "since", "tainted"} : hist'[f] = hist[f]
    BY <1>a, <2>1 DEF History
  <2>4. db' = db /\ op' = op /\ op.at = "idle" /\ op.kind = "none" /\ op.index = 0
        /\ ~Replied("read")'
    BY <1>a, <1>1, <2>1 DEF database_step, Sound, Shape, Replied
  <2>5. id \notin hist.acked \cup hist.undone \cup Queued /\ hist'.issued >= hist.issued /\ id <= hist'.issued
    BY <1>a, <2>2, <2>3 DEF IInv, Issued, id
  <2>6. CASE ok
    <3>1. sqlite' = Applied(sqlite, id) /\ id \in hist'.stepped /\ hist'.acked = hist.acked \cup {id}
      BY <2>1, <2>3, <2>6
    <3>2. hist.dropped \subseteq hist'.dropped /\ hist.stepped \subseteq hist'.stepped
      BY <2>3
    <3> QED
      BY <2>2, <2>3, <2>4, <2>5, <3>1, <3>2, Puts
  <2>7. CASE ~ok
    <3>1. s \in AfterFailure(sqlite) /\ hist'.acked = hist.acked
      BY <2>1, <2>3, <2>7
    <3>2. CASE s = sqlite
      <4>1. Lost(s) = {}
        BY <3>2, Sequential, <1>a DEF Lost, Pending, Stored
      <4>2. /\ Stored' = Stored /\ Pending' = Pending /\ Queued' = Queued
            /\ sqlite' = sqlite /\ hist'.dropped = hist.dropped
        BY <2>1, <2>3, <2>4, <3>2, <4>1 DEF Stored, Pending, Queued
      <4>3. Issued'
        <5>1. hist.since \in Nat /\ hist.since <= id /\ 1 .. hist.issued \subseteq 1 .. id
          BY <1>a, <2>2 DEF History, id
        <5> QED
          BY <2>3, <2>4, <2>5, <3>1, <4>2, <5>1 DEF IInv, Issued
      <4>4. Ran' /\ Batch'
        BY <2>4, <4>2 DEF IInv, Ran, Batch, OwnRun
      <4>5. NothingForgotten' /\ InTransaction'
        BY <2>3, <2>4, <3>1, <4>2 DEF IInv, NothingForgotten, InTransaction, Inside
      <4>6. Ascending'
        BY <2>3, <2>4, <4>2 DEF IInv, Ascending, OwnRun
      <4>7. IssueOrder'
        <5>1. ~hist'.tainted => Sorted(sqlite.stored \o sqlite.tx, hist'.stepped)
          BY <2>3, OrderIsSorted, SortedMore DEF IInv
        <5> QED
          BY <4>2, <5>1 DEF IssueOrder, Sorted
      <4> QED
        BY <4>3, <4>4, <4>5, <4>6, <4>7 DEF IInv, Sound
    <3>3. CASE s = RolledBack(sqlite)
      <4>1. s.stored = sqlite.stored /\ ~s.inTx /\ s.tx = <<>>
        BY <1>a, <3>3, EndSound
      <4>2. Lost(s) = Pending \ (Stored \cup Queued)
        <5>1. s.stored \o s.tx = sqlite.stored
          BY <1>a, <4>1, Sequential, ConcatEmptySeq
        <5> QED
          BY <5>1 DEF Lost, Pending, Stored, Queued
      <4>3. hist'.acked \ hist'.dropped \subseteq Stored \cup Queued
        BY <2>3, <3>1, <4>2 DEF IInv, NothingForgotten
      <4>4. hist.undone \subseteq hist.acked /\ hist.undone \cap (Stored \cup Queued) = {} /\ Queued' = Queued
        BY <2>4 DEF IInv, Issued, InTransaction, Queued
      <4>5. ~CallersTransaction'
        BY <2>1, <4>1 DEF CallersTransaction
      <4> QED
        BY <2>1, <2>3, <2>4, <2>5, <3>1, <4>1, <4>3, <4>4, <4>5, GivesUp
    <3> QED
      BY <3>1, <3>2, <3>3 DEF AfterFailure
  <2> QED
    BY <2>6, <2>7
<1>2. CASE database_statement_destroy
  <2>1. /\ sqlite' = [sqlite EXCEPT !.statement = FALSE] /\ reply' = NoReply
        /\ UNCHANGED <<db, op, hist>> /\ op.at = "idle" /\ op.index = 0
    BY <1>a, <1>2 DEF database_statement_destroy, Sound, Shape
  <2>2. sqlite'.stored = sqlite.stored /\ sqlite'.tx = sqlite.tx /\ sqlite'.inTx = sqlite.inTx
    BY <1>a, <2>1 DEF Connection
  <2>3. ~Replied("read")'
    BY <1>a, <2>1, Constants DEF Replied
  <2> QED
    BY <1>a, <2>1, <2>2, <2>3, Quiet DEF CallersTransaction
<1>3. CASE Crash
  <2>1. /\ db' = Closed /\ op' = NoOp /\ reply' = NoReply
        /\ sqlite' = [RolledBack(sqlite) EXCEPT !.open = FALSE, !.statement = FALSE]
        /\ hist' = [hist EXCEPT !.dropped = hist.dropped \cup (hist.acked \ Range(sqlite.stored))]
    BY <1>3 DEF Crash
  <2>2. /\ RolledBack(sqlite) \in Connection
        /\ RolledBack(sqlite).stored = sqlite.stored /\ RolledBack(sqlite).tx = <<>>
    BY <1>a, EndSound
  <2>3. sqlite'.stored = sqlite.stored /\ sqlite'.tx = <<>>
    BY <2>1, <2>2 DEF Connection
  <2>4. /\ hist'.dropped = hist.dropped \cup (hist.acked \ Stored)
        /\ \A f \in {"issued", "acked", "stepped", "kept", "undone", "since", "tainted"} : hist'[f] = hist[f]
    BY <1>a, <2>1 DEF History, Stored
  <2>5. /\ db'.queue = <<>> /\ ~db'.open /\ op'.kind = "none" /\ op'.at = "idle" /\ op'.index = 0
        /\ reply'.kind = "none" /\ Queued' = {}
    BY <1>a, <2>1, Constants DEF Queued, Range
  <2>6. /\ hist'.acked \ hist'.dropped \subseteq Stored \cup Queued'
        /\ ~CallersTransaction' /\ ~Replied("read")' /\ hist'.issued >= hist.issued
    BY <1>a, <2>4, <2>5 DEF CallersTransaction, Replied
  <2>7. hist.undone \subseteq hist.acked /\ hist.undone \cap (Stored \cup Queued') = {}
    BY <2>5 DEF IInv, Issued, InTransaction
  <2> QED
    BY <2>3, <2>4, <2>5, <2>6, <2>7, GivesUp
<1> QED
  BY <1>1, <1>2, <1>3

-----------------------------------------------------------------------------

\* The invariant is inductive.
LEMMA NextKeeps == IInv /\ [Next]_vars => IInv'
<1> SUFFICES ASSUME IInv, [Next]_vars PROVE IInv'
  OBVIOUS
<1>1. Sound'
  BY NextSound, BoundsAssumption DEF IInv, Sound
<1>2. CASE UNCHANGED vars
  <2>1. Issued' /\ Ran' /\ NothingForgotten' /\ InTransaction'
    BY <1>2 DEF vars, IInv, Issued, Ran, NothingForgotten, InTransaction, Inside, Replied,
                Stored, Pending, Queued
  <2>2. Batch' /\ Ascending' /\ IssueOrder'
    BY <1>2 DEF vars, IInv, Batch, Ascending, IssueOrder, OwnRun, Stored, Pending, Queued
  <2> QED
    BY <1>1, <2>1, <2>2 DEF IInv, Sound
<1> QED
  BY <1>1, <1>2, CallKeeps, FlushStepKeeps, ActStepKeeps, OtherKeeps DEF Next

(* The invariant of the handle and its connection, for any number of texts, *)
(* failures and copies.                                                    *)
THEOREM DatabaseInvariant == Spec => []IInv
<1>1. Init => IInv
  BY InitIInv
<1>2. IInv /\ [Next]_vars => IInv'
  BY NextKeeps
<1> QED
  BY <1>1, <1>2, PTL DEF Spec

(* Texts reach the database in the order of their issue, each at most once *)
(* (database_flush 174-190).                                               *)
THEOREM TextsRunInOrder == Spec => []IssueOrder
<1>1. IInv => IssueOrder
  BY DEF IInv
<1> QED
  BY <1>1, DatabaseInvariant, PTL

(* A read that succeeds sees every write that was acknowledged and not     *)
(* undone since (database_read 196-211).                                   *)
THEOREM ReadsSeeWrites == Spec => []ReadYourWrites
<1>1. IInv => ReadYourWrites
  BY Sequential DEF IInv, NothingForgotten, ReadYourWrites
<1> QED
  BY <1>1, DatabaseInvariant, PTL

(* database_commit and database_rollback report what happened, and no      *)
(* transaction stays open behind the caller's back.                        *)
THEOREM OutcomesAreTold == Spec => []TransactionOutcome
<1>1. IInv => TransactionOutcome
  BY Sequential DEF IInv, InTransaction, TransactionOutcome, Shape, OwnRun, Stored
<1> QED
  BY <1>1, DatabaseInvariant, PTL

\* In the flush's own transaction nothing is stored before the whole queue is.
LEMMA StoresWholeBatch ==
    ASSUME IInv, Next, op.at = "run", ~db.inTransaction, sqlite'.stored # sqlite.stored
    PROVE  sqlite'.stored = sqlite.stored \o db.queue
<1>1. /\ OwnRun /\ sqlite.inTx /\ sqlite.tx = SubSeq(db.queue, 1, op.index)
      /\ sqlite \in Connection /\ TypeOK /\ db.queue \in Seq(Ids) /\ op.own
  BY Sequential DEF IInv, Shape, OwnRun, Batch, TypeOK
<1>2. CASE FlushCommit
  <2>1. sqlite' = Committed(sqlite) /\ op.index = Len(db.queue)
    BY <1>1, <1>2 DEF FlushCommit, FlushedAll
  <2>2. sqlite'.stored = sqlite.stored \o sqlite.tx
    BY <1>1, <2>1, EndSound
  <2>3. sqlite.tx = db.queue
    BY <1>1, <2>1, SubSeqFull
  <2> QED
    BY <2>2, <2>3
<1>3. CASE FlushWrite
  <2>1. /\ sqlite' = Applied(sqlite, db.queue[op.index + 1])
        /\ op.index + 1 \in 1 .. Len(db.queue)
    BY <1>1, <1>3, LenProperties DEF FlushWrite, Running, TypeOK, Operation
  <2>2. db.queue[op.index + 1] \in Ids
    BY <1>1, <2>1
  <2>3. sqlite'.stored = sqlite.stored
    BY <1>1, <2>1, <2>2, AppliedText, BoundsAssumption DEF Connection
  <2> QED
    BY <2>3
<1>4. CASE FlushWriteFails
  <2>1. PICK s \in AfterFailure(sqlite) : sqlite' = RolledBack(s)
    BY <1>1, <1>4 DEF FlushWriteFails, AfterFailure, AfterFlushFailure
  <2>2. sqlite'.stored = sqlite.stored
    BY <1>1, <2>1, AfterFailureSound, EndSound
  <2> QED
    BY <2>2
<1>5. CASE FlushCommitFails
  BY <1>1, <1>5, EndSound DEF FlushCommitFails, AfterFlushFailure
<1>6. CASE Crash
  <2>1. RolledBack(sqlite) \in Connection /\ RolledBack(sqlite).stored = sqlite.stored
    BY <1>1, EndSound
  <2>2. sqlite' = [RolledBack(sqlite) EXCEPT !.open = FALSE, !.statement = FALSE]
    BY <1>6 DEF Crash
  <2>3. sqlite'.stored = sqlite.stored
    BY <2>1, <2>2 DEF Connection
  <2> QED
    BY <2>3
<1>7. ~(FlushEmpty \/ FlushBegin \/ FlushBeginFails \/ ActStep)
  BY DEF FlushEmpty, FlushBegin, FlushBeginFails, ActStep, FlushDone, ExecuteDone, ReadDone,
         PrepareDone, BeginDone, CommitDone, RollbackDone, CloseDone, ActFails, Acting
<1>8. ~(database_open \/ Call \/ database_step \/ database_statement_destroy)
  BY DEF database_open, Call, database_write, database_execute_sql, database_prepare, Plain,
         database_transaction_sql, Start, database_step, database_statement_destroy
<1> QED
  BY <1>2, <1>3, <1>4, <1>5, <1>6, <1>7, <1>8 DEF Next, FlushStep

(* database_flush outside a transaction stores the whole queue or nothing  *)
(* of it, however the process or SQLite fails on the way.                  *)
THEOREM FlushIsAtomic == Spec => FlushAtomic
<1>1. IInv /\ [Next]_vars =>
         [(op.at = "run" /\ ~db.inTransaction /\ sqlite'.stored # sqlite.stored)
            => sqlite'.stored = sqlite.stored \o db.queue]_vars
  BY StoresWholeBatch DEF vars
<1> QED
  BY <1>1, DatabaseInvariant, PTL DEF Spec, FlushAtomic

=============================================================================
