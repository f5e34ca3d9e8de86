--------------------------- MODULE BatchingProofs ---------------------------
(***************************************************************************)
(* Proofs about Batching, for every set of threads, every batch size and   *)
(* every bound.                                                            *)
(***************************************************************************)
EXTENDS Batching, TLAPS

-----------------------------------------------------------------------------
(* The inductive invariant.                                                *)

(* A thread in a batch has begun one; the write a worker has run and not yet
   answered is in the tables. *)
Numbered == \A b \in Batchers : Open(b) => number[b] > 0
ServedIsRun == \A w \in Workers : serving[w] # 0 => serving[w] \in db.writes

TypeInv == TypeOK /\ Numbered /\ ServedIsRun

(* What a crash would take back was written while a batch was open, and what an
   answer was given for is in the tables unless a crash has taken it back. *)
WritesInv ==
    /\ DurableOutsideBatches
    /\ db.writes \ disk.writes \subseteq exposed
    /\ acked \ lost \subseteq db.writes
    /\ lost \subseteq exposed

Indices == 1 .. RowsPerBatch

(* A batch not yet begun has no rows. *)
Future(b, n) == \A i \in Indices : Row(b, n, i) \notin db.rows \cup refused

(* The batch b is in: the statements still to run have left nothing, and as long as
   no other COMMIT has cut it the transaction is open, the other statements have
   left their rows, and none of it is on disk. *)
Current(b, n) ==
    /\ \A i \in Indices : i <= left[b] => Row(b, n, i) \notin refused
    /\ <<b, n>> \notin cut =>
        /\ inTxn
        /\ \A i \in Indices :
            /\ Row(b, n, i) \in db.rows <=> i > left[b] /\ Row(b, n, i) \notin refused
            /\ Row(b, n, i) \notin disk.rows

(* A batch committed, or broken off by a crash. *)
Past(b, n) ==
    <<b, n>> \notin cut =>
        /\ \A i \in Indices : Row(b, n, i) \in db.rows <=> Row(b, n, i) \in disk.rows
        /\ \/ \A i \in Indices : Row(b, n, i) \notin disk.rows
           \/ \A i \in Indices : Row(b, n, i) \in disk.rows <=> Row(b, n, i) \notin refused

IsFuture(b, n) == n > number[b]
IsCurrent(b, n) == n = number[b] /\ Open(b)
IsPast(b, n) == n <= number[b] /\ ~IsCurrent(b, n)

RowsInv ==
    \A b \in Batchers : \A n \in 1 .. MaxBatches :
        /\ IsFuture(b, n) => Future(b, n)
        /\ IsCurrent(b, n) => Current(b, n)
        /\ IsPast(b, n) => Past(b, n)

Inductive == TypeInv /\ WritesInv /\ RowsInv

-----------------------------------------------------------------------------
(* Rows of different batches, and different rows of a batch, differ.       *)

LEMMA RowsDiffer ==
    \A b, c, n, m, i, j : Row(b, n, i) = Row(c, m, j) <=> b = c /\ n = m /\ i = j
  BY DEF Row

LEMMA RowType ==
    ASSUME NEW b \in Batchers, NEW n \in 1 .. MaxBatches, NEW i \in Indices
    PROVE  Row(b, n, i) \in AllRows
  <1>1. Row(b, n, i) \in Rows(b, n)
    BY DEF Rows, Indices
  <1> QED BY <1>1 DEF AllRows

LEMMA AllTyped ==
    ASSUME TypeInv
    PROVE  /\ db \in [writes : SUBSET (1 .. written), rows : SUBSET AllRows]
           /\ disk \in [writes : SUBSET (1 .. written), rows : SUBSET AllRows]
           /\ written \in Nat /\ RowsPerBatch \in Nat /\ MaxBatches \in Nat
           /\ \A b \in Batchers : number[b] \in Nat /\ left[b] \in Nat
  BY RowsAssumption, BoundsAssumption DEF TypeInv, TypeOK

-----------------------------------------------------------------------------
(* Shape of the state. *)

LEMMA TypeInit == Init => TypeInv
  <1> SUFFICES ASSUME Init PROVE TypeInv
    OBVIOUS
  <1>1. {db, disk} \subseteq [writes : SUBSET (1 .. written), rows : SUBSET AllRows]
    BY DEF Init, ConnInit
  <1>2. disk.writes \subseteq db.writes /\ disk.rows \subseteq db.rows
    BY DEF Init, ConnInit
  <1>3. /\ inTxn \in BOOLEAN /\ batch \in [Batchers -> {"idle", "open"}]
        /\ number \in [Batchers -> 0 .. MaxBatches]
        /\ left \in [Batchers -> 0 .. RowsPerBatch]
        /\ serving \in [Workers -> 0 .. MaxWrites]
        /\ written \in 0 .. MaxWrites /\ crashes \in 0 .. MaxCrashes
    <2>1. /\ 0 \in 0 .. MaxBatches /\ 0 \in 0 .. RowsPerBatch
          /\ 0 \in 0 .. MaxWrites /\ 0 \in 0 .. MaxCrashes
      BY RowsAssumption, BoundsAssumption
    <2> QED BY <2>1 DEF Init, ConnInit
  <1>4. /\ acked \cup exposed \subseteq 1 .. written /\ lost \subseteq acked
        /\ cut \subseteq Batchers \X (1 .. MaxBatches)
        /\ refused \subseteq AllRows
    BY DEF Init
  <1>5. Numbered /\ ServedIsRun
    BY DEF Init, ConnInit, Numbered, ServedIsRun, Open
  <1> QED BY <1>1, <1>2, <1>3, <1>4, <1>5 DEF TypeInv, TypeOK

LEMMA TypeBegin ==
    ASSUME TypeInv, NEW b \in Batchers, Begin(b)
    PROVE  TypeInv'
  BY AllTyped
  DEF Begin, BeginBatch, workerVars, TypeInv, TypeOK, Numbered, ServedIsRun, Open

LEMMA TypeInsertRow ==
    ASSUME TypeInv, NEW b \in Batchers, InsertRow(b)
    PROVE  TypeInv'
  <1> DEFINE row == Row(b, number[b], left[b])
  <1>1. row \in AllRows
    BY AllTyped, RowType DEF InsertRow, TypeInv, TypeOK, Numbered, Indices
  <1> HIDE DEF row
  <1>2. CASE UNCHANGED connVars /\ refused' = refused \cup {row}
    BY <1>1, <1>2, AllTyped
    DEF InsertRow, connVars, workerVars, TypeInv, TypeOK, Numbered, ServedIsRun, Open
  <1>3. CASE Exec([db EXCEPT !.rows = @ \cup {row}]) /\ UNCHANGED refused
    <2>1. /\ db' = [db EXCEPT !.rows = @ \cup {row}]
          /\ disk' = IF inTxn THEN disk ELSE db'
          /\ UNCHANGED <<inTxn, batch, refused>>
      BY <1>3 DEF Exec
    <2>2. /\ db' \in [writes : SUBSET (1 .. written), rows : SUBSET AllRows]
          /\ db'.writes = db.writes /\ db'.rows = db.rows \cup {row}
      BY <2>1, <1>1, AllTyped
    <2>3. /\ disk' \in [writes : SUBSET (1 .. written), rows : SUBSET AllRows]
          /\ disk'.writes \subseteq db'.writes /\ disk'.rows \subseteq db'.rows
      BY <2>1, <2>2, AllTyped DEF TypeInv, TypeOK
    <2> QED
      BY <2>1, <2>2, <2>3, AllTyped
      DEF InsertRow, workerVars, TypeInv, TypeOK, Numbered, ServedIsRun, Open
  <1> QED BY <1>2, <1>3 DEF InsertRow, row

LEMMA TypeCommit ==
    ASSUME TypeInv, NEW b \in Batchers, Commit(b)
    PROVE  TypeInv'
  <1>1. \A d \in Batchers : Open(d) => number[d] \in 1 .. MaxBatches
    BY AllTyped DEF TypeInv, TypeOK, Numbered
  <1>2. cut' \subseteq Batchers \X (1 .. MaxBatches)
    BY <1>1 DEF Commit, TypeInv, TypeOK
  <1> QED
    BY <1>2, AllTyped
    DEF Commit, CommitBatch, batchVars, workerVars, TypeInv, TypeOK, Numbered, ServedIsRun, Open

LEMMA TypeWrite ==
    ASSUME TypeInv, NEW w \in Workers, Write(w)
    PROVE  TypeInv'
  <1>1. /\ written' = written + 1 /\ written' \in 0 .. MaxWrites
        /\ written' \in 1 .. written' /\ (1 .. written) \subseteq 1 .. written'
    BY AllTyped, BoundsAssumption DEF Write, TypeInv, TypeOK
  <1>2. /\ db' = [db EXCEPT !.writes = @ \cup {written'}]
        /\ disk' = IF inTxn THEN disk ELSE db'
        /\ UNCHANGED <<inTxn, batch>>
    BY DEF Write, Exec
  <1>3. /\ db' \in [writes : SUBSET (1 .. written'), rows : SUBSET AllRows]
        /\ db'.writes = db.writes \cup {written'} /\ db'.rows = db.rows
    BY <1>1, <1>2, AllTyped
  <1>4. /\ disk' \in [writes : SUBSET (1 .. written'), rows : SUBSET AllRows]
        /\ disk'.writes \subseteq db'.writes /\ disk'.rows \subseteq db'.rows
    BY <1>1, <1>2, <1>3, AllTyped DEF TypeInv, TypeOK
  <1>5. serving' \in [Workers -> 0 .. MaxWrites] /\ ServedIsRun'
    BY <1>1, <1>3 DEF Write, TypeInv, TypeOK, ServedIsRun
  <1>6. acked' \cup exposed' \subseteq 1 .. written'
    BY <1>1 DEF Write, TypeInv, TypeOK
  <1> QED
    BY <1>1, <1>2, <1>3, <1>4, <1>5, <1>6
    DEF Write, batchVars, TypeInv, TypeOK, Numbered, Open

LEMMA TypeAnswer ==
    ASSUME TypeInv, NEW w \in Workers, Answer(w)
    PROVE  TypeInv'
  <1>1. serving[w] \in 1 .. written
    BY AllTyped DEF Answer, TypeInv, ServedIsRun
  <1>2. serving' \in [Workers -> 0 .. MaxWrites] /\ ServedIsRun'
    BY BoundsAssumption DEF Answer, connVars, TypeInv, TypeOK, ServedIsRun
  <1>3. acked' \cup exposed' \subseteq 1 .. written' /\ lost' \subseteq acked'
    BY <1>1 DEF Answer, TypeInv, TypeOK
  <1> QED
    BY <1>2, <1>3 DEF Answer, connVars, batchVars, TypeInv, TypeOK, Numbered, Open

LEMMA TypeCrash ==
    ASSUME TypeInv, Crash
    PROVE  TypeInv'
  <1>1. /\ UNCHANGED <<disk, number, written, acked, exposed, cut, refused>>
        /\ db' = disk /\ inTxn' = FALSE
        /\ batch' = [b \in Batchers |-> "idle"]
        /\ left' = [b \in Batchers |-> 0]
        /\ serving' = [w \in Workers |-> 0]
        /\ lost' \subseteq acked
    BY DEF Crash, Recover, TypeInv, TypeOK
  <1>2. /\ left' \in [Batchers -> 0 .. RowsPerBatch]
        /\ serving' \in [Workers -> 0 .. MaxWrites]
        /\ crashes' \in 0 .. MaxCrashes
    BY <1>1, RowsAssumption, BoundsAssumption DEF Crash, TypeInv, TypeOK
  <1>3. Numbered' /\ ServedIsRun'
    BY <1>1 DEF Numbered, ServedIsRun, Open
  <1> QED BY <1>1, <1>2, <1>3 DEF TypeInv, TypeOK

LEMMA TypeStep == TypeInv /\ [Next]_vars => TypeInv'
  <1> SUFFICES ASSUME TypeInv, [Next]_vars
               PROVE  TypeInv'
    OBVIOUS
  <1>1. CASE UNCHANGED vars
    BY <1>1 DEF vars, connVars, batchVars, workerVars, TypeInv, TypeOK, Numbered,
                ServedIsRun, Open
  <1> QED BY <1>1, TypeBegin, TypeInsertRow, TypeCommit, TypeWrite, TypeAnswer, TypeCrash
          DEF Next, Batch

(* The state keeps its shape. *)
THEOREM TypeCorrect == Spec => []TypeOK
  <1>1. TypeInv => TypeOK
    BY DEF TypeInv
  <1> QED BY <1>1, TypeInit, TypeStep, PTL DEF Spec

-----------------------------------------------------------------------------
(* The writes of the HTTP workers. *)

LEMMA WritesStep == TypeInv /\ WritesInv /\ [Next]_vars => WritesInv'
  <1> SUFFICES ASSUME TypeInv, WritesInv, [Next]_vars
               PROVE  WritesInv'
    OBVIOUS
  <1> USE DEF WritesInv, DurableOutsideBatches
  <1>1. CASE UNCHANGED vars
    BY <1>1 DEF vars, connVars, batchVars, workerVars
  <1>2. ASSUME NEW b \in Batchers, Begin(b) PROVE WritesInv'
    BY <1>2 DEF Begin, BeginBatch, workerVars, TypeInv, TypeOK
  <1>3. ASSUME NEW b \in Batchers, InsertRow(b) PROVE WritesInv'
    <2>1. \/ UNCHANGED connVars
          \/ Exec([db EXCEPT !.rows = @ \cup {Row(b, number[b], left[b])}])
      BY <1>3 DEF InsertRow
    <2>2. /\ db'.writes = db.writes
          /\ UNCHANGED <<inTxn, batch>>
          /\ disk' = IF inTxn THEN disk ELSE db'
      BY <2>1, AllTyped DEF Exec, connVars
    <2> QED BY <1>3, <2>2 DEF InsertRow, workerVars
  <1>4. ASSUME NEW b \in Batchers, Commit(b) PROVE WritesInv'
    BY <1>4 DEF Commit, CommitBatch, workerVars
  <1>5. ASSUME NEW w \in Workers, Write(w) PROVE WritesInv'
    <2>1. /\ db'.writes = db.writes \cup {written'}
          /\ disk' = IF inTxn THEN disk ELSE db'
          /\ UNCHANGED <<inTxn, batch, acked, lost>>
      BY <1>5, AllTyped DEF Write, Exec
    <2>2. exposed \subseteq exposed' /\ (inTxn => written' \in exposed')
      BY <1>5 DEF Write, Open
    <2> QED BY <2>1, <2>2
  <1>6. ASSUME NEW w \in Workers, Answer(w) PROVE WritesInv'
    BY <1>6 DEF Answer, connVars, TypeInv, ServedIsRun
  <1>7. CASE Crash
    BY <1>7 DEF Crash, Recover
  <1> QED BY <1>1, <1>2, <1>3, <1>4, <1>5, <1>6, <1>7 DEF Next, Batch

(***************************************************************************)
(* The connection the threads share: a statement run while no thread is    *)
(* inside a batch is durable at once, and no transaction outlives the      *)
(* batches, however their BEGINs and COMMITs interleave.                   *)
(***************************************************************************)
THEOREM Durable == Spec => []DurableOutsideBatches
  <1>1. Init => WritesInv
    BY DEF Init, ConnInit, WritesInv, DurableOutsideBatches
  <1>2. WritesInv => DurableOutsideBatches
    BY DEF WritesInv
  <1> QED BY <1>1, <1>2, TypeInit, TypeStep, WritesStep, PTL DEF Spec

(***************************************************************************)
(* A handler that answers success has its write on disk as soon as no      *)
(* transaction is open, and a crash only takes back writes that were run   *)
(* while another thread was between BEGIN and COMMIT.                      *)
(***************************************************************************)
THEOREM AnsweredWritesSaved == Spec => []AnsweredIsSaved
  <1>1. Init => WritesInv
    BY DEF Init, ConnInit, WritesInv, DurableOutsideBatches
  <1>2. WritesInv => AnsweredIsSaved
    BY DEF WritesInv, DurableOutsideBatches, AnsweredIsSaved
  <1> QED BY <1>1, <1>2, TypeInit, TypeStep, WritesStep, PTL DEF Spec

-----------------------------------------------------------------------------
(* The rows of the batches. *)

(* A step that leaves the batches and their rows alone. *)
LEMMA RowsUntouched ==
    ASSUME RowsInv,
           db'.rows = db.rows, disk'.rows = disk.rows,
           UNCHANGED <<inTxn, batch, number, left, cut, refused>>
    PROVE  RowsInv'
  <1> SUFFICES ASSUME NEW b \in Batchers, NEW n \in 1 .. MaxBatches
               PROVE  /\ IsFuture(b, n)' => Future(b, n)'
                      /\ IsCurrent(b, n)' => Current(b, n)'
                      /\ IsPast(b, n)' => Past(b, n)'
    BY DEF RowsInv
  <1>1. /\ IsFuture(b, n)' = IsFuture(b, n) /\ IsCurrent(b, n)' = IsCurrent(b, n)
        /\ IsPast(b, n)' = IsPast(b, n)
    BY DEF IsFuture, IsCurrent, IsPast, Open
  <1>2. /\ Future(b, n) => Future(b, n)'
        /\ Current(b, n) => Current(b, n)'
        /\ Past(b, n) => Past(b, n)'
    BY DEF Future, Current, Past, Row, Indices
  <1> QED BY <1>1, <1>2 DEF RowsInv

LEMMA RowsBegin ==
    ASSUME TypeInv, RowsInv, NEW b \in Batchers, Begin(b)
    PROVE  RowsInv'
  <1> SUFFICES ASSUME NEW c \in Batchers, NEW n \in 1 .. MaxBatches
               PROVE  /\ IsFuture(c, n)' => Future(c, n)'
                      /\ IsCurrent(c, n)' => Current(c, n)'
                      /\ IsPast(c, n)' => Past(c, n)'
    BY DEF RowsInv
  <1>1. /\ UNCHANGED <<db, disk, cut, refused>> /\ inTxn' = TRUE
        /\ number'[b] = number[b] + 1 /\ left'[b] = RowsPerBatch
        /\ batch[b] = "idle" /\ batch'[b] = "open"
        /\ \A d \in Batchers \ {b} : /\ number'[d] = number[d] /\ left'[d] = left[d]
                                     /\ batch'[d] = batch[d]
    BY DEF Begin, BeginBatch, TypeInv, TypeOK
  <1>2. number[b] \in Nat /\ n \in Nat /\ RowsPerBatch \in Nat
    BY AllTyped
  <1>3. CASE c # b
    BY <1>1, <1>3 DEF RowsInv, Future, Current, Past, IsFuture, IsCurrent, IsPast, Open
  <1>4. CASE c = b
    <2>1. IsFuture(c, n)' => Future(c, n)'
      BY <1>1, <1>2, <1>4 DEF RowsInv, Future, IsFuture
    <2>2. IsCurrent(c, n)' => Current(c, n)'
      <3> SUFFICES ASSUME IsCurrent(c, n)' PROVE Current(c, n)'
        OBVIOUS
      <3>1. Future(c, n)
        BY <1>1, <1>2, <1>4 DEF RowsInv, IsFuture, IsCurrent
      <3>2. disk.rows \subseteq db.rows
        BY DEF TypeInv, TypeOK
      <3> QED BY <1>1, <1>2, <1>4, <3>1, <3>2 DEF Future, Current, Indices
    <2>3. IsPast(c, n)' => Past(c, n)'
      BY <1>1, <1>2, <1>4 DEF RowsInv, Past, IsPast, IsCurrent, Open
    <2> QED BY <2>1, <2>2, <2>3
  <1> QED BY <1>3, <1>4

LEMMA RowsInsertRow ==
    ASSUME TypeInv, WritesInv, RowsInv, NEW b \in Batchers, InsertRow(b)
    PROVE  RowsInv'
  <1> DEFINE row == Row(b, number[b], left[b])
  <1> SUFFICES ASSUME NEW c \in Batchers, NEW n \in 1 .. MaxBatches
               PROVE  /\ IsFuture(c, n)' => Future(c, n)'
                      /\ IsCurrent(c, n)' => Current(c, n)'
                      /\ IsPast(c, n)' => Past(c, n)'
    BY DEF RowsInv
  <1>1. /\ UNCHANGED <<inTxn, batch, number, cut>>
        /\ Open(b) /\ left[b] > 0 /\ left'[b] = left[b] - 1
        /\ \A d \in Batchers \ {b} : left'[d] = left[d]
    BY DEF InsertRow, connVars, Exec, TypeInv, TypeOK
  <1>2. left[b] \in Nat /\ n \in Nat /\ RowsPerBatch \in Nat
    BY AllTyped
  <1>3. \/ db'.rows = db.rows \cup {row} /\ refused' = refused
        \/ db'.rows = db.rows /\ refused' = refused \cup {row}
    BY AllTyped DEF InsertRow, connVars, Exec
  <1>4. \/ inTxn /\ disk'.rows = disk.rows
        \/ ~inTxn /\ disk.rows = db.rows /\ disk'.rows = db'.rows
    BY DEF InsertRow, connVars, Exec, WritesInv, DurableOutsideBatches
  <1>5. IsFuture(c, n)' = IsFuture(c, n) /\ IsCurrent(c, n)' = IsCurrent(c, n)
        /\ IsPast(c, n)' = IsPast(c, n)
    BY <1>1 DEF IsFuture, IsCurrent, IsPast, Open
  <1>6. CASE c # b \/ n # number[b]
    <2>1. \A i \in Indices : Row(c, n, i) # row
      BY <1>6, RowsDiffer
    <2> HIDE DEF row
    <2>2. \A i \in Indices : /\ Row(c, n, i) \in db'.rows <=> Row(c, n, i) \in db.rows
                             /\ Row(c, n, i) \in disk'.rows <=> Row(c, n, i) \in disk.rows
                             /\ Row(c, n, i) \in refused' <=> Row(c, n, i) \in refused
      BY <1>3, <1>4, <2>1
    <2>3. IsCurrent(c, n) => left'[c] = left[c]
      BY <1>1, <1>6 DEF IsCurrent
    <2>4. (<<c, n>> \in cut' <=> <<c, n>> \in cut) /\ inTxn' = inTxn
      BY <1>1
    <2>5. IsFuture(c, n) => Future(c, n)'
      BY <2>2 DEF RowsInv, Future, Row, Indices
    <2>6. IsCurrent(c, n) => Current(c, n)'
      BY <2>2, <2>3, <2>4 DEF RowsInv, Current, Row, Indices
    <2>7. IsPast(c, n) => Past(c, n)'
      BY <2>2, <2>4 DEF RowsInv, Past, Row, Indices
    <2> QED BY <1>5, <2>5, <2>6, <2>7
  <1>7. CASE c = b /\ n = number[b]
    <2>1. IsCurrent(c, n) /\ Current(c, n)
      BY <1>1, <1>7 DEF RowsInv, IsCurrent
    <2>2. ~IsFuture(c, n) /\ ~IsPast(c, n)
      BY <1>2, <1>7, <2>1 DEF IsFuture, IsPast
    <2>3. \A i \in Indices : Row(c, n, i) = row <=> i = left[b]
      BY <1>7, RowsDiffer
    <2> HIDE DEF row
    <2>4. \A i \in Indices : i <= left'[c] => Row(c, n, i) \notin refused'
      BY <1>1, <1>2, <1>3, <1>7, <2>1, <2>3 DEF Current, Indices
    <2>5. ASSUME <<c, n>> \notin cut
          PROVE  /\ inTxn'
                 /\ \A i \in Indices :
                      /\ Row(c, n, i) \in db'.rows <=>
                            i > left'[c] /\ Row(c, n, i) \notin refused'
                      /\ Row(c, n, i) \notin disk'.rows
      <3>1. inTxn /\ disk'.rows = disk.rows
        BY <1>4, <2>1, <2>5 DEF Current
      <3> QED BY <1>1, <1>2, <1>3, <1>7, <2>1, <2>3, <2>5, <3>1 DEF Current, Indices
    <2> QED BY <1>1, <1>5, <2>2, <2>4, <2>5 DEF Current
  <1> QED BY <1>6, <1>7

LEMMA RowsCommit ==
    ASSUME TypeInv, RowsInv, NEW b \in Batchers, Commit(b)
    PROVE  RowsInv'
  <1> SUFFICES ASSUME NEW c \in Batchers, NEW n \in 1 .. MaxBatches
               PROVE  /\ IsFuture(c, n)' => Future(c, n)'
                      /\ IsCurrent(c, n)' => Current(c, n)'
                      /\ IsPast(c, n)' => Past(c, n)'
    BY DEF RowsInv
  <1>1. /\ UNCHANGED <<db, number, left, refused>> /\ disk' = db
        /\ left[b] = 0 /\ batch[b] = "open" /\ batch'[b] = "idle"
        /\ \A d \in Batchers \ {b} : batch'[d] = batch[d]
        /\ cut \subseteq cut'
        /\ \A d \in Batchers \ {b} : Open(d) => <<d, number[d]>> \in cut'
    BY DEF Commit, CommitBatch, batchVars, TypeInv, TypeOK
  <1>2. number[c] \in Nat /\ n \in Nat /\ RowsPerBatch \in Nat
    BY AllTyped
  <1>3. IsFuture(c, n)' => Future(c, n)'
    BY <1>1 DEF RowsInv, IsFuture, Future
  <1>4. IsCurrent(c, n)' => Current(c, n)'
    <2> SUFFICES ASSUME IsCurrent(c, n)' PROVE Current(c, n)'
      OBVIOUS
    <2>1. c # b /\ Open(c) /\ n = number[c]
      BY <1>1 DEF IsCurrent, Open
    <2> QED BY <1>1, <2>1 DEF RowsInv, IsCurrent, Current
  <1>5. IsPast(c, n)' => Past(c, n)'
    <2> SUFFICES ASSUME IsPast(c, n)', <<c, n>> \notin cut' PROVE Past(c, n)'
      BY DEF Past
    <2>1. CASE IsPast(c, n)
      BY <1>1, <2>1 DEF RowsInv, Past
    <2>2. CASE IsCurrent(c, n)
      <3>1. c = b
        BY <1>1, <2>2 DEF IsCurrent, IsPast, Open
      <3>2. \A i \in Indices : i > left[b]
        BY <1>1, <1>2 DEF Indices
      <3> QED BY <1>1, <2>2, <3>1, <3>2 DEF RowsInv, Current, Past
    <2> QED BY <1>1, <1>2, <2>1, <2>2 DEF IsPast
  <1> QED BY <1>3, <1>4, <1>5

LEMMA RowsCrash ==
    ASSUME TypeInv, RowsInv, Crash
    PROVE  RowsInv'
  <1> SUFFICES ASSUME NEW c \in Batchers, NEW n \in 1 .. MaxBatches
               PROVE  /\ IsFuture(c, n)' => Future(c, n)'
                      /\ IsCurrent(c, n)' => Current(c, n)'
                      /\ IsPast(c, n)' => Past(c, n)'
    BY DEF RowsInv
  <1>1. /\ UNCHANGED <<disk, number, cut, refused>> /\ db' = disk
        /\ disk.rows \subseteq db.rows
        /\ ~Open(c)'
    BY DEF Crash, Recover, TypeInv, TypeOK, Open
  <1>2. number[c] \in Nat /\ n \in Nat
    BY AllTyped
  <1>3. IsFuture(c, n)' => Future(c, n)'
    BY <1>1 DEF RowsInv, IsFuture, Future
  <1>4. ~IsCurrent(c, n)'
    BY <1>1 DEF IsCurrent
  <1>5. IsPast(c, n)' => Past(c, n)'
    BY <1>1 DEF RowsInv, IsPast, IsCurrent, Past, Current
  <1> QED BY <1>3, <1>4, <1>5

LEMMA RowsStep == TypeInv /\ WritesInv /\ RowsInv /\ [Next]_vars => RowsInv'
  <1> SUFFICES ASSUME TypeInv, WritesInv, RowsInv, [Next]_vars
               PROVE  RowsInv'
    OBVIOUS
  <1>1. CASE UNCHANGED vars
    BY <1>1, RowsUntouched DEF vars, connVars, batchVars
  <1>2. ASSUME NEW w \in Workers, Write(w) PROVE RowsInv'
    <2>1. /\ db'.rows = db.rows
          /\ disk' = IF inTxn THEN disk ELSE db'
          /\ UNCHANGED <<inTxn, batch, number, left, cut, refused>>
      BY <1>2, AllTyped DEF Write, Exec, batchVars
    <2>2. disk'.rows = disk.rows
      BY <2>1 DEF WritesInv, DurableOutsideBatches
    <2> QED BY <2>1, <2>2, RowsUntouched
  <1>3. ASSUME NEW w \in Workers, Answer(w) PROVE RowsInv'
    BY <1>3, RowsUntouched DEF Answer, connVars, batchVars
  <1> QED BY <1>1, <1>2, <1>3, RowsBegin, RowsInsertRow, RowsCommit, RowsCrash DEF Next, Batch

LEMMA RowsInit == Init => RowsInv
  <1> SUFFICES ASSUME Init, NEW b \in Batchers, NEW n \in 1 .. MaxBatches
               PROVE  Future(b, n) /\ ~IsCurrent(b, n) /\ ~IsPast(b, n)
    BY DEF RowsInv
  <1>1. number[b] = 0 /\ ~Open(b) /\ n > 0
    BY DEF Init, ConnInit, Open
  <1> QED BY <1>1 DEF Init, ConnInit, Future, IsCurrent, IsPast

(* What RowsInv says of one batch, in the sets the property compares. *)
LEMMA WholeOrNothing ==
    ASSUME TypeInv, RowsInv, NEW b \in Batchers, NEW n \in 1 .. number[b],
           <<b, n>> \notin cut
    PROVE  \/ disk.rows \cap Rows(b, n) = {}
           \/ disk.rows \cap Rows(b, n) = Rows(b, n) \ refused
  <1>1. n \in 1 .. MaxBatches /\ number[b] \in Nat
    BY BoundsAssumption DEF TypeInv, TypeOK
  <1>2. \A r \in Rows(b, n) : \E i \in Indices : r = Row(b, n, i)
    BY DEF Rows, Indices
  <1>3. IsCurrent(b, n) \/ IsPast(b, n)
    BY <1>1 DEF IsPast
  <1>4. \/ \A i \in Indices : Row(b, n, i) \notin disk.rows
        \/ \A i \in Indices : Row(b, n, i) \in disk.rows <=> Row(b, n, i) \notin refused
    BY <1>1, <1>3 DEF RowsInv, Current, Past
  <1>5. \/ \A r \in Rows(b, n) : r \notin disk.rows
        \/ \A r \in Rows(b, n) : r \in disk.rows <=> r \notin refused
    BY <1>2, <1>4
  <1> QED BY <1>5

(***************************************************************************)
(* fetch_and_update_stocks and stock_dao::insert_history: a batch that no  *)
(* other thread's COMMIT cut is on disk as a whole (but for the statements *)
(* that failed) or not at all, also after crashes in the middle of it.     *)
(***************************************************************************)
THEOREM BatchesAtomic == Spec => []BatchAllOrNothing
  <1>1. Init => Inductive
    BY TypeInit, RowsInit
    DEF Inductive, Init, ConnInit, WritesInv, DurableOutsideBatches
  <1>2. Inductive /\ [Next]_vars => Inductive'
    BY TypeStep, WritesStep, RowsStep DEF Inductive
  <1>3. Inductive => BatchAllOrNothing
    BY WholeOrNothing DEF Inductive, BatchAllOrNothing
  <1> QED BY <1>1, <1>2, <1>3, PTL DEF Spec

=============================================================================
