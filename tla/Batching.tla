------------------------------ MODULE Batching ------------------------------
(***************************************************************************)
(* What the batches of some threads do to the writes of the others.        *)
(*                                                                         *)
(* fetch_and_update_stocks (code list and prices, a page or a hundred      *)
(* stocks at a time) and stock_dao::insert_history (called by the updater  *)
(* and by k-line requests) run BEGIN, a loop of statements and COMMIT on   *)
(* the connection all threads share. Nothing keeps two batches apart.      *)
(* HTTP handlers write meanwhile, one statement each here, and answer.     *)
(*                                                                         *)
(* The tables are the sets of writes and of batch rows they hold.          *)
(***************************************************************************)
EXTENDS Connection, Integers, FiniteSets

CONSTANTS
    Workers,
    RowsPerBatch,   \* statements of a batch
    MaxBatches,     \* bound: batches begun by each batcher
    MaxWrites,      \* bound: writes of the HTTP workers
    MaxRefused,     \* bound: statements of batches that fail
    MaxCrashes      \* bound: crashes

ASSUME RowsAssumption == RowsPerBatch \in Nat
ASSUME BoundsAssumption == {MaxBatches, MaxWrites, MaxRefused, MaxCrashes} \subseteq Nat

VARIABLES
    number,     \* [Batchers -> how many batches it has begun]
    left,       \* [Batchers -> statements of its batch still to run]
    serving,    \* [Workers -> the write it has run and not answered, or 0]
    written,    \* writes run by the HTTP workers so far
    acked,      \* writes answered with success
    exposed,    \* writes run while some thread was inside a batch
    lost,       \* answered writes that a crash took back
    cut,        \* batches inside which another batch's COMMIT fell
    refused,    \* rows whose statement failed
    crashes

batchVars == <<number, left>>
workerVars == <<serving, written, acked, exposed>>
vars == <<connVars, batchVars, workerVars, lost, cut, refused, crashes>>

Open(b) == batch[b] = "open"

(* The rows of the n-th batch of b. *)
Row(b, n, i) == <<b, n, i>>
Rows(b, n) == {Row(b, n, i) : i \in 1 .. RowsPerBatch}

Init ==
    /\ ConnInit([writes |-> {}, rows |-> {}])
    /\ number = [b \in Batchers |-> 0]
    /\ left = [b \in Batchers |-> 0]
    /\ serving = [w \in Workers |-> 0]
    /\ written = 0 /\ acked = {} /\ exposed = {} /\ lost = {}
    /\ cut = {} /\ refused = {} /\ crashes = 0

-----------------------------------------------------------------------------
(* A faulty variant of Begin: the loop runs once too often. *)
BeginOneMore(b) ==
    /\ number[b] < MaxBatches
    /\ BeginBatch(b)
    /\ number' = [number EXCEPT ![b] = @ + 1]
    /\ left' = [left EXCEPT ![b] = RowsPerBatch + 1]
    /\ UNCHANGED <<workerVars, lost, cut, refused, crashes>>

(* BEGIN TRANSACTION; the data is in memory already. *)
Begin(b) ==
    /\ number[b] < MaxBatches
    /\ BeginBatch(b)
    /\ number' = [number EXCEPT ![b] = @ + 1]
    /\ left' = [left EXCEPT ![b] = RowsPerBatch]
    /\ UNCHANGED <<workerVars, lost, cut, refused, crashes>>

(* The next statement of the loop. If it fails, the loop goes on. *)
InsertRow(b) ==
    /\ Open(b) /\ left[b] > 0
    /\ left' = [left EXCEPT ![b] = @ - 1]
    /\ \/ Exec([db EXCEPT !.rows = @ \cup {Row(b, number[b], left[b])}]) /\ UNCHANGED refused
       \/ /\ Cardinality(refused) < MaxRefused
          /\ refused' = refused \cup {Row(b, number[b], left[b])}
          /\ UNCHANGED connVars
    /\ UNCHANGED <<number, workerVars, lost, cut, crashes>>

(* COMMIT, also of what the other threads have written since the BEGIN. *)
Commit(b) ==
    /\ left[b] = 0
    /\ CommitBatch(b)
    /\ cut' = cut \cup {<<c, number[c]>> : c \in {d \in Batchers \ {b} : Open(d)}}
    /\ UNCHANGED <<batchVars, workerVars, lost, refused, crashes>>

(* A handler runs its write... *)
Write(w) ==
    /\ serving[w] = 0 /\ written < MaxWrites
    /\ written' = written + 1
    /\ serving' = [serving EXCEPT ![w] = written']
    /\ Exec([db EXCEPT !.writes = @ \cup {written'}])
    /\ exposed' = IF \E b \in Batchers : Open(b) THEN exposed \cup {written'} ELSE exposed
    /\ UNCHANGED <<batchVars, acked, lost, cut, refused, crashes>>

(* ... and answers: the client counts on it. *)
Answer(w) ==
    /\ serving[w] # 0
    /\ acked' = acked \cup {serving[w]}
    /\ serving' = [serving EXCEPT ![w] = 0]
    /\ UNCHANGED <<connVars, batchVars, written, exposed, lost, cut, refused, crashes>>

(* The process is killed, or an exception leaves a detached thread: std::stod
   on a malformed price line is called between BEGIN and COMMIT. *)
Crash ==
    /\ crashes < MaxCrashes /\ crashes' = crashes + 1
    /\ Recover
    /\ lost' = lost \cup (acked \ disk.writes)
    /\ serving' = [w \in Workers |-> 0]
    /\ left' = [b \in Batchers |-> 0]
    /\ UNCHANGED <<number, written, acked, exposed, cut, refused>>

Batch(b) == Begin(b) \/ InsertRow(b) \/ Commit(b)

Next ==
    \/ \E b \in Batchers : Batch(b)
    \/ \E w \in Workers : Write(w) \/ Answer(w)
    \/ Crash

Spec == Init /\ [][Next]_vars

(* Between BEGIN and COMMIT a thread neither waits nor sleeps: it walks a
   vector it has already fetched. Nothing obliges it to begin a batch. *)
Fairness == \A b \in Batchers : WF_vars(InsertRow(b) \/ Commit(b))

FairSpec == Spec /\ Fairness

-----------------------------------------------------------------------------
(* Properties *)

Writes == 1 .. MaxWrites
AllRows == UNION {Rows(b, n) : b \in Batchers, n \in 1 .. MaxBatches}

(* Shape of the state. *)
TypeOK ==
    /\ {db, disk} \subseteq [writes : SUBSET (1 .. written), rows : SUBSET AllRows]
    /\ disk.writes \subseteq db.writes /\ disk.rows \subseteq db.rows
    /\ inTxn \in BOOLEAN /\ batch \in [Batchers -> {"idle", "open"}]
    /\ number \in [Batchers -> 0 .. MaxBatches]
    /\ left \in [Batchers -> 0 .. RowsPerBatch]
    /\ serving \in [Workers -> 0 .. MaxWrites]
    /\ written \in 0 .. MaxWrites
    /\ acked \cup exposed \subseteq 1 .. written /\ lost \subseteq acked
    /\ cut \subseteq Batchers \X (1 .. MaxBatches)
    /\ refused \subseteq AllRows
    /\ crashes \in 0 .. MaxCrashes

(***************************************************************************)
(* An answered write is on disk whenever the connection is outside a       *)
(* transaction, unless a crash took it back; and a crash only ever takes   *)
(* back writes that some handler ran while another thread was in a batch.  *)
(***************************************************************************)
AnsweredIsSaved ==
    /\ ~inTxn => acked \ lost \subseteq disk.writes
    /\ lost \subseteq exposed

(***************************************************************************)
(* A crash leaves all of a batch or none of it (the rows whose statements  *)
(* failed aside), except for a batch in the middle of which another thread *)
(* committed: its own BEGIN, or the rest of it, then had no transaction.   *)
(***************************************************************************)
BatchAllOrNothing ==
    \A b \in Batchers : \A n \in 1 .. number[b] :
        <<b, n>> \notin cut =>
            \/ disk.rows \cap Rows(b, n) = {}
            \/ disk.rows \cap Rows(b, n) = Rows(b, n) \ refused

(***************************************************************************)
(* A write does not stay exposed for good: it reaches the disk, or a crash *)
(* takes it back, whatever number of batches follow and overlap.           *)
(***************************************************************************)
EventuallySaved == 
    \A i \in Writes : (i \in db.writes) ~> (i \in disk.writes \/ i \notin db.writes)
=============================================================================
