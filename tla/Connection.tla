----------------------------- MODULE Connection -----------------------------
(***************************************************************************)
(* The one SQLite connection of the server process (dao/database.h).       *)
(* Every thread (the HTTP workers, the price updater, the news and the     *)
(* prediction loops) takes the same handle from Database::instance().      *)
(* SQLite serialises the calls on a handle, so one sqlite3_step of a write *)
(* is atomic; everything a handler does in several statements interleaves  *)
(* with the other threads.                                                 *)
(*                                                                         *)
(* Outside BEGIN ... COMMIT a statement commits by itself.  A transaction  *)
(* belongs to the connection, not to the thread that opened it: while one  *)
(* thread is between BEGIN and COMMIT, the statements of all the others    *)
(* join its transaction.                                                   *)
(***************************************************************************)

CONSTANT Batchers    \* threads that run BEGIN; inserts; COMMIT

VARIABLES
    db,       \* the tables as the connection's statements see them
    disk,     \* the tables as they would be found after a crash
    inTxn,    \* an explicit transaction is open on the connection
    batch     \* [Batchers -> {"idle", "open"}]: between BEGIN and COMMIT?

connVars == <<db, disk, inTxn, batch>>

(* Database::initialize: the tables in the file are what the handle reads. *)
ConnInit(tables) ==
    /\ db = tables
    /\ disk = tables
    /\ inTxn = FALSE
    /\ batch = [b \in Batchers |-> "idle"]

(* Faulty variants of the statements below, for checking that the properties
   notice: inside its batch a thread's rows wait for its own COMMIT, also when
   another's has ended the transaction; BEGIN opens none; COMMIT rolls back; an
   early return leaves the batch before its COMMIT. *)
ExecForOwnCommit(new) ==
    /\ db' = new
    /\ disk' = IF \E b \in Batchers : batch[b] = "open" THEN disk ELSE new
    /\ UNCHANGED <<inTxn, batch>>

BeginNothing(b) ==
    /\ batch[b] = "idle"
    /\ batch' = [batch EXCEPT ![b] = "open"]
    /\ UNCHANGED <<db, disk, inTxn>>

CommitUnsaved(b) ==
    /\ batch[b] = "open"
    /\ batch' = [batch EXCEPT ![b] = "idle"]
    /\ inTxn' = FALSE
    /\ UNCHANGED <<db, disk>>

CommitForgotten(b) ==
    /\ batch[b] = "open"
    /\ batch' = [batch EXCEPT ![b] = "idle"]
    /\ UNCHANGED <<db, disk, inTxn>>

(* One write statement stepped to SQLITE_DONE, turning the tables into new. *)
Exec(new) ==
    /\ db' = new
    /\ disk' = IF inTxn THEN disk ELSE new
    /\ UNCHANGED <<inTxn, batch>>

(***************************************************************************)
(* BEGIN TRANSACTION.  On a connection that already has a transaction it   *)
(* fails, and no caller looks at the result of sqlite3_exec: either way    *)
(* the thread goes on to its inserts with a transaction open.              *)
(***************************************************************************)
BeginBatch(b) ==
    /\ batch[b] = "idle"
    /\ batch' = [batch EXCEPT ![b] = "open"]
    /\ inTxn' = TRUE
    /\ UNCHANGED <<db, disk>>

(***************************************************************************)
(* COMMIT.  It ends whatever transaction the connection has, whoever began *)
(* it; with none open it fails, again unnoticed.                           *)
(***************************************************************************)
CommitBatch(b) ==
    /\ batch[b] = "open"
    /\ batch' = [batch EXCEPT ![b] = "idle"]
    /\ inTxn' = FALSE
    /\ disk' = db
    /\ UNCHANGED db

(***************************************************************************)
(* The process dies (a kill, or an exception leaving a detached thread,    *)
(* which calls std::terminate) and is started again: the write-ahead log   *)
(* gives back what was committed.                                          *)
(***************************************************************************)
Recover ==
    /\ db' = disk
    /\ inTxn' = FALSE
    /\ batch' = [b \in Batchers |-> "idle"]
    /\ UNCHANGED disk

(***************************************************************************)
(* A statement is made durable at once unless some thread is inside a      *)
(* batch, and no transaction outlives the batches: nested BEGINs that fail *)
(* and COMMITs that end another thread's transaction never leave the       *)
(* connection in a transaction nobody will commit.                         *)
(***************************************************************************)
DurableOutsideBatches ==
    /\ inTxn => \E b \in Batchers : batch[b] = "open"
    /\ ~inTxn => disk = db
=============================================================================
