----------------------------- MODULE Statements -----------------------------
(***************************************************************************)
(* The write statements of the background threads.  None of them looks at  *)
(* the result of sqlite3_step beyond printing it, so a statement that      *)
(* fails (another process holds the database, and no busy timeout is set)  *)
(* leaves the thread to go on as if it had run.                            *)
(***************************************************************************)
EXTENDS Connection, Integers

CONSTANT MaxFailures    \* bound: statements that fail, and kills of the process

ASSUME FailuresAssumption == MaxFailures \in Nat

VARIABLE failures

statementVars == <<connVars, failures>>

StatementsInit(tables) == ConnInit(tables) /\ failures = 0

Fails ==
    /\ failures < MaxFailures /\ failures' = failures + 1
    /\ UNCHANGED connVars

Runs(new) == Exec(new) /\ UNCHANGED failures
=============================================================================
