---------------------------- MODULE Registration ----------------------------
(***************************************************************************)
(* How an account comes to exist: user_ctrl::register_user, with what the  *)
(* other handlers do to the same two tables while it runs                  *)
(* (user_ctrl::update_password, asset_ctrl::deposit) and what any thread   *)
(* does to the connection's last inserted rowid.                           *)
(*                                                                         *)
(* An account is a row of users and a row of accounts (the purse). The     *)
(* handler writes them in two statements with no transaction around them.  *)
(***************************************************************************)
EXTENDS Connection, Integers, Sequences, FiniteSetsExt

CONSTANTS
    Workers,
    Accounts,
    Passwords,      \* passwords a client may choose, NoPassword among them or not
    NoPassword,     \* the empty string
    Amounts,        \* amounts a deposit may ask for
    MaxRequests,    \* bound: requests received
    MaxFaults,      \* bound: write statements that fail
    MaxBatches,     \* bound: background batches begun
    MaxCrashes      \* bound: crashes

ASSUME WorkersAssumption == IsFiniteSet(Workers)
ASSUME AmountsAssumption == Amounts \subseteq Int
ASSUME BoundsAssumption == {MaxRequests, MaxFaults, MaxBatches, MaxCrashes} \subseteq Nat

VARIABLES
    unique,     \* [{"users", "accounts"} -> does the table have a UNIQUE account?]
    lastRowid,  \* what sqlite3_last_insert_rowid returns: a user id, or OtherRow
    pc, req,    \* [Workers -> the next statement], [Workers -> the request]
    answers,    \* registrations answered with success: the row's own id and the id told
    credited,   \* [Accounts -> deposits confirmed to clients]
    early,      \* accounts sent a deposit before a registration was answered
    changed,    \* accounts sent a change of password
    crossed,    \* accounts whose registrations overlapped in time
    tainted,    \* accounts a fault or a crash hit
    received, faults, batches, crashes     \* counters for the bounds

historyVars == <<answers, credited, early, changed, crossed, tainted>>
boundVars == <<received, faults, batches, crashes>>
regVars == <<unique, lastRowid, pc, req, historyVars, boundVars>>
vars == <<connVars, regVars>>

-----------------------------------------------------------------------------
OtherRow == 0    \* the rowid of a row of another table

Register == [op : {"register"}, acct : Accounts, pwd : Passwords, row : {0}, told : {0}]
Change == [op : {"change"}, acct : Accounts, pwd : Passwords]
Deposit == [op : {"deposit"}, acct : Accounts, total : Amounts]
Request == Register \cup Change \cup Deposit
NoRequest == [op |-> "none"]

Acct(w) == req[w].acct

UsersOf(d, a) == {u \in d.users : u.acct = a}

(* get_password: of several rows the oldest; NoPassword when there is none. *)
Password(d, a) ==
    IF UsersOf(d, a) = {} THEN NoPassword
    ELSE (CHOOSE u \in UsersOf(d, a) : \A v \in UsersOf(d, a) : u.id <= v.id).pwd

(* login_user, and every handler that asks for the password: an account whose
   password is empty counts as missing. *)
LogsIn(d, a, p) == Password(d, a) # NoPassword /\ Password(d, a) = p

(* INSERT INTO users: no row of users is ever deleted. *)
NextId(d) == Cardinality(d.users) + 1
AddUser(d, a, p) == [d EXCEPT !.users = @ \cup {[id |-> NextId(d), acct |-> a, pwd |-> p]}]

(* Faulty variants of what follows: the WHERE clause is missing; the INSERT is
   prepared and never stepped; the UPDATE overwrites; the handler's state
   outlives its response; an account is never looked up. *)
SetPasswordOfAll(d, a, p) == [d EXCEPT !.users = {[u EXCEPT !.pwd = p] : u \in @}]
AddPurseUnstepped(d, a) == d
OverwritePurse(d, a, x) == [d EXCEPT !.purse[a] = [i \in DOMAIN @ |-> x]]
ReturnUncleared(w) == pc' = [pc EXCEPT ![w] = "idle"] /\ UNCHANGED req
NeverTaken(d, a) == FALSE

(* account_exists: the count of rows is not zero. *)
Taken(d, a) == UsersOf(d, a) # {}

(* UPDATE users SET password = ? *)
SetPassword(d, a, p) ==
    [d EXCEPT !.users = {IF u.acct = a THEN [u EXCEPT !.pwd = p] ELSE u : u \in @}]

(* INSERT INTO accounts and UPDATE accounts: a purse is the rows' balances. *)
AddPurse(d, a) == [d EXCEPT !.purse[a] = Append(@, 0)]
Credit(d, a, x) == [d EXCEPT !.purse[a] = [i \in DOMAIN @ |-> @[i] + x]]

-----------------------------------------------------------------------------
(* Nobody is registered. The schema is not in the repository: either key may
   be declared or not. *)
Init ==
    /\ ConnInit([users |-> {}, purse |-> [a \in Accounts |-> <<>>]])
    /\ unique \in [{"users", "accounts"} -> BOOLEAN]
    /\ lastRowid = OtherRow
    /\ pc = [w \in Workers |-> "idle"]
    /\ req = [w \in Workers |-> NoRequest]
    /\ answers = {}
    /\ credited = [a \in Accounts |-> 0]
    /\ early = {} /\ changed = {} /\ crossed = {} /\ tainted = {}
    /\ received = 0 /\ faults = 0 /\ batches = 0 /\ crashes = 0

GoTo(w, stage) == pc' = [pc EXCEPT ![w] = stage]

Return(w) ==
    /\ pc' = [pc EXCEPT ![w] = "idle"]
    /\ req' = [req EXCEPT ![w] = NoRequest]

(* A registration was answered for account a. *)
Answered(a) == \E r \in answers : r.acct = a

(* A registration of account a is being served. *)
Registering(a) == \E v \in Workers : req[v].op = "register" /\ Acct(v) = a

Receive(w) ==
    /\ pc[w] = "idle"
    /\ received < MaxRequests /\ received' = received + 1
    /\ \E r \in Request :
        /\ req' = [req EXCEPT ![w] = r]
        /\ GoTo(w, CASE r.op = "register" -> "exists"
                     [] r.op = "change"   -> "change"
                     [] r.op = "deposit"  -> "auth")
        /\ early' = IF r.op = "deposit" /\ ~Answered(r.acct) THEN early \cup {r.acct}
                                                             ELSE early
        /\ changed' = IF r.op = "change" THEN changed \cup {r.acct} ELSE changed
        /\ crossed' = IF r.op = "register" /\ Registering(r.acct)
                      THEN crossed \cup {r.acct} ELSE crossed
    /\ UNCHANGED <<connVars, unique, lastRowid, answers, credited, tainted,
                   faults, batches, crashes>>

(* user_dao::account_exists *)
CheckExists(w) ==
    /\ pc[w] = "exists"
    /\ IF Taken(db, Acct(w)) THEN Return(w) ELSE GoTo(w, "insert") /\ UNCHANGED req
    /\ UNCHANGED <<connVars, unique, lastRowid, historyVars, boundVars>>

(* user_dao::insert_user, the INSERT. A UNIQUE key refuses a second row: the
   function returns -1 and the handler answers "failed". *)
InsertUser(w) ==
    /\ pc[w] = "insert"
    /\ \/ /\ unique["users"] /\ UsersOf(db, Acct(w)) # {}
          /\ Return(w)
          /\ UNCHANGED <<connVars, lastRowid>>
       \/ /\ ~(unique["users"] /\ UsersOf(db, Acct(w)) # {})
          /\ Exec(AddUser(db, Acct(w), req[w].pwd))
          /\ lastRowid' = NextId(db)
          /\ req' = [req EXCEPT ![w].row = NextId(db)]
          /\ GoTo(w, "rowid")
    /\ UNCHANGED <<unique, historyVars, boundVars>>

(* ... and its return value: the last row the connection inserted by now. *)
ReadRowid(w) ==
    /\ pc[w] = "rowid"
    /\ req' = [req EXCEPT ![w].told = lastRowid]
    /\ GoTo(w, "purse")
    /\ UNCHANGED <<connVars, unique, lastRowid, historyVars, boundVars>>

(* account_dao::init_account, its result ignored. *)
InitAccount(w) ==
    /\ pc[w] = "purse"
    /\ IF unique["accounts"] /\ db.purse[Acct(w)] # <<>>
       THEN UNCHANGED <<connVars, lastRowid>>
       ELSE Exec(AddPurse(db, Acct(w))) /\ lastRowid' = OtherRow
    /\ GoTo(w, "ack") /\ UNCHANGED req
    /\ UNCHANGED <<unique, historyVars, boundVars>>

(* user_dao::update_password: no check of the old password, none of existence. *)
ChangePassword(w) ==
    /\ pc[w] = "change"
    /\ Exec(SetPassword(db, Acct(w), req[w].pwd))
    /\ Return(w)
    /\ UNCHANGED <<unique, lastRowid, historyVars, boundVars>>

(* deposit's password check: the depositor sends the right password or not. *)
Authenticate(w) ==
    /\ pc[w] = "auth"
    /\ \/ Return(w)
       \/ /\ \E p \in Passwords : LogsIn(db, Acct(w), p)
          /\ GoTo(w, "credit") /\ UNCHANGED req
    /\ UNCHANGED <<connVars, unique, lastRowid, historyVars, boundVars>>

(* account_dao::deposit: an UPDATE of no row at all is a success too. *)
CreditPurse(w) ==
    /\ pc[w] = "credit"
    /\ Exec(Credit(db, Acct(w), req[w].total))
    /\ GoTo(w, "ack") /\ UNCHANGED req
    /\ UNCHANGED <<unique, lastRowid, historyVars, boundVars>>

(* The success response of register_user and of deposit. *)
Respond(w) ==
    /\ pc[w] = "ack"
    /\ IF req[w].op = "register"
       THEN /\ answers' = answers \cup {[acct |-> Acct(w), pwd |-> req[w].pwd,
                                         row |-> req[w].row, told |-> req[w].told]}
            /\ UNCHANGED credited
       ELSE /\ credited' = [credited EXCEPT ![Acct(w)] = @ + req[w].total]
            /\ UNCHANGED answers
    /\ Return(w)
    /\ UNCHANGED <<connVars, unique, lastRowid, early, changed, crossed, tainted, boundVars>>

(* A write statement fails. Only init_account's result is ignored. *)
StatementFails(w) ==
    /\ pc[w] \in {"insert", "purse", "change", "credit"}
    /\ faults < MaxFaults /\ faults' = faults + 1
    /\ IF pc[w] = "purse"
       THEN GoTo(w, "ack") /\ UNCHANGED req /\ tainted' = tainted \cup {Acct(w)}
       ELSE Return(w) /\ UNCHANGED tainted
    /\ UNCHANGED <<connVars, unique, lastRowid, answers, credited, early, changed, crossed,
                   received, batches, crashes>>

(* Another thread inserts into another table (a trade, a news item, a price). *)
OtherInsert ==
    /\ lastRowid' = OtherRow
    /\ UNCHANGED <<connVars, unique, pc, req, historyVars, boundVars>>

-----------------------------------------------------------------------------
(* The registration of w has written the user and not yet the purse. *)
HalfDone(w) == pc[w] \in {"rowid", "purse"}

(* Of account a: a deposit made and not yet confirmed. *)
Owed(w, a) == IF pc[w] = "ack" /\ req[w].op = "deposit" /\ Acct(w) = a THEN req[w].total ELSE 0

Unsaved == {a \in Accounts : \/ UsersOf(db, a) # UsersOf(disk, a)
                             \/ db.purse[a] # disk.purse[a]}

Crash ==
    /\ crashes < MaxCrashes /\ crashes' = crashes + 1
    /\ Recover
    /\ tainted' = tainted \cup Unsaved
                  \cup {Acct(w) : w \in {v \in Workers : \/ HalfDone(v)
                                                         \/ \E a \in Accounts : Owed(v, a) # 0}}
    /\ lastRowid' = OtherRow
    /\ pc' = [w \in Workers |-> "idle"]
    /\ req' = [w \in Workers |-> NoRequest]
    /\ UNCHANGED <<unique, answers, credited, early, changed, crossed,
                   received, faults, batches>>

BackgroundBegin(b) ==
    /\ batches < MaxBatches /\ batches' = batches + 1
    /\ BeginBatch(b)
    /\ UNCHANGED <<unique, lastRowid, pc, req, historyVars, received, faults, crashes>>

BackgroundCommit(b) == CommitBatch(b) /\ UNCHANGED regVars

Serve(w) ==
    \/ Receive(w) \/ CheckExists(w) \/ InsertUser(w) \/ ReadRowid(w) \/ InitAccount(w)
    \/ ChangePassword(w) \/ Authenticate(w) \/ CreditPurse(w) \/ Respond(w)
    \/ StatementFails(w)

Next ==
    \/ \E w \in Workers : Serve(w)
    \/ OtherInsert
    \/ \E b \in Batchers : BackgroundBegin(b) \/ BackgroundCommit(b)
    \/ Crash

Spec == Init /\ [][Next]_vars

-----------------------------------------------------------------------------
(* Properties *)

User == [id : Nat, acct : Accounts, pwd : Passwords]
Tables == [users : SUBSET User, purse : [Accounts -> Seq(Int)]]
Stages == {"idle", "exists", "insert", "rowid", "purse", "change", "auth", "credit", "ack"}

(* Shape of the state; the stage of a worker fits the request it serves. *)
TypeOK ==
    /\ db \in Tables /\ disk \in Tables
    /\ inTxn \in BOOLEAN /\ batch \in [Batchers -> {"idle", "open"}]
    /\ unique \in [{"users", "accounts"} -> BOOLEAN]
    /\ lastRowid \in Nat
    /\ pc \in [Workers -> Stages]
    /\ \A w \in Workers :
        /\ pc[w] = "idle" <=> req[w] = NoRequest
        /\ pc[w] \in {"exists", "insert", "rowid", "purse"} => req[w].op = "register"
        /\ pc[w] = "change" => req[w].op = "change"
        /\ pc[w] \in {"auth", "credit"} => req[w].op = "deposit"
        /\ pc[w] = "ack" => req[w].op \in {"register", "deposit"}
    /\ answers \subseteq [acct : Accounts, pwd : Passwords, row : Nat, told : Nat]
    /\ credited \in [Accounts -> Int]
    /\ early \cup changed \cup crossed \cup tainted \subseteq Accounts
    /\ {received, faults, batches, crashes} \subseteq Nat

(* Accounts that two registrations may both have been given. *)
Shared == {a \in crossed : ~unique["users"]}

(***************************************************************************)
(* An account has one owner: one user row, and one client who was told the *)
(* registration succeeded. The check and the INSERT are two statements, so *)
(* this holds only while registrations of the account do not cross or the  *)
(* table refuses the second row; a crash may roll an answered one back.    *)
(***************************************************************************)
OneOwner ==
    \A a \in Accounts \ (Shared \cup tainted) :
        /\ Cardinality(UsersOf(db, a)) <= 1
        /\ Cardinality({r \in answers : r.acct = a}) <= 1

(***************************************************************************)
(* The client who was told the registration succeeded can log in with the  *)
(* password it chose (until someone changes it), whatever other            *)
(* registrations of the account were tried meanwhile. An empty password is *)
(* accepted by the registration and never by the login.                    *)
(***************************************************************************)
OwnerCanLogIn ==
    \A r \in answers :
        r.acct \notin Shared \cup tainted \cup changed =>
            (LogsIn(db, r.acct, r.pwd) <=> r.pwd # NoPassword)

(***************************************************************************)
(* A user without a purse (every deposit is then confirmed and lost, and   *)
(* registering again is refused) exists only while its registration is     *)
(* between the two INSERTs, or after a fault or crash came between them;   *)
(* and there is no purse without a user.                                   *)
(***************************************************************************)
PursePerUser ==
    \A a \in Accounts \ tainted :
        /\ UsersOf(db, a) # {} =>
            db.purse[a] # <<>> \/ \E w \in Workers : HalfDone(w) /\ Acct(w) = a
        /\ db.purse[a] # <<>> => UsersOf(db, a) # {}

(***************************************************************************)
(* A deposit sent after the registration was answered is kept: the balance *)
(* is what was confirmed plus what is about to be. A deposit sent earlier  *)
(* may find a user without a purse, and is confirmed and lost.             *)
(***************************************************************************)
DepositsKept ==
    \A a \in Accounts \ (early \cup tainted) :
        LET balance == IF db.purse[a] = <<>> THEN 0 ELSE db.purse[a][1]
        IN  balance = credited[a] + SumFunction([w \in Workers |-> Owed(w, a)])

(* What user_dao.h says of insert_user: it returns the id of the new user. *)
UserIdIsOwn == \A r \in answers : r.told = r.row
=============================================================================
