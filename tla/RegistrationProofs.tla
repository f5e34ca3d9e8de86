------------------------ MODULE RegistrationProofs ------------------------
(***************************************************************************)
(* Proofs about Registration, for every set of workers, accounts and       *)
(* passwords, every schema and every bound.                                *)
(***************************************************************************)
EXTENDS Registration, SequenceTheorems, DataTheorems, TLAPS

-----------------------------------------------------------------------------
(* The inductive invariant.                                                *)

(* A registration under way has a row and an id to tell. *)
Underway == [op : {"register"}, acct : Accounts, pwd : Passwords, row : Nat, told : Nat]
Served == Underway \cup Change \cup Deposit

(* The stage of a worker fits the request it serves. *)
Fits(stage, r) ==
    /\ stage = "idle" <=> r = NoRequest
    /\ stage \in {"exists", "insert", "rowid", "purse"} => r.op = "register"
    /\ stage = "change" => r.op = "change"
    /\ stage \in {"auth", "credit"} => r.op = "deposit"
    /\ stage = "ack" => r.op \in {"register", "deposit"}

TablesInv ==
    /\ db \in Tables /\ disk \in Tables
    /\ IsFiniteSet(db.users) /\ IsFiniteSet(disk.users)
    /\ inTxn \in BOOLEAN /\ batch \in [Batchers -> {"idle", "open"}]

ServiceInv ==
    /\ pc \in [Workers -> Stages]
    /\ req \in [Workers -> Served \cup {NoRequest}]
    /\ \A w \in Workers : Fits(pc[w], req[w])

HistoryInv ==
    /\ unique \in [{"users", "accounts"} -> BOOLEAN]
    /\ lastRowid \in Nat
    /\ answers \subseteq [acct : Accounts, pwd : Passwords, row : Nat, told : Nat]
    /\ credited \in [Accounts -> Int]
    /\ early \cup changed \cup crossed \cup tainted \subseteq Accounts
    /\ received \in Nat /\ faults \in Nat /\ batches \in Nat /\ crashes \in Nat

TypeInv == TablesInv /\ ServiceInv /\ HistoryInv

(* w is serving a registration of account a... *)
Registers(w, a) == req[w].op = "register" /\ Acct(w) = a

(* ... and has written the user. *)
Wrote(w, a) == pc[w] \in {"rowid", "purse", "ack"} /\ Registers(w, a)

(* A registration that has written its user finds it there; without a UNIQUE
   key registrations that never crossed come one at a time, and one that is
   about to insert still finds nobody. *)
Writing ==
    \A a \in Accounts :
        /\ \A w \in Workers : Wrote(w, a) => UsersOf(db, a) # {}
        /\ ~unique["users"] /\ a \notin crossed =>
             /\ \A v, w \in Workers : Registers(v, a) /\ Registers(w, a) => v = w
             /\ \A w \in Workers : pc[w] = "insert" /\ Acct(w) = a => UsersOf(db, a) = {}

(* Who owns the account: one row, one answer, and no answer while the
   registration that wrote the row has not given it. *)
OwnerOf(a) ==
    /\ \A u, v \in UsersOf(db, a) : u = v
    /\ \A r, s \in answers : r.acct = a /\ s.acct = a => r = s
    /\ Answered(a) => UsersOf(db, a) # {}
    /\ \A w \in Workers : Wrote(w, a) =>
        ~Answered(a) /\ \A v \in Workers : Wrote(v, a) => v = w

Owners == \A a \in Accounts \ (Shared \cup tainted) : OwnerOf(a)

(* Whose password the row holds. *)
OwnPassword ==
    /\ \A w \in Workers : req[w].op = "change" => Acct(w) \in changed
    /\ \A a \in Accounts \ (Shared \cup tainted \cup changed) : \A u \in UsersOf(db, a) :
        /\ \A r \in answers : r.acct = a => u.pwd = r.pwd
        /\ \A w \in Workers : Wrote(w, a) => u.pwd = req[w].pwd

(* A registration that was answered, or is about to be, left a purse... *)
PurseOf(a) ==
    /\ UsersOf(db, a) # {} => db.purse[a] # <<>> \/ \E w \in Workers : HalfDone(w) /\ Acct(w) = a
    /\ db.purse[a] # <<>> => UsersOf(db, a) # {}
    /\ Answered(a) => db.purse[a] # <<>>
    /\ \A w \in Workers : pc[w] = "ack" /\ Registers(w, a) => db.purse[a] # <<>>

Purses == \A a \in Accounts \ tainted : PurseOf(a)

(* ... which a deposit that was not sent too early finds. *)
Known == \A w \in Workers : req[w].op = "deposit" => Acct(w) \in early \/ Answered(Acct(w))

-----------------------------------------------------------------------------
(* Requests and statements. *)

LEMMA RequestType ==
    ASSUME NEW r \in Request
    PROVE  /\ r \in Served /\ r # NoRequest /\ r.acct \in Accounts
           /\ r.op \in {"register", "change", "deposit"}
           /\ r.op = "register" => r \in Underway
           /\ r.op = "change" => r \in Change
           /\ r.op = "deposit" => r \in Deposit
  <1>1. CASE r \in Register
    BY <1>1 DEF Register, Served, Underway, NoRequest
  <1>2. CASE r \in Change
    BY <1>2 DEF Change, Served, NoRequest
  <1>3. CASE r \in Deposit
    BY <1>3 DEF Deposit, Served, NoRequest
  <1> QED BY <1>1, <1>2, <1>3 DEF Request

LEMMA ServedType ==
    ASSUME NEW r \in Served \cup {NoRequest}
    PROVE  /\ r.op \in {"register", "change", "deposit", "none"}
           /\ r.op = "register" => r \in Underway /\ r.acct \in Accounts /\ r.pwd \in Passwords
           /\ r.op = "change" => r \in Change /\ r.acct \in Accounts /\ r.pwd \in Passwords
           /\ r.op = "deposit" => r \in Deposit /\ r.acct \in Accounts /\ r.total \in Int
           /\ r.op = "none" <=> r = NoRequest
  <1>1. CASE r \in Underway
    BY <1>1 DEF Underway, NoRequest
  <1>2. CASE r \in Change
    BY <1>2 DEF Change, NoRequest
  <1>3. CASE r \in Deposit
    <2>1. r.op = "deposit" /\ r.acct \in Accounts /\ r.total \in Amounts
      BY <1>3 DEF Deposit
    <2>2. r.total \in Int
      BY <2>1, AmountsAssumption
    <2>3. r # NoRequest
      <3>1. NoRequest.op # "deposit"
        BY DEF NoRequest
      <3> QED BY <2>1, <3>1
    <2> QED BY <1>3, <2>1, <2>2, <2>3
  <1>4. CASE r = NoRequest
    BY <1>4 DEF NoRequest
  <1> QED BY <1>1, <1>2, <1>3, <1>4 DEF Served

LEMMA AddUserType ==
    ASSUME NEW d \in Tables, IsFiniteSet(d.users), NEW a \in Accounts, NEW p \in Passwords
    PROVE  /\ AddUser(d, a, p) \in Tables /\ IsFiniteSet(AddUser(d, a, p).users)
           /\ AddUser(d, a, p).users = d.users \cup {[id |-> NextId(d), acct |-> a, pwd |-> p]}
           /\ AddUser(d, a, p).purse = d.purse
           /\ NextId(d) \in Nat
  <1>1. NextId(d) \in Nat
    BY FS_CardinalityType DEF NextId
  <1> DEFINE new == d.users \cup {[id |-> NextId(d), acct |-> a, pwd |-> p]}
  <1>2. new \in SUBSET User /\ IsFiniteSet(new)
    <2>1. [id |-> NextId(d), acct |-> a, pwd |-> p] \in User
      BY <1>1 DEF User
    <2> QED BY <2>1, FS_AddElement DEF Tables
  <1>3. AddUser(d, a, p) = [d EXCEPT !.users = new]
    BY DEF AddUser, Tables
  <1> HIDE DEF new
  <1>4. /\ AddUser(d, a, p) \in Tables /\ AddUser(d, a, p).users = new
        /\ AddUser(d, a, p).purse = d.purse
    BY <1>2, <1>3 DEF Tables
  <1> QED BY <1>1, <1>2, <1>4 DEF new

(* UPDATE users SET password = ? of one row *)
Updated(u, a, p) == IF u.acct = a THEN [u EXCEPT !.pwd = p] ELSE u

LEMMA SetPasswordType ==
    ASSUME NEW d \in Tables, IsFiniteSet(d.users), NEW a \in Accounts, NEW p \in Passwords
    PROVE  /\ SetPassword(d, a, p) \in Tables /\ IsFiniteSet(SetPassword(d, a, p).users)
           /\ SetPassword(d, a, p).users = {Updated(u, a, p) : u \in d.users}
           /\ SetPassword(d, a, p).purse = d.purse
  <1> DEFINE new == {Updated(u, a, p) : u \in d.users}
  <1>1. new \in SUBSET User
    BY DEF Tables, User, Updated
  <1>2. IsFiniteSet(new)
    <2> DEFINE f == [u \in d.users |-> Updated(u, a, p)]
    <2>1. f \in Surjection(d.users, new)
      BY DEF Surjection
    <2> QED BY <2>1, FS_Surjection
  <1>3. SetPassword(d, a, p) = [d EXCEPT !.users = new]
    BY DEF SetPassword, Updated, Tables
  <1> HIDE DEF new
  <1>4. /\ SetPassword(d, a, p) \in Tables /\ SetPassword(d, a, p).users = new
        /\ SetPassword(d, a, p).purse = d.purse
    BY <1>1, <1>3 DEF Tables
  <1> QED BY <1>2, <1>4 DEF new

LEMMA AddPurseType ==
    ASSUME NEW d \in Tables, NEW a \in Accounts
    PROVE  /\ AddPurse(d, a) \in Tables
           /\ AddPurse(d, a).users = d.users
           /\ AddPurse(d, a).purse = [d.purse EXCEPT ![a] = Append(@, 0)]
  <1>1. Append(d.purse[a], 0) \in Seq(Int)
    BY DEF Tables
  <1> QED BY <1>1 DEF AddPurse, Tables

LEMMA CreditType ==
    ASSUME NEW d \in Tables, NEW a \in Accounts, NEW x \in Int
    PROVE  /\ Credit(d, a, x) \in Tables
           /\ Credit(d, a, x).users = d.users
           /\ Credit(d, a, x).purse = [d.purse EXCEPT ![a] = [i \in DOMAIN @ |-> @[i] + x]]
  <1> DEFINE rows == d.purse[a]
             new == [i \in DOMAIN rows |-> rows[i] + x]
  <1>1. rows \in Seq(Int)
    BY DEF Tables
  <1>2. new \in Seq(Int)
    <2>1. PICK n \in Nat : rows \in [1 .. n -> Int]
      BY <1>1
    <2>2. new \in [1 .. n -> Int]
      BY <2>1
    <2> QED BY <2>2
  <1>3. Credit(d, a, x) = [d EXCEPT !.purse = [d.purse EXCEPT ![a] = new]]
    BY DEF Credit, Tables
  <1> HIDE DEF new
  <1>4. [d.purse EXCEPT ![a] = new] \in [Accounts -> Seq(Int)]
    BY <1>2 DEF Tables
  <1>5. /\ Credit(d, a, x) \in Tables /\ Credit(d, a, x).users = d.users
        /\ Credit(d, a, x).purse = [d.purse EXCEPT ![a] = new]
    BY <1>3, <1>4 DEF Tables
  <1> QED BY <1>5 DEF new

(* The balance of an account is its first row. *)
Balance(d, a) == IF d.purse[a] = <<>> THEN 0 ELSE d.purse[a][1]

LEMMA CreditBalance ==
    ASSUME NEW d \in Tables, NEW a \in Accounts, NEW x \in Int
    PROVE  /\ Credit(d, a, x).purse[a] = <<>> <=> d.purse[a] = <<>>
           /\ d.purse[a] # <<>> => Balance(Credit(d, a, x), a) = Balance(d, a) + x
           /\ Balance(d, a) \in Int
  <1> DEFINE rows == d.purse[a]
             new == [i \in DOMAIN rows |-> rows[i] + x]
  <1>1. rows \in Seq(Int)
    BY DEF Tables
  <1>2. Credit(d, a, x).purse[a] = new
    <2>1. Credit(d, a, x).purse = [d.purse EXCEPT ![a] = new]
      BY CreditType
    <2> QED BY <2>1 DEF Tables
  <1>3. CASE rows = <<>>
    <2>1. new = <<>>
      BY <1>3
    <2> QED BY <1>2, <1>3, <2>1 DEF Balance
  <1>4. CASE rows # <<>>
    <2>1. PICK n \in Nat : rows \in [1 .. n -> Int]
      BY <1>1
    <2>2. n # 0
      <3> SUFFICES ASSUME n = 0 PROVE FALSE
        OBVIOUS
      <3>1. rows \in Seq(Int) /\ Len(rows) = 0
        BY <2>1
      <3> QED BY <3>1, <1>4, EmptySeq
    <2>3. 1 \in 1 .. n /\ DOMAIN rows = 1 .. n
      BY <2>1, <2>2
    <2>4. new[1] = rows[1] + x /\ rows[1] \in Int
      BY <2>1, <2>3
    <2>5. new # <<>>
      <3>1. DOMAIN new = 1 .. n
        BY <2>3
      <3>2. DOMAIN <<>> = {}
        OBVIOUS
      <3> HIDE DEF new
      <3> QED BY <2>3, <3>1, <3>2
    <2> QED BY <1>2, <1>4, <2>4, <2>5 DEF Balance
  <1> QED BY <1>3, <1>4

LEMMA AddPurseBalance ==
    ASSUME NEW d \in Tables, NEW a \in Accounts
    PROVE  AddPurse(d, a).purse[a] # <<>> /\ Balance(AddPurse(d, a), a) = Balance(d, a)
  <1>1. d.purse[a] \in Seq(Int)
    BY DEF Tables
  <1>2. AddPurse(d, a).purse[a] = Append(d.purse[a], 0)
    <2>1. AddPurse(d, a).purse = [d.purse EXCEPT ![a] = Append(@, 0)]
      BY AddPurseType
    <2> QED BY <2>1 DEF Tables
  <1>3. Append(d.purse[a], 0) # <<>>
    BY <1>1
  <1>4. Append(d.purse[a], 0)[1] = Balance(d, a)
    <2>1. CASE d.purse[a] = <<>>
      BY <2>1 DEF Balance
    <2>2. CASE d.purse[a] # <<>>
      <3>1. Len(d.purse[a]) \in Nat \ {0}
        BY <1>1, <2>2, EmptySeq
      <3> QED BY <1>1, <2>2, <3>1 DEF Balance
    <2> QED BY <2>1, <2>2
  <1> QED BY <1>2, <1>3, <1>4 DEF Balance

LEMMA Serving ==
    ASSUME ServiceInv, NEW w \in Workers
    PROVE  /\ req[w].op \in {"register", "change", "deposit", "none"}
           /\ req[w].op = "register" => /\ req[w] \in Underway /\ Acct(w) \in Accounts
                                        /\ req[w].pwd \in Passwords
           /\ req[w].op = "change" => /\ req[w] \in Change /\ Acct(w) \in Accounts
                                      /\ req[w].pwd \in Passwords
           /\ req[w].op = "deposit" => /\ req[w] \in Deposit /\ Acct(w) \in Accounts
                                       /\ req[w].total \in Int
           /\ pc[w] \in {"exists", "insert", "rowid", "purse"} => req[w].op = "register"
           /\ pc[w] = "change" => req[w].op = "change"
           /\ pc[w] \in {"auth", "credit"} => req[w].op = "deposit"
           /\ pc[w] = "ack" => req[w].op \in {"register", "deposit"}
           /\ pc[w] = "idle" => req[w].op = "none"
  <1>1. req[w] \in Served \cup {NoRequest} /\ Fits(pc[w], req[w])
    BY DEF ServiceInv
  <1>2. NoRequest.op = "none"
    BY DEF NoRequest
  <1> QED BY <1>1, <1>2, ServedType DEF Fits, Acct

-----------------------------------------------------------------------------
(* Type correctness. *)

LEMMA WorkerType ==
    ASSUME ServiceInv, NEW w \in Workers, NEW stage \in Stages,
           NEW r \in Served \cup {NoRequest}, Fits(stage, r),
           pc' = [pc EXCEPT ![w] = stage], req' = [req EXCEPT ![w] = r]
    PROVE  ServiceInv'
  BY DEF ServiceInv

LEMMA GoToType ==
    ASSUME ServiceInv, NEW w \in Workers, NEW stage \in Stages, Fits(stage, req[w]),
           GoTo(w, stage), UNCHANGED req
    PROVE  ServiceInv'
  BY DEF ServiceInv, GoTo

LEMMA ReturnType ==
    ASSUME ServiceInv, NEW w \in Workers, Return(w)
    PROVE  ServiceInv'
  <1>1. Fits("idle", NoRequest)
    BY DEF Fits, NoRequest
  <1>2. "idle" \in Stages
    BY DEF Stages
  <1> QED BY <1>1, <1>2, WorkerType DEF Return

(* The stage that follows fits the same request. *)
LEMMA NextStage ==
    ASSUME ServiceInv, NEW w \in Workers
    PROVE  /\ pc[w] = "exists" => Fits("insert", req[w])
           /\ pc[w] = "auth" => Fits("credit", req[w])
           /\ pc[w] \in {"purse", "credit"} => Fits("ack", req[w])
  BY DEF ServiceInv, Fits

LEMMA ExecType ==
    ASSUME TablesInv, NEW new \in Tables, IsFiniteSet(new.users), Exec(new)
    PROVE  TablesInv'
  BY DEF TablesInv, Exec

LEMMA TypeInit == Init => TypeInv
  <1> SUFFICES ASSUME Init PROVE TypeInv
    OBVIOUS
  <1>1. TablesInv
    <2>1. <<>> \in Seq(Int) /\ IsFiniteSet({})
      BY FS_EmptySet
    <2>2. [a \in Accounts |-> <<>>] \in [Accounts -> Seq(Int)]
      BY <2>1
    <2>3. db = [users |-> {}, purse |-> [a \in Accounts |-> <<>>]] /\ disk = db
      BY DEF Init, ConnInit
    <2>4. db \in Tables /\ db.users = {}
      BY <2>2, <2>3 DEF Tables
    <2>5. inTxn \in BOOLEAN /\ batch \in [Batchers -> {"idle", "open"}]
      BY DEF Init, ConnInit
    <2> QED BY <2>1, <2>3, <2>4, <2>5 DEF TablesInv
  <1>2. ServiceInv
    BY DEF Init, ServiceInv, Fits, Stages, NoRequest
  <1>3. HistoryInv
    BY DEF Init, HistoryInv, OtherRow
  <1> QED BY <1>1, <1>2, <1>3 DEF TypeInv

LEMMA TypeStep == TypeInv /\ [Next]_vars => TypeInv'
  <1> SUFFICES ASSUME TypeInv, [Next]_vars PROVE TypeInv'
    OBVIOUS
  <1> USE DEF TypeInv
  <1>1. ASSUME NEW w \in Workers, Receive(w) PROVE TypeInv'
    <2>1. PICK r \in Request :
            /\ req' = [req EXCEPT ![w] = r]
            /\ GoTo(w, CASE r.op = "register" -> "exists"
                         [] r.op = "change"   -> "change"
                         [] r.op = "deposit"  -> "auth")
            /\ early' \in {early, early \cup {r.acct}}
            /\ changed' \in {changed, changed \cup {r.acct}}
            /\ crossed' \in {crossed, crossed \cup {r.acct}}
      BY <1>1 DEF Receive
    <2>2. /\ r \in Served /\ r # NoRequest /\ r.acct \in Accounts
          /\ r.op \in {"register", "change", "deposit"}
      BY RequestType
    <2>3. PICK stage \in {"exists", "change", "auth"} :
            GoTo(w, stage) /\ Fits(stage, r)
      <3>1. CASE r.op = "register"
        BY <2>1, <2>2, <3>1 DEF Fits
      <3>2. CASE r.op = "change"
        BY <2>1, <2>2, <3>2 DEF Fits
      <3>3. CASE r.op = "deposit"
        BY <2>1, <2>2, <3>3 DEF Fits
      <3> QED BY <2>2, <3>1, <3>2, <3>3
    <2>4. ServiceInv'
      <3>1. stage \in Stages /\ pc' = [pc EXCEPT ![w] = stage]
        BY <2>3 DEF GoTo, Stages
      <3>2. r \in Served \cup {NoRequest} /\ Fits(stage, r) /\ req' = [req EXCEPT ![w] = r]
        BY <2>1, <2>2, <2>3
      <3> QED BY <3>1, <3>2, WorkerType
    <2>5. TablesInv'
      BY <1>1 DEF Receive, connVars, TablesInv
    <2>6. HistoryInv'
      BY <1>1, <2>1, <2>2 DEF Receive, HistoryInv
    <2> QED BY <2>4, <2>5, <2>6
  <1>2. ASSUME NEW w \in Workers, CheckExists(w) PROVE TypeInv'
    <2>1. pc[w] = "exists" /\ (Return(w) \/ (GoTo(w, "insert") /\ UNCHANGED req))
      BY <1>2 DEF CheckExists, Return, GoTo
    <2>2. ServiceInv'
      <3>1. Fits("insert", req[w]) /\ "insert" \in Stages
        BY <2>1, NextStage DEF Stages
      <3> QED BY <2>1, <3>1, ReturnType, GoToType
    <2>3. TablesInv' /\ HistoryInv'
      BY <1>2 DEF CheckExists, connVars, historyVars, boundVars, TablesInv, HistoryInv
    <2> QED BY <2>2, <2>3
  <1>3. ASSUME NEW w \in Workers, InsertUser(w) PROVE TypeInv'
    <2>1. /\ pc[w] = "insert" /\ req[w].op = "register" /\ Acct(w) \in Accounts
          /\ req[w].pwd \in Passwords /\ req[w] \in Underway
      BY <1>3, Serving DEF InsertUser
    <2>2. CASE Return(w) /\ UNCHANGED <<connVars, lastRowid>>
      <3>1. ServiceInv'
        BY <2>2, ReturnType
      <3>2. TablesInv' /\ HistoryInv'
        BY <1>3, <2>2 DEF InsertUser, connVars, historyVars, boundVars, TablesInv, HistoryInv
      <3> QED BY <3>1, <3>2
    <2>3. CASE /\ Exec(AddUser(db, Acct(w), req[w].pwd))
               /\ lastRowid' = NextId(db)
               /\ req' = [req EXCEPT ![w].row = NextId(db)]
               /\ GoTo(w, "rowid")
      <3>1. /\ AddUser(db, Acct(w), req[w].pwd) \in Tables /\ NextId(db) \in Nat
            /\ IsFiniteSet(AddUser(db, Acct(w), req[w].pwd).users)
        BY <2>1, AddUserType DEF TablesInv
      <3>2. TablesInv'
        BY <2>3, <3>1, ExecType
      <3>3. PICK r : r = [req[w] EXCEPT !.row = NextId(db)]
        OBVIOUS
      <3>4. r \in Underway /\ r.op = "register" /\ r # NoRequest
        BY <2>1, <3>1, <3>3 DEF Underway, NoRequest
      <3>5. req' = [req EXCEPT ![w] = r]
        BY <2>3, <3>3
      <3>6. ServiceInv'
        BY <2>3, <3>4, <3>5, WorkerType DEF GoTo, Fits, Stages, Served
      <3>7. HistoryInv'
        BY <1>3, <2>3, <3>1 DEF InsertUser, historyVars, boundVars, HistoryInv
      <3> QED BY <3>2, <3>6, <3>7
    <2> QED BY <1>3, <2>2, <2>3 DEF InsertUser
  <1>4. ASSUME NEW w \in Workers, ReadRowid(w) PROVE TypeInv'
    <2>1. pc[w] = "rowid" /\ req[w] \in Underway /\ lastRowid \in Nat
      BY <1>4, Serving DEF ReadRowid, HistoryInv
    <2>2. PICK r : r = [req[w] EXCEPT !.told = lastRowid]
      OBVIOUS
    <2>3. r \in Underway /\ r.op = "register" /\ r # NoRequest
      BY <2>1, <2>2 DEF Underway, NoRequest
    <2>4. req' = [req EXCEPT ![w] = r] /\ GoTo(w, "purse")
      BY <1>4, <2>2 DEF ReadRowid
    <2>5. ServiceInv'
      BY <2>3, <2>4, WorkerType DEF GoTo, Fits, Stages, Served
    <2>6. TablesInv' /\ HistoryInv'
      BY <1>4 DEF ReadRowid, connVars, historyVars, boundVars, TablesInv, HistoryInv
    <2> QED BY <2>5, <2>6
  <1>5. ASSUME NEW w \in Workers, InitAccount(w) PROVE TypeInv'
    <2>1. pc[w] = "purse" /\ GoTo(w, "ack") /\ UNCHANGED req
          /\ Acct(w) \in Accounts /\ req[w].op = "register"
      BY <1>5, Serving DEF InitAccount
    <2>2. ServiceInv'
      <3>1. Fits("ack", req[w]) /\ "ack" \in Stages
        BY <2>1, NextStage DEF Stages
      <3> QED BY <2>1, <3>1, GoToType
    <2>3. TablesInv'
      <3>1. CASE UNCHANGED connVars
        BY <3>1 DEF connVars, TablesInv
      <3>2. CASE Exec(AddPurse(db, Acct(w)))
        BY <2>1, <3>2, AddPurseType, ExecType DEF TablesInv
      <3> QED BY <1>5, <3>1, <3>2 DEF InitAccount
    <2>4. HistoryInv'
      BY <1>5 DEF InitAccount, historyVars, boundVars, OtherRow, HistoryInv
    <2> QED BY <2>2, <2>3, <2>4
  <1>6. ASSUME NEW w \in Workers, ChangePassword(w) PROVE TypeInv'
    <2>1. Acct(w) \in Accounts /\ req[w].pwd \in Passwords
      BY <1>6, Serving DEF ChangePassword
    <2>2. ServiceInv'
      BY <1>6, ReturnType DEF ChangePassword
    <2>3. TablesInv'
      <3>1. /\ SetPassword(db, Acct(w), req[w].pwd) \in Tables
            /\ IsFiniteSet(SetPassword(db, Acct(w), req[w].pwd).users)
        BY <2>1, SetPasswordType DEF TablesInv
      <3>2. Exec(SetPassword(db, Acct(w), req[w].pwd))
        BY <1>6 DEF ChangePassword
      <3> QED BY <3>1, <3>2, ExecType
    <2>4. HistoryInv'
      BY <1>6 DEF ChangePassword, historyVars, boundVars, HistoryInv
    <2> QED BY <2>2, <2>3, <2>4
  <1>7. ASSUME NEW w \in Workers, Authenticate(w) PROVE TypeInv'
    <2>1. pc[w] = "auth" /\ (Return(w) \/ (GoTo(w, "credit") /\ UNCHANGED req))
      BY <1>7 DEF Authenticate, Return, GoTo
    <2>2. ServiceInv'
      <3>1. Fits("credit", req[w]) /\ "credit" \in Stages
        BY <2>1, NextStage DEF Stages
      <3> QED BY <2>1, <3>1, ReturnType, GoToType
    <2>3. TablesInv' /\ HistoryInv'
      BY <1>7 DEF Authenticate, connVars, historyVars, boundVars, TablesInv, HistoryInv
    <2> QED BY <2>2, <2>3
  <1>8. ASSUME NEW w \in Workers, CreditPurse(w) PROVE TypeInv'
    <2>1. /\ pc[w] = "credit" /\ GoTo(w, "ack") /\ UNCHANGED req
          /\ Acct(w) \in Accounts /\ req[w].total \in Int /\ req[w].op = "deposit"
      BY <1>8, Serving DEF CreditPurse
    <2>2. ServiceInv'
      <3>1. Fits("ack", req[w]) /\ "ack" \in Stages
        BY <2>1, NextStage DEF Stages
      <3> QED BY <2>1, <3>1, GoToType
    <2>3. TablesInv'
      <3>1. Exec(Credit(db, Acct(w), req[w].total))
        BY <1>8 DEF CreditPurse
      <3>2. /\ Credit(db, Acct(w), req[w].total) \in Tables
            /\ IsFiniteSet(Credit(db, Acct(w), req[w].total).users)
        BY <2>1, CreditType DEF TablesInv
      <3> QED BY <3>1, <3>2, ExecType
    <2>4. HistoryInv'
      BY <1>8 DEF CreditPurse, historyVars, boundVars, HistoryInv
    <2> QED BY <2>2, <2>3, <2>4
  <1>9. ASSUME NEW w \in Workers, Respond(w) PROVE TypeInv'
    <2>1. /\ pc[w] = "ack" /\ req[w].op \in {"register", "deposit"} /\ Acct(w) \in Accounts
          /\ req[w].op = "register" => req[w] \in Underway
          /\ req[w].op = "deposit" => req[w].total \in Int
      BY <1>9, Serving DEF Respond
    <2>2. ServiceInv'
      BY <1>9, ReturnType DEF Respond
    <2>3. TablesInv'
      BY <1>9 DEF Respond, connVars, TablesInv
    <2>4. HistoryInv'
      <3>1. CASE req[w].op = "register"
        <4>1. [acct |-> Acct(w), pwd |-> req[w].pwd, row |-> req[w].row, told |-> req[w].told]
                \in [acct : Accounts, pwd : Passwords, row : Nat, told : Nat]
          BY <2>1, <3>1 DEF Underway
        <4> QED BY <1>9, <3>1, <4>1 DEF Respond, boundVars, HistoryInv
      <3>2. CASE req[w].op = "deposit"
        BY <1>9, <2>1, <3>2 DEF Respond, boundVars, HistoryInv
      <3> QED BY <2>1, <3>1, <3>2
    <2> QED BY <2>2, <2>3, <2>4
  <1>10. ASSUME NEW w \in Workers, StatementFails(w) PROVE TypeInv'
    <2>1. Acct(w) \in Accounts /\ (pc[w] = "purse" => req[w].op = "register")
      BY <1>10, Serving DEF StatementFails
    <2>2. ServiceInv'
      <3>1. Return(w) \/ (pc[w] = "purse" /\ GoTo(w, "ack") /\ UNCHANGED req)
        BY <1>10 DEF StatementFails, Return, GoTo
      <3>2. pc[w] = "purse" => Fits("ack", req[w]) /\ "ack" \in Stages
        BY NextStage DEF Stages
      <3> QED BY <3>1, <3>2, ReturnType, GoToType
    <2>3. TablesInv' /\ HistoryInv'
      BY <1>10, <2>1 DEF StatementFails, connVars, TablesInv, HistoryInv
    <2> QED BY <2>2, <2>3
  <1>11. CASE OtherInsert
    BY <1>11 DEF OtherInsert, connVars, historyVars, boundVars, OtherRow,
                 TablesInv, ServiceInv, HistoryInv
  <1>12. CASE Crash
    <2>1. ServiceInv'
      BY <1>12 DEF Crash, ServiceInv, Fits, Stages, NoRequest
    <2>2. TablesInv'
      BY <1>12 DEF Crash, Recover, TablesInv
    <2>3. \A w \in Workers : HalfDone(w) \/ (\E a \in Accounts : Owed(w, a) # 0)
                               => Acct(w) \in Accounts
      BY Serving DEF HalfDone, Owed
    <2>4. HistoryInv'
      BY <1>12, <2>3 DEF Crash, Unsaved, OtherRow, HistoryInv
    <2> QED BY <2>1, <2>2, <2>4
  <1>13. ASSUME NEW b \in Batchers, BackgroundBegin(b) PROVE TypeInv'
    BY <1>13 DEF BackgroundBegin, BeginBatch, historyVars, TablesInv, ServiceInv, HistoryInv
  <1>14. ASSUME NEW b \in Batchers, BackgroundCommit(b) PROVE TypeInv'
    BY <1>14 DEF BackgroundCommit, CommitBatch, regVars, historyVars, boundVars,
                 TablesInv, ServiceInv, HistoryInv
  <1>15. CASE UNCHANGED vars
    BY <1>15 DEF vars, connVars, regVars, historyVars, boundVars, TablesInv, ServiceInv,
                 HistoryInv
  <1> QED
    BY <1>1, <1>2, <1>3, <1>4, <1>5, <1>6, <1>7, <1>8, <1>9, <1>10, <1>11, <1>12, <1>13,
       <1>14, <1>15 DEF Next, Serve

LEMMA TypeInvariant == Spec => []TypeInv
  BY TypeInit, TypeStep, PTL DEF Spec

(* The shape of the state: the stage of a worker fits the request it serves. *)
THEOREM TypeCorrect == Spec => []TypeOK
  <1>1. TypeInv => TypeOK
    <2> SUFFICES ASSUME TypeInv PROVE TypeOK
      OBVIOUS
    <2>1. {received, faults, batches, crashes} \subseteq Nat
      BY DEF TypeInv, HistoryInv
    <2> QED BY <2>1 DEF TypeInv, TablesInv, ServiceInv, HistoryInv, Fits, TypeOK
  <1> QED BY <1>1, TypeInvariant, PTL

-----------------------------------------------------------------------------
(* What a step does to the users. *)

LEMMA AddedUsers ==
    ASSUME NEW d \in Tables, IsFiniteSet(d.users), NEW a \in Accounts, NEW p \in Passwords
    PROVE  /\ UsersOf(AddUser(d, a, p), a)
                = UsersOf(d, a) \cup {[id |-> NextId(d), acct |-> a, pwd |-> p]}
           /\ \A b \in Accounts \ {a} : UsersOf(AddUser(d, a, p), b) = UsersOf(d, b)
  BY AddUserType DEF UsersOf

LEMMA UpdatedUsers ==
    ASSUME NEW d \in Tables, IsFiniteSet(d.users), NEW a \in Accounts, NEW p \in Passwords
    PROVE  /\ UsersOf(SetPassword(d, a, p), a) = {Updated(u, a, p) : u \in UsersOf(d, a)}
           /\ \A b \in Accounts \ {a} : UsersOf(SetPassword(d, a, p), b) = UsersOf(d, b)
  <1>1. SetPassword(d, a, p).users = {Updated(u, a, p) : u \in d.users}
    BY SetPasswordType
  <1>2. \A u \in d.users : /\ Updated(u, a, p).acct = u.acct
                           /\ u.acct # a => Updated(u, a, p) = u
    BY DEF Tables, User, Updated
  <1> QED BY <1>1, <1>2 DEF UsersOf

(* What a worker's step other than Receive may do to its stage. *)
Ensues(s, t) ==
    \/ s = "exists" /\ t = "insert"
    \/ s = "insert" /\ t = "rowid"
    \/ s = "rowid" /\ t = "purse"
    \/ s = "purse" /\ t = "ack"
    \/ s = "auth" /\ t = "credit"
    \/ s = "credit" /\ t = "ack"

Leaves(w) == pc'[w] = "idle" /\ req'[w] = NoRequest /\ pc[w] \notin {"idle", "rowid", "purse"}

Goes(w) ==
    /\ Ensues(pc[w], pc'[w])
    /\ req'[w].op = req[w].op /\ req'[w].acct = req[w].acct /\ req'[w].pwd = req[w].pwd
    /\ req[w].op # "register" => req'[w] = req[w]

Others(w) == \A v \in Workers \ {w} : pc'[v] = pc[v] /\ req'[v] = req[v]

Grows ==
    /\ unique' = unique /\ answers \subseteq answers'
    /\ early \subseteq early' /\ changed \subseteq changed'
    /\ crossed \subseteq crossed' /\ tainted \subseteq tainted'

(* Of the steps of a worker: receiving, leaving, going on. *)
LEMMA LeaveStep ==
    ASSUME TypeInv, NEW w \in Workers, Return(w), pc[w] \notin {"idle", "rowid", "purse"}
    PROVE  Leaves(w) /\ Others(w)
  BY DEF TypeInv, ServiceInv, Return, Leaves, Others

LEMMA GoStep ==
    ASSUME TypeInv, NEW w \in Workers, NEW t, Ensues(pc[w], t), GoTo(w, t), UNCHANGED req
    PROVE  Goes(w) /\ Others(w)
  BY DEF TypeInv, ServiceInv, GoTo, Goes, Others

LEMMA NoteStep ==
    ASSUME TypeInv, NEW w \in Workers, NEW t, Ensues(pc[w], t), GoTo(w, t),
           req[w] \in Underway, NEW n \in Nat,
           \/ req' = [req EXCEPT ![w].row = n]
           \/ req' = [req EXCEPT ![w].told = n]
    PROVE  Goes(w) /\ Others(w)
  <1>1. pc'[w] = t /\ \A v \in Workers \ {w} : pc'[v] = pc[v] /\ req'[v] = req[v]
    BY DEF TypeInv, ServiceInv, GoTo
  <1>2. req'[w] \in {[req[w] EXCEPT !.row = n], [req[w] EXCEPT !.told = n]}
    BY DEF TypeInv, ServiceInv
  <1>3. /\ req'[w].op = "register" /\ req[w].op = "register"
        /\ req'[w].acct = req[w].acct /\ req'[w].pwd = req[w].pwd
    BY <1>2 DEF Underway
  <1> QED BY <1>1, <1>3 DEF Goes, Others

LEMMA ReceiveStep ==
    ASSUME TypeInv, NEW w \in Workers, Receive(w)
    PROVE  /\ Others(w) /\ Grows /\ UNCHANGED <<db, answers, credited, tainted>>
           /\ pc[w] = "idle" /\ req[w].op = "none"
           /\ pc'[w] \in {"exists", "change", "auth"}
           /\ \E r \in Request :
                /\ req'[w] = r
                /\ r.op = "deposit" => r.acct \in early' \/ Answered(r.acct)
                /\ r.op = "change" => r.acct \in changed'
                /\ r.op = "register" /\ Registering(r.acct) => r.acct \in crossed'
  <1>1. PICK r \in Request :
          /\ req' = [req EXCEPT ![w] = r]
          /\ GoTo(w, CASE r.op = "register" -> "exists"
                       [] r.op = "change"   -> "change"
                       [] r.op = "deposit"  -> "auth")
          /\ early' = IF r.op = "deposit" /\ ~Answered(r.acct) THEN early \cup {r.acct}
                                                               ELSE early
          /\ changed' = IF r.op = "change" THEN changed \cup {r.acct} ELSE changed
          /\ crossed' = IF r.op = "register" /\ Registering(r.acct)
                        THEN crossed \cup {r.acct} ELSE crossed
    BY DEF Receive
  <1>2. r.op \in {"register", "change", "deposit"}
    BY RequestType
  <1>3. PICK stage \in {"exists", "change", "auth"} : GoTo(w, stage)
    BY <1>1, <1>2
  <1>4. /\ pc'[w] = stage /\ req'[w] = r
        /\ \A v \in Workers \ {w} : pc'[v] = pc[v] /\ req'[v] = req[v]
    BY <1>1, <1>3 DEF TypeInv, ServiceInv, GoTo
  <1>5. pc[w] = "idle" /\ UNCHANGED <<db, unique, answers, credited, tainted>>
    BY DEF Receive, connVars
  <1>6. req[w].op = "none"
    BY <1>5, Serving DEF TypeInv
  <1>7. Others(w)
    BY <1>4 DEF Others
  <1>8. Grows
    BY <1>1, <1>5 DEF Grows
  <1>9. /\ r.op = "deposit" => r.acct \in early' \/ Answered(r.acct)
        /\ r.op = "change" => r.acct \in changed'
        /\ r.op = "register" /\ Registering(r.acct) => r.acct \in crossed'
    BY <1>1
  <1> QED BY <1>3, <1>4, <1>5, <1>6, <1>7, <1>8, <1>9

LEMMA WorkerStep ==
    ASSUME TypeInv, NEW w \in Workers, Serve(w), ~Receive(w)
    PROVE  /\ Others(w) /\ Grows /\ UNCHANGED <<early, changed, crossed>>
           /\ Leaves(w) \/ Goes(w)
  <1> USE DEF Ensues
  <1>1. CASE CheckExists(w)
    <2>1. pc[w] = "exists" /\ (Return(w) \/ (GoTo(w, "insert") /\ UNCHANGED req))
      BY <1>1 DEF CheckExists, Return, GoTo
    <2>2. Grows /\ UNCHANGED <<early, changed, crossed>>
      BY <1>1 DEF CheckExists, historyVars, Grows
    <2> QED BY <2>1, <2>2, LeaveStep, GoStep
  <1>2. CASE InsertUser(w)
    <2>1. pc[w] = "insert" /\ req[w] \in Underway
      BY <1>2, Serving DEF InsertUser, TypeInv
    <2>2. Grows /\ UNCHANGED <<early, changed, crossed>>
      BY <1>2 DEF InsertUser, historyVars, Grows
    <2>3. CASE Return(w)
      BY <2>1, <2>2, <2>3, LeaveStep
    <2>4. CASE req' = [req EXCEPT ![w].row = NextId(db)] /\ GoTo(w, "rowid")
      <3>1. NextId(db) \in Nat
        BY FS_CardinalityType DEF NextId, TypeInv, TablesInv
      <3>2. Goes(w) /\ Others(w)
        BY <2>1, <2>4, <3>1, NoteStep
      <3> QED BY <2>2, <3>2
    <2> QED BY <1>2, <2>3, <2>4 DEF InsertUser
  <1>3. CASE ReadRowid(w)
    <2>1. pc[w] = "rowid" /\ req[w] \in Underway /\ lastRowid \in Nat
      BY <1>3, Serving DEF ReadRowid, TypeInv, HistoryInv
    <2>2. Grows /\ UNCHANGED <<early, changed, crossed>>
      BY <1>3 DEF ReadRowid, historyVars, Grows
    <2>3. Goes(w) /\ Others(w)
      BY <1>3, <2>1, NoteStep DEF ReadRowid
    <2> QED BY <2>2, <2>3
  <1>4. CASE InitAccount(w)
    <2>1. pc[w] = "purse" /\ GoTo(w, "ack") /\ UNCHANGED req
      BY <1>4 DEF InitAccount
    <2>2. Grows /\ UNCHANGED <<early, changed, crossed>>
      BY <1>4 DEF InitAccount, historyVars, Grows
    <2> QED BY <2>1, <2>2, GoStep
  <1>5. CASE ChangePassword(w)
    <2>1. pc[w] = "change" /\ Return(w)
      BY <1>5 DEF ChangePassword
    <2>2. Grows /\ UNCHANGED <<early, changed, crossed>>
      BY <1>5 DEF ChangePassword, historyVars, Grows
    <2> QED BY <2>1, <2>2, LeaveStep
  <1>6. CASE Authenticate(w)
    <2>1. pc[w] = "auth" /\ (Return(w) \/ (GoTo(w, "credit") /\ UNCHANGED req))
      BY <1>6 DEF Authenticate, Return, GoTo
    <2>2. Grows /\ UNCHANGED <<early, changed, crossed>>
      BY <1>6 DEF Authenticate, historyVars, Grows
    <2> QED BY <2>1, <2>2, LeaveStep, GoStep
  <1>7. CASE CreditPurse(w)
    <2>1. pc[w] = "credit" /\ GoTo(w, "ack") /\ UNCHANGED req
      BY <1>7 DEF CreditPurse
    <2>2. Grows /\ UNCHANGED <<early, changed, crossed>>
      BY <1>7 DEF CreditPurse, historyVars, Grows
    <2> QED BY <2>1, <2>2, GoStep
  <1>8. CASE Respond(w)
    <2>1. pc[w] = "ack" /\ Return(w)
      BY <1>8 DEF Respond
    <2>2. Grows /\ UNCHANGED <<early, changed, crossed>>
      BY <1>8 DEF Respond, Grows
    <2> QED BY <2>1, <2>2, LeaveStep
  <1>9. CASE StatementFails(w)
    <2>1. \/ pc[w] \in {"insert", "change", "credit"} /\ Return(w)
          \/ (pc[w] = "purse" /\ GoTo(w, "ack") /\ UNCHANGED req)
      BY <1>9 DEF StatementFails, Return, GoTo
    <2>2. Grows /\ UNCHANGED <<early, changed, crossed>>
      BY <1>9 DEF StatementFails, Grows
    <2> QED BY <2>1, <2>2, LeaveStep, GoStep
  <1> QED
    BY <1>1, <1>2, <1>3, <1>4, <1>5, <1>6, <1>7, <1>8, <1>9 DEF Serve

(* The statement that adds the user row of account a... *)
Inserts(w, a) ==
    /\ pc[w] = "insert" /\ pc'[w] = "rowid" /\ Registers(w, a)
    /\ ~(unique["users"] /\ UsersOf(db, a) # {})
    /\ \E u : u.pwd = req[w].pwd /\ UsersOf(db, a)' = UsersOf(db, a) \cup {u}

(* ... and the one that changes the passwords of its rows. *)
Updates(w, a) ==
    /\ pc[w] = "change" /\ Acct(w) = a
    /\ \E f : UsersOf(db, a)' = {f[u] : u \in UsersOf(db, a)}

LEMMA UsersStep ==
    ASSUME TypeInv, NEW w \in Workers, Serve(w), NEW a \in Accounts
    PROVE  /\ UsersOf(db, a)' = UsersOf(db, a) \/ Inserts(w, a) \/ Updates(w, a)
           /\ pc[w] = "insert" /\ pc'[w] = "rowid" /\ Acct(w) = a => Inserts(w, a)
           /\ pc[w] = "exists" /\ pc'[w] = "insert" /\ Acct(w) = a => UsersOf(db, a) = {}
  <1>1. CASE InsertUser(w)
    <2>1. /\ pc[w] = "insert" /\ Acct(w) \in Accounts /\ req[w].pwd \in Passwords
          /\ req[w].op = "register"
      BY <1>1, Serving DEF InsertUser, TypeInv
    <2>2. CASE Return(w) /\ UNCHANGED connVars
      <3>1. pc'[w] = "idle"
        BY <2>2 DEF Return, TypeInv, ServiceInv
      <3>2. UsersOf(db, a)' = UsersOf(db, a)
        BY <2>2 DEF connVars, UsersOf
      <3> QED BY <2>1, <3>1, <3>2
    <2>3. CASE /\ ~(unique["users"] /\ UsersOf(db, Acct(w)) # {})
               /\ Exec(AddUser(db, Acct(w), req[w].pwd)) /\ GoTo(w, "rowid")
      <3> DEFINE u == [id |-> NextId(db), acct |-> Acct(w), pwd |-> req[w].pwd]
      <3>1. db' = AddUser(db, Acct(w), req[w].pwd)
        BY <2>3 DEF Exec
      <3>2. /\ UsersOf(AddUser(db, Acct(w), req[w].pwd), Acct(w))
                 = UsersOf(db, Acct(w)) \cup {u}
            /\ \A b \in Accounts \ {Acct(w)} :
                 UsersOf(AddUser(db, Acct(w), req[w].pwd), b) = UsersOf(db, b)
        BY <2>1, AddedUsers DEF TypeInv, TablesInv
      <3>3. pc'[w] = "rowid"
        BY <2>3 DEF GoTo, TypeInv, ServiceInv
      <3>4. CASE Acct(w) = a
        <4>1. UsersOf(db, a)' = UsersOf(db, a) \cup {u}
          BY <3>1, <3>2, <3>4 DEF UsersOf
        <4>2. u.pwd = req[w].pwd
          OBVIOUS
        <4> HIDE DEF u
        <4>3. Inserts(w, a)
          BY <2>1, <2>3, <3>3, <3>4, <4>1, <4>2 DEF Inserts, Registers
        <4> QED BY <2>1, <4>3
      <3>5. CASE Acct(w) # a
        <4>1. UsersOf(db, a)' = UsersOf(db, a)
          BY <3>1, <3>2, <3>5 DEF UsersOf
        <4> QED BY <2>1, <3>5, <4>1
      <3> QED BY <3>4, <3>5
    <2> QED BY <1>1, <2>2, <2>3 DEF InsertUser
  <1>2. CASE ChangePassword(w)
    <2>1. pc[w] = "change" /\ Acct(w) \in Accounts /\ req[w].pwd \in Passwords
      BY <1>2, Serving DEF ChangePassword, TypeInv
    <2>2. db' = SetPassword(db, Acct(w), req[w].pwd)
      BY <1>2 DEF ChangePassword, Exec
    <2>3. /\ UsersOf(SetPassword(db, Acct(w), req[w].pwd), Acct(w))
               = {Updated(u, Acct(w), req[w].pwd) : u \in UsersOf(db, Acct(w))}
          /\ \A b \in Accounts \ {Acct(w)} :
               UsersOf(SetPassword(db, Acct(w), req[w].pwd), b) = UsersOf(db, b)
      BY <2>1, UpdatedUsers DEF TypeInv, TablesInv
    <2>4. CASE Acct(w) = a
      <3> DEFINE f == [u \in UsersOf(db, a) |-> Updated(u, a, req[w].pwd)]
      <3>1. UsersOf(db, a)' = {Updated(u, a, req[w].pwd) : u \in UsersOf(db, a)}
        BY <2>2, <2>3, <2>4 DEF UsersOf
      <3>2. UsersOf(db, a)' = {f[u] : u \in UsersOf(db, a)}
        BY <3>1
      <3> HIDE DEF f
      <3>3. Updates(w, a)
        BY <2>1, <2>4, <3>2 DEF Updates
      <3> QED BY <2>1, <3>3
    <2>5. CASE Acct(w) # a
      <3>1. UsersOf(db, a)' = UsersOf(db, a)
        BY <2>2, <2>3, <2>5 DEF UsersOf
      <3> QED BY <2>1, <3>1
    <2> QED BY <2>4, <2>5
  <1>3. CASE InitAccount(w)
    <2>1. pc[w] = "purse" /\ Acct(w) \in Accounts
      BY <1>3, Serving DEF InitAccount, TypeInv
    <2>2. db'.users = db.users
      <3>1. CASE UNCHANGED connVars
        BY <3>1 DEF connVars
      <3>2. CASE Exec(AddPurse(db, Acct(w)))
        BY <2>1, <3>2, AddPurseType DEF Exec, TypeInv, TablesInv
      <3> QED BY <1>3, <3>1, <3>2 DEF InitAccount
    <2> QED BY <2>1, <2>2 DEF UsersOf
  <1>4. CASE CreditPurse(w)
    <2>1. pc[w] = "credit" /\ Acct(w) \in Accounts /\ req[w].total \in Int
      BY <1>4, Serving DEF CreditPurse, TypeInv
    <2>2. db'.users = db.users
      BY <1>4, <2>1, CreditType DEF CreditPurse, Exec, TypeInv, TablesInv
    <2> QED BY <2>1, <2>2 DEF UsersOf
  <1>5. CASE CheckExists(w)
    <2>1. pc[w] = "exists" /\ UsersOf(db, a)' = UsersOf(db, a)
      BY <1>5 DEF CheckExists, connVars, UsersOf
    <2>2. CASE UsersOf(db, Acct(w)) # {}
      <3>1. pc'[w] = "idle"
        BY <1>5, <2>2 DEF CheckExists, Taken, Return, TypeInv, ServiceInv
      <3> QED BY <2>1, <3>1
    <2>3. CASE UsersOf(db, Acct(w)) = {}
      BY <2>1, <2>3
    <2> QED BY <2>2, <2>3
  <1>6. CASE Receive(w) \/ ReadRowid(w) \/ Authenticate(w) \/ Respond(w)
    <2>1. pc[w] \in {"idle", "rowid", "auth", "ack"} /\ UNCHANGED db
      BY <1>6 DEF Receive, ReadRowid, Authenticate, Respond, connVars
    <2> QED BY <2>1 DEF UsersOf
  <1>7. CASE StatementFails(w)
    <2>1. pc[w] \in {"insert", "purse", "change", "credit"} /\ UNCHANGED db
      BY <1>7 DEF StatementFails, connVars
    <2>2. pc[w] = "insert" => pc'[w] = "idle"
      BY <1>7 DEF StatementFails, Return, TypeInv, ServiceInv
    <2> QED BY <2>1, <2>2 DEF UsersOf
  <1> QED BY <1>1, <1>2, <1>3, <1>4, <1>5, <1>6, <1>7 DEF Serve

(* The answer to a registration. *)
LEMMA AnswersStep ==
    ASSUME TypeInv, NEW w \in Workers, Serve(w)
    PROVE  \/ answers' = answers
           \/ /\ pc[w] = "ack" /\ pc'[w] = "idle" /\ req[w].op = "register" /\ db' = db
              /\ \E r : /\ r.acct = Acct(w) /\ r.pwd = req[w].pwd
                        /\ answers' = answers \cup {r}
  <1>1. CASE Respond(w)
    <2>1. CASE req[w].op = "register"
      <3> DEFINE r == [acct |-> Acct(w), pwd |-> req[w].pwd,
                       row |-> req[w].row, told |-> req[w].told]
      <3>1. answers' = answers \cup {r} /\ pc[w] = "ack" /\ db' = db
        BY <1>1, <2>1 DEF Respond, connVars
      <3>2. pc'[w] = "idle"
        BY <1>1 DEF Respond, Return, TypeInv, ServiceInv
      <3>3. r.acct = Acct(w) /\ r.pwd = req[w].pwd
        OBVIOUS
      <3> HIDE DEF r
      <3> QED BY <2>1, <3>1, <3>2, <3>3
    <2> QED BY <1>1, <2>1 DEF Respond
  <1>2. CASE ~Respond(w)
    BY <1>2 DEF Serve, Receive, CheckExists, InsertUser, ReadRowid, InitAccount,
                ChangePassword, Authenticate, CreditPurse, StatementFails, historyVars
  <1> QED BY <1>1, <1>2

-----------------------------------------------------------------------------
(* What a step does to the purses. *)

Opens(w, a) ==
    /\ pc[w] = "purse" /\ pc'[w] = "ack" /\ Registers(w, a)
    /\ db'.purse[a] # <<>> /\ Balance(db, a)' = Balance(db, a)

Credits(w, a) ==
    /\ pc[w] = "credit" /\ pc'[w] = "ack" /\ Acct(w) = a
    /\ db'.purse[a] = <<>> <=> db.purse[a] = <<>>
    /\ db.purse[a] # <<>> => Balance(db, a)' = Balance(db, a) + req[w].total

LEMMA PurseStep ==
    ASSUME TypeInv, NEW w \in Workers, Serve(w), NEW a \in Accounts
    PROVE  /\ db'.purse[a] = db.purse[a] \/ Opens(w, a) \/ Credits(w, a)
           /\ pc[w] = "purse" /\ Acct(w) = a => a \in tainted' \/ db'.purse[a] # <<>>
           /\ pc[w] = "credit" /\ pc'[w] = "ack" /\ Acct(w) = a => Credits(w, a)
  <1> USE DEF TypeInv
  <1>1. CASE InitAccount(w)
    <2>1. pc[w] = "purse" /\ Registers(w, Acct(w)) /\ Acct(w) \in Accounts
      BY <1>1, Serving DEF InitAccount, Registers
    <2>2. pc'[w] = "ack"
      BY <1>1 DEF InitAccount, GoTo, ServiceInv
    <2>3. CASE UNCHANGED connVars /\ db.purse[Acct(w)] # <<>>
      BY <2>1, <2>3 DEF connVars
    <2>4. CASE Exec(AddPurse(db, Acct(w)))
      <3>1. db' = AddPurse(db, Acct(w)) /\ db \in Tables
        BY <2>4 DEF Exec, TablesInv
      <3>2. AddPurse(db, Acct(w)).purse = [db.purse EXCEPT ![Acct(w)] = Append(@, 0)]
        BY <2>1, <3>1, AddPurseType
      <3>3. CASE Acct(w) = a
        <4>1. /\ AddPurse(db, a).purse[a] # <<>>
              /\ Balance(AddPurse(db, a), a) = Balance(db, a)
          BY <3>1, AddPurseBalance
        <4>2. db' = AddPurse(db, a)
          BY <3>1, <3>3
        <4>3. db'.purse[a] # <<>> /\ Balance(db, a)' = Balance(db, a)
          BY <4>1, <4>2 DEF Balance
        <4> QED BY <2>1, <2>2, <3>3, <4>3 DEF Opens
      <3>4. CASE Acct(w) # a
        <4>1. db'.purse[a] = db.purse[a]
          BY <3>1, <3>2, <3>4 DEF Tables
        <4> QED BY <2>1, <3>4, <4>1
      <3> QED BY <3>3, <3>4
    <2> QED BY <1>1, <2>3, <2>4 DEF InitAccount
  <1>2. CASE CreditPurse(w)
    <2>1. pc[w] = "credit" /\ Acct(w) \in Accounts /\ req[w].total \in Int
      BY <1>2, Serving DEF CreditPurse
    <2>2. pc'[w] = "ack"
      BY <1>2 DEF CreditPurse, GoTo, ServiceInv
    <2>3. db' = Credit(db, Acct(w), req[w].total) /\ db \in Tables
      BY <1>2 DEF CreditPurse, Exec, TablesInv
    <2>4. CASE Acct(w) = a
      <3>1. /\ Credit(db, a, req[w].total).purse[a] = <<>> <=> db.purse[a] = <<>>
            /\ db.purse[a] # <<>> =>
                 Balance(Credit(db, a, req[w].total), a) = Balance(db, a) + req[w].total
        BY <2>1, <2>3, CreditBalance
      <3>2. db' = Credit(db, a, req[w].total)
        BY <2>3, <2>4
      <3>3. /\ db'.purse[a] = <<>> <=> db.purse[a] = <<>>
            /\ db.purse[a] # <<>> => Balance(db, a)' = Balance(db, a) + req[w].total
        BY <3>1, <3>2 DEF Balance
      <3>4. Credits(w, a)
        BY <2>1, <2>2, <2>4, <3>3 DEF Credits
      <3> QED BY <2>1, <3>4
    <2>5. CASE Acct(w) # a
      <3>1. Credit(db, Acct(w), req[w].total).purse
              = [db.purse EXCEPT ![Acct(w)] = [i \in DOMAIN @ |-> @[i] + req[w].total]]
        BY <2>1, <2>3, CreditType
      <3>2. db'.purse[a] = db.purse[a]
        BY <2>3, <2>5, <3>1 DEF Tables
      <3> QED BY <2>1, <2>5, <3>2
    <2> QED BY <2>4, <2>5
  <1>3. CASE InsertUser(w)
    <2>1. /\ pc[w] = "insert" /\ Acct(w) \in Accounts /\ req[w].pwd \in Passwords
      BY <1>3, Serving DEF InsertUser
    <2>2. db'.purse = db.purse
      <3>1. CASE UNCHANGED connVars
        BY <3>1 DEF connVars
      <3>2. CASE Exec(AddUser(db, Acct(w), req[w].pwd))
        BY <2>1, <3>2, AddUserType DEF Exec, TablesInv
      <3> QED BY <1>3, <3>1, <3>2 DEF InsertUser
    <2> QED BY <2>1, <2>2
  <1>4. CASE ChangePassword(w)
    <2>1. pc[w] = "change" /\ Acct(w) \in Accounts /\ req[w].pwd \in Passwords
      BY <1>4, Serving DEF ChangePassword
    <2>2. db'.purse = db.purse
      BY <1>4, <2>1, SetPasswordType DEF ChangePassword, Exec, TablesInv
    <2> QED BY <2>1, <2>2
  <1>5. CASE Receive(w) \/ CheckExists(w) \/ ReadRowid(w) \/ Authenticate(w) \/ Respond(w)
    <2>1. pc[w] \in {"idle", "exists", "rowid", "auth", "ack"} /\ UNCHANGED db
      BY <1>5 DEF Receive, CheckExists, ReadRowid, Authenticate, Respond, connVars
    <2> QED BY <2>1
  <1>6. CASE StatementFails(w)
    <2>1. UNCHANGED db
      BY <1>6 DEF StatementFails, connVars
    <2>2. pc[w] = "purse" => Acct(w) \in tainted'
      BY <1>6 DEF StatementFails
    <2>3. pc[w] = "credit" => pc'[w] = "idle"
      BY <1>6 DEF StatementFails, Return, ServiceInv
    <2> QED BY <2>1, <2>2, <2>3
  <1> QED BY <1>1, <1>2, <1>3, <1>4, <1>5, <1>6 DEF Serve

(* The confirmation of a deposit. *)
LEMMA CreditedStep ==
    ASSUME TypeInv, NEW w \in Workers, Serve(w), NEW a \in Accounts
    PROVE  /\ pc[w] = "ack" /\ req[w].op = "deposit" /\ Acct(w) = a =>
                credited'[a] = credited[a] + req[w].total
           /\ ~(pc[w] = "ack" /\ req[w].op = "deposit" /\ Acct(w) = a) =>
                credited'[a] = credited[a]
           /\ pc[w] = "ack" => pc'[w] = "idle" /\ UNCHANGED db
  <1>1. CASE Respond(w)
    <2>1. req[w].op \in {"register", "deposit"} /\ Acct(w) \in Accounts /\ pc[w] = "ack"
      BY <1>1, Serving DEF Respond, TypeInv
    <2>2. pc'[w] = "idle" /\ UNCHANGED db
      BY <1>1 DEF Respond, Return, connVars, TypeInv, ServiceInv
    <2>3. CASE req[w].op = "register"
      BY <1>1, <2>2, <2>3 DEF Respond
    <2>4. CASE req[w].op = "deposit"
      <3>1. credited' = [credited EXCEPT ![Acct(w)] = @ + req[w].total]
        BY <1>1, <2>4 DEF Respond
      <3> QED BY <2>1, <2>2, <2>4, <3>1 DEF TypeInv, HistoryInv
    <2> QED BY <2>1, <2>3, <2>4
  <1>2. CASE ~Respond(w)
    <2>1. pc[w] # "ack" /\ UNCHANGED credited
      BY <1>2 DEF Serve, Receive, CheckExists, InsertUser, ReadRowid, InitAccount,
                  ChangePassword, Authenticate, CreditPurse, StatementFails, historyVars
    <2> QED BY <2>1
  <1> QED BY <1>1, <1>2

-----------------------------------------------------------------------------
(* The steps that are no worker's. *)

LEMMA OtherStep ==
    ASSUME TypeInv, [Next]_vars, ~Crash, ~ \E w \in Workers : Serve(w)
    PROVE  UNCHANGED <<db, unique, pc, req, historyVars>>
  <1>1. CASE OtherInsert
    BY <1>1 DEF OtherInsert, connVars
  <1>2. ASSUME NEW b \in Batchers, BackgroundBegin(b) \/ BackgroundCommit(b)
        PROVE  UNCHANGED <<db, unique, pc, req, historyVars>>
    BY <1>2 DEF BackgroundBegin, BackgroundCommit, BeginBatch, CommitBatch, regVars
  <1>3. CASE UNCHANGED vars
    BY <1>3 DEF vars, connVars, regVars
  <1> QED BY <1>1, <1>2, <1>3 DEF Next

(* A crash leaves an account it did not taint as it was, with nobody serving it. *)
LEMMA CrashStep ==
    ASSUME TypeInv, Crash
    PROVE  /\ \A w \in Workers : pc'[w] = "idle" /\ req'[w] = NoRequest
           /\ tainted \subseteq tainted'
           /\ UNCHANGED <<unique, answers, credited, early, changed, crossed>>
           /\ \A a \in Accounts \ tainted' :
                /\ UsersOf(db, a)' = UsersOf(db, a) /\ db'.purse[a] = db.purse[a]
                /\ \A w \in Workers : HalfDone(w) => Acct(w) # a
                /\ \A w \in Workers : Owed(w, a) = 0
  <1>1. \A w \in Workers : pc'[w] = "idle" /\ req'[w] = NoRequest
    BY DEF Crash
  <1>2. /\ UNCHANGED <<unique, answers, credited, early, changed, crossed>>
        /\ tainted \subseteq tainted' /\ db' = disk /\ Unsaved \subseteq tainted'
    BY DEF Crash, Recover
  <1>3. \A w \in Workers : HalfDone(w) \/ (\E a \in Accounts : Owed(w, a) # 0)
                             => Acct(w) \in tainted'
    BY DEF Crash
  <1>4. ASSUME NEW a \in Accounts \ tainted'
        PROVE  /\ UsersOf(db, a)' = UsersOf(db, a) /\ db'.purse[a] = db.purse[a]
               /\ \A w \in Workers : HalfDone(w) => Acct(w) # a
               /\ \A w \in Workers : Owed(w, a) = 0
    <2>1. UsersOf(db, a) = UsersOf(disk, a) /\ db.purse[a] = disk.purse[a]
      BY <1>2, <1>4 DEF Unsaved
    <2>2. UsersOf(db, a)' = UsersOf(disk, a)
      BY <1>2 DEF UsersOf
    <2>3. \A w \in Workers : Owed(w, a) # 0 => Acct(w) = a
      BY DEF Owed
    <2> QED BY <1>2, <1>3, <1>4, <2>1, <2>2, <2>3
  <1> QED BY <1>1, <1>2, <1>4

-----------------------------------------------------------------------------
(* Who is writing, and what is found there. *)

(* Of a step of w that is not Receive: who registers now registered before. *)
LEMMA RegistersBefore ==
    ASSUME TypeInv, NEW w \in Workers, Others(w), Leaves(w) \/ Goes(w),
           NEW v \in Workers, NEW a \in Accounts
    PROVE  /\ Registers(v, a)' => Registers(v, a)
           /\ Registers(v, a)' => req'[v].pwd = req[v].pwd
           /\ v # w => (Wrote(v, a)' <=> Wrote(v, a))
           /\ Wrote(v, a)' =>
                Wrote(v, a) \/ (v = w /\ pc[w] = "insert" /\ pc'[w] = "rowid" /\ Acct(w) = a)
  <1>1. NoRequest.op = "none"
    BY DEF NoRequest
  <1>2. CASE v # w
    BY <1>2 DEF Others, Registers, Wrote, Acct
  <1>3. CASE v = w /\ Leaves(w)
    BY <1>1, <1>3 DEF Leaves, Registers, Wrote, Acct
  <1>4. CASE v = w /\ Goes(w)
    <2>1. pc[w] \in {"auth", "credit"} => req[w].op = "deposit"
      BY Serving DEF TypeInv
    <2> QED BY <1>4, <2>1 DEF Goes, Ensues, Registers, Wrote, Acct
  <1> QED BY <1>2, <1>3, <1>4

(* No row of users is ever deleted. *)
LEMMA UsersStay ==
    ASSUME TypeInv, NEW w \in Workers, Serve(w), NEW a \in Accounts, UsersOf(db, a) # {}
    PROVE  UsersOf(db, a)' # {}
  <1>1. CASE Inserts(w, a)
    BY <1>1 DEF Inserts
  <1>2. CASE Updates(w, a)
    BY <1>2 DEF Updates
  <1> QED BY <1>1, <1>2, UsersStep

LEMMA WritingStep ==
    ASSUME TypeInv, Writing, [Next]_vars
    PROVE  Writing'
  <1> SUFFICES ASSUME NEW a \in Accounts
               PROVE  /\ \A v \in Workers : Wrote(v, a)' => UsersOf(db, a)' # {}
                      /\ ~unique'["users"] /\ a \notin crossed' =>
                           /\ \A u, v \in Workers :
                                Registers(u, a)' /\ Registers(v, a)' => u = v
                           /\ \A v \in Workers :
                                pc'[v] = "insert" /\ req'[v].acct = a => UsersOf(db, a)' = {}
    BY DEF Writing, Acct
  <1>1. /\ \A v \in Workers : Wrote(v, a) => UsersOf(db, a) # {}
        /\ ~unique["users"] /\ a \notin crossed =>
             /\ \A u, v \in Workers : Registers(u, a) /\ Registers(v, a) => u = v
             /\ \A v \in Workers : pc[v] = "insert" /\ req[v].acct = a => UsersOf(db, a) = {}
    BY DEF Writing, Acct
  <1>2. CASE Crash
    <2>1. \A w \in Workers : pc'[w] = "idle" /\ req'[w] = NoRequest
      BY <1>2, CrashStep
    <2>2. NoRequest.op = "none"
      BY DEF NoRequest
    <2> QED BY <2>1, <2>2 DEF Wrote, Registers
  <1>3. ASSUME NEW w \in Workers, Receive(w)
        PROVE  /\ \A v \in Workers : Wrote(v, a)' => UsersOf(db, a)' # {}
               /\ ~unique'["users"] /\ a \notin crossed' =>
                    /\ \A u, v \in Workers :
                         Registers(u, a)' /\ Registers(v, a)' => u = v
                    /\ \A v \in Workers :
                         pc'[v] = "insert" /\ req'[v].acct = a => UsersOf(db, a)' = {}
    <2>1. /\ Others(w) /\ Grows /\ UNCHANGED db
          /\ pc[w] = "idle" /\ pc'[w] \in {"exists", "change", "auth"}
      BY <1>3, ReceiveStep
    <2>2. PICK r \in Request : /\ req'[w] = r
                               /\ r.op = "register" /\ Registering(r.acct) => r.acct \in crossed'
      BY <1>3, ReceiveStep
    <2>3. UsersOf(db, a)' = UsersOf(db, a)
      BY <2>1 DEF UsersOf
    <2>4. \A v \in Workers \ {w} : /\ Wrote(v, a)' <=> Wrote(v, a)
                                   /\ Registers(v, a)' <=> Registers(v, a)
                                   /\ pc'[v] = pc[v] /\ req'[v] = req[v]
      BY <2>1 DEF Others, Wrote, Registers, Acct
    <2>5. ~Wrote(w, a)' /\ pc'[w] # "insert"
      BY <2>1 DEF Wrote
    <2>6. ASSUME ~unique'["users"], a \notin crossed'
          PROVE  \A u, v \in Workers : Registers(u, a)' /\ Registers(v, a)' => u = v
      <3>1. Registers(w, a)' => ~Registering(a)
        BY <2>2, <2>6 DEF Registers, Acct
      <3>2. Registers(w, a)' => \A v \in Workers : ~Registers(v, a)
        BY <3>1 DEF Registering, Registers
      <3>3. \A u, v \in Workers : Registers(u, a) /\ Registers(v, a) => u = v
        BY <1>1, <2>1, <2>6 DEF Grows
      <3> QED BY <2>4, <3>2, <3>3
    <2> QED BY <1>1, <2>1, <2>3, <2>4, <2>5, <2>6 DEF Grows
  <1>4. ASSUME NEW w \in Workers, Serve(w), ~Receive(w)
        PROVE  /\ \A v \in Workers : Wrote(v, a)' => UsersOf(db, a)' # {}
               /\ ~unique'["users"] /\ a \notin crossed' =>
                    /\ \A u, v \in Workers :
                         Registers(u, a)' /\ Registers(v, a)' => u = v
                    /\ \A v \in Workers :
                         pc'[v] = "insert" /\ req'[v].acct = a => UsersOf(db, a)' = {}
    <2>1. Others(w) /\ Grows /\ (Leaves(w) \/ Goes(w))
      BY <1>4, WorkerStep
    <2>2. /\ UsersOf(db, a)' = UsersOf(db, a) \/ Inserts(w, a) \/ Updates(w, a)
          /\ pc[w] = "insert" /\ pc'[w] = "rowid" /\ Acct(w) = a => Inserts(w, a)
          /\ pc[w] = "exists" /\ pc'[w] = "insert" /\ Acct(w) = a => UsersOf(db, a) = {}
      BY <1>4, UsersStep
    <2>3. ASSUME NEW v \in Workers, Wrote(v, a)' PROVE UsersOf(db, a)' # {}
      <3>1. \/ Wrote(v, a)
            \/ (v = w /\ pc[w] = "insert" /\ pc'[w] = "rowid" /\ Acct(w) = a)
        BY <2>1, <2>3, RegistersBefore
      <3>2. CASE Wrote(v, a)
        BY <1>1, <1>4, <3>2, UsersStay
      <3>3. CASE Inserts(w, a)
        BY <3>3 DEF Inserts
      <3> QED BY <2>2, <3>1, <3>2, <3>3
    <2>4. ASSUME ~unique'["users"], a \notin crossed'
          PROVE  /\ \A u, v \in Workers : Registers(u, a)' /\ Registers(v, a)' => u = v
                 /\ \A v \in Workers :
                      pc'[v] = "insert" /\ req'[v].acct = a => UsersOf(db, a)' = {}
      <3>1. ~unique["users"] /\ a \notin crossed
        BY <2>1, <2>4 DEF Grows
      <3>2. \A u, v \in Workers : Registers(u, a)' /\ Registers(v, a)' => u = v
        BY <1>1, <2>1, <3>1, RegistersBefore
      <3>3. ASSUME NEW v \in Workers, pc'[v] = "insert", req'[v].acct = a
            PROVE  UsersOf(db, a)' = {}
        <4>1. UsersOf(db, a) = {} /\ Registers(v, a)
          <5>1. CASE v # w
            <6>1. pc[v] = "insert" /\ Acct(v) = a
              BY <2>1, <3>3, <5>1 DEF Others, Acct
            <6>2. req[v].op = "register"
              BY <6>1, Serving DEF TypeInv
            <6> QED BY <1>1, <3>1, <6>1, <6>2 DEF Registers, Acct
          <5>2. CASE v = w
            <6>1. Goes(w) /\ pc[w] = "exists" /\ Acct(w) = a
              BY <2>1, <3>3, <5>2 DEF Leaves, Goes, Ensues, Acct
            <6>2. req[w].op = "register"
              BY <6>1, Serving DEF TypeInv
            <6> QED BY <2>2, <3>3, <5>2, <6>1, <6>2 DEF Registers
          <5> QED BY <5>1, <5>2
        <4>2. ~Inserts(w, a)
          <5> SUFFICES ASSUME Inserts(w, a) PROVE FALSE
            OBVIOUS
          <5>1. Registers(w, a) /\ pc'[w] = "rowid"
            BY DEF Inserts
          <5>2. v = w
            BY <1>1, <3>1, <4>1, <5>1
          <5> QED BY <3>3, <5>1, <5>2
        <4>3. CASE Updates(w, a)
          BY <4>1, <4>3 DEF Updates
        <4> QED BY <2>2, <4>1, <4>2, <4>3
      <3> QED BY <3>2, <3>3
    <2> QED BY <2>3, <2>4
  <1>5. CASE ~Crash /\ ~ \E w \in Workers : Serve(w)
    <2>1. UNCHANGED <<db, unique, pc, req, crossed>>
      BY <1>5, OtherStep DEF historyVars
    <2>2. /\ UsersOf(db, a)' = UsersOf(db, a)
          /\ \A v \in Workers : /\ Wrote(v, a)' <=> Wrote(v, a)
                                /\ Registers(v, a)' <=> Registers(v, a)
      BY <2>1 DEF UsersOf, Wrote, Registers, Acct
    <2> QED BY <1>1, <2>1, <2>2
  <1> QED BY <1>2, <1>3, <1>4, <1>5

-----------------------------------------------------------------------------
(* A purse for each user. *)

LEMMA PurseKept ==
    ASSUME TypeInv, NEW w \in Workers, Serve(w), NEW a \in Accounts, db.purse[a] # <<>>
    PROVE  db'.purse[a] # <<>>
  BY PurseStep DEF Opens, Credits

LEMMA PurseOfStep ==
    ASSUME TypeInv, Writing, [Next]_vars, NEW a \in Accounts, a \notin tainted',
           a \notin tainted => PurseOf(a)
    PROVE  PurseOf(a)'
  <1> SUFFICES
        /\ UsersOf(db, a)' # {} =>
             db'.purse[a] # <<>> \/ \E w \in Workers : HalfDone(w)' /\ req'[w].acct = a
        /\ db'.purse[a] # <<>> => UsersOf(db, a)' # {}
        /\ Answered(a)' => db'.purse[a] # <<>>
        /\ \A w \in Workers : pc'[w] = "ack" /\ Registers(w, a)' => db'.purse[a] # <<>>
    BY DEF PurseOf, Acct
  <1>1. CASE Crash
    <2>1. /\ \A w \in Workers : pc'[w] = "idle" /\ req'[w] = NoRequest
          /\ tainted \subseteq tainted' /\ UNCHANGED answers
          /\ UsersOf(db, a)' = UsersOf(db, a) /\ db'.purse[a] = db.purse[a]
          /\ \A w \in Workers : HalfDone(w) => Acct(w) # a
      BY <1>1, CrashStep
    <2>2. PurseOf(a)
      BY <2>1
    <2>3. Answered(a)' <=> Answered(a)
      BY <2>1 DEF Answered
    <2> QED BY <2>1, <2>2, <2>3 DEF PurseOf
  <1>2. CASE ~Crash /\ ~ \E w \in Workers : Serve(w)
    <2>1. UNCHANGED <<db, pc, req, answers, tainted>>
      BY <1>2, OtherStep DEF historyVars
    <2>2. PurseOf(a)
      BY <2>1
    <2> QED BY <2>1, <2>2 DEF PurseOf, UsersOf, HalfDone, Acct, Answered, Registers
  <1>3. ASSUME NEW w \in Workers, Receive(w)
        PROVE  PurseOf(a)'
    <2>1. /\ Others(w) /\ Grows /\ UNCHANGED <<db, answers>>
          /\ pc[w] = "idle" /\ pc'[w] \in {"exists", "change", "auth"}
      BY <1>3, ReceiveStep
    <2>2. PurseOf(a)
      BY <2>1 DEF Grows
    <2>3. /\ UsersOf(db, a)' = UsersOf(db, a) /\ db'.purse[a] = db.purse[a]
          /\ Answered(a)' <=> Answered(a)
      BY <2>1 DEF UsersOf, Answered
    <2>4. /\ ~HalfDone(w) /\ pc'[w] # "ack"
          /\ \A v \in Workers \ {w} : /\ HalfDone(v) => HalfDone(v)'
                                      /\ pc'[v] = pc[v] /\ req'[v] = req[v]
                                      /\ Registers(v, a)' <=> Registers(v, a)
      BY <2>1 DEF Others, HalfDone, Registers, Acct
    <2> QED BY <2>2, <2>3, <2>4 DEF PurseOf, Acct
  <1>4. ASSUME NEW w \in Workers, Serve(w), ~Receive(w)
        PROVE  PurseOf(a)'
    <2>1. Others(w) /\ Grows /\ (Leaves(w) \/ Goes(w))
      BY <1>4, WorkerStep
    <2>2. PurseOf(a)
      BY <2>1 DEF Grows
    <2>3. /\ UsersOf(db, a)' = UsersOf(db, a) \/ Inserts(w, a) \/ Updates(w, a)
          /\ db'.purse[a] = db.purse[a] \/ Opens(w, a) \/ Credits(w, a)
      BY <1>4, UsersStep, PurseStep
    <2>4. db.purse[a] # <<>> => db'.purse[a] # <<>>
      BY <1>4, PurseKept
    <2>5. UsersOf(db, a) # {} => UsersOf(db, a)' # {}
      BY <1>4, UsersStay
    <2>6. pc[w] = "purse" /\ Acct(w) = a => db'.purse[a] # <<>>
      BY <1>4, PurseStep
    <2>7. ASSUME UsersOf(db, a)' # {}, db'.purse[a] = <<>>
          PROVE  \E v \in Workers : HalfDone(v)' /\ req'[v].acct = a
      <3>1. CASE UsersOf(db, a) # {}
        <4>1. PICK v \in Workers : HalfDone(v) /\ Acct(v) = a
          BY <2>2, <2>4, <2>7, <3>1 DEF PurseOf
        <4>2. CASE v # w
          BY <2>1, <4>1, <4>2 DEF Others, HalfDone, Acct
        <4>3. CASE v = w
          <5>1. pc[w] = "rowid" /\ pc'[w] = "purse" /\ req'[w].acct = a
            BY <2>1, <2>6, <2>7, <4>1, <4>3 DEF HalfDone, Leaves, Goes, Ensues, Acct
          <5> QED BY <5>1 DEF HalfDone
        <4> QED BY <4>2, <4>3
      <3>2. CASE UsersOf(db, a) = {}
        <4>1. Inserts(w, a)
          BY <2>3, <2>7, <3>2 DEF Updates
        <4>2. pc'[w] = "rowid" /\ req'[w].acct = a
          BY <2>1, <4>1 DEF Inserts, Registers, Leaves, Goes, Acct
        <4> QED BY <4>2 DEF HalfDone
      <3> QED BY <3>1, <3>2
    <2>8. ASSUME db'.purse[a] # <<>> PROVE UsersOf(db, a) # {}
      <3>1. CASE db.purse[a] # <<>>
        BY <2>2, <3>1 DEF PurseOf
      <3>2. CASE Opens(w, a)
        BY <3>2 DEF Opens, Writing, Wrote
      <3> QED BY <2>3, <2>8, <3>1, <3>2 DEF Credits
    <2>9. ASSUME Answered(a)' PROVE db'.purse[a] # <<>>
      <3>1. CASE Answered(a)
        BY <2>2, <2>4, <3>1 DEF PurseOf
      <3>2. CASE ~Answered(a)
        <4>1. pc[w] = "ack" /\ Registers(w, a)
          BY <1>4, <2>9, <3>2, AnswersStep DEF Answered, Registers
        <4> QED BY <2>2, <2>4, <4>1 DEF PurseOf
      <3> QED BY <3>1, <3>2
    <2>10. ASSUME NEW v \in Workers, pc'[v] = "ack", Registers(v, a)'
           PROVE  db'.purse[a] # <<>>
      <3>1. Registers(v, a)
        BY <2>1, <2>10, RegistersBefore
      <3>2. CASE pc[v] = "ack"
        BY <2>2, <2>4, <3>1, <3>2 DEF PurseOf
      <3>3. CASE pc[v] # "ack"
        <4>1. v = w /\ pc[w] \in {"purse", "credit"}
          BY <2>1, <2>10, <3>3 DEF Others, Leaves, Goes, Ensues
        <4>2. pc[w] = "purse" /\ Acct(w) = a
          BY <3>1, <4>1, Serving DEF TypeInv, Registers
        <4> QED BY <2>6, <4>2
      <3> QED BY <3>2, <3>3
    <2> QED BY <2>5, <2>7, <2>8, <2>9, <2>10 DEF PurseOf, Acct
  <1> QED BY <1>1, <1>2, <1>3, <1>4 DEF PurseOf, Acct

LEMMA PursesStep ==
    ASSUME TypeInv, Writing, Purses, [Next]_vars
    PROVE  Purses'
  <1> SUFFICES ASSUME NEW a \in Accounts, a \notin tainted'
               PROVE  PurseOf(a)'
    BY DEF Purses
  <1>1. a \notin tainted => PurseOf(a)
    BY DEF Purses
  <1> QED BY <1>1, PurseOfStep

LEMMA InitAccounts ==
    ASSUME Init
    PROVE  /\ \A a \in Accounts : UsersOf(db, a) = {} /\ db.purse[a] = <<>> /\ ~Answered(a)
           /\ \A w \in Workers : pc[w] = "idle" /\ req[w].op = "none"
  BY DEF Init, ConnInit, UsersOf, Answered, NoRequest

LEMMA WritingInvariant == Spec => [](TypeInv /\ Writing)
  <1>1. Init => Writing
    BY InitAccounts DEF Writing, Wrote, Registers
  <1>2. TypeInv /\ Writing /\ [Next]_vars => Writing'
    BY WritingStep
  <1> QED BY <1>1, <1>2, TypeInvariant, PTL DEF Spec

LEMMA PursesInvariant == Spec => []Purses
  <1>1. Init => Purses
    BY InitAccounts DEF Purses, PurseOf
  <1>2. TypeInv /\ Writing /\ Purses /\ [Next]_vars => Purses'
    BY PursesStep
  <1> QED BY <1>1, <1>2, WritingInvariant, PTL DEF Spec

(* A user without a purse exists only while its registration is between the two
   INSERTs, or after a fault or a crash came between them (register_user writes
   users and accounts with no transaction around them); and no purse is without
   a user. *)
THEOREM PurseOfEachUser == Spec => []PursePerUser
  <1>1. Purses => PursePerUser
    BY DEF Purses, PurseOf, PursePerUser
  <1> QED BY <1>1, PursesInvariant, PTL

-----------------------------------------------------------------------------
(* The money in a purse. *)

LEMMA KnownStep ==
    ASSUME TypeInv, Known, [Next]_vars
    PROVE  Known'
  <1> SUFFICES ASSUME NEW v \in Workers, req'[v].op = "deposit"
               PROVE  req'[v].acct \in early' \/ \E r \in answers' : r.acct = req'[v].acct
    BY DEF Known, Acct, Answered
  <1>1. req[v].op = "deposit" =>
          req[v].acct \in early \/ \E r \in answers : r.acct = req[v].acct
    BY DEF Known, Acct, Answered
  <1>2. NoRequest.op = "none"
    BY DEF NoRequest
  <1>3. CASE Crash
    BY <1>2, <1>3, CrashStep
  <1>4. CASE ~Crash /\ ~ \E w \in Workers : Serve(w)
    <2>1. UNCHANGED <<req, early, answers>>
      BY <1>4, OtherStep DEF historyVars
    <2> QED BY <1>1, <2>1
  <1>5. ASSUME NEW w \in Workers, Receive(w)
        PROVE  req'[v].acct \in early' \/ \E r \in answers' : r.acct = req'[v].acct
    <2>1. Others(w) /\ Grows
      BY <1>5, ReceiveStep
    <2>2. PICK r \in Request : /\ req'[w] = r
                               /\ r.op = "deposit" => r.acct \in early' \/ Answered(r.acct)
      BY <1>5, ReceiveStep
    <2> QED BY <1>1, <2>1, <2>2 DEF Others, Grows, Answered
  <1>6. ASSUME NEW w \in Workers, Serve(w), ~Receive(w)
        PROVE  req'[v].acct \in early' \/ \E r \in answers' : r.acct = req'[v].acct
    <2>1. Others(w) /\ Grows /\ (Leaves(w) \/ Goes(w))
      BY <1>6, WorkerStep
    <2>2. req[v].op = "deposit" /\ req'[v].acct = req[v].acct
      BY <1>2, <2>1 DEF Others, Leaves, Goes
    <2> QED BY <1>1, <2>1, <2>2 DEF Grows
  <1> QED BY <1>3, <1>4, <1>5, <1>6

(* The deposits made to a and not yet confirmed. *)
OwedTo(a) == [w \in Workers |-> Owed(w, a)]

DepositsInv ==
    \A a \in Accounts : a \in early \cup tainted \/
                        Balance(db, a) = credited[a] + SumFunction(OwedTo(a))

OwedTyped == \A a \in Accounts : OwedTo(a) \in [Workers -> Int]

LEMMA OwedType == TypeInv => OwedTyped
  <1> SUFFICES ASSUME TypeInv, NEW a \in Accounts PROVE OwedTo(a) \in [Workers -> Int]
    BY DEF OwedTyped
  <1>1. \A w \in Workers : Owed(w, a) \in Int
    BY Serving DEF Owed, TypeInv
  <1> QED BY <1>1 DEF OwedTo

LEMMA OwedTypeNext == TypeInv' => OwedTyped'
  BY OwedType, PTL

(* A step of w changes what is owed of its own deposit and of no other. *)
LEMMA OwedStep ==
    ASSUME TypeInv, TypeInv', NEW w \in Workers, NEW a \in Accounts, Others(w)
    PROVE  SumFunction(OwedTo(a)') = SumFunction(OwedTo(a)) + (Owed(w, a)' - Owed(w, a))
  <1>1. OwedTo(a) \in [Workers -> Int] /\ OwedTo(a)' \in [Workers -> Int]
    <2>1. OwedTyped'
      BY OwedTypeNext
    <2> QED BY <2>1, OwedType DEF OwedTyped
  <1>2. \A v \in Workers \ {w} : OwedTo(a)'[v] = OwedTo(a)[v]
    BY DEF OwedTo, Others, Owed, Acct
  <1>3. OwedTo(a)'[w] = Owed(w, a)' /\ OwedTo(a)[w] = Owed(w, a)
    BY DEF OwedTo
  <1>4. SumFunction(OwedTo(a)')
          = SumFunction(OwedTo(a)) + (OwedTo(a)'[w] - OwedTo(a)[w])
    BY <1>1, <1>2, SumChange, WorkersAssumption
  <1> QED BY <1>3, <1>4

LEMMA BalanceType ==
    ASSUME NEW d \in Tables, NEW a \in Accounts
    PROVE  Balance(d, a) \in Int
  BY AmountsAssumption, CreditBalance

LEMMA DepositsStep ==
    ASSUME TypeInv, TypeInv', Purses, Known, DepositsInv, [Next]_vars
    PROVE  DepositsInv'
  <1> SUFFICES ASSUME NEW a \in Accounts, a \notin early', a \notin tainted'
               PROVE  Balance(db, a)' = credited'[a] + SumFunction(OwedTo(a)')
    BY DEF DepositsInv
  <1>1. a \notin early \cup tainted => Balance(db, a) = credited[a] + SumFunction(OwedTo(a))
    BY DEF DepositsInv
  <1>2. Balance(db, a) \in Int /\ credited[a] \in Int /\ SumFunction(OwedTo(a)) \in Int
    <2>1. Balance(db, a) \in Int
      BY BalanceType DEF TypeInv, TablesInv
    <2>2. credited[a] \in Int
      BY DEF TypeInv, HistoryInv
    <2> QED BY <2>1, <2>2, OwedType, SumType, WorkersAssumption DEF OwedTyped
  <1>3. CASE Crash
    <2>1. /\ \A w \in Workers : pc'[w] = "idle"
          /\ tainted \subseteq tainted' /\ UNCHANGED <<credited, early>>
          /\ db'.purse[a] = db.purse[a]
          /\ \A w \in Workers : Owed(w, a) = 0
      BY <1>3, CrashStep
    <2>2. \A w \in Workers : OwedTo(a)[w] = 0 /\ OwedTo(a)'[w] = 0
      BY <2>1 DEF OwedTo, Owed
    <2>3. OwedTo(a) \in [Workers -> Int] /\ OwedTo(a)' \in [Workers -> Int]
      BY <2>1, <2>2 DEF OwedTo
    <2>4. SumFunction(OwedTo(a)) = 0 /\ SumFunction(OwedTo(a)') = 0
      BY <2>2, <2>3, SumZero, WorkersAssumption
    <2>5. Balance(db, a)' = Balance(db, a)
      BY <2>1 DEF Balance
    <2> QED BY <1>1, <2>1, <2>4, <2>5
  <1>4. CASE ~Crash /\ ~ \E w \in Workers : Serve(w)
    <2>1. UNCHANGED <<db, pc, req, early, credited, tainted>>
      BY <1>4, OtherStep DEF historyVars
    <2>2. Balance(db, a)' = Balance(db, a) /\ OwedTo(a)' = OwedTo(a)
      BY <2>1 DEF Balance, OwedTo, Owed, Acct
    <2> QED BY <1>1, <2>1, <2>2
  <1>5. ASSUME NEW w \in Workers, Receive(w)
        PROVE  Balance(db, a)' = credited'[a] + SumFunction(OwedTo(a)')
    <2>1. /\ Others(w) /\ Grows /\ UNCHANGED <<db, credited>>
          /\ pc[w] = "idle" /\ pc'[w] \in {"exists", "change", "auth"}
      BY <1>5, ReceiveStep
    <2>2. Owed(w, a) = 0 /\ Owed(w, a)' = 0
      BY <2>1 DEF Owed
    <2>3. SumFunction(OwedTo(a)') = SumFunction(OwedTo(a)) + (Owed(w, a)' - Owed(w, a))
      BY <2>1, OwedStep
    <2>4. Balance(db, a)' = Balance(db, a)
      BY <2>1 DEF Balance
    <2>5. a \notin early \cup tainted
      BY <2>1 DEF Grows
    <2> QED BY <1>1, <1>2, <2>1, <2>2, <2>3, <2>4, <2>5
  <1>6. ASSUME NEW w \in Workers, Serve(w), ~Receive(w)
        PROVE  Balance(db, a)' = credited'[a] + SumFunction(OwedTo(a)')
    <2>1. Others(w) /\ Grows /\ (Leaves(w) \/ Goes(w))
      BY <1>6, WorkerStep
    <2>2. Balance(db, a) = credited[a] + SumFunction(OwedTo(a))
      BY <1>1, <2>1 DEF Grows
    <2>3. SumFunction(OwedTo(a)') = SumFunction(OwedTo(a)) + (Owed(w, a)' - Owed(w, a))
      BY <2>1, OwedStep
    <2>4. /\ db'.purse[a] = db.purse[a] \/ Opens(w, a) \/ Credits(w, a)
          /\ pc[w] = "credit" /\ pc'[w] = "ack" /\ Acct(w) = a => Credits(w, a)
      BY <1>6, PurseStep
    <2>5. /\ pc[w] = "ack" /\ req[w].op = "deposit" /\ Acct(w) = a =>
               credited'[a] = credited[a] + req[w].total
          /\ ~(pc[w] = "ack" /\ req[w].op = "deposit" /\ Acct(w) = a) =>
               credited'[a] = credited[a]
          /\ pc[w] = "ack" => pc'[w] = "idle" /\ UNCHANGED db
      BY <1>6, CreditedStep
    <2>6. CASE pc[w] = "ack"
      <3>1. Owed(w, a)' = 0 /\ Balance(db, a)' = Balance(db, a)
        BY <2>5, <2>6 DEF Owed, Balance
      <3>2. CASE req[w].op = "deposit" /\ Acct(w) = a
        <4>1. Owed(w, a) = req[w].total /\ req[w].total \in Int
          BY <2>6, <3>2, Serving DEF Owed, TypeInv
        <4>2. credited'[a] = credited[a] + req[w].total
          BY <2>5, <2>6, <3>2
        <4> QED BY <1>2, <2>2, <2>3, <3>1, <4>1, <4>2
      <3>3. CASE ~(req[w].op = "deposit" /\ Acct(w) = a)
        <4>1. Owed(w, a) = 0 /\ credited'[a] = credited[a]
          BY <2>5, <3>3 DEF Owed
        <4> QED BY <1>2, <2>2, <2>3, <3>1, <4>1
      <3> QED BY <3>2, <3>3
    <2>7. CASE pc[w] = "credit" /\ pc'[w] = "ack" /\ Acct(w) = a
      <3>1. req[w].op = "deposit" /\ req[w].total \in Int
        BY <2>7, Serving DEF TypeInv
      <3>2. Credits(w, a) /\ Goes(w)
        BY <2>1, <2>4, <2>7 DEF Leaves
      <3>3. Answered(a)
        BY <2>1, <2>7, <3>1 DEF Known, Grows
      <3>4. db.purse[a] # <<>>
        BY <2>1, <3>3 DEF Purses, PurseOf, Grows
      <3>5. Balance(db, a)' = Balance(db, a) + req[w].total
        BY <3>2, <3>4 DEF Credits
      <3>6. Owed(w, a) = 0
        BY <2>7 DEF Owed
      <3>7. Owed(w, a)' = req[w].total
        BY <2>7, <3>1, <3>2 DEF Owed, Goes, Acct
      <3>8. credited'[a] = credited[a]
        BY <2>5, <2>7
      <3> QED BY <1>2, <2>2, <2>3, <3>1, <3>5, <3>6, <3>7, <3>8
    <2>8. CASE pc[w] # "ack" /\ ~(pc[w] = "credit" /\ pc'[w] = "ack" /\ Acct(w) = a)
      <3>1. Balance(db, a)' = Balance(db, a)
        <4>1. CASE db'.purse[a] = db.purse[a]
          BY <4>1 DEF Balance
        <4> QED BY <2>4, <2>8, <4>1 DEF Opens, Credits
      <3>2. Owed(w, a) = 0 /\ credited'[a] = credited[a]
        BY <2>5, <2>8 DEF Owed
      <3>3. Owed(w, a)' = 0
        <4> SUFFICES ASSUME pc'[w] = "ack", req'[w].op = "deposit", req'[w].acct = a
                     PROVE  FALSE
          BY DEF Owed, Acct
        <4>1. pc[w] \in {"purse", "credit"} /\ req[w].op = "deposit" /\ Acct(w) = a
          BY <2>1, <2>8 DEF Leaves, Goes, Ensues, Acct
        <4>2. pc[w] = "credit"
          BY <4>1, Serving DEF TypeInv
        <4> QED BY <2>8, <4>1, <4>2
      <3> QED BY <1>2, <2>2, <2>3, <3>1, <3>2, <3>3
    <2> QED BY <2>6, <2>7, <2>8
  <1> QED BY <1>3, <1>4, <1>5, <1>6

(* A deposit sent after the registration was answered is kept: the balance is
   what was confirmed plus what is about to be, whatever the other requests,
   the background batches and the schema. A deposit sent earlier may find a
   user without a purse, and is confirmed and lost. *)
THEOREM DepositsStay == Spec => []DepositsKept
  <1>1. Init => Known /\ DepositsInv
    <2> SUFFICES ASSUME Init PROVE Known /\ DepositsInv
      OBVIOUS
    <2>1. /\ \A a \in Accounts : db.purse[a] = <<>>
          /\ \A w \in Workers : pc[w] = "idle" /\ req[w].op = "none"
      BY InitAccounts
    <2>2. \A a \in Accounts : credited[a] = 0
      BY DEF Init
    <2>3. ASSUME NEW a \in Accounts PROVE SumFunction(OwedTo(a)) = 0
      <3>1. OwedTo(a) \in [Workers -> Int] /\ \A w \in Workers : OwedTo(a)[w] = 0
        BY <2>1 DEF OwedTo, Owed
      <3> QED BY <3>1, SumZero, WorkersAssumption
    <2> QED BY <2>1, <2>2, <2>3 DEF Known, DepositsInv, Balance
  <1>2. TypeInv /\ Known /\ [Next]_vars => Known'
    BY KnownStep
  <1>3. TypeInv /\ TypeInv' /\ Purses /\ Known /\ DepositsInv /\ [Next]_vars => DepositsInv'
    BY DepositsStep
  <1>4. DepositsInv => DepositsKept
    BY DEF DepositsInv, Balance, OwedTo, DepositsKept
  <1> QED BY <1>1, <1>2, <1>3, <1>4, TypeInvariant, PursesInvariant, PTL DEF Spec

-----------------------------------------------------------------------------
(* One owner. *)

(* An account that may have one owner only: whoever is about to insert its row
   finds none, and the row that is there stays. *)
LEMMA InsertsFirst ==
    ASSUME TypeInv, Writing, NEW w \in Workers, NEW a \in Accounts, a \notin Shared,
           Inserts(w, a)
    PROVE  UsersOf(db, a) = {}
  <1>1. CASE unique["users"]
    BY <1>1 DEF Inserts
  <1>2. CASE ~unique["users"]
    <2>1. a \notin crossed
      BY <1>2 DEF Shared
    <2>2. pc[w] = "insert" /\ Acct(w) = a
      BY DEF Inserts, Registers
    <2> QED BY <1>2, <2>1, <2>2 DEF Writing
  <1> QED BY <1>1, <1>2

LEMMA OwnerOfStep ==
    ASSUME TypeInv, Writing, [Next]_vars, NEW a \in Accounts, a \notin Shared,
           a \notin tainted', OwnerOf(a)
    PROVE  OwnerOf(a)'
  <1> SUFFICES
        /\ \A u, v \in UsersOf(db, a)' : u = v
        /\ \A r, s \in answers' : r.acct = a /\ s.acct = a => r = s
        /\ Answered(a)' => UsersOf(db, a)' # {}
        /\ \A v \in Workers : Wrote(v, a)' =>
             ~Answered(a)' /\ \A x \in Workers : Wrote(x, a)' => x = v
    BY DEF OwnerOf
  <1> USE DEF OwnerOf
  <1>1. CASE Crash
    <2>1. /\ \A w \in Workers : pc'[w] = "idle"
          /\ UNCHANGED answers /\ UsersOf(db, a)' = UsersOf(db, a)
      BY <1>1, CrashStep
    <2> QED BY <2>1 DEF Answered, Wrote
  <1>2. CASE ~Crash /\ ~ \E w \in Workers : Serve(w)
    <2>1. UNCHANGED <<db, pc, req, answers>>
      BY <1>2, OtherStep DEF historyVars
    <2> QED BY <2>1 DEF UsersOf, Answered, Wrote, Registers, Acct
  <1>3. ASSUME NEW w \in Workers, Receive(w)
        PROVE  OwnerOf(a)'
    <2>1. /\ Others(w) /\ UNCHANGED <<db, answers>>
          /\ pc'[w] \in {"exists", "change", "auth"}
      BY <1>3, ReceiveStep
    <2>2. \A v \in Workers : Wrote(v, a)' => Wrote(v, a)
      BY <2>1 DEF Others, Wrote, Registers, Acct
    <2>3. UsersOf(db, a)' = UsersOf(db, a) /\ (Answered(a)' <=> Answered(a))
      BY <2>1 DEF UsersOf, Answered
    <2> QED BY <2>1, <2>2, <2>3
  <1>4. ASSUME NEW w \in Workers, Serve(w), ~Receive(w)
        PROVE  OwnerOf(a)'
    <2>1. Others(w) /\ Grows /\ (Leaves(w) \/ Goes(w))
      BY <1>4, WorkerStep
    <2>2. /\ UsersOf(db, a)' = UsersOf(db, a) \/ Inserts(w, a) \/ Updates(w, a)
          /\ pc[w] = "insert" /\ pc'[w] = "rowid" /\ Acct(w) = a => Inserts(w, a)
      BY <1>4, UsersStep
    <2>3. \A v \in Workers : Wrote(v, a)' => Wrote(v, a) \/ (v = w /\ Inserts(w, a))
      BY <2>1, <2>2, RegistersBefore
    <2>4. UsersOf(db, a) # {} => UsersOf(db, a)' # {}
      BY <1>4, UsersStay
    <2>5. \A v \in Workers : Wrote(v, a) => UsersOf(db, a) # {}
      BY DEF Writing
    <2>6. CASE Inserts(w, a)
      <3>1. UsersOf(db, a) = {} /\ UsersOf(db, a)' # {}
        BY <2>6, InsertsFirst DEF Inserts
      <3>2. \A u, v \in UsersOf(db, a)' : u = v
        BY <2>6, <3>1 DEF Inserts
      <3>3. answers' = answers
        BY <1>4, <2>6, AnswersStep DEF Inserts
      <3>4. ~Answered(a) /\ (Answered(a)' <=> Answered(a))
        BY <3>1, <3>3 DEF Answered
      <3> QED BY <2>3, <2>5, <3>1, <3>2, <3>3, <3>4
    <2>7. CASE ~Inserts(w, a) /\ answers' = answers
      <3>1. \A u, v \in UsersOf(db, a)' : u = v
        BY <2>2, <2>7 DEF Updates
      <3>2. Answered(a)' <=> Answered(a)
        BY <2>7 DEF Answered
      <3> QED BY <2>3, <2>4, <2>7, <3>1, <3>2
    <2>8. CASE ~Inserts(w, a) /\ answers' # answers
      <3>1. PICK r : /\ pc[w] = "ack" /\ pc'[w] = "idle" /\ req[w].op = "register" /\ db' = db
                     /\ r.acct = Acct(w) /\ answers' = answers \cup {r}
        BY <1>4, <2>8, AnswersStep
      <3>2. UsersOf(db, a)' = UsersOf(db, a)
        BY <3>1 DEF UsersOf
      <3>3. CASE Acct(w) = a
        <4>1. Wrote(w, a) /\ ~Wrote(w, a)'
          BY <3>1, <3>3 DEF Wrote, Registers
        <4>2. ~Answered(a) /\ \A v \in Workers : ~Wrote(v, a)'
          BY <2>3, <2>8, <4>1
        <4>3. \A q, s \in answers' : q.acct = a /\ s.acct = a => q = s
          BY <3>1, <4>2 DEF Answered
        <4> QED BY <2>5, <3>2, <4>1, <4>2, <4>3
      <3>4. CASE Acct(w) # a
        <4>1. /\ Answered(a)' <=> Answered(a)
              /\ \A s \in answers' : s.acct = a => s \in answers
          BY <3>1, <3>4 DEF Answered
        <4> QED BY <2>3, <2>8, <3>2, <4>1
      <3> QED BY <3>3, <3>4
    <2> QED BY <2>6, <2>7, <2>8
  <1> QED BY <1>1, <1>2, <1>3, <1>4

(* No step makes an account safe again. *)
LEMMA SharedGrows ==
    ASSUME TypeInv, [Next]_vars
    PROVE  Shared \cup tainted \subseteq (Shared \cup tainted)' /\ changed \subseteq changed'
  <1>1. unique' = unique /\ crossed \subseteq crossed' /\ tainted \subseteq tainted'
        /\ changed \subseteq changed'
    <2>1. CASE Crash
      BY <2>1, CrashStep
    <2>2. CASE ~Crash /\ ~ \E w \in Workers : Serve(w)
      BY <2>2, OtherStep DEF historyVars
    <2>3. ASSUME NEW w \in Workers, Serve(w) PROVE Grows
      BY <2>3, ReceiveStep, WorkerStep
    <2> QED BY <2>1, <2>2, <2>3 DEF Grows
  <1> QED BY <1>1 DEF Shared

LEMMA OwnersStep ==
    ASSUME TypeInv, Writing, Owners, [Next]_vars
    PROVE  Owners'
  <1> SUFFICES ASSUME NEW a \in Accounts, a \notin (Shared \cup tainted)'
               PROVE  OwnerOf(a)'
    BY DEF Owners
  <1>1. a \notin Shared /\ OwnerOf(a)
    BY SharedGrows DEF Owners
  <1>2. a \notin tainted'
    OBVIOUS
  <1> QED BY <1>1, <1>2, OwnerOfStep

LEMMA OwnersInvariant == Spec => []Owners
  <1>1. Init => Owners
    <2> SUFFICES ASSUME Init, NEW a \in Accounts PROVE OwnerOf(a)
      BY DEF Owners
    <2>1. UsersOf(db, a) = {} /\ \A w \in Workers : pc[w] = "idle"
      BY InitAccounts
    <2>2. answers = {}
      BY DEF Init
    <2> QED BY <2>1, <2>2 DEF OwnerOf, Answered, Wrote
  <1>2. TypeInv /\ Writing /\ Owners /\ [Next]_vars => Owners'
    BY OwnersStep
  <1> QED BY <1>1, <1>2, WritingInvariant, PTL DEF Spec

LEMMA AtMostOne ==
    ASSUME NEW S, \A u, v \in S : u = v
    PROVE  Cardinality(S) <= 1
  <1>1. CASE S = {}
    BY <1>1, FS_EmptySet
  <1>2. CASE S # {}
    <2>1. PICK u : S = {u}
      BY <1>2
    <2>2. Cardinality({u}) = 1
      BY FS_Singleton
    <2> QED BY <2>1, <2>2
  <1> QED BY <1>1, <1>2

(* An account has one row in users and one client who was told that it is its
   owner, whatever faults and crashes hit other accounts, while its
   registrations do not cross or the table refuses a second row (the check
   account_exists and the INSERT are two statements). *)
THEOREM OneOwnerEach == Spec => []OneOwner
  <1>1. Owners => OneOwner
    <2> SUFFICES ASSUME Owners, NEW a \in Accounts \ (Shared \cup tainted)
                 PROVE  /\ Cardinality(UsersOf(db, a)) <= 1
                        /\ Cardinality({r \in answers : r.acct = a}) <= 1
      BY DEF OneOwner
    <2>1. OwnerOf(a)
      BY DEF Owners
    <2>2. \A u, v \in UsersOf(db, a) : u = v
      BY <2>1 DEF OwnerOf
    <2>3. \A u, v \in {r \in answers : r.acct = a} : u = v
      BY <2>1 DEF OwnerOf
    <2> QED BY <2>2, <2>3, AtMostOne
  <1> QED BY <1>1, OwnersInvariant, PTL

-----------------------------------------------------------------------------
(* The owner's password. *)

LEMMA OwnPasswordStep ==
    ASSUME TypeInv, Writing, Owners, OwnPassword, [Next]_vars
    PROVE  OwnPassword'
  <1>1. ASSUME NEW v \in Workers, req'[v].op = "change"
        PROVE  req'[v].acct \in changed'
    <2>1. req[v].op = "change" => req[v].acct \in changed
      BY DEF OwnPassword, Acct
    <2>2. NoRequest.op = "none"
      BY DEF NoRequest
    <2>3. CASE Crash
      BY <1>1, <2>2, <2>3, CrashStep
    <2>4. CASE ~Crash /\ ~ \E w \in Workers : Serve(w)
      BY <1>1, <2>1, <2>4, OtherStep DEF historyVars
    <2>5. ASSUME NEW w \in Workers, Receive(w) PROVE req'[v].acct \in changed'
      <3>1. Others(w) /\ Grows
        BY <2>5, ReceiveStep
      <3>2. PICK r \in Request : req'[w] = r /\ (r.op = "change" => r.acct \in changed')
        BY <2>5, ReceiveStep
      <3> QED BY <1>1, <2>1, <3>1, <3>2 DEF Others, Grows
    <2>6. ASSUME NEW w \in Workers, Serve(w), ~Receive(w) PROVE req'[v].acct \in changed'
      <3>1. Others(w) /\ Grows /\ (Leaves(w) \/ Goes(w))
        BY <2>6, WorkerStep
      <3> QED BY <1>1, <2>1, <2>2, <3>1 DEF Others, Grows, Leaves, Goes
    <2> QED BY <2>3, <2>4, <2>5, <2>6
  <1>2. ASSUME NEW a \in Accounts, a \notin (Shared \cup tainted)', a \notin changed',
               NEW u \in UsersOf(db, a)'
        PROVE  /\ \A r \in answers' : r.acct = a => u.pwd = r.pwd
               /\ \A v \in Workers : Wrote(v, a)' => u.pwd = req'[v].pwd
    <2>1. a \notin Shared /\ a \notin tainted /\ a \notin changed /\ a \notin tainted'
      BY <1>2, SharedGrows
    <2>2. OwnerOf(a)
      BY <2>1 DEF Owners
    <2>3. \A x \in UsersOf(db, a) :
            /\ \A r \in answers : r.acct = a => x.pwd = r.pwd
            /\ \A v \in Workers : Wrote(v, a) => x.pwd = req[v].pwd
      BY <2>1 DEF OwnPassword
    <2>4. CASE Crash
      <3>1. /\ \A w \in Workers : pc'[w] = "idle"
            /\ UNCHANGED answers /\ UsersOf(db, a)' = UsersOf(db, a)
        BY <2>1, <2>4, CrashStep
      <3> QED BY <1>2, <2>3, <3>1 DEF Wrote
    <2>5. CASE ~Crash /\ ~ \E w \in Workers : Serve(w)
      <3>1. UNCHANGED <<db, pc, req, answers>>
        BY <2>5, OtherStep DEF historyVars
      <3>2. /\ UsersOf(db, a)' = UsersOf(db, a)
            /\ \A v \in Workers : Wrote(v, a)' <=> Wrote(v, a)
        BY <3>1 DEF UsersOf, Wrote, Registers, Acct
      <3> QED BY <1>2, <2>3, <3>1, <3>2
    <2>6. ASSUME NEW w \in Workers, Receive(w)
          PROVE  /\ \A r \in answers' : r.acct = a => u.pwd = r.pwd
                 /\ \A v \in Workers : Wrote(v, a)' => u.pwd = req'[v].pwd
      <3>1. /\ Others(w) /\ UNCHANGED <<db, answers>>
            /\ pc'[w] \in {"exists", "change", "auth"}
        BY <2>6, ReceiveStep
      <3>2. UsersOf(db, a)' = UsersOf(db, a)
        BY <3>1 DEF UsersOf
      <3>3. \A v \in Workers : Wrote(v, a)' => Wrote(v, a) /\ req'[v] = req[v]
        BY <3>1 DEF Others, Wrote, Registers, Acct
      <3> QED BY <1>2, <2>3, <3>1, <3>2, <3>3
    <2>7. ASSUME NEW w \in Workers, Serve(w), ~Receive(w)
          PROVE  /\ \A r \in answers' : r.acct = a => u.pwd = r.pwd
                 /\ \A v \in Workers : Wrote(v, a)' => u.pwd = req'[v].pwd
      <3>1. Others(w) /\ Grows /\ (Leaves(w) \/ Goes(w))
        BY <2>7, WorkerStep
      <3>2. /\ UsersOf(db, a)' = UsersOf(db, a) \/ Inserts(w, a) \/ Updates(w, a)
            /\ pc[w] = "insert" /\ pc'[w] = "rowid" /\ Acct(w) = a => Inserts(w, a)
        BY <2>7, UsersStep
      <3>3. ~Updates(w, a)
        <4> SUFFICES ASSUME Updates(w, a) PROVE FALSE
          OBVIOUS
        <4>1. req[w].op = "change" /\ Acct(w) = a
          BY Serving DEF Updates, TypeInv
        <4> QED BY <2>1, <4>1 DEF OwnPassword
      <3>4. \A v \in Workers : Wrote(v, a)' =>
              /\ Wrote(v, a) \/ (v = w /\ Inserts(w, a))
              /\ req'[v].pwd = req[v].pwd
        <4>1. \A v \in Workers : Wrote(v, a)' => Registers(v, a)'
          BY DEF Wrote
        <4> QED BY <3>1, <3>2, <4>1, RegistersBefore
      <3>5. CASE Inserts(w, a)
        <4>1. UsersOf(db, a) = {}
          BY <2>1, <3>5, InsertsFirst
        <4>2. u.pwd = req[w].pwd
          BY <1>2, <3>5, <4>1 DEF Inserts
        <4>3. answers' = answers
          BY <2>7, <3>5, AnswersStep DEF Inserts
        <4>4. \A r \in answers : r.acct # a
          BY <2>2, <4>1 DEF OwnerOf, Answered
        <4>5. \A v \in Workers : ~Wrote(v, a)
          BY <4>1 DEF Writing
        <4> QED BY <3>4, <4>2, <4>3, <4>4, <4>5
      <3>6. CASE ~Inserts(w, a)
        <4>1. u \in UsersOf(db, a)
          BY <1>2, <3>2, <3>3, <3>6
        <4>2. \A r \in answers' : r.acct = a => u.pwd = r.pwd
          <5>1. CASE answers' = answers
            BY <2>3, <4>1, <5>1
          <5>2. CASE answers' # answers
            <6>1. PICK r : /\ pc[w] = "ack" /\ req[w].op = "register"
                           /\ r.acct = Acct(w) /\ r.pwd = req[w].pwd
                           /\ answers' = answers \cup {r}
              BY <2>7, <5>2, AnswersStep
            <6>2. r.acct = a => Wrote(w, a)
              BY <6>1 DEF Wrote, Registers
            <6> QED BY <2>3, <4>1, <6>1, <6>2
          <5> QED BY <5>1, <5>2
        <4> QED BY <2>3, <3>4, <3>6, <4>1, <4>2
      <3> QED BY <3>5, <3>6
    <2> QED BY <2>4, <2>5, <2>6, <2>7
  <1> QED BY <1>1, <1>2 DEF OwnPassword, Acct

LEMMA OwnPasswordInvariant == Spec => [](TypeInv /\ Owners /\ OwnPassword)
  <1>1. Init => OwnPassword
    BY InitAccounts DEF OwnPassword
  <1>2. TypeInv /\ Writing /\ Owners /\ OwnPassword /\ [Next]_vars => OwnPassword'
    BY OwnPasswordStep
  <1> QED BY <1>1, <1>2, WritingInvariant, OwnersInvariant, PTL DEF Spec

(* The client who was told that the registration succeeded can log in with the
   password it chose, until someone changes it, whatever other registrations
   of the account were tried meanwhile; register_user accepts an empty
   password, with which nobody ever logs in. *)
THEOREM OwnerLogsIn == Spec => []OwnerCanLogIn
  <1>1. TypeInv /\ Owners /\ OwnPassword => OwnerCanLogIn
    <2> SUFFICES ASSUME TypeInv, Owners, OwnPassword, NEW r \in answers,
                        r.acct \notin Shared \cup tainted \cup changed
                 PROVE  LogsIn(db, r.acct, r.pwd) <=> r.pwd # NoPassword
      BY DEF OwnerCanLogIn
    <2>1. r.acct \in Accounts
      BY DEF TypeInv, HistoryInv
    <2>2. OwnerOf(r.acct) /\ Answered(r.acct)
      BY <2>1 DEF Owners, Answered
    <2>3. PICK u \in UsersOf(db, r.acct) : \A v \in UsersOf(db, r.acct) : v = u
      BY <2>2 DEF OwnerOf
    <2>4. u.pwd = r.pwd
      BY <2>1, <2>3 DEF OwnPassword
    <2>5. u.id \in Nat
      BY <2>3 DEF TypeInv, TablesInv, Tables, User, UsersOf
    <2>6. Password(db, r.acct) = u.pwd
      <3>1. \A v \in UsersOf(db, r.acct) : u.id <= v.id
        BY <2>3, <2>5
      <3>2. (CHOOSE x \in UsersOf(db, r.acct) : \A v \in UsersOf(db, r.acct) : x.id <= v.id) = u
        BY <2>3, <3>1
      <3> QED BY <2>3, <3>2 DEF Password
    <2> QED BY <2>4, <2>6 DEF LogsIn
  <1> QED BY <1>1, OwnPasswordInvariant, PTL

=============================================================================
