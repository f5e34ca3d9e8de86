--------------------------- MODULE HistoryProofs ---------------------------
(***************************************************************************)
(* Proofs about History, for every number of workers, calendar, window of  *)
(* the quotes service and bound.                                           *)
(***************************************************************************)
EXTENDS History, DataTheorems

-----------------------------------------------------------------------------
(* The inductive invariant.                                                *)

(* A day that has come has a quote. *)
QuoteInv == \A d \in Days : d <= today => quote[d] # 0

(* Which thread may be where. *)
RoleInv ==
    /\ type[Updater] \in {"daily", "none"}
    /\ pc[Updater] \in {"idle", "select", "fetch", "insert", "again"}
    /\ \A w \in Workers : pc[w] \notin {"select", "again"}

TypeInv == TypeOK /\ QuoteInv /\ RoleInv

(* What a thread has stored is in the table until it has read it back, and then
   in what it read. *)
StoredOf(x) ==
    /\ pc[x] = "idle" => stored[x] = {}
    /\ pc[x] \notin {"idle", "extremes", "respond"} => stored[x] \subseteq Stored(rows[type[x]])
    /\ pc[x] \in {"extremes", "respond"} => stored[x] \subseteq Stored(snap[x])

StoredInv == \A x \in Threads : StoredOf(x)

(* The thread has stored bars of the series, or may have, and will compute the
   high of it anew. *)
Recomputes(x, t) == type[x] = t /\ pc[x] \in {"insert", "read", "extremes", "again"}

HighInv ==
    ~stale =>
        /\ basis = "none" => hist = 0
        /\ basis # "none" => /\ rows[basis] # Empty
                             /\ \/ hist = Highest(rows[basis])
                                \/ \E x \in Threads : Recomputes(x, basis)

(* The days whose bars may come into the candle of day d... *)
Reach(t, d) ==
    IF t = "weekly" THEN {e \in Days : e >= d /\ ~\E m \in (d + 1) .. e : Monday(m)} ELSE {d}

(* ... which is never above all of their quotes. *)
ReachedOn(t, d, high, now, q) == high = 0 \/ \E e \in Reach(t, d) : e <= now /\ high <= q[e]

Reached(t, d, high) == ReachedOn(t, d, high, today, quote)

QuotedInv ==
    /\ \A t \in Types : \A d \in Days : Reached(t, d, rows[t][d])
    /\ \A x \in Threads : pc[x] = "insert" => \A d \in Days : Reached(type[x], d, todo[x][d])

(* Two threads that insert bars of one series have crossed; bars of a thread that
   crossed with none are not older than those in the table. *)
FreshInv ==
    /\ \A x, y \in Threads :
         pc[x] = "insert" /\ pc[y] = "insert" /\ type[x] = type[y] /\ x # y =>
             type[x] \in crossed
    /\ \A x \in Threads : pc[x] = "insert" /\ type[x] \notin crossed =>
         \A d \in Stored(todo[x]) : rows[type[x]][d] <= todo[x][d]

-----------------------------------------------------------------------------
(* Series. *)

(* Every set of prices a series takes is finite. *)
LEMMA ValuesFinite ==
    ASSUME NEW s \in Series, NEW D \in SUBSET Days, D # {}
    PROVE  /\ IsFiniteSet({s[d] : d \in D}) /\ {s[d] : d \in D} # {}
           /\ {s[d] : d \in D} \subseteq 0 .. MaxHigh /\ {s[d] : d \in D} \subseteq Int
  <1>1. {s[d] : d \in D} \subseteq 0 .. MaxHigh
    BY DEF Series
  <1>2. MaxHigh \in Nat
    BY BoundsAssumption
  <1>3. IsFiniteSet(0 .. MaxHigh)
    BY <1>2, FS_Interval
  <1>4. IsFiniteSet({s[d] : d \in D})
    BY <1>1, <1>3, FS_Subset
  <1> QED BY <1>1, <1>2, <1>4

LEMMA MaxOfValues ==
    ASSUME NEW s \in Series, NEW D \in SUBSET Days, D # {}
    PROVE  /\ Max({s[d] : d \in D}) \in 0 .. MaxHigh
           /\ \A d \in D : s[d] <= Max({s[d2] : d2 \in D})
           /\ \E d \in D : Max({s[d2] : d2 \in D}) = s[d]
  <1> DEFINE V == {s[d] : d \in D}
  <1>1. Max(V) \in V /\ \A x \in V : x <= Max(V)
    <2>1. IsFiniteSet(V) /\ V # {} /\ V \subseteq Int
      BY ValuesFinite
    <2> HIDE DEF V
    <2> QED BY <2>1, MaxIs
  <1>2. V \subseteq 0 .. MaxHigh
    BY ValuesFinite
  <1> QED BY <1>1, <1>2

LEMMA DaysType ==
    /\ 1 \in Days /\ Days \subseteq Nat /\ MaxDay \in Nat
    /\ MaxHigh \in Nat /\ MaxHigh >= 1 /\ 0 \in 0 .. MaxHigh /\ 0 .. MaxHigh \subseteq Nat
  BY BoundsAssumption DEF Days

LEMMA EmptyType == Empty \in Series /\ Stored(Empty) = {} /\ Highest(Empty) = 0
  <1>1. Empty \in Series
    BY DaysType DEF Empty, Series
  <1>2. Stored(Empty) = {}
    BY DEF Stored, Empty
  <1>3. Highest(Empty) = 0
    <2>1. {Empty[d] : d \in Days} = {0}
      BY DaysType DEF Empty
    <2>2. Max({0}) = 0
      BY FS_Singleton, MaxIs
    <2> QED BY <2>1, <2>2 DEF Highest
  <1> QED BY <1>1, <1>2, <1>3

LEMMA HighestType ==
    ASSUME NEW s \in Series
    PROVE  Highest(s) \in 0 .. MaxHigh
  BY DaysType, MaxOfValues DEF Highest

LEMMA NotEmpty ==
    ASSUME NEW s \in Series
    PROVE  s # Empty <=> \E d \in Days : s[d] # 0
  BY DEF Series, Empty

-----------------------------------------------------------------------------
(* What the quotes service returns. *)

LEMMA WindowType ==
    ASSUME TypeInv, NEW t \in Types
    PROVE  /\ Window(t) \subseteq Days
           /\ \A d \in Window(t) : d <= today
           /\ \A d \in Window(t) : \A e \in Days : d <= e /\ e <= today => e \in Window(t)
           /\ \E d \in Window(t) : d - 1 \notin Window(t)
  <1>1. today \in Days /\ today \in Nat /\ today >= 1 /\ today <= MaxDay
    BY BoundsAssumption DEF TypeInv, TypeOK, Days
  <1> DEFINE n == IF t = "daily" THEN DailyBars ELSE LongBars
  <1>2. n \in Nat /\ n >= 1
    BY BarsAssumption
  <1>3. Window(t) = {d \in Days : today - n < d /\ d <= today}
    BY DEF Window
  <1> HIDE DEF n
  <1>4. \A d \in Window(t) : \A e \in Days : d <= e /\ e <= today => e \in Window(t)
    <2> SUFFICES ASSUME NEW d \in Window(t), NEW e \in Days, d <= e, e <= today
                 PROVE  today - n < e
      BY <1>3
    <2>1. d \in Nat /\ e \in Nat /\ today - n < d
      BY <1>3, DaysType
    <2> QED BY <1>1, <1>2, <2>1
  <1>5. \E d \in Window(t) : d - 1 \notin Window(t)
    <2> DEFINE d == IF today - n < 1 THEN 1 ELSE today - n + 1
    <2>1. d \in Days /\ today - n < d /\ d <= today
      <3>1. CASE today - n < 1
        BY <1>1, <1>2, <3>1, DaysType
      <3>2. CASE ~(today - n < 1)
        BY <1>1, <1>2, <3>2, DaysType DEF Days
      <3> QED BY <3>1, <3>2
    <2>2. ~(d - 1 \in Days /\ today - n < d - 1)
      BY <1>1, <1>2 DEF Days
    <2> QED BY <1>3, <2>1, <2>2
  <1> QED BY <1>3, <1>4, <1>5

LEMMA CandleType ==
    ASSUME TypeInv, NEW t \in Types, NEW d \in Window(t)
    PROVE  /\ CandleDays(t, d) \subseteq Days /\ d \in CandleDays(t, d)
           /\ \A e \in CandleDays(t, d) : e \in Reach(t, d) /\ e <= today
           /\ \A e \in Reach(t, d) : e <= today => e \in CandleDays(t, d)
  <1>1. d \in Days /\ d \in Nat /\ d <= today /\ Window(t) \subseteq Days
    BY WindowType, DaysType
  <1>2. \A m \in (d + 1) .. d : FALSE
    BY <1>1
  <1>3. CASE t = "weekly"
    <2>1. CandleDays(t, d)
            = {e \in Window(t) : e >= d /\ ~\E m \in (d + 1) .. e : Monday(m)}
      BY <1>3 DEF CandleDays
    <2>2. Reach(t, d) = {e \in Days : e >= d /\ ~\E m \in (d + 1) .. e : Monday(m)}
      BY <1>3 DEF Reach
    <2>3. d \in CandleDays(t, d)
      BY <1>1, <1>2, <2>1
    <2>4. \A e \in Window(t) : e <= today /\ e \in Days
      BY WindowType
    <2>5. \A e \in Days : e >= d /\ e <= today => e \in Window(t)
      BY <1>1, WindowType, DaysType
    <2> QED BY <1>1, <2>1, <2>2, <2>3, <2>4, <2>5
  <1>4. CASE t # "weekly"
    BY <1>1, <1>4 DEF CandleDays, Reach
  <1> QED BY <1>3, <1>4

(* The bars are a series, at least one of them, and each is the highest quote of
   all days that come into its candle. *)
LEMMA FetchedType ==
    ASSUME TypeInv, NEW t \in Types
    PROVE  /\ Fetched(t) \in Series /\ Fetched(t) # Empty
           /\ \A d \in Stored(Fetched(t)) :
                /\ \E e \in Reach(t, d) : e <= today /\ Fetched(t)[d] <= quote[e]
                /\ \A e \in Reach(t, d) : e <= today => quote[e] <= Fetched(t)[d]
  <1>1. quote \in Series /\ today \in Days
    BY DEF TypeInv, TypeOK
  <1>2. \A d \in Days : Fetched(t)[d]
            = IF Opens(t, d) THEN Max({quote[e] : e \in CandleDays(t, d)}) ELSE 0
    BY DEF Fetched
  <1>3. ASSUME NEW d \in Days, Opens(t, d)
        PROVE  /\ Fetched(t)[d] \in 0 .. MaxHigh /\ Fetched(t)[d] # 0
               /\ \E e \in Reach(t, d) : e <= today /\ Fetched(t)[d] <= quote[e]
               /\ \A e \in Reach(t, d) : e <= today => quote[e] <= Fetched(t)[d]
    <2>1. d \in Window(t) /\ d <= today
      BY <1>3, WindowType DEF Opens
    <2>2. /\ CandleDays(t, d) \subseteq Days /\ d \in CandleDays(t, d)
          /\ \A e \in CandleDays(t, d) : e \in Reach(t, d) /\ e <= today
          /\ \A e \in Reach(t, d) : e <= today => e \in CandleDays(t, d)
      BY <2>1, CandleType
    <2>3. Fetched(t)[d] = Max({quote[e] : e \in CandleDays(t, d)})
      BY <1>2, <1>3
    <2>4. /\ Fetched(t)[d] \in 0 .. MaxHigh
          /\ \A e \in CandleDays(t, d) : quote[e] <= Fetched(t)[d]
          /\ \E e \in CandleDays(t, d) : Fetched(t)[d] = quote[e]
      BY <1>1, <2>2, <2>3, MaxOfValues
    <2>5. quote[d] # 0 /\ quote[d] \in 0 .. MaxHigh
      BY <1>1, <2>1 DEF TypeInv, QuoteInv, Series
    <2>6. Fetched(t)[d] # 0
      BY <2>2, <2>4, <2>5, DaysType
    <2>7. \A e \in CandleDays(t, d) : quote[e] \in Nat
      BY <1>1, <2>2, DaysType DEF Series
    <2> QED BY <2>2, <2>4, <2>6, <2>7
  <1>4. Fetched(t) \in Series
    <2>1. \A d \in Days : Fetched(t)[d] \in 0 .. MaxHigh
      BY <1>2, <1>3, DaysType
    <2> QED BY <2>1 DEF Fetched, Series
  <1>5. \E d \in Days : Opens(t, d)
    BY WindowType DEF Opens
  <1>6. Fetched(t) # Empty
    BY <1>3, <1>4, <1>5, NotEmpty
  <1>7. \A d \in Stored(Fetched(t)) : d \in Days /\ Opens(t, d)
    BY <1>2 DEF Stored
  <1> QED BY <1>3, <1>4, <1>6, <1>7

-----------------------------------------------------------------------------
(* Type correctness: the threads and the rest of the state. *)

Fits(p, t, td, sn) ==
    /\ p = "idle" <=> t = "none"
    /\ p = "insert" <=> td # Empty
    /\ sn # Empty <=> p = "extremes"

Role(x, p, t) ==
    /\ x = Updater => /\ t \in {"daily", "none"}
                      /\ p \in {"idle", "select", "fetch", "insert", "again"}
    /\ x \in Workers => p \notin {"select", "again"}

ThreadsOK ==
    /\ pc \in [Threads -> Stages] /\ type \in [Threads -> Types \cup {"none"}]
    /\ todo \in [Threads -> Series] /\ snap \in [Threads -> Series]
    /\ stored \in [Threads -> SUBSET Days]
    /\ \A x \in Threads : Fits(pc[x], type[x], todo[x], snap[x]) /\ Role(x, pc[x], type[x])

MarketOK == today \in Days /\ quote \in Series /\ QuoteInv

TableOK ==
    /\ rows \in [Types -> Series] /\ hist \in 0 .. MaxHigh
    /\ crossed \subseteq Types /\ basis \in Types \cup {"none"} /\ stale \in BOOLEAN

BoundsOK == received \in 0 .. MaxRequests /\ passes \in 0 .. MaxPasses /\ faults \in 0 .. MaxFaults

LEMMA TypeParts == TypeInv <=> ThreadsOK /\ MarketOK /\ TableOK /\ BoundsOK
  <1>1. \A x : x \in Threads <=> x \in Workers \/ x = Updater
    BY DEF Threads
  <1> QED BY <1>1 DEF TypeInv, TypeOK, RoleInv, ThreadsOK, MarketOK, TableOK, BoundsOK, Fits, Role

LEMMA ThreadStep ==
    ASSUME ThreadsOK, NEW x \in Threads,
           NEW p \in Stages, NEW t \in Types \cup {"none"}, NEW td \in Series, NEW sn \in Series,
           NEW st \in SUBSET Days, Fits(p, t, td, sn), Role(x, p, t),
           pc' = [pc EXCEPT ![x] = p], type' = [type EXCEPT ![x] = t],
           todo' = [todo EXCEPT ![x] = td], snap' = [snap EXCEPT ![x] = sn],
           stored' = [stored EXCEPT ![x] = st]
    PROVE  ThreadsOK'
  <1>1. \A y \in Threads :
          /\ pc'[y] = IF y = x THEN p ELSE pc[y]
          /\ type'[y] = IF y = x THEN t ELSE type[y]
          /\ todo'[y] = IF y = x THEN td ELSE todo[y]
          /\ snap'[y] = IF y = x THEN sn ELSE snap[y]
    BY DEF ThreadsOK
  <1>2. \A y \in Threads : Fits(pc'[y], type'[y], todo'[y], snap'[y]) /\ Role(y, pc'[y], type'[y])
    BY <1>1 DEF ThreadsOK
  <1>3. /\ pc' \in [Threads -> Stages] /\ type' \in [Threads -> Types \cup {"none"}]
        /\ todo' \in [Threads -> Series] /\ snap' \in [Threads -> Series]
        /\ stored' \in [Threads -> SUBSET Days]
    BY DEF ThreadsOK
  <1> QED BY <1>2, <1>3 DEF ThreadsOK

(* A step that changes nothing of a thread but its stage. *)
LEMMA GoToStep ==
    ASSUME ThreadsOK, NEW x \in Threads, NEW p \in Stages,
           Fits(p, type[x], todo[x], snap[x]), Role(x, p, type[x]),
           GoTo(x, p), UNCHANGED <<type, todo, snap, stored>>
    PROVE  ThreadsOK'
  <1>1. /\ type[x] \in Types \cup {"none"} /\ todo[x] \in Series /\ snap[x] \in Series
        /\ stored[x] \in SUBSET Days
    BY DEF ThreadsOK
  <1>2. /\ type' = [type EXCEPT ![x] = type[x]] /\ todo' = [todo EXCEPT ![x] = todo[x]]
        /\ snap' = [snap EXCEPT ![x] = snap[x]] /\ stored' = [stored EXCEPT ![x] = stored[x]]
    BY DEF ThreadsOK
  <1> QED BY <1>1, <1>2, ThreadStep DEF GoTo

LEMMA ReturnStep ==
    ASSUME ThreadsOK, NEW x \in Threads, todo[x] = Empty, Return(x), UNCHANGED todo
    PROVE  ThreadsOK'
  <1>1. /\ todo' = [todo EXCEPT ![x] = Empty] /\ Empty \in Series
    BY EmptyType DEF ThreadsOK
  <1>2. Fits("idle", "none", Empty, Empty) /\ Role(x, "idle", "none")
    BY DEF Fits, Role
  <1>3. /\ pc' = [pc EXCEPT ![x] = "idle"] /\ type' = [type EXCEPT ![x] = "none"]
        /\ snap' = [snap EXCEPT ![x] = Empty] /\ stored' = [stored EXCEPT ![x] = {}]
    BY DEF Return, GoTo
  <1>4. "idle" \in Stages /\ {} \in SUBSET Days
    BY DEF Stages
  <1> QED BY <1>1, <1>2, <1>3, <1>4, ThreadStep

LEMMA ThreadType ==
    ASSUME TypeInv, NEW x \in Threads
    PROVE  /\ ThreadsOK /\ Fits(pc[x], type[x], todo[x], snap[x]) /\ Role(x, pc[x], type[x])
           /\ todo[x] \in Series /\ snap[x] \in Series /\ stored[x] \in SUBSET Days
           /\ pc[x] # "idle" => type[x] \in Types /\ rows[type[x]] \in Series
           /\ pc[x] \in Stages /\ rows["daily"] \in Series
  <1>1. ThreadsOK /\ TableOK
    BY TypeParts
  <1>2. type[x] \in Types \cup {"none"} /\ Fits(pc[x], type[x], todo[x], snap[x])
    BY <1>1 DEF ThreadsOK
  <1>3. pc[x] # "idle" => type[x] \in Types
    BY <1>2 DEF Fits
  <1>4. "daily" \in Types
    BY DEF Types
  <1> QED BY <1>1, <1>2, <1>3, <1>4 DEF ThreadsOK, TableOK

LEMMA TypeInit == Init => TypeInv
  <1> SUFFICES ASSUME Init PROVE TypeInv
    OBVIOUS
  <1>1. ThreadsOK
    <2>1. Fits("idle", "none", Empty, Empty)
      BY DEF Fits
    <2>2. \A x \in Threads : Role(x, "idle", "none")
      BY DEF Role
    <2>3. "idle" \in Stages /\ Empty \in Series
      BY EmptyType DEF Stages
    <2>4. /\ pc = [x \in Threads |-> "idle"] /\ type = [x \in Threads |-> "none"]
          /\ todo = [x \in Threads |-> Empty] /\ snap = [x \in Threads |-> Empty]
          /\ stored = [x \in Threads |-> {}]
      BY DEF Init
    <2> QED BY <2>1, <2>2, <2>3, <2>4 DEF ThreadsOK
  <1>2. MarketOK
    <2>1. quote = [d \in Days |-> IF d = 1 THEN 1 ELSE 0] /\ today = 1
      BY DEF Init
    <2>2. 1 \in 0 .. MaxHigh
      BY DaysType
    <2>3. quote \in Series
      BY <2>1, <2>2, DaysType DEF Series
    <2>4. \A d \in Days : d <= 1 => d = 1
      BY DEF Days
    <2> QED BY <2>1, <2>3, <2>4, DaysType DEF MarketOK, QuoteInv
  <1>3. TableOK
    BY EmptyType, DaysType DEF Init, TableOK
  <1>4. BoundsOK
    BY BoundsAssumption DEF Init, BoundsOK
  <1> QED BY <1>1, <1>2, <1>3, <1>4, TypeParts

(* What the steps do to the threads. *)

LEMMA ReceiveType ==
    ASSUME TypeInv, NEW w \in Workers, Receive(w)
    PROVE  ThreadsOK'
  <1>1. w \in Threads /\ w # Updater
    BY UpdaterAssumption DEF Threads
  <1>2. PICK t \in Types : type' = [type EXCEPT ![w] = t]
    BY DEF Receive
  <1>3. /\ pc[w] = "idle" /\ pc' = [pc EXCEPT ![w] = "latest"]
        /\ UNCHANGED <<todo, snap, stored>>
    BY DEF Receive, GoTo, history
  <1>4. /\ ThreadsOK /\ Fits(pc[w], type[w], todo[w], snap[w])
        /\ todo[w] \in Series /\ snap[w] \in Series /\ stored[w] \in SUBSET Days
    BY <1>1, ThreadType
  <1>5. t # "none"
    BY DEF Types
  <1>6. Fits("latest", t, todo[w], snap[w]) /\ Role(w, "latest", t) /\ "latest" \in Stages
    BY <1>1, <1>3, <1>4, <1>5 DEF Fits, Role, Stages
  <1>7. /\ todo' = [todo EXCEPT ![w] = todo[w]] /\ snap' = [snap EXCEPT ![w] = snap[w]]
        /\ stored' = [stored EXCEPT ![w] = stored[w]]
    BY <1>3, <1>4 DEF ThreadsOK
  <1> QED BY <1>1, <1>2, <1>3, <1>4, <1>6, <1>7, ThreadStep

LEMMA CheckLatestType ==
    ASSUME TypeInv, NEW w \in Workers, CheckLatest(w)
    PROVE  ThreadsOK'
  <1>1. w \in Threads /\ w # Updater
    BY UpdaterAssumption DEF Threads
  <1>2. PICK p \in {"clear", "fetch", "read"} : GoTo(w, p)
    BY DEF CheckLatest
  <1>3. pc[w] = "latest" /\ UNCHANGED <<type, todo, snap, stored>>
    BY DEF CheckLatest, history
  <1>4. ThreadsOK /\ Fits(pc[w], type[w], todo[w], snap[w])
    BY <1>1, ThreadType
  <1>5. Fits(p, type[w], todo[w], snap[w]) /\ Role(w, p, type[w]) /\ p \in Stages
    BY <1>1, <1>3, <1>4 DEF Fits, Role, Stages
  <1> QED BY <1>1, <1>2, <1>3, <1>4, <1>5, GoToStep

LEMMA ClearType ==
    ASSUME TypeInv, NEW w \in Workers, Clear(w)
    PROVE  ThreadsOK'
  <1>1. w \in Threads /\ w # Updater
    BY UpdaterAssumption DEF Threads
  <1>2. /\ pc[w] = "clear" /\ pc' = [pc EXCEPT ![w] = "fetch"] /\ UNCHANGED <<type, todo, snap>>
        /\ \/ stored' = [x \in Threads |-> IF type[x] = "daily" THEN {} ELSE stored[x]]
           \/ stored' = stored
    BY DEF Clear, GoTo
  <1>3. ThreadsOK /\ Fits(pc[w], type[w], todo[w], snap[w])
    BY <1>1, ThreadType
  <1>4. Fits("fetch", type[w], todo[w], snap[w]) /\ Role(w, "fetch", type[w])
    BY <1>1, <1>2, <1>3 DEF Fits, Role
  <1>5. pc' \in [Threads -> Stages] /\ stored' \in [Threads -> SUBSET Days]
    BY <1>2, <1>3 DEF ThreadsOK, Stages
  <1>6. \A x \in Threads : Fits(pc'[x], type[x], todo[x], snap[x]) /\ Role(x, pc'[x], type[x])
    <2>1. \A x \in Threads : pc'[x] = IF x = w THEN "fetch" ELSE pc[x]
      BY <1>2, <1>3 DEF ThreadsOK
    <2> QED BY <1>3, <1>4, <2>1 DEF ThreadsOK
  <1> QED BY <1>2, <1>3, <1>5, <1>6 DEF ThreadsOK

(* Where fetch and insert leave a thread. *)
LEMMA AfterInsertFits ==
    ASSUME TypeInv, NEW x \in Threads, pc[x] \in {"fetch", "insert"}
    PROVE  /\ AfterInsert(x) \in {"read", "again"} /\ AfterInsert(x) \in Stages
           /\ Fits(AfterInsert(x), type[x], Empty, snap[x])
           /\ Role(x, AfterInsert(x), type[x])
           /\ AfterInsert(x) = "again" => x = Updater
  BY ThreadType, UpdaterAssumption DEF AfterInsert, Fits, Role, Stages

LEMMA FetchType ==
    ASSUME TypeInv, NEW x \in Threads, Fetch(x)
    PROVE  ThreadsOK'
  <1>1. /\ ThreadsOK /\ Fits(pc[x], type[x], todo[x], snap[x]) /\ Role(x, pc[x], type[x])
        /\ type[x] \in Types /\ snap[x] \in Series /\ stored[x] \in SUBSET Days
        /\ pc[x] = "fetch" /\ todo[x] = Empty
    <2>1. pc[x] = "fetch"
      BY DEF Fetch
    <2> QED BY <2>1, ThreadType DEF Fits
  <1>2. UNCHANGED <<type, snap, stored>>
    BY DEF Fetch
  <1>3. CASE todo' = [todo EXCEPT ![x] = Fetched(type[x])] /\ GoTo(x, "insert")
    <2>1. Fetched(type[x]) \in Series /\ Fetched(type[x]) # Empty
      BY <1>1, FetchedType
    <2>2. /\ Fits("insert", type[x], Fetched(type[x]), snap[x])
          /\ Role(x, "insert", type[x]) /\ "insert" \in Stages
      BY <1>1, <2>1 DEF Fits, Role, Stages
    <2>3. /\ type' = [type EXCEPT ![x] = type[x]] /\ snap' = [snap EXCEPT ![x] = snap[x]]
          /\ stored' = [stored EXCEPT ![x] = stored[x]]
      BY <1>1, <1>2 DEF ThreadsOK
    <2> QED BY <1>1, <1>3, <2>1, <2>2, <2>3, ThreadStep DEF GoTo
  <1>4. CASE GoTo(x, AfterInsert(x)) /\ UNCHANGED todo
    BY <1>1, <1>2, <1>4, AfterInsertFits, GoToStep
  <1> QED BY <1>3, <1>4 DEF Fetch

LEMMA InsertBarType ==
    ASSUME TypeInv, NEW x \in Threads, InsertBar(x)
    PROVE  ThreadsOK'
  <1>1. /\ ThreadsOK /\ Fits(pc[x], type[x], todo[x], snap[x]) /\ Role(x, pc[x], type[x])
        /\ type[x] \in Types /\ snap[x] \in Series /\ stored[x] \in SUBSET Days
        /\ pc[x] = "insert" /\ todo[x] \in Series
    <2>1. pc[x] = "insert"
      BY DEF InsertBar
    <2> QED BY <2>1, ThreadType
  <1>2. PICK d \in Stored(todo[x]) :
          /\ todo' = [todo EXCEPT ![x][d] = 0]
          /\ stored' \in {stored, [stored EXCEPT ![x] = @ \cup {d}]}
    BY DEF InsertBar
  <1>3. PICK td : td = [todo[x] EXCEPT ![d] = 0]
    OBVIOUS
  <1>4. td \in Series /\ todo' = [todo EXCEPT ![x] = td] /\ todo'[x] = td
    BY <1>1, <1>2, <1>3, DaysType DEF Series, ThreadsOK
  <1>5. PICK p \in Stages : Fits(p, type[x], td, snap[x]) /\ Role(x, p, type[x]) /\ GoTo(x, p)
    <2>1. CASE td = Empty
      <3>1. GoTo(x, AfterInsert(x))
        BY <1>4, <2>1 DEF InsertBar
      <3> QED BY <1>1, <2>1, <3>1, AfterInsertFits
    <2>2. CASE td # Empty
      <3>1. GoTo(x, "insert")
        BY <1>4, <2>2 DEF InsertBar
      <3>2. Fits("insert", type[x], td, snap[x]) /\ "insert" \in Stages
        BY <1>1, <2>2 DEF Fits, Stages
      <3> QED BY <1>1, <3>1, <3>2
    <2> QED BY <2>1, <2>2
  <1>6. PICK st \in SUBSET Days : stored' = [stored EXCEPT ![x] = st]
    <2>1. CASE stored' = stored
      <3>1. stored' = [stored EXCEPT ![x] = stored[x]]
        BY <1>1, <2>1 DEF ThreadsOK
      <3> QED BY <1>1, <3>1
    <2>2. CASE stored' = [stored EXCEPT ![x] = @ \cup {d}]
      <3>1. stored[x] \cup {d} \in SUBSET Days
        BY <1>1 DEF Stored
      <3> QED BY <1>1, <2>2, <3>1 DEF ThreadsOK
    <2> QED BY <1>2, <2>1, <2>2
  <1>7. type' = [type EXCEPT ![x] = type[x]] /\ snap' = [snap EXCEPT ![x] = snap[x]]
    BY <1>1 DEF InsertBar, ThreadsOK
  <1> QED BY <1>1, <1>4, <1>5, <1>6, <1>7, ThreadStep DEF GoTo

LEMMA ReadSeriesType ==
    ASSUME TypeInv, NEW w \in Workers, ReadSeries(w)
    PROVE  ThreadsOK'
  <1>1. w \in Threads /\ w # Updater
    BY UpdaterAssumption DEF Threads
  <1>2. /\ ThreadsOK /\ Fits(pc[w], type[w], todo[w], snap[w])
        /\ type[w] \in Types /\ todo[w] \in Series /\ stored[w] \in SUBSET Days
        /\ pc[w] = "read" /\ rows[type[w]] \in Series
    <2>1. pc[w] = "read"
      BY DEF ReadSeries
    <2> QED BY <1>1, <2>1, ThreadType
  <1>3. snap' = [snap EXCEPT ![w] = rows[type[w]]] /\ snap'[w] = rows[type[w]]
    BY <1>1, <1>2 DEF ReadSeries, SeriesOf, ThreadsOK
  <1>4. PICK p \in Stages : /\ Fits(p, type[w], todo[w], rows[type[w]]) /\ Role(w, p, type[w])
                            /\ GoTo(w, p)
    <2>1. CASE rows[type[w]] = Empty
      <3>1. GoTo(w, "respond")
        BY <1>3, <2>1 DEF ReadSeries
      <3> QED BY <1>1, <1>2, <2>1, <3>1 DEF Fits, Role, Stages
    <2>2. CASE rows[type[w]] # Empty
      <3>1. GoTo(w, "extremes")
        BY <1>3, <2>2 DEF ReadSeries
      <3> QED BY <1>1, <1>2, <2>2, <3>1 DEF Fits, Role, Stages
    <2> QED BY <2>1, <2>2
  <1>5. UNCHANGED <<type, todo, stored>>
    BY DEF ReadSeries, history
  <1>6. /\ type' = [type EXCEPT ![w] = type[w]] /\ todo' = [todo EXCEPT ![w] = todo[w]]
        /\ stored' = [stored EXCEPT ![w] = stored[w]]
    BY <1>2, <1>5 DEF ThreadsOK
  <1> QED BY <1>1, <1>2, <1>3, <1>4, <1>6, ThreadStep DEF GoTo

(* The steps in which a thread becomes idle: none of them holds bars. *)
LEMMA ReturnsType ==
    ASSUME TypeInv, NEW x \in Threads, pc[x] # "insert", Return(x), UNCHANGED todo
    PROVE  ThreadsOK'
  BY ThreadType, ReturnStep DEF Fits

LEMMA StartPassType ==
    ASSUME TypeInv, StartPass
    PROVE  ThreadsOK'
  <1>1. Updater \in Threads
    BY DEF Threads
  <1>2. /\ pc[Updater] = "idle" /\ pc' = [pc EXCEPT ![Updater] = "select"]
        /\ type' = [type EXCEPT ![Updater] = "daily"] /\ UNCHANGED <<todo, snap, stored>>
    BY DEF StartPass, GoTo
  <1>3. /\ ThreadsOK /\ Fits(pc[Updater], type[Updater], todo[Updater], snap[Updater])
        /\ todo[Updater] \in Series /\ snap[Updater] \in Series /\ stored[Updater] \in SUBSET Days
    BY <1>1, ThreadType
  <1>4. /\ Fits("select", "daily", todo[Updater], snap[Updater]) /\ "select" \in Stages
        /\ Role(Updater, "select", "daily") /\ "daily" \in Types
    BY <1>2, <1>3, UpdaterAssumption DEF Fits, Role, Stages, Types
  <1>5. /\ todo' = [todo EXCEPT ![Updater] = todo[Updater]]
        /\ snap' = [snap EXCEPT ![Updater] = snap[Updater]]
        /\ stored' = [stored EXCEPT ![Updater] = stored[Updater]]
    BY <1>2, <1>3 DEF ThreadsOK
  <1> QED BY <1>1, <1>2, <1>3, <1>4, <1>5, ThreadStep

LEMMA SelectMissingType ==
    ASSUME TypeInv, SelectMissing
    PROVE  ThreadsOK'
  <1>1. Updater \in Threads
    BY DEF Threads
  <1>2. pc[Updater] = "select" /\ UNCHANGED todo
    BY DEF SelectMissing
  <1>3. CASE GoTo(Updater, "fetch") /\ UNCHANGED <<type, snap, stored>>
    <2>1. /\ ThreadsOK /\ Fits(pc[Updater], type[Updater], todo[Updater], snap[Updater])
          /\ Role(Updater, pc[Updater], type[Updater])
      BY <1>1, ThreadType
    <2>2. /\ Fits("fetch", type[Updater], todo[Updater], snap[Updater]) /\ "fetch" \in Stages
          /\ Role(Updater, "fetch", type[Updater])
      BY <1>2, <2>1, UpdaterAssumption DEF Fits, Role, Stages
    <2> QED BY <1>1, <1>2, <1>3, <2>1, <2>2, GoToStep
  <1>4. CASE Return(Updater)
    BY <1>1, <1>2, <1>4, ReturnsType
  <1> QED BY <1>3, <1>4 DEF SelectMissing

(* What the steps do to the rest. *)

LEMMA ThreadsStep ==
    ASSUME TypeInv, [Next]_vars
    PROVE  ThreadsOK'
  <1>1. ASSUME NEW w \in Workers, GetKline(w) PROVE ThreadsOK'
    <2>1. w \in Threads
      BY DEF Threads
    <2>2. CASE FetchThrows(w) \/ WriteExtremes(w) \/ RespondEmpty(w)
      <3>1. pc[w] # "insert" /\ Return(w) /\ UNCHANGED todo
        BY <2>2 DEF FetchThrows, WriteExtremes, RespondEmpty
      <3> QED BY <2>1, <3>1, ReturnsType
    <2> QED BY <1>1, <2>2, ReceiveType, CheckLatestType, ClearType, ReadSeriesType DEF GetKline
  <1>2. ASSUME NEW x \in Threads, Fetch(x) \/ InsertBar(x) PROVE ThreadsOK'
    BY <1>2, FetchType, InsertBarType
  <1>3. CASE EndPass
    <2>1. pc[Updater] = "again" /\ Return(Updater) /\ UNCHANGED todo
      BY <1>3 DEF EndPass
    <2>2. Updater \in Threads
      BY DEF Threads
    <2> QED BY <2>1, <2>2, ReturnsType
  <1>4. CASE NextDay \/ Rise \/ UNCHANGED vars
    <2>1. UNCHANGED <<pc, type, todo, snap, stored>>
      BY <1>4 DEF NextDay, Rise, vars, history
    <2>2. ThreadsOK
      BY TypeParts
    <2> QED BY <2>1, <2>2 DEF ThreadsOK
  <1> QED BY <1>1, <1>2, <1>3, <1>4, StartPassType, SelectMissingType DEF Next

LEMMA MarketStep ==
    ASSUME TypeInv, [Next]_vars
    PROVE  /\ MarketOK'
           /\ today <= today' /\ today \in Nat /\ today' \in Nat
           /\ \A d \in Days : d <= today => quote[d] <= quote'[d]
           /\ quote \in Series /\ quote' \in Series
  <1>1. MarketOK /\ today \in Nat
    BY TypeParts, DaysType DEF MarketOK
  <1>2. \A d \in Days : quote[d] \in Nat
    BY <1>1, DaysType DEF MarketOK, Series
  <1>3. CASE NextDay
    <2>1. /\ today < MaxDay /\ today' = today + 1 /\ quote' = [quote EXCEPT ![today + 1] = 1]
      BY <1>3 DEF NextDay
    <2>2. today' \in Days
      BY <1>1, <2>1, DaysType DEF MarketOK, Days
    <2>3. quote' \in Series
      <3>1. 1 \in 0 .. MaxHigh
        BY DaysType
      <3> QED BY <1>1, <2>1, <3>1 DEF MarketOK, Series
    <2>4. \A d \in Days : quote'[d] = IF d = today + 1 THEN 1 ELSE quote[d]
      BY <1>1, <2>1 DEF MarketOK, Series
    <2>5. \A d \in Days : d <= today + 1 => d <= today \/ d = today + 1
      BY <1>1, DaysType
    <2>6. QuoteInv'
      BY <1>1, <2>1, <2>4, <2>5 DEF MarketOK, QuoteInv
    <2>7. \A d \in Days : d <= today => d # today + 1
      BY <1>1, DaysType
    <2> QED BY <1>1, <1>2, <2>1, <2>2, <2>3, <2>4, <2>6, <2>7, DaysType DEF MarketOK
  <1>4. CASE Rise
    <2>1. /\ quote[today] < MaxHigh /\ quote' = [quote EXCEPT ![today] = quote[today] + 1]
          /\ today' = today
      BY <1>4 DEF Rise
    <2>2. today \in Days /\ quote \in Series
      BY <1>1 DEF MarketOK
    <2>3. quote[today] + 1 \in 0 .. MaxHigh
      BY <1>2, <2>1, <2>2, DaysType
    <2>4. quote' \in Series
      BY <2>1, <2>2, <2>3 DEF Series
    <2>5. \A d \in Days : quote'[d] = IF d = today THEN quote[today] + 1 ELSE quote[d]
      BY <2>1, <2>2 DEF Series
    <2>6. \A d \in Days : quote[d] <= quote'[d] /\ (quote[d] # 0 => quote'[d] # 0)
      BY <1>2, <2>2, <2>5
    <2>7. QuoteInv'
      BY <1>1, <2>1, <2>6 DEF MarketOK, QuoteInv
    <2> QED BY <1>1, <2>1, <2>2, <2>4, <2>6, <2>7 DEF MarketOK
  <1>5. CASE UNCHANGED market
    <2>1. today' = today /\ quote' = quote
      BY <1>5 DEF market
    <2> QED BY <1>1, <1>2, <2>1 DEF MarketOK, QuoteInv
  <1>6. NextDay \/ Rise \/ UNCHANGED market
    BY DEF Next, GetKline, Receive, CheckLatest, Clear, FetchThrows, ReadSeries, WriteExtremes,
           RespondEmpty, Fetch, InsertBar, StartPass, SelectMissing, EndPass, vars
  <1> QED BY <1>3, <1>4, <1>5, <1>6

(* The high is recomputed from the daily bars, or from nothing, or not at all. *)
LEMMA ComputeType ==
    ASSUME TypeInv, ComputeExtremes, UNCHANGED <<rows, crossed>>
    PROVE  TableOK' /\ faults' \in 0 .. MaxFaults
  <1>1. TableOK /\ BoundsOK /\ rows["daily"] \in Series
    BY TypeParts DEF TableOK, Types
  <1>2. Extreme(rows["daily"]) \in 0 .. MaxHigh
    BY <1>1, HighestType DEF Extreme
  <1>3. faults' \in 0 .. MaxFaults
    BY <1>1, BoundsAssumption DEF ComputeExtremes, BoundsOK
  <1>4. /\ hist' \in 0 .. MaxHigh /\ basis' \in Types \cup {"none"} /\ stale' \in BOOLEAN
    BY <1>1, <1>2 DEF ComputeExtremes, TableOK, Types
  <1> QED BY <1>1, <1>3, <1>4 DEF TableOK

LEMMA RestStep ==
    ASSUME TypeInv, [Next]_vars
    PROVE  TableOK' /\ BoundsOK'
  <1>1. TableOK /\ BoundsOK
    BY TypeParts
  <1>2. ASSUME NEW w \in Workers, Clear(w) PROVE TableOK' /\ BoundsOK'
    <2>1. rows' \in [Types -> Series]
      BY <1>1, <1>2, EmptyType DEF Clear, TableOK
    <2>2. stale' \in BOOLEAN /\ UNCHANGED <<hist, crossed, basis, received, passes>>
      BY <1>1, <1>2 DEF Clear, TableOK
    <2>3. faults' \in 0 .. MaxFaults
      BY <1>1, <1>2, BoundsAssumption DEF Clear, BoundsOK
    <2> QED BY <1>1, <2>1, <2>2, <2>3 DEF TableOK, BoundsOK
  <1>3. ASSUME NEW x \in Threads, Fetch(x) PROVE TableOK' /\ BoundsOK'
    <2>1. type[x] \in Types
      BY <1>3, ThreadType DEF Fetch
    <2> QED BY <1>1, <1>3, <2>1 DEF Fetch, TableOK, BoundsOK, bounds
  <1>4. ASSUME NEW x \in Threads, InsertBar(x) PROVE TableOK' /\ BoundsOK'
    <2>1. type[x] \in Types /\ todo[x] \in Series
      BY <1>4, ThreadType DEF InsertBar
    <2>2. PICK d \in Stored(todo[x]) :
            \/ rows' = [rows EXCEPT ![type[x]][d] = todo[x][d]] /\ UNCHANGED faults
            \/ faults < MaxFaults /\ faults' = faults + 1 /\ UNCHANGED rows
      BY <1>4 DEF InsertBar
    <2>3. d \in Days /\ todo[x][d] \in 0 .. MaxHigh
      BY <2>1 DEF Stored, Series
    <2>4. rows' \in [Types -> Series]
      BY <1>1, <2>1, <2>2, <2>3 DEF TableOK, Series
    <2>5. faults' \in 0 .. MaxFaults
      BY <1>1, <2>2, BoundsAssumption DEF BoundsOK
    <2>6. crossed' \subseteq Types /\ UNCHANGED <<hist, basis, stale, received, passes>>
      BY <1>1, <1>4 DEF InsertBar, TableOK
    <2> QED BY <1>1, <2>4, <2>5, <2>6 DEF TableOK, BoundsOK
  <1>5. ASSUME NEW w \in Workers, WriteExtremes(w) PROVE TableOK' /\ BoundsOK'
    <2>1. w \in Threads
      BY DEF Threads
    <2>2. type[w] \in Types /\ snap[w] \in Series
      BY <1>5, <2>1, ThreadType DEF WriteExtremes
    <2>3. Extreme(snap[w]) \in 0 .. MaxHigh
      BY <2>2, HighestType DEF Extreme
    <2>4. faults' \in 0 .. MaxFaults
      BY <1>1, <1>5, BoundsAssumption DEF WriteExtremes, BoundsOK
    <2>5. /\ hist' \in 0 .. MaxHigh /\ basis' \in Types \cup {"none"} /\ stale' \in BOOLEAN
      BY <1>1, <1>5, <2>2, <2>3 DEF WriteExtremes, TableOK
    <2> QED BY <1>1, <1>5, <2>4, <2>5 DEF WriteExtremes, TableOK, BoundsOK
  <1>6. ASSUME NEW w \in Workers, Receive(w) PROVE TableOK' /\ BoundsOK'
    <2>1. received' \in 0 .. MaxRequests
      BY <1>1, <1>6, BoundsAssumption DEF Receive, BoundsOK
    <2> QED BY <1>1, <1>6, <2>1 DEF Receive, TableOK, BoundsOK, history
  <1>7. ASSUME NEW w \in Workers,
               CheckLatest(w) \/ FetchThrows(w) \/ ReadSeries(w) \/ RespondEmpty(w)
        PROVE  TableOK' /\ BoundsOK'
    BY <1>1, <1>7 DEF CheckLatest, FetchThrows, ReadSeries, RespondEmpty, TableOK, BoundsOK,
                      history, bounds
  <1>8. CASE StartPass
    <2>1. passes' \in 0 .. MaxPasses
      BY <1>1, <1>8, BoundsAssumption DEF StartPass, BoundsOK
    <2>2. ComputeExtremes /\ UNCHANGED <<rows, crossed, received>>
      BY <1>8 DEF StartPass
    <2> QED BY <1>1, <2>1, <2>2, ComputeType DEF BoundsOK
  <1>9. CASE EndPass
    <2>1. ComputeExtremes /\ UNCHANGED <<rows, crossed, received, passes>>
      BY <1>9 DEF EndPass
    <2> QED BY <1>1, <2>1, ComputeType DEF BoundsOK
  <1>10. CASE SelectMissing \/ NextDay \/ Rise \/ UNCHANGED vars
    BY <1>1, <1>10 DEF SelectMissing, NextDay, Rise, vars, TableOK, BoundsOK, history, bounds
  <1> QED
    BY <1>2, <1>3, <1>4, <1>5, <1>6, <1>7, <1>8, <1>9, <1>10 DEF Next, GetKline

LEMMA TypeStep == TypeInv /\ [Next]_vars => TypeInv'
  <1> SUFFICES ASSUME TypeInv, [Next]_vars PROVE TypeInv'
    OBVIOUS
  <1>1. ThreadsOK' /\ MarketOK' /\ TableOK' /\ BoundsOK'
    BY ThreadsStep, MarketStep, RestStep
  <1>2. (ThreadsOK /\ MarketOK /\ TableOK /\ BoundsOK)' => TypeInv'
    BY TypeParts, PTL
  <1> QED BY <1>1, <1>2

LEMMA TypeInvariant == Spec => []TypeInv
  BY TypeInit, TypeStep, PTL DEF Spec

(* The shape of the state; a thread holds bars only while it inserts them, and
   what it read only until it has written the extremes. *)
THEOREM TypeCorrect == Spec => []TypeOK
  BY TypeInvariant, PTL DEF TypeInv

-----------------------------------------------------------------------------
(* What a thread stored, and where it is. *)

(* A thread that does not take part in a step that keeps the bars of its series. *)
LEMMA StoredOfOther ==
    ASSUME NEW y \in Threads, StoredOf(y),
           pc'[y] = pc[y], type'[y] = type[y], stored'[y] = stored[y], snap'[y] = snap[y],
           pc[y] # "idle" => Stored(rows[type[y]]) \subseteq Stored(rows'[type[y]])
    PROVE  StoredOf(y)'
  BY DEF StoredOf, Stored

(* The INSERT of a bar: what it does to the table and to the thread. *)
LEMMA InsertBarStep ==
    ASSUME TypeInv, NEW x \in Threads, InsertBar(x)
    PROVE  /\ type[x] \in Types /\ todo[x] \in Series /\ pc[x] = "insert"
           /\ type' = type /\ snap' = snap
           /\ pc'[x] \in {"insert", "read", "again"}
           /\ pc'[x] = "insert" <=> todo'[x] # Empty
           /\ \A y \in Threads \ {x} : /\ pc'[y] = pc[y] /\ todo'[y] = todo[y]
                                       /\ stored'[y] = stored[y]
           /\ \E d \in Stored(todo[x]) :
                /\ d \in Days /\ \A e \in Days : todo'[x][e] = IF e = d THEN 0 ELSE todo[x][e]
                /\ \/ rows' = rows /\ stored'[x] = stored[x]
                   \/ /\ \A t \in Types : \A e \in Days :
                           rows'[t][e] = IF t = type[x] /\ e = d THEN todo[x][d] ELSE rows[t][e]
                      /\ stored'[x] = stored[x] \cup {d}
  <1>1. pc[x] = "insert" /\ type' = type /\ snap' = snap
    BY DEF InsertBar
  <1>2. /\ type[x] \in Types /\ todo[x] \in Series /\ ThreadsOK
        /\ AfterInsert(x) \in {"read", "again"}
    BY <1>1, ThreadType, AfterInsertFits
  <1>3. PICK d \in Stored(todo[x]) :
          /\ todo' = [todo EXCEPT ![x][d] = 0]
          /\ \/ /\ rows' = [rows EXCEPT ![type[x]][d] = todo[x][d]]
                /\ stored' = [stored EXCEPT ![x] = @ \cup {d}]
             \/ UNCHANGED <<rows, stored>>
    BY DEF InsertBar
  <1>4. /\ pc'[x] = IF todo'[x] = Empty THEN AfterInsert(x) ELSE "insert"
        /\ \A y \in Threads \ {x} : pc'[y] = pc[y]
    BY <1>2 DEF InsertBar, GoTo, ThreadsOK
  <1>5. d \in Days
    BY DEF Stored
  <1>6. \A e \in Days : todo'[x][e] = IF e = d THEN 0 ELSE todo[x][e]
    BY <1>2, <1>3, <1>5 DEF ThreadsOK, Series
  <1>7. \A y \in Threads \ {x} : todo'[y] = todo[y]
    BY <1>2, <1>3 DEF ThreadsOK
  <1>8. \A y \in Threads \ {x} : stored'[y] = stored[y]
    BY <1>2, <1>3 DEF ThreadsOK
  <1>9. \/ rows' = rows /\ stored'[x] = stored[x]
        \/ /\ \A t \in Types : \A e \in Days :
                rows'[t][e] = IF t = type[x] /\ e = d THEN todo[x][d] ELSE rows[t][e]
           /\ stored'[x] = stored[x] \cup {d}
    <2>1. CASE UNCHANGED <<rows, stored>>
      BY <2>1
    <2>2. CASE /\ rows' = [rows EXCEPT ![type[x]][d] = todo[x][d]]
               /\ stored' = [stored EXCEPT ![x] = @ \cup {d}]
      <3>1. rows \in [Types -> Series]
        BY TypeParts DEF TableOK
      <3>2. \A t \in Types : \A e \in Days :
              rows'[t][e] = IF t = type[x] /\ e = d THEN todo[x][d] ELSE rows[t][e]
        BY <1>2, <1>5, <2>2, <3>1 DEF Series
      <3>3. stored'[x] = stored[x] \cup {d}
        BY <1>2, <2>2 DEF ThreadsOK
      <3> QED BY <3>2, <3>3
    <2> QED BY <1>3, <2>1, <2>2
  <1> QED BY <1>1, <1>2, <1>3, <1>4, <1>5, <1>6, <1>7, <1>8, <1>9

(* A step of x that stores nothing. *)
Moves(x) ==
    /\ rows' = rows
    /\ \A y \in Threads \ {x} : /\ pc'[y] = pc[y] /\ type'[y] = type[y] /\ todo'[y] = todo[y]
                                /\ stored'[y] = stored[y] /\ snap'[y] = snap[y]
    /\ \/ pc'[x] = "idle" /\ type'[x] = "none" /\ stored'[x] = {}
       \/ /\ pc[x] = "idle" /\ pc'[x] \in {"latest", "select"}
          /\ stored'[x] = stored[x]
       \/ /\ pc[x] \notin {"idle", "extremes", "respond"}
          /\ pc'[x] \notin {"idle", "extremes", "respond"}
          /\ type'[x] = type[x] /\ stored'[x] = stored[x]
       \/ /\ pc[x] = "read" /\ snap'[x] = rows[type[x]]
          /\ pc'[x] = IF snap'[x] = Empty THEN "respond" ELSE "extremes"
          /\ type'[x] = type[x] /\ stored'[x] = stored[x]

LEMMA StoredOfMover ==
    ASSUME NEW x \in Threads, StoredOf(x), Moves(x)
    PROVE  StoredOf(x)'
  <1>1. CASE pc'[x] = "idle" /\ type'[x] = "none" /\ stored'[x] = {}
    BY <1>1 DEF StoredOf
  <1>2. CASE /\ pc[x] = "idle" /\ pc'[x] \in {"latest", "select"}
             /\ stored'[x] = stored[x]
    BY <1>2 DEF StoredOf
  <1>3. CASE /\ pc[x] \notin {"idle", "extremes", "respond"}
             /\ pc'[x] \notin {"idle", "extremes", "respond"}
             /\ type'[x] = type[x] /\ stored'[x] = stored[x]
    <2>1. rows'[type'[x]] = rows[type[x]]
      BY <1>3 DEF Moves
    <2> QED BY <1>3, <2>1 DEF StoredOf, Stored
  <1>4. CASE /\ pc[x] = "read" /\ snap'[x] = rows[type[x]]
             /\ pc'[x] = IF snap'[x] = Empty THEN "respond" ELSE "extremes"
             /\ type'[x] = type[x] /\ stored'[x] = stored[x]
    BY <1>4 DEF StoredOf, Stored
  <1> QED BY <1>1, <1>2, <1>3, <1>4 DEF Moves

(* All steps of the threads but the DELETE and the INSERTs are such. *)
LEMMA ReturnMoves ==
    ASSUME TypeInv, NEW x \in Threads, Return(x), UNCHANGED <<rows, todo>>
    PROVE  Moves(x) /\ pc'[x] = "idle"
  <1>1. ThreadsOK
    BY TypeParts
  <1>2. pc'[x] = "idle" /\ type'[x] = "none" /\ stored'[x] = {}
    BY <1>1 DEF Return, GoTo, ThreadsOK
  <1>3. \A y \in Threads \ {x} : /\ pc'[y] = pc[y] /\ type'[y] = type[y] /\ todo'[y] = todo[y]
                                 /\ stored'[y] = stored[y] /\ snap'[y] = snap[y]
    BY <1>1 DEF Return, GoTo, ThreadsOK
  <1> QED BY <1>2, <1>3 DEF Moves

LEMMA MovesStep ==
    ASSUME TypeInv, NEW x \in Threads,
           \/ x \in Workers /\ GetKline(x) /\ ~Clear(x)
           \/ Fetch(x)
           \/ x = Updater /\ (StartPass \/ SelectMissing \/ EndPass)
    PROVE  Moves(x)
  <1>1. ThreadsOK
    BY TypeParts
  <1>2. CASE Receive(x)
    BY <1>1, <1>2 DEF Receive, GoTo, Moves, ThreadsOK, history
  <1>3. CASE CheckLatest(x)
    <2>1. PICK p \in {"clear", "fetch", "read"} : GoTo(x, p)
      BY <1>3 DEF CheckLatest
    <2>2. pc[x] = "latest" /\ UNCHANGED <<rows, type, todo, snap, stored>>
      BY <1>3 DEF CheckLatest, history
    <2> QED BY <1>1, <2>1, <2>2 DEF GoTo, Moves, ThreadsOK
  <1>4. CASE Fetch(x)
    <2>1. pc[x] = "fetch" /\ UNCHANGED <<rows, type, snap, stored>>
      BY <1>4 DEF Fetch
    <2>2. \A y \in Threads \ {x} : todo'[y] = todo[y]
      BY <1>1, <1>4 DEF Fetch, ThreadsOK
    <2>3. PICK p \in {"insert", "read", "again"} : GoTo(x, p)
      BY <1>4, <2>1, AfterInsertFits DEF Fetch
    <2> QED BY <1>1, <2>1, <2>2, <2>3 DEF GoTo, Moves, ThreadsOK
  <1>5. CASE FetchThrows(x) \/ WriteExtremes(x) \/ RespondEmpty(x)
    <2>1. Return(x) /\ UNCHANGED <<rows, todo>>
      BY <1>5 DEF FetchThrows, WriteExtremes, RespondEmpty
    <2> QED BY <2>1, ReturnMoves
  <1>6. CASE ReadSeries(x)
    <2>1. /\ pc[x] = "read" /\ UNCHANGED <<rows, type, todo, stored>>
          /\ snap' = [snap EXCEPT ![x] = rows[type[x]]]
          /\ GoTo(x, IF snap'[x] = Empty THEN "respond" ELSE "extremes")
      BY <1>6 DEF ReadSeries, SeriesOf, history
    <2>2. PICK p : p = IF snap'[x] = Empty THEN "respond" ELSE "extremes"
      OBVIOUS
    <2>3. /\ pc'[x] = p /\ snap'[x] = rows[type[x]]
          /\ \A y \in Threads \ {x} : pc'[y] = pc[y] /\ snap'[y] = snap[y]
      BY <1>1, <2>1, <2>2 DEF GoTo, ThreadsOK
    <2> QED BY <2>1, <2>2, <2>3 DEF Moves
  <1>7. CASE x = Updater /\ StartPass
    <2>1. /\ pc[x] = "idle" /\ GoTo(x, "select") /\ type' = [type EXCEPT ![x] = "daily"]
          /\ UNCHANGED <<rows, todo, snap, stored>>
      BY <1>7 DEF StartPass
    <2> QED BY <1>1, <2>1 DEF GoTo, Moves, ThreadsOK
  <1>8. CASE x = Updater /\ SelectMissing
    <2>1. pc[x] = "select" /\ UNCHANGED <<rows, todo>>
      BY <1>8 DEF SelectMissing
    <2>2. CASE GoTo(x, "fetch") /\ UNCHANGED <<type, snap, stored>>
      BY <1>1, <2>1, <2>2 DEF GoTo, Moves, ThreadsOK
    <2>3. CASE Return(x)
      BY <2>1, <2>3, ReturnMoves
    <2> QED BY <1>8, <2>2, <2>3 DEF SelectMissing
  <1>9. CASE x = Updater /\ EndPass
    <2>1. Return(x) /\ UNCHANGED <<rows, todo>>
      BY <1>9 DEF EndPass
    <2> QED BY <2>1, ReturnMoves
  <1> QED
    BY <1>2, <1>3, <1>4, <1>5, <1>6, <1>7, <1>8, <1>9 DEF GetKline

(* The steps of the system. *)
LEMMA StepCases ==
    ASSUME TypeInv, [Next]_vars
    PROVE  \/ \E x \in Threads : Moves(x)
           \/ \E x \in Threads : InsertBar(x)
           \/ \E w \in Workers : Clear(w)
           \/ UNCHANGED <<rows, pc, type, todo, snap, stored>>
  <1>1. Workers \subseteq Threads /\ Updater \in Threads
    BY DEF Threads
  <1>2. CASE NextDay \/ Rise \/ UNCHANGED vars
    BY <1>2 DEF NextDay, Rise, vars, history
  <1> QED BY <1>1, <1>2, MovesStep DEF Next

LEMMA StoredStep ==
    ASSUME TypeInv, StoredInv, [Next]_vars
    PROVE  StoredInv'
  <1> SUFFICES ASSUME NEW y \in Threads PROVE StoredOf(y)'
    BY DEF StoredInv
  <1>1. StoredOf(y)
    BY DEF StoredInv
  <1>2. ASSUME NEW x \in Threads, Moves(x) PROVE StoredOf(y)'
    <2>1. CASE y = x
      BY <1>1, <1>2, <2>1, StoredOfMover
    <2>2. CASE y # x
      BY <1>1, <1>2, <2>2, StoredOfOther DEF Moves
    <2> QED BY <2>1, <2>2
  <1>3. ASSUME NEW x \in Threads, InsertBar(x) PROVE StoredOf(y)'
    <2>1. /\ type[x] \in Types /\ pc[x] = "insert" /\ type' = type /\ snap' = snap
          /\ pc'[x] \in {"insert", "read", "again"}
          /\ \A z \in Threads \ {x} : pc'[z] = pc[z] /\ stored'[z] = stored[z]
      BY <1>3, InsertBarStep
    <2>2. PICK d \in Stored(todo[x]) :
            /\ d \in Days
            /\ \/ rows' = rows /\ stored'[x] = stored[x]
               \/ /\ \A t \in Types : \A e \in Days :
                       rows'[t][e] = IF t = type[x] /\ e = d THEN todo[x][d] ELSE rows[t][e]
                  /\ stored'[x] = stored[x] \cup {d}
      BY <1>3, InsertBarStep
    <2>3. \A t \in Types : Stored(rows[t]) \subseteq Stored(rows'[t])
      BY <2>2 DEF Stored
    <2>4. pc[y] # "idle" => type[y] \in Types
      BY ThreadType
    <2>5. CASE y # x
      BY <1>1, <2>1, <2>3, <2>4, <2>5, StoredOfOther
    <2>6. CASE y = x
      <3>1. stored[x] \subseteq Stored(rows[type[x]])
        BY <1>1, <2>1, <2>6 DEF StoredOf
      <3>2. stored'[x] \subseteq Stored(rows'[type[x]])
        <4>1. CASE rows' = rows /\ stored'[x] = stored[x]
          BY <3>1, <4>1
        <4>2. CASE /\ \A t \in Types : \A e \in Days :
                        rows'[t][e] = IF t = type[x] /\ e = d THEN todo[x][d] ELSE rows[t][e]
                   /\ stored'[x] = stored[x] \cup {d}
          <5>1. d \in Stored(rows'[type[x]])
            BY <2>1, <2>2, <4>2 DEF Stored
          <5> QED BY <2>1, <2>3, <3>1, <4>2, <5>1
        <4> QED BY <2>2, <4>1, <4>2
      <3> QED BY <2>1, <2>6, <3>2 DEF StoredOf, Stored
    <2> QED BY <2>5, <2>6
  <1>4. ASSUME NEW w \in Workers, Clear(w) PROVE StoredOf(y)'
    <2>1. /\ pc[w] = "clear" /\ pc' = [pc EXCEPT ![w] = "fetch"] /\ UNCHANGED <<type, snap>>
          /\ \/ /\ stored'[y] = IF type[y] = "daily" THEN {} ELSE stored[y]
                /\ rows' = [rows EXCEPT !["daily"] = Empty]
             \/ stored' = stored /\ rows' = rows
      BY <1>4 DEF Clear, GoTo
    <2>2. /\ pc \in [Threads -> Stages] /\ rows \in [Types -> Series]
          /\ pc[y] # "idle" => type[y] \in Types
      BY TypeParts, ThreadType DEF ThreadsOK, TableOK
    <2>3. pc'[y] = IF y = w THEN "fetch" ELSE pc[y]
      BY <2>1, <2>2
    <2>4. CASE stored' = stored /\ rows' = rows
      BY <1>1, <2>1, <2>3, <2>4 DEF StoredOf, Stored
    <2>5. CASE ~(stored' = stored /\ rows' = rows) /\ type[y] = "daily"
      BY <2>1, <2>5 DEF StoredOf, Stored
    <2>6. CASE ~(stored' = stored /\ rows' = rows) /\ type[y] # "daily"
      <3>1. pc[y] # "idle" => rows'[type[y]] = rows[type[y]]
        BY <2>1, <2>2, <2>6
      <3> QED BY <1>1, <2>1, <2>3, <2>6, <3>1 DEF StoredOf, Stored
    <2> QED BY <2>4, <2>5, <2>6
  <1>5. CASE UNCHANGED <<rows, pc, type, todo, snap, stored>>
    BY <1>1, <1>5 DEF StoredOf, Stored
  <1> QED BY <1>2, <1>3, <1>4, <1>5, StepCases

(* A request is answered with every bar it stored itself, whatever the other
   requests and the updater do to the table between its INSERTs and its SELECT
   (get_history after insert_history in get_kline), except what the DELETE of a
   1-minute request takes away. *)
THEOREM OwnBarsAnswered == Spec => []AnswersWhatItStored
  <1>1. Init => StoredInv
    BY DEF Init, StoredInv, StoredOf
  <1>2. TypeInv /\ StoredInv /\ [Next]_vars => StoredInv'
    BY StoredStep
  <1>3. StoredInv => AnswersWhatItStored
    BY DEF StoredInv, StoredOf, AnswersWhatItStored, Threads
  <1> QED BY <1>1, <1>2, <1>3, TypeInvariant, PTL DEF Spec

-----------------------------------------------------------------------------
(* The recorded high. *)

(* A step that leaves the high and the series it is based on alone, and nobody's
   recomputation behind. *)
LEMMA HighKept ==
    ASSUME HighInv, UNCHANGED <<hist, basis, stale>>,
           basis # "none" => rows'[basis] = rows[basis],
           \A x \in Threads : Recomputes(x, basis) /\ rows[basis] # Empty => Recomputes(x, basis)'
    PROVE  HighInv'
  <1> SUFFICES ASSUME ~stale
               PROVE (~stale =>
                        /\ basis = "none" => hist = 0
                        /\ basis # "none" => /\ rows[basis] # Empty
                                             /\ \/ hist = Highest(rows[basis])
                                                \/ \E x \in Threads : Recomputes(x, basis))'
    BY DEF HighInv
  <1>1. CASE basis = "none"
    BY <1>1 DEF HighInv
  <1>2. CASE basis # "none"
    <2>1. rows'[basis'] = rows[basis] /\ rows[basis] # Empty /\ basis' # "none"
      BY <1>2 DEF HighInv
    <2>2. CASE hist = Highest(rows[basis])
      BY <2>1, <2>2 DEF Highest
    <2>3. CASE \E x \in Threads : Recomputes(x, basis)
      <3>1. \E x \in Threads : Recomputes(x, basis)'
        BY <2>1, <2>3
      <3> QED BY <2>1, <3>1 DEF Recomputes
    <2> QED BY <1>2, <2>2, <2>3 DEF HighInv
  <1> QED BY <1>1, <1>2

(* A thread goes on towards its recomputation, unless there is nothing to
   recompute from. *)
LEMMA HighKeptByThreads ==
    ASSUME TypeInv, HighInv, NEW x \in Threads,
           \/ x \in Workers /\ GetKline(x) /\ ~Clear(x) /\ ~WriteExtremes(x)
           \/ Fetch(x)
           \/ x = Updater /\ SelectMissing
    PROVE  HighInv'
  <1>1. /\ UNCHANGED <<rows, hist, basis, stale>>
        /\ pc[x] \in {"idle", "latest", "fetch", "read", "respond", "select"}
    BY DEF GetKline, Receive, CheckLatest, FetchThrows, ReadSeries, RespondEmpty, Fetch,
           SelectMissing, history
  <1>2. Moves(x)
    BY MovesStep
  <1>3. \A y \in Threads \ {x} : Recomputes(y, basis) => Recomputes(y, basis)'
    BY <1>1, <1>2 DEF Moves, Recomputes
  <1>4. ASSUME Recomputes(x, basis), rows[basis] # Empty PROVE Recomputes(x, basis)'
    <2>1. pc[x] = "read" /\ type[x] = basis
      BY <1>1, <1>4 DEF Recomputes
    <2>2. ReadSeries(x)
      BY <2>1 DEF GetKline, Receive, CheckLatest, FetchThrows, RespondEmpty, Fetch,
                  SelectMissing, Clear, WriteExtremes
    <2>3. ThreadsOK
      BY TypeParts
    <2>4. type' = type /\ snap'[x] = rows[type[x]]
      BY <2>2, <2>3 DEF ReadSeries, SeriesOf, ThreadsOK
    <2>5. GoTo(x, "extremes")
      BY <1>4, <2>1, <2>2, <2>4 DEF ReadSeries
    <2>6. pc'[x] = "extremes"
      BY <2>3, <2>5 DEF GoTo, ThreadsOK
    <2> QED BY <1>1, <2>1, <2>4, <2>6 DEF Recomputes
  <1> QED BY <1>1, <1>3, <1>4, HighKept

(* The INSERT of a bar of the series is followed by a recomputation of it. *)
LEMMA HighKeptByInsert ==
    ASSUME TypeInv, HighInv, NEW x \in Threads, InsertBar(x)
    PROVE  HighInv'
  <1>1. /\ type[x] \in Types /\ todo[x] \in Series /\ pc[x] = "insert" /\ type' = type
        /\ pc'[x] \in {"insert", "read", "again"}
        /\ \A y \in Threads \ {x} : pc'[y] = pc[y]
    BY InsertBarStep
  <1>2. PICK d \in Stored(todo[x]) :
          /\ d \in Days
          /\ \/ rows' = rows
             \/ \A t \in Types : \A e \in Days :
                  rows'[t][e] = IF t = type[x] /\ e = d THEN todo[x][d] ELSE rows[t][e]
    BY InsertBarStep
  <1>3. UNCHANGED <<hist, basis, stale>>
    BY DEF InsertBar
  <1>4. /\ rows \in [Types -> Series] /\ rows' \in [Types -> Series]
        /\ basis \in Types \cup {"none"}
    <2>1. [Next]_vars
      BY DEF Next
    <2> QED BY <2>1, TypeParts, RestStep DEF TableOK
  <1>5. \A y \in Threads \ {x} : Recomputes(y, basis) => Recomputes(y, basis)'
    BY <1>1, <1>3 DEF Recomputes
  <1>6. CASE basis # type[x]
    <2>1. basis # "none" => \A e \in Days : rows'[basis][e] = rows[basis][e]
      BY <1>2, <1>4, <1>6
    <2>2. basis # "none" => rows'[basis] = rows[basis]
      BY <1>4, <2>1 DEF Series
    <2>3. ~Recomputes(x, basis)
      BY <1>6 DEF Recomputes
    <2> QED BY <1>3, <1>5, <2>2, <2>3, HighKept
  <1>7. CASE basis = type[x]
    <2>1. Recomputes(x, basis)'
      BY <1>1, <1>3, <1>7 DEF Recomputes
    <2>2. rows[basis] # Empty => rows'[basis] # Empty
      <3>1. CASE rows' = rows
        BY <3>1
      <3>2. CASE \A t \in Types : \A e \in Days :
                   rows'[t][e] = IF t = type[x] /\ e = d THEN todo[x][d] ELSE rows[t][e]
        <4>1. rows'[basis][d] # 0
          BY <1>1, <1>2, <1>7, <3>2 DEF Stored
        <4> QED BY <1>1, <1>2, <1>4, <1>7, <4>1, NotEmpty
      <3> QED BY <1>2, <3>1, <3>2
    <2>3. basis # "none"
      BY <1>1, <1>7 DEF Types
    <2> QED BY <1>3, <2>1, <2>2, <2>3 DEF HighInv
  <1> QED BY <1>6, <1>7

(* UPDATE stocks by the updater; only it serves a pass. *)
LEMMA HighKeptByPass ==
    ASSUME TypeInv, HighInv, StartPass \/ EndPass
    PROVE  HighInv'
  <1>1. Updater \in Threads /\ ComputeExtremes /\ rows' = rows
    BY DEF StartPass, EndPass, Threads
  <1>2. Moves(Updater)
    BY <1>1, MovesStep
  <1>3. CASE rows["daily"] = Empty /\ UNCHANGED <<hist, basis, stale>>
    <2>1. \A y \in Threads \ {Updater} : Recomputes(y, basis) => Recomputes(y, basis)'
      BY <1>2, <1>3 DEF Moves, Recomputes
    <2>2. pc[Updater] \in {"idle", "again"}
      BY DEF StartPass, EndPass
    <2>3. pc[Updater] = "again" => type[Updater] = "daily"
      BY <1>1, ThreadType DEF Role, Fits
    <2>4. Recomputes(Updater, basis) => rows[basis] = Empty
      BY <1>3, <2>2, <2>3 DEF Recomputes
    <2> QED BY <1>1, <1>3, <2>1, <2>4, HighKept
  <1>4. CASE /\ rows["daily"] # Empty /\ hist' = Extreme(rows["daily"]) /\ basis' = "daily"
             /\ stale' = FALSE
    BY <1>1, <1>4 DEF HighInv, Extreme, Highest
  <1>5. CASE stale' = TRUE
    BY <1>5 DEF HighInv
  <1> QED BY <1>1, <1>3, <1>4, <1>5 DEF ComputeExtremes

LEMMA HighStep ==
    ASSUME TypeInv, HighInv, [Next]_vars
    PROVE  HighInv'
  <1>1. Workers \subseteq Threads /\ Updater \in Threads
    BY DEF Threads
  <1>2. ASSUME NEW w \in Workers, Clear(w) PROVE HighInv'
    <2>1. /\ pc[w] = "clear" /\ pc' = [pc EXCEPT ![w] = "fetch"] /\ type' = type
          /\ \/ /\ rows' = [rows EXCEPT !["daily"] = Empty]
                /\ stale' = (stale \/ (basis = "daily" /\ rows["daily"] # Empty))
             \/ rows' = rows /\ stale' = stale
          /\ UNCHANGED <<hist, basis>>
      BY <1>2 DEF Clear, GoTo
    <2>2. ThreadsOK /\ TableOK /\ stale \in BOOLEAN
      BY TypeParts DEF TableOK
    <2>3. CASE stale'
      BY <2>3 DEF HighInv
    <2>4. CASE ~stale'
      <3>1. stale' = stale
        BY <2>1, <2>2, <2>4
      <3>2. basis # "none" => basis # "daily" \/ rows' = rows
        BY <2>1, <2>4, <3>1 DEF HighInv
      <3>3. basis # "none" => rows'[basis] = rows[basis]
        BY <2>1, <2>2, <3>2 DEF TableOK
      <3>4. \A x \in Threads : Recomputes(x, basis) => Recomputes(x, basis)'
        BY <2>1, <2>2 DEF Recomputes, ThreadsOK
      <3> QED BY <2>1, <3>1, <3>3, <3>4, HighKept
    <2> QED BY <2>3, <2>4
  <1>3. ASSUME NEW w \in Workers, WriteExtremes(w) PROVE HighInv'
    <2>1. pc[w] = "extremes" /\ rows' = rows
      BY <1>3 DEF WriteExtremes
    <2>2. snap[w] # Empty /\ type[w] # "none"
      BY <1>1, <2>1, ThreadType DEF Fits
    <2>3. CASE stale'
      BY <2>3 DEF HighInv
    <2>4. CASE ~stale'
      <3>1. hist' = Highest(snap[w]) /\ basis' = type[w] /\ snap[w] = rows[type[w]]
        BY <1>3, <2>4 DEF WriteExtremes, Extreme
      <3> QED BY <2>1, <2>2, <3>1 DEF HighInv, Highest
    <2> QED BY <2>3, <2>4
  <1>4. CASE NextDay \/ Rise \/ UNCHANGED vars
    <2>1. UNCHANGED <<rows, hist, basis, stale, pc, type>>
      BY <1>4 DEF NextDay, Rise, vars, history
    <2> QED BY <2>1, HighKept DEF Recomputes
  <1>5. ASSUME NEW x \in Threads, Fetch(x) \/ InsertBar(x) PROVE HighInv'
    BY <1>5, HighKeptByThreads, HighKeptByInsert
  <1>6. ASSUME NEW w \in Workers, GetKline(w) PROVE HighInv'
    BY <1>1, <1>2, <1>3, <1>6, HighKeptByThreads
  <1>7. CASE SelectMissing
    BY <1>1, <1>7, HighKeptByThreads
  <1> QED BY <1>4, <1>5, <1>6, <1>7, HighKeptByPass DEF Next

(* With no thread at work the recorded high is the highest bar of the series it
   was last computed from: insert_history of any thread is followed by that
   thread's own UPDATE of high_hist. The exceptions are those HighFollowsSeries
   names: an UPDATE refused or made from rows changed since they were read, and
   clear_history of that series. *)
THEOREM HighOfItsSeries == Spec => []HighFollowsSeries
  <1>1. Init => HighInv
    BY DEF Init, HighInv
  <1>2. TypeInv /\ HighInv /\ [Next]_vars => HighInv'
    BY HighStep
  <1>3. TypeInv /\ HighInv => HighFollowsSeries
    BY DEF HighInv, HighFollowsSeries, Recomputes
  <1> QED BY <1>1, <1>2, <1>3, TypeInvariant, PTL DEF Spec

-----------------------------------------------------------------------------
(* Bars only get fresher. *)

(* The threads that insert bars are those that hold some. *)
LEMMA InsertersKept ==
    ASSUME TypeInv, [Next]_vars, NEW y \in Threads, todo'[y] = todo[y]
    PROVE  /\ pc'[y] = "insert" <=> pc[y] = "insert"
           /\ pc[y] = "insert" => type'[y] = type[y]
  <1>1. ThreadsOK /\ ThreadsOK'
    BY TypeParts, ThreadsStep
  <1>2. pc'[y] = "insert" <=> pc[y] = "insert"
    BY <1>1 DEF ThreadsOK, Fits
  <1>3. ASSUME NEW x \in Threads, Moves(x), pc'[y] = "insert" PROVE type'[y] = type[y]
    BY <1>3 DEF Moves
  <1>4. ASSUME NEW x \in Threads, InsertBar(x) PROVE type' = type
    BY <1>4 DEF InsertBar
  <1>5. ASSUME NEW w \in Workers, Clear(w) PROVE type' = type
    BY <1>5 DEF Clear
  <1> QED BY <1>2, <1>3, <1>4, <1>5, StepCases

(* Whatever is not a fetch or an INSERT leaves the bars to insert alone. *)
LEMMA OtherSteps ==
    ASSUME TypeInv, [Next]_vars
    PROVE  \/ \E x \in Threads : Fetch(x) \/ InsertBar(x)
           \/ /\ UNCHANGED <<todo, crossed>>
              /\ rows' = rows \/ rows' = [rows EXCEPT !["daily"] = Empty]
  <1>1. ASSUME NEW w \in Workers, GetKline(w)
        PROVE  /\ UNCHANGED <<todo, crossed>>
               /\ rows' = rows \/ rows' = [rows EXCEPT !["daily"] = Empty]
    BY <1>1 DEF GetKline, Receive, CheckLatest, Clear, FetchThrows, ReadSeries, WriteExtremes,
                RespondEmpty, history
  <1>2. CASE \/ StartPass \/ SelectMissing \/ EndPass \/ NextDay \/ Rise \/ UNCHANGED vars
    BY <1>2 DEF StartPass, SelectMissing, EndPass, NextDay, Rise, history, vars
  <1> QED BY <1>1, <1>2 DEF Next

(* What a fetch does. *)
LEMMA FetchStep ==
    ASSUME TypeInv, NEW x \in Threads, Fetch(x)
    PROVE  /\ type[x] \in Types /\ type' = type /\ rows' = rows
           /\ crossed \subseteq crossed'
           /\ \A y \in Threads \ {x} : todo'[y] = todo[y]
           /\ pc'[x] = "insert" =>
                /\ todo'[x] = Fetched(type[x])
                /\ \A y \in Threads \ {x} : pc[y] = "insert" /\ type[y] = type[x] =>
                     type[x] \in crossed'
  <1>1. pc[x] = "fetch" /\ ThreadsOK
    BY TypeParts DEF Fetch
  <1>2. type[x] \in Types /\ AfterInsert(x) # "insert"
    BY <1>1, ThreadType, AfterInsertFits
  <1>3. type' = type /\ rows' = rows
    BY DEF Fetch
  <1>4. CASE /\ todo' = [todo EXCEPT ![x] = Fetched(type[x])]
             /\ crossed' = IF \E y \in Threads \ {x} : pc[y] = "insert" /\ type[y] = type[x]
                           THEN crossed \cup {type[x]} ELSE crossed
    BY <1>1, <1>2, <1>3, <1>4 DEF ThreadsOK
  <1>5. CASE GoTo(x, AfterInsert(x)) /\ UNCHANGED <<todo, crossed>>
    <2>1. pc'[x] # "insert"
      BY <1>1, <1>2, <1>5 DEF GoTo, ThreadsOK
    <2> QED BY <1>2, <1>3, <1>5, <2>1
  <1> QED BY <1>4, <1>5 DEF Fetch

(* Quotes only rise, and days only come. *)
LEMMA ReachedLater ==
    ASSUME TypeInv, [Next]_vars, NEW t, NEW d \in Days, NEW high \in Nat,
           ReachedOn(t, d, high, today, quote)
    PROVE  ReachedOn(t, d, high, today', quote')
  <1>1. /\ today <= today' /\ today \in Nat /\ today' \in Nat
        /\ \A e \in Days : e <= today => quote[e] <= quote'[e]
        /\ \A e \in Days : quote[e] \in Nat /\ quote'[e] \in Nat
    BY MarketStep, DaysType DEF Series
  <1>2. CASE high = 0
    BY <1>2 DEF ReachedOn
  <1>3. CASE \E e \in Reach(t, d) : e <= today /\ high <= quote[e]
    <2>1. PICK e \in Reach(t, d) : e <= today /\ high <= quote[e]
      BY <1>3
    <2>2. e \in Days /\ e \in Nat
      BY <2>1, DaysType DEF Reach
    <2>3. e <= today' /\ high <= quote'[e]
      BY <1>1, <2>1, <2>2
    <2> QED BY <2>1, <2>3 DEF ReachedOn
  <1> QED BY <1>2, <1>3 DEF ReachedOn

LEMMA QuotedStep ==
    ASSUME TypeInv, QuotedInv, [Next]_vars
    PROVE  QuotedInv'
  <1>1. /\ rows \in [Types -> Series] /\ rows' \in [Types -> Series]
        /\ \A y \in Threads : todo[y] \in Series /\ todo'[y] \in Series
        /\ \A y \in Threads : pc[y] = "insert" => type[y] \in Types
    BY TypeParts, ThreadsStep, RestStep, ThreadType DEF TableOK, ThreadsOK
  <1>2. \A t \in Types : \A d \in Days : ReachedOn(t, d, rows[t][d], today', quote')
    <2> SUFFICES ASSUME NEW t \in Types, NEW d \in Days
                 PROVE  ReachedOn(t, d, rows[t][d], today', quote')
      OBVIOUS
    <2>1. rows[t][d] \in Nat /\ ReachedOn(t, d, rows[t][d], today, quote)
      BY <1>1, DaysType DEF QuotedInv, Series, Reached
    <2> QED BY <2>1, ReachedLater
  <1>3. ASSUME NEW y \in Threads, pc[y] = "insert", NEW d \in Days
        PROVE  ReachedOn(type[y], d, todo[y][d], today', quote')
    <2>1. todo[y][d] \in Nat /\ ReachedOn(type[y], d, todo[y][d], today, quote)
      BY <1>1, <1>3, DaysType DEF QuotedInv, Series, Reached
    <2> QED BY <2>1, ReachedLater
  <1>4. \A t \in Types : \A d \in Days : ReachedOn(t, d, 0, today', quote')
    BY DEF ReachedOn
  (* the bars of a thread that did not fetch them now *)
  <1>5. ASSUME NEW y \in Threads, todo'[y] = todo[y], pc'[y] = "insert", NEW d \in Days
        PROVE  ReachedOn(type'[y], d, todo'[y][d], today', quote')
    <2>1. pc[y] = "insert" /\ type'[y] = type[y]
      BY <1>5, InsertersKept
    <2> QED BY <1>3, <1>5, <2>1
  <1>6. CASE \E x \in Threads : Fetch(x)
    <2>1. PICK x \in Threads : Fetch(x)
      BY <1>6
    <2>2. /\ type[x] \in Types /\ type' = type /\ rows' = rows
          /\ \A y \in Threads \ {x} : todo'[y] = todo[y]
          /\ pc'[x] = "insert" => todo'[x] = Fetched(type[x])
      BY <2>1, FetchStep
    <2>3. ASSUME pc'[x] = "insert", NEW d \in Days
          PROVE  ReachedOn(type'[x], d, todo'[x][d], today', quote')
      <3>1. todo'[x] = Fetched(type[x]) /\ type'[x] = type[x]
        BY <2>2, <2>3
      <3>2. UNCHANGED market
        BY <2>1 DEF Fetch
      <3>3. d \in Stored(Fetched(type[x])) \/ todo'[x][d] = 0
        BY <3>1 DEF Stored
      <3>4. CASE d \in Stored(Fetched(type[x]))
        <4>1. \E e \in Reach(type[x], d) : e <= today /\ Fetched(type[x])[d] <= quote[e]
          BY <2>2, <3>4, FetchedType
        <4> QED BY <3>1, <3>2, <4>1 DEF ReachedOn, market
      <3> QED BY <2>2, <3>1, <3>3, <3>4 DEF ReachedOn
    <2> QED BY <1>2, <1>5, <2>2, <2>3 DEF QuotedInv, Reached
  <1>7. CASE \E x \in Threads : InsertBar(x)
    <2>1. PICK x \in Threads : InsertBar(x)
      BY <1>7
    <2>2. /\ type[x] \in Types /\ pc[x] = "insert" /\ type' = type
          /\ \A y \in Threads \ {x} : todo'[y] = todo[y]
      BY <2>1, InsertBarStep
    <2>3. PICK d \in Stored(todo[x]) :
            /\ d \in Days /\ \A e \in Days : todo'[x][e] = IF e = d THEN 0 ELSE todo[x][e]
            /\ \/ rows' = rows
               \/ \A t \in Types : \A e \in Days :
                    rows'[t][e] = IF t = type[x] /\ e = d THEN todo[x][d] ELSE rows[t][e]
      BY <2>1, InsertBarStep
    <2>4. \A e \in Days : ReachedOn(type'[x], e, todo'[x][e], today', quote')
      BY <1>3, <1>4, <2>2, <2>3
    <2>5. \A t \in Types : \A e \in Days : ReachedOn(t, e, rows'[t][e], today', quote')
      BY <1>2, <1>3, <2>2, <2>3
    <2> QED BY <1>5, <2>2, <2>4, <2>5 DEF QuotedInv, Reached
  <1>8. CASE /\ UNCHANGED todo
             /\ rows' = rows \/ rows' = [rows EXCEPT !["daily"] = Empty]
    <2>1. \A t \in Types : \A d \in Days : rows'[t][d] \in {0, rows[t][d]}
      BY <1>1, <1>8 DEF Empty
    <2>2. \A t \in Types : \A d \in Days : ReachedOn(t, d, rows'[t][d], today', quote')
      BY <1>2, <1>4, <2>1
    <2> QED BY <1>5, <1>8, <2>2 DEF QuotedInv, Reached
  <1> QED BY <1>6, <1>7, <1>8, OtherSteps

LEMMA FreshStep ==
    ASSUME TypeInv, QuotedInv, FreshInv, [Next]_vars
    PROVE  FreshInv'
  <1>1. /\ rows \in [Types -> Series] /\ rows' \in [Types -> Series]
        /\ \A y \in Threads : /\ todo[y] \in Series /\ todo'[y] \in Series
                              /\ pc'[y] = "insert" <=> todo'[y] # Empty
        /\ \A y \in Threads : pc[y] = "insert" => type[y] \in Types
    BY TypeParts, ThreadsStep, RestStep, ThreadType DEF TableOK, ThreadsOK, Fits
  <1>2. \A s \in Series : \A d \in Days : s[d] \in Nat
    BY DaysType DEF Series
  <1>3. ASSUME NEW y \in Threads, todo'[y] = todo[y], pc'[y] = "insert"
        PROVE  pc[y] = "insert" /\ type'[y] = type[y]
    BY <1>3, InsertersKept
  <1>4. CASE \E z \in Threads : Fetch(z)
    <2>1. PICK z \in Threads : Fetch(z)
      BY <1>4
    <2>2. /\ type[z] \in Types /\ type' = type /\ rows' = rows
          /\ crossed \subseteq crossed'
          /\ \A y \in Threads \ {z} : todo'[y] = todo[y]
          /\ pc'[z] = "insert" =>
               /\ todo'[z] = Fetched(type[z])
               /\ \A y \in Threads \ {z} : pc[y] = "insert" /\ type[y] = type[z] =>
                    type[z] \in crossed'
      BY <2>1, FetchStep
    <2>3. ASSUME NEW x \in Threads, NEW y \in Threads, pc'[x] = "insert", pc'[y] = "insert",
                 type'[x] = type'[y], x # y
          PROVE  type'[x] \in crossed'
      BY <1>3, <2>2, <2>3 DEF FreshInv
    <2>4. ASSUME NEW x \in Threads, pc'[x] = "insert", type'[x] \notin crossed',
                 NEW d \in Stored(todo'[x])
          PROVE  rows'[type'[x]][d] <= todo'[x][d]
      <3>1. CASE x # z
        BY <1>3, <2>2, <2>4, <3>1 DEF FreshInv
      <3>2. CASE x = z
        <4>1. todo'[x] = Fetched(type[x]) /\ type[x] \in Types /\ d \in Stored(Fetched(type[x]))
          BY <2>2, <2>4, <3>2
        <4>2. /\ \A e \in Reach(type[x], d) : e <= today => quote[e] <= Fetched(type[x])[d]
              /\ Fetched(type[x]) \in Series /\ d \in Days
          BY <4>1, FetchedType DEF Stored
        <4>3. /\ rows[type[x]][d] \in Nat /\ Fetched(type[x])[d] \in Nat
              /\ Reached(type[x], d, rows[type[x]][d])
          BY <1>1, <1>2, <4>1, <4>2 DEF QuotedInv
        <4>4. CASE rows[type[x]][d] = 0
          BY <2>2, <4>1, <4>3, <4>4
        <4>5. CASE \E e \in Reach(type[x], d) : e <= today /\ rows[type[x]][d] <= quote[e]
          <5>1. PICK e \in Reach(type[x], d) : e <= today /\ rows[type[x]][d] <= quote[e]
            BY <4>5
          <5>2. e \in Days
            BY <5>1, <4>2 DEF Reach
          <5>3. quote \in Series
            BY TypeParts DEF MarketOK
          <5>4. quote[e] \in Nat /\ quote[e] <= Fetched(type[x])[d]
            BY <1>2, <4>2, <5>1, <5>2, <5>3
          <5> QED BY <2>2, <4>1, <4>3, <5>1, <5>4
        <4> QED BY <4>3, <4>4, <4>5 DEF Reached, ReachedOn
      <3> QED BY <3>1, <3>2
    <2> QED BY <2>3, <2>4 DEF FreshInv
  <1>5. CASE \E z \in Threads : InsertBar(z)
    <2>1. PICK z \in Threads : InsertBar(z)
      BY <1>5
    <2>2. /\ type[z] \in Types /\ pc[z] = "insert" /\ type' = type
          /\ \A y \in Threads \ {z} : todo'[y] = todo[y]
          /\ pc'[z] = "insert" => pc[z] = "insert"
      BY <2>1, InsertBarStep
    <2>3. \A y \in Threads : pc'[y] = "insert" => pc[y] = "insert"
      BY <1>3, <2>2
    <2>4. crossed' = {t \in crossed : \E y \in Threads : type[y] = t /\ todo'[y] # Empty}
      BY <2>1 DEF InsertBar
    <2>5. ASSUME NEW x \in Threads, NEW y \in Threads, pc'[x] = "insert", pc'[y] = "insert",
                 type'[x] = type'[y], x # y
          PROVE  type'[x] \in crossed'
      BY <1>1, <2>2, <2>3, <2>4, <2>5 DEF FreshInv
    <2>6. PICK d \in Stored(todo[z]) :
            /\ d \in Days /\ \A e \in Days : todo'[z][e] = IF e = d THEN 0 ELSE todo[z][e]
            /\ \/ rows' = rows
               \/ \A t \in Types : \A e \in Days :
                    rows'[t][e] = IF t = type[z] /\ e = d THEN todo[z][d] ELSE rows[t][e]
      BY <2>1, InsertBarStep
    <2>7. ASSUME NEW x \in Threads, pc'[x] = "insert", type'[x] \notin crossed',
                 NEW e \in Stored(todo'[x])
          PROVE  rows'[type'[x]][e] <= todo'[x][e]
      <3>1. /\ pc[x] = "insert" /\ type[x] \in Types /\ e \in Days /\ type[x] \notin crossed
            /\ todo'[x][e] # 0
        BY <1>1, <2>2, <2>3, <2>4, <2>7 DEF Stored
      <3>2. CASE x = z
        <4>1. e # d /\ todo'[x][e] = todo[x][e] /\ e \in Stored(todo[x])
          BY <2>6, <3>1, <3>2 DEF Stored
        <4>2. rows'[type[x]][e] = rows[type[x]][e]
          BY <2>6, <3>1, <4>1
        <4> QED BY <2>2, <3>1, <4>1, <4>2 DEF FreshInv
      <3>3. CASE x # z
        <4>1. type[x] # type[z]
          BY <2>2, <3>1, <3>3 DEF FreshInv
        <4>2. rows'[type[x]][e] = rows[type[x]][e]
          BY <2>6, <3>1, <4>1
        <4>3. todo'[x] = todo[x]
          BY <2>2, <3>3
        <4> QED BY <2>2, <2>7, <3>1, <4>2, <4>3 DEF FreshInv
      <3> QED BY <3>2, <3>3
    <2> QED BY <2>5, <2>7 DEF FreshInv
  <1>6. CASE /\ UNCHANGED <<todo, crossed>>
             /\ rows' = rows \/ rows' = [rows EXCEPT !["daily"] = Empty]
    <2>1. \A t \in Types : \A d \in Days : rows'[t][d] <= rows[t][d]
      <3>1. \A t \in Types : \A d \in Days : rows'[t][d] \in {0, rows[t][d]} /\ rows[t][d] \in Nat
        BY <1>1, <1>2, <1>6 DEF Empty
      <3> QED BY <3>1
    <2>2. ASSUME NEW x \in Threads, pc'[x] = "insert", type'[x] \notin crossed',
                 NEW d \in Stored(todo'[x])
          PROVE  rows'[type'[x]][d] <= todo'[x][d]
      <3>1. /\ pc[x] = "insert" /\ type'[x] = type[x] /\ d \in Days /\ type[x] \in Types
            /\ d \in Stored(todo[x]) /\ type[x] \notin crossed
        BY <1>1, <1>3, <1>6, <2>2 DEF Stored
      <3>2. rows[type[x]][d] <= todo[x][d] /\ rows'[type[x]][d] <= rows[type[x]][d]
        BY <2>1, <3>1 DEF FreshInv
      <3>3. rows[type[x]][d] \in Nat /\ todo[x][d] \in Nat /\ rows'[type[x]][d] \in Nat
        BY <1>1, <1>2, <3>1
      <3> QED BY <1>6, <3>1, <3>2, <3>3
    <2>3. ASSUME NEW x \in Threads, NEW y \in Threads, pc'[x] = "insert", pc'[y] = "insert",
                 type'[x] = type'[y], x # y
          PROVE  type'[x] \in crossed'
      BY <1>3, <1>6, <2>3 DEF FreshInv
    <2> QED BY <2>2, <2>3 DEF FreshInv
  <1> QED BY <1>4, <1>5, <1>6, OtherSteps

(* insert_history overwrites a stored bar only with one at least as high, so long
   as no two threads insert bars of that series which they fetched at the same
   time; and clear_history is the only DELETE, of the daily series alone. *)
THEOREM BarsFreshen == Spec => BarsOnlyFreshen
  <1>1. Init => QuotedInv /\ FreshInv
    <2> SUFFICES ASSUME Init PROVE QuotedInv /\ FreshInv
      OBVIOUS
    <2>1. \A t \in Types : \A d \in Days : Reached(t, d, rows[t][d])
      BY DEF Init, Empty, Reached, ReachedOn
    <2>2. \A x \in Threads : pc[x] # "insert"
      BY DEF Init
    <2> QED BY <2>1, <2>2 DEF QuotedInv, FreshInv
  <1>2. TypeInv /\ QuotedInv /\ FreshInv /\ [Next]_vars => QuotedInv' /\ FreshInv'
    BY QuotedStep, FreshStep
  <1>3. TypeInv /\ FreshInv /\ [Next]_vars =>
          [\A t \in Types \ crossed : \A d \in Days :
              \/ rows'[t][d] >= rows[t][d]
              \/ t = "daily" /\ rows'[t] = Empty]_vars
    <2> SUFFICES ASSUME TypeInv, FreshInv, [Next]_vars,
                        NEW t \in Types \ crossed, NEW d \in Days
                 PROVE  rows'[t][d] >= rows[t][d] \/ (t = "daily" /\ rows'[t] = Empty)
      OBVIOUS
    <2>1. rows \in [Types -> Series] /\ rows[t][d] \in Nat
      BY TypeParts, DaysType DEF TableOK, Series
    <2>2. CASE rows' = rows
      BY <2>1, <2>2
    <2>3. CASE rows' = [rows EXCEPT !["daily"] = Empty]
      BY <2>1, <2>3
    <2>4. CASE \E x \in Threads : Fetch(x)
      BY <2>2, <2>4, FetchStep
    <2>5. ASSUME NEW x \in Threads, InsertBar(x) PROVE rows'[t][d] >= rows[t][d]
      <3>1. PICK e \in Stored(todo[x]) :
              \/ rows' = rows
              \/ rows'[t][d] = IF t = type[x] /\ d = e THEN todo[x][e] ELSE rows[t][d]
        BY <2>5, InsertBarStep
      <3>2. CASE t = type[x] /\ d = e
        <4>1. /\ pc[x] = "insert" /\ type[x] \notin crossed /\ todo[x][d] \in Nat
          BY <2>5, <3>2, InsertBarStep, DaysType DEF Series
        <4>2. rows[t][d] <= todo[x][d]
          BY <3>2, <4>1 DEF FreshInv
        <4> QED BY <2>1, <3>1, <3>2, <4>1, <4>2
      <3>3. CASE ~(t = type[x] /\ d = e)
        BY <2>1, <3>1, <3>3
      <3> QED BY <3>2, <3>3
    <2> QED BY <2>2, <2>3, <2>4, <2>5, OtherSteps
  <1> QED BY <1>1, <1>2, <1>3, TypeInvariant, PTL DEF Spec, BarsOnlyFreshen

=============================================================================
