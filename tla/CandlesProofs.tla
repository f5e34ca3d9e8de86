---------------------------- MODULE CandlesProofs ----------------------------
(***************************************************************************)
(* Proofs about Candles, for every calendar, window of the quotes service, *)
(* choice of trading days and shape of their bars.                         *)
(***************************************************************************)
EXTENDS Candles, DataTheorems, SequenceTheorems

-----------------------------------------------------------------------------
(* The inductive invariant.                                                *)

(* The candle sums up its days... *)
SumsUp(c) ==
    /\ c.open = c.date /\ c.date <= c.close
    /\ c.date \in TradingDays /\ c.close \in TradingDays
    /\ c.high = Max({shape[d].high : d \in Span(c)})
    /\ c.low = Min({shape[d].low : d \in Span(c)})
    /\ c.volume = SumFunction([d \in Span(c) |-> d])

(* ... of which only the first may open a week, or all are of one month... *)
Undivided(c) ==
    \A d \in Span(c) :
        IF type = "weekly" THEN d = c.date \/ ~IsMonday(d) ELSE Month(d) = Month(c.date)

(* ... and it starts and ends where a candle may. *)
Starts(c) == Opens(c.date) \/ c.date \in firsts
Ends(c) == Closes(c.close) \/ c.close \in lasts

Kept(c) == SumsUp(c) /\ Undivided(c) /\ Starts(c)

(* An earlier candle of the answer, of an earlier week or month. *)
Precedes(c, e) == c.close < e.date /\ Group(c.date) < Group(e.date)

(* The day has its place in a candle, or in a bar still to come. *)
Placed(d) == (\E c \in Made : d \in Span(c)) \/ \E b \in ToSet(bars) : d = b.date

(* What the service returned is a stretch of trading days without a gap. *)
AnswerInv ==
    /\ answer # {} /\ Max(answer) \in lasts
    /\ \A d, f \in answer : \A e \in TradingDays : d < e /\ e < f => e \in answer

(* The bars still to come are in order, and as the service has them. *)
BarsInv ==
    /\ \A i, j \in DOMAIN bars : i < j => bars[i].date < bars[j].date
    /\ \A i \in DOMAIN bars : bars[i].date \in answer /\ bars[i] = Bar(bars[i].date)
    /\ \A b \in ToSet(bars) : cur[1].close < b.date

(* The candles so far, one after the other, and the bars make up the answer. *)
MadeInv ==
    /\ \A c \in Made : Kept(c)
    /\ \A c \in ToSet(agg) : Ends(c)
    /\ \A c, e \in ToSet(agg) : c = e \/ Precedes(c, e) \/ Precedes(e, c)
    /\ \A c \in ToSet(agg) : \A e \in ToSet(cur) : Precedes(c, e)
    /\ \A d \in TradingDays : d \in answer <=> Placed(d)

LoopInv ==
    /\ pc # "idle" => AnswerInv /\ MadeInv
    /\ pc = "loop" => BarsInv

RowsInv == \A c \in rows : Kept(c) /\ Ends(c)

Inductive == TypeOK /\ LoopInv /\ RowsInv

-----------------------------------------------------------------------------
(* The calendar.                                                           *)

LEMMA DaysArePositive == Days \subseteq Nat \ {0} /\ IsFiniteSet(Days)
  <1>1. MaxDay \in Nat
    BY CalendarAssumption
  <1>2. IsFiniteSet(1 .. MaxDay)
    BY <1>1, FS_Interval
  <1> QED BY <1>1, <1>2 DEF Days

(* Division into spans of n days keeps the order, and a day on which a span
   starts is in a later one than every earlier day. *)
LEMMA DivisionInOrder ==
    ASSUME NEW n \in Nat \ {0}, NEW d \in Nat, NEW e \in Nat
    PROVE  /\ d \div n \in Nat
           /\ d <= e => d \div n <= e \div n
           /\ d < e /\ e % n = 0 => d \div n < e \div n
  <1> DEFINE a == d \div n
             b == e \div n
  <1>1. a \in Nat /\ b \in Nat
    OBVIOUS
  <1>2. d = n * a + (d % n) /\ d % n \in 0 .. n - 1
    OBVIOUS
  <1>3. e = n * b + (e % n) /\ e % n \in 0 .. n - 1
    OBVIOUS
  <1> HIDE DEF a, b
  <1>4. ASSUME b < a PROVE n * a >= n * b + n
    <2>1. PICK k \in Nat : a = b + 1 + k
      <3>1. a - b - 1 \in Nat /\ a = b + 1 + (a - b - 1)
        BY <1>1, <1>4
      <3> QED BY <3>1
    <2>2. n * a = n * b + n + n * k
      BY <1>1, <2>1
    <2>3. n * k >= 0 /\ n * k \in Int /\ n * b \in Int
      BY <1>1, <2>1
    <2> QED BY <2>2, <2>3
  <1>5. n * a \in Int /\ n * b \in Int
    BY <1>1
  <1>6. d <= e => a <= b
    <2> SUFFICES ASSUME d <= e, b < a PROVE FALSE
      BY <1>1
    <2>1. n * a >= n * b + n
      BY <1>4
    <2> QED BY <1>2, <1>3, <1>5, <2>1
  <1>7. d < e /\ e % n = 0 => a # b
    BY <1>1, <1>2, <1>3, <1>5
  <1>8. d < e /\ e % n = 0 => a < b
    BY <1>1, <1>6, <1>7
  <1> QED BY <1>1, <1>6, <1>8 DEF a, b

(* A group is a week or a month; the groups are in order. *)
LEMMA GroupsInOrder ==
    ASSUME NEW d \in Days, NEW e \in Days
    PROVE  /\ {Week(d), Month(d), Group(d)} \subseteq Nat
           /\ d <= e => Week(d) <= Week(e) /\ Month(d) <= Month(e) /\ Group(d) <= Group(e)
           /\ d < e /\ IsMonday(e) => Week(d) < Week(e)
  <1>1. d - 1 \in Nat /\ e - 1 \in Nat /\ d \in Nat /\ e \in Nat
    BY DaysArePositive
  <1>2. WeekDays \in Nat \ {0} /\ MonthDays \in Nat \ {0}
    BY CalendarAssumption
  <1>3. /\ (d - 1) \div WeekDays \in Nat
        /\ d - 1 <= e - 1 => (d - 1) \div WeekDays <= (e - 1) \div WeekDays
        /\ d - 1 < e - 1 /\ (e - 1) % WeekDays = 0 => (d - 1) \div WeekDays < (e - 1) \div WeekDays
    BY <1>1, <1>2, DivisionInOrder
  <1>4. /\ (d - 1) \div MonthDays \in Nat
        /\ d - 1 <= e - 1 => (d - 1) \div MonthDays <= (e - 1) \div MonthDays
    BY <1>1, <1>2, DivisionInOrder
  <1>5. Week(d) \in Nat /\ Month(d) \in Nat
    BY <1>3, <1>4 DEF Week, Month
  <1>6. d <= e => Week(d) <= Week(e) /\ Month(d) <= Month(e)
    BY <1>1, <1>3, <1>4 DEF Week, Month
  <1>7. d < e /\ IsMonday(e) => Week(d) < Week(e)
    BY <1>1, <1>3 DEF Week, IsMonday
  <1> QED BY <1>5, <1>6, <1>7 DEF Group

-----------------------------------------------------------------------------
(* Sequences of candles.                                                   *)

LEMMA Concatenated ==
    ASSUME NEW S, NEW s \in Seq(S), NEW x \in S
    PROVE  s \o <<x>> \in Seq(S) /\ ToSet(s \o <<x>>) = ToSet(s) \cup {x}
  <1>1. <<x>> \in Seq(S) /\ Len(<<x>>) = 1 /\ <<x>>[1] = x
    OBVIOUS
  <1>2. /\ s \o <<x>> \in Seq(S) /\ Len(s \o <<x>>) = Len(s) + 1
        /\ \A i \in 1 .. Len(s) + 1 :
             (s \o <<x>>)[i] = IF i <= Len(s) THEN s[i] ELSE x
    BY <1>1
  <1>3. DOMAIN (s \o <<x>>) = 1 .. Len(s) + 1 /\ DOMAIN s = 1 .. Len(s) /\ Len(s) \in Nat
    BY <1>2
  <1>4. ToSet(s \o <<x>>) \subseteq ToSet(s) \cup {x}
    BY <1>2, <1>3 DEF ToSet
  <1>5. ToSet(s) \subseteq ToSet(s \o <<x>>)
    <2> SUFFICES ASSUME NEW i \in 1 .. Len(s) PROVE s[i] \in ToSet(s \o <<x>>)
      BY <1>3 DEF ToSet
    <2>1. i \in DOMAIN (s \o <<x>>) /\ (s \o <<x>>)[i] = s[i]
      BY <1>2, <1>3
    <2> QED BY <2>1 DEF ToSet
  <1>6. x \in ToSet(s \o <<x>>)
    <2>1. Len(s) + 1 \in DOMAIN (s \o <<x>>) /\ (s \o <<x>>)[Len(s) + 1] = x
      BY <1>2, <1>3
    <2> QED BY <2>1 DEF ToSet
  <1> QED BY <1>2, <1>4, <1>5, <1>6

LEMMA Beheaded ==
    ASSUME NEW S, NEW s \in Seq(S), s # <<>>
    PROVE  /\ Head(s) \in S /\ Tail(s) \in Seq(S) /\ Head(s) = s[1] /\ 1 \in DOMAIN s
           /\ \A i \in DOMAIN Tail(s) : i + 1 \in DOMAIN s /\ Tail(s)[i] = s[i + 1]
           /\ DOMAIN Tail(s) \subseteq Nat \ {0} /\ DOMAIN s \subseteq Nat \ {0}
           /\ ToSet(s) = {Head(s)} \cup ToSet(Tail(s))
  <1>1. /\ Head(s) \in S /\ Tail(s) \in Seq(S) /\ Head(s) = s[1]
        /\ Len(s) \in Nat /\ Len(s) >= 1 /\ DOMAIN s = 1 .. Len(s)
    OBVIOUS
  <1>2. DOMAIN Tail(s) = 1 .. Len(s) - 1 /\ \A i \in 1 .. Len(s) - 1 : Tail(s)[i] = s[i + 1]
    OBVIOUS
  <1>3. ToSet(s) \subseteq {Head(s)} \cup ToSet(Tail(s))
    <2> SUFFICES ASSUME NEW i \in 1 .. Len(s), i # 1 PROVE s[i] \in ToSet(Tail(s))
      BY <1>1 DEF ToSet
    <2>1. i - 1 \in DOMAIN Tail(s) /\ Tail(s)[i - 1] = s[i]
      BY <1>1, <1>2
    <2> QED BY <2>1 DEF ToSet
  <1>4. {Head(s)} \cup ToSet(Tail(s)) \subseteq ToSet(s)
    <2>1. \A i \in DOMAIN Tail(s) : i + 1 \in DOMAIN s
      BY <1>1, <1>2
    <2> QED BY <1>1, <1>2, <2>1 DEF ToSet
  <1> QED BY <1>1, <1>2, <1>3, <1>4

LEMMA OneElement ==
    ASSUME NEW S, NEW s \in Seq(S), Len(s) = 1
    PROVE  s = <<s[1]>> /\ s[1] \in S /\ ToSet(s) = {s[1]}
  <1>1. DOMAIN s = {1} /\ s[1] \in S
    OBVIOUS
  <1> QED BY <1>1 DEF ToSet

-----------------------------------------------------------------------------
(* What a candle sums up.                                                  *)

LEMMA ValuesFinite ==
    ASSUME NEW S, IsFiniteSet(S), NEW f \in [S -> Int], NEW T,
           \A x \in S : f[x] \in T, \A t \in T : \E x \in S : f[x] = t
    PROVE  IsFiniteSet(T)
  <1>1. f \in [S -> T]
    OBVIOUS
  <1>2. f \in Surjection(S, T)
    BY <1>1 DEF Surjection
  <1> QED BY <1>2, FS_Surjection

LEMMA PairFinite ==
    ASSUME NEW a \in Int, NEW b \in Int
    PROVE  IsFiniteSet({a, b}) /\ {a, b} # {} /\ {a, b} \subseteq Int
  <1>1. IsFiniteSet({a}) /\ IsFiniteSet({b})
    BY FS_Singleton
  <1>2. {a, b} = {a} \cup {b}
    OBVIOUS
  <1>3. IsFiniteSet({a} \cup {b})
    BY <1>1, FS_Union
  <1>4. IsFiniteSet({a, b})
    BY <1>2, <1>3
  <1> QED BY <1>4

(* The greatest of a set and of one number more. *)
LEMMA MaxOneMore ==
    ASSUME NEW H, IsFiniteSet(H), H # {}, H \subseteq Int, NEW h \in Int
    PROVE  Max(H \cup {h}) = Max({Max(H), h})
  <1> DEFINE m == Max(H)
             n == Max({m, h})
  <1>1. m \in H /\ \A x \in H : x <= m
    BY MaxIs
  <1>2. m \in Int
    BY <1>1
  <1>3. IsFiniteSet({m, h}) /\ {m, h} # {} /\ {m, h} \subseteq Int
    BY <1>2, PairFinite
  <1>4. n \in {m, h} /\ \A x \in {m, h} : x <= n
    BY <1>3, MaxIs
  <1> HIDE DEF m, n
  <1>5. n \in H \cup {h} /\ n \in Int /\ H \cup {h} \subseteq Int
    BY <1>1, <1>2, <1>4
  <1>6. \A x \in H \cup {h} : x <= n
    BY <1>1, <1>2, <1>4, <1>5
  <1>7. Max(H \cup {h}) = n
    BY <1>5, <1>6, MaxIsOnly
  <1> QED BY <1>7 DEF m, n

LEMMA MinOneMore ==
    ASSUME NEW H, IsFiniteSet(H), H # {}, H \subseteq Int, NEW h \in Int
    PROVE  Min(H \cup {h}) = Min({Min(H), h})
  <1> DEFINE m == Min(H)
             n == Min({m, h})
  <1>1. m \in H /\ \A x \in H : m <= x
    BY MinIs
  <1>2. m \in Int
    BY <1>1
  <1>3. IsFiniteSet({m, h}) /\ {m, h} # {} /\ {m, h} \subseteq Int
    BY <1>2, PairFinite
  <1>4. n \in {m, h} /\ \A x \in {m, h} : n <= x
    BY <1>3, MinIs
  <1> HIDE DEF m, n
  <1>5. n \in H \cup {h} /\ n \in Int /\ H \cup {h} \subseteq Int
    BY <1>1, <1>2, <1>4
  <1>6. \A x \in H \cup {h} : n <= x
    BY <1>1, <1>2, <1>4, <1>5
  <1>7. Min(H \cup {h}) = n
    BY <1>5, <1>6, MinIsOnly
  <1> QED BY <1>7 DEF m, n

LEMMA SpanFinite ==
    ASSUME TypeOK, NEW c
    PROVE  /\ IsFiniteSet(Span(c)) /\ Span(c) \subseteq TradingDays
           /\ TradingDays \subseteq Days /\ TradingDays \subseteq Int /\ IsFiniteSet(TradingDays)
  <1>1. TradingDays \subseteq Days
    BY DEF TypeOK
  <1>2. Span(c) \subseteq TradingDays
    BY DEF Span
  <1>3. Days \subseteq Int /\ IsFiniteSet(Days)
    BY DaysArePositive
  <1>4. IsFiniteSet(TradingDays)
    BY <1>1, <1>3, FS_Subset
  <1>5. IsFiniteSet(Span(c))
    BY <1>2, <1>4, FS_Subset
  <1> QED BY <1>1, <1>2, <1>3, <1>4, <1>5

LEMMA ShapesOfDays ==
    ASSUME TypeOK, NEW d \in TradingDays
    PROVE  shape[d].high \in Int /\ shape[d].low \in Int /\ Bar(d) \in Candle
  <1>1. shape[d] \in [high : Int, low : Int]
    BY ShapesAssumption DEF TypeOK
  <1>2. d \in Days /\ d \in Nat
    BY DaysArePositive DEF TypeOK
  <1> QED BY <1>1, <1>2 DEF Bar, Candle

LEMMA MergedType ==
    ASSUME NEW c \in Candle, NEW b \in Candle
    PROVE  Merged(c, b) \in Candle
  <1>1. /\ c.high \in Int /\ c.low \in Int /\ c.volume \in Nat
        /\ b.high \in Int /\ b.low \in Int /\ b.volume \in Nat /\ b.close \in Days
    BY DEF Candle
  <1>2. ASSUME NEW x \in Int, NEW y \in Int
        PROVE  Max({x, y}) \in Int /\ Min({x, y}) \in Int
    <2>1. IsFiniteSet({x, y}) /\ {x, y} # {} /\ {x, y} \subseteq Int
      BY PairFinite
    <2>2. Max({x, y}) \in {x, y} /\ Min({x, y}) \in {x, y}
      BY <2>1, MaxIs, MinIs
    <2> QED BY <2>2
  <1>3. Max({c.high, b.high}) \in Int /\ Min({c.low, b.low}) \in Int
    BY <1>1, <1>2
  <1>4. c.volume + b.volume \in Nat
    BY <1>1
  <1> QED BY <1>1, <1>3, <1>4 DEF Merged, Candle

(* A bar is the candle of its day. *)
LEMMA BarSumsUp ==
    ASSUME TypeOK, NEW d \in TradingDays
    PROVE  Span(Bar(d)) = {d} /\ SumsUp(Bar(d)) /\ Undivided(Bar(d))
  <1>1. d \in Int /\ TradingDays \subseteq Int
    BY SpanFinite
  <1>2. Bar(d).date = d /\ Bar(d).close = d /\ Bar(d).open = d /\ Bar(d).volume = d
    BY DEF Bar
  <1>3. Span(Bar(d)) = {d}
    <2>1. \A x \in TradingDays : d <= x /\ x <= d <=> x = d
      BY <1>1
    <2> QED BY <1>2, <2>1 DEF Span
  <1>4. shape[d].high \in Int /\ shape[d].low \in Int
    BY ShapesOfDays
  <1>5. Bar(d).high = Max({shape[x].high : x \in {d}}) /\ Bar(d).low = Min({shape[x].low : x \in {d}})
    <2>1. {shape[x].high : x \in {d}} = {shape[d].high} /\ {shape[x].low : x \in {d}} = {shape[d].low}
      OBVIOUS
    <2>2. ASSUME NEW n \in Int PROVE Max({n}) = n /\ Min({n}) = n
      <3>1. {n} \subseteq Int /\ n \in {n} /\ \A x \in {n} : x <= n /\ n <= x
        OBVIOUS
      <3>2. Max({n}) = n
        BY <3>1, MaxIsOnly
      <3>3. Min({n}) = n
        BY <3>1, MinIsOnly
      <3> QED BY <3>2, <3>3
    <2> QED BY <1>4, <2>1, <2>2 DEF Bar
  <1>6. SumFunction([x \in {d} |-> x]) = d
    <2> DEFINE f == [x \in {} |-> x]
               g == [x \in {d} |-> x]
    <2>1. f \in [{} -> Int] /\ DOMAIN f = {} /\ g \in [{} \cup {d} -> Int] /\ g[d] = d
      BY <1>1
    <2>2. SumFunction(f) = 0
      BY <2>1, SumEmpty
    <2>3. IsFiniteSet({})
      BY FS_EmptySet
    <2>4. d \notin {} /\ \A y \in {} : g[y] = f[y]
      OBVIOUS
    <2> HIDE DEF f, g
    <2>5. SumFunction(g) = SumFunction(f) + g[d]
      BY <2>1, <2>3, <2>4, SumExtend
    <2>6. SumFunction(g) = d
      BY <1>1, <2>1, <2>2, <2>5
    <2> QED BY <2>6 DEF g
  <1>7. SumsUp(Bar(d))
    BY <1>1, <1>2, <1>3, <1>5, <1>6 DEF SumsUp
  <1>8. Undivided(Bar(d))
    BY <1>2, <1>3 DEF Undivided
  <1> QED BY <1>3, <1>7, <1>8

(* A merged candle sums up the days of the candle and the day of the bar, if no
   bar lies between them. *)
LEMMA MergedSumsUp ==
    ASSUME TypeOK, NEW c \in Candle, SumsUp(c), Undivided(c),
           NEW d \in TradingDays, c.close < d,
           \A e \in TradingDays : ~(c.close < e /\ e < d), ~Splits(c, Bar(d))
    PROVE  LET m == Merged(c, Bar(d))
           IN  /\ m.date = c.date /\ m.close = d /\ Span(m) = Span(c) \cup {d}
               /\ SumsUp(m) /\ Undivided(m)
  <1> DEFINE m == Merged(c, Bar(d))
             S == Span(c)
  <1>1. /\ m \in Candle /\ m.date = c.date /\ m.open = c.open /\ m.close = d
        /\ m.high = Max({c.high, shape[d].high}) /\ m.low = Min({c.low, shape[d].low})
        /\ m.volume = c.volume + d
    BY ShapesOfDays, MergedType DEF Merged, Bar, Candle
  <1>2. /\ IsFiniteSet(S) /\ S \subseteq TradingDays /\ TradingDays \subseteq Int
        /\ d \in Int /\ c.date \in Int /\ c.close \in Int /\ c.date <= c.close
        /\ c.open = c.date /\ c.date \in TradingDays
        /\ c.high = Max({shape[x].high : x \in S}) /\ c.low = Min({shape[x].low : x \in S})
        /\ c.volume = SumFunction([x \in S |-> x])
    BY SpanFinite DEF SumsUp
  <1>3. Span(m) = S \cup {d}
    <2>1. ASSUME NEW x \in TradingDays
          PROVE  c.date <= x /\ x <= d <=> (c.date <= x /\ x <= c.close) \/ x = d
      <3>1. x \in Int /\ ~(c.close < x /\ x < d)
        BY <1>2
      <3> QED BY <1>2, <3>1
    <2> QED BY <1>1, <2>1 DEF Span
  <1>4. d \notin S /\ c.date \in S
    BY <1>2 DEF Span
  <1> HIDE DEF m, S
  <1>5. ASSUME NEW x \in S \cup {d} PROVE shape[x].high \in Int /\ shape[x].low \in Int
    BY <1>2, ShapesOfDays
  <1>6. m.high = Max({shape[x].high : x \in S \cup {d}})
    <2> DEFINE H == {shape[x].high : x \in S}
               h == shape[d].high
    <2>1. IsFiniteSet(H)
      <3> DEFINE g == [x \in S |-> shape[x].high]
      <3>1. g \in [S -> Int] /\ IsFiniteSet(S)
        BY <1>2, <1>5
      <3>2. (\A x \in S : g[x] \in H) /\ \A t \in H : \E x \in S : g[x] = t
        OBVIOUS
      <3> HIDE DEF g, H
      <3> QED BY <3>1, <3>2, ValuesFinite
    <2>2. H # {} /\ H \subseteq Int /\ h \in Int
      BY <1>4, <1>5
    <2>3. {shape[x].high : x \in S \cup {d}} = H \cup {h}
      OBVIOUS
    <2>4. c.high = Max(H)
      BY <1>2
    <2> HIDE DEF H, h
    <2>5. Max(H \cup {h}) = Max({Max(H), h})
      BY <2>1, <2>2, MaxOneMore
    <2> QED BY <1>1, <2>3, <2>4, <2>5 DEF h
  <1>7. m.low = Min({shape[x].low : x \in S \cup {d}})
    <2> DEFINE L == {shape[x].low : x \in S}
               l == shape[d].low
    <2>1. IsFiniteSet(L)
      <3> DEFINE g == [x \in S |-> shape[x].low]
      <3>1. g \in [S -> Int] /\ IsFiniteSet(S)
        BY <1>2, <1>5
      <3>2. (\A x \in S : g[x] \in L) /\ \A t \in L : \E x \in S : g[x] = t
        OBVIOUS
      <3> HIDE DEF g, L
      <3> QED BY <3>1, <3>2, ValuesFinite
    <2>2. L # {} /\ L \subseteq Int /\ l \in Int
      BY <1>4, <1>5
    <2>3. {shape[x].low : x \in S \cup {d}} = L \cup {l}
      OBVIOUS
    <2>4. c.low = Min(L)
      BY <1>2
    <2> HIDE DEF L, l
    <2>5. Min(L \cup {l}) = Min({Min(L), l})
      BY <2>1, <2>2, MinOneMore
    <2> QED BY <1>1, <2>3, <2>4, <2>5 DEF l
  <1>8. m.volume = SumFunction([x \in S \cup {d} |-> x])
    <2> DEFINE f == [x \in S |-> x]
               g == [x \in S \cup {d} |-> x]
    <2>1. f \in [S -> Int] /\ g \in [S \cup {d} -> Int] /\ g[d] = d /\ \A y \in S : g[y] = f[y]
      BY <1>2
    <2>2. c.volume = SumFunction(f)
      BY <1>2
    <2> HIDE DEF f, g
    <2>3. IsFiniteSet(S) /\ d \notin S
      BY <1>2, <1>4
    <2>5. SumFunction(g) = SumFunction(f) + g[d]
      BY <2>1, <2>3, SumExtend
    <2>4. m.volume = SumFunction(g)
      BY <1>1, <2>1, <2>2, <2>5
    <2> QED BY <2>4 DEF g
  <1>9. SumsUp(m)
    <2>1. c.date <= d
      BY <1>2
    <2> QED BY <1>1, <1>2, <1>3, <1>6, <1>7, <1>8, <2>1 DEF SumsUp
  <1>10. Undivided(m)
    <2> SUFFICES ASSUME NEW x \in S \cup {d}
                 PROVE  IF type = "weekly" THEN x = c.date \/ ~IsMonday(x)
                                           ELSE Month(x) = Month(c.date)
      BY <1>1, <1>3 DEF Undivided
    <2>1. CASE x \in S
      BY <2>1 DEF Undivided, S
    <2>2. CASE x = d
      BY <2>2 DEF Splits, Bar
    <2> QED BY <2>1, <2>2
  <1> QED BY <1>1, <1>3, <1>9, <1>10 DEF m, S

-----------------------------------------------------------------------------
(* The steps.                                                              *)

LEMMA BarsFinite ==
    ASSUME TypeOK
    PROVE  IsFiniteSet(Bars) /\ Bars \subseteq TradingDays /\ Bars \subseteq Int
  <1>1. Bars \subseteq TradingDays
    BY DEF Bars
  <1>2. TradingDays \subseteq Int /\ IsFiniteSet(TradingDays)
    BY SpanFinite
  <1>3. IsFiniteSet(Bars)
    BY <1>1, <1>2, FS_Subset
  <1> QED BY <1>1, <1>2, <1>3

(* A request gets its bars in the order of their days. *)
LEMMA FetchIs ==
    ASSUME TypeOK, Fetch
    PROVE  \E n \in Nat \ {0} : \E r \in [1 .. n -> Bars] :
             /\ \A a, b \in 1 .. n : a < b => r[a] < r[b]
             /\ \A d \in Bars : \E a \in 1 .. n : r[a] = d
             /\ cur' = <<Bar(r[1])>> /\ Bar(r[1]) \in Candle
             /\ bars' \in Seq(Candle) /\ DOMAIN bars' = 1 .. n - 1
             /\ \A i \in 1 .. n - 1 : bars'[i] = Bar(r[i + 1])
  <1> DEFINE n == Cardinality(Bars)
             r == InOrder(Bars)
  <1>1. /\ n \in Nat /\ r \in [1 .. n -> Bars]
        /\ \A a, b \in 1 .. n : a < b => r[a] < r[b]
        /\ \A d \in Bars : \E a \in 1 .. n : r[a] = d
    BY BarsFinite, InOrderIs
  <1>2. Bars # {}
    BY DEF Fetch
  <1>3. cur' = <<Bar(r[1])>> /\ bars' = [i \in 1 .. Len(r) - 1 |-> Bar(r[i + 1])]
    BY DEF Fetch
  <1> HIDE DEF n, r
  <1>4. n # 0
    <2>1. PICK d \in Bars : TRUE
      BY <1>2
    <2>2. PICK a \in 1 .. n : r[a] = d
      BY <1>1, <2>1
    <2> QED BY <1>1, <2>2
  <1>5. Len(r) = n
    BY <1>1
  <1>6. \A a \in 1 .. n : Bar(r[a]) \in Candle
    <2> SUFFICES ASSUME NEW a \in 1 .. n PROVE Bar(r[a]) \in Candle
      OBVIOUS
    <2>1. r[a] \in TradingDays
      BY <1>1, BarsFinite
    <2> QED BY <2>1, ShapesOfDays
  <1>7. 1 \in 1 .. n /\ n - 1 \in Nat
    BY <1>1, <1>4
  <1>8. \A i \in 1 .. n - 1 : i + 1 \in 1 .. n
    BY <1>1
  <1>9. bars' = [i \in 1 .. n - 1 |-> Bar(r[i + 1])]
    BY <1>3, <1>5
  <1>10. bars' \in Seq(Candle)
    BY <1>6, <1>7, <1>8, <1>9
  <1>11. n \in Nat \ {0}
    BY <1>1, <1>4
  <1>12. Bar(r[1]) \in Candle
    BY <1>6, <1>7
  <1> QED BY <1>1, <1>3, <1>9, <1>10, <1>11, <1>12

LEMMA InitType == Init => TypeOK
  <1> SUFFICES ASSUME Init PROVE TypeOK
    OBVIOUS
  <1>1. PICK open \in SUBSET Days \ {{}} : shape \in [open -> Shapes]
    BY DEF Init
  <1>2. DOMAIN shape = open
    BY <1>1
  <1>3. 1 \in Days
    BY CalendarAssumption DEF Days
  <1>4. <<>> \in Seq(Candle) /\ Len(<<>>) = 0
    OBVIOUS
  <1> QED BY <1>1, <1>2, <1>3, <1>4 DEF Init, TypeOK, TradingDays

LEMMA StepType == TypeOK /\ [Next]_vars => TypeOK'
  <1> SUFFICES ASSUME TypeOK, [Next]_vars PROVE TypeOK'
    OBVIOUS
  <1>1. CASE NextDay
    <2>1. today' \in Days
      BY <1>1, CalendarAssumption DEF NextDay, TypeOK, Days
    <2> QED BY <1>1, <2>1 DEF NextDay, TypeOK, request, TradingDays
  <1>2. CASE Fetch
    <2>1. PICK n \in Nat \ {0} : \E r \in [1 .. n -> Bars] :
             /\ cur' = <<Bar(r[1])>> /\ Bar(r[1]) \in Candle
             /\ bars' \in Seq(Candle)
      BY <1>2, FetchIs
    <2>2. cur' \in Seq(Candle) /\ Len(cur') = 1
      BY <2>1
    <2>3. IsFiniteSet(Bars) /\ Bars \subseteq TradingDays /\ Bars \subseteq Int /\ Bars # {}
      BY <1>2, BarsFinite DEF Fetch
    <2>4. Min(Bars) \in TradingDays /\ Max(Bars) \in TradingDays
      BY <2>3, MinIs, MaxIs
    <2> QED BY <1>2, <2>1, <2>2, <2>3, <2>4 DEF Fetch, TypeOK, TradingDays
  <1>3. CASE Split
    <2>1. cur = <<cur[1]>> /\ cur[1] \in Candle
      BY <1>3, OneElement DEF Split, TypeOK
    <2>2. Head(bars) \in Candle /\ Tail(bars) \in Seq(Candle)
      BY <1>3 DEF Split, TypeOK
    <2>3. agg \o cur \in Seq(Candle)
      BY DEF TypeOK
    <2> QED BY <1>3, <2>2, <2>3 DEF Split, TypeOK, TradingDays
  <1>4. CASE Merge
    <2>1. cur = <<cur[1]>> /\ cur[1] \in Candle
      BY <1>4, OneElement DEF Merge, TypeOK
    <2>2. Head(bars) \in Candle /\ Tail(bars) \in Seq(Candle)
      BY <1>4 DEF Merge, TypeOK
    <2>3. Merged(cur[1], Head(bars)) \in Candle
      BY <2>1, <2>2, MergedType
    <2> QED BY <1>4, <2>2, <2>3 DEF Merge, TypeOK, TradingDays
  <1>5. CASE EndLoop
    <2>1. agg \o cur \in Seq(Candle)
      BY DEF TypeOK
    <2> QED BY <1>5, <2>1 DEF EndLoop, TypeOK, TradingDays
  <1>6. CASE Store
    <2>1. ToSet(agg) \subseteq Candle
      BY DEF TypeOK, ToSet
    <2>2. rows' \subseteq Candle
      BY <1>6, <2>1 DEF Store, TypeOK
    <2> QED BY <1>6, <2>2 DEF Store, TypeOK, TradingDays
  <1>7. CASE UNCHANGED vars
    BY <1>7 DEF vars, request, TypeOK, TradingDays
  <1> QED BY <1>1, <1>2, <1>3, <1>4, <1>5, <1>6, <1>7 DEF Next

(***************************************************************************)
(* fetch_kline keeps its shape: one candle under way while the loop runs   *)
(* and none otherwise, and only whole candles in the table.                *)
(***************************************************************************)
THEOREM TypeCorrect == Spec => []TypeOK
  BY InitType, StepType, PTL DEF Spec

-----------------------------------------------------------------------------
(* The loop.                                                               *)

(* What a request cannot change. *)
LEMMA Unchanging ==
    ASSUME shape' = shape, type' = type, firsts \subseteq firsts', lasts \subseteq lasts'
    PROVE  \A c : /\ Span(c)' = Span(c)
                  /\ Kept(c) => Kept(c)'
                  /\ Ends(c) => Ends(c)'
                  /\ \A e : Precedes(c, e) => Precedes(c, e)'
  <1> SUFFICES ASSUME NEW c
               PROVE  /\ Span(c)' = Span(c)
                      /\ Kept(c) => Kept(c)'
                      /\ Ends(c) => Ends(c)'
                      /\ \A e : Precedes(c, e) => Precedes(c, e)'
    OBVIOUS
  <1>1. Span(c)' = Span(c)
    BY DEF Span, TradingDays
  <1>2. SumsUp(c) => SumsUp(c)'
    BY <1>1 DEF SumsUp, TradingDays
  <1>3. Undivided(c) => Undivided(c)'
    BY <1>1 DEF Undivided
  <1>4. \A d : Opens(d)' = Opens(d) /\ Closes(d)' = Closes(d)
    BY DEF Opens, Closes, TradingDays
  <1>5. (Starts(c) => Starts(c)') /\ (Ends(c) => Ends(c)')
    BY <1>4 DEF Starts, Ends
  <1>6. \A e : Precedes(c, e) => Precedes(c, e)'
    BY DEF Precedes, Group
  <1> QED BY <1>1, <1>2, <1>3, <1>5, <1>6 DEF Kept

(* What a stretch of bars leaves out in between is not there. *)
LEMMA BarsWithoutGaps ==
    ASSUME TypeOK, NEW d \in Bars, NEW f \in Bars, NEW e \in TradingDays, d < e, e < f
    PROVE  e \in Bars
  <1> DEFINE past == {x \in TradingDays : x <= today}
             After(x) == {y \in past : y > x}
  <1>1. TradingDays \subseteq Int /\ IsFiniteSet(TradingDays) /\ today \in Int
    BY SpanFinite, DaysArePositive DEF TypeOK
  <1>2. d \in past /\ f \in past /\ Cardinality(After(d)) < Window
    BY DEF Bars
  <1>8. d \in Int /\ e \in Int /\ f \in Int /\ f <= today
    BY <1>1, <1>2
  <1>9. e <= today
    BY <1>1, <1>8
  <1>3. e \in past /\ After(e) \subseteq After(d)
    <2>1. \A y \in past : y > e => y > d
      BY <1>1, <1>8
    <2> QED BY <1>9, <2>1
  <1>4. IsFiniteSet(After(d))
    BY <1>1, FS_Subset
  <1>5. /\ Cardinality(After(e)) <= Cardinality(After(d))
        /\ Cardinality(After(e)) \in Nat /\ Cardinality(After(d)) \in Nat
    BY <1>3, <1>4, FS_Subset, FS_CardinalityType
  <1>6. Window \in Nat
    BY CalendarAssumption
  <1>7. Cardinality(After(e)) < Window
    BY <1>2, <1>5, <1>6
  <1> QED BY <1>3, <1>7 DEF Bars

LEMMA FetchLoop == TypeOK /\ Fetch => LoopInv'
  <1> SUFFICES ASSUME TypeOK, Fetch PROVE LoopInv'
    OBVIOUS
  <1>1. /\ pc' = "loop" /\ answer' = Bars /\ agg' = <<>> /\ shape' = shape /\ type' = type
        /\ firsts' = firsts \cup {Min(Bars)} /\ lasts' = lasts \cup {Max(Bars)} /\ Bars # {}
    BY DEF Fetch, TypeOK
  <1>2. IsFiniteSet(Bars) /\ Bars \subseteq TradingDays /\ Bars \subseteq Int
    BY BarsFinite
  <1>10. PICK n \in Nat \ {0} : \E r \in [1 .. n -> Bars] :
             /\ \A a, b \in 1 .. n : a < b => r[a] < r[b]
             /\ \A d \in Bars : \E a \in 1 .. n : r[a] = d
             /\ cur' = <<Bar(r[1])>> /\ Bar(r[1]) \in Candle
             /\ bars' \in Seq(Candle) /\ DOMAIN bars' = 1 .. n - 1
             /\ \A i \in 1 .. n - 1 : bars'[i] = Bar(r[i + 1])
    BY FetchIs
  <1>3. PICK r \in [1 .. n -> Bars] :
             /\ \A a, b \in 1 .. n : a < b => r[a] < r[b]
             /\ \A d \in Bars : \E a \in 1 .. n : r[a] = d
             /\ cur' = <<Bar(r[1])>> /\ Bar(r[1]) \in Candle
             /\ bars' \in Seq(Candle) /\ DOMAIN bars' = 1 .. n - 1
             /\ \A i \in 1 .. n - 1 : bars'[i] = Bar(r[i + 1])
    BY <1>10
  <1>4. 1 \in 1 .. n /\ r[1] \in Bars /\ \A i \in 1 .. n - 1 : i + 1 \in 1 .. n
    BY <1>3
  <1>11. \A a \in 1 .. n : r[a] \in Int
    BY <1>2, <1>3
  <1>5. \A d : Bar(d)' = Bar(d) /\ Bar(d).date = d /\ Bar(d).close = d
    BY <1>1 DEF Bar
  <1>6. AnswerInv'
    <2>1. \A d, f \in Bars : \A e \in TradingDays : d < e /\ e < f => e \in Bars
      BY BarsWithoutGaps
    <2> QED BY <1>1, <2>1 DEF AnswerInv, TradingDays
  <1>7. BarsInv'
    <2>1. \A i, j \in 1 .. n - 1 : i < j => bars'[i].date < bars'[j].date
      <3> SUFFICES ASSUME NEW i \in 1 .. n - 1, NEW j \in 1 .. n - 1, i < j
                   PROVE  bars'[i].date < bars'[j].date
        OBVIOUS
      <3>1. i + 1 \in 1 .. n /\ j + 1 \in 1 .. n /\ i + 1 < j + 1
        BY <1>4
      <3>2. r[i + 1] < r[j + 1]
        BY <1>3, <3>1
      <3> QED BY <1>3, <1>5, <3>2
    <2>2. \A i \in 1 .. n - 1 : bars'[i].date \in Bars /\ bars'[i] = Bar(bars'[i].date)
      <3> SUFFICES ASSUME NEW i \in 1 .. n - 1
                   PROVE  bars'[i].date \in Bars /\ bars'[i] = Bar(bars'[i].date)
        OBVIOUS
      <3>1. i + 1 \in 1 .. n /\ bars'[i] = Bar(r[i + 1])
        BY <1>3, <1>4
      <3> QED BY <1>3, <1>5, <3>1
    <2>3. \A i \in 1 .. n - 1 : cur'[1].close < bars'[i].date
      <3> SUFFICES ASSUME NEW i \in 1 .. n - 1 PROVE cur'[1].close < bars'[i].date
        OBVIOUS
      <3>1. i + 1 \in 1 .. n /\ 1 < i + 1 /\ bars'[i] = Bar(r[i + 1])
        BY <1>3, <1>4
      <3>2. cur'[1] = Bar(r[1])
        BY <1>3
      <3>3. r[1] < r[i + 1]
        BY <1>3, <1>4, <3>1
      <3> QED BY <1>5, <3>1, <3>2, <3>3
    <2> QED BY <1>1, <1>3, <1>5, <2>1, <2>2, <2>3 DEF BarsInv, ToSet
  <1>8. MadeInv'
    <2>10. PICK b : b = Bar(r[1])
      OBVIOUS
    <2>1. ToSet(cur') = {b} /\ ToSet(agg') = {} /\ Made' = {b}
      BY <1>1, <1>3, <2>10 DEF ToSet, Made
    <2>2. r[1] \in TradingDays
      BY <1>2, <1>4
    <2>3. Span(b) = {r[1]} /\ SumsUp(b) /\ Undivided(b)
      BY <2>2, <2>10, BarSumsUp
    <2>4. Min(Bars) = r[1]
      <3>1. \A x \in Bars : r[1] <= x
        <4> SUFFICES ASSUME NEW x \in Bars PROVE r[1] <= x
          OBVIOUS
        <4>1. PICK a \in 1 .. n : r[a] = x
          BY <1>3
        <4>2. CASE a = 1
          BY <1>2, <1>4, <4>1, <4>2
        <4>3. CASE a # 1
          <5>1. 1 < a
            BY <4>3
          <5>2. r[1] < x
            BY <1>3, <1>4, <4>1, <5>1
          <5> QED BY <1>4, <1>11, <4>1, <5>2
        <4> QED BY <4>2, <4>3
      <3> QED BY <1>2, <1>4, <3>1, MinIsOnly
    <2>5. SumsUp(b)' /\ Undivided(b)' /\ Span(b)' = {r[1]}
      <3>1. Span(b)' = Span(b)
        BY <1>1 DEF Span, TradingDays
      <3> QED BY <1>1, <2>3, <3>1 DEF SumsUp, Undivided, TradingDays
    <2>6. Starts(b)'
      BY <1>1, <1>5, <2>4, <2>10 DEF Starts
    <2>7. \A d \in TradingDays : d \in Bars \ {r[1]} <=> \E i \in 1 .. n - 1 : d = bars'[i].date
      <3>1. \A i \in 1 .. n - 1 : bars'[i].date = r[i + 1] /\ i + 1 \in 1 .. n
        BY <1>3, <1>4, <1>5
      <3>2. \A i \in 1 .. n - 1 : r[i + 1] \in Bars \ {r[1]}
        <4> SUFFICES ASSUME NEW i \in 1 .. n - 1 PROVE r[i + 1] \in Bars \ {r[1]}
          OBVIOUS
        <4>1. 1 < i + 1 /\ i + 1 \in 1 .. n
          BY <1>4
        <4>2. r[1] < r[i + 1] /\ r[i + 1] \in Bars
          BY <1>3, <1>4, <4>1
        <4> QED BY <1>4, <1>11, <4>1, <4>2
      <3>3. ASSUME NEW x \in Bars, x # r[1] PROVE \E i \in 1 .. n - 1 : r[i + 1] = x
        <4>1. PICK a \in 1 .. n : r[a] = x
          BY <1>3
        <4>2. a - 1 \in 1 .. n - 1 /\ (a - 1) + 1 = a
          BY <3>3, <4>1
        <4> QED BY <4>1, <4>2
      <3> QED BY <1>2, <3>1, <3>2, <3>3
    <2>8. (\A c \in Made : Kept(c))'
      BY <2>1, <2>5, <2>6 DEF Kept
    <2>9. (\A d \in TradingDays : d \in answer <=> Placed(d))'
      <3>1. \A d \in TradingDays : Placed(d)' <=> d = r[1] \/ \E i \in 1 .. n - 1 : d = bars'[i].date
        <4> SUFFICES ASSUME NEW d \in TradingDays
                     PROVE  Placed(d)' <=> d = r[1] \/ \E i \in 1 .. n - 1 : d = bars'[i].date
          OBVIOUS
        <4>1. (\E c \in Made : d \in Span(c))' <=> d = r[1]
          BY <2>1, <2>5
        <4>2. (\E x \in ToSet(bars) : d = x.date)' <=> \E i \in 1 .. n - 1 : d = bars'[i].date
          BY <1>3 DEF ToSet
        <4> QED BY <4>1, <4>2 DEF Placed
      <3>2. \A d \in TradingDays : d \in Bars <=> d = r[1] \/ \E i \in 1 .. n - 1 : d = bars'[i].date
        BY <1>4, <2>7
      <3> QED BY <1>1, <3>1, <3>2 DEF TradingDays
    <2> QED BY <2>1, <2>8, <2>9 DEF MadeInv
  <1> QED BY <1>1, <1>6, <1>7, <1>8 DEF LoopInv

(* The loop looks at the next bar: it is that of the next trading day after the
   candle under way, and the bars after it are later. *)
LEMMA NextBar ==
    ASSUME TypeOK, LoopInv, pc = "loop", bars # <<>>
    PROVE  \E c \in Candle : \E d \in TradingDays :
             /\ cur = <<c>> /\ ToSet(cur) = {c} /\ cur[1] = c /\ Head(bars) = Bar(d)
             /\ Kept(c) /\ c.close < d
             /\ \A e \in TradingDays : ~(c.close < e /\ e < d)
             /\ ToSet(bars) = {Bar(d)} \cup ToSet(Tail(bars))
             /\ \A b \in ToSet(Tail(bars)) : d < b.date
  <1>1. AnswerInv /\ MadeInv /\ BarsInv
    BY DEF LoopInv
  <1>2. cur \in Seq(Candle) /\ Len(cur) = 1 /\ bars \in Seq(Candle)
    BY DEF TypeOK
  <1>3. PICK c : c = cur[1]
    OBVIOUS
  <1>4. cur = <<c>> /\ c \in Candle /\ ToSet(cur) = {c} /\ cur[1] = c
    BY <1>2, <1>3, OneElement
  <1>5. PICK d : d = bars[1].date
    OBVIOUS
  <1>6. /\ Head(bars) = bars[1] /\ 1 \in DOMAIN bars /\ Head(bars) \in Candle
        /\ \A i \in DOMAIN Tail(bars) : i + 1 \in DOMAIN bars /\ Tail(bars)[i] = bars[i + 1]
        /\ DOMAIN Tail(bars) \subseteq Nat \ {0}
        /\ ToSet(bars) = {Head(bars)} \cup ToSet(Tail(bars))
    BY <1>2, Beheaded
  <1>7. d \in answer /\ bars[1] = Bar(d)
    BY <1>1, <1>5, <1>6 DEF BarsInv
  <1>8. d \in TradingDays
    BY <1>7 DEF TypeOK
  <1>9. c.close < d
    BY <1>1, <1>4, <1>5, <1>6 DEF BarsInv
  <1>10. \A b \in ToSet(Tail(bars)) : d < b.date
    <2> SUFFICES ASSUME NEW i \in DOMAIN Tail(bars) PROVE d < Tail(bars)[i].date
      BY DEF ToSet
    <2>1. i + 1 \in DOMAIN bars /\ Tail(bars)[i] = bars[i + 1] /\ 1 < i + 1
      BY <1>6
    <2>2. bars[1].date < bars[i + 1].date
      BY <1>1, <1>6, <2>1 DEF BarsInv
    <2> QED BY <1>5, <2>1, <2>2
  <1>11. c \in Made /\ Kept(c)
    BY <1>1, <1>4 DEF MadeInv, Made
  <1>12. /\ c.date \in TradingDays /\ c.close \in TradingDays /\ c.date <= c.close
         /\ TradingDays \subseteq Int
    BY <1>11, SpanFinite DEF Kept, SumsUp
  <1>13. c.close \in answer
    <2>1. c.close \in Span(c)
      <3>1. c.close \in Int
        BY <1>12
      <3>2. c.close <= c.close
        BY <3>1
      <3> QED BY <1>12, <3>2 DEF Span
    <2> QED BY <1>1, <1>11, <1>12, <2>1 DEF MadeInv, Placed
  <1>14. ASSUME NEW e \in TradingDays, c.close < e, e < d PROVE FALSE
    <2>1. e \in answer
      BY <1>1, <1>7, <1>13, <1>14 DEF AnswerInv
    <2>2. Placed(e)
      BY <1>1, <2>1 DEF MadeInv
    <2>3. e \in Int /\ d \in Int /\ c.close \in Int /\ c.date \in Int
      BY <1>8, <1>12
    <2>4. ASSUME NEW a \in Made, e \in Span(a) PROVE FALSE
      <3>1. CASE a \in ToSet(agg)
        <4>1. Precedes(a, c)
          BY <1>1, <1>4, <3>1 DEF MadeInv
        <4>2. a.close \in TradingDays /\ e <= a.close /\ a.close < c.date
          BY <1>1, <2>4, <4>1 DEF MadeInv, Kept, SumsUp, Span, Precedes
        <4>3. a.close \in Int
          BY <1>12, <4>2
        <4> QED BY <1>12, <1>14, <2>3, <4>2, <4>3
      <3>2. CASE a = c
        <4>1. e <= c.close
          BY <2>4, <3>2 DEF Span
        <4> QED BY <1>14, <2>3, <4>1
      <3> QED BY <1>4, <3>1, <3>2 DEF Made
    <2>5. PICK b \in ToSet(bars) : e = b.date
      BY <2>2, <2>4 DEF Placed
    <2>6. b = Head(bars) \/ b \in ToSet(Tail(bars))
      BY <1>6, <2>5
    <2>7. d <= e
      BY <1>5, <1>6, <1>10, <2>3, <2>5, <2>6
    <2> QED BY <1>14, <2>3, <2>7
  <1>15. ToSet(bars) = {Bar(d)} \cup ToSet(Tail(bars)) /\ Head(bars) = Bar(d)
    BY <1>6, <1>7
  <1> QED BY <1>4, <1>8, <1>9, <1>10, <1>11, <1>14, <1>15

(* The bars are left in order when the first of them is in the candle. *)
LEMMA BarsGoOn ==
    ASSUME TypeOK, LoopInv, pc = "loop", bars # <<>>,
           bars' = Tail(bars), answer' = answer, shape' = shape,
           cur'[1].close = Head(bars).date
    PROVE  BarsInv'
  <1>1. BarsInv /\ bars \in Seq(Candle)
    BY DEF LoopInv, TypeOK
  <1>2. /\ Head(bars) = bars[1] /\ 1 \in DOMAIN bars
        /\ \A i \in DOMAIN Tail(bars) : i + 1 \in DOMAIN bars /\ Tail(bars)[i] = bars[i + 1]
        /\ DOMAIN Tail(bars) \subseteq Nat \ {0}
    BY <1>1, Beheaded
  <1>3. \A d : Bar(d)' = Bar(d)
    BY DEF Bar
  <1>4. \A i, j \in DOMAIN Tail(bars) : i < j => Tail(bars)[i].date < Tail(bars)[j].date
    <2> SUFFICES ASSUME NEW i \in DOMAIN Tail(bars), NEW j \in DOMAIN Tail(bars), i < j
                 PROVE  Tail(bars)[i].date < Tail(bars)[j].date
      OBVIOUS
    <2>1. i + 1 < j + 1
      BY <1>2
    <2>2. bars[i + 1].date < bars[j + 1].date
      BY <1>1, <1>2, <2>1 DEF BarsInv
    <2> QED BY <1>2, <2>2
  <1>5. \A i \in DOMAIN Tail(bars) :
           Tail(bars)[i].date \in answer /\ Tail(bars)[i] = Bar(Tail(bars)[i].date)
    BY <1>1, <1>2 DEF BarsInv
  <1>6. \A i \in DOMAIN Tail(bars) : cur'[1].close < Tail(bars)[i].date
    <2> SUFFICES ASSUME NEW i \in DOMAIN Tail(bars) PROVE Head(bars).date < Tail(bars)[i].date
      OBVIOUS
    <2>1. 1 < i + 1
      BY <1>2
    <2>2. bars[1].date < bars[i + 1].date
      BY <1>1, <1>2, <2>1 DEF BarsInv
    <2> QED BY <1>2, <2>2
  <1> QED BY <1>3, <1>4, <1>5, <1>6 DEF BarsInv, ToSet

(* A bar that does not belong to the candle opens a week or month, a later one,
   and is that of the next trading day: the candle ends with its own. *)
LEMMA SplitApart ==
    ASSUME TypeOK, NEW c \in Candle, Kept(c), NEW d \in TradingDays, c.close < d,
           \A e \in TradingDays : ~(c.close < e /\ e < d), Splits(c, Bar(d))
    PROVE  Opens(d) /\ Closes(c.close) /\ Precedes(c, Bar(d))
  <1>1. Bar(d).date = d
    BY DEF Bar
  <1>2. /\ c.date \in TradingDays /\ c.close \in TradingDays /\ c.date <= c.close
        /\ TradingDays \subseteq Int /\ TradingDays \subseteq Days /\ Undivided(c)
    BY SpanFinite DEF Kept, SumsUp
  <1>7. c.date \in Int /\ c.close \in Int /\ d \in Int
    BY <1>2
  <1>3. c.date \in Int /\ c.close \in Int /\ d \in Int /\ c.date < d /\ c.close <= c.close
    BY <1>2, <1>7
  <1>4. c.close \in Span(c)
    BY <1>2, <1>3 DEF Span
  <1>5. Opens(d) /\ Group(c.date) < Group(d)
    <2>1. CASE type = "weekly"
      <3>1. IsMonday(d)
        BY <1>1, <2>1 DEF Splits
      <3>2. Week(c.date) < Week(d)
        BY <1>2, <1>3, <3>1, GroupsInOrder
      <3> QED BY <2>1, <3>1, <3>2 DEF Opens, Group
    <2>2. CASE type # "weekly"
      <3>1. Month(c.date) # Month(d) /\ Month(c.close) = Month(c.date)
        BY <1>1, <1>2, <1>4, <2>2 DEF Splits, Undivided
      <3>2. /\ Month(c.date) <= Month(d)
            /\ Month(c.date) \in Nat /\ Month(c.close) \in Nat /\ Month(d) \in Nat
        BY <1>2, <1>3, GroupsInOrder
      <3>3. ASSUME NEW e \in TradingDays, e < d PROVE Month(e) # Month(d)
        <4>1. e <= c.close
          BY <1>2, <1>3, <3>3
        <4>2. Month(e) <= Month(c.close) /\ Month(e) \in Nat
          BY <1>2, <4>1, GroupsInOrder
        <4> QED BY <3>1, <3>2, <4>2
      <3> QED BY <2>2, <3>1, <3>2, <3>3 DEF Opens, Group
    <2> QED BY <2>1, <2>2
  <1>6. Closes(c.close)
    <2> SUFFICES ASSUME NEW e \in TradingDays, e > c.close
                 PROVE  \E f \in TradingDays : c.close < f /\ f <= e /\ Opens(f)
      BY DEF Closes
    <2>1. d <= e
      BY <1>2, <1>3
    <2> QED BY <1>5, <2>1
  <1> QED BY <1>1, <1>5, <1>6 DEF Precedes

LEMMA SplitLoop == TypeOK /\ LoopInv /\ Split => LoopInv'
  <1> SUFFICES ASSUME TypeOK, LoopInv, Split PROVE LoopInv'
    OBVIOUS
  <1>1. /\ pc = "loop" /\ pc' = pc /\ bars # <<>> /\ Splits(cur[1], Head(bars))
        /\ agg' = agg \o cur /\ cur' = <<Head(bars)>> /\ bars' = Tail(bars)
        /\ answer' = answer /\ shape' = shape /\ type' = type
        /\ firsts' = firsts /\ lasts' = lasts
    BY DEF Split
  <1>2. AnswerInv /\ MadeInv /\ agg \in Seq(Candle)
    BY <1>1 DEF LoopInv, TypeOK
  <1>3. PICK c \in Candle, d \in TradingDays :
             /\ cur = <<c>> /\ ToSet(cur) = {c} /\ cur[1] = c /\ Head(bars) = Bar(d)
             /\ Kept(c) /\ c.close < d
             /\ \A e \in TradingDays : ~(c.close < e /\ e < d)
             /\ ToSet(bars) = {Bar(d)} \cup ToSet(Tail(bars))
             /\ \A b \in ToSet(Tail(bars)) : d < b.date
    BY <1>1, NextBar
  <1>4. PICK b : b = Bar(d)
    OBVIOUS
  <1>5. b.date = d /\ b.close = d
    BY <1>4 DEF Bar
  <1>6. Opens(d) /\ Closes(c.close) /\ Precedes(c, b)
    BY <1>1, <1>3, <1>4, SplitApart
  <1>7. Span(b) = {d} /\ Kept(b) /\ Ends(c)
    BY <1>3, <1>4, <1>5, <1>6, BarSumsUp DEF Kept, Starts, Ends
  <1>8. ToSet(agg') = ToSet(agg) \cup {c} /\ ToSet(cur') = {b} /\ cur'[1] = b
    <2>1. ToSet(<<b>>) = {b} /\ <<b>>[1] = b
      BY DEF ToSet
    <2> QED BY <1>1, <1>2, <1>3, <1>4, <2>1, Concatenated
  <1>9. Made' = Made \cup {b} /\ Made = ToSet(agg) \cup {c}
    BY <1>3, <1>8 DEF Made
  <1>10. \A x : /\ Span(x)' = Span(x) /\ (Kept(x) => Kept(x)') /\ (Ends(x) => Ends(x)')
                /\ \A e : Precedes(x, e) => Precedes(x, e)'
    BY <1>1, Unchanging
  <1>11. \A x \in ToSet(agg) : Precedes(x, c) /\ Precedes(x, b)
    <2> SUFFICES ASSUME NEW x \in ToSet(agg) PROVE Precedes(x, c) /\ Precedes(x, b)
      OBVIOUS
    <2>1. Precedes(x, c) /\ Kept(x)
      BY <1>2, <1>3, <1>9 DEF MadeInv
    <2>2. /\ {x.date, x.close, c.date, c.close, d} \subseteq TradingDays
          /\ TradingDays \subseteq Int /\ TradingDays \subseteq Days /\ c.date <= c.close
      BY <1>3, <2>1, SpanFinite DEF Kept, SumsUp
    <2>3. Group(x.date) \in Nat /\ Group(c.date) \in Nat /\ Group(d) \in Nat
      BY <2>2, GroupsInOrder
    <2>4. /\ x.close < c.date /\ Group(x.date) < Group(c.date)
          /\ c.close < d /\ Group(c.date) < Group(d)
      BY <1>5, <1>6, <2>1 DEF Precedes
    <2>5. {x.close, c.date, c.close, d} \subseteq Int
      BY <2>2
    <2>6. x.close < d
      BY <2>2, <2>4, <2>5
    <2>7. Group(x.date) < Group(d)
      BY <2>3, <2>4
    <2> QED BY <1>5, <2>1, <2>6, <2>7 DEF Precedes
  <1>12. AnswerInv'
    BY <1>1, <1>2 DEF AnswerInv, TradingDays
  <1>13. BarsInv'
    BY <1>1, <1>3, <1>4, <1>5, <1>8, BarsGoOn
  <1>14. MadeInv'
    <2>1. (\A x \in Made : Kept(x))'
      BY <1>2, <1>7, <1>9, <1>10 DEF MadeInv
    <2>2. (\A x \in ToSet(agg) : Ends(x))'
      BY <1>2, <1>7, <1>8, <1>10 DEF MadeInv
    <2>3. (\A x, e \in ToSet(agg) : x = e \/ Precedes(x, e) \/ Precedes(e, x))'
      <3>1. \A x, e \in ToSet(agg) \cup {c} : x = e \/ Precedes(x, e) \/ Precedes(e, x)
        BY <1>2, <1>11 DEF MadeInv
      <3> QED BY <1>8, <1>10, <3>1
    <2>4. (\A x \in ToSet(agg) : \A e \in ToSet(cur) : Precedes(x, e))'
      BY <1>6, <1>8, <1>10, <1>11
    <2>5. (\A x \in TradingDays : x \in answer <=> Placed(x))'
      <3> SUFFICES ASSUME NEW x \in TradingDays PROVE Placed(x)' <=> Placed(x)
        BY <1>1, <1>2 DEF MadeInv, TradingDays
      <3>1. (\E a \in Made : x \in Span(a))' <=> (\E a \in Made : x \in Span(a)) \/ x = d
        BY <1>7, <1>9, <1>10
      <3>2. (\E a \in ToSet(bars) : x = a.date) <=> x = d \/ (\E a \in ToSet(bars) : x = a.date)'
        BY <1>1, <1>3, <1>4, <1>5
      <3> QED BY <3>1, <3>2 DEF Placed
    <2> QED BY <2>1, <2>2, <2>3, <2>4, <2>5 DEF MadeInv
  <1> QED BY <1>1, <1>12, <1>13, <1>14 DEF LoopInv

LEMMA MergeLoop == TypeOK /\ LoopInv /\ Merge => LoopInv'
  <1> SUFFICES ASSUME TypeOK, LoopInv, Merge PROVE LoopInv'
    OBVIOUS
  <1>1. /\ pc = "loop" /\ pc' = pc /\ bars # <<>> /\ ~Splits(cur[1], Head(bars))
        /\ agg' = agg /\ cur' = <<Merged(cur[1], Head(bars))>> /\ bars' = Tail(bars)
        /\ answer' = answer /\ shape' = shape /\ type' = type
        /\ firsts' = firsts /\ lasts' = lasts
    BY DEF Merge
  <1>2. AnswerInv /\ MadeInv
    BY <1>1 DEF LoopInv
  <1>3. PICK c \in Candle, d \in TradingDays :
             /\ cur = <<c>> /\ ToSet(cur) = {c} /\ cur[1] = c /\ Head(bars) = Bar(d)
             /\ Kept(c) /\ c.close < d
             /\ \A e \in TradingDays : ~(c.close < e /\ e < d)
             /\ ToSet(bars) = {Bar(d)} \cup ToSet(Tail(bars))
             /\ \A b \in ToSet(Tail(bars)) : d < b.date
    BY <1>1, NextBar
  <1>4. PICK m : m = Merged(c, Bar(d))
    OBVIOUS
  <1>5. Bar(d).date = d
    BY DEF Bar
  <1>6. /\ m.date = c.date /\ m.close = d /\ Span(m) = Span(c) \cup {d}
        /\ SumsUp(m) /\ Undivided(m)
    BY <1>1, <1>3, <1>4, MergedSumsUp DEF Kept
  <1>7. Kept(m)
    BY <1>3, <1>6 DEF Kept, Starts
  <1>8. ToSet(cur') = {m} /\ cur'[1] = m
    <2>1. ToSet(<<m>>) = {m} /\ <<m>>[1] = m
      BY DEF ToSet
    <2> QED BY <1>1, <1>3, <1>4, <2>1
  <1>9. Made' = ToSet(agg) \cup {m} /\ Made = ToSet(agg) \cup {c}
    BY <1>1, <1>3, <1>8 DEF Made
  <1>10. \A x : /\ Span(x)' = Span(x) /\ (Kept(x) => Kept(x)') /\ (Ends(x) => Ends(x)')
                /\ \A e : Precedes(x, e) => Precedes(x, e)'
    BY <1>1, Unchanging
  <1>11. \A x \in ToSet(agg) : Precedes(x, m)
    BY <1>2, <1>3, <1>6 DEF MadeInv, Precedes
  <1>12. AnswerInv'
    BY <1>1, <1>2 DEF AnswerInv, TradingDays
  <1>13. BarsInv'
    BY <1>1, <1>3, <1>5, <1>6, <1>8, BarsGoOn
  <1>14. MadeInv'
    <2>1. (\A x \in Made : Kept(x))'
      BY <1>2, <1>7, <1>9, <1>10 DEF MadeInv
    <2>2. (\A x \in ToSet(agg) : Ends(x))'
      BY <1>1, <1>2, <1>10 DEF MadeInv
    <2>3. (\A x, e \in ToSet(agg) : x = e \/ Precedes(x, e) \/ Precedes(e, x))'
      BY <1>1, <1>2, <1>10 DEF MadeInv
    <2>4. (\A x \in ToSet(agg) : \A e \in ToSet(cur) : Precedes(x, e))'
      BY <1>1, <1>8, <1>10, <1>11
    <2>5. (\A x \in TradingDays : x \in answer <=> Placed(x))'
      <3> SUFFICES ASSUME NEW x \in TradingDays PROVE Placed(x)' <=> Placed(x)
        BY <1>1, <1>2 DEF MadeInv, TradingDays
      <3>1. (\E a \in Made : x \in Span(a))' <=> (\E a \in Made : x \in Span(a)) \/ x = d
        BY <1>6, <1>9, <1>10
      <3>2. (\E a \in ToSet(bars) : x = a.date) <=> x = d \/ (\E a \in ToSet(bars) : x = a.date)'
        BY <1>1, <1>3, <1>5
      <3> QED BY <3>1, <3>2 DEF Placed
    <2> QED BY <2>1, <2>2, <2>3, <2>4, <2>5 DEF MadeInv
  <1> QED BY <1>1, <1>12, <1>13, <1>14 DEF LoopInv

(* The candle under way at the end of the bars ends with the answer. *)
LEMMA EndOfLoop == TypeOK /\ LoopInv /\ EndLoop => LoopInv'
  <1> SUFFICES ASSUME TypeOK, LoopInv, EndLoop PROVE LoopInv'
    OBVIOUS
  <1>1. /\ pc = "loop" /\ pc' = "store" /\ bars = <<>> /\ bars' = bars
        /\ agg' = agg \o cur /\ cur' = <<>>
        /\ answer' = answer /\ shape' = shape /\ type' = type
        /\ firsts' = firsts /\ lasts' = lasts
    BY DEF EndLoop
  <1>2. AnswerInv /\ MadeInv /\ agg \in Seq(Candle)
    BY <1>1 DEF LoopInv, TypeOK
  <1>3. PICK c : c = cur[1]
    OBVIOUS
  <1>4. cur = <<c>> /\ c \in Candle /\ ToSet(cur) = {c}
    BY <1>1, <1>3, OneElement DEF TypeOK
  <1>5. Made = ToSet(agg) \cup {c} /\ Kept(c)
    BY <1>2, <1>4 DEF Made, MadeInv
  <1>6. ToSet(agg') = ToSet(agg) \cup {c} /\ ToSet(cur') = {} /\ ToSet(bars) = {}
    BY <1>1, <1>2, <1>4, Concatenated DEF ToSet
  <1>7. Made' = Made
    BY <1>5, <1>6 DEF Made
  <1>8. /\ c.date \in TradingDays /\ c.close \in TradingDays /\ c.date <= c.close
        /\ TradingDays \subseteq Int /\ answer \subseteq TradingDays
    BY <1>5, SpanFinite DEF Kept, SumsUp, TypeOK
  <1>17. c.close \in Int /\ c.date \in Int /\ answer \subseteq Int
    BY <1>8
  <1>9. c.close \in Int /\ c.date \in Int /\ answer \subseteq Int /\ c.close <= c.close
    BY <1>17
  <1>10. c.close \in answer
    <2>1. c.close \in Span(c)
      BY <1>8, <1>9 DEF Span
    <2> QED BY <1>2, <1>5, <1>8, <2>1 DEF MadeInv, Placed
  <1>11. ASSUME NEW x \in answer PROVE x <= c.close
    <2>1. Placed(x) /\ x \in Int
      BY <1>2, <1>8 DEF MadeInv
    <2>2. PICK a \in Made : x \in Span(a)
      BY <1>6, <2>1 DEF Placed
    <2>3. CASE a = c
      BY <2>2, <2>3 DEF Span
    <2>4. CASE a \in ToSet(agg)
      <3>1. x <= a.close /\ a.close \in TradingDays /\ a.close < c.date
        BY <1>2, <1>4, <2>2, <2>4 DEF MadeInv, Kept, SumsUp, Precedes, Span
      <3>2. a.close \in Int
        BY <1>8, <3>1
      <3> QED BY <1>8, <1>9, <2>1, <3>1, <3>2
    <2> QED BY <1>5, <2>2, <2>3, <2>4
  <1>12. Max(answer) = c.close
    BY <1>9, <1>10, <1>11, MaxIsOnly
  <1>13. Ends(c)
    BY <1>2, <1>12 DEF AnswerInv, Ends
  <1>14. \A x : /\ Span(x)' = Span(x) /\ (Kept(x) => Kept(x)') /\ (Ends(x) => Ends(x)')
                /\ \A e : Precedes(x, e) => Precedes(x, e)'
    BY <1>1, Unchanging
  <1>15. AnswerInv'
    BY <1>1, <1>2 DEF AnswerInv, TradingDays
  <1>16. MadeInv'
    <2>1. (\A x \in Made : Kept(x))'
      BY <1>2, <1>7, <1>14 DEF MadeInv
    <2>2. (\A x \in ToSet(agg) : Ends(x))'
      BY <1>2, <1>6, <1>13, <1>14 DEF MadeInv
    <2>3. (\A x, e \in ToSet(agg) : x = e \/ Precedes(x, e) \/ Precedes(e, x))'
      <3>1. \A x, e \in ToSet(agg) \cup {c} : x = e \/ Precedes(x, e) \/ Precedes(e, x)
        BY <1>2, <1>4 DEF MadeInv
      <3> QED BY <1>6, <1>14, <3>1
    <2>4. (\A x \in ToSet(agg) : \A e \in ToSet(cur) : Precedes(x, e))'
      BY <1>6
    <2>5. (\A x \in TradingDays : x \in answer <=> Placed(x))'
      <3>1. \A x : Placed(x)' <=> Placed(x)
        BY <1>1, <1>7, <1>14 DEF Placed
      <3> QED BY <1>1, <1>2, <3>1 DEF MadeInv, TradingDays
    <2> QED BY <2>1, <2>2, <2>3, <2>4, <2>5 DEF MadeInv
  <1> QED BY <1>1, <1>15, <1>16 DEF LoopInv

LEMMA InitInductive == Init => Inductive
  BY InitType DEF Init, Inductive, LoopInv, RowsInv

LEMMA StepInductive == Inductive /\ [Next]_vars => Inductive'
  <1> SUFFICES ASSUME Inductive, [Next]_vars PROVE Inductive'
    OBVIOUS
  <1>1. TypeOK /\ LoopInv /\ RowsInv /\ TypeOK'
    BY StepType DEF Inductive
  <1>2. ASSUME shape' = shape, type' = type, firsts \subseteq firsts', lasts \subseteq lasts',
               rows' = rows
        PROVE  RowsInv'
    BY <1>1, <1>2, Unchanging DEF RowsInv
  <1>3. CASE NextDay
    <2>1. RowsInv'
      BY <1>2, <1>3 DEF NextDay
    <2>2. LoopInv'
      BY <1>3 DEF NextDay, LoopInv, request
    <2> QED BY <1>1, <2>1, <2>2 DEF Inductive
  <1>4. CASE Fetch
    <2>1. RowsInv'
      BY <1>2, <1>4 DEF Fetch
    <2> QED BY <1>1, <1>4, <2>1, FetchLoop DEF Inductive
  <1>5. CASE Split
    <2>1. RowsInv'
      BY <1>2, <1>5 DEF Split
    <2> QED BY <1>1, <1>5, <2>1, SplitLoop DEF Inductive
  <1>6. CASE Merge
    <2>1. RowsInv'
      BY <1>2, <1>6 DEF Merge
    <2> QED BY <1>1, <1>6, <2>1, MergeLoop DEF Inductive
  <1>7. CASE EndLoop
    <2>1. RowsInv'
      BY <1>2, <1>7 DEF EndLoop
    <2> QED BY <1>1, <1>7, <2>1, EndOfLoop DEF Inductive
  <1>8. CASE Store
    <2>1. \A c \in ToSet(agg) : Kept(c) /\ Ends(c)
      BY <1>1, <1>8 DEF Store, LoopInv, MadeInv, Made
    <2>2. \A x : (Kept(x) => Kept(x)') /\ (Ends(x) => Ends(x)')
      BY <1>8, Unchanging DEF Store
    <2>3. rows' \subseteq rows \cup ToSet(agg)
      BY <1>8 DEF Store
    <2>4. RowsInv'
      BY <1>1, <2>1, <2>2, <2>3 DEF RowsInv
    <2>5. LoopInv'
      BY <1>8 DEF Store, LoopInv
    <2> QED BY <1>1, <2>4, <2>5 DEF Inductive
  <1>9. CASE UNCHANGED vars
    <2>1. RowsInv'
      BY <1>2, <1>9 DEF vars
    <2>2. LoopInv'
      <3>1. \A x : /\ Span(x)' = Span(x) /\ (Kept(x) => Kept(x)') /\ (Ends(x) => Ends(x)')
                   /\ \A e : Precedes(x, e) => Precedes(x, e)'
        BY <1>9, Unchanging DEF vars
      <3>2. (MadeInv => MadeInv') /\ (AnswerInv => AnswerInv') /\ (BarsInv => BarsInv')
        BY <1>9, <3>1 DEF vars, request, MadeInv, AnswerInv, BarsInv, Made, Placed, Bar, TradingDays
      <3> QED BY <1>1, <1>9, <3>2 DEF LoopInv, vars, request
    <2> QED BY <1>1, <2>1, <2>2 DEF Inductive
  <1> QED BY <1>3, <1>4, <1>5, <1>6, <1>7, <1>8, <1>9 DEF Next

THEOREM InductiveHolds == Spec => []Inductive
  BY InitInductive, StepInductive, PTL DEF Spec

-----------------------------------------------------------------------------
(* The properties.                                                         *)

LEMMA KeptWherever ==
    ASSUME Inductive, NEW c \in Made \cup rows
    PROVE  Kept(c)
  <1>1. pc = "idle" => Made = {}
    BY DEF Inductive, TypeOK, Made, ToSet
  <1> QED BY <1>1 DEF Inductive, LoopInv, MadeInv, RowsInv

LEMMA OneAfterTheOther ==
    ASSUME TypeOK, MadeInv, NEW c \in Made, NEW e \in Made, c # e
    PROVE  Precedes(c, e) \/ Precedes(e, c)
  <1>1. ~(c \in ToSet(cur) /\ e \in ToSet(cur))
    <2>1. Len(cur) \in {0, 1}
      BY DEF TypeOK
    <2> QED BY <2>1 DEF TypeOK, ToSet
  <1> QED BY <1>1 DEF MadeInv, Made

(***************************************************************************)
(* Whatever the bars look like, a candle opens with the first, closes with *)
(* the last, and reaches the highest high, the lowest low and the volume   *)
(* of all of its days: while the loop runs, finished, and stored.          *)
(***************************************************************************)
THEOREM CandlesSumUp == Spec => []CandlesSummarise
  <1>1. Inductive => CandlesSummarise
    BY KeptWherever DEF CandlesSummarise, Kept, SumsUp
  <1> QED BY <1>1, InductiveHolds, PTL

(***************************************************************************)
(* The loop puts every bar of the answer into one candle, for every number *)
(* of bars.                                                                *)
(***************************************************************************)
THEOREM EachBarInOnePlace == Spec => []EachBarOnce
  <1>1. Inductive => EachBarOnce
    <2> SUFFICES ASSUME Inductive, pc # "idle"
                 PROVE  LET places == {Span(c) : c \in Made} \cup {{b.date} : b \in ToSet(bars)}
                        IN  /\ UNION places = answer
                            /\ \A p, q \in places : p # q => p \cap q = {}
      BY DEF EachBarOnce
    <2> DEFINE spans == {Span(c) : c \in Made}
               days == {{b.date} : b \in ToSet(bars)}
    <2>1. MadeInv /\ TypeOK /\ (pc = "loop" => BarsInv) /\ answer \subseteq TradingDays
      BY DEF Inductive, LoopInv, TypeOK
    <2>2. TradingDays \subseteq Int
      BY <2>1, SpanFinite
    <2>3. ASSUME NEW c \in Made
          PROVE  /\ c.date \in Int /\ c.close \in Int /\ c.date <= c.close
                 /\ \A x \in Span(c) : x \in Int /\ c.date <= x /\ x <= c.close /\ x \in answer
      <3>1. c.date \in TradingDays /\ c.close \in TradingDays /\ c.date <= c.close
        BY <2>1 DEF MadeInv, Kept, SumsUp
      <3>2. \A x \in Span(c) : x \in TradingDays /\ c.date <= x /\ x <= c.close
        BY DEF Span
      <3> QED BY <2>1, <2>2, <3>1, <3>2 DEF MadeInv, Placed
    <2>4. ASSUME NEW b \in ToSet(bars)
          PROVE  b.date \in answer /\ \A c \in Made : c.close < b.date
      <3>1. pc = "loop" /\ BarsInv
        <4>1. bars # <<>>
          BY DEF ToSet
        <4> QED BY <2>1, <4>1 DEF TypeOK
      <3>2. b.date \in answer /\ cur[1].close < b.date
        BY <3>1 DEF BarsInv, ToSet
      <3>3. ToSet(cur) = {cur[1]}
        BY <2>1, <3>1, OneElement DEF TypeOK
      <3>4. b.date \in Int /\ cur[1] \in Made
        BY <2>1, <2>2, <3>2, <3>3 DEF Made
      <3>5. ASSUME NEW c \in ToSet(agg) PROVE c.close < b.date
        <4>1. c.close < cur[1].date /\ c \in Made
          BY <2>1, <3>3 DEF MadeInv, Precedes, Made
        <4>2. /\ c.close \in Int /\ cur[1].date \in Int /\ cur[1].close \in Int
              /\ cur[1].date <= cur[1].close
          BY <2>3, <3>4, <4>1
        <4> QED BY <3>2, <3>4, <4>1, <4>2
      <3> QED BY <3>2, <3>3, <3>5 DEF Made
    <2>5. ASSUME NEW c \in Made, NEW e \in Made, c # e
          PROVE  Precedes(c, e) \/ Precedes(e, c)
      BY <2>1, <2>5, OneAfterTheOther
    <2>6. ASSUME NEW c \in Made, NEW e \in Made, c # e PROVE Span(c) \cap Span(e) = {}
      <3> SUFFICES ASSUME NEW x, x \in Span(c), x \in Span(e) PROVE FALSE
        OBVIOUS
      <3>1. c.close < e.date \/ e.close < c.date
        BY <2>5, <2>6 DEF Precedes
      <3>2. /\ x \in Int /\ c.date <= x /\ x <= c.close /\ e.date <= x /\ x <= e.close
            /\ c.close \in Int /\ e.close \in Int /\ c.date \in Int /\ e.date \in Int
        BY <2>3
      <3> QED BY <3>1, <3>2
    <2>7. ASSUME NEW c \in Made, NEW b \in ToSet(bars) PROVE b.date \notin Span(c)
      <3>1. c.close < b.date
        BY <2>4
      <3>2. b.date \in Span(c) => b.date \in Int /\ b.date <= c.close /\ c.close \in Int
        BY <2>3
      <3> QED BY <3>1, <3>2
    <2>8. UNION (spans \cup days) = answer
      <3>1. UNION (spans \cup days) \subseteq answer
        BY <2>3, <2>4
      <3>2. ASSUME NEW x \in answer PROVE x \in UNION (spans \cup days)
        BY <2>1 DEF MadeInv, Placed
      <3> QED BY <3>1, <3>2
    <2>9. \A p, q \in spans \cup days : p # q => p \cap q = {}
      BY <2>6, <2>7
    <2> QED BY <2>8, <2>9
  <1> QED BY <1>1, InductiveHolds, PTL

(***************************************************************************)
(* For every calendar and every choice of trading days, a candle covers    *)
(* days of one week or month, but for weeks whose Monday has no bar, and   *)
(* two candles of an answer are of different ones.                         *)
(***************************************************************************)
THEOREM CalendarFollowed == Spec => []CandlesFollowCalendar
  <1>1. Inductive => CandlesFollowCalendar
    <2> SUFFICES ASSUME Inductive PROVE CandlesFollowCalendar
      OBVIOUS
    <2>1. TypeOK /\ (pc # "idle" => MadeInv) /\ (pc = "idle" => Made = {})
      BY DEF Inductive, LoopInv, TypeOK, Made, ToSet
    <2>2. ASSUME NEW c \in Made \cup rows, NEW d \in Span(c)
          PROVE  Group(d) = Group(c.date) \/ (type = "weekly" /\ ~MondayTrades(d))
      <3>1. /\ c.date \in TradingDays /\ c.close \in TradingDays /\ Undivided(c)
            /\ d \in TradingDays /\ c.date <= d /\ d <= c.close
            /\ TradingDays \subseteq Days /\ TradingDays \subseteq Int
        BY <2>1, KeptWherever, SpanFinite DEF Kept, SumsUp, Span
      <3>2. CASE type # "weekly"
        BY <3>1, <3>2 DEF Undivided, Group
      <3>3. ASSUME type = "weekly", Week(d) # Week(c.date), MondayTrades(d) PROVE FALSE
        <4>1. PICK e \in TradingDays : Week(e) = Week(d) /\ IsMonday(e)
          BY <3>3 DEF MondayTrades
        <4>2. /\ d \in Int /\ e \in Int /\ c.date \in Int /\ c.close \in Int
              /\ d \in Days /\ e \in Days /\ c.date \in Days
          BY <3>1, <4>1
        <4>3. Week(c.date) \in Nat /\ Week(d) \in Nat /\ Week(e) \in Nat
          BY <4>2, GroupsInOrder
        <4>4. Week(c.date) <= Week(d)
          BY <3>1, <4>2, GroupsInOrder
        <4>5. c.date < e
          <5>1. e <= c.date => Week(e) <= Week(c.date)
            BY <4>2, GroupsInOrder
          <5> QED BY <3>3, <4>1, <4>2, <4>3, <4>4, <5>1
        <4>6. e <= d
          <5>1. d < e => Week(d) < Week(e)
            BY <4>1, <4>2, GroupsInOrder
          <5> QED BY <4>1, <4>2, <4>3, <5>1
        <4>7. c.date <= e /\ e <= c.close /\ e # c.date
          BY <3>1, <4>2, <4>5, <4>6
        <4>8. e \in Span(c)
          BY <4>7 DEF Span
        <4> QED BY <3>1, <3>3, <4>1, <4>7, <4>8 DEF Undivided
      <3> QED BY <3>2, <3>3 DEF Group
    <2>3. ASSUME NEW c \in Made, NEW e \in Made, c # e PROVE Group(c.date) # Group(e.date)
      <3>1. MadeInv
        BY <2>1
      <3>2. Precedes(c, e) \/ Precedes(e, c)
        BY <2>1, <2>3, <3>1, OneAfterTheOther
      <3>3. c.date \in Days /\ e.date \in Days
        BY <2>1, KeptWherever DEF Kept, SumsUp, TypeOK
      <3>4. Group(c.date) \in Nat /\ Group(e.date) \in Nat
        BY <3>3, GroupsInOrder
      <3> QED BY <3>2, <3>4 DEF Precedes
    <2> QED BY <2>2, <2>3 DEF CandlesFollowCalendar
  <1> QED BY <1>1, InductiveHolds, PTL

(***************************************************************************)
(* For every window of the quotes service, stored candles are cut off only *)
(* where an answer began or ended.                                         *)
(***************************************************************************)
THEOREM OnlyEdgesPartial == Spec => []PartialOnlyAtEdges
  <1>1. Inductive => PartialOnlyAtEdges
    BY DEF Inductive, RowsInv, Kept, Starts, Ends, PartialOnlyAtEdges
  <1> QED BY <1>1, InductiveHolds, PTL
=============================================================================
