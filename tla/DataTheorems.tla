---------------------------- MODULE DataTheorems ----------------------------
(***************************************************************************)
(* What the data operators of the specifications compute: the sum of the   *)
(* values of a function with a finite domain (what the requests in flight  *)
(* amount to together), the greatest element of a finite set, and a finite *)
(* set of numbers in ascending order. Each is proved by well-founded       *)
(* induction on finite sets under strict inclusion, in the form of a       *)
(* smallest counterexample.                                                *)
(***************************************************************************)
EXTENDS Ordering, Functions, FiniteSetsExt, FiniteSetTheorems, WellFoundedInduction, TLAPS

(* A non-empty collection of subsets of a finite set has a smallest one. *)
LEMMA SmallestSubset ==
    ASSUME NEW S, IsFiniteSet(S), NEW C \in SUBSET SUBSET S, C # {}
    PROVE  \E T \in C : \A U \in C : U \subseteq T => U = T
  <1>1. IsWellFoundedOn(StrictSubsetOrdering(S), FiniteSubsetsOf(S))
    BY FS_StrictSubsetOrderingWellFounded
  <1>2. C \subseteq FiniteSubsetsOf(S)
    BY FS_FiniteSubsetsOfFinite
  <1>3. PICK T \in C : \A U \in C : ~(<<U, T>> \in StrictSubsetOrdering(S))
    BY <1>1, <1>2, WFMin
  <1> QED BY <1>3 DEF StrictSubsetOrdering

-----------------------------------------------------------------------------
(* The library's recursion: take an element out and add its value.          *)

Picked(s) == CHOOSE x \in s : TRUE

Added(f, h, s) == IF s = {} THEN 0 ELSE f[Picked(s)] + h[s \ {Picked(s)}]

(* h follows the recursion on the subsets of S ... *)
Follows(f, S, h) == \A s \in SUBSET S : h[s] = Added(f, h, s)

(* ... and gives each of them a number. *)
Sums(f, S, h) == h \in [SUBSET S -> Int] /\ Follows(f, S, h)

LEMMA SumUnfold ==
    ASSUME NEW f
    PROVE  SumFunction(f)
             = (CHOOSE h : h = [s \in SUBSET DOMAIN f |-> Added(f, h, s)])[DOMAIN f]
  BY DEF SumFunction, SumFunctionOnSet, FoldFunctionOnSet, MapThenFoldSet, Added, Picked

LEMMA PickedIn == \A s : s # {} => Picked(s) \in s
  BY DEF Picked

(* Two ways to give the subsets their sums agree. *)
LEMMA SumsAgree ==
    ASSUME NEW S, IsFiniteSet(S), NEW f, NEW g, NEW h,
           Follows(f, S, g), Follows(f, S, h)
    PROVE  \A s \in SUBSET S : g[s] = h[s]
  <1> SUFFICES ASSUME NEW t \in SUBSET S, g[t] # h[t] PROVE FALSE
    OBVIOUS
  <1> DEFINE C == {s \in SUBSET S : g[s] # h[s]}
  <1>1. PICK T \in C : \A U \in C : U \subseteq T => U = T
    <2>1. C \in SUBSET SUBSET S /\ C # {}
      OBVIOUS
    <2> HIDE DEF C
    <2> QED BY <2>1, SmallestSubset
  <1>2. T # {}
    BY <1>1 DEF Added, Follows
  <1>3. g[T \ {Picked(T)}] = h[T \ {Picked(T)}]
    BY <1>1, <1>2, PickedIn
  <1> QED BY <1>1, <1>2, <1>3 DEF Added, Follows

(* There is one. *)
LEMMA SumsExist ==
    ASSUME NEW S, IsFiniteSet(S), NEW f \in [S -> Int]
    PROVE  \E h : Sums(f, S, h)
  <1> DEFINE C == {T \in SUBSET S : ~ \E h : Sums(f, T, h)}
  <1> SUFFICES ASSUME C # {} PROVE FALSE
    OBVIOUS
  <1>1. PICK T \in C : \A U \in C : U \subseteq T => U = T
    <2>1. C \in SUBSET SUBSET S
      OBVIOUS
    <2> HIDE DEF C
    <2> QED BY <2>1, SmallestSubset
  <1> DEFINE part(s) == CHOOSE h : Sums(f, s, h)
             x == Picked(T)
             all == [s \in SUBSET T |-> IF s = T THEN Added(f, part(T \ {x}), T) ELSE part(s)[s]]
  <1>2. ASSUME NEW s \in SUBSET T, s # T
        PROVE  Sums(f, s, part(s))
    BY <1>1, <1>2
  <1>3. ASSUME NEW s \in SUBSET T, s # T, NEW u \in SUBSET s
        PROVE  part(s)[u] = part(u)[u]
    <2>1. Sums(f, s, part(s)) /\ Sums(f, u, part(u))
      BY <1>2, <1>3
    <2>2. IsFiniteSet(u)
      BY <1>1, <1>3, FS_Subset
    <2> HIDE DEF part
    <2>3. Follows(f, u, part(s)) /\ Follows(f, u, part(u))
      BY <2>1, <1>3 DEF Sums, Follows
    <2>4. \A v \in SUBSET u : part(s)[v] = part(u)[v]
      BY <2>2, <2>3, SumsAgree
    <2> QED BY <2>4
  <1> HIDE DEF part
  <1>4. \A s \in SUBSET T : s # T => all[s] = part(s)[s] /\ all[s] \in Int
    <2> SUFFICES ASSUME NEW s \in SUBSET T, s # T
                 PROVE  all[s] = part(s)[s] /\ part(s)[s] \in Int
      OBVIOUS
    <2>1. part(s) \in [SUBSET s -> Int]
      BY <1>2 DEF Sums
    <2> QED BY <2>1
  <1>5. ASSUME NEW s \in SUBSET T
        PROVE  all[s] = Added(f, all, s) /\ all[s] \in Int
    <2>1. CASE s = {}
      <3>1. CASE s = T
        BY <3>1, <2>1 DEF Added
      <3>2. CASE s # T
        BY <1>2, <1>4, <2>1, <3>2 DEF Added, Sums, Follows
      <3> QED BY <3>1, <3>2
    <2>2. CASE s # {}
      <3> DEFINE u == s \ {Picked(s)}
      <3>1. Picked(s) \in s /\ Picked(s) \in S
        BY <2>2, <1>1, PickedIn
      <3>2. u \in SUBSET T /\ u # T /\ u \in SUBSET s
        BY <3>1
      <3>3. all[u] = part(u)[u] /\ all[u] \in Int
        BY <3>2, <1>4
      <3>4. CASE s = T
        <4>1. all[s] = f[Picked(s)] + part(u)[u]
          BY <2>2, <3>4 DEF Added
        <4> QED BY <4>1, <3>1, <3>3, <2>2 DEF Added
      <3>5. CASE s # T
        <4>1. all[s] = f[Picked(s)] + part(s)[u]
          BY <1>2, <1>4, <2>2, <3>5 DEF Sums, Follows, Added
        <4>2. part(s)[u] = part(u)[u]
          BY <1>3, <3>2, <3>5
        <4> QED BY <4>1, <4>2, <3>1, <3>3, <2>2 DEF Added
      <3> QED BY <3>4, <3>5
    <2> QED BY <2>1, <2>2
  <1>6. Sums(f, T, all)
    <2> HIDE DEF x
    <2>1. all \in [SUBSET T -> Int]
      BY <1>5
    <2> HIDE DEF all
    <2> QED BY <1>5, <2>1 DEF Sums, Follows
  <1> QED BY <1>1, <1>6

(* SumFunction is what any way to give the subsets their sums gives the domain. *)
LEMMA SumIs ==
    ASSUME NEW S, IsFiniteSet(S), NEW f \in [S -> Int], NEW h, Sums(f, S, h)
    PROVE  SumFunction(f) = h[S]
  <1> DEFINE lib == CHOOSE k : k = [s \in SUBSET S |-> Added(f, k, s)]
  <1>1. h = [s \in SUBSET S |-> Added(f, h, s)]
    BY DEF Sums, Follows
  <1>2. lib = [s \in SUBSET S |-> Added(f, lib, s)]
    BY <1>1
  <1>3. SumFunction(f) = lib[S]
    BY SumUnfold
  <1> HIDE DEF lib
  <1>4. Follows(f, S, lib) /\ Follows(f, S, h)
    BY <1>2 DEF Sums, Follows
  <1>5. \A s \in SUBSET S : lib[s] = h[s]
    BY <1>4, SumsAgree
  <1> QED BY <1>3, <1>5

-----------------------------------------------------------------------------
(* What the proofs use. *)

LEMMA SumType ==
    ASSUME NEW S, IsFiniteSet(S), NEW f \in [S -> Int]
    PROVE  SumFunction(f) \in Int
  <1>1. PICK h : Sums(f, S, h)
    BY SumsExist
  <1> QED BY <1>1, SumIs DEF Sums

(* Nothing in flight amounts to nothing. *)
LEMMA SumZero ==
    ASSUME NEW S, IsFiniteSet(S), NEW f \in [S -> Int], \A x \in S : f[x] = 0
    PROVE  SumFunction(f) = 0
  <1> DEFINE h == [s \in SUBSET S |-> 0]
  <1>1. Sums(f, S, h)
    BY PickedIn DEF Sums, Follows, Added
  <1> QED BY <1>1, SumIs

(* A change of one value changes the sum by as much. *)
LEMMA SumChange ==
    ASSUME NEW S, IsFiniteSet(S), NEW f \in [S -> Int], NEW g \in [S -> Int],
           NEW w \in S, \A x \in S \ {w} : g[x] = f[x]
    PROVE  SumFunction(g) = SumFunction(f) + (g[w] - f[w])
  <1>1. PICK h : Sums(f, S, h)
    BY SumsExist
  <1> DEFINE k == [s \in SUBSET S |-> IF w \in s THEN h[s] + (g[w] - f[w]) ELSE h[s]]
  <1>2. k \in [SUBSET S -> Int]
    BY <1>1 DEF Sums
  <1>3. ASSUME NEW s \in SUBSET S
        PROVE  k[s] = Added(g, k, s)
    <2>1. CASE s = {}
      BY <1>1, <2>1 DEF Added, Sums, Follows
    <2>2. CASE s # {}
      <3> DEFINE x == Picked(s)
      <3>1. x \in s /\ x \in S /\ s \ {x} \in SUBSET S
        BY <2>2, PickedIn
      <3>2. h[s] = f[x] + h[s \ {x}] /\ h[s \ {x}] \in Int
        BY <1>1, <2>2, <3>1 DEF Added, Sums, Follows
      <3>3. k[s] = g[x] + k[s \ {x}]
        <4> HIDE DEF x
        <4>1. CASE x = w
          BY <3>1, <3>2, <4>1
        <4>2. CASE x # w
          <5>1. g[x] = f[x]
            BY <3>1, <4>2
          <5> QED BY <3>1, <3>2, <4>2, <5>1
        <4> QED BY <4>1, <4>2
      <3> QED BY <3>3, <2>2 DEF Added
    <2> QED BY <2>1, <2>2
  <1>4. Sums(g, S, k)
    <2> HIDE DEF k
    <2> QED BY <1>2, <1>3 DEF Sums, Follows
  <1>5. SumFunction(f) = h[S] /\ SumFunction(g) = k[S]
    BY <1>1, <1>4, SumIs
  <1> QED BY <1>5

(* What only adds does not come to less than nothing. *)
LEMMA SumNatural ==
    ASSUME NEW S, IsFiniteSet(S), NEW f \in [S -> Int], \A x \in S : f[x] >= 0
    PROVE  SumFunction(f) >= 0
  <1>1. PICK h : Sums(f, S, h)
    BY SumsExist
  <1> DEFINE C == {s \in SUBSET S : h[s] < 0}
  <1> SUFFICES ASSUME C # {} PROVE FALSE
    <2>1. h[S] \in Int /\ SumFunction(f) = h[S]
      BY <1>1, SumIs DEF Sums
    <2> QED BY <2>1
  <1>2. PICK T \in C : \A U \in C : U \subseteq T => U = T
    <2>1. C \in SUBSET SUBSET S
      OBVIOUS
    <2> HIDE DEF C
    <2> QED BY <2>1, SmallestSubset
  <1>3. h[T] = Added(f, h, T)
    BY <1>1, <1>2 DEF Sums, Follows
  <1>4. T # {}
    BY <1>2, <1>3 DEF Added
  <1> DEFINE x == Picked(T)
  <1>5. x \in T /\ T \ {x} \in SUBSET S /\ T \ {x} # T
    BY <1>2, <1>4, PickedIn
  <1>6. h[T] = f[x] + h[T \ {x}]
    BY <1>3, <1>4 DEF Added
  <1> HIDE DEF x
  <1>7. h[T \ {x}] \in Int /\ T \ {x} \notin C
    BY <1>1, <1>2, <1>5 DEF Sums
  <1> QED BY <1>2, <1>5, <1>6, <1>7

(* One value among zeros is the sum. *)
LEMMA SumSingle ==
    ASSUME NEW S, IsFiniteSet(S), NEW g \in [S -> Int],
           NEW w \in S, \A x \in S \ {w} : g[x] = 0
    PROVE  SumFunction(g) = g[w]
  <1> DEFINE f == [x \in S |-> 0]
  <1>1. f \in [S -> Int] /\ \A x \in S : f[x] = 0
    OBVIOUS
  <1> HIDE DEF f
  <1>2. SumFunction(f) = 0
    BY <1>1, SumZero
  <1>3. \A x \in S \ {w} : g[x] = f[x]
    BY <1>1
  <1>4. SumFunction(g) = SumFunction(f) + (g[w] - f[w])
    BY <1>1, <1>3, SumChange
  <1> QED BY <1>1, <1>2, <1>4

(* The sum of sums. *)
LEMMA SumOfSums ==
    ASSUME NEW S, IsFiniteSet(S), NEW f \in [S -> Int], NEW g \in [S -> Int],
           NEW m \in [S -> Int], \A x \in S : m[x] = f[x] + g[x]
    PROVE  SumFunction(m) = SumFunction(f) + SumFunction(g)
  <1>1. PICK h : Sums(f, S, h)
    BY SumsExist
  <1>2. PICK i : Sums(g, S, i)
    BY SumsExist
  <1> DEFINE k == [s \in SUBSET S |-> h[s] + i[s]]
  <1>3. k \in [SUBSET S -> Int]
    BY <1>1, <1>2 DEF Sums
  <1>4. ASSUME NEW s \in SUBSET S
        PROVE  k[s] = Added(m, k, s)
    <2>1. CASE s = {}
      <3>1. h[s] = 0 /\ i[s] = 0
        BY <1>1, <1>2, <2>1 DEF Added, Sums, Follows
      <3> QED BY <2>1, <3>1 DEF Added
    <2>2. CASE s # {}
      <3> DEFINE x == Picked(s)
      <3>1. x \in s /\ x \in S /\ s \ {x} \in SUBSET S
        BY <2>2, PickedIn
      <3>2. h[s] = f[x] + h[s \ {x}] /\ h[s \ {x}] \in Int
        BY <1>1, <2>2, <3>1 DEF Added, Sums, Follows
      <3>3. i[s] = g[x] + i[s \ {x}] /\ i[s \ {x}] \in Int
        BY <1>2, <2>2, <3>1 DEF Added, Sums, Follows
      <3>4. m[x] = f[x] + g[x] /\ f[x] \in Int /\ g[x] \in Int
        BY <3>1
      <3>5. k[s] = h[s] + i[s] /\ k[s \ {x}] = h[s \ {x}] + i[s \ {x}]
        BY <3>1
      <3>6. k[s] = m[x] + k[s \ {x}]
        <4> HIDE DEF k, x
        <4> QED BY <3>2, <3>3, <3>4, <3>5
      <3> QED BY <3>6, <2>2 DEF Added
    <2> QED BY <2>1, <2>2
  <1>5. Sums(m, S, k)
    <2> HIDE DEF k
    <2> QED BY <1>3, <1>4 DEF Sums, Follows
  <1>6. SumFunction(f) = h[S] /\ SumFunction(g) = i[S] /\ SumFunction(m) = k[S]
    BY <1>1, <1>2, <1>5, SumIs
  <1> QED BY <1>6

(* Lower values, lower sum. *)
LEMMA SumAtMost ==
    ASSUME NEW S, IsFiniteSet(S), NEW f \in [S -> Int], NEW g \in [S -> Int],
           \A x \in S : f[x] <= g[x]
    PROVE  SumFunction(f) <= SumFunction(g)
  <1> DEFINE m == [x \in S |-> g[x] - f[x]]
  <1>1. m \in [S -> Int] /\ \A x \in S : m[x] >= 0 /\ g[x] = f[x] + m[x]
    OBVIOUS
  <1> HIDE DEF m
  <1>2. SumFunction(m) >= 0
    BY <1>1, SumNatural
  <1>3. SumFunction(g) = SumFunction(f) + SumFunction(m)
    BY <1>1, SumOfSums
  <1>4. SumFunction(m) \in Int /\ SumFunction(f) \in Int /\ SumFunction(g) \in Int
    BY <1>1, SumType
  <1> QED BY <1>2, <1>3, <1>4

(* Any element may be taken out first. *)
LEMMA SumAnyOrder ==
    ASSUME NEW S, IsFiniteSet(S), NEW f \in [S -> Int], NEW h, Sums(f, S, h)
    PROVE  \A s \in SUBSET S : \A y \in s : h[s] = f[y] + h[s \ {y}]
  <1> DEFINE C == {s \in SUBSET S : \E y \in s : h[s] # f[y] + h[s \ {y}]}
  <1> SUFFICES ASSUME C # {} PROVE FALSE
    OBVIOUS
  <1>1. PICK T \in C : \A U \in C : U \subseteq T => U = T
    <2>1. C \in SUBSET SUBSET S /\ C # {} /\ IsFiniteSet(S)
      OBVIOUS
    <2> HIDE DEF C
    <2> QED BY ONLY <2>1, SmallestSubset
  <1>2. PICK y \in T : h[T] # f[y] + h[T \ {y}]
    BY <1>1
  <1> DEFINE p == Picked(T)
  <1>3. p \in T /\ p \in S /\ y \in S /\ T \in SUBSET S
    BY <1>1, <1>2, PickedIn
  <1>4. \A s \in SUBSET S : h[s] \in Int
    BY DEF Sums
  <1>5. h[T] = f[p] + h[T \ {p}]
    BY <1>1, <1>2 DEF Sums, Follows, Added
  <1> HIDE DEF p
  <1>6. p # y
    BY <1>2, <1>5
  <1>7. h[T \ {p}] = f[y] + h[(T \ {p}) \ {y}]
    <2>1. T \ {p} \notin C /\ T \ {p} \in SUBSET S /\ y \in T \ {p}
      BY <1>1, <1>2, <1>3, <1>6
    <2> QED BY <2>1
  <1>8. h[T \ {y}] = f[p] + h[(T \ {y}) \ {p}]
    <2>1. T \ {y} \notin C /\ T \ {y} \in SUBSET S /\ p \in T \ {y}
      BY <1>1, <1>2, <1>3, <1>6
    <2> QED BY <2>1
  <1>9. (T \ {p}) \ {y} = (T \ {y}) \ {p} /\ (T \ {p}) \ {y} \in SUBSET S
    BY <1>3
  <1> DEFINE rest == h[(T \ {p}) \ {y}]
  <1>10. rest \in Int /\ f[p] \in Int /\ f[y] \in Int
    BY <1>3, <1>4, <1>9
  <1>11. h[T \ {p}] = f[y] + rest /\ h[T \ {y}] = f[p] + rest
    BY <1>7, <1>8, <1>9
  <1> HIDE DEF rest
  <1> QED BY <1>2, <1>5, <1>10, <1>11

(* A new element adds its value. *)
LEMMA SumExtend ==
    ASSUME NEW S, IsFiniteSet(S), NEW x, x \notin S,
           NEW f \in [S -> Int], NEW g \in [S \cup {x} -> Int], \A y \in S : g[y] = f[y]
    PROVE  SumFunction(g) = SumFunction(f) + g[x]
  <1> DEFINE T == S \cup {x}
  <1>1. IsFiniteSet(T)
    BY FS_AddElement
  <1>2. PICK h : Sums(f, S, h)
    BY SumsExist
  <1> DEFINE k == [s \in SUBSET T |-> IF x \in s THEN h[s \ {x}] + g[x] ELSE h[s]]
  <1>3. k \in [SUBSET T -> Int]
    <2>1. g[x] \in Int
      OBVIOUS
    <2> QED BY <1>2, <2>1 DEF Sums
  <1>4. ASSUME NEW s \in SUBSET T
        PROVE  k[s] = Added(g, k, s)
    <2>1. CASE s = {}
      BY <1>2, <2>1 DEF Added, Sums, Follows
    <2>2. CASE s # {}
      <3> DEFINE y == Picked(s)
      <3>1. y \in s /\ s \ {y} \in SUBSET T
        BY <2>2, PickedIn
      <3>2. CASE y = x
        <4>1. k[s] = h[s \ {x}] + g[x] /\ k[s \ {x}] = h[s \ {x}]
          BY <3>1, <3>2
        <4>2. h[s \ {x}] \in Int /\ g[x] \in Int
          BY <1>2 DEF Sums
        <4> QED BY <2>2, <3>2, <4>1, <4>2 DEF Added
      <3>3. CASE y # x /\ x \in s
        <4>1. y \in S /\ y \in s \ {x} /\ s \ {x} \in SUBSET S /\ g[y] = f[y]
          BY <3>1, <3>3
        <4>2. h[s \ {x}] = f[y] + h[(s \ {x}) \ {y}]
          <5> HIDE DEF y
          <5> QED BY <1>2, <4>1, SumAnyOrder
        <4>3. (s \ {x}) \ {y} = (s \ {y}) \ {x}
          OBVIOUS
        <4>4. k[s] = h[s \ {x}] + g[x] /\ k[s \ {y}] = h[(s \ {y}) \ {x}] + g[x]
          BY <3>1, <3>3
        <4>5. h[(s \ {y}) \ {x}] \in Int /\ f[y] \in Int /\ g[x] \in Int
          BY <1>2, <4>1 DEF Sums
        <4>6. k[s] = g[y] + k[s \ {y}]
          <5> DEFINE rest == h[(s \ {y}) \ {x}]
          <5>1. h[s \ {x}] = g[y] + rest /\ k[s \ {y}] = rest + g[x]
            BY <4>1, <4>2, <4>3, <4>4
          <5>2. k[s] = h[s \ {x}] + g[x]
            BY <4>4
          <5>3. rest \in Int /\ g[y] \in Int /\ g[x] \in Int
            BY <4>1, <4>5
          <5> HIDE DEF y, k, rest
          <5> QED BY <5>1, <5>2, <5>3
        <4> QED BY <2>2, <4>6 DEF Added
      <3>4. CASE x \notin s
        <4>1. s \in SUBSET S /\ y \in S /\ g[y] = f[y] /\ k[s] = h[s] /\ k[s \ {y}] = h[s \ {y}]
          BY <3>1, <3>4
        <4>2. h[s] = f[y] + h[s \ {y}]
          BY <1>2, <2>2, <4>1 DEF Sums, Follows, Added
        <4> QED BY <2>2, <4>1, <4>2 DEF Added
      <3> QED BY <3>2, <3>3, <3>4
    <2> QED BY <2>1, <2>2
  <1>5. Sums(g, T, k)
    <2> HIDE DEF k
    <2> QED BY <1>3, <1>4 DEF Sums, Follows
  <1>6. SumFunction(g) = k[T] /\ SumFunction(f) = h[S]
    <2>1. SumFunction(f) = h[S]
      BY <1>2, SumIs
    <2> HIDE DEF k
    <2>2. SumFunction(g) = k[T]
      BY <1>1, <1>5, SumIs
    <2> QED BY <2>1, <2>2
  <1>7. T \ {x} = S /\ x \in T /\ k[T] = h[T \ {x}] + g[x]
    OBVIOUS
  <1> QED BY <1>6, <1>7

LEMMA SumEmpty ==
    ASSUME NEW f, DOMAIN f = {}, f \in [{} -> Int]
    PROVE  SumFunction(f) = 0
  <1>1. IsFiniteSet({})
    BY FS_EmptySet
  <1>2. \A x \in {} : f[x] = 0
    OBVIOUS
  <1> QED BY <1>1, <1>2, SumZero

(* The same values under other names, and zeros besides. *)
LEMMA SumRenamed ==
    ASSUME NEW S, IsFiniteSet(S), NEW f \in [S -> Int],
           NEW R, IsFiniteSet(R), NEW g \in [R -> Int], NEW to \in [R -> S],
           \A r, q \in R : to[r] = to[q] => r = q,
           \A r \in R : g[r] = f[to[r]],
           \A s \in S : (\A r \in R : to[r] # s) => f[s] = 0
    PROVE  SumFunction(g) = SumFunction(f)
  <1>1. PICK h : Sums(f, S, h)
    BY SumsExist
  <1>2. PICK k : Sums(g, R, k)
    BY SumsExist
  <1> DEFINE Of(T) == {r \in R : to[r] \in T}
             C == {T \in SUBSET S : h[T] # k[Of(T)]}
  <1>3. C = {}
    <2> SUFFICES ASSUME C # {} PROVE FALSE
      OBVIOUS
    <2>1. PICK T \in C : \A U \in C : U \subseteq T => U = T
      <3>1. C \in SUBSET SUBSET S /\ C # {} /\ IsFiniteSet(S)
        OBVIOUS
      <3> HIDE DEF C
      <3> QED BY ONLY <3>1, SmallestSubset
    <2>2. T # {}
      <3>1. h[{}] = 0 /\ k[{}] = 0
        BY <1>1, <1>2 DEF Sums, Follows, Added
      <3>2. Of({}) = {}
        OBVIOUS
      <3> QED BY <2>1, <3>1, <3>2
    <2>3. PICK s \in T : TRUE
      BY <2>2
    <2>4. T \in SUBSET S /\ s \in S /\ T \ {s} \in SUBSET S
      BY <2>1, <2>3
    <2>5. h[T \ {s}] = k[Of(T \ {s})]
      BY <2>1, <2>3, <2>4
    <2>6. h[T] = f[s] + h[T \ {s}]
      BY <1>1, <2>3, <2>4, SumAnyOrder
    <2>7. CASE \E r \in R : to[r] = s
      <3>1. PICK r \in R : to[r] = s
        BY <2>7
      <3>2. Of(T \ {s}) = Of(T) \ {r} /\ r \in Of(T) /\ Of(T) \in SUBSET R
        BY <2>3, <3>1
      <3> HIDE DEF Of
      <3>3. k[Of(T)] = g[r] + k[Of(T) \ {r}]
        BY <1>2, <3>2, SumAnyOrder
      <3> QED BY <2>1, <2>5, <2>6, <3>1, <3>2, <3>3
    <2>8. CASE \A r \in R : to[r] # s
      <3>1. Of(T \ {s}) = Of(T) /\ f[s] = 0
        BY <2>4, <2>8
      <3>2. h[T \ {s}] \in Int
        BY <1>1, <2>4 DEF Sums
      <3>3. h[T] = k[Of(T)]
        <4> HIDE DEF Of
        <4> QED BY <2>5, <2>6, <3>1, <3>2
      <3> QED BY <2>1, <3>3
    <2> QED BY <2>7, <2>8
  <1>4. Of(S) = R
    OBVIOUS
  <1>5. h[S] = k[R]
    BY <1>3, <1>4
  <1>6. SumFunction(f) = h[S]
    BY <1>1, SumIs
  <1>7. SumFunction(g) = k[R]
    BY <1>2, SumIs
  <1> QED BY <1>5, <1>6, <1>7

-----------------------------------------------------------------------------
(* Greatest and smallest elements.                                          *)

LEMMA GreatestExists ==
    ASSUME NEW S, IsFiniteSet(S), S # {}, S \subseteq Int
    PROVE  \E m \in S : \A x \in S : m >= x
  <1> DEFINE C == {T \in SUBSET S : T # {} /\ ~ \E m \in T : \A x \in T : m >= x}
  <1> SUFFICES ASSUME C # {} PROVE FALSE
    OBVIOUS
  <1>1. PICK T \in C : \A U \in C : U \subseteq T => U = T
    <2>1. C \in SUBSET SUBSET S /\ C # {}
      OBVIOUS
    <2>2. IsFiniteSet(S)
      OBVIOUS
    <2> HIDE DEF C
    <2> QED BY ONLY <2>1, <2>2, SmallestSubset
  <1>2. PICK y \in T : TRUE
    BY <1>1
  <1>3. T \subseteq Int /\ y \in Int
    BY <1>1, <1>2
  <1>4. CASE T = {y}
    BY <1>1, <1>3, <1>4
  <1>5. CASE T # {y}
    <2> DEFINE U == T \ {y}
    <2>1. U \in SUBSET S /\ U # {} /\ U \subseteq T /\ U # T
      BY <1>1, <1>2, <1>5
    <2>2. PICK m \in U : \A x \in U : m >= x
      BY <1>1, <2>1
    <2>3. CASE m >= y
      BY <1>1, <1>2, <2>2, <2>3
    <2>4. CASE ~(m >= y)
      <3>1. \A x \in T : y >= x
        BY <1>3, <2>2, <2>4
      <3> QED BY <1>1, <1>2, <3>1
    <2> QED BY <2>3, <2>4
  <1> QED BY <1>4, <1>5

LEMMA MaxIs ==
    ASSUME NEW S, IsFiniteSet(S), S # {}, S \subseteq Int
    PROVE  Max(S) \in S /\ \A x \in S : x <= Max(S)
  <1>1. \E m \in S : \A x \in S : m >= x
    BY GreatestExists
  <1>2. Max(S) \in S /\ \A x \in S : Max(S) >= x
    BY <1>1 DEF Max
  <1> QED BY <1>2

(* A number is the greatest of a set if it is in it and none is above. *)
LEMMA MaxIsOnly ==
    ASSUME NEW S, S \subseteq Int, NEW m \in S, \A x \in S : x <= m
    PROVE  Max(S) = m
  <1>1. \E z \in S : \A x \in S : z >= x
    OBVIOUS
  <1> DEFINE n == Max(S)
  <1>2. n \in S /\ \A x \in S : n >= x
    BY <1>1 DEF Max
  <1> HIDE DEF n
  <1>3. n \in Int /\ m \in Int /\ n <= m /\ m <= n
    BY <1>2
  <1>4. n = m
    BY <1>3
  <1> QED BY <1>4 DEF n

(* The same of the smallest: the greatest of the numbers below all others. *)
LEMMA LeastExists ==
    ASSUME NEW S, IsFiniteSet(S), S # {}, S \subseteq Int
    PROVE  \E m \in S : \A x \in S : m <= x
  <1> DEFINE C == {T \in SUBSET S : T # {} /\ \A y \in T : \A x \in S : x <= y => x \in T}
  <1>1. PICK T \in C : \A U \in C : U \subseteq T => U = T
    <2>1. C \in SUBSET SUBSET S /\ S \in C /\ IsFiniteSet(S)
      OBVIOUS
    <2> HIDE DEF C
    <2> QED BY ONLY <2>1, SmallestSubset
  <1>2. PICK m \in T : TRUE
    BY <1>1
  <1>3. ASSUME NEW x \in S, x < m PROVE FALSE
    <2> DEFINE U == {y \in S : y <= x}
    <2>1. U \in C
      <3>1. x \in U /\ U \in SUBSET S
        BY <1>1, <1>2, <1>3
      <3>2. \A y \in U : \A z \in S : z <= y => z \in U
        BY <1>3
      <3> QED BY <3>1, <3>2
    <2>2. U \subseteq T /\ m \notin U
      <3>1. m \in S /\ m \in T /\ \A y \in S : y <= m => y \in T
        BY <1>1, <1>2
      <3>2. \A y \in S : y \in Int /\ (y <= x => y <= m)
        BY <1>3, <3>1
      <3>3. ~(m <= x)
        BY <1>3, <3>1
      <3> QED BY <3>1, <3>2, <3>3
    <2>3. \A V \in C : V \subseteq T => V = T
      BY <1>1
    <2> HIDE DEF U, C
    <2> QED BY <1>2, <2>1, <2>2, <2>3
  <1> QED BY <1>1, <1>2, <1>3

LEMMA MinIs ==
    ASSUME NEW S, IsFiniteSet(S), S # {}, S \subseteq Int
    PROVE  Min(S) \in S /\ \A x \in S : Min(S) <= x
  <1>1. \E m \in S : \A x \in S : m <= x
    BY LeastExists
  <1> QED BY <1>1 DEF Min

LEMMA MinIsOnly ==
    ASSUME NEW S, S \subseteq Int, NEW m \in S, \A x \in S : m <= x
    PROVE  Min(S) = m
  <1>1. \E z \in S : \A x \in S : z <= x
    OBVIOUS
  <1> DEFINE n == Min(S)
  <1>2. n \in S /\ \A x \in S : n <= x
    BY <1>1 DEF Min
  <1> HIDE DEF n
  <1>3. n \in Int /\ m \in Int /\ n <= m /\ m <= n
    BY <1>2
  <1>4. n = m
    BY <1>3
  <1> QED BY <1>4 DEF n

-----------------------------------------------------------------------------
(* Ascending order.                                                         *)

(* How many numbers of the set there are up to i. *)
UpTo(S, i) == {j \in S : j <= i}

LEMMA UpToFinite ==
    ASSUME NEW S, IsFiniteSet(S), S \subseteq Int, NEW i \in S
    PROVE  /\ IsFiniteSet(UpTo(S, i)) /\ UpTo(S, i) \subseteq S
           /\ Cardinality(UpTo(S, i)) \in 1 .. Cardinality(S) /\ Cardinality(S) \in Nat
  <1>1. IsFiniteSet(UpTo(S, i)) /\ UpTo(S, i) \subseteq S /\ UpTo(S, i) # {}
    BY FS_Subset DEF UpTo
  <1>2. Cardinality(UpTo(S, i)) <= Cardinality(S)
    BY <1>1, FS_Subset
  <1>3. Cardinality(UpTo(S, i)) \in Nat /\ Cardinality(S) \in Nat /\ Cardinality(UpTo(S, i)) # 0
    BY <1>1, FS_CardinalityType, FS_EmptySet
  <1> QED BY <1>1, <1>2, <1>3

(* A greater number has more of them below it. *)
LEMMA UpToGrows ==
    ASSUME NEW S, IsFiniteSet(S), S \subseteq Int, NEW i \in S, NEW k \in S, i < k
    PROVE  Cardinality(UpTo(S, i)) < Cardinality(UpTo(S, k))
  <1>1. \A j \in S : j <= i => j <= k
    OBVIOUS
  <1>2. k <= k /\ ~(k <= i)
    OBVIOUS
  <1>3. UpTo(S, i) \subseteq UpTo(S, k) /\ UpTo(S, i) # UpTo(S, k)
    BY <1>1, <1>2 DEF UpTo
  <1>4. IsFiniteSet(UpTo(S, k)) /\ IsFiniteSet(UpTo(S, i))
    BY UpToFinite
  <1>5. Cardinality(UpTo(S, i)) <= Cardinality(UpTo(S, k))
        /\ Cardinality(UpTo(S, i)) # Cardinality(UpTo(S, k))
    BY <1>3, <1>4, FS_Subset
  <1> QED BY <1>4, <1>5, FS_CardinalityType

LEMMA RankExists ==
    ASSUME NEW S, IsFiniteSet(S), S \subseteq Int, NEW n \in 1 .. Cardinality(S)
    PROVE  \E i \in S : Cardinality(UpTo(S, i)) = n
  <1> DEFINE Lacks(T) == \E k \in 1 .. Cardinality(T) : \A i \in T : Cardinality(UpTo(T, i)) # k
             C == {T \in SUBSET S : Lacks(T)}
  <1> SUFFICES ASSUME C # {} PROVE FALSE
    OBVIOUS
  <1>1. PICK T \in C : \A U \in C : U \subseteq T => U = T
    <2>1. C \in SUBSET SUBSET S /\ C # {} /\ IsFiniteSet(S)
      OBVIOUS
    <2> HIDE DEF C
    <2> QED BY ONLY <2>1, SmallestSubset
  <1>2. PICK k \in 1 .. Cardinality(T) : \A i \in T : Cardinality(UpTo(T, i)) # k
    BY <1>1
  <1>3. IsFiniteSet(T) /\ T \subseteq Int /\ Cardinality(T) \in Nat
    BY <1>1, FS_Subset, FS_CardinalityType
  <1>4. T # {}
    BY <1>2, <1>3, FS_EmptySet
  <1>5. PICK m \in T : \A x \in T : m >= x
    BY <1>3, <1>4, GreatestExists
  <1> DEFINE U == T \ {m}
  <1>6. IsFiniteSet(U) /\ Cardinality(U) = Cardinality(T) - 1
    BY <1>3, <1>5, FS_RemoveElement
  <1>7. UpTo(T, m) = T
    BY <1>5 DEF UpTo
  <1>8. k \in 1 .. Cardinality(U)
    <2>1. k \in 1 .. Cardinality(T) /\ k # Cardinality(T)
      BY <1>2, <1>5, <1>7
    <2> HIDE DEF U
    <2> QED BY <1>3, <1>6, <2>1
  <1>9. ~Lacks(U)
    <2>1. U \in SUBSET S /\ U \subseteq T /\ U # T
      BY <1>1, <1>5
    <2> HIDE DEF U, Lacks
    <2> QED BY <1>1, <2>1
  <1>10. PICK i \in U : Cardinality(UpTo(U, i)) = k
    BY <1>8, <1>9
  <1>11. UpTo(T, i) = UpTo(U, i)
    <2>1. i \in T /\ i # m /\ i < m
      BY <1>3, <1>5, <1>10
    <2> QED BY <2>1 DEF UpTo
  <1> QED BY <1>2, <1>10, <1>11

LEMMA InOrderIs ==
    ASSUME NEW S, IsFiniteSet(S), S \subseteq Int
    PROVE  /\ Cardinality(S) \in Nat
           /\ InOrder(S) \in [1 .. Cardinality(S) -> S]
           /\ \A a, b \in 1 .. Cardinality(S) : a < b => InOrder(S)[a] < InOrder(S)[b]
           /\ \A i \in S : \E n \in 1 .. Cardinality(S) : InOrder(S)[n] = i
  <1>1. Cardinality(S) \in Nat
    BY FS_CardinalityType
  <1>2. \A n \in 1 .. Cardinality(S) :
          /\ InOrder(S)[n] \in S
          /\ Cardinality(UpTo(S, InOrder(S)[n])) = n
    <2> SUFFICES ASSUME NEW n \in 1 .. Cardinality(S)
                 PROVE  InOrder(S)[n] \in S /\ Cardinality(UpTo(S, InOrder(S)[n])) = n
      OBVIOUS
    <2>1. InOrder(S)[n] = CHOOSE i \in S : Cardinality(UpTo(S, i)) = n
      BY DEF InOrder, UpTo
    <2>2. \E i \in S : Cardinality(UpTo(S, i)) = n
      BY RankExists
    <2> QED BY <2>1, <2>2
  <1>3. InOrder(S) \in [1 .. Cardinality(S) -> S]
    BY <1>2 DEF InOrder
  <1>4. ASSUME NEW a \in 1 .. Cardinality(S), NEW b \in 1 .. Cardinality(S), a < b
        PROVE  InOrder(S)[a] < InOrder(S)[b]
    <2> DEFINE i == InOrder(S)[a]
               k == InOrder(S)[b]
    <2>1. i \in S /\ k \in S /\ Cardinality(UpTo(S, i)) = a /\ Cardinality(UpTo(S, k)) = b
      BY <1>2
    <2> HIDE DEF i, k
    <2>2. i # k
      BY <1>4, <2>1
    <2>3. k < i => b < a
      BY <2>1, UpToGrows
    <2>4. i < k
      BY <1>1, <1>4, <2>1, <2>2, <2>3
    <2> QED BY <2>4 DEF i, k
  <1>5. ASSUME NEW i \in S PROVE \E n \in 1 .. Cardinality(S) : InOrder(S)[n] = i
    <2> DEFINE n == Cardinality(UpTo(S, i))
               k == InOrder(S)[n]
    <2>1. n \in 1 .. Cardinality(S)
      BY UpToFinite
    <2>2. k \in S /\ Cardinality(UpTo(S, k)) = n
      BY <1>2, <2>1
    <2>3. ~(i < k) /\ ~(k < i)
      <3> HIDE DEF k
      <3>1. i < k => n < Cardinality(UpTo(S, k))
        BY <2>2, UpToGrows
      <3>2. k < i => Cardinality(UpTo(S, k)) < n
        BY <2>2, UpToGrows
      <3> QED BY <2>1, <2>2, <3>1, <3>2
    <2>4. k = i
      <3> HIDE DEF k
      <3> QED BY <2>2, <2>3
    <2> QED BY <2>1, <2>4
  <1> QED BY <1>1, <1>3, <1>4, <1>5

=============================================================================
