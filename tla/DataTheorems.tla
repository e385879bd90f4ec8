----------------------------- MODULE DataTheorems -----------------------------
(* Facts about induction, recursion, residues, sums and sequences that the     *)
(* proofs about the components rest on.                                        *)
EXTENDS Integers, Functions, FiniteSetTheorems, SequenceTheorems, TLAPS

-----------------------------------------------------------------------------
(* Induction: a set of numbers that holds 0 and what follows each of its        *)
(* members holds them all.                                                      *)

Below == {p \in Nat \X Nat : p[1] < p[2]}

LEMMA Induct ==
    ASSUME NEW T \in SUBSET Nat, 0 \in T, \A n \in T : n + 1 \in T
    PROVE  T = Nat
<1>1. SUFFICES ASSUME T # Nat PROVE FALSE
  OBVIOUS
<1> DEFINE S == Nat \ T
<1>2. IsWellFoundedOn(Below, Nat)
  <2>1. \A p \in Below \cap (Nat \X Nat) : p \in OpToRel(<, Nat)
    BY Zenon DEF OpToRel, Below
  <2>2. IsWellFoundedOn(OpToRel(<, Nat), Nat)
    BY NatLessThanWellFounded
  <2> QED BY <2>1, <2>2, IsWellFoundedOnSubrelation, Zenon
<1>3. PICK n \in S : \A k \in S : ~(<<k, n>> \in Below)
  <2>1. S \subseteq Nat /\ S # {}
    BY <1>1
  <2> HIDE DEF S
  <2> QED BY <1>2, <2>1, WFMin
<1>4. \A k \in S : ~(k < n)
  BY <1>3 DEF Below
<1>5. n # 0 /\ n - 1 \in Nat /\ n - 1 \in T
  BY <1>4
<1> QED BY <1>5

-----------------------------------------------------------------------------
(* Recursion: from a first value and a step there is a function on all numbers. *)

IsRun(g, n, V, start, step) ==
    /\ g \in [0 .. n -> V] /\ g[0] = start
    /\ \A i \in 0 .. n - 1 : g[i + 1] = step[<<i, g[i]>>]

LEMMA RunExists ==
    ASSUME NEW V, NEW start \in V, NEW step \in [Nat \X V -> V]
    PROVE  \A n \in Nat : \E g : IsRun(g, n, V, start, step)
<1> DEFINE T == {n \in Nat : \E g : IsRun(g, n, V, start, step)}
<1>1. 0 \in T
  <2> DEFINE g == [i \in 0 .. 0 |-> start]
  <2>1. IsRun(g, 0, V, start, step)
    BY DEF IsRun
  <2> QED BY <2>1
<1>2. ASSUME NEW n \in T PROVE n + 1 \in T
  <2>1. PICK g : IsRun(g, n, V, start, step)
    BY <1>2
  <2> DEFINE next == step[<<n, g[n]>>]
             h == [i \in 0 .. n + 1 |-> IF i <= n THEN g[i] ELSE next]
  <2>2. n \in Nat
    BY <1>2
  <2>3. g \in [0 .. n -> V] /\ g[0] = start /\ \A i \in 0 .. n - 1 : g[i + 1] = step[<<i, g[i]>>]
    BY <2>1 DEF IsRun
  <2>4. g[n] \in V /\ next \in V
    BY <2>2, <2>3
  <2> HIDE DEF next
  <2>5. h \in [0 .. n + 1 -> V] /\ h[0] = start /\ h[n] = g[n] /\ h[n + 1] = next
    BY <2>2, <2>3, <2>4
  <2>6. ASSUME NEW i \in 0 .. (n + 1) - 1 PROVE h[i + 1] = step[<<i, h[i]>>]
    <3>1. CASE i = n
      BY <2>5, <3>1 DEF next
    <3>2. CASE i # n
      <4>1. i \in 0 .. n - 1 /\ h[i] = g[i] /\ h[i + 1] = g[i + 1]
        BY <2>2, <3>2
      <4> HIDE DEF h
      <4> QED BY <2>3, <4>1
    <3> QED BY <3>1, <3>2
  <2>7. IsRun(h, n + 1, V, start, step)
    <3> HIDE DEF h
    <3> QED BY <2>5, <2>6 DEF IsRun
  <2> QED BY <2>2, <2>7
<1>3. T = Nat
  <2> HIDE DEF T
  <2>1. T \in SUBSET Nat
    BY DEF T
  <2> QED BY <1>1, <1>2, <2>1, Induct
<1> QED BY <1>3

LEMMA RunUnique ==
    ASSUME NEW V, NEW start, NEW step, NEW m \in Nat, NEW n \in Nat, m <= n,
           NEW g, NEW h, IsRun(g, m, V, start, step), IsRun(h, n, V, start, step)
    PROVE  g[m] = h[m]
<1> DEFINE T == {i \in Nat : i <= m => g[i] = h[i]}
<1>1. 0 \in T
  BY DEF IsRun
<1>2. ASSUME NEW i \in T PROVE i + 1 \in T
  <2> SUFFICES ASSUME i + 1 <= m PROVE g[i + 1] = h[i + 1]
    OBVIOUS
  <2>1. i \in 0 .. m - 1 /\ i \in 0 .. n - 1 /\ g[i] = h[i]
    BY <1>2
  <2>2. g[i + 1] = step[<<i, g[i]>>] /\ h[i + 1] = step[<<i, h[i]>>]
    BY <2>1, Zenon DEF IsRun
  <2> QED BY <2>1, <2>2, Zenon
<1>3. T = Nat
  <2> HIDE DEF T
  <2>1. T \in SUBSET Nat
    BY DEF T
  <2> QED BY <1>1, <1>2, <2>1, Induct
<1> QED BY <1>3

RunsOn(f, V, start, step) ==
    /\ f \in [Nat -> V] /\ f[0] = start
    /\ \A i \in Nat : f[i + 1] = step[<<i, f[i]>>]

LEMMA Recursion ==
    ASSUME NEW V, NEW start \in V, NEW step \in [Nat \X V -> V]
    PROVE  \E f : RunsOn(f, V, start, step)
<1> DEFINE R(g, n) == IsRun(g, n, V, start, step)
           G(n) == CHOOSE g : R(g, n)
           f == [e \in Nat |-> G(e)[e]]
<1>1. \A n \in Nat : R(G(n), n)
  <2>1. \A n \in Nat : \E g : R(g, n)
    BY RunExists
  <2> HIDE DEF R
  <2> QED BY <2>1
<1>2. f[0] = start
  BY <1>1 DEF IsRun
<1>3. ASSUME NEW e \in Nat PROVE f[e] \in V /\ f[e + 1] = step[<<e, f[e]>>]
  <2>1. R(G(e), e) /\ R(G(e + 1), e + 1)
    BY <1>1
  <2>2. G(e)[e] = G(e + 1)[e]
    <3> HIDE DEF G
    <3> QED BY <2>1, RunUnique
  <2> HIDE DEF G
  <2>3. G(e + 1)[e + 1] = step[<<e, G(e + 1)[e]>>] /\ G(e)[e] \in V
    BY <2>1 DEF IsRun
  <2> QED BY <2>2, <2>3
<1>4. f \in [Nat -> V]
  BY <1>3
<1> HIDE DEF f
<1> QED BY <1>2, <1>3, <1>4 DEF RunsOn

-----------------------------------------------------------------------------
(* Residues modulo M.                                                         *)

LEMMA ModDef ==
    ASSUME NEW M \in Nat \ {0, 1}, NEW a \in Int
    PROVE  /\ a % M \in 0 .. M - 1 /\ a \div M \in Int /\ a = M * (a \div M) + (a % M)
OBVIOUS

LEMMA ModUnique ==
    ASSUME NEW M \in Nat \ {0, 1}, NEW u \in Int, NEW v \in Int, NEW r \in 0 .. M - 1, NEW s \in 0 .. M - 1,
           M * u + r = M * v + s
    PROVE  r = s
<1>0. M \in Nat /\ M > 0
  OBVIOUS
<1>1. ASSUME NEW x \in Int, NEW y \in Int, NEW i \in 0 .. M - 1, NEW j \in 0 .. M - 1,
             M * x + i = M * y + j
      PROVE  ~(x < y)
  <2> SUFFICES ASSUME x < y PROVE FALSE
    OBVIOUS
  <2>1. PICK d \in Nat : y = x + 1 + d
    <3>1. y - x - 1 \in Nat /\ y = x + 1 + (y - x - 1)
      OBVIOUS
    <3> QED BY <3>1
  <2>2. M * y = M * x + M + M * d
    BY <1>0, <2>1
  <2>3. M * d >= 0 /\ M * d \in Int /\ M * x \in Int
    BY <1>0
  <2> QED BY <1>0, <1>1, <2>2, <2>3
<1>2. u = v
  BY <1>1
<1> QED BY <1>2, <1>0

Same(a, b, M) == a % M = b % M

LEMMA CongIff ==
    ASSUME NEW M \in Nat \ {0, 1}, NEW a \in Int, NEW b \in Int
    PROVE  Same(a, b, M) <=> \E k \in Int : a = b + M * k
<1>0. M \in Int
  OBVIOUS
<1>1. /\ a % M \in 0 .. M - 1 /\ a \div M \in Int /\ a = M * (a \div M) + (a % M)
      /\ b % M \in 0 .. M - 1 /\ b \div M \in Int /\ b = M * (b \div M) + (b % M)
  BY ModDef
<1>2. ASSUME a % M = b % M PROVE \E k \in Int : a = b + M * k
  <2>1. a = b + M * ((a \div M) - (b \div M))
    <3> DEFINE x == a \div M
               y == b \div M
               r == a % M
    <3>1. x \in Int /\ y \in Int /\ r \in Int /\ a = M * x + r /\ b = M * y + r
      BY <1>0, <1>1, <1>2
    <3> HIDE DEF x, y, r
    <3>2. a = b + M * (x - y)
      BY <1>0, <3>1
    <3> QED BY <3>2 DEF x, y
  <2>2. (a \div M) - (b \div M) \in Int
    BY <1>1
  <2> QED BY <2>1, <2>2
<1>3. ASSUME NEW k \in Int, a = b + M * k PROVE a % M = b % M
  <2> DEFINE x == a \div M
             y == b \div M
             r == a % M
             s == b % M
  <2>1. x \in Int /\ y \in Int /\ a = M * x + r /\ b = M * y + s /\ r \in 0 .. M - 1 /\ s \in 0 .. M - 1
    BY <1>1
  <2> HIDE DEF x, y, r, s
  <2>2. M * x + r = M * (y + k) + s
    BY <1>0, <1>3, <2>1
  <2>3. r = s
    BY <2>1, <2>2, ModUnique, y + k \in Int
  <2> QED BY <2>3 DEF r, s
<1> QED BY <1>2, <1>3 DEF Same

LEMMA CongAdd ==
    ASSUME NEW M \in Nat \ {0, 1}, NEW a \in Int, NEW b \in Int, NEW c \in Int, NEW d \in Int,
           Same(a, b, M), Same(c, d, M)
    PROVE  Same(a + c, b + d, M) /\ Same(a - c, b - d, M)
<1>0. M \in Int
  OBVIOUS
<1>1. /\ \E k \in Int : a = b + M * k
      /\ \E k \in Int : c = d + M * k
  BY CongIff, Zenon
<1>2. PICK k \in Int, l \in Int : a = b + M * k /\ c = d + M * l
  BY <1>1
<1>3. a + c = (b + d) + M * (k + l) /\ a - c = (b - d) + M * (k - l)
  BY <1>0, <1>2
<1>4. a + c \in Int /\ b + d \in Int /\ a - c \in Int /\ b - d \in Int /\ k + l \in Int /\ k - l \in Int
  OBVIOUS
<1>5. /\ \E j \in Int : a + c = (b + d) + M * j
      /\ \E j \in Int : a - c = (b - d) + M * j
  BY <1>3, <1>4, Zenon
<1> QED BY <1>4, <1>5, CongIff, Zenon

LEMMA CongMul ==
    ASSUME NEW M \in Nat \ {0, 1}, NEW a \in Int, NEW b \in Int, NEW c \in Int, NEW d \in Int,
           Same(a, b, M), Same(c, d, M)
    PROVE  Same(a * c, b * d, M)
<1>0. M \in Int
  OBVIOUS
<1>1. /\ \E k \in Int : a = b + M * k
      /\ \E k \in Int : c = d + M * k
  BY CongIff, Zenon
<1>2. PICK k \in Int, l \in Int : a = b + M * k /\ c = d + M * l
  BY <1>1
<1>3. a * c = b * d + M * (b * l + k * d + M * (k * l))
  <2>1. a * c = (b + M * k) * (d + M * l)
    BY <1>2
  <2>2. (b + M * k) * (d + M * l) = b * d + M * (b * l + k * d + M * (k * l))
    BY <1>0
  <2> QED BY <2>1, <2>2
<1>4. a * c \in Int /\ b * d \in Int /\ b * l + k * d + M * (k * l) \in Int
  BY <1>0
<1>5. \E j \in Int : a * c = b * d + M * j
  BY <1>3, <1>4, Zenon
<1> QED BY <1>4, <1>5, CongIff, Zenon

LEMMA ModCong ==
    ASSUME NEW M \in Nat \ {0, 1}, NEW a \in Int
    PROVE  a % M \in Int /\ a % M \in 0 .. M - 1 /\ Same(a % M, a, M)
<1>0. M \in Int
  OBVIOUS
<1>1. /\ a % M \in 0 .. M - 1 /\ a \div M \in Int /\ a = M * (a \div M) + (a % M)
  BY ModDef
<1>2. a = (a % M) + M * (a \div M) /\ a % M \in Int
  BY <1>0, <1>1
<1>3. Same(a, a % M, M)
  BY <1>1, <1>2, CongIff, Zenon
<1> QED BY <1>1, <1>2, <1>3 DEF Same

-----------------------------------------------------------------------------
(* Sums over finite sets: SumFunction adds the values up in an order of its     *)
(* own, and any other order gives the same.                                     *)

Ch(s) == CHOOSE x \in s : TRUE
SumStep(iter, f, s) == IF s = {} THEN 0 ELSE f[Ch(s)] + iter[s \ {Ch(s)}]
IsSum(iter, f, D) == iter = [s \in SUBSET D |-> SumStep(iter, f, s)]
Iter(f, D) == CHOOSE iter : IsSum(iter, f, D)

LEMMA SumIsIter ==
    ASSUME NEW f
    PROVE  SumFunction(f) = Iter(f, DOMAIN f)[DOMAIN f]
BY Zenon DEF SumFunction, SumFunctionOnSet, FoldFunction, FoldFunctionOnSet, MapThenFoldSet,
             Iter, IsSum, SumStep, Ch

LEMMA ChIn == \A s : s # {} => Ch(s) \in s
BY DEF Ch

LEMMA RemoveOne ==
    ASSUME NEW s, IsFiniteSet(s), NEW x \in s
    PROVE  /\ IsFiniteSet(s \ {x}) /\ Cardinality(s) \in Nat /\ Cardinality(s) # 0
           /\ Cardinality(s \ {x}) = Cardinality(s) - 1 /\ Cardinality(s \ {x}) \in Nat
<1>1. /\ IsFiniteSet(s \ {x}) /\ Cardinality(s \ {x}) = Cardinality(s) - 1
      /\ Cardinality(s) \in Nat /\ Cardinality(s \ {x}) \in Nat
  BY FS_RemoveElement, FS_CardinalityType
<1> QED BY <1>1

\* Proofs by induction on the size of the subsets of a finite set.
LEMMA InductSubsets ==
    ASSUME NEW D, IsFiniteSet(D), NEW T \in SUBSET SUBSET D, {} \in T,
           \A s \in SUBSET D : s # {} /\ (\A x \in s : s \ {x} \in T) => s \in T
    PROVE  T = SUBSET D
<1> DEFINE N == {n \in Nat : \A s \in SUBSET D : Cardinality(s) = n => s \in T}
<1>0. \A s \in SUBSET D : IsFiniteSet(s) /\ Cardinality(s) \in Nat
  BY FS_Subset, FS_CardinalityType
<1>1. 0 \in N
  <2>1. \A s \in SUBSET D : Cardinality(s) = 0 => s = {}
    BY <1>0, FS_EmptySet
  <2> QED BY <2>1
<1>2. ASSUME NEW n \in N PROVE n + 1 \in N
  <2> SUFFICES ASSUME NEW s \in SUBSET D, Cardinality(s) = n + 1 PROVE s \in T
    BY <1>2
  <2>1. ASSUME NEW x \in s PROVE s \ {x} \in T
    <3>1. Cardinality(s \ {x}) = Cardinality(s) - 1
      BY <1>0, RemoveOne
    <3>2. Cardinality(s \ {x}) = n /\ s \ {x} \in SUBSET D
      BY <1>2, <3>1
    <3> QED BY <1>2, <3>2
  <2>2. s # {}
    BY <1>2, FS_EmptySet
  <2> QED BY <2>1, <2>2
<1>3. N = Nat
  <2> HIDE DEF N
  <2>1. N \subseteq Nat
    BY DEF N
  <2> QED BY <1>1, <1>2, <2>1, Induct
<1> QED BY <1>0, <1>3

LEMMA IterIsSum ==
    ASSUME NEW D, IsFiniteSet(D), NEW f \in [D -> Int]
    PROVE  /\ Iter(f, D) \in [SUBSET D -> Int]
           /\ \A s \in SUBSET D : Iter(f, D)[s] = SumStep(Iter(f, D), f, s)
<1> DEFINE Good(g, s) == g[s] = SumStep(g, f, s)
           N == {n \in Nat : \E g \in [SUBSET D -> Int] :
                    \A s \in SUBSET D : Cardinality(s) <= n => Good(g, s)}
<1>0. \A s \in SUBSET D : IsFiniteSet(s) /\ Cardinality(s) \in Nat
  BY FS_Subset, FS_CardinalityType
<1>1. 0 \in N
  <2> DEFINE g == [s \in SUBSET D |-> 0]
  <2>1. g \in [SUBSET D -> Int]
    OBVIOUS
  <2>2. ASSUME NEW s \in SUBSET D, Cardinality(s) <= 0 PROVE Good(g, s)
    <3>1. s = {}
      BY <1>0, <2>2, FS_EmptySet
    <3> QED BY <3>1 DEF SumStep
  <2> HIDE DEF g, Good
  <2> QED BY <2>1, <2>2
<1>a. ASSUME NEW g \in [SUBSET D -> Int], NEW s \in SUBSET D PROVE SumStep(g, f, s) \in Int
  <2>1. s # {} => Ch(s) \in D /\ s \ {Ch(s)} \in SUBSET D
    BY ChIn
  <2>2. s # {} => f[Ch(s)] \in Int /\ g[s \ {Ch(s)}] \in Int
    BY <2>1
  <2> QED BY <2>2 DEF SumStep
<1>2. ASSUME NEW n \in N PROVE n + 1 \in N
  <2>1. PICK g \in [SUBSET D -> Int] : \A s \in SUBSET D : Cardinality(s) <= n => Good(g, s)
    BY <1>2
  <2> DEFINE h == [s \in SUBSET D |-> SumStep(g, f, s)]
  <2>2. h \in [SUBSET D -> Int]
    BY <1>a
  <2>3. ASSUME NEW s \in SUBSET D, Cardinality(s) <= n + 1 PROVE Good(h, s)
    <3>1. CASE s = {}
      BY <3>1 DEF SumStep
    <3>2. CASE s # {}
      <4>1. Ch(s) \in s
        BY <3>2, ChIn
      <4>2. s \ {Ch(s)} \in SUBSET D /\ Cardinality(s \ {Ch(s)}) <= n
        BY <1>0, <2>3, <4>1, RemoveOne
      <4>3. h[s \ {Ch(s)}] = g[s \ {Ch(s)}]
        BY <2>1, <4>2
      <4>4. h[s] = SumStep(g, f, s) /\ SumStep(g, f, s) = SumStep(h, f, s)
        BY <4>3 DEF SumStep
      <4> QED BY <4>4
    <3> QED BY <3>1, <3>2
  <2> HIDE DEF h, Good
  <2> QED BY <1>2, <2>2, <2>3
<1>3. N = Nat
  <2> HIDE DEF N
  <2>1. N \subseteq Nat
    BY DEF N
  <2> QED BY <1>1, <1>2, <2>1, Induct
<1>4. PICK g \in [SUBSET D -> Int] : \A s \in SUBSET D : Good(g, s)
  <2>1. Cardinality(D) \in N /\ \A s \in SUBSET D : Cardinality(s) <= Cardinality(D)
    BY <1>3, FS_CardinalityType, FS_Subset
  <2> HIDE DEF Good
  <2> QED BY <2>1
<1>5. IsSum(g, f, D)
  BY <1>4 DEF IsSum
<1>6. IsSum(Iter(f, D), f, D)
  BY <1>5, Zenon DEF Iter
<1>7. \A s \in SUBSET D : Iter(f, D)[s] = SumStep(Iter(f, D), f, s)
  BY <1>6, Zenon DEF IsSum
<1>8. \A s \in SUBSET D : Iter(f, D)[s] = g[s]
  <2> DEFINE T == {s \in SUBSET D : Iter(f, D)[s] = g[s]}
  <2>1. {} \in T
    BY <1>4, <1>7 DEF SumStep
  <2>2. ASSUME NEW s \in SUBSET D, s # {}, \A x \in s : s \ {x} \in T PROVE s \in T
    <3>1. s \ {Ch(s)} \in T
      BY <2>2, ChIn
    <3>2. Iter(f, D)[s] = SumStep(Iter(f, D), f, s) /\ g[s] = SumStep(g, f, s)
      BY <1>4, <1>7
    <3> QED BY <3>1, <3>2 DEF SumStep
  <2>3. T \in SUBSET SUBSET D
    OBVIOUS
  <2>4. T = SUBSET D
    <3> HIDE DEF T
    <3> QED BY <2>1, <2>2, <2>3, InductSubsets
  <2> QED BY <2>4
<1>9. Iter(f, D) = g
  <2>1. Iter(f, D) = [s \in SUBSET D |-> SumStep(Iter(f, D), f, s)]
    BY <1>6 DEF IsSum
  <2>2. g = [s \in SUBSET D |-> g[s]]
    OBVIOUS
  <2>3. \A s \in SUBSET D : SumStep(Iter(f, D), f, s) = g[s]
    BY <1>7, <1>8
  <2> QED BY <2>1, <2>2, <2>3
<1> QED BY <1>7, <1>9

\* Any element may be taken out first.
LEMMA IterRemove ==
    ASSUME NEW D, IsFiniteSet(D), NEW f \in [D -> Int], NEW s \in SUBSET D, NEW x \in s
    PROVE  Iter(f, D)[s] = f[x] + Iter(f, D)[s \ {x}]
<1> DEFINE t == Iter(f, D)
           T == {r \in SUBSET D : \A e \in r : t[r] = f[e] + t[r \ {e}]}
<1>1. t \in [SUBSET D -> Int] /\ \A r \in SUBSET D : t[r] = SumStep(t, f, r)
  BY IterIsSum
<1> HIDE DEF t
<1>2. {} \in T
  OBVIOUS
<1>3. ASSUME NEW r \in SUBSET D, r # {}, \A e \in r : r \ {e} \in T PROVE r \in T
  <2> SUFFICES ASSUME NEW e \in r PROVE t[r] = f[e] + t[r \ {e}]
    BY <1>3
  <2> DEFINE c == Ch(r)
  <2>1. c \in r /\ t[r] = f[c] + t[r \ {c}]
    BY <1>1, <1>3, ChIn DEF SumStep
  <2> HIDE DEF c
  <2>2. CASE e # c
    <3>1. t[r \ {c}] = f[e] + t[(r \ {c}) \ {e}]
      BY <1>3, <2>1, <2>2
    <3>2. t[r \ {e}] = f[c] + t[(r \ {e}) \ {c}]
      BY <1>3, <2>1, <2>2
    <3>3. (r \ {c}) \ {e} = (r \ {e}) \ {c}
      OBVIOUS
    <3>4. f[c] \in Int /\ f[e] \in Int /\ t[(r \ {c}) \ {e}] \in Int
      BY <1>1, <2>1
    <3> DEFINE u == t[r \ {c}]
               v == t[r \ {e}]
               w == t[(r \ {c}) \ {e}]
    <3>5. t[r] = f[c] + u /\ u = f[e] + w /\ v = f[c] + w
      BY <2>1, <3>1, <3>2, <3>3, Zenon
    <3> HIDE DEF w, u
    <3>6. t[r] = f[e] + v
      <4> HIDE DEF v
      <4> QED BY <3>4, <3>5 DEF w
    <3> QED BY <3>6
  <2> QED BY <2>1, <2>2
<1>4. T = SUBSET D
  <2>1. T \in SUBSET SUBSET D
    OBVIOUS
  <2> HIDE DEF T
  <2> QED BY <1>2, <1>3, <2>1, InductSubsets
<1> QED BY <1>4 DEF t

\* The sum over a part does not depend on the rest.
LEMMA IterPart ==
    ASSUME NEW D, IsFiniteSet(D), NEW f \in [D -> Int], NEW E \in SUBSET D
    PROVE  Iter(f, D)[E] = SumFunction([i \in E |-> f[i]])
<1> DEFINE g == [i \in E |-> f[i]]
           T == {s \in SUBSET E : Iter(f, D)[s] = Iter(g, E)[s]}
<1>1. g \in [E -> Int] /\ IsFiniteSet(E) /\ DOMAIN g = E
  BY FS_Subset
<1>2. /\ \A s \in SUBSET D : Iter(f, D)[s] = SumStep(Iter(f, D), f, s)
      /\ \A s \in SUBSET E : Iter(g, E)[s] = SumStep(Iter(g, E), g, s)
  <2> HIDE DEF g
  <2> QED BY <1>1, IterIsSum
<1>3. {} \in T
  BY <1>2 DEF SumStep
<1>4. ASSUME NEW s \in SUBSET E, s # {}, \A x \in s : s \ {x} \in T PROVE s \in T
  <2>1. Ch(s) \in s /\ s \ {Ch(s)} \in T /\ f[Ch(s)] = g[Ch(s)]
    BY <1>4, ChIn
  <2> HIDE DEF g
  <2> QED BY <1>2, <1>4, <2>1 DEF SumStep
<1>5. T = SUBSET E
  <2>1. T \in SUBSET SUBSET E
    OBVIOUS
  <2> HIDE DEF T
  <2> QED BY <1>1, <1>3, <1>4, <2>1, InductSubsets
<1>6. Iter(f, D)[E] = Iter(g, E)[E]
  BY <1>5
<1> QED BY <1>1, <1>6, SumIsIter

LEMMA SumIsInt ==
    ASSUME NEW D, IsFiniteSet(D), NEW f \in [D -> Int]
    PROVE  SumFunction(f) \in Int
<1>1. DOMAIN f = D /\ D \in SUBSET D
  OBVIOUS
<1>2. Iter(f, D) \in [SUBSET D -> Int]
  BY IterIsSum
<1> QED BY <1>1, <1>2, SumIsIter

\* Sums over 1 .. n, where n is a number: nothing, one entry more.
LEMMA SumEmpty ==
    ASSUME NEW f \in [1 .. 0 -> Int]
    PROVE  SumFunction(f) = 0
<1>1. DOMAIN f = {} /\ f \in [{} -> Int] /\ IsFiniteSet({})
  BY FS_EmptySet
<1>2. Iter(f, {})[{}] = SumStep(Iter(f, {}), f, {})
  BY <1>1, IterIsSum
<1> QED BY <1>1, <1>2, SumIsIter DEF SumStep

Without(f, D, x) == [i \in D \ {x} |-> f[i]]
Cut(f, n) == [i \in 1 .. n |-> f[i]]

LEMMA SumRemove ==
    ASSUME NEW D, IsFiniteSet(D), NEW f \in [D -> Int], NEW x \in D
    PROVE  /\ f[x] \in Int /\ SumFunction(Without(f, D, x)) \in Int
           /\ SumFunction(f) = f[x] + SumFunction(Without(f, D, x))
<1> DEFINE E == D \ {x}
           g == [i \in E |-> f[i]]
<1>1. /\ DOMAIN f = D /\ D \in SUBSET D /\ E \in SUBSET D /\ IsFiniteSet(E)
      /\ f[x] \in Int /\ g \in [E -> Int]
  BY FS_Subset
<1>2. Iter(f, D)[D] = f[x] + Iter(f, D)[E]
  BY <1>1, IterRemove
<1>3. Iter(f, D)[E] = SumFunction(g)
  <2> HIDE DEF E
  <2> QED BY <1>1, IterPart
<1>4. SumFunction(g) \in Int
  <2> HIDE DEF g, E
  <2> QED BY <1>1, SumIsInt
<1> HIDE DEF g
<1>5. SumFunction(f) = f[x] + SumFunction(g)
  BY <1>1, <1>2, <1>3, SumIsIter
<1> QED BY <1>1, <1>4, <1>5 DEF g, Without

LEMMA SumNext ==
    ASSUME NEW n \in Nat, NEW f \in [1 .. n + 1 -> Int]
    PROVE  /\ Cut(f, n) \in [1 .. n -> Int] /\ f[n + 1] \in Int
           /\ SumFunction(Cut(f, n)) \in Int
           /\ SumFunction(f) = f[n + 1] + SumFunction(Cut(f, n))
<1> DEFINE D == 1 .. n + 1
<1>1. IsFiniteSet(D)
  <2>1. 1 \in Int /\ n + 1 \in Int
    OBVIOUS
  <2> QED BY <2>1, FS_Interval, Zenon
<1>2. n + 1 \in D /\ Without(f, D, n + 1) = Cut(f, n) /\ f \in [D -> Int]
  BY DEF Without, Cut
<1>3. Cut(f, n) \in [1 .. n -> Int]
  BY DEF Cut
<1> HIDE DEF D
<1>4. /\ f[n + 1] \in Int /\ SumFunction(Without(f, D, n + 1)) \in Int
      /\ SumFunction(f) = f[n + 1] + SumFunction(Without(f, D, n + 1))
  BY <1>1, <1>2, SumRemove
<1> QED BY <1>2, <1>3, <1>4

\* Sums of congruent terms are congruent, and sums are linear.
LEMMA SumLinear ==
    ASSUME NEW M \in Nat \ {0, 1}, NEW n \in Nat, NEW f \in [1 .. n -> Int], NEW g \in [1 .. n -> Int],
           NEW h \in [1 .. n -> Int], NEW a \in Int, NEW b \in Int,
           \A i \in 1 .. n : Same(a * f[i] + b * g[i], h[i], M)
    PROVE  Same(a * SumFunction(f) + b * SumFunction(g), SumFunction(h), M)
<1> DEFINE Ok(k, p, q, r) == (\A i \in 1 .. k : Same(a * p[i] + b * q[i], r[i], M)) =>
               Same(a * SumFunction(p) + b * SumFunction(q), SumFunction(r), M)
           T == {k \in Nat : \A p, q, r \in [1 .. k -> Int] : Ok(k, p, q, r)}
<1>0. \A k \in Nat : (\A p, q, r \in [1 .. k -> Int] : Ok(k, p, q, r)) => k \in T
  <2> HIDE DEF Ok
  <2> QED OBVIOUS
<1>1. 0 \in T
  <2> SUFFICES ASSUME NEW p \in [1 .. 0 -> Int], NEW q \in [1 .. 0 -> Int], NEW r \in [1 .. 0 -> Int]
               PROVE  Same(a * SumFunction(p) + b * SumFunction(q), SumFunction(r), M)
    OBVIOUS
  <2>1. SumFunction(p) = 0 /\ SumFunction(q) = 0 /\ SumFunction(r) = 0
    BY SumEmpty
  <2>2. a * 0 + b * 0 = 0
    OBVIOUS
  <2> QED BY <2>1, <2>2 DEF Same
<1>2. ASSUME NEW k \in T PROVE k + 1 \in T
  <2> SUFFICES ASSUME NEW p \in [1 .. k + 1 -> Int], NEW q \in [1 .. k + 1 -> Int],
                      NEW r \in [1 .. k + 1 -> Int],
                      \A i \in 1 .. k + 1 : Same(a * p[i] + b * q[i], r[i], M)
               PROVE  Same(a * SumFunction(p) + b * SumFunction(q), SumFunction(r), M)
    <3>1. k + 1 \in Nat
      BY <1>2
    <3>2. \A p, q, r \in [1 .. k + 1 -> Int] : Ok(k + 1, p, q, r)
      OBVIOUS
    <3> HIDE DEF T, Ok
    <3> QED BY <1>0, <3>1, <3>2
  <2> DEFINE pk == Cut(p, k)
             qk == Cut(q, k)
             rk == Cut(r, k)
  <2>0. k \in Nat
    BY <1>2
  <2>1. /\ pk \in [1 .. k -> Int] /\ p[k + 1] \in Int /\ SumFunction(pk) \in Int
        /\ SumFunction(p) = p[k + 1] + SumFunction(pk)
    BY <2>0, SumNext
  <2>2. /\ qk \in [1 .. k -> Int] /\ q[k + 1] \in Int /\ SumFunction(qk) \in Int
        /\ SumFunction(q) = q[k + 1] + SumFunction(qk)
    BY <2>0, SumNext
  <2>3. /\ rk \in [1 .. k -> Int] /\ r[k + 1] \in Int /\ SumFunction(rk) \in Int
        /\ SumFunction(r) = r[k + 1] + SumFunction(rk)
    BY <2>0, SumNext
  <2>4. \A i \in 1 .. k : /\ i \in 1 .. k + 1
                          /\ pk[i] = p[i] /\ qk[i] = q[i] /\ rk[i] = r[i]
    BY <2>0 DEF Cut
  <2>5. k + 1 \in 1 .. k + 1
    BY <2>0
  <2>6. Same(a * p[k + 1] + b * q[k + 1], r[k + 1], M)
    BY <2>5
  <2>7. \A i \in 1 .. k : Same(a * pk[i] + b * qk[i], rk[i], M)
    BY <2>4
  <2> HIDE DEF pk, qk, rk
  <2>8. Same(a * SumFunction(pk) + b * SumFunction(qk), SumFunction(rk), M)
    BY <1>2, <2>1, <2>2, <2>3, <2>7
  <2> DEFINE x == p[k + 1]
             y == q[k + 1]
             w == r[k + 1]
             X == SumFunction(pk)
             Y == SumFunction(qk)
             W == SumFunction(rk)
  <2>9. /\ x \in Int /\ y \in Int /\ w \in Int /\ X \in Int /\ Y \in Int /\ W \in Int
        /\ Same(a * x + b * y, w, M) /\ Same(a * X + b * Y, W, M)
        /\ SumFunction(p) = x + X /\ SumFunction(q) = y + Y /\ SumFunction(r) = w + W
    BY <2>1, <2>2, <2>3, <2>6, <2>8
  <2> HIDE DEF x, y, w, X, Y, W
  <2>10. a * x + b * y \in Int /\ a * X + b * Y \in Int
    BY <2>9
  <2>12. Same((a * x + b * y) + (a * X + b * Y), w + W, M)
    <3> DEFINE u == a * x + b * y
               v == a * X + b * Y
    <3>1. u \in Int /\ v \in Int /\ Same(u, w, M) /\ Same(v, W, M)
      BY <2>9, <2>10
    <3> HIDE DEF u, v
    <3>3. Same(u + v, w + W, M)
      BY <2>9, <3>1, CongAdd
    <3> QED BY <3>3 DEF u, v
  <2>11. (a * x + b * y) + (a * X + b * Y) = a * (x + X) + b * (y + Y)
    BY <2>9
  <2> QED BY <2>9, <2>12, <2>11
<1>3. T = Nat
  <2>1. T \in SUBSET Nat
    OBVIOUS
  <2> HIDE DEF T
  <2> QED BY <1>1, <1>2, <2>1, Induct
<1>4. Ok(n, f, g, h)
  <2>1. \A p, q, r \in [1 .. n -> Int] : Ok(n, p, q, r)
    BY <1>3
  <2> HIDE DEF Ok
  <2> QED BY <2>1
<1> QED BY <1>4

\* Three terms, as in AddKeys3.
LEMMA SumThree ==
    ASSUME NEW f \in [1 .. 3 -> Int]
    PROVE  SumFunction(f) = (f[1] + f[2]) + f[3]
<1> DEFINE g == Cut(f, 2)
           h == Cut(g, 1)
           e == Cut(h, 0)
<1>0. f \in [1 .. 2 + 1 -> Int] /\ 2 \in Nat /\ 1 \in Nat /\ 0 \in Nat
  OBVIOUS
<1>1. g \in [1 .. 2 -> Int] /\ f[2 + 1] \in Int /\ SumFunction(f) = f[2 + 1] + SumFunction(g)
  BY <1>0, SumNext
<1>2. g \in [1 .. 1 + 1 -> Int] /\ g[1] = f[1] /\ g[2] = f[2]
  BY <1>1 DEF Cut
<1> HIDE DEF g
<1>3. h \in [1 .. 1 -> Int] /\ g[1 + 1] \in Int /\ SumFunction(g) = g[1 + 1] + SumFunction(h)
  BY <1>0, <1>2, SumNext
<1>4. h \in [1 .. 0 + 1 -> Int] /\ h[1] = g[1]
  BY <1>3 DEF Cut
<1> HIDE DEF h
<1>5. e \in [1 .. 0 -> Int] /\ h[0 + 1] \in Int /\ SumFunction(h) = h[0 + 1] + SumFunction(e)
  BY <1>0, <1>4, SumNext
<1> HIDE DEF e
<1>6. SumFunction(e) = 0
  BY <1>5, SumEmpty
<1> QED BY <1>1, <1>2, <1>3, <1>4, <1>5, <1>6

\* A sum in two parts.
Shift(f, m, n) == [i \in 1 .. n |-> f[m + i]]
Splits(f, m, n) == SumFunction(f) = SumFunction(Cut(f, m)) + SumFunction(Shift(f, m, n))

LEMMA SumIs ==
    ASSUME NEW n \in Nat, NEW f \in [1 .. n -> Int]
    PROVE  SumFunction(f) \in Int
<1>1. IsFiniteSet(1 .. n)
  BY FS_Interval
<1> DEFINE D == 1 .. n
<1>2. IsFiniteSet(D) /\ f \in [D -> Int]
  BY <1>1
<1> HIDE DEF D
<1> QED BY <1>2, SumIsInt

LEMMA SumSplits ==
    ASSUME NEW m \in Nat
    PROVE  \A n \in Nat : \A f \in [1 .. m + n -> Int] : Splits(f, m, n)
<1> DEFINE T == {n \in Nat : \A f \in [1 .. m + n -> Int] : Splits(f, m, n)}
<1>1. 0 \in T
  <2> SUFFICES ASSUME NEW f \in [1 .. m + 0 -> Int] PROVE Splits(f, m, 0)
    OBVIOUS
  <2>1. Cut(f, m) = f /\ Shift(f, m, 0) \in [1 .. 0 -> Int] /\ m + 0 = m
    BY DEF Cut, Shift
  <2>2. SumFunction(Shift(f, m, 0)) = 0 /\ SumFunction(f) \in Int
    BY <2>1, SumEmpty, SumIs
  <2> QED BY <2>1, <2>2 DEF Splits
<1>2. ASSUME NEW n \in T PROVE n + 1 \in T
  <2>0. n \in Nat /\ n + 1 \in Nat
    BY <1>2
  <2> SUFFICES ASSUME NEW f \in [1 .. m + (n + 1) -> Int] PROVE Splits(f, m, n + 1)
    BY <2>0
  <2> DEFINE k == m + n
             g == Cut(f, k)
             h == Shift(f, m, n + 1)
  <2>1. k \in Nat /\ m + (n + 1) = k + 1
    BY <2>0
  <2>2. f \in [1 .. k + 1 -> Int]
    BY <2>1
  <2>3. h \in [1 .. n + 1 -> Int] /\ h[n + 1] = f[k + 1]
    BY <2>0, <2>1 DEF Shift
  <2>4. Cut(g, m) = Cut(f, m) /\ Shift(g, m, n) = Cut(h, n)
    BY <2>0 DEF Cut, Shift
  <2> HIDE DEF k, g, h
  <2>5. /\ Cut(f, k) \in [1 .. k -> Int] /\ f[k + 1] \in Int
        /\ SumFunction(f) = f[k + 1] + SumFunction(Cut(f, k))
    BY <2>1, <2>2, SumNext
  <2>6. /\ Cut(h, n) \in [1 .. n -> Int]
        /\ SumFunction(Cut(h, n)) \in Int /\ SumFunction(h) = h[n + 1] + SumFunction(Cut(h, n))
    BY <2>0, <2>3, SumNext
  <2>7. Splits(g, m, n)
    BY <1>2, <2>5 DEF g, k
  <2>8. SumFunction(g) = SumFunction(Cut(f, m)) + SumFunction(Cut(h, n))
    BY <2>4, <2>7 DEF Splits
  <2>9. SumFunction(Cut(f, m)) \in Int
    <3>1. Cut(f, m) \in [1 .. m -> Int]
      BY <2>0 DEF Cut
    <3> QED BY <3>1, SumIs
  <2>10. SumFunction(f) = f[k + 1] + (SumFunction(Cut(f, m)) + SumFunction(Cut(h, n)))
    BY <2>5, <2>8 DEF g
  <2>11. SumFunction(f) = SumFunction(Cut(f, m)) + SumFunction(h)
    BY <2>3, <2>5, <2>6, <2>9, <2>10
  <2> QED BY <2>11 DEF Splits, h
<1>3. T = Nat
  <2> HIDE DEF T
  <2>1. T \in SUBSET Nat
    BY DEF T
  <2> QED BY <1>1, <1>2, <2>1, Induct
<1> QED BY <1>3

\* A sum in blocks of one length.
BlockSum(f, b, j) == SumFunction([i \in 1 .. b |-> f[((j - 1) * b) + i]])

LEMMA SumBlocks ==
    ASSUME NEW M \in Nat \ {0, 1}, NEW b \in Nat
    PROVE  \A m \in Nat : \A f \in [1 .. m * b -> Int] : \A g \in [1 .. m -> Int] :
              (\A j \in 1 .. m : Same(BlockSum(f, b, j), g[j], M)) =>
                  Same(SumFunction(f), SumFunction(g), M)
<1> DEFINE Ok(m, f, g) == (\A j \in 1 .. m : Same(BlockSum(f, b, j), g[j], M)) =>
                              Same(SumFunction(f), SumFunction(g), M)
           T == {m \in Nat : \A f \in [1 .. m * b -> Int] : \A g \in [1 .. m -> Int] : Ok(m, f, g)}
<1>1. 0 \in T
  <2> SUFFICES ASSUME NEW f \in [1 .. 0 * b -> Int], NEW g \in [1 .. 0 -> Int]
               PROVE  Same(SumFunction(f), SumFunction(g), M)
    OBVIOUS
  <2>1. 0 * b = 0
    OBVIOUS
  <2>2. f \in [1 .. 0 -> Int]
    BY <2>1
  <2>3. SumFunction(f) = 0 /\ SumFunction(g) = 0
    BY <2>2, SumEmpty
  <2> QED BY <2>3 DEF Same
<1>2. ASSUME NEW m \in T PROVE m + 1 \in T
  <2>0. m \in Nat /\ m + 1 \in Nat
    BY <1>2
  <2> SUFFICES ASSUME NEW f \in [1 .. (m + 1) * b -> Int], NEW g \in [1 .. m + 1 -> Int],
                      \A j \in 1 .. m + 1 : Same(BlockSum(f, b, j), g[j], M)
               PROVE  Same(SumFunction(f), SumFunction(g), M)
    BY <2>0
  <2> DEFINE k == m * b
             fk == Cut(f, k)
             gm == Cut(g, m)
             last == Shift(f, k, b)
  <2>1. k \in Nat /\ (m + 1) * b = k + b
    BY <2>0
  <2>2. f \in [1 .. k + b -> Int]
    BY <2>1
  <2>3. Splits(f, k, b)
    <3> HIDE DEF k
    <3> QED BY <2>1, <2>2, SumSplits
  <2>4. fk \in [1 .. k -> Int] /\ last \in [1 .. b -> Int]
    <3> HIDE DEF k
    <3> QED BY <2>1, <2>2 DEF Cut, Shift
  <2>5. /\ gm \in [1 .. m -> Int] /\ g[m + 1] \in Int /\ SumFunction(gm) \in Int
        /\ SumFunction(g) = g[m + 1] + SumFunction(gm)
    BY <2>0, SumNext
  <2>6. last = [i \in 1 .. b |-> f[(((m + 1) - 1) * b) + i]]
    BY <2>0 DEF Shift
  <2>7. Same(SumFunction(last), g[m + 1], M)
    <3>1. m + 1 \in 1 .. m + 1
      BY <2>0
    <3> QED BY <2>6, <3>1 DEF BlockSum
  <2>8. ASSUME NEW j \in 1 .. m PROVE Same(BlockSum(fk, b, j), gm[j], M)
    <3>1. j \in 1 .. m + 1 /\ gm[j] = g[j]
      BY <2>0 DEF Cut
    <3>2. ASSUME NEW i \in 1 .. b PROVE fk[((j - 1) * b) + i] = f[((j - 1) * b) + i]
      <4>1. ((j - 1) * b) + i \in Nat /\ ((j - 1) * b) + i >= 1
        <5> DEFINE x == (j - 1) * b
        <5>1. x \in Nat /\ i >= 1
          BY <2>0
        <5> HIDE DEF x
        <5>2. x + i \in Nat /\ x + i >= 1
          BY <5>1
        <5> QED BY <5>2 DEF x
      <4>2. ((j - 1) * b) + i <= m * b
        <5>1. m - j \in Nat /\ (m - j) * b \in Nat
          BY <2>0
        <5>2. m * b = (m - j) * b + ((j - 1) * b + b)
          BY <2>0
        <5>3. (j - 1) * b \in Int /\ i <= b
          BY <2>0
        <5> DEFINE x == (j - 1) * b
                   w == (m - j) * b
                   v == m * b
        <5>4. x \in Int /\ w \in Nat /\ v = w + (x + b)
          BY <5>1, <5>2, <5>3
        <5> HIDE DEF x, w, v
        <5>5. x + i <= v
          BY <5>3, <5>4
        <5> QED BY <5>5 DEF x, v
      <4> QED BY <4>1, <4>2 DEF Cut
    <3>3. BlockSum(fk, b, j) = BlockSum(f, b, j)
      <4> HIDE DEF fk
      <4> QED BY <3>2, Zenon DEF BlockSum
    <3> QED BY <3>1, <3>3
  <2>9. Same(SumFunction(fk), SumFunction(gm), M)
    <3>1. Ok(m, fk, gm)
      <4>1. \A p \in [1 .. k -> Int] : \A q \in [1 .. m -> Int] : Ok(m, p, q)
        BY <1>2
      <4> HIDE DEF Ok, fk, gm
      <4> QED BY <2>4, <2>5, <4>1
    <3> HIDE DEF fk, gm
    <3> QED BY <2>8, <3>1
  <2>10. SumFunction(f) = SumFunction(fk) + SumFunction(last)
    BY <2>3 DEF Splits
  <2> DEFINE x == SumFunction(fk)
             y == SumFunction(last)
             u == SumFunction(gm)
             v == g[m + 1]
  <2>11. x \in Int /\ y \in Int /\ u \in Int /\ v \in Int /\ Same(x, u, M) /\ Same(y, v, M)
    <3>1. x \in Int /\ y \in Int
      <4> HIDE DEF fk, last, k
      <4> QED BY <2>1, <2>4, SumIs
    <3> QED BY <2>5, <2>7, <2>9, <3>1
  <2> HIDE DEF x, y, u, v
  <2>12. Same(x + y, u + v, M)
    BY <2>11, CongAdd
  <2>13. SumFunction(g) = u + v
    BY <2>5, <2>11 DEF u, v
  <2> QED BY <2>10, <2>12, <2>13 DEF x, y
<1>3. T = Nat
  <2> HIDE DEF T
  <2>1. T \in SUBSET Nat
    BY DEF T
  <2> QED BY <1>1, <1>2, <2>1, Induct
<1> QED BY <1>3

\* A sum of one term.
LEMMA SumOne ==
    ASSUME NEW j \in Nat \ {0}
    PROVE  \A n \in Nat : \A f \in [1 .. n -> Int] :
              (\A i \in 1 .. n : i # j => f[i] = 0) => SumFunction(f) = IF j <= n THEN f[j] ELSE 0
<1> DEFINE Ok(n, f) == (\A i \in 1 .. n : i # j => f[i] = 0) => SumFunction(f) = IF j <= n THEN f[j] ELSE 0
           T == {n \in Nat : \A f \in [1 .. n -> Int] : Ok(n, f)}
<1>1. 0 \in T
  BY SumEmpty
<1>2. ASSUME NEW n \in T PROVE n + 1 \in T
  <2>0. n \in Nat /\ n + 1 \in Nat
    BY <1>2
  <2> SUFFICES ASSUME NEW f \in [1 .. n + 1 -> Int], \A i \in 1 .. n + 1 : i # j => f[i] = 0
               PROVE  SumFunction(f) = IF j <= n + 1 THEN f[j] ELSE 0
    BY <2>0
  <2>1. /\ Cut(f, n) \in [1 .. n -> Int] /\ f[n + 1] \in Int
        /\ SumFunction(f) = f[n + 1] + SumFunction(Cut(f, n))
    BY <2>0, SumNext
  <2>2. \A i \in 1 .. n : Cut(f, n)[i] = f[i] /\ i \in 1 .. n + 1
    BY <2>0 DEF Cut
  <2>3. SumFunction(Cut(f, n)) = IF j <= n THEN Cut(f, n)[j] ELSE 0
    BY <1>2, <2>1, <2>2
  <2>4. CASE j <= n
    <3>1. f[n + 1] = 0 /\ f[j] \in Int
      BY <2>0, <2>4
    <3> QED BY <2>0, <2>1, <2>2, <2>3, <2>4, <3>1
  <2>5. CASE j = n + 1
    BY <2>0, <2>1, <2>3, <2>5
  <2>6. CASE ~(j <= n) /\ j # n + 1
    <3>1. f[n + 1] = 0
      BY <2>0, <2>6
    <3> QED BY <2>0, <2>1, <2>3, <2>6, <3>1
  <2> QED BY <2>4, <2>5, <2>6
<1>3. T = Nat
  <2> HIDE DEF T
  <2>1. T \in SUBSET Nat
    BY DEF T
  <2> QED BY <1>1, <1>2, <2>1, Induct
<1> QED BY <1>3

-----------------------------------------------------------------------------
(* Sequences of whatever, one after the other.                                  *)

Tuple(t, n) == t = [i \in 1 .. n |-> t[i]]

LEMMA TupleIs ==
    ASSUME NEW n \in Nat, NEW t, Tuple(t, n)
    PROVE  Len(t) = n /\ DOMAIN t = 1 .. n /\ t \in Seq({t[i] : i \in 1 .. n})
<1> DEFINE W == {t[i] : i \in 1 .. n}
<1>1. DOMAIN t = 1 .. n
  BY DEF Tuple
<1>2. t \in [1 .. n -> W]
  BY DEF Tuple
<1>3. t \in Seq(W)
  <2> HIDE DEF W
  <2> QED BY <1>2, SeqDef
<1>4. Len(t) = n
  <2> HIDE DEF W
  <2> QED BY <1>1, <1>3, LenProperties
<1> QED BY <1>1, <1>3, <1>4

LEMMA TupleEqual ==
    ASSUME NEW n, NEW s, NEW t, Tuple(s, n), Tuple(t, n), \A i \in 1 .. n : s[i] = t[i]
    PROVE  s = t
<1>1. [i \in 1 .. n |-> s[i]] = [i \in 1 .. n |-> t[i]]
  OBVIOUS
<1> QED BY <1>1, Zenon DEF Tuple

Joined(a, m, b, n) ==
    /\ Tuple(a \o b, m + n) /\ m + n \in Nat
    /\ \A i \in 1 .. m + n : (a \o b)[i] = IF i <= m THEN a[i] ELSE b[i - m]

LEMMA Cat ==
    ASSUME NEW m \in Nat, NEW n \in Nat, NEW a, NEW b, Tuple(a, m), Tuple(b, n)
    PROVE  Joined(a, m, b, n)
<1> DEFINE V == {a[i] : i \in 1 .. m}
           U == {b[i] : i \in 1 .. n}
           W == V \cup U
<1>1. Len(a) = m /\ a \in Seq(V) /\ Len(b) = n /\ b \in Seq(U)
  BY TupleIs
<1>2. V \subseteq W /\ U \subseteq W
  OBVIOUS
<1> HIDE DEF V, U, W
<1>3. a \in Seq(W) /\ b \in Seq(W)
  BY <1>1, <1>2, SeqMonotonic
<1>4. /\ a \o b \in Seq(W) /\ Len(a \o b) = m + n
      /\ \A i \in 1 .. m + n : (a \o b)[i] = IF i <= m THEN a[i] ELSE b[i - m]
  BY <1>1, <1>3, ConcatProperties
<1>5. Tuple(a \o b, m + n)
  BY <1>4, LenProperties DEF Tuple
<1> QED BY <1>4, <1>5 DEF Joined

LEMMA TupleCases ==
    /\ Tuple(<<>>, 0)
    /\ \A v : Tuple(<<v>>, 1)
    /\ \A v, w : Tuple(<<v, w>>, 2)
    /\ \A u, v, w : Tuple(<<u, v, w>>, 3)
    /\ \A u, v, w, x : Tuple(<<u, v, w, x>>, 4)
    /\ \A u, v, w, x, q : Tuple(<<u, v, w, x, q>>, 5)
    /\ \A u, v, w, x, q, r : Tuple(<<u, v, w, x, q, r>>, 6)
<1>1. Tuple(<<>>, 0)
  BY DEF Tuple
<1>2. ASSUME NEW v PROVE Tuple(<<v>>, 1)
  BY DEF Tuple
<1>3. ASSUME NEW v, NEW w PROVE Tuple(<<v, w>>, 2)
  BY DEF Tuple
<1>4. ASSUME NEW u, NEW v, NEW w PROVE Tuple(<<u, v, w>>, 3)
  BY DEF Tuple
<1>5. ASSUME NEW u, NEW v, NEW w, NEW x PROVE Tuple(<<u, v, w, x>>, 4)
  BY DEF Tuple
<1>6. ASSUME NEW u, NEW v, NEW w, NEW x, NEW q PROVE Tuple(<<u, v, w, x, q>>, 5)
  BY DEF Tuple
<1>7. ASSUME NEW u, NEW v, NEW w, NEW x, NEW q, NEW r PROVE Tuple(<<u, v, w, x, q, r>>, 6)
  BY SMTT(60) DEF Tuple
<1> QED BY <1>1, <1>2, <1>3, <1>4, <1>5, <1>6, <1>7

LEMMA SliceIs ==
    ASSUME NEW n \in Nat, NEW t, Tuple(t, n), NEW i \in 1 .. n, NEW j \in i - 1 .. n
    PROVE  /\ Tuple(SubSeq(t, i, j), (j - i) + 1)
           /\ \A k \in 1 .. (j - i) + 1 : SubSeq(t, i, j)[k] = t[(i + k) - 1]
<1> DEFINE W == {t[k] : k \in 1 .. n}
           s == SubSeq(t, i, j)
<1>1. i \in Int /\ j \in Int /\ \A k \in i .. j : t[k] \in W
  OBVIOUS
<1>2. /\ s \in Seq(W) /\ Len(s) = (IF i <= j THEN (j - i) + 1 ELSE 0)
      /\ \A k \in 1 .. (j - i) + 1 : s[k] = t[(i + k) - 1]
  <2> HIDE DEF W
  <2> QED BY <1>1, SubSeqProperties
<1>3. Len(s) = (j - i) + 1
  BY <1>1, <1>2
<1>4. Tuple(s, (j - i) + 1)
  <2> HIDE DEF s, W
  <2> QED BY <1>2, <1>3, LenProperties DEF Tuple
<1> QED BY <1>2, <1>4

\* Rows, one after the other.
FlattenStep(s, rows, i) == IF i = 1 THEN rows[i] ELSE s[i - 1] \o rows[i]
AreFlat(s, rows, n) == s = [i \in 1 .. n |-> FlattenStep(s, rows, i)]

LEMMA FlatExists == \A rows : \A n \in Nat : \E s : AreFlat(s, rows, n + 1)
<1> SUFFICES ASSUME NEW rows PROVE \A n \in Nat : \E s : AreFlat(s, rows, n + 1)
  OBVIOUS
<1> DEFINE T == {n \in Nat : \E s : AreFlat(s, rows, n + 1)}
<1>1. 0 \in T
  <2> DEFINE s == [i \in 1 .. 0 + 1 |-> rows[i]]
  <2>1. AreFlat(s, rows, 0 + 1)
    BY DEF AreFlat, FlattenStep
  <2> QED BY <2>1
<1>2. ASSUME NEW n \in T PROVE n + 1 \in T
  <2>1. PICK s : AreFlat(s, rows, n + 1)
    BY <1>2
  <2> DEFINE m == (n + 1) + 1
             q == [i \in 1 .. m |-> IF i <= n + 1 THEN s[i] ELSE FlattenStep(s, rows, m)]
  <2>2. n \in Nat
    BY <1>2
  <2>3. ASSUME NEW i \in 1 .. m PROVE q[i] = FlattenStep(q, rows, i)
    <3>1. CASE i = 1
      <4>1. q[i] = s[i] /\ s[i] = FlattenStep(s, rows, i)
        BY <2>1, <2>2, <3>1 DEF AreFlat
      <4> QED BY <3>1, <4>1 DEF FlattenStep
    <3>2. CASE i # 1
      <4>1. q[i - 1] = s[i - 1]
        BY <2>2, <3>2
      <4>2. q[i] = FlattenStep(s, rows, i)
        <5>1. CASE i <= n + 1
          BY <2>1, <2>2, <5>1, SMTT(30) DEF AreFlat
        <5>2. CASE i = m
          BY <2>2, <5>2
        <5> QED BY <2>2, <5>1, <5>2
      <4> HIDE DEF q
      <4> QED BY <4>1, <4>2, Zenon DEF FlattenStep
    <3> QED BY <3>1, <3>2
  <2>4. q = [i \in 1 .. m |-> q[i]]
    OBVIOUS
  <2>5. AreFlat(q, rows, m)
    <3> HIDE DEF q, m
    <3> QED BY <2>3, <2>4 DEF AreFlat
  <2>6. \E u : AreFlat(u, rows, (n + 1) + 1)
    <3> HIDE DEF q
    <3> QED BY <2>5
  <2> QED BY <2>2, <2>6
<1>3. T = Nat
  <2> HIDE DEF T
  <2>1. T \in SUBSET Nat
    BY DEF T
  <2> QED BY <1>1, <1>2, <2>1, Induct
<1> QED BY <1>3

\* A sequence of anything.
IsSeq(s) == \E S : s \in Seq(S)

LEMMA SeqLen ==
    ASSUME NEW s, IsSeq(s)
    PROVE  Len(s) \in Nat /\ DOMAIN s = 1 .. Len(s)
BY LenProperties DEF IsSeq

LEMMA Together ==
    ASSUME NEW a, IsSeq(a), NEW b, IsSeq(b), NEW c, IsSeq(c)
    PROVE  \E S : a \in Seq(S) /\ b \in Seq(S) /\ c \in Seq(S)
<1>1. PICK A, B, C : a \in Seq(A) /\ b \in Seq(B) /\ c \in Seq(C)
  BY DEF IsSeq
<1> DEFINE S == A \cup B \cup C
<1>2. A \subseteq S /\ B \subseteq S /\ C \subseteq S
  OBVIOUS
<1> HIDE DEF S
<1>3. a \in Seq(S) /\ b \in Seq(S) /\ c \in Seq(S)
  BY <1>1, <1>2, SeqMonotonic
<1> QED BY <1>3

LEMMA ConcatIs ==
    ASSUME NEW a, IsSeq(a), NEW b, IsSeq(b)
    PROVE  /\ IsSeq(a \o b) /\ Len(a \o b) = Len(a) + Len(b)
           /\ \A i \in 1 .. Len(a) + Len(b) : (a \o b)[i] = IF i <= Len(a) THEN a[i] ELSE b[i - Len(a)]
           /\ a \o <<>> = a /\ <<>> \o a = a
<1>1. PICK S : a \in Seq(S) /\ b \in Seq(S)
  BY Together
<1> QED BY <1>1, ConcatProperties, ConcatEmptySeq DEF IsSeq

LEMMA Assoc ==
    ASSUME NEW a, IsSeq(a), NEW b, IsSeq(b), NEW c, IsSeq(c)
    PROVE  (a \o b) \o c = a \o (b \o c)
BY Together, ConcatAssociative

LEMMA TupleIsSeq ==
    ASSUME NEW n \in Nat, NEW t, Tuple(t, n)
    PROVE  IsSeq(t) /\ Len(t) = n
BY TupleIs DEF IsSeq

LEMMA SeqIsTuple ==
    ASSUME NEW s, IsSeq(s)
    PROVE  Tuple(s, Len(s))
BY LenProperties DEF IsSeq, Tuple

LEMMA SmallSeqs ==
    /\ IsSeq(<<>>)
    /\ \A v : IsSeq(<<v>>)
    /\ \A v, w : IsSeq(<<v, w>>)
    /\ \A u, v, w : IsSeq(<<u, v, w>>)
    /\ \A u, v, w, x : IsSeq(<<u, v, w, x>>)
BY TupleCases, TupleIsSeq

\* What is left of a sequence behind its first k.
Suffix(s, k) == SubSeq(s, k + 1, Len(s))

LEMMA SuffixIs ==
    ASSUME NEW s, IsSeq(s)
    PROVE  /\ Suffix(s, 0) = s
           /\ \A k \in 0 .. Len(s) - 1 : /\ Suffix(s, k) # <<>> /\ Head(Suffix(s, k)) = s[k + 1]
                                         /\ Tail(Suffix(s, k)) = Suffix(s, k + 1)
<1>1. PICK S : s \in Seq(S)
  BY DEF IsSeq
<1>2. Suffix(s, 0) = s
  BY <1>1, SubSeqFull DEF Suffix
<1>3. ASSUME NEW k \in 0 .. Len(s) - 1
      PROVE  /\ Suffix(s, k) # <<>> /\ Head(Suffix(s, k)) = s[k + 1]
             /\ Tail(Suffix(s, k)) = Suffix(s, k + 1)
  <2> DEFINE n == Len(s)
  <2>1. n \in Nat /\ DOMAIN s = 1 .. n
    BY <1>1, LenProperties
  <2>2. k + 1 \in 1 .. n /\ n \in k + 1 .. n /\ k + 1 \in Int /\ n \in Int
    BY <2>1
  <2>3. Head(SubSeq(s, k + 1, n)) = s[k + 1] /\ Tail(SubSeq(s, k + 1, n)) = SubSeq(s, (k + 1) + 1, n)
    BY <1>1, <2>2, HeadTailOfSubSeq
  <2>4. \A i \in k + 1 .. n : s[i] \in S
    BY <1>1, <2>1, ElementOfSeq
  <2>5. Len(SubSeq(s, k + 1, n)) = (n - (k + 1)) + 1
    BY <2>2, <2>4, SubSeqProperties
  <2>6. Len(SubSeq(s, k + 1, n)) # 0
    <3>1. (n - (k + 1)) + 1 # 0
        <4> HIDE DEF n
        <4> QED BY <2>2
    <3> QED BY <2>5, <3>1, Zenon
  <2>7. SubSeq(s, k + 1, n) # <<>>
    BY <2>6, EmptySeq
  <2> QED BY <2>3, <2>7 DEF Suffix
<1> QED BY <1>2, <1>3

LEMMA SuffixOfConcat ==
    ASSUME NEW a, IsSeq(a), NEW b, IsSeq(b)
    PROVE  Suffix(a \o b, Len(a)) = b
<1>1. PICK S : a \in Seq(S) /\ b \in Seq(S)
  BY Together
<1>2. Len(a) \in Nat /\ Len(b) \in Nat /\ Len(a \o b) = Len(a) + Len(b) /\ a \o b \in Seq(S)
  BY <1>1, LenProperties, ConcatProperties
<1>3. CASE Len(b) = 0
  <2>1. b = <<>>
    BY <1>1, <1>3, EmptySeq
  <2>2. Suffix(a \o b, Len(a)) = <<>>
    <3>1. Len(a \o b) < Len(a) + 1 /\ Len(a) + 1 \in Int /\ Len(a \o b) \in Int
      BY <1>2, <1>3
    <3> QED BY <3>1, SubSeqEmpty DEF Suffix
  <2> QED BY <2>1, <2>2
<1>4. CASE Len(b) # 0
  <2> DEFINE m == Len(a) + 1
             n == Len(a) + Len(b)
  <2>1. m \in Len(a) + 1 .. Len(a) + Len(b) /\ n \in Len(a) + 1 .. Len(a) + Len(b)
        /\ m - Len(a) = 1 /\ n - Len(a) = Len(b)
    BY <1>2, <1>4
  <2>2. SubSeq(a \o b, m, n) = SubSeq(b, m - Len(a), n - Len(a))
    <3> HIDE DEF m, n
    <3> QED BY <1>1, <2>1, SubSeqOfConcat2
  <2>3. SubSeq(b, 1, Len(b)) = b
    BY <1>1, SubSeqFull
  <2> QED BY <1>2, <2>1, <2>2, <2>3 DEF Suffix
<1> QED BY <1>3, <1>4

\* Two loops that begin alike and go on alike.
LEMMA SameLoops ==
    ASSUME NEW n \in Nat, NEW f, NEW x, f[0] = x[0],
           \A i \in 1 .. n : f[i - 1] = x[i - 1] => f[i] = x[i]
    PROVE  f[n] = x[n]
<1> DEFINE T == {k \in Nat : k <= n => f[k] = x[k]}
<1>1. 0 \in T
  OBVIOUS
<1>2. ASSUME NEW k \in T PROVE k + 1 \in T
  <2> SUFFICES ASSUME k + 1 <= n PROVE f[k + 1] = x[k + 1]
    OBVIOUS
  <2>1. k \in Nat /\ f[k] = x[k] /\ k + 1 \in 1 .. n /\ (k + 1) - 1 = k
    OBVIOUS
  <2> QED BY <2>1, Zenon
<1>3. T = Nat
  <2> HIDE DEF T
  <2>1. T \in SUBSET Nat
    BY DEF T
  <2> QED BY <1>1, <1>2, <2>1, Induct
<1> QED BY <1>3

\* What is left of rows that were written one after the other, row by row.
Peels(t, rows, n) ==
    /\ t[n] = <<>> /\ \A k \in 0 .. n : IsSeq(t[k])
    /\ \A k \in 1 .. n : t[k - 1] = rows[k] \o t[k]

\* One row more.
LEMMA PeelMore ==
    ASSUME NEW m \in Nat, NEW rows, NEW t, Peels(t, rows, m), IsSeq(rows[m + 1]),
           \A k \in 1 .. m : IsSeq(rows[k])
    PROVE  \E q : Peels(q, rows, m + 1) /\ q[0] = t[0] \o rows[m + 1]
<1> DEFINE r == rows[m + 1]
           q == [k \in 0 .. m + 1 |-> IF k = m + 1 THEN <<>> ELSE t[k] \o r]
<1>1. q[m + 1] = <<>> /\ \A k \in 0 .. m : q[k] = t[k] \o r
  OBVIOUS
<1>2. \A k \in 0 .. m : IsSeq(t[k])
  BY DEF Peels
<1>3. ASSUME NEW k \in 0 .. m + 1 PROVE IsSeq(q[k])
  <2>1. CASE k = m + 1
    BY <1>1, <2>1, SmallSeqs
  <2>2. CASE k # m + 1
    <3>1. k \in 0 .. m
      BY <2>2
    <3>2. IsSeq(t[k] \o r)
      BY <1>2, <3>1, ConcatIs, Zenon
    <3> QED BY <1>1, <3>1, <3>2
  <2> QED BY <2>1, <2>2
<1>4. ASSUME NEW k \in 1 .. m + 1 PROVE q[k - 1] = rows[k] \o q[k]
  <2>1. k - 1 \in 0 .. m
    OBVIOUS
  <2>2. CASE k = m + 1
    <3>1. t[m] = <<>> /\ <<>> \o r = r /\ r \o <<>> = r
      BY ConcatIs, Zenon DEF Peels
    <3>2. q[m] = r
      <4>1. m \in 0 .. m
        OBVIOUS
      <4> HIDE DEF q, r
      <4> QED BY <1>1, <3>1, <4>1, Zenon
    <3>3. rows[k] \o q[k] = r
      BY <1>1, <2>2, <3>1, Zenon
    <3>4. k - 1 = m
      BY <2>2
    <3> QED BY <3>2, <3>3, <3>4, Zenon
  <2>3. CASE k # m + 1
    <3>1. k \in 1 .. m /\ k \in 0 .. m
      BY <2>3
    <3>2. t[k - 1] = rows[k] \o t[k]
      BY <3>1, Zenon DEF Peels
    <3>3. (rows[k] \o t[k]) \o r = rows[k] \o (t[k] \o r)
      <4> DEFINE u == rows[k]
                 v == t[k]
      <4>1. IsSeq(u) /\ IsSeq(v) /\ IsSeq(r)
        BY <1>2, <3>1
      <4>2. (u \o v) \o r = u \o (v \o r)
        <5> HIDE DEF q, r, u, v
        <5> QED BY <4>1, Assoc
      <4> QED BY <4>2, Zenon
    <3>4. q[k - 1] = t[k - 1] \o r /\ q[k] = t[k] \o r
      BY <1>1, <2>1, <3>1
    <3> QED BY <3>2, <3>3, <3>4, Zenon
  <2> QED BY <2>2, <2>3
<1>5. q[0] = t[0] \o r
  <2>1. 0 \in 0 .. m
    OBVIOUS
  <2> HIDE DEF q, r
  <2> QED BY <1>1, <2>1, Zenon
<1> HIDE DEF q, r
<1>6. Peels(q, rows, m + 1)
  BY <1>1, <1>3, <1>4, Zenon DEF Peels
<1>7. r = rows[m + 1]
  BY DEF r
<1> QED BY <1>5, <1>6, <1>7, Zenon

LEMMA FlatPeels ==
    ASSUME NEW n \in Nat, NEW rows, NEW s, AreFlat(s, rows, n), \A i \in 1 .. n : IsSeq(rows[i])
    PROVE  n # 0 => \E t : Peels(t, rows, n) /\ t[0] = s[n]
<1> DEFINE Ok(k) == \E t : Peels(t, rows, k) /\ t[0] = s[k]
           T == {k \in Nat : k + 1 <= n => Ok(k + 1)}
<1>1. 0 \in T
  <2> SUFFICES ASSUME 0 + 1 <= n PROVE Ok(0 + 1)
    OBVIOUS
  <2> DEFINE t == [k \in 0 .. 1 |-> IF k = 0 THEN rows[1] ELSE <<>>]
  <2>1. 1 \in 1 .. n /\ s[1] = rows[1]
    BY DEF AreFlat, FlattenStep
  <2>2. IsSeq(rows[1]) /\ rows[1] \o <<>> = rows[1] /\ IsSeq(<<>>)
    <3>1. IsSeq(rows[1])
      BY <2>1
    <3> QED BY <3>1, ConcatIs, SmallSeqs, Zenon
  <2>3. t[0] = rows[1] /\ t[1] = <<>> /\ (\A k \in 0 .. 1 : k = 0 \/ k = 1) /\ \A k \in 1 .. 1 : k = 1 /\ k - 1 = 0
    OBVIOUS
  <2> HIDE DEF t
  <2>4. Peels(t, rows, 1)
    BY <2>2, <2>3, Zenon DEF Peels
  <2>5. 0 + 1 = 1
    OBVIOUS
  <2> QED BY <2>1, <2>3, <2>4, <2>5, Zenon
<1>2. ASSUME NEW k \in T PROVE k + 1 \in T
  <2> SUFFICES ASSUME (k + 1) + 1 <= n PROVE Ok((k + 1) + 1)
    BY <1>2
  <2> DEFINE m == k + 1
  <2>1. m \in Nat /\ m + 1 \in 1 .. n /\ m + 1 # 1 /\ (m + 1) - 1 = m /\ Ok(m) /\ 1 .. m \subseteq 1 .. n
    BY <1>2
  <2>2. (k + 1) + 1 = m + 1
    OBVIOUS
  <2> HIDE DEF m
  <2>3. PICK t : Peels(t, rows, m) /\ t[0] = s[m]
    BY <2>1
  <2>4. s[m + 1] = s[m] \o rows[m + 1]
    <3>1. s[m + 1] = FlattenStep(s, rows, m + 1)
      BY <2>1, Zenon DEF AreFlat
    <3> QED BY <2>1, <3>1 DEF FlattenStep
  <2>5. \E q : Peels(q, rows, m + 1) /\ q[0] = t[0] \o rows[m + 1]
    <3>1. IsSeq(rows[m + 1]) /\ \A i \in 1 .. m : IsSeq(rows[i])
      BY <2>1, Zenon
    <3> QED BY <2>1, <2>3, <3>1, PeelMore, Zenon
  <2>6. Ok(m + 1)
    BY <2>3, <2>4, <2>5, Zenon
  <2> QED BY <2>2, <2>6, Zenon
<1>3. T = Nat
  <2> HIDE DEF T
  <2>1. T \in SUBSET Nat
    BY DEF T
  <2> QED BY <1>1, <1>2, <2>1, Induct
<1>4. ASSUME n # 0 PROVE Ok(n)
  <2>1. n - 1 \in Nat /\ (n - 1) + 1 = n
    BY <1>4
  <2>2. n - 1 \in T
    <3> HIDE DEF T
    <3> QED BY <1>3, <2>1
  <2> QED BY <2>1, <2>2
<1> QED BY <1>4

\* Brackets do not matter.
Same3(a, b, c) == (a \o b) \o c = a \o (b \o c)
Same4(a, b, c, d) == ((a \o b) \o c) \o d = a \o (b \o (c \o d))
Same6(a, b, c, d, e, f) ==
    ((((a \o b) \o c) \o d) \o e) \o f = a \o (b \o (c \o (d \o (e \o f))))

LEMMA Brackets3 == \A a, b, c : IsSeq(a) /\ IsSeq(b) /\ IsSeq(c) => Same3(a, b, c)
<1> SUFFICES ASSUME NEW a, NEW b, NEW c, IsSeq(a), IsSeq(b), IsSeq(c) PROVE Same3(a, b, c)
  OBVIOUS
<1>1. (a \o b) \o c = a \o (b \o c)
  BY Assoc
<1> QED BY <1>1, Zenon DEF Same3

LEMMA Brackets4 ==
    ASSUME NEW a, IsSeq(a), NEW b, IsSeq(b), NEW c, IsSeq(c), NEW d, IsSeq(d)
    PROVE  Same4(a, b, c, d)
<1>1. IsSeq(a \o b) /\ IsSeq(c \o d)
  BY ConcatIs, Zenon
<1>2. Same3(a \o b, c, d) /\ Same3(a, b, c \o d)
  BY <1>1, Brackets3, Zenon
<1> QED BY <1>2, Zenon DEF Same3, Same4

LEMMA Brackets6 ==
    ASSUME NEW a, IsSeq(a), NEW b, IsSeq(b), NEW c, IsSeq(c), NEW d, IsSeq(d), NEW e, IsSeq(e),
           NEW f, IsSeq(f)
    PROVE  Same6(a, b, c, d, e, f)
<1>1. IsSeq((a \o b) \o c) /\ IsSeq(d \o (e \o f))
  BY ConcatIs, Zenon
<1>2. Same4((a \o b) \o c, d, e, f) /\ Same4(a, b, c, d \o (e \o f))
  BY <1>1, Brackets4, Zenon
<1> QED BY <1>2, Zenon DEF Same4, Same6

\* Tuples one behind the other.
JoinsAs(a, m, b, n, c) == a \o b = c

LEMMA SmallJoins ==
    /\ \A p, q : <<p>> \o <<q>> = <<p, q>>
    /\ \A p, q, r, s, t : <<p, q, r>> \o <<s, t>> = <<p, q, r, s, t>>
    /\ \A p, q, r, s, t, u : <<p, q, r, s, t>> \o <<u>> = <<p, q, r, s, t, u>>
<1>1. ASSUME NEW m \in Nat, NEW n \in Nat, NEW a, NEW b, NEW c, Tuple(a, m), Tuple(b, n),
             Tuple(c, m + n), \A i \in 1 .. m : a[i] = c[i], \A i \in 1 .. n : b[i] = c[m + i]
      PROVE  JoinsAs(a, m, b, n, c)
  <2>1. Joined(a, m, b, n)
    BY <1>1, Cat, Zenon
  <2>2. ASSUME NEW i \in 1 .. m + n PROVE (a \o b)[i] = c[i]
    <3>1. CASE i <= m
      <4>1. i \in 1 .. m
        BY <3>1
      <4> QED BY <1>1, <2>1, <3>1, <4>1, Zenon DEF Joined
    <3>2. CASE ~(i <= m)
      <4>1. i - m \in 1 .. n /\ m + (i - m) = i
        BY <3>2
      <4> QED BY <1>1, <2>1, <3>2, <4>1, Zenon DEF Joined
    <3> QED BY <3>1, <3>2
  <2> QED BY <1>1, <2>1, <2>2, TupleEqual, Zenon DEF Joined, JoinsAs
<1>2. ASSUME NEW p, NEW q PROVE <<p>> \o <<q>> = <<p, q>>
  <2> DEFINE a == <<p>>
             b == <<q>>
             c == <<p, q>>
  <2>1. Tuple(a, 1) /\ Tuple(b, 1) /\ Tuple(c, 2) /\ 1 + 1 = 2 /\ 1 \in Nat
    BY TupleCases
  <2>2. a[1] = c[1] /\ b[1] = c[2] /\ (\A i \in 1 .. 1 : i = 1)
    OBVIOUS
  <2> HIDE DEF a, b, c
  <2>3. (\A i \in 1 .. 1 : a[i] = c[i]) /\ \A i \in 1 .. 1 : b[i] = c[1 + i]
    BY <2>1, <2>2, Zenon
  <2>4. JoinsAs(a, 1, b, 1, c)
    BY <1>1, <2>1, <2>3, Zenon
  <2> QED BY <2>4, Zenon DEF JoinsAs, a, b, c
<1>3. ASSUME NEW p, NEW q, NEW r, NEW s, NEW t PROVE <<p, q, r>> \o <<s, t>> = <<p, q, r, s, t>>
  <2> DEFINE a == <<p, q, r>>
             b == <<s, t>>
             c == <<p, q, r, s, t>>
  <2>1. Tuple(a, 3) /\ Tuple(b, 2) /\ Tuple(c, 5) /\ 3 + 2 = 5 /\ 2 \in Nat /\ 3 \in Nat
    BY TupleCases
  <2>2. a[1] = c[1] /\ a[2] = c[2] /\ a[3] = c[3] /\ b[1] = c[4] /\ b[2] = c[5]
    OBVIOUS
  <2> HIDE DEF a, b, c
  <2>3. (\A i \in 1 .. 3 : a[i] = c[i]) /\ \A i \in 1 .. 2 : b[i] = c[3 + i]
    <3>1. \A i \in 1 .. 3 : i = 1 \/ i = 2 \/ i = 3
      OBVIOUS
    <3>2. (\A i \in 1 .. 2 : i = 1 \/ i = 2) /\ 3 + 1 = 4
      OBVIOUS
    <3> QED BY <2>1, <2>2, <3>1, <3>2, Zenon
  <2>4. JoinsAs(a, 3, b, 2, c)
    BY <1>1, <2>1, <2>3, Zenon
  <2> QED BY <2>4, Zenon DEF JoinsAs, a, b, c
<1>4. ASSUME NEW p, NEW q, NEW r, NEW s, NEW t, NEW u
      PROVE  <<p, q, r, s, t>> \o <<u>> = <<p, q, r, s, t, u>>
  <2> DEFINE a == <<p, q, r, s, t>>
             b == <<u>>
             c == <<p, q, r, s, t, u>>
  <2>1. Tuple(a, 5) /\ Tuple(b, 1) /\ Tuple(c, 6) /\ 5 + 1 = 6 /\ 1 \in Nat /\ 5 \in Nat
    BY TupleCases
  <2>2. a[1] = c[1] /\ a[2] = c[2] /\ a[3] = c[3] /\ a[4] = c[4] /\ a[5] = c[5] /\ b[1] = c[6]
    BY Zenon
  <2> HIDE DEF a, b, c
  <2>3. (\A i \in 1 .. 5 : a[i] = c[i]) /\ \A i \in 1 .. 1 : b[i] = c[5 + i]
    <3>1. \A i \in 1 .. 5 : i = 1 \/ i = 2 \/ i = 3 \/ i = 4 \/ i = 5
      OBVIOUS
    <3>2. \A i \in 1 .. 1 : i = 1
      OBVIOUS
    <3> QED BY <2>1, <2>2, <3>1, <3>2, Zenon
  <2>4. JoinsAs(a, 5, b, 1, c)
    BY <1>1, <2>1, <2>3, Zenon
  <2> QED BY <2>4, Zenon DEF JoinsAs, a, b, c
<1> QED BY <1>2, <1>3, <1>4, Zenon

\* The same element of a longer sequence.
FrontSame(a, b) == IsSeq(a \o b) /\ Len(a \o b) = Len(a) + Len(b)
                   /\ \A i \in 1 .. Len(a) : i \in 1 .. Len(a \o b) /\ (a \o b)[i] = a[i]

LEMMA FrontIs == \A a, b : IsSeq(a) /\ IsSeq(b) => FrontSame(a, b)
<1> SUFFICES ASSUME NEW a, NEW b, IsSeq(a), IsSeq(b) PROVE FrontSame(a, b)
  BY Zenon
<1>1. Len(a) \in Nat /\ Len(b) \in Nat
  BY SeqLen
<1>2. /\ IsSeq(a \o b) /\ Len(a \o b) = Len(a) + Len(b)
      /\ \A i \in 1 .. Len(a) + Len(b) : (a \o b)[i] = IF i <= Len(a) THEN a[i] ELSE b[i - Len(a)]
  BY ConcatIs, Zenon
<1>3. \A i \in 1 .. Len(a) : i \in 1 .. Len(a) + Len(b) /\ i <= Len(a)
  BY <1>1
<1>4. \A i \in 1 .. Len(a) : i \in 1 .. Len(a \o b) /\ (a \o b)[i] = a[i]
  BY <1>2, <1>3, Zenon
<1> QED BY <1>2, <1>4, Zenon DEF FrontSame

=============================================================================
