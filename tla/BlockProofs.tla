----------------------------- MODULE BlockProofs -----------------------------
(* The block that is parsed is the block that was sent, and its identifier is   *)
(* computed with the tree hash of Monero, for any number of outputs and         *)
(* transactions.                                                                *)
EXTENDS Block, DataTheorems, SequenceTheorems

-----------------------------------------------------------------------------
(* Powers of two.                                                             *)

IsShift(g, n) == g \in [0 .. n -> Nat] /\ g[0] = 1 /\ \A i \in 0 .. n - 1 : g[i + 1] = 2 * g[i]

LEMMA ShiftExists == \A n \in Nat : \E g : IsShift(g, n)
<1> DEFINE T == {n \in Nat : \E g : IsShift(g, n)}
<1>1. 0 \in T
  <2> DEFINE g == [i \in 0 .. 0 |-> 1]
  <2>1. IsShift(g, 0)
    BY DEF IsShift
  <2> QED BY <2>1
<1>2. ASSUME NEW n \in T PROVE n + 1 \in T
  <2>1. PICK g : IsShift(g, n)
    BY <1>2
  <2> DEFINE h == [i \in 0 .. n + 1 |-> IF i <= n THEN g[i] ELSE 2 * g[n]]
  <2>2. n \in Nat
    BY <1>2
  <2>3. h \in [0 .. n + 1 -> Nat] /\ h[0] = 1
    BY <2>1, <2>2 DEF IsShift
  <2>4. ASSUME NEW i \in 0 .. (n + 1) - 1 PROVE h[i + 1] = 2 * h[i]
    BY <2>1, <2>2 DEF IsShift
  <2>5. IsShift(h, n + 1)
    <3> HIDE DEF h
    <3> QED BY <2>3, <2>4 DEF IsShift
  <2> QED BY <2>2, <2>5
<1>3. T = Nat
  <2> HIDE DEF T
  <2>1. T \in SUBSET Nat
    BY DEF T
  <2> QED BY <1>1, <1>2, <2>1, Induct
<1> QED BY <1>3

LEMMA ShiftUnique ==
    ASSUME NEW m \in Nat, NEW n \in Nat, m <= n, NEW g, NEW h, IsShift(g, m), IsShift(h, n)
    PROVE  g[m] = h[m]
<1> DEFINE T == {i \in Nat : i <= m => g[i] = h[i]}
<1>1. 0 \in T
  BY DEF IsShift
<1>2. ASSUME NEW i \in T PROVE i + 1 \in T
  BY <1>2 DEF IsShift
<1>3. T = Nat
  <2> HIDE DEF T
  <2>1. T \in SUBSET Nat
    BY DEF T
  <2> QED BY <1>1, <1>2, <2>1, Induct
<1> QED BY <1>3

LEMMA ShiftedIs == Shifted[0] = 1 /\ \A e \in Nat : Shifted[e] \in Nat /\ Shifted[e + 1] = 2 * Shifted[e]
<1> DEFINE G(n) == CHOOSE g : IsShift(g, n)
           f == [e \in Nat |-> G(e)[e]]
<1>1. \A n \in Nat : IsShift(G(n), n)
  BY ShiftExists
<1>2. f[0] = 1
  BY <1>1 DEF IsShift
<1>3. ASSUME NEW e \in Nat PROVE f[e] \in Nat /\ f[e + 1] = 2 * f[e]
  <2>1. IsShift(G(e), e) /\ IsShift(G(e + 1), e + 1)
    BY <1>1
  <2>2. G(e)[e] = G(e + 1)[e]
    <3> HIDE DEF G
    <3> QED BY <2>1, ShiftUnique
  <2> HIDE DEF G
  <2>3. G(e + 1)[e + 1] = 2 * G(e + 1)[e] /\ G(e)[e] \in Nat
    BY <2>1 DEF IsShift
  <2> QED BY <2>2, <2>3
<1> DEFINE Step(s, e) == IF e = 0 THEN 1 ELSE 2 * s[e - 1]
<1>4. f = [e \in Nat |-> Step(f, e)]
  <2>1. ASSUME NEW e \in Nat PROVE f[e] = Step(f, e)
    <3>1. CASE e = 0
      BY <1>2, <3>1
    <3>2. CASE e # 0
      <4>1. e - 1 \in Nat /\ (e - 1) + 1 = e
        BY <3>2
      <4> HIDE DEF f
      <4> QED BY <1>3, <3>2, <4>1
    <3> QED BY <3>1, <3>2
  <2>2. f = [e \in Nat |-> f[e]]
    OBVIOUS
  <2> HIDE DEF f, Step
  <2> QED BY <2>1, <2>2
<1>5. Shifted = [e \in Nat |-> Step(Shifted, e)]
  <2>1. \E s : s = [e \in Nat |-> Step(s, e)]
    <3> HIDE DEF f, Step
    <3> QED BY <1>4
  <2> QED BY <2>1 DEF Shifted
<1>6. Shifted[0] = 1 /\ \A e \in Nat : Shifted[e + 1] = 2 * Shifted[e]
  <2>1. \A e \in Nat : Shifted[e] = Step(Shifted, e)
    BY <1>5, Zenon
  <2> QED BY <2>1
<1>7. \A e \in Nat : Shifted[e] \in Nat
  <2> DEFINE T == {e \in Nat : Shifted[e] \in Nat}
  <2>1. 0 \in T /\ \A e \in T : e + 1 \in T
    BY <1>6
  <2>2. T = Nat
    <3> HIDE DEF T
    <3>1. T \in SUBSET Nat
      BY DEF T
    <3> QED BY <2>1, <3>1, Induct
  <2> QED BY <2>2
<1> QED BY <1>6, <1>7

LEMMA ShiftedGrows == \A d \in Nat : \A e \in Nat : Shifted[e + d] >= Shifted[e] /\ Shifted[e] > e
<1>1. \A e \in Nat : Shifted[e] > e
  <2> DEFINE T == {e \in Nat : Shifted[e] > e}
  <2>1. 0 \in T /\ \A e \in T : e + 1 \in T
    BY ShiftedIs
  <2>2. T = Nat
    <3> HIDE DEF T
    <3>1. T \in SUBSET Nat
      BY DEF T
    <3> QED BY <2>1, <3>1, Induct
  <2> QED BY <2>2
<1> DEFINE U == {d \in Nat : \A e \in Nat : Shifted[e + d] >= Shifted[e]}
<1>2. 0 \in U
  BY ShiftedIs
<1>3. ASSUME NEW d \in U PROVE d + 1 \in U
  <2> SUFFICES ASSUME NEW e \in Nat PROVE Shifted[e + (d + 1)] >= Shifted[e]
    BY <1>3
  <2>1. e + d \in Nat /\ e + (d + 1) = (e + d) + 1 /\ Shifted[e + d] >= Shifted[e]
    BY <1>3
  <2> QED BY <2>1, ShiftedIs
<1>4. U = Nat
  <2> HIDE DEF U
  <2>1. U \in SUBSET Nat
    BY DEF U
  <2> QED BY <1>2, <1>3, <2>1, Induct
<1> QED BY <1>1, <1>4

LEMMA ShiftedDoubles ==
    ASSUME NEW d \in Nat, NEW e \in Nat, Shifted[d] < Shifted[e]
    PROVE  2 * Shifted[d] <= Shifted[e]
<1>1. d < e
  <2> SUFFICES ASSUME ~(d < e) PROVE FALSE
    OBVIOUS
  <2>1. d - e \in Nat /\ e + (d - e) = d
    OBVIOUS
  <2>2. Shifted[e + (d - e)] >= Shifted[e]
    BY <2>1, ShiftedGrows
  <2> QED BY <2>1, <2>2, ShiftedIs
<1>2. e - (d + 1) \in Nat /\ (d + 1) + (e - (d + 1)) = e /\ d + 1 \in Nat
  BY <1>1
<1>3. Shifted[(d + 1) + (e - (d + 1))] >= Shifted[d + 1]
  BY <1>2, ShiftedGrows
<1> QED BY <1>2, <1>3, ShiftedIs

LEMMA ExponentIs ==
    ASSUME NEW n \in Nat \ {0}
    PROVE  /\ Exponent(n) \in 0 .. n /\ Exponent(n) \in Nat
           /\ Shifted[Exponent(n)] <= n /\ n < 2 * Shifted[Exponent(n)]
<1> DEFINE T == {k \in Nat : \E e \in Nat : Shifted[e] <= k + 1 /\ k + 1 < 2 * Shifted[e]}
<1>1. 0 \in T
  BY ShiftedIs
<1>2. ASSUME NEW k \in T PROVE k + 1 \in T
  <2>1. PICK e \in Nat : Shifted[e] <= k + 1 /\ k + 1 < 2 * Shifted[e]
    BY <1>2
  <2>2. k \in Nat /\ Shifted[e] \in Nat /\ Shifted[e + 1] = 2 * Shifted[e] /\ e + 1 \in Nat
    BY <1>2, ShiftedIs
  <2>3. CASE k + 2 < 2 * Shifted[e]
    BY <2>1, <2>2, <2>3
  <2>4. CASE k + 2 = 2 * Shifted[e]
    BY <2>1, <2>2, <2>4
  <2> QED BY <2>1, <2>2, <2>3, <2>4
<1>3. T = Nat
  <2> HIDE DEF T
  <2>1. T \in SUBSET Nat
    BY DEF T
  <2> QED BY <1>1, <1>2, <2>1, Induct
<1>4. n - 1 \in Nat /\ (n - 1) + 1 = n /\ n - 1 \in T
  <2>1. n - 1 \in Nat /\ (n - 1) + 1 = n
    OBVIOUS
  <2> HIDE DEF T
  <2> QED BY <1>3, <2>1
<1>5. PICK e \in Nat : Shifted[e] <= n /\ n < 2 * Shifted[e]
  BY <1>4
<1>6. e \in 0 .. n
  <2>1. Shifted[e] > e /\ Shifted[e] \in Nat
    BY ShiftedGrows, ShiftedIs
  <2> QED BY <1>5, <2>1
<1>7. Exponent(n) \in 0 .. n /\ Shifted[Exponent(n)] <= n /\ n < 2 * Shifted[Exponent(n)]
  BY <1>5, <1>6 DEF Exponent
<1> QED BY <1>7

-----------------------------------------------------------------------------
(* Trees.                                                                     *)

Pair(x, y) == Keccak256(<<x, y>>)

LEMMA LeafIs ==
    ASSUME NEW n \in Nat, NEW t, Tuple(t, n), NEW k \in 1 .. n
    PROVE  leafHash(t, k) = IF k = n THEN t[k] ELSE Pair(t[k], t[k + 1])
BY TupleIs DEF leafHash, Pair

HalveStep(s, t, i) ==
    IF i = 0 THEN t ELSE [s[i - 1] EXCEPT ![i] = leafHash(s[i - 1], 2 * i - 1)]
IsHalving(s, t, n) == s = [i \in 0 .. n |-> HalveStep(s, t, i)]

LEMMA HalvingExists == \A t : \A n \in Nat : \E s : IsHalving(s, t, n)
<1> SUFFICES ASSUME NEW t PROVE \A n \in Nat : \E s : IsHalving(s, t, n)
  OBVIOUS
<1> DEFINE T == {n \in Nat : \E s : IsHalving(s, t, n)}
<1>1. 0 \in T
  <2> DEFINE s == [i \in 0 .. 0 |-> t]
  <2>1. IsHalving(s, t, 0)
    BY DEF IsHalving, HalveStep
  <2> QED BY <2>1
<1>2. ASSUME NEW n \in T PROVE n + 1 \in T
  <2>1. PICK s : IsHalving(s, t, n)
    BY <1>2
  <2> DEFINE r == [i \in 0 .. n + 1 |-> IF i <= n THEN s[i] ELSE HalveStep(s, t, n + 1)]
  <2>2. n \in Nat
    BY <1>2
  <2>3. ASSUME NEW i \in 0 .. n + 1 PROVE r[i] = HalveStep(r, t, i)
    <3>1. CASE i = 0
      <4>1. r[i] = s[i] /\ s[i] = HalveStep(s, t, i)
        BY <2>1, <2>2, <3>1 DEF IsHalving
      <4> QED BY <3>1, <4>1 DEF HalveStep
    <3>2. CASE i # 0
      <4>1. r[i - 1] = s[i - 1]
        BY <2>2, <3>2
      <4>2. r[i] = HalveStep(s, t, i)
        <5>1. CASE i <= n
          BY <2>1, <2>2, <5>1 DEF IsHalving
        <5>2. CASE i = n + 1
          BY <2>2, <5>2
        <5> QED BY <2>2, <5>1, <5>2
      <4> HIDE DEF r
      <4> QED BY <4>1, <4>2, Zenon DEF HalveStep
    <3> QED BY <3>1, <3>2
  <2>4. r = [i \in 0 .. n + 1 |-> r[i]]
    OBVIOUS
  <2>5. IsHalving(r, t, n + 1)
    <3> HIDE DEF r
    <3> QED BY <2>3, <2>4 DEF IsHalving
  <2> QED BY <2>2, <2>5
<1>3. T = Nat
  <2> HIDE DEF T
  <2>1. T \in SUBSET Nat
    BY DEF T
  <2> QED BY <1>1, <1>2, <2>1, Induct
<1> QED BY <1>3

LEMMA HalveIs ==
    ASSUME NEW p \in Nat, NEW t, Tuple(t, p), NEW n \in Nat, 2 * n <= p
    PROVE  /\ Tuple(Halve(t, n), p)
           /\ \A i \in 1 .. n : Halve(t, n)[i] = Pair(t[2 * i - 1], t[2 * i])
<1> DEFINE s == CHOOSE s : IsHalving(s, t, n)
<1>1. IsHalving(s, t, n)
  BY HalvingExists
<1>2. Halve(t, n) = s[n]
  BY Zenon DEF Halve, IsHalving, HalveStep
<1> HIDE DEF s
<1> DEFINE Ok(k) == /\ Tuple(s[k], p)
                    /\ \A i \in 1 .. p : s[k][i] = IF i <= k THEN Pair(t[2 * i - 1], t[2 * i]) ELSE t[i]
           T == {k \in Nat : k <= n => Ok(k)}
<1>3. 0 \in T
  <2>1. s[0] = t
    BY <1>1 DEF IsHalving, HalveStep
  <2> QED BY <2>1
<1>4. ASSUME NEW k \in T PROVE k + 1 \in T
  <2> SUFFICES ASSUME k + 1 <= n PROVE Ok(k + 1)
    BY <1>4
  <2>1. k \in Nat /\ Ok(k) /\ k + 1 \in 0 .. n /\ k + 1 # 0 /\ (k + 1) - 1 = k
    BY <1>4
  <2>2. s[k + 1] = [s[k] EXCEPT ![k + 1] = leafHash(s[k], 2 * (k + 1) - 1)]
    <3>1. s[k + 1] = HalveStep(s, t, k + 1)
      BY <1>1, <2>1 DEF IsHalving
    <3> QED BY <2>1, <3>1 DEF HalveStep
  <2>3. /\ 2 * (k + 1) - 1 \in 1 .. p /\ 2 * (k + 1) - 1 # p /\ (2 * (k + 1) - 1) + 1 = 2 * (k + 1)
        /\ 2 * (k + 1) \in 1 .. p /\ ~(2 * (k + 1) - 1 <= k) /\ ~(2 * (k + 1) <= k)
    BY <2>1
  <2>4. leafHash(s[k], 2 * (k + 1) - 1) = Pair(s[k][2 * (k + 1) - 1], s[k][2 * (k + 1)])
    BY <2>1, <2>3, LeafIs
  <2>5. leafHash(s[k], 2 * (k + 1) - 1) = Pair(t[2 * (k + 1) - 1], t[2 * (k + 1)])
    BY <2>1, <2>3, <2>4
  <2>6. DOMAIN s[k] = 1 .. p
    BY <2>1, TupleIs
  <2> DEFINE v == Pair(t[2 * (k + 1) - 1], t[2 * (k + 1)])
  <2>7. s[k + 1] = [i \in 1 .. p |-> IF i = k + 1 THEN v ELSE s[k][i]]
    BY <2>2, <2>5, <2>6
  <2>8. Tuple(s[k + 1], p)
    BY <2>7 DEF Tuple
  <2>9. ASSUME NEW i \in 1 .. p
        PROVE  s[k + 1][i] = IF i <= k + 1 THEN Pair(t[2 * i - 1], t[2 * i]) ELSE t[i]
    <3>1. CASE i = k + 1
      BY <2>7, <3>1
    <3>2. CASE i # k + 1
      <4>1. s[k + 1][i] = s[k][i] /\ (i <= k + 1 <=> i <= k)
        BY <2>1, <2>7, <3>2
      <4> QED BY <2>1, <4>1
    <3> QED BY <3>1, <3>2
  <2> QED BY <2>8, <2>9
<1>5. T = Nat
  <2> HIDE DEF T
  <2>1. T \in SUBSET Nat
    BY DEF T
  <2> QED BY <1>3, <1>4, <2>1, Induct
<1>6. Ok(n)
  BY <1>5
<1>7. \A i \in 1 .. n : i \in 1 .. p
  OBVIOUS
<1> QED BY <1>2, <1>6, <1>7

NodeStep(s, t, m, i) == IF i >= m THEN t[i - m + 1] ELSE Pair(s[2 * i], s[2 * i + 1])
IsTree(s, t, m) == s = [i \in 1 .. 2 * m - 1 |-> NodeStep(s, t, m, i)]

LEMMA TreeExists == \A t : \A m \in Nat \ {0} : \E s : IsTree(s, t, m)
<1> SUFFICES ASSUME NEW t, NEW m \in Nat \ {0} PROVE \E s : IsTree(s, t, m)
  OBVIOUS
<1> DEFINE D == 1 .. 2 * m - 1
           Ok(s, k) == s = [i \in D |-> s[i]] /\ \A i \in D : i >= m - k => s[i] = NodeStep(s, t, m, i)
           T == {k \in Nat : k <= m => \E s : Ok(s, k)}
<1>1. 0 \in T
  <2> DEFINE s == [i \in D |-> t[i - m + 1]]
  <2>1. s = [i \in D |-> s[i]]
    OBVIOUS
  <2>2. \A i \in D : i >= m - 0 => s[i] = NodeStep(s, t, m, i)
    BY DEF NodeStep
  <2> HIDE DEF s
  <2> QED BY <2>1, <2>2
<1>2. ASSUME NEW k \in T PROVE k + 1 \in T
  <2> SUFFICES ASSUME k + 1 <= m PROVE \E s : Ok(s, k + 1)
    BY <1>2
  <2>1. k \in Nat /\ k <= m
    BY <1>2
  <2>2. PICK s : Ok(s, k)
    BY <1>2, <2>1
  <2> DEFINE v == Pair(s[2 * (m - (k + 1))], s[2 * (m - (k + 1)) + 1])
             r == [i \in D |-> IF i = m - (k + 1) THEN v ELSE s[i]]
  <2>3. ASSUME NEW i \in D, i >= m - (k + 1) PROVE r[i] = NodeStep(r, t, m, i)
    <3>1. CASE i = m - (k + 1)
      <4>1. 2 * i \in D /\ 2 * i + 1 \in D /\ 2 * i # i /\ 2 * i + 1 # i /\ ~(i >= m)
        BY <2>1, <3>1
      <4>2. r[2 * i] = s[2 * i] /\ r[2 * i + 1] = s[2 * i + 1] /\ r[i] = v
        BY <3>1, <4>1
      <4> QED BY <3>1, <4>1, <4>2 DEF NodeStep
    <3>2. CASE i # m - (k + 1)
      <4>1. i >= m - k /\ r[i] = s[i] /\ s[i] = NodeStep(s, t, m, i)
        <5>1. i >= m - k /\ r[i] = s[i]
          BY <2>1, <2>3, <3>2
        <5> QED BY <2>2, <5>1
      <4>2. CASE i >= m
        BY <4>1, <4>2 DEF NodeStep
      <4>3. CASE ~(i >= m)
        <5>1. 2 * i \in D /\ 2 * i + 1 \in D /\ 2 * i # m - (k + 1) /\ 2 * i + 1 # m - (k + 1)
          BY <2>1, <4>1, <4>3
        <5>2. r[2 * i] = s[2 * i] /\ r[2 * i + 1] = s[2 * i + 1]
          BY <5>1
        <5> HIDE DEF r
        <5> QED BY <4>1, <4>3, <5>2 DEF NodeStep
      <4> QED BY <4>2, <4>3
    <3> QED BY <3>1, <3>2
  <2>4. r = [i \in D |-> r[i]]
    OBVIOUS
  <2>5. Ok(r, k + 1)
    <3> HIDE DEF r, D
    <3> QED BY <2>3, <2>4
  <2> HIDE DEF Ok
  <2> QED BY <2>5
<1>3. T = Nat
  <2> HIDE DEF T
  <2>1. T \in SUBSET Nat
    BY DEF T
  <2> QED BY <1>1, <1>2, <2>1, Induct
<1>4. PICK s : Ok(s, m)
  BY <1>3
<1>5. \A i \in D : i >= m - m
  OBVIOUS
<1>6. \A i \in D : s[i] = NodeStep(s, t, m, i)
  BY <1>4, <1>5
<1> HIDE DEF D
<1>7. s = [i \in D |-> NodeStep(s, t, m, i)]
  BY <1>4, <1>6
<1> QED BY <1>7 DEF IsTree, D

LEMMA PerfectIs ==
    ASSUME NEW m \in Nat \ {0}, NEW t, Tuple(t, m)
    PROVE  \E s : IsTree(s, t, m) /\ Perfect(t) = s[1]
<1>1. Len(t) = m
  BY TupleIs
<1> DEFINE s == CHOOSE s : IsTree(s, t, m)
<1>2. IsTree(s, t, m)
  BY TreeExists
<1>3. Perfect(t) = s[1]
  BY <1>1, Zenon DEF Perfect, IsTree, NodeStep, Pair
<1> QED BY <1>2, <1>3

RoundStep(s, t, e, r) == IF r = 0 THEN t ELSE Halve(s[r - 1], Shifted[e - r])
AreRounds(s, t, e) == s = [r \in 0 .. e - 1 |-> RoundStep(s, t, e, r)]

LEMMA RoundsExist == \A t : \A e \in Nat \ {0} : \E s : AreRounds(s, t, e)
<1> SUFFICES ASSUME NEW t, NEW e \in Nat \ {0} PROVE \E s : AreRounds(s, t, e)
  OBVIOUS
<1> DEFINE T == {n \in Nat : \E s : s = [r \in 0 .. n |-> RoundStep(s, t, e, r)]}
<1>1. 0 \in T
  <2> DEFINE s == [r \in 0 .. 0 |-> t]
  <2>1. s = [r \in 0 .. 0 |-> RoundStep(s, t, e, r)]
    BY DEF RoundStep
  <2> QED BY <2>1
<1>2. ASSUME NEW n \in T PROVE n + 1 \in T
  <2>1. PICK s : s = [r \in 0 .. n |-> RoundStep(s, t, e, r)]
    BY <1>2
  <2> DEFINE q == [r \in 0 .. n + 1 |-> IF r <= n THEN s[r] ELSE RoundStep(s, t, e, n + 1)]
  <2>2. n \in Nat
    BY <1>2
  <2>3. ASSUME NEW r \in 0 .. n + 1 PROVE q[r] = RoundStep(q, t, e, r)
    <3>1. CASE r = 0
      <4>1. q[r] = s[r] /\ s[r] = RoundStep(s, t, e, r)
        BY <2>1, <2>2, <3>1
      <4> QED BY <3>1, <4>1 DEF RoundStep
    <3>2. CASE r # 0
      <4>1. q[r - 1] = s[r - 1]
        BY <2>2, <3>2
      <4>2. q[r] = RoundStep(s, t, e, r)
        <5>1. CASE r <= n
          BY <2>1, <2>2, <5>1
        <5>2. CASE r = n + 1
          BY <2>2, <5>2
        <5> QED BY <2>2, <5>1, <5>2
      <4> HIDE DEF q
      <4> QED BY <4>1, <4>2, Zenon DEF RoundStep
    <3> QED BY <3>1, <3>2
  <2>4. q = [r \in 0 .. n + 1 |-> q[r]]
    OBVIOUS
  <2>5. q = [r \in 0 .. n + 1 |-> RoundStep(q, t, e, r)]
    <3> HIDE DEF q
    <3> QED BY <2>3, <2>4
  <2>6. \E u : u = [r \in 0 .. n + 1 |-> RoundStep(u, t, e, r)]
    <3> HIDE DEF q
    <3> QED BY <2>5, Zenon
  <2> QED BY <2>2, <2>6
<1>3. T = Nat
  <2> HIDE DEF T
  <2>1. T \in SUBSET Nat
    BY DEF T
  <2> QED BY <1>1, <1>2, <2>1, Induct
<1>4. e - 1 \in Nat
  OBVIOUS
<1>5. e - 1 \in T
  <2> HIDE DEF T
  <2> QED BY <1>3, <1>4
<1> QED BY <1>5, Zenon DEF AreRounds

\* From a round on, whose entries are the leaves of lv.
StartsFrom(s, t, e, from, lv) ==
    /\ e \in Nat \ {0} /\ from \in 0 .. e - 1
    /\ Tuple(t, Shifted[e]) /\ AreRounds(s, t, e)
    /\ Tuple(lv, Shifted[e - from])
    /\ \A j \in 1 .. Shifted[e - from] : s[from][j] = lv[j]

LEMMA RootIs ==
    ASSUME NEW s, NEW t, NEW e, NEW from, NEW lv, StartsFrom(s, t, e, from, lv)
    PROVE  leafHash(s[e - 1], 1) = Perfect(lv)
<1>   /\ e \in Nat \ {0} /\ from \in 0 .. e - 1
      /\ Tuple(t, Shifted[e]) /\ AreRounds(s, t, e) /\ Tuple(lv, Shifted[e - from])
      /\ \A j \in 1 .. Shifted[e - from] : s[from][j] = lv[j]
  BY DEF StartsFrom
<1> DEFINE p == Shifted[e]
           m == Shifted[e - from]
<1>1. e - from \in Nat \ {0} /\ (e - from) - 1 \in Nat
  OBVIOUS
<1>2. p \in Nat /\ p >= 2 /\ m \in Nat /\ m >= 2
  <2>1. \A a \in Nat : Shifted[a] \in Nat /\ Shifted[a] > a
    BY ShiftedIs, ShiftedGrows
  <2>2. Shifted[e] > e /\ Shifted[e] \in Nat /\ Shifted[e - from] > e - from /\ Shifted[e - from] \in Nat
    BY <1>1, <2>1
  <2> QED BY <1>1, <2>2
<1>3. PICK node : IsTree(node, lv, m) /\ Perfect(lv) = node[1]
  <2>1. m \in Nat \ {0}
    BY <1>2
  <2> QED BY <2>1, PerfectIs
<1>4. \A r \in 0 .. e - 1 : s[r] = RoundStep(s, t, e, r)
  BY Zenon DEF AreRounds
\* Every round is an array of p entries.
<1>5. ASSUME NEW r \in 1 .. e - 1
      PROVE  /\ Shifted[e - r] \in Nat /\ Shifted[e - (r - 1)] = 2 * Shifted[e - r]
             /\ 2 * Shifted[e - r] <= p /\ s[r] = Halve(s[r - 1], Shifted[e - r])
  <2>1. e - r \in Nat /\ e - (r - 1) = (e - r) + 1 /\ r - 1 \in Nat /\ e = (e - (r - 1)) + (r - 1)
    OBVIOUS
  <2>2. Shifted[e - r] \in Nat /\ Shifted[(e - r) + 1] = 2 * Shifted[e - r]
    BY <2>1, ShiftedIs
  <2>3. Shifted[(e - (r - 1)) + (r - 1)] >= Shifted[e - (r - 1)]
    <3>1. e - (r - 1) \in Nat
      OBVIOUS
    <3> QED BY <2>1, <3>1, ShiftedGrows
  <2>4. s[r] = RoundStep(s, t, e, r) /\ r # 0
    BY <1>4
  <2> QED BY <2>1, <2>2, <2>3, <2>4 DEF RoundStep
<1> HIDE DEF p, m
<1>6. \A r \in 0 .. e - 1 : Tuple(s[r], p)
  <2> DEFINE T == {r \in Nat : r <= e - 1 => Tuple(s[r], p)}
  <2>1. 0 \in T
    BY <1>4 DEF RoundStep, p
  <2>2. ASSUME NEW r \in T PROVE r + 1 \in T
    <3> SUFFICES ASSUME r + 1 <= e - 1 PROVE Tuple(s[r + 1], p)
      BY <2>2
    <3>1. r + 1 \in 1 .. e - 1 /\ Tuple(s[r], p) /\ (r + 1) - 1 = r
      BY <2>2
    <3>2. /\ Shifted[e - (r + 1)] \in Nat /\ 2 * Shifted[e - (r + 1)] <= p
          /\ s[r + 1] = Halve(s[r], Shifted[e - (r + 1)])
      BY <1>5, <3>1
    <3> QED BY <1>2, <3>1, <3>2, HalveIs
  <2>3. T = Nat
    <3> HIDE DEF T
    <3>1. T \in SUBSET Nat
      BY DEF T
    <3> QED BY <2>1, <2>2, <3>1, Induct
  <2> QED BY <2>3
\* The entries of a round are the nodes of one level.
<1> DEFINE Level(r) == \A j \in 1 .. Shifted[e - r] : s[r][j] = node[Shifted[e - r] + j - 1]
<1>7. \A r \in from .. e - 1 : Level(r)
  <2> DEFINE T == {d \in Nat : from + d <= e - 1 => Level(from + d)}
  <2>1. 0 \in T
    <3>1. ASSUME NEW j \in 1 .. m PROVE s[from][j] = node[m + j - 1]
      <4>1. m + j - 1 \in 1 .. 2 * m - 1 /\ m + j - 1 >= m /\ (m + j - 1) - m + 1 = j
        BY <1>2
      <4>2. node[m + j - 1] = lv[j]
        BY <1>3, <4>1 DEF IsTree, NodeStep
      <4>3. s[from][j] = lv[j]
        BY DEF m
      <4> QED BY <4>2, <4>3
    <3>2. from + 0 = from
      OBVIOUS
    <3> QED BY <3>1, <3>2 DEF m
  <2>2. ASSUME NEW d \in T PROVE d + 1 \in T
    <3> SUFFICES ASSUME from + (d + 1) <= e - 1 PROVE Level(from + (d + 1))
      BY <2>2
    <3> DEFINE r == from + d
               q == Shifted[e - (r + 1)]
    <3>1. r + 1 \in 1 .. e - 1 /\ r \in 0 .. e - 1 /\ (r + 1) - 1 = r /\ from + (d + 1) = r + 1 /\ d \in Nat
      BY <2>2
    <3>2. Level(r)
      BY <2>2, <3>1
    <3>3. q \in Nat /\ Shifted[e - r] = 2 * q /\ 2 * q <= p /\ s[r + 1] = Halve(s[r], q)
      BY <1>5, <3>1
    <3>4. \A i \in 1 .. q : s[r + 1][i] = Pair(s[r][2 * i - 1], s[r][2 * i])
      <4> HIDE DEF q, r
      <4> QED BY <1>2, <1>6, <3>1, <3>3, HalveIs, SMTT(30)
    <3>5. 2 * q <= m
      <4>1. e - r \in Nat /\ e - from = (e - r) + d
        BY <3>1
      <4>2. Shifted[(e - r) + d] >= Shifted[e - r]
        <5> HIDE DEF r
        <5> QED BY <3>1, <4>1, ShiftedGrows
      <4> QED BY <3>3, <4>1, <4>2 DEF m
    <3> HIDE DEF q, r
    <3>6. ASSUME NEW j \in 1 .. q PROVE s[r + 1][j] = node[q + j - 1]
      <4>1. /\ q + j - 1 \in 1 .. 2 * m - 1 /\ ~(q + j - 1 >= m)
            /\ 2 * (q + j - 1) = 2 * q + (2 * j - 1) - 1 /\ 2 * (q + j - 1) + 1 = 2 * q + 2 * j - 1
            /\ 2 * j - 1 \in 1 .. 2 * q /\ 2 * j \in 1 .. 2 * q
        BY <1>2, <3>3, <3>5
      <4>2. node[q + j - 1] = Pair(node[2 * (q + j - 1)], node[2 * (q + j - 1) + 1])
        BY <1>3, <4>1 DEF IsTree, NodeStep
      <4>3. s[r][2 * j - 1] = node[2 * (q + j - 1)] /\ s[r][2 * j] = node[2 * (q + j - 1) + 1]
        BY <3>2, <3>3, <4>1
      <4> QED BY <3>4, <4>2, <4>3
    <3> QED BY <3>1, <3>6 DEF q
  <2>3. T = Nat
    <3> HIDE DEF T
    <3>1. T \in SUBSET Nat
      BY DEF T
    <3> QED BY <2>1, <2>2, <3>1, Induct
  <2>4. ASSUME NEW r \in from .. e - 1 PROVE Level(r)
    <3>1. r - from \in Nat /\ from + (r - from) = r /\ r <= e - 1
      OBVIOUS
    <3>2. r - from \in T
      BY <2>3, <3>1
    <3> QED BY <3>1, <3>2
  <2> QED BY <2>4
<1>8. s[e - 1][1] = node[2] /\ s[e - 1][2] = node[3]
  <2>1. e - (e - 1) = 0 + 1 /\ e - 1 \in from .. e - 1
    OBVIOUS
  <2>2. Shifted[e - (e - 1)] = 2
    BY <2>1, ShiftedIs
  <2>3. Level(e - 1)
    BY <1>7, <2>1
  <2> QED BY <2>2, <2>3
<1>9. leafHash(s[e - 1], 1) = Pair(s[e - 1][1], s[e - 1][2])
  <2>1. Tuple(s[e - 1], p) /\ 1 \in 1 .. p /\ 1 # p
    BY <1>2, <1>6
  <2> QED BY <1>2, <2>1, LeafIs
<1>10. node[1] = Pair(node[2], node[3])
  <2>1. 1 \in 1 .. 2 * m - 1 /\ ~(1 >= m) /\ 2 * 1 = 2 /\ 2 * 1 + 1 = 3
    BY <1>2
  <2>2. node[1] = NodeStep(node, lv, m, 1)
    BY <1>3, <2>1 DEF IsTree
  <2> QED BY <2>1, <2>2 DEF NodeStep
<1> QED BY <1>3, <1>8, <1>9, <1>10

\* The leaves of the two definitions.
LEMMA LeavesAre ==
    ASSUME NEW n \in Nat, NEW t, Tuple(t, n), NEW p \in Nat, p <= n, n < 2 * p
    PROVE  /\ Tuple(Leaves(t, p), p)
           /\ \A j \in 1 .. p : Leaves(t, p)[j] = IF j <= 2 * p - n THEN t[j]
                                                 ELSE Pair(t[2 * j - (2 * p - n) - 1], t[2 * j - (2 * p - n)])
<1>1. Len(t) = n
  BY TupleIs
<1>2. Leaves(t, p) = [j \in 1 .. p |-> IF j <= 2 * p - n THEN t[j]
                                       ELSE leafHash(t, 2 * j - (2 * p - n) - 1)]
  BY <1>1 DEF Leaves
<1>3. Tuple(Leaves(t, p), p)
  BY <1>2 DEF Tuple
<1>4. ASSUME NEW j \in 1 .. p, ~(j <= 2 * p - n)
      PROVE  leafHash(t, 2 * j - (2 * p - n) - 1) = Pair(t[2 * j - (2 * p - n) - 1], t[2 * j - (2 * p - n)])
  <2>1. /\ 2 * j - (2 * p - n) - 1 \in 1 .. n /\ 2 * j - (2 * p - n) - 1 # n
        /\ (2 * j - (2 * p - n) - 1) + 1 = 2 * j - (2 * p - n)
    BY <1>4
  <2> QED BY <2>1, LeafIs
<1> QED BY <1>2, <1>3, <1>4

Pairs(t, n, c) ==
    SubSeq(t, 1, 2 * c - n) \o
    [i \in 1 .. n - c |-> Keccak256(<<t[2 * c - n + 2 * i - 1], t[2 * c - n + 2 * i]>>)]

LEMMA PairsAre ==
    ASSUME NEW n \in Nat, NEW t, Tuple(t, n), NEW c \in Nat, c < n, n <= 2 * c
    PROVE  /\ Tuple(Pairs(t, n, c), c)
           /\ \A j \in 1 .. c : Pairs(t, n, c)[j] = IF j <= 2 * c - n THEN t[j]
                                                   ELSE Pair(t[2 * j - (2 * c - n) - 1], t[2 * j - (2 * c - n)])
<1> DEFINE o == 2 * c - n
           k == n - c
           a == SubSeq(t, 1, o)
           b == [i \in 1 .. k |-> Pair(t[o + 2 * i - 1], t[o + 2 * i])]
           W == {t[i] : i \in 1 .. n} \cup {b[i] : i \in 1 .. k}
<1>1. o \in Nat /\ k \in Nat /\ o + k = c /\ o <= n
  OBVIOUS
<1>2. Pairs(t, n, c) = a \o b
  BY DEF Pairs, Pair
<1>3. Tuple(b, k)
  BY DEF Tuple
<1>4. Len(b) = k /\ b \in Seq({b[i] : i \in 1 .. k})
  <2> HIDE DEF b, k
  <2> QED BY <1>1, <1>3, TupleIs
<1>5. b \in Seq(W)
  <2>1. {b[i] : i \in 1 .. k} \subseteq W
    OBVIOUS
  <2> HIDE DEF b, k, W
  <2> QED BY <1>4, <2>1, SeqMonotonic
<1>6. /\ a \in Seq(W) /\ Len(a) = IF 1 <= o THEN o - 1 + 1 ELSE 0
      /\ \A i \in 1 .. o - 1 + 1 : a[i] = t[1 + i - 1]
  <2>1. 1 \in Int /\ o \in Int /\ \A i \in 1 .. o : t[i] \in W
    BY <1>1
  <2> HIDE DEF o, W
  <2> QED BY <2>1, SubSeqProperties
<1>7. Len(a) = o /\ \A i \in 1 .. o : a[i] = t[i]
  <2> HIDE DEF o, a, W
  <2> QED BY <1>1, <1>6
<1>8. /\ a \o b \in Seq(W) /\ Len(a \o b) = c
      /\ \A i \in 1 .. c : (a \o b)[i] = IF i <= o THEN a[i] ELSE b[i - o]
  <2> HIDE DEF a, b, W, o, k
  <2> QED BY <1>1, <1>4, <1>5, <1>6, <1>7, ConcatProperties, ZenonT(30)
<1>9. Tuple(a \o b, c)
  <2> HIDE DEF a, b, W
  <2> QED BY <1>8, LenProperties DEF Tuple
<1>10. ASSUME NEW j \in 1 .. c, ~(j <= o) PROVE b[j - o] = Pair(t[2 * j - o - 1], t[2 * j - o])
  <2>1. j - o \in 1 .. k /\ o + 2 * (j - o) = 2 * j - o /\ o + 2 * (j - o) - 1 = 2 * j - o - 1
    BY <1>10
  <2> QED BY <2>1
<1>11. \A j \in 1 .. c : j <= o => j \in 1 .. o
  OBVIOUS
<1>12. \A j \in 1 .. c : (a \o b)[j] = IF j <= o THEN t[j] ELSE Pair(t[2 * j - o - 1], t[2 * j - o])
  <2> HIDE DEF a, b, W, o, k
  <2> QED BY <1>7, <1>8, <1>10, <1>11
<1> QED BY <1>2, <1>9, <1>12 DEF o

\* The power of two of the tree hash.
LEMMA HalfIs ==
    ASSUME NEW n \in Nat, NEW d \in Nat, Shifted[d] < n, n <= 2 * Shifted[d]
    PROVE  (CHOOSE p \in 1 .. n - 1 : 2 * p >= n /\ \E e \in 0 .. n : p = Shifted[e]) = Shifted[d]
<1>1. Shifted[d] \in 1 .. n - 1 /\ 2 * Shifted[d] >= n /\ d \in 0 .. n
  <2>1. Shifted[d] \in Nat /\ Shifted[d] > d
    BY ShiftedIs, ShiftedGrows
  <2> QED BY <2>1
<1>2. ASSUME NEW e \in Nat, Shifted[e] \in 1 .. n - 1, 2 * Shifted[e] >= n PROVE Shifted[e] = Shifted[d]
  <2>1. Shifted[e] \in Nat /\ Shifted[d] \in Nat
    BY ShiftedIs
  <2>2. ~(Shifted[d] < Shifted[e])
    BY <1>2, <2>1, ShiftedDoubles
  <2>3. ~(Shifted[e] < Shifted[d])
    BY <1>2, <2>1, ShiftedDoubles
  <2> QED BY <2>1, <2>2, <2>3
<1> QED BY <1>1, <1>2

LEMMA TreeHashIs ==
    ASSUME NEW n \in Nat, NEW t, Tuple(t, n), NEW d \in Nat, Shifted[d] < n, n <= 2 * Shifted[d]
    PROVE  TreeHash(t) = Perfect(Pairs(t, n, Shifted[d]))
<1>1. Len(t) = n /\ n # 1
  <2>1. Shifted[d] > d /\ Shifted[d] \in Nat
    BY ShiftedIs, ShiftedGrows
  <2>2. n # 1
    BY <2>1
  <2> QED BY <2>2, TupleIs
<1> DEFINE Half(k) == CHOOSE p \in 1 .. k - 1 : 2 * p >= k /\ \E e \in 0 .. k : p = Shifted[e]
<1>2. Half(n) = Shifted[d]
  BY HalfIs
<1>3. TreeHash(t) = IF Len(t) = 1 THEN t[1] ELSE Perfect(Pairs(t, Len(t), Half(Len(t))))
  BY Zenon DEF TreeHash, Pairs
<1> HIDE DEF Half
<1> QED BY <1>1, <1>2, <1>3, Zenon

LEMMA MerkleRootRounds ==
    ASSUME NEW n \in Nat, n > 2, NEW t, Tuple(t, n)
    PROVE  \E s : /\ AreRounds(s, Leaves(t, PreviousPowerOfTwo(n)), Exponent(n))
                  /\ calcMerkleRoot(t) = leafHash(s[Exponent(n) - 1], 1)
<1>1. Len(t) = n /\ ~(n <= 2)
  <2>1. ~(n <= 2)
    OBVIOUS
  <2> QED BY <2>1, TupleIs
<1> DEFINE e == Exponent(n)
           lv == Leaves(t, PreviousPowerOfTwo(n))
           s == CHOOSE s : AreRounds(s, lv, e)
<1>2. e \in Nat \ {0}
  BY ExponentIs, ShiftedIs
<1>3. AreRounds(s, lv, e)
  <2> HIDE DEF lv, e
  <2> QED BY <1>2, RoundsExist
<1>4. calcMerkleRoot(t) = leafHash(s[e - 1], 1)
  BY <1>1, Zenon DEF calcMerkleRoot, AreRounds, RoundStep
<1> QED BY <1>3, <1>4

\* The code hashes a power of two of leaves in one round more than it hashes the
\* leaves above it: its first round, not its leaves, are the pairs of the tree hash.
LEMMA MerkleRootIs ==
    ASSUME NEW n \in Nat \ {0}, NEW t, Tuple(t, n)
    PROVE  calcMerkleRoot(t) = TreeHash(t)
<1>0. Len(t) = n
  BY TupleIs
<1>1. CASE n = 1
  BY <1>0, <1>1 DEF calcMerkleRoot, TreeHash, leafHash
<1>2. CASE n = 2
  <2>1. Shifted[0] = 1 /\ 2 - 1 = 1 /\ 2 * 1 - 2 = 0
    BY ShiftedIs
  <2>2. TreeHash(t) = Perfect(Pairs(t, n, 1))
    <3>1. Shifted[0] < n /\ n <= 2 * Shifted[0] /\ 0 \in Nat
      BY <1>2, <2>1
    <3> QED BY <2>1, <3>1, TreeHashIs
  <2>3. Tuple(Pairs(t, n, 1), 1) /\ Pairs(t, n, 1)[1] = Pair(t[1], t[2])
    <3>1. 1 \in Nat /\ 1 < n /\ n <= 2 * 1
      BY <1>2
    <3>2. /\ Tuple(Pairs(t, n, 1), 1)
          /\ \A j \in 1 .. 1 : Pairs(t, n, 1)[j] = IF j <= 2 * 1 - n THEN t[j]
                                 ELSE Pair(t[2 * j - (2 * 1 - n) - 1], t[2 * j - (2 * 1 - n)])
      BY <3>1, PairsAre
    <3>3. ~(1 <= 2 * 1 - n) /\ 2 * 1 - (2 * 1 - n) - 1 = 1 /\ 2 * 1 - (2 * 1 - n) = 2
      BY <1>2
    <3> QED BY <3>2, <3>3
  <2>4. PICK node : IsTree(node, Pairs(t, n, 1), 1) /\ Perfect(Pairs(t, n, 1)) = node[1]
    BY <2>3, PerfectIs
  <2>5. node[1] = Pairs(t, n, 1)[1]
    BY <2>4 DEF IsTree, NodeStep
  <2>6. calcMerkleRoot(t) = Pair(t[1], t[2])
    <3>1. calcMerkleRoot(t) = leafHash(t, 1)
      BY <1>0, <1>2 DEF calcMerkleRoot
    <3>2. 1 \in 1 .. n /\ 1 # n /\ 1 + 1 = 2
      BY <1>2
    <3> QED BY <3>1, <3>2, LeafIs
  <2> QED BY <2>2, <2>3, <2>4, <2>5, <2>6
<1>3. CASE n > 2
  <2> DEFINE e == Exponent(n)
             p == Shifted[e]
             lv == Leaves(t, p)
  <2>1. e \in Nat \ {0} /\ p \in Nat /\ p <= n /\ n < 2 * p
    BY <1>3, ExponentIs, ShiftedIs
  <2>2. PICK s : AreRounds(s, lv, e) /\ calcMerkleRoot(t) = leafHash(s[e - 1], 1)
    BY <1>3, MerkleRootRounds DEF PreviousPowerOfTwo
  <2>3. /\ Tuple(lv, p)
        /\ \A j \in 1 .. p : lv[j] = IF j <= 2 * p - n THEN t[j]
                                    ELSE Pair(t[2 * j - (2 * p - n) - 1], t[2 * j - (2 * p - n)])
    <3> HIDE DEF p
    <3> QED BY <2>1, LeavesAre
  <2> HIDE DEF e
  <2>4. \A r \in 0 .. e - 1 : s[r] = RoundStep(s, lv, e, r)
    <3> HIDE DEF lv
    <3> QED BY <2>2, Zenon DEF AreRounds
  <2>5. CASE p < n
    <3>1. TreeHash(t) = Perfect(Pairs(t, n, p))
      BY <2>1, <2>5, TreeHashIs
    <3>2. /\ Tuple(Pairs(t, n, p), p)
          /\ \A j \in 1 .. p : Pairs(t, n, p)[j] = IF j <= 2 * p - n THEN t[j]
                                 ELSE Pair(t[2 * j - (2 * p - n) - 1], t[2 * j - (2 * p - n)])
      <4> HIDE DEF p
      <4> QED BY <2>1, <2>5, PairsAre
    <3>3. lv = Pairs(t, n, p)
      <4> HIDE DEF lv, p
      <4> QED BY <2>3, <3>2, TupleEqual
    <3>4. 0 \in 0 .. e - 1 /\ e - 0 = e /\ s[0] = lv
      BY <2>1, <2>4 DEF RoundStep
    <3>5. leafHash(s[e - 1], 1) = Perfect(lv)
      <4>1. \A j \in 1 .. Shifted[e - 0] : s[0][j] = lv[j]
        BY <3>4
      <4>2. Tuple(lv, Shifted[e]) /\ Tuple(lv, Shifted[e - 0])
        BY <2>3, <3>4
      <4> HIDE DEF lv, p
      <4>3. StartsFrom(s, lv, e, 0, lv)
        BY <2>1, <2>2, <3>4, <4>1, <4>2, Zenon DEF StartsFrom
      <4> QED BY <4>3, RootIs
    <3> QED BY <2>2, <3>1, <3>3, <3>5
  <2>6. CASE p = n
    <3> DEFINE q == Shifted[e - 1]
    <3>1. e - 1 \in Nat /\ (e - 1) + 1 = e /\ q \in Nat /\ p = 2 * q /\ q < n /\ n <= 2 * q
      <4>1. e - 1 \in Nat /\ (e - 1) + 1 = e
        BY <2>1
      <4>2. q \in Nat /\ Shifted[(e - 1) + 1] = 2 * q
        BY <4>1, ShiftedIs
      <4> QED BY <1>3, <2>6, <4>1, <4>2
    <3>2. e - 1 # 0
      BY <1>3, <2>6, <3>1, ShiftedIs
    <3>3. TreeHash(t) = Perfect(Pairs(t, n, q))
      BY <3>1, TreeHashIs
    <3>4. /\ Tuple(Pairs(t, n, q), q)
          /\ \A j \in 1 .. q : Pairs(t, n, q)[j] = IF j <= 2 * q - n THEN t[j]
                                 ELSE Pair(t[2 * j - (2 * q - n) - 1], t[2 * j - (2 * q - n)])
      <4> HIDE DEF q
      <4> QED BY <3>1, PairsAre
    <3>5. lv = t
      <4>1. \A j \in 1 .. p : lv[j] = t[j]
        BY <2>3, <2>6
      <4> HIDE DEF lv, p
      <4> QED BY <2>3, <2>6, <4>1, TupleEqual
    <3>6. 1 \in 0 .. e - 1 /\ s[1] = Halve(t, q)
      <4>1. 0 \in 0 .. e - 1 /\ 1 \in 0 .. e - 1 /\ 1 - 1 = 0
        BY <2>1, <3>2
      <4>2. s[0] = lv /\ s[1] = Halve(s[0], Shifted[e - 1])
        BY <2>4, <4>1 DEF RoundStep
      <4> QED BY <3>5, <4>1, <4>2
    <3>7. \A j \in 1 .. q : s[1][j] = Pair(t[2 * j - 1], t[2 * j])
      <4>1. \A j \in 1 .. q : Halve(t, q)[j] = Pair(t[2 * j - 1], t[2 * j])
        <5> HIDE DEF q
        <5> QED BY <2>6, <3>1, HalveIs
      <4> QED BY <3>6, <4>1
    <3>8. \A j \in 1 .. q : s[1][j] = Pairs(t, n, q)[j]
      <4>1. \A j \in 1 .. q : /\ ~(j <= 2 * q - n) /\ 2 * j - (2 * q - n) - 1 = 2 * j - 1
                              /\ 2 * j - (2 * q - n) = 2 * j
        <5> HIDE DEF p, q
        <5> QED BY <2>6, <3>1
      <4> HIDE DEF q, p
      <4> QED BY <3>4, <3>7, <4>1
    <3>9. leafHash(s[e - 1], 1) = Perfect(Pairs(t, n, q))
      <4>1. Tuple(lv, Shifted[e])
        BY <2>3
      <4>2. Tuple(Pairs(t, n, q), Shifted[e - 1]) /\ \A j \in 1 .. Shifted[e - 1] : s[1][j] = Pairs(t, n, q)[j]
        BY <3>4, <3>8
      <4> HIDE DEF lv, p, q
      <4>3. StartsFrom(s, lv, e, 1, Pairs(t, n, q))
        BY <2>1, <2>2, <3>6, <4>1, <4>2, Zenon DEF StartsFrom
      <4> QED BY <4>3, RootIs
    <3> QED BY <2>2, <3>3, <3>9
  <2> QED BY <2>1, <2>5, <2>6
<1> QED BY <1>1, <1>2, <1>3

-----------------------------------------------------------------------------
(* Bytes.                                                                     *)

LEMMA FlattenIs ==
    ASSUME NEW n \in Nat, NEW rows, Tuple(rows, n), \A i \in 1 .. n : Tuple(rows[i], 4)
    PROVE  /\ Tuple(FlattenSeq(rows), 4 * n)
           /\ \A i \in 1 .. n : \A j \in 1 .. 4 : FlattenSeq(rows)[(4 * i - 4) + j] = rows[i][j]
<1>1. Len(rows) = n
  BY TupleIs
<1>2. CASE n = 0
  <2>1. FlattenSeq(rows) = rows
    BY <1>1, <1>2 DEF FlattenSeq
  <2> QED BY <1>2, <2>1
<1>3. CASE n # 0
  <2> DEFINE s == CHOOSE s : AreFlat(s, rows, n)
  <2>1. AreFlat(s, rows, n)
    <3>1. n - 1 \in Nat /\ (n - 1) + 1 = n
      BY <1>3
    <3> QED BY <3>1, FlatExists
  <2>2. FlattenSeq(rows) = s[n]
    <3>1. FlattenSeq(rows) = IF Len(rows) = 0 THEN rows
                             ELSE (CHOOSE u : AreFlat(u, rows, Len(rows)))[Len(rows)]
      BY Zenon DEF FlattenSeq, AreFlat, FlattenStep
    <3> QED BY <1>1, <1>3, <3>1
  <2> HIDE DEF s
  <2> DEFINE Ok(k) == /\ Tuple(s[k], 4 * k)
                      /\ \A i \in 1 .. k : \A j \in 1 .. 4 : s[k][(4 * i - 4) + j] = rows[i][j]
             T == {k \in Nat : k + 1 <= n => Ok(k + 1)}
  <2>3. 0 \in T
    <3>1. 1 \in 1 .. n /\ s[1] = rows[1]
      BY <1>3, <2>1 DEF AreFlat, FlattenStep
    <3>2. Tuple(s[1], 4)
      BY <3>1
    <3>3. \A i \in 1 .. 1 : \A j \in 1 .. 4 : i = 1 /\ (4 * i - 4) + j = j
      OBVIOUS
    <3>4. Ok(1)
      BY <3>1, <3>2, <3>3
    <3> QED BY <3>4
  <2>4. ASSUME NEW k \in T PROVE k + 1 \in T
    <3> SUFFICES ASSUME (k + 1) + 1 <= n PROVE Ok((k + 1) + 1)
      BY <2>4
    <3> DEFINE m == k + 1
    <3>1. m \in Nat /\ m + 1 \in 1 .. n /\ m + 1 # 1 /\ (m + 1) - 1 = m /\ Ok(m)
      BY <2>4
    <3> HIDE DEF m
    <3>2. s[m + 1] = s[m] \o rows[m + 1]
      <4>1. s[m + 1] = FlattenStep(s, rows, m + 1)
        BY <2>1, <3>1, Zenon DEF AreFlat
      <4> QED BY <3>1, <4>1 DEF FlattenStep
    <3>3. /\ Tuple(s[m] \o rows[m + 1], 4 * m + 4)
          /\ \A i \in 1 .. 4 * m + 4 : (s[m] \o rows[m + 1])[i] =
                 IF i <= 4 * m THEN s[m][i] ELSE rows[m + 1][i - 4 * m]
      <4>1. 4 * m \in Nat /\ 4 \in Nat /\ Tuple(s[m], 4 * m) /\ Tuple(rows[m + 1], 4)
        BY <3>1
      <4>2. Joined(s[m], 4 * m, rows[m + 1], 4)
        BY <4>1, Cat, Zenon
      <4> QED BY <4>2, Zenon DEF Joined
    <3>4. ASSUME NEW i \in 1 .. m + 1, NEW j \in 1 .. 4 PROVE s[m + 1][(4 * i - 4) + j] = rows[i][j]
      <4>1. (4 * i - 4) + j \in 1 .. 4 * m + 4
        BY <3>1
      <4>2. CASE i = m + 1
        <5>1. ~((4 * i - 4) + j <= 4 * m) /\ ((4 * i - 4) + j) - 4 * m = j
          BY <3>1, <4>2
        <5> QED BY <3>2, <3>3, <4>1, <4>2, <5>1
      <4>3. CASE i # m + 1
        <5>1. (4 * i - 4) + j <= 4 * m /\ i \in 1 .. m
          BY <3>1, <4>3
        <5>2. s[m][(4 * i - 4) + j] = rows[i][j]
          BY <3>1, <5>1
        <5> QED BY <3>2, <3>3, <4>1, <5>1, <5>2
      <4> QED BY <4>2, <4>3
    <3>5. Tuple(s[m + 1], 4 * (m + 1))
      <4>1. 4 * m + 4 = 4 * (m + 1)
        BY <3>1
      <4> QED BY <3>2, <3>3, <4>1
    <3> QED BY <3>4, <3>5 DEF m
  <2>5. T = Nat
    <3> HIDE DEF T
    <3>1. T \in SUBSET Nat
      BY DEF T
    <3> QED BY <2>3, <2>4, <3>1, Induct
  <2>6. n - 1 \in T /\ (n - 1) + 1 = n
    <3>1. n - 1 \in Nat /\ (n - 1) + 1 = n
      BY <1>3
    <3> HIDE DEF T
    <3> QED BY <2>5, <3>1
  <2>7. Ok(n)
    BY <2>6
  <2> QED BY <2>2, <2>7
<1> QED BY <1>2, <1>3

LEMMA Fours ==
    /\ \A u, v, w, x : <<u, v, w>> \o <<x>> = <<u, v, w, x>>
    /\ \A u, v, w, x : (<<u, v>> \o <<w>>) \o <<x>> = <<u, v, w, x>>
<1>1. \A i \in 1 .. 4 : i \in {1, 2, 3, 4}
  OBVIOUS
<1>2. ASSUME NEW u, NEW v, NEW w, NEW x PROVE <<u, v, w>> \o <<x>> = <<u, v, w, x>>
  <2> DEFINE a == <<u, v, w>> \o <<x>>
             b == <<u, v, w, x>>
  <2>1. Joined(<<u, v, w>>, 3, <<x>>, 1)
    BY TupleCases, Cat, Zenon
  <2>2. Tuple(a, 4) /\ \A i \in 1 .. 4 : a[i] = b[i]
    BY <1>1, <2>1 DEF Joined
  <2>3. Tuple(b, 4)
    BY TupleCases
  <2>4. a = b
    <3> HIDE DEF a, b
    <3> QED BY <2>2, <2>3, TupleEqual, Zenon
  <2> QED BY <2>4
<1>3. ASSUME NEW u, NEW v, NEW w PROVE <<u, v>> \o <<w>> = <<u, v, w>>
  <2> DEFINE a == <<u, v>> \o <<w>>
             b == <<u, v, w>>
  <2>1. Joined(<<u, v>>, 2, <<w>>, 1)
    BY TupleCases, Cat, Zenon
  <2>2. Tuple(a, 3) /\ \A i \in 1 .. 3 : a[i] = b[i]
    BY <2>1 DEF Joined
  <2>3. Tuple(b, 3)
    BY TupleCases
  <2>4. a = b
    <3> HIDE DEF a, b
    <3> QED BY <2>2, <2>3, TupleEqual, Zenon
  <2> QED BY <2>4
<1>4. ASSUME NEW u, NEW v, NEW w, NEW x PROVE (<<u, v>> \o <<w>>) \o <<x>> = <<u, v, w, x>>
  <2> DEFINE a == <<u, v>> \o <<w>>
             b == <<u, v, w>>
  <2>1. a = b /\ b \o <<x>> = <<u, v, w, x>>
    BY <1>2, <1>3
  <2>2. a \o <<x>> = <<u, v, w, x>>
    <3> HIDE DEF a, b
    <3> QED BY <2>1, Zenon
  <2> QED BY <2>2
<1> QED BY <1>2, <1>4

LEMMA BlockTypes ==
    ASSUME NEW b \in Blocks
    PROVE  /\ b.extra \in Nat /\ b.txs \in Nat /\ Len(b.outs) \in Nat
           /\ DOMAIN b.outs = 1 .. Len(b.outs)
<1>1. b.extra \in Nat /\ b.txs \in Nat /\ b.outs \in Seq({TxOutToKey, TxOutToTaggedKey})
  BY BlockAssumption
<1> QED BY <1>1, LenProperties

Row(b) == <<Data(b, "amount"), Num(TxOutToTaggedKey), Data(b, "target"), Data(b, "view tag")>>

LEMMA OutBytesAre ==
    ASSUME NEW b \in Blocks, AllTagged(b)
    PROVE  \A i \in DOMAIN b.outs : OutBytes(b, i) = Row(b)
<1> TAKE i \in DOMAIN b.outs
<1>1. b.outs[i] = TxOutToTaggedKey
  BY DEF AllTagged
<1>2. OutBytes(b, i) = <<Data(b, "amount"), Num(b.outs[i]), Data(b, "target")>> \o <<Data(b, "view tag")>>
  BY <1>1, Zenon DEF OutBytes
<1> DEFINE u == Data(b, "amount")
           v == Num(TxOutToTaggedKey)
           w == Data(b, "target")
           x == Data(b, "view tag")
<1>3. OutBytes(b, i) = <<u, v, w>> \o <<x>>
  BY <1>1, <1>2, Zenon
<1>4. Row(b) = <<u, v, w, x>>
  BY DEF Row
<1> HIDE DEF u, v, w, x
<1> QED BY <1>3, <1>4, Fours

Rows(b) == [i \in DOMAIN b.outs |-> OutBytes(b, i)]

LEMMA RowsAre ==
    ASSUME NEW b \in Blocks, AllTagged(b)
    PROVE  /\ Tuple(FlattenSeq(Rows(b)), 4 * Len(b.outs))
           /\ \A i \in 1 .. Len(b.outs) : \A j \in 1 .. 4 :
                  FlattenSeq(Rows(b))[(4 * i - 4) + j] = Row(b)[j]
<1>1. Len(b.outs) \in Nat /\ DOMAIN b.outs = 1 .. Len(b.outs)
  BY BlockTypes
<1>2. Rows(b) = [i \in 1 .. Len(b.outs) |-> Row(b)]
  BY <1>1, OutBytesAre DEF Rows
<1>3. Tuple(Rows(b), Len(b.outs)) /\ \A i \in 1 .. Len(b.outs) : Rows(b)[i] = Row(b)
  BY <1>2 DEF Tuple
<1>4. Tuple(Row(b), 4)
  BY TupleCases DEF Row
<1>5. \A i \in 1 .. Len(b.outs) : Tuple(Rows(b)[i], 4)
  BY <1>3, <1>4
<1>6. /\ Tuple(FlattenSeq(Rows(b)), 4 * Len(b.outs))
      /\ \A i \in 1 .. Len(b.outs) : \A j \in 1 .. 4 :
            FlattenSeq(Rows(b))[(4 * i - 4) + j] = Rows(b)[i][j]
  BY <1>1, <1>3, <1>5, FlattenIs, ZenonT(30)
<1> QED BY <1>3, <1>6, Zenon

First(b) == <<Data(b, "version"), Data(b, "unlock"), Num(1), Num(255), Data(b, "height"),
              Num(Len(b.outs))>>

\* Where the fields of a miner transaction with n outputs and e bytes of extra are.
MinerIsLaid(z, b, n, e) ==
    /\ Tuple(z, ((6 + 4 * n) + 1) + e)
    /\ z[6] = Num(n) /\ \A i \in 1 .. 6 : z[i] = First(b)[i]
    /\ \A i \in 1 .. n : \A j \in 1 .. 4 : z[(4 * i + 2) + j] = Row(b)[j]
    /\ z[7 + 4 * n] = Num(e)
    /\ \A i \in 1 .. e : z[(7 + 4 * n) + i] = Data(b, "extra")

LEMMA MinerBytesAre ==
    ASSUME NEW b \in Blocks, AllTagged(b), NEW n \in Nat, n = Len(b.outs), NEW e \in Nat, e = b.extra
    PROVE  MinerIsLaid(MinerBytes(b), b, n, e)
<1> DEFINE a == First(b)
           f == FlattenSeq(Rows(b))
           k == <<Num(b.extra)>>
           x == [i \in 1 .. b.extra |-> Data(b, "extra")]
           h == 4 * n
<1>1. MinerBytes(b) = ((a \o f) \o k) \o x
  BY Zenon DEF MinerBytes, Rows, First
<1>2. /\ Tuple(a, 6) /\ Tuple(f, h) /\ Tuple(k, 1) /\ Tuple(x, e)
      /\ 6 \in Nat /\ 1 \in Nat /\ h \in Nat
  <2>1. Tuple(a, 6) /\ Tuple(k, 1)
    BY TupleCases, Zenon DEF First
  <2>2. Tuple(x, e)
    BY DEF Tuple
  <2>3. Tuple(f, h)
    BY RowsAre
  <2> QED BY <2>1, <2>2, <2>3
<1>3. /\ \A i \in 1 .. n : \A j \in 1 .. 4 : f[(4 * i - 4) + j] = Row(b)[j]
      /\ a[6] = Num(n) /\ k[1] = Num(e) /\ \A i \in 1 .. e : x[i] = Data(b, "extra")
  <2>1. \A i \in 1 .. n : \A j \in 1 .. 4 : f[(4 * i - 4) + j] = Row(b)[j]
    BY RowsAre
  <2>2. a[6] = Num(n)
    BY DEF First
  <2> QED BY <2>1, <2>2
<1> HIDE DEF a, f, k, x
<1>4. Joined(a, 6, f, h)
  <2> HIDE DEF h
  <2> QED BY <1>2, Cat, Zenon
<1>5. Joined(a \o f, 6 + h, k, 1)
  <2>1. Tuple(a \o f, 6 + h) /\ 6 + h \in Nat
    BY <1>4, Zenon DEF Joined
  <2> HIDE DEF h
  <2> QED BY <1>2, <2>1, Cat, Zenon
<1>6. Joined((a \o f) \o k, (6 + h) + 1, x, e)
  <2>1. Tuple((a \o f) \o k, (6 + h) + 1) /\ (6 + h) + 1 \in Nat
    BY <1>5, Zenon DEF Joined
  <2> HIDE DEF h
  <2> QED BY <1>2, <2>1, Cat, Zenon
<1> DEFINE y == ((a \o f) \o k) \o x
<1>7. \A i \in 1 .. ((6 + h) + 1) + e :
          y[i] = IF i <= 6 THEN a[i] ELSE IF i <= 6 + h THEN f[i - 6]
                 ELSE IF i <= (6 + h) + 1 THEN k[i - (6 + h)] ELSE x[i - ((6 + h) + 1)]
  <2> TAKE i \in 1 .. ((6 + h) + 1) + e
  <2>1. y[i] = IF i <= (6 + h) + 1 THEN ((a \o f) \o k)[i] ELSE x[i - ((6 + h) + 1)]
    BY <1>6, Zenon DEF Joined
  <2>2. i <= (6 + h) + 1 =>
            ((a \o f) \o k)[i] = IF i <= 6 + h THEN (a \o f)[i] ELSE k[i - (6 + h)]
    <3>1. i <= (6 + h) + 1 => i \in 1 .. (6 + h) + 1
      OBVIOUS
    <3> QED BY <1>5, <3>1, Zenon DEF Joined
  <2>3. i <= 6 + h => (a \o f)[i] = IF i <= 6 THEN a[i] ELSE f[i - 6]
    <3>1. i <= 6 + h => i \in 1 .. 6 + h
      OBVIOUS
    <3> QED BY <1>4, <3>1, Zenon DEF Joined
  <2>4. (i <= 6 => i <= 6 + h) /\ (i <= 6 + h => i <= (6 + h) + 1)
    BY <1>2
  <2> HIDE DEF y
  <2> QED BY <2>1, <2>2, <2>3, <2>4, Zenon
<1>8. Tuple(y, ((6 + h) + 1) + e)
  BY <1>6, Zenon DEF Joined
<1> HIDE DEF y
<1>9. y[6] = Num(n) /\ \A i \in 1 .. 6 : y[i] = First(b)[i]
  <2>1. \A i \in 1 .. 6 : i \in 1 .. ((6 + h) + 1) + e /\ i <= 6
    OBVIOUS
  <2>2. 6 \in 1 .. 6
    OBVIOUS
  <2>3. \A i \in 1 .. 6 : y[i] = a[i]
    BY <1>7, <2>1, Zenon
  <2> QED BY <1>3, <2>2, <2>3, Zenon DEF a
<1>10. ASSUME NEW i \in 1 .. n, NEW j \in 1 .. 4 PROVE y[(4 * i + 2) + j] = Row(b)[j]
  <2>1. /\ (4 * i + 2) + j \in 1 .. ((6 + h) + 1) + e /\ ~((4 * i + 2) + j <= 6)
        /\ (4 * i + 2) + j <= 6 + h /\ ((4 * i + 2) + j) - 6 = (4 * i - 4) + j
    OBVIOUS
  <2>2. y[(4 * i + 2) + j] = f[(4 * i - 4) + j]
    <3> HIDE DEF h
    <3> QED BY <1>7, <2>1
  <2> QED BY <1>3, <2>2
<1>11. y[7 + h] = Num(e)
  <2>1. /\ 7 + h \in 1 .. ((6 + h) + 1) + e /\ ~(7 + h <= 6) /\ ~(7 + h <= 6 + h)
        /\ 7 + h <= (6 + h) + 1 /\ (7 + h) - (6 + h) = 1
    OBVIOUS
  <2> HIDE DEF h
  <2> QED BY <1>3, <1>7, <2>1
<1>12. ASSUME NEW i \in 1 .. e PROVE y[(7 + h) + i] = Data(b, "extra")
  <2>1. /\ (7 + h) + i \in 1 .. ((6 + h) + 1) + e /\ ~((7 + h) + i <= 6) /\ ~((7 + h) + i <= 6 + h)
        /\ ~((7 + h) + i <= (6 + h) + 1) /\ ((7 + h) + i) - ((6 + h) + 1) = i
    <3>1. h \in Nat /\ e \in Nat /\ i \in 1 .. e
      BY <1>2
    <3> HIDE DEF h
    <3> QED BY <3>1
  <2> HIDE DEF h
  <2> QED BY <1>3, <1>7, <2>1
<1>13. MinerBytes(b) = y
  BY <1>1 DEF y
<1>14. MinerIsLaid(y, b, n, e)
  BY <1>8, <1>9, <1>10, <1>11, <1>12 DEF MinerIsLaid
<1> QED BY <1>13, <1>14, Zenon

LEMMA BlockBytesAre ==
    ASSUME NEW b \in Blocks, NEW m \in Nat, Tuple(MinerBytes(b), m), NEW c \in Nat, c = b.txs
    PROVE  /\ Tuple(BlockBytes(b), (m + 7) + c)
           /\ \A i \in 1 .. 5 : BlockBytes(b)[i] = HeaderBytes(b)[i]
           /\ \A i \in 1 .. m : BlockBytes(b)[5 + i] = MinerBytes(b)[i]
           /\ BlockBytes(b)[m + 7] = Num(c)
           /\ \A i \in 1 .. c : BlockBytes(b)[(m + 7) + i] = TxHash(b, i)
<1> DEFINE a == HeaderBytes(b)
           f == MinerBytes(b)
           k == <<Num(0), Num(b.txs)>>
           x == TxHashes(b)
           y == ((a \o f) \o k) \o x
<1>1. BlockBytes(b) = y
  BY Zenon DEF BlockBytes
<1>2. /\ Tuple(a, 5) /\ Tuple(k, 2) /\ Tuple(x, c) /\ 5 \in Nat /\ 2 \in Nat
      /\ k[2] = Num(c) /\ \A i \in 1 .. c : x[i] = TxHash(b, i)
  <2>1. Tuple(a, 5) /\ Tuple(k, 2)
    BY TupleCases, Zenon DEF HeaderBytes
  <2>2. Tuple(x, c) /\ \A i \in 1 .. c : x[i] = TxHash(b, i)
    BY DEF Tuple, TxHashes
  <2> QED BY <2>1, <2>2
<1> HIDE DEF a, f, k, x
<1>3. Joined(a, 5, f, m)
  BY <1>2, Cat, Zenon DEF f
<1>4. Joined(a \o f, 5 + m, k, 2)
  <2>1. Tuple(a \o f, 5 + m) /\ 5 + m \in Nat
    BY <1>3, Zenon DEF Joined
  <2> QED BY <1>2, <2>1, Cat, Zenon
<1>5. Joined((a \o f) \o k, (5 + m) + 2, x, c)
  <2>1. Tuple((a \o f) \o k, (5 + m) + 2) /\ (5 + m) + 2 \in Nat
    BY <1>4, Zenon DEF Joined
  <2> QED BY <1>2, <2>1, Cat, Zenon
<1>6. \A i \in 1 .. ((5 + m) + 2) + c :
          y[i] = IF i <= 5 THEN a[i] ELSE IF i <= 5 + m THEN f[i - 5]
                 ELSE IF i <= (5 + m) + 2 THEN k[i - (5 + m)] ELSE x[i - ((5 + m) + 2)]
  <2> TAKE i \in 1 .. ((5 + m) + 2) + c
  <2>1. y[i] = IF i <= (5 + m) + 2 THEN ((a \o f) \o k)[i] ELSE x[i - ((5 + m) + 2)]
    BY <1>5, Zenon DEF Joined
  <2>2. i <= (5 + m) + 2 =>
            ((a \o f) \o k)[i] = IF i <= 5 + m THEN (a \o f)[i] ELSE k[i - (5 + m)]
    <3>1. i <= (5 + m) + 2 => i \in 1 .. (5 + m) + 2
      OBVIOUS
    <3> QED BY <1>4, <3>1, Zenon DEF Joined
  <2>3. i <= 5 + m => (a \o f)[i] = IF i <= 5 THEN a[i] ELSE f[i - 5]
    <3>1. i <= 5 + m => i \in 1 .. 5 + m
      OBVIOUS
    <3> QED BY <1>3, <3>1, Zenon DEF Joined
  <2>4. (i <= 5 => i <= 5 + m) /\ (i <= 5 + m => i <= (5 + m) + 2)
    OBVIOUS
  <2> HIDE DEF y
  <2> QED BY <2>1, <2>2, <2>3, <2>4, Zenon
<1>7. Tuple(y, (m + 7) + c)
  <2>1. Tuple(y, ((5 + m) + 2) + c)
    BY <1>5, Zenon DEF Joined
  <2>2. ((5 + m) + 2) + c = (m + 7) + c
    OBVIOUS
  <2> QED BY <2>1, <2>2
<1> HIDE DEF y
<1>8. \A i \in 1 .. 5 : y[i] = a[i]
  <2>1. \A i \in 1 .. 5 : i \in 1 .. ((5 + m) + 2) + c /\ i <= 5
    OBVIOUS
  <2> QED BY <1>6, <2>1, Zenon
<1>9. ASSUME NEW i \in 1 .. m PROVE y[5 + i] = f[i]
  <2>1. 5 + i \in 1 .. ((5 + m) + 2) + c /\ ~(5 + i <= 5) /\ 5 + i <= 5 + m /\ (5 + i) - 5 = i
    OBVIOUS
  <2> QED BY <1>6, <2>1
<1>10. y[m + 7] = Num(c)
  <2>1. /\ m + 7 \in 1 .. ((5 + m) + 2) + c /\ ~(m + 7 <= 5) /\ ~(m + 7 <= 5 + m)
        /\ m + 7 <= (5 + m) + 2 /\ (m + 7) - (5 + m) = 2
    OBVIOUS
  <2> QED BY <1>2, <1>6, <2>1
<1>11. ASSUME NEW i \in 1 .. c PROVE y[(m + 7) + i] = TxHash(b, i)
  <2>1. /\ (m + 7) + i \in 1 .. ((5 + m) + 2) + c /\ ~((m + 7) + i <= 5) /\ ~((m + 7) + i <= 5 + m)
        /\ ~((m + 7) + i <= (5 + m) + 2) /\ ((m + 7) + i) - ((5 + m) + 2) = i
    OBVIOUS
  <2> QED BY <1>2, <1>6, <2>1
<1> QED BY <1>1, <1>7, <1>8, <1>9, <1>10, <1>11 DEF a, f

\* Where the numbers and the data of a block are that has tagged outputs only.
Laid(b, n, e, c) ==
    /\ n = Len(b.outs) /\ e = b.extra /\ c = b.txs /\ n \in Nat /\ e \in Nat /\ c \in Nat
    /\ Tuple(BlockBytes(b), ((14 + 4 * n) + e) + c)
    /\ \A i \in 1 .. 5 : BlockBytes(b)[i] = HeaderBytes(b)[i]
    /\ \A i \in 1 .. 6 : BlockBytes(b)[5 + i] = First(b)[i]
    /\ BlockBytes(b)[11] = Num(n)
    /\ \A i \in 1 .. n : \A j \in 1 .. 4 : BlockBytes(b)[(4 * i + 7) + j] = Row(b)[j]
    /\ BlockBytes(b)[12 + 4 * n] = Num(e)
    /\ \A i \in 1 .. e : BlockBytes(b)[(12 + 4 * n) + i] = Data(b, "extra")
    /\ BlockBytes(b)[(14 + 4 * n) + e] = Num(c)
    /\ \A i \in 1 .. c : BlockBytes(b)[((14 + 4 * n) + e) + i] = TxHash(b, i)

LEMMA BlockIsLaid ==
    ASSUME NEW b \in Blocks, AllTagged(b)
    PROVE  Laid(b, Len(b.outs), b.extra, b.txs)
<1> DEFINE n == Len(b.outs)
           e == b.extra
           c == b.txs
           m == ((6 + 4 * n) + 1) + e
           y == BlockBytes(b)
           z == MinerBytes(b)
<1>1. n \in Nat /\ e \in Nat /\ c \in Nat
  BY BlockTypes
<1>2. /\ Tuple(z, m)
      /\ z[6] = Num(n) /\ \A i \in 1 .. 6 : z[i] = First(b)[i]
      /\ \A i \in 1 .. n : \A j \in 1 .. 4 : z[(4 * i + 2) + j] = Row(b)[j]
      /\ z[7 + 4 * n] = Num(e)
      /\ \A i \in 1 .. e : z[(7 + 4 * n) + i] = Data(b, "extra")
  <2>1. MinerIsLaid(z, b, n, e)
    BY <1>1, MinerBytesAre, Zenon
  <2> QED BY <2>1, Zenon DEF MinerIsLaid
<1>3. m \in Nat /\ m = (7 + 4 * n) + e
  <2> HIDE DEF n, e
  <2> QED BY <1>1
<1> HIDE DEF m
<1>4. /\ Tuple(y, (m + 7) + c)
      /\ \A i \in 1 .. 5 : y[i] = HeaderBytes(b)[i]
      /\ \A i \in 1 .. m : y[5 + i] = z[i]
      /\ y[m + 7] = Num(c)
      /\ \A i \in 1 .. c : y[(m + 7) + i] = TxHash(b, i)
  BY <1>1, <1>2, <1>3, BlockBytesAre
<1> HIDE DEF n, e, c, y, z
<1>5. (m + 7) + c = ((14 + 4 * n) + e) + c /\ m + 7 = (14 + 4 * n) + e
  BY <1>1, <1>3
<1>6. Tuple(y, ((14 + 4 * n) + e) + c) /\ y[(14 + 4 * n) + e] = Num(c)
  BY <1>4, <1>5
<1>7. \A i \in 1 .. c : y[((14 + 4 * n) + e) + i] = TxHash(b, i)
  BY <1>4, <1>5
<1>8. \A i \in 1 .. 6 : y[5 + i] = First(b)[i]
  <2>1. \A i \in 1 .. 6 : i \in 1 .. m
    BY <1>1, <1>3
  <2> QED BY <1>2, <1>4, <2>1
<1>9. y[11] = Num(n)
  <2>1. 6 \in 1 .. m /\ 5 + 6 = 11
    BY <1>1, <1>3
  <2>2. y[5 + 6] = z[6]
    BY <1>4, <2>1
  <2> QED BY <1>2, <2>1, <2>2
<1>10. ASSUME NEW i \in 1 .. n, NEW j \in 1 .. 4 PROVE y[(4 * i + 7) + j] = Row(b)[j]
  <2>1. (4 * i + 2) + j \in 1 .. m /\ 5 + ((4 * i + 2) + j) = (4 * i + 7) + j
    BY <1>1, <1>3
  <2> QED BY <1>2, <1>4, <2>1
<1>11. y[12 + 4 * n] = Num(e)
  <2>1. 7 + 4 * n \in 1 .. m /\ 5 + (7 + 4 * n) = 12 + 4 * n
    BY <1>1, <1>3
  <2> QED BY <1>2, <1>4, <2>1
<1>12. ASSUME NEW i \in 1 .. e PROVE y[(12 + 4 * n) + i] = Data(b, "extra")
  <2>1. (7 + 4 * n) + i \in 1 .. m /\ 5 + ((7 + 4 * n) + i) = (12 + 4 * n) + i
    BY <1>1, <1>3
  <2> QED BY <1>2, <1>4, <2>1
<1>13. Laid(b, n, e, c)
  <2>1. n = Len(b.outs) /\ e = b.extra /\ c = b.txs
    BY DEF n, e, c
  <2> QED BY <1>1, <1>4, <1>6, <1>7, <1>8, <1>9, <1>10, <1>11, <1>12, <2>1 DEF Laid, y
<1> QED BY <1>13 DEF n, e, c

-----------------------------------------------------------------------------
(* The inductive invariant.                                                   *)

MinerOf(b) ==
    [base  |-> SubSeq(BlockBytes(b), 6, 10),
     outs  |-> [i \in 1 .. Len(b.outs) |->
                    [amount |-> Data(b, "amount"), type |-> Num(TxOutToTaggedKey),
                     target |-> Data(b, "target"), viewTag |-> Data(b, "view tag")]],
     extra |-> [i \in 1 .. b.extra |-> Data(b, "extra")]]

IsList(t) == Len(t) \in Nat /\ Tuple(t, Len(t))

\* The bytes that are parsed are those of one block.
Held ==
    /\ parsed \in Seq(Blocks) /\ IsList(tx)
    /\ given = {} => block = <<>> /\ parsed = <<>>
    /\ given # {} => \E b \in Blocks : given = {b} /\ block = BlockBytes(b)
    /\ parsed = <<>> => TXs = <<>> /\ txsCount = 0

\* What the first parse leaves, until the second.
ParsedOnce ==
    Len(parsed) = 1 /\ AllTagged(parsed[1]) =>
        LET b == parsed[1]
        IN  /\ header = HeaderBytes(b) /\ minerTx = MinerOf(b) /\ txsCount = b.txs
            /\ Tuple(TXs, b.txs) /\ \A i \in 1 .. b.txs : TXs[i].hash = TxHash(b, i)

\* What any number of parses append and replace.
SomeBefore(n) == \E i \in DOMAIN parsed : i < n /\ parsed[i].txs > 0
Appended ==
    (\A i \in DOMAIN parsed : AllTagged(parsed[i])) =>
        /\ IsList(TXs) /\ txsCount \in Nat
        /\ Len(TXs) > 0 <=> SomeBefore(Len(parsed) + 1)
        /\ Len(TXs) > txsCount <=> SomeBefore(Len(parsed))

\* Transactions that are inserted in the order of the block.
InOrder ==
    orderly =>
        /\ given = {} => tx = <<>>
        /\ \A b \in given : AllTagged(b) =>
              /\ Len(tx) <= b.txs /\ \A i \in 1 .. Len(tx) : tx[i] = TxData(b, i)
              /\ IsList(TXs)
              /\ \A i \in 1 .. Len(TXs) :
                    TXs[i].raw # NoRaw => TXs[i].hash = Keccak256(<<TXs[i].raw>>)

BlockInv == Held /\ ParsedOnce /\ Appended /\ InOrder

\* A parse takes every field for what it is.
Listed(b) ==
    [i \in 1 .. b.txs |-> [hash |-> TxHash(b, i), raw |-> IF i <= Len(tx) THEN tx[i] ELSE NoRaw]]

LEMMA NumberIs == \A v : Num(v).num = v /\ DOMAIN Num(v) = {"num"}
BY DEF Num

LEMMA ParseIs ==
    ASSUME NEW b \in Blocks, AllTagged(b), block = BlockBytes(b), FullfillBlockHeader
    PROVE  /\ header' = HeaderBytes(b) /\ minerTx' = MinerOf(b) /\ txsCount' = b.txs
           /\ TXs' = TXs \o Listed(b)
<1> DEFINE n == Len(b.outs)
           e == b.extra
           c == b.txs
           last == ((14 + 4 * n) + e) + c
<1>1. Laid(b, n, e, c)
  BY BlockIsLaid
<1>2. n \in Nat /\ e \in Nat /\ c \in Nat
  BY BlockTypes
<1> HIDE DEF n, e, c
<1>3. last \in Nat /\ Tuple(block, last) /\ Len(block) = last
  <2>1. last \in Nat
    BY <1>2
  <2>2. Tuple(block, last)
    BY <1>1, Zenon DEF Laid
  <2> HIDE DEF last
  <2> QED BY <2>1, <2>2, TupleIs
<1>4. \A i \in 1 .. last : At(i) = block[i]
  <2> HIDE DEF last
  <2> QED BY <1>3 DEF At
<1>5. \A i \in 1 .. last : \A v : block[i] = Num(v) => NumAt(i) = {v}
  <2> SUFFICES ASSUME NEW i \in 1 .. last, NEW v, block[i] = Num(v) PROVE NumAt(i) = {v}
    OBVIOUS
  <2>1. At(i) = Num(v)
    BY <1>4
  <2>2. At(i).num = v /\ DOMAIN At(i) = {"num"}
    BY <2>1, NumberIs
  <2> QED BY <2>2, Zenon DEF NumAt
<1>6. NumAt(11) = {n} /\ NumAt(12 + 4 * n) = {e} /\ NumAt((14 + 4 * n) + e) = {c}
  <2>1. 11 \in 1 .. last /\ 12 + 4 * n \in 1 .. last /\ (14 + 4 * n) + e \in 1 .. last
    BY <1>2
  <2>2. block[11] = Num(n) /\ block[12 + 4 * n] = Num(e) /\ block[(14 + 4 * n) + e] = Num(c)
    BY <1>1, Zenon DEF Laid
  <2> QED BY <1>5, <2>1, <2>2, Zenon
<1>7. /\ minerTx' = [base  |-> SubSeq(block, 6, 10),
                     outs  |-> [i \in 1 .. n |-> ParsedOut(i)],
                     extra |-> [i \in 1 .. e |-> At((12 + 4 * n) + i)]]
      /\ txsCount' = c
      /\ TXs' = ParsedTxs((14 + 4 * n) + e, c)
  <2>1. PICK outputNum \in NumAt(11) : \E extraSize \in NumAt(12 + 4 * outputNum) :
            /\ minerTx' = [base  |-> SubSeq(block, 6, 10),
                           outs  |-> [i \in 1 .. outputNum |-> ParsedOut(i)],
                           extra |-> [i \in 1 .. extraSize |-> At((12 + 4 * outputNum) + i)]]
            /\ txsCount' \in NumAt(((12 + 4 * outputNum) + extraSize) + 2)
            /\ TXs' = ParsedTxs(((12 + 4 * outputNum) + extraSize) + 2, txsCount')
    BY Zenon DEF FullfillBlockHeader
  <2>2. outputNum = n
    BY <1>6, <2>1
  <2>3. PICK extraSize \in NumAt(12 + 4 * n) :
            /\ minerTx' = [base  |-> SubSeq(block, 6, 10),
                           outs  |-> [i \in 1 .. n |-> ParsedOut(i)],
                           extra |-> [i \in 1 .. extraSize |-> At((12 + 4 * n) + i)]]
            /\ txsCount' \in NumAt(((12 + 4 * n) + extraSize) + 2)
            /\ TXs' = ParsedTxs(((12 + 4 * n) + extraSize) + 2, txsCount')
    BY <2>1, <2>2, Zenon
  <2>4. extraSize = e
    BY <1>6, <2>3
  <2>5. ((12 + 4 * n) + e) + 2 = (14 + 4 * n) + e
    BY <1>2
  <2>6. txsCount' = c
    <3>1. txsCount' \in NumAt(((12 + 4 * n) + e) + 2)
      BY <2>3, <2>4, Zenon
    <3> QED BY <1>6, <2>5, <3>1
  <2> QED BY <2>3, <2>4, <2>5, <2>6, Zenon
<1>8. [i \in 1 .. n |-> ParsedOut(i)] =
          [i \in 1 .. n |-> [amount |-> Data(b, "amount"), type |-> Num(TxOutToTaggedKey),
                             target |-> Data(b, "target"), viewTag |-> Data(b, "view tag")]]
  <2> SUFFICES ASSUME NEW i \in 1 .. n
               PROVE  ParsedOut(i) = [amount |-> Data(b, "amount"), type |-> Num(TxOutToTaggedKey),
                                      target |-> Data(b, "target"), viewTag |-> Data(b, "view tag")]
    BY Zenon
  <2>1. /\ (4 * i + 7) + 1 = 8 + 4 * i /\ (4 * i + 7) + 2 = 9 + 4 * i
        /\ (4 * i + 7) + 3 = 10 + 4 * i /\ (4 * i + 7) + 4 = 11 + 4 * i
        /\ 8 + 4 * i \in 1 .. last /\ 9 + 4 * i \in 1 .. last
        /\ 10 + 4 * i \in 1 .. last /\ 11 + 4 * i \in 1 .. last
    BY <1>2
  <2>2. \A j \in 1 .. 4 : block[(4 * i + 7) + j] = Row(b)[j]
    BY <1>1, Zenon DEF Laid
  <2>3. 1 \in 1 .. 4 /\ 2 \in 1 .. 4 /\ 3 \in 1 .. 4 /\ 4 \in 1 .. 4
    OBVIOUS
  <2>4. /\ block[8 + 4 * i] = Row(b)[1] /\ block[9 + 4 * i] = Row(b)[2]
        /\ block[10 + 4 * i] = Row(b)[3] /\ block[11 + 4 * i] = Row(b)[4]
    BY <2>1, <2>2, <2>3, Zenon
  <2>5. /\ Row(b)[1] = Data(b, "amount") /\ Row(b)[2] = Num(TxOutToTaggedKey)
        /\ Row(b)[3] = Data(b, "target") /\ Row(b)[4] = Data(b, "view tag")
    BY DEF Row
  <2> QED BY <1>4, <2>1, <2>4, <2>5, Zenon DEF ParsedOut
<1>9. [i \in 1 .. e |-> At((12 + 4 * n) + i)] = [i \in 1 .. e |-> Data(b, "extra")]
  <2> SUFFICES ASSUME NEW i \in 1 .. e PROVE At((12 + 4 * n) + i) = Data(b, "extra")
    BY Zenon
  <2>1. (12 + 4 * n) + i \in 1 .. last
    BY <1>2
  <2>2. block[(12 + 4 * n) + i] = Data(b, "extra")
    BY <1>1, Zenon DEF Laid
  <2> QED BY <1>4, <2>1, <2>2, Zenon
<1>10. ParsedTxs((14 + 4 * n) + e, c) = TXs \o Listed(b)
  <2>1. ASSUME NEW i \in 1 .. c PROVE At(((14 + 4 * n) + e) + i) = TxHash(b, i)
    <3>1. ((14 + 4 * n) + e) + i \in 1 .. last
      BY <1>2
    <3>2. block[((14 + 4 * n) + e) + i] = TxHash(b, i)
      BY <1>1, Zenon DEF Laid
    <3> QED BY <1>4, <3>1, <3>2, Zenon
  <2>2. [i \in 1 .. c |-> [hash |-> At(((14 + 4 * n) + e) + i), raw |-> IF i <= Len(tx) THEN tx[i] ELSE NoRaw]]
            = [i \in 1 .. c |-> [hash |-> TxHash(b, i), raw |-> IF i <= Len(tx) THEN tx[i] ELSE NoRaw]]
    BY <2>1, Zenon
  <2> QED BY <2>2, Zenon DEF ParsedTxs, Listed, c
<1>11. header' = HeaderBytes(b)
  <2>1. header' = SubSeq(block, 1, 5)
    BY DEF FullfillBlockHeader
  <2>2. 1 \in 1 .. last /\ 5 \in 1 - 1 .. last /\ (5 - 1) + 1 = 5
    BY <1>2
  <2>3. /\ Tuple(SubSeq(block, 1, 5), (5 - 1) + 1)
        /\ \A i \in 1 .. (5 - 1) + 1 : SubSeq(block, 1, 5)[i] = block[(1 + i) - 1]
    <3> HIDE DEF last
    <3> QED BY <1>3, <2>2, SliceIs
  <2>4. \A i \in 1 .. 5 : SubSeq(block, 1, 5)[i] = block[i]
    BY <2>2, <2>3
  <2>5. \A i \in 1 .. 5 : block[i] = HeaderBytes(b)[i]
    BY <1>1, Zenon DEF Laid
  <2>6. Tuple(HeaderBytes(b), 5)
    BY TupleCases, Zenon DEF HeaderBytes
  <2>7. Tuple(SubSeq(block, 1, 5), 5) /\ \A i \in 1 .. 5 : SubSeq(block, 1, 5)[i] = HeaderBytes(b)[i]
    BY <2>2, <2>3, <2>4, <2>5
  <2>8. SubSeq(block, 1, 5) = HeaderBytes(b)
    BY <2>6, <2>7, TupleEqual, Zenon
  <2> QED BY <2>1, <2>8
<1> QED BY <1>7, <1>8, <1>9, <1>10, <1>11, Zenon DEF MinerOf, n, e, c

\* What is written of a parsed miner transaction is what was parsed.
LEMMA MinerBuffIs ==
    ASSUME NEW b \in Blocks, AllTagged(b), minerTx = MinerOf(b)
    PROVE  CalculateMinerBuff = MinerBytes(b)
<1> DEFINE n == Len(b.outs)
           e == b.extra
           c == b.txs
           last == ((14 + 4 * n) + e) + c
           base == SubSeq(BlockBytes(b), 6, 10)
           outs == [i \in 1 .. n |-> [amount |-> Data(b, "amount"), type |-> Num(TxOutToTaggedKey),
                                      target |-> Data(b, "target"), viewTag |-> Data(b, "view tag")]]
           extra == [i \in 1 .. e |-> Data(b, "extra")]
<1>1. n \in Nat /\ e \in Nat /\ c \in Nat /\ DOMAIN b.outs = 1 .. n
  BY BlockTypes
<1>2. minerTx.base = base /\ minerTx.outs = outs /\ minerTx.extra = extra
  BY DEF MinerOf
<1>3. Len(outs) = n /\ DOMAIN outs = 1 .. n
  <2>1. Tuple(outs, n)
    BY DEF Tuple
  <2> HIDE DEF outs, n
  <2> QED BY <1>1, <2>1, TupleIs
<1>4. Len(extra) = e
  <2>1. Tuple(extra, e)
    BY DEF Tuple
  <2> HIDE DEF extra, e
  <2> QED BY <1>1, <2>1, TupleIs
<1>5. base \o <<Num(n)>> = First(b)
  <2>1. Laid(b, n, e, c)
    BY BlockIsLaid
  <2>2. last \in Nat /\ Tuple(BlockBytes(b), last) /\ 6 \in 1 .. last /\ 10 \in 6 - 1 .. last /\ (10 - 6) + 1 = 5
    <3>1. Tuple(BlockBytes(b), last)
      BY <2>1, Zenon DEF Laid
    <3> HIDE DEF n, e, c
    <3> QED BY <1>1, <3>1
  <2>3. Tuple(base, (10 - 6) + 1) /\ \A i \in 1 .. (10 - 6) + 1 : base[i] = BlockBytes(b)[(6 + i) - 1]
    <3> HIDE DEF last
    <3> QED BY <2>2, SliceIs
  <2>4. \A i \in 1 .. 5 : (6 + i) - 1 = 5 + i /\ i \in 1 .. 6
    OBVIOUS
  <2>5. \A i \in 1 .. 6 : BlockBytes(b)[5 + i] = First(b)[i]
    BY <2>1, Zenon DEF Laid
  <2> HIDE DEF base
  <2>6. Tuple(base, 5) /\ \A i \in 1 .. 5 : base[i] = First(b)[i]
    BY <2>2, <2>3, <2>4, <2>5
  <2>7. Joined(base, 5, <<Num(n)>>, 1)
    BY <2>6, TupleCases, Cat, Zenon
  <2>8. First(b)[6] = Num(n)
    BY DEF First
  <2>9. Tuple(First(b), 6)
    BY TupleCases, Zenon DEF First
  <2> DEFINE y == base \o <<Num(n)>>
             w == <<Num(n)>>
  <2>10. Tuple(y, 6) /\ \A i \in 1 .. 6 : y[i] = IF i <= 5 THEN base[i] ELSE w[i - 5]
    <3>1. 5 + 1 = 6
      OBVIOUS
    <3> QED BY <2>7, <3>1, Zenon DEF Joined
  <2>11. w[1] = Num(n)
    OBVIOUS
  <2> HIDE DEF y, w
  <2>12. ASSUME NEW i \in 1 .. 6 PROVE y[i] = First(b)[i]
    <3>1. CASE i <= 5
      BY <2>6, <2>10, <3>1
    <3>2. CASE i = 6
      BY <2>8, <2>10, <2>11, <3>2
    <3> QED BY <3>1, <3>2
  <2>13. y = First(b)
    BY <2>9, <2>10, <2>12, TupleEqual, Zenon
  <2> QED BY <2>13 DEF y
<1>6. [i \in DOMAIN outs |-> OutBuff(outs[i])] = Rows(b)
  <2>1. ASSUME NEW i \in 1 .. n PROVE OutBuff(outs[i]) = OutBytes(b, i)
    <3> DEFINE o == outs[i]
               u == Data(b, "amount")
               v == Num(TxOutToTaggedKey)
               w == Data(b, "target")
               x == Data(b, "view tag")
    <3>1. o.amount = u /\ o.type = v /\ o.target = w /\ o.viewTag = x
      OBVIOUS
    <3>2. OutBuff(o) = (<<u, v>> \o <<w>>) \o <<x>>
      <4> HIDE DEF o, u, w, x
      <4> QED BY <3>1, Zenon DEF OutBuff, v
    <3>3. Row(b) = <<u, v, w, x>>
      BY DEF Row
    <3>4. OutBuff(o) = Row(b)
      <4> HIDE DEF o, u, v, w, x
      <4>1. (<<u, v>> \o <<w>>) \o <<x>> = <<u, v, w, x>>
        BY Fours
      <4> QED BY <3>2, <3>3, <4>1, Zenon
    <3>5. OutBytes(b, i) = Row(b)
      BY <1>1, OutBytesAre
    <3> QED BY <3>4, <3>5
  <2> HIDE DEF outs
  <2> QED BY <1>1, <1>3, <2>1, Zenon DEF Rows
<1>7. CalculateMinerBuff = ((base \o <<Num(Len(outs))>>) \o FlattenSeq([i \in DOMAIN outs |-> OutBuff(outs[i])])
                            \o <<Num(Len(extra))>>) \o extra
  <2> HIDE DEF base, outs, extra
  <2> QED BY <1>2, Zenon DEF CalculateMinerBuff
<1>8. MinerBytes(b) = ((First(b) \o FlattenSeq(Rows(b))) \o <<Num(e)>>) \o extra
  BY Zenon DEF MinerBytes, First, Rows
<1> HIDE DEF base, outs, extra, n, e
<1> QED BY <1>3, <1>4, <1>5, <1>6, <1>7, <1>8, Zenon

-----------------------------------------------------------------------------
(* Steps.                                                                     *)

LEMMA ListIs == \A n \in Nat : \A t : Tuple(t, n) => IsList(t) /\ Len(t) = n
<1> SUFFICES ASSUME NEW n \in Nat, NEW t, Tuple(t, n) PROVE IsList(t) /\ Len(t) = n
  OBVIOUS
<1>1. Len(t) = n
  BY TupleIs
<1> QED BY <1>1 DEF IsList

LEMMA NoneIs == IsList(<<>>) /\ Len(<<>>) = 0
BY TupleCases, ListIs

LEMMA AppendIs ==
    ASSUME NEW t, IsList(t), NEW v
    PROVE  /\ IsList(Append(t, v)) /\ Len(Append(t, v)) = Len(t) + 1
           /\ \A i \in 1 .. Len(t) : Append(t, v)[i] = t[i]
           /\ Append(t, v)[Len(t) + 1] = v
<1> DEFINE n == Len(t)
           V == {t[i] : i \in 1 .. n} \cup {v}
<1>1. n \in Nat /\ Tuple(t, n)
  BY DEF IsList
<1>2. t \in Seq({t[i] : i \in 1 .. n})
  <2> HIDE DEF n
  <2> QED BY <1>1, TupleIs
<1>3. {t[i] : i \in 1 .. n} \subseteq V /\ v \in V
  OBVIOUS
<1>4. t \in Seq(V)
  <2> HIDE DEF n, V
  <2> QED BY <1>2, <1>3, SeqMonotonic
<1> HIDE DEF V
<1>5. /\ Append(t, v) \in Seq(V) /\ Len(Append(t, v)) = Len(t) + 1
      /\ \A i \in 1 .. Len(t) : Append(t, v)[i] = t[i]
      /\ Append(t, v)[Len(t) + 1] = v
  BY <1>3, <1>4, AppendProperties
<1>6. Tuple(Append(t, v), Len(t) + 1)
  BY <1>5, LenProperties DEF Tuple
<1>7. Len(t) + 1 \in Nat
  BY <1>1
<1> QED BY <1>5, <1>6, <1>7, ListIs

LEMMA ListedIs ==
    ASSUME NEW b \in Blocks
    PROVE  /\ Tuple(Listed(b), b.txs)
           /\ \A i \in 1 .. b.txs : /\ Listed(b)[i].hash = TxHash(b, i)
                                    /\ Listed(b)[i].raw = IF i <= Len(tx) THEN tx[i] ELSE NoRaw
BY DEF Tuple, Listed

\* Lists that a parse appends.
LEMMA AppendedIs ==
    ASSUME NEW b \in Blocks, IsList(TXs), NEW n \in Nat, n = b.txs
    PROVE  /\ Tuple(TXs \o Listed(b), Len(TXs) + n) /\ IsList(TXs \o Listed(b))
           /\ Len(TXs \o Listed(b)) = Len(TXs) + n
           /\ \A i \in 1 .. Len(TXs) + n : (TXs \o Listed(b))[i] =
                  IF i <= Len(TXs) THEN TXs[i] ELSE Listed(b)[i - Len(TXs)]
<1>1. Len(TXs) \in Nat /\ Tuple(TXs, Len(TXs)) /\ Tuple(Listed(b), n)
  BY ListedIs DEF IsList
<1>2. Joined(TXs, Len(TXs), Listed(b), n)
  BY <1>1, Cat, Zenon
<1>3. Tuple(TXs \o Listed(b), Len(TXs) + n) /\ Len(TXs) + n \in Nat
  BY <1>2, Zenon DEF Joined
<1> QED BY <1>2, <1>3, ListIs, Zenon DEF Joined

LEMMA InitInv == Init => BlockInv
<1> SUFFICES ASSUME Init PROVE BlockInv
  OBVIOUS
<1>1. /\ block = <<>> /\ tx = <<>> /\ TXs = <<>> /\ txsCount = 0 /\ given = {} /\ parsed = <<>>
  BY DEF Init
<1>2. Held
  BY <1>1, NoneIs, EmptySeq DEF Held
<1>3. ParsedOnce
  BY <1>1, NoneIs DEF ParsedOnce
<1>4. Appended
  BY <1>1, NoneIs DEF Appended, SomeBefore
<1>5. InOrder
  BY <1>1 DEF InOrder
<1> QED BY <1>2, <1>3, <1>4, <1>5 DEF BlockInv

\* Nothing is parsed.
LEMMA KeepsParsed ==
    ASSUME ParsedOnce, Appended, UNCHANGED <<header, minerTx, txsCount, TXs, parsed>>
    PROVE  ParsedOnce' /\ Appended'
<1>1. ParsedOnce'
  BY Zenon DEF ParsedOnce
<1>2. Appended'
  BY Zenon DEF Appended, SomeBefore
<1> QED BY <1>1, <1>2

LEMMA SetKeeps ==
    ASSUME BlockInv, NEW b \in Blocks, SetBlockData(b)
    PROVE  BlockInv'
<1>1. /\ block' = BlockBytes(b) /\ given' = {b} /\ orderly' = (orderly /\ given = {} /\ tx = <<>>)
      /\ UNCHANGED <<tx, header, minerTx, txsCount, TXs, parsed>>
  BY DEF SetBlockData
<1>2. Held'
  BY <1>1, Zenon DEF BlockInv, Held
<1>3. ParsedOnce' /\ Appended'
  BY <1>1, KeepsParsed DEF BlockInv
<1>4. InOrder'
  <2> SUFFICES ASSUME orderly', NEW a \in given', AllTagged(a)
               PROVE  /\ Len(tx) <= a.txs /\ \A i \in 1 .. Len(tx) : tx[i] = TxData(a, i)
                      /\ IsList(TXs) /\ Len(TXs) = 0
    BY <1>1 DEF InOrder
  <2>1. tx = <<>> /\ TXs = <<>> /\ a \in Blocks
    BY <1>1 DEF BlockInv, Held
  <2>2. a.txs \in Nat
    BY <2>1, BlockTypes
  <2> QED BY <2>1, <2>2, NoneIs
<1> QED BY <1>2, <1>3, <1>4 DEF BlockInv

LEMMA InsertKeeps ==
    ASSUME BlockInv, NEW data, InsertTx(data)
    PROVE  BlockInv'
<1>1. /\ tx' = Append(tx, data) /\ orderly' = (orderly /\ NextOfGiven(data))
      /\ UNCHANGED <<block, header, minerTx, txsCount, TXs, given, parsed>>
  BY DEF InsertTx
<1>2. /\ IsList(tx) /\ IsList(tx') /\ Len(tx') = Len(tx) + 1
      /\ (\A i \in 1 .. Len(tx) : tx'[i] = tx[i]) /\ tx'[Len(tx) + 1] = data
  BY <1>1, AppendIs DEF BlockInv, Held
<1>3. Held'
  BY <1>1, <1>2, Zenon DEF BlockInv, Held
<1>4. ParsedOnce' /\ Appended'
  BY <1>1, KeepsParsed DEF BlockInv
<1>5. InOrder'
  <2> SUFFICES ASSUME orderly'
               PROVE  /\ given # {}
                      /\ \A b \in given : AllTagged(b) =>
                           /\ Len(tx') <= b.txs /\ \A i \in 1 .. Len(tx') : tx'[i] = TxData(b, i)
                           /\ IsList(TXs)
                           /\ \A i \in 1 .. Len(TXs) :
                                 TXs[i].raw # NoRaw => TXs[i].hash = Keccak256(<<TXs[i].raw>>)
    BY <1>1 DEF InOrder
  <2>1. orderly /\ NextOfGiven(data)
    BY <1>1
  <2>2. PICK a \in given : Len(tx) < a.txs /\ data = TxData(a, Len(tx) + 1)
    BY <2>1 DEF NextOfGiven
  <2>3. PICK b \in Blocks : given = {b}
    BY <2>2 DEF BlockInv, Held
  <2>4. a = b /\ b.txs \in Nat /\ Len(tx) \in Nat
    BY <1>2, <2>2, <2>3, BlockTypes DEF IsList
  <2> SUFFICES ASSUME AllTagged(b)
               PROVE  /\ Len(tx') <= b.txs /\ \A i \in 1 .. Len(tx') : tx'[i] = TxData(b, i)
                      /\ IsList(TXs)
                      /\ \A i \in 1 .. Len(TXs) :
                            TXs[i].raw # NoRaw => TXs[i].hash = Keccak256(<<TXs[i].raw>>)
    BY <2>3
  <2>5. /\ \A i \in 1 .. Len(tx) : tx[i] = TxData(b, i)
        /\ IsList(TXs)
        /\ \A i \in 1 .. Len(TXs) :
              TXs[i].raw # NoRaw => TXs[i].hash = Keccak256(<<TXs[i].raw>>)
    BY <2>1, <2>3 DEF BlockInv, InOrder
  <2>6. Len(tx') <= b.txs
    BY <1>2, <2>2, <2>4
  <2>7. ASSUME NEW i \in 1 .. Len(tx') PROVE tx'[i] = TxData(b, i)
    <3>1. CASE i = Len(tx) + 1
      BY <1>2, <2>2, <2>4, <3>1
    <3>2. CASE i # Len(tx) + 1
      <4>1. i \in 1 .. Len(tx)
        BY <1>2, <2>4, <3>2
      <4> QED BY <1>2, <2>5, <4>1
    <3> QED BY <3>1, <3>2
  <2> QED BY <2>5, <2>6, <2>7
<1> QED BY <1>3, <1>4, <1>5 DEF BlockInv

LEMMA ParseKeeps ==
    ASSUME BlockInv, FullfillBlockHeader
    PROVE  BlockInv'
<1>1. block # <<>> /\ UNCHANGED <<block, tx, given, orderly>> /\ \E b \in given : parsed' = Append(parsed, b)
  BY Zenon DEF FullfillBlockHeader
<1>2. PICK b \in Blocks : given = {b} /\ block = BlockBytes(b)
  BY <1>1 DEF BlockInv, Held
<1>3. parsed' = Append(parsed, b) /\ parsed \in Seq(Blocks)
  BY <1>1, <1>2 DEF BlockInv, Held
<1> DEFINE k == Len(parsed)
<1>4. /\ parsed' \in Seq(Blocks) /\ Len(parsed') = k + 1 /\ k \in Nat
      /\ DOMAIN parsed = 1 .. k /\ DOMAIN parsed' = 1 .. k + 1
      /\ \A i \in 1 .. k : parsed'[i] = parsed[i]
      /\ parsed'[k + 1] = b
  <2>1. parsed' \in Seq(Blocks) /\ Len(parsed') = k + 1 /\ parsed'[k + 1] = b
        /\ \A i \in 1 .. k : parsed'[i] = parsed[i]
    BY <1>3, AppendProperties
  <2>2. k \in Nat /\ DOMAIN parsed = 1 .. k
    BY <1>3, LenProperties
  <2>3. DOMAIN parsed' = 1 .. k + 1
    BY <2>1, LenProperties
  <2> QED BY <2>1, <2>2, <2>3
<1>5. b.txs \in Nat
  BY BlockTypes
<1>6. k = 0 => parsed = <<>>
  BY <1>3, EmptySeq
<1> HIDE DEF k
<1>7. parsed' # <<>>
  BY <1>4, EmptySeq
<1>8. Held'
  BY <1>1, <1>2, <1>4, <1>7, Zenon DEF BlockInv, Held, IsList
<1>9. AllTagged(b) => /\ header' = HeaderBytes(b) /\ minerTx' = MinerOf(b) /\ txsCount' = b.txs
                      /\ TXs' = TXs \o Listed(b)
  BY <1>2, ParseIs
<1>10. AllTagged(b) /\ IsList(TXs) =>
          /\ IsList(TXs') /\ Len(TXs) \in Nat /\ Len(TXs') = Len(TXs) + b.txs
          /\ Tuple(TXs', Len(TXs) + b.txs)
          /\ \A i \in 1 .. Len(TXs) + b.txs : TXs'[i] =
                 IF i <= Len(TXs) THEN TXs[i] ELSE Listed(b)[i - Len(TXs)]
  BY <1>5, <1>9, AppendedIs DEF IsList
<1>11. \A i \in 1 .. b.txs : /\ Listed(b)[i].hash = TxHash(b, i)
                             /\ Listed(b)[i].raw = IF i <= Len(tx) THEN tx[i] ELSE NoRaw
  BY ListedIs
<1>12. ParsedOnce'
  <2> SUFFICES ASSUME Len(parsed') = 1, AllTagged(parsed'[1])
               PROVE  LET a == parsed'[1]
                      IN  /\ header' = HeaderBytes(a) /\ minerTx' = MinerOf(a) /\ txsCount' = a.txs
                          /\ Tuple(TXs', a.txs) /\ \A i \in 1 .. a.txs : TXs'[i].hash = TxHash(a, i)
    BY Zenon DEF ParsedOnce
  <2>1. k = 0 /\ parsed = <<>> /\ parsed'[1] = b
    BY <1>4, <1>6
  <2>2. TXs = <<>> /\ IsList(TXs) /\ Len(TXs) = 0
    BY <2>1, NoneIs DEF BlockInv, Held
  <2>3. Tuple(TXs', b.txs) /\ \A i \in 1 .. b.txs : TXs'[i] = Listed(b)[i]
    <3>1. 0 + b.txs = b.txs /\ \A i \in 1 .. b.txs : ~(i <= 0) /\ i - 0 = i
      BY <1>5
    <3>2. /\ Tuple(TXs', 0 + b.txs)
          /\ \A i \in 1 .. 0 + b.txs : TXs'[i] = IF i <= 0 THEN TXs[i] ELSE Listed(b)[i - 0]
      BY <1>10, <2>1, <2>2
    <3> QED BY <3>1, <3>2
  <2>4. \A i \in 1 .. b.txs : TXs'[i].hash = TxHash(b, i)
    BY <1>11, <2>3
  <2> QED BY <1>9, <2>1, <2>3, <2>4
<1>13. Appended'
  <2> SUFFICES ASSUME \A i \in DOMAIN parsed' : AllTagged(parsed'[i])
               PROVE  /\ IsList(TXs') /\ txsCount' \in Nat
                      /\ Len(TXs') > 0 <=> (\E i \in DOMAIN parsed' : i < Len(parsed') + 1 /\ parsed'[i].txs > 0)
                      /\ Len(TXs') > txsCount' <=> (\E i \in DOMAIN parsed' : i < Len(parsed') /\ parsed'[i].txs > 0)
    BY Zenon DEF Appended, SomeBefore
  <2>1. (\A i \in 1 .. k : AllTagged(parsed[i])) /\ AllTagged(b)
    <3>1. \A i \in 1 .. k : i \in 1 .. k + 1
      BY <1>4
    <3>2. k + 1 \in 1 .. k + 1
      BY <1>4
    <3> QED BY <1>4, <3>1, <3>2
  <2>2. /\ IsList(TXs)
        /\ Len(TXs) > 0 <=> (\E i \in 1 .. k : i < k + 1 /\ parsed[i].txs > 0)
    BY <1>4, <2>1 DEF BlockInv, Appended, SomeBefore, k
  <2>3. IsList(TXs') /\ Len(TXs) \in Nat /\ Len(TXs') = Len(TXs) + b.txs /\ txsCount' = b.txs
    BY <1>9, <1>10, <2>1, <2>2
  <2>4. (\E i \in 1 .. k : i < k + 1 /\ parsed[i].txs > 0) <=>
            (\E i \in 1 .. k + 1 : i < k + 1 /\ parsed'[i].txs > 0)
    BY <1>4
  <2>5. (\E i \in 1 .. k + 1 : i < (k + 1) + 1 /\ parsed'[i].txs > 0) <=>
            (b.txs > 0 \/ \E i \in 1 .. k + 1 : i < k + 1 /\ parsed'[i].txs > 0)
    BY <1>4
  <2>6. Len(TXs') > txsCount' <=> Len(TXs) > 0
    BY <1>5, <2>3
  <2>7. Len(TXs') > 0 <=> (b.txs > 0 \/ Len(TXs) > 0)
    BY <1>5, <2>3
  <2> QED BY <1>4, <1>5, <2>2, <2>3, <2>4, <2>5, <2>6, <2>7
<1>14. InOrder'
  <2> SUFFICES ASSUME orderly, AllTagged(b)
               PROVE  /\ Len(tx) <= b.txs /\ \A i \in 1 .. Len(tx) : tx[i] = TxData(b, i)
                      /\ IsList(TXs')
                      /\ \A i \in 1 .. Len(TXs') :
                            TXs'[i].raw # NoRaw => TXs'[i].hash = Keccak256(<<TXs'[i].raw>>)
    BY <1>1, <1>2, Zenon DEF BlockInv, InOrder
  <2>1. /\ Len(tx) <= b.txs /\ \A i \in 1 .. Len(tx) : tx[i] = TxData(b, i)
        /\ IsList(TXs)
        /\ \A i \in 1 .. Len(TXs) :
              TXs[i].raw # NoRaw => TXs[i].hash = Keccak256(<<TXs[i].raw>>)
    BY <1>2 DEF BlockInv, InOrder
  <2>2. /\ IsList(TXs') /\ Len(TXs) \in Nat /\ Len(TXs') = Len(TXs) + b.txs
        /\ \A i \in 1 .. Len(TXs) + b.txs : TXs'[i] =
               IF i <= Len(TXs) THEN TXs[i] ELSE Listed(b)[i - Len(TXs)]
    BY <1>10, <2>1
  <2>3. ASSUME NEW i \in 1 .. Len(TXs'), TXs'[i].raw # NoRaw
        PROVE  TXs'[i].hash = Keccak256(<<TXs'[i].raw>>)
    <3>1. i \in 1 .. Len(TXs) + b.txs
      BY <2>2
    <3>2. CASE i <= Len(TXs)
      <4>1. i \in 1 .. Len(TXs) /\ TXs'[i] = TXs[i]
        BY <1>5, <2>2, <3>1, <3>2
      <4> QED BY <2>1, <2>3, <4>1
    <3>3. CASE ~(i <= Len(TXs))
      <4> DEFINE j == i - Len(TXs)
      <4>1. j \in 1 .. b.txs /\ TXs'[i] = Listed(b)[j]
        BY <1>5, <2>2, <3>1, <3>3
      <4> HIDE DEF j
      <4>2. TXs'[i].hash = TxHash(b, j) /\ TXs'[i].raw = IF j <= Len(tx) THEN tx[j] ELSE NoRaw
        BY <1>11, <4>1
      <4>3. j <= Len(tx) /\ TXs'[i].raw = tx[j]
        BY <2>3, <4>2
      <4>4. j \in 1 .. Len(tx)
        <5>1. Len(tx) \in Nat
          BY DEF BlockInv, Held, IsList
        <5> QED BY <1>5, <4>1, <4>3, <5>1
      <4>5. tx[j] = TxData(b, j)
        BY <2>1, <4>4
      <4> QED BY <4>2, <4>3, <4>5, Zenon DEF TxHash
    <3> QED BY <3>2, <3>3
  <2> QED BY <2>1, <2>2, <2>3
<1> QED BY <1>8, <1>12, <1>13, <1>14 DEF BlockInv

LEMMA StutterKeeps ==
    ASSUME BlockInv, UNCHANGED vars
    PROVE  BlockInv'
<1>1. UNCHANGED <<block, tx, given, orderly>> /\ UNCHANGED <<header, minerTx, txsCount, TXs, parsed>>
  BY DEF vars
<1>2. Held' /\ InOrder'
  BY <1>1, Zenon DEF BlockInv, Held, InOrder, IsList
<1>3. ParsedOnce' /\ Appended'
  BY <1>1, KeepsParsed DEF BlockInv
<1> QED BY <1>2, <1>3 DEF BlockInv

LEMMA NextKeeps == BlockInv /\ [Next]_vars => BlockInv'
<1> SUFFICES ASSUME BlockInv, [Next]_vars PROVE BlockInv'
  OBVIOUS
<1>1. CASE \E b \in Blocks : SetBlockData(b)
  BY <1>1, SetKeeps
<1>2. CASE \E data \in TxPool : InsertTx(data)
  BY <1>2, InsertKeeps
<1>3. CASE FullfillBlockHeader
  BY <1>3, ParseKeeps
<1>4. CASE FullfillFails \/ UNCHANGED vars
  BY <1>4, StutterKeeps DEF FullfillFails
<1> QED BY <1>1, <1>2, <1>3, <1>4 DEF Next

LEMMA InvAlways == Spec => []BlockInv
<1>1. Init => BlockInv
  BY InitInv
<1>2. BlockInv /\ [Next]_vars => BlockInv'
  BY NextKeeps
<1> QED BY <1>1, <1>2, PTL DEF Spec

-----------------------------------------------------------------------------
(* What it means to the user of a block.                                      *)

LEMMA MeansIdentifies == BlockInv => IdentifiesBlock
<1> SUFFICES ASSUME BlockInv, Len(parsed) = 1, AllTagged(parsed[1])
             PROVE  GetHashingBlob = HashingBlobOf(parsed[1])
  BY DEF IdentifiesBlock
<1> DEFINE b == parsed[1]
           leaves == [i \in 1 .. txsCount |-> IF i <= Len(TXs) THEN TXs[i].hash ELSE ZeroHash]
           hash == MinerTxHash(MinerBytes(b))
<1>1. b \in Blocks
  <2>1. parsed \in Seq(Blocks) /\ 1 \in 1 .. Len(parsed)
    BY DEF BlockInv, Held
  <2> QED BY <2>1, ElementOfSeq
<1>2. /\ header = HeaderBytes(b) /\ minerTx = MinerOf(b) /\ txsCount = b.txs
      /\ Tuple(TXs, b.txs) /\ \A i \in 1 .. b.txs : TXs[i].hash = TxHash(b, i)
  BY DEF BlockInv, ParsedOnce
<1>3. b.txs \in Nat
  BY <1>1, BlockTypes
<1>4. CalculateMinerTxHash = hash
  <2>1. AllTagged(b)
    OBVIOUS
  <2> HIDE DEF b
  <2>2. CalculateMinerBuff = MinerBytes(b)
    BY <1>1, <1>2, <2>1, MinerBuffIs
  <2> QED BY <2>2, Zenon DEF CalculateMinerTxHash
<1> HIDE DEF b, hash
<1>5. Len(TXs) = b.txs
  BY <1>2, <1>3, TupleIs
<1>6. leaves = TxHashes(b)
  <2>1. \A i \in 1 .. b.txs : i <= Len(TXs)
    BY <1>3, <1>5
  <2>2. leaves = [i \in 1 .. b.txs |-> TxHash(b, i)]
    BY <1>2, <2>1
  <2> QED BY <2>2, Zenon DEF TxHashes
<1> HIDE DEF leaves
<1> DEFINE t == <<hash>> \o TxHashes(b)
<1>7. Tuple(t, 1 + b.txs) /\ 1 + b.txs \in Nat \ {0}
  <2>1. Tuple(TxHashes(b), b.txs)
    BY DEF Tuple, TxHashes
  <2>2. Joined(<<hash>>, 1, TxHashes(b), b.txs)
    BY <1>3, <2>1, TupleCases, Cat, Zenon
  <2> QED BY <1>3, <2>2 DEF Joined
<1>8. calcMerkleRoot(t) = TreeHash(t)
  <2> HIDE DEF t
  <2> QED BY <1>7, MerkleRootIs
<1>9. GetHashingBlob = [header |-> HeaderBytes(b), merkleroot |-> calcMerkleRoot(<<hash>> \o leaves),
                        txcount |-> b.txs + 1]
  BY <1>2, <1>4, Zenon DEF GetHashingBlob, leaves
<1>10. HashingBlobOf(b) = [header |-> HeaderBytes(b), merkleroot |-> TreeHash(t), txcount |-> b.txs + 1]
  BY Zenon DEF HashingBlobOf, hash
<1> QED BY <1>6, <1>8, <1>9, <1>10, Zenon DEF b

LEMMA MeansPanics == BlockInv => PanicsIfReparsed
BY Zenon DEF BlockInv, Appended, SomeBefore, PanicsIfReparsed, GetHashingBlobPanics

LEMMA MeansRaw == BlockInv => RawHasHash
<1> SUFFICES ASSUME BlockInv, orderly, NEW b \in given, AllTagged(b)
             PROVE  \A i \in DOMAIN TXs : TXs[i].raw # NoRaw => TXs[i].hash = Keccak256(<<TXs[i].raw>>)
  BY DEF RawHasHash
<1>1. /\ IsList(TXs)
      /\ \A i \in 1 .. Len(TXs) : TXs[i].raw # NoRaw => TXs[i].hash = Keccak256(<<TXs[i].raw>>)
  BY DEF BlockInv, InOrder
<1>2. DOMAIN TXs = 1 .. Len(TXs)
  BY <1>1, TupleIs DEF IsList
<1> QED BY <1>1, <1>2

\* The identifier of a block that was parsed once, with outputs of today's type, is
\* that of the block the daemon sent: for any number of outputs and transactions,
\* whether or not it is a power of two (types/block.go, FullfillBlockHeader to
\* GetHashingBlob).
THEOREM Identifies == Spec => []IdentifiesBlock
BY InvAlways, MeansIdentifies, PTL

\* The identifier panics if and only if transactions of an earlier parse are still
\* in the list (GetHashingBlob).
THEOREM Panics == Spec => []PanicsIfReparsed
BY InvAlways, MeansPanics, PTL

\* Bytes and hash of a transaction belong together if the transactions of one block
\* are inserted in its order (InsertTx, FullfillBlockHeader).
THEOREM RawsMatch == Spec => []RawHasHash
BY InvAlways, MeansRaw, PTL

=============================================================================
