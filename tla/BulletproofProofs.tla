--------------------------- MODULE BulletproofProofs --------------------------
(* The field, the group, and the algebra of the range proof: powers, sums, what *)
(* a round folds, where the bases are, the weights of the bits and the vectors  *)
(* of the first round, for every field and every number and size of amounts.    *)
EXTENDS BulletproofPlus, DataTheorems, SequenceTheorems

-----------------------------------------------------------------------------
(* The field and the group.                                                     *)

Cong(a, b) == Same(a, b, Q)

LEMMA QIs == Q \in Nat \ {0, 1} /\ Q \in Int /\ Scalars \subseteq Int /\ {0, 1} \subseteq Scalars
BY FieldAssumption DEF Scalars

LEMMA Reduced ==
    ASSUME NEW a \in Int
    PROVE  a % Q \in Scalars /\ a % Q \in Int /\ Cong(a % Q, a)
BY QIs, ModCong DEF Scalars, Cong

LEMMA ReducedIs ==
    ASSUME NEW a \in Scalars
    PROVE  a % Q = a
<1>1. a \in Int /\ 0 <= a /\ a < Q /\ Q \in Nat
  BY QIs DEF Scalars
<1>2. a % Q \in 0 .. Q - 1 /\ a \div Q \in Int /\ a = Q * (a \div Q) + (a % Q)
  BY <1>1, QIs, ModDef
<1>3. Q * (a \div Q) + (a % Q) = Q * 0 + a
  BY <1>1, <1>2
<1> QED BY <1>1, <1>2, <1>3, QIs, ModUnique

LEMMA CongIs == \A a, b : Cong(a, b) <=> a % Q = b % Q
BY DEF Cong, Same

LEMMA CongEq ==
    ASSUME NEW a \in Scalars, NEW b \in Scalars, Cong(a, b)
    PROVE  a = b
BY CongIs, ReducedIs

LEMMA CongEquiv ==
    /\ \A a : Cong(a, a)
    /\ \A a, b : Cong(a, b) => Cong(b, a)
    /\ \A a, b, d : Cong(a, b) /\ Cong(b, d) => Cong(a, d)
BY CongIs

LEMMA CongOps ==
    ASSUME NEW a \in Int, NEW b \in Int, NEW d \in Int, NEW e \in Int, Cong(a, b), Cong(d, e)
    PROVE  Cong(a + d, b + e) /\ Cong(a - d, b - e) /\ Cong(a * d, b * e)
BY QIs, CongAdd, CongMul DEF Cong

LEMMA CongTimes ==
    ASSUME NEW a \in Int, NEW b \in Int, NEW d \in Int, Cong(a, b)
    PROVE  Cong(a * d, b * d) /\ Cong(d * a, d * b)
<1>1. Cong(d, d)
  BY CongEquiv
<1> QED BY <1>1, CongOps

\* What the operations return, up to multiples of Q.
LEMMA ScalarOps ==
    ASSUME NEW a \in Int, NEW b \in Int
    PROVE  /\ ScAdd(a, b) \in Scalars /\ Cong(ScAdd(a, b), a + b)
           /\ ScSub(a, b) \in Scalars /\ Cong(ScSub(a, b), a - b)
           /\ ScMul(a, b) \in Scalars /\ Cong(ScMul(a, b), a * b)
<1>1. a + b \in Int /\ a - b \in Int /\ a * b \in Int
  OBVIOUS
<1> QED BY <1>1, Reduced DEF ScAdd, ScSub, ScMul

LEMMA PointsAre ==
    /\ \A base : PointOf(base) \in Points
    /\ G \in Points /\ H \in Points /\ Identity \in Points
    /\ \A key : HashToEC(key) \in Points
<1>1. Identity \in Points
  BY QIs DEF Identity, Points
<1>2. ASSUME NEW base PROVE PointOf(base) \in Points
  BY <1>1, QIs DEF PointOf, Points
<1> QED BY <1>1, <1>2 DEF G, H, HashToEC

LEMMA CoordinateIsInt == \A p \in Points : \A x \in Bases : p[x] \in Scalars /\ p[x] \in Int
BY QIs DEF Points

LEMMA PointOps ==
    ASSUME NEW p \in Points, NEW q \in Points, NEW a \in Int
    PROVE  /\ AddPoints(p, q) \in Points /\ SubKeys(p, q) \in Points /\ ScalarMult(a, p) \in Points
           /\ \A x \in Bases :
                 /\ Cong(AddPoints(p, q)[x], p[x] + q[x])
                 /\ Cong(SubKeys(p, q)[x], p[x] - q[x])
                 /\ Cong(ScalarMult(a, p)[x], a * p[x])
<1>1. ASSUME NEW x \in Bases
      PROVE  /\ p[x] \in Int /\ q[x] \in Int
             /\ ScAdd(p[x], q[x]) \in Scalars /\ Cong(ScAdd(p[x], q[x]), p[x] + q[x])
             /\ ScSub(p[x], q[x]) \in Scalars /\ Cong(ScSub(p[x], q[x]), p[x] - q[x])
             /\ ScMul(a, p[x]) \in Scalars /\ Cong(ScMul(a, p[x]), a * p[x])
  BY CoordinateIsInt, ScalarOps
<1> QED BY <1>1 DEF AddPoints, SubKeys, ScalarMult, Points

\* Two points are the same if their coefficients are congruent.
LEMMA PointEq ==
    ASSUME NEW p \in Points, NEW q \in Points, \A x \in Bases : Cong(p[x], q[x])
    PROVE  p = q
<1>1. \A x \in Bases : p[x] = q[x]
  BY CoordinateIsInt, CongEq
<1>2. p \in [Bases -> Scalars] /\ q \in [Bases -> Scalars]
  BY DEF Points
<1> QED BY <1>1, <1>2

LEMMA AddKeys3Is ==
    ASSUME NEW a \in Int, NEW A0 \in Points, NEW b \in Int, NEW B0 \in Points, NEW d \in Int, NEW C0 \in Points
    PROVE  /\ AddKeys3(a, A0, b, B0, d, C0) \in Points
           /\ \A x \in Bases : Cong(AddKeys3(a, A0, b, B0, d, C0)[x], (a * A0[x] + b * B0[x]) + d * C0[x])
<1> DEFINE p == ScalarMult(a, A0)
           q == ScalarMult(b, B0)
           r == ScalarMult(d, C0)
           sum == SumPoints(<<p, q, r>>)
<1>1. p \in Points /\ q \in Points /\ r \in Points
  BY PointOps
<1>2. ASSUME NEW x \in Bases
      PROVE  sum[x] \in Scalars /\ Cong(sum[x], (a * A0[x] + b * B0[x]) + d * C0[x])
  <2> DEFINE f == [i \in DOMAIN <<p, q, r>> |-> <<p, q, r>>[i][x]]
  <2>1. /\ p[x] \in Int /\ q[x] \in Int /\ r[x] \in Int
        /\ A0[x] \in Int /\ B0[x] \in Int /\ C0[x] \in Int
    BY <1>1, CoordinateIsInt
  <2>2. Cong(p[x], a * A0[x]) /\ Cong(q[x], b * B0[x]) /\ Cong(r[x], d * C0[x])
    BY PointOps
  <2> HIDE DEF p, q, r
  <2>3. f \in [1 .. 3 -> Int] /\ f[1] = p[x] /\ f[2] = q[x] /\ f[3] = r[x]
    BY <2>1
  <2>4. sum[x] = SumFunction(f) % Q
    BY DEF SumPoints, ScSum
  <2> HIDE DEF f, sum
  <2>5. SumFunction(f) = (p[x] + q[x]) + r[x]
    BY <2>3, SumThree
  <2>6. sum[x] \in Scalars /\ Cong(sum[x], (p[x] + q[x]) + r[x])
    BY <2>1, <2>4, <2>5, Reduced
  <2>7. a * A0[x] \in Int /\ b * B0[x] \in Int /\ d * C0[x] \in Int
    BY <2>1
  <2>8. Cong(p[x] + q[x], a * A0[x] + b * B0[x])
    BY <2>1, <2>2, <2>7, CongOps
  <2>9. Cong((p[x] + q[x]) + r[x], (a * A0[x] + b * B0[x]) + d * C0[x])
    <3>1. p[x] + q[x] \in Int /\ a * A0[x] + b * B0[x] \in Int
      BY <2>1, <2>7
    <3> QED BY <3>1, <2>1, <2>2, <2>7, <2>8, CongOps
  <2> QED BY <2>6, <2>9, CongEquiv
<1>3. sum = [x \in Bases |-> sum[x]]
  BY DEF SumPoints
<1> HIDE DEF sum
<1>4. sum \in Points
  BY <1>2, <1>3 DEF Points
<1> QED BY <1>2, <1>4 DEF AddKeys3, sum

Combined(s, x, u, t, v) == (s + x * u) + t * v

LEMMA Distributes ==
    ASSUME NEW s \in Int, NEW x \in Int, NEW t \in Int, NEW u \in Int, NEW v \in Int, NEW e \in Int
    PROVE  /\ (s * e + x * (u * e)) + t * (v * e) = ((s + x * u) + t * v) * e
           /\ x * e - t * e = (x - t) * e
<1> DEFINE a == x * u
           b == t * v
<1>1. x * (u * e) = a * e /\ t * (v * e) = b * e /\ a \in Int /\ b \in Int
  OBVIOUS
<1> HIDE DEF a, b
<1>2. (s * e + a * e) + b * e = ((s + a) + b) * e /\ x * e - t * e = (x - t) * e
  BY <1>1
<1> QED BY <1>1, <1>2 DEF a, b

\* A combination of multiples of one point.
LEMMA OnePoint ==
    ASSUME NEW s \in Int, NEW x \in Int, NEW t \in Int, NEW u \in Int, NEW v \in Int, NEW w \in Int,
           NEW p \in Points, Cong(Combined(s, x, u, t, v), w)
    PROVE  AddKeys3(s, p, x, ScalarMult(u, p), t, ScalarMult(v, p)) = ScalarMult(w, p)
<1> DEFINE up == ScalarMult(u, p)
           vp == ScalarMult(v, p)
           sum == AddKeys3(s, p, x, up, t, vp)
           wp == ScalarMult(w, p)
<1>1. up \in Points /\ vp \in Points /\ wp \in Points
  BY PointOps
<1>2. \A b \in Bases : Cong(up[b], u * p[b]) /\ Cong(vp[b], v * p[b]) /\ Cong(wp[b], w * p[b])
  BY PointOps
<1> HIDE DEF up, vp, wp
<1>3. sum \in Points /\ \A b \in Bases : Cong(sum[b], (s * p[b] + x * up[b]) + t * vp[b])
  BY <1>1, AddKeys3Is
<1> HIDE DEF sum
<1>4. ASSUME NEW b \in Bases PROVE Cong(sum[b], wp[b])
  <2> DEFINE e == p[b]
             f == up[b]
             g == vp[b]
  <2>1. e \in Int /\ f \in Int /\ g \in Int /\ wp[b] \in Int /\ sum[b] \in Int
    BY <1>1, <1>3, CoordinateIsInt
  <2>2. /\ Cong(f, u * e) /\ Cong(g, v * e) /\ Cong(wp[b], w * e)
        /\ Cong(sum[b], (s * e + x * f) + t * g)
    BY <1>2, <1>3
  <2> HIDE DEF e, f, g
  <2>3. u * e \in Int /\ v * e \in Int
    BY <2>1
  <2>4. Cong(x * f, x * (u * e)) /\ Cong(t * g, t * (v * e)) /\ Cong(s * e, s * e)
    <3>1. Cong(x * f, x * (u * e))
      BY <2>1, <2>2, <2>3, CongTimes, Zenon
    <3>2. Cong(t * g, t * (v * e))
      BY <2>1, <2>2, <2>3, CongTimes, Zenon
    <3> QED BY <3>1, <3>2, CongEquiv, Zenon
  <2>5. /\ x * f \in Int /\ x * (u * e) \in Int /\ t * g \in Int /\ t * (v * e) \in Int /\ s * e \in Int
        /\ s * e + x * f \in Int /\ s * e + x * (u * e) \in Int
    BY <2>1, <2>3
  <2>6. Cong(s * e + x * f, s * e + x * (u * e))
    BY <2>4, <2>5, CongOps
  <2>7. Cong((s * e + x * f) + t * g, (s * e + x * (u * e)) + t * (v * e))
    BY <2>4, <2>5, <2>6, CongOps
  <2>8. (s * e + x * (u * e)) + t * (v * e) = ((s + x * u) + t * v) * e
    BY <2>1, Distributes
  <2>9. Cong(((s + x * u) + t * v) * e, w * e)
    <3>1. (s + x * u) + t * v \in Int /\ Cong((s + x * u) + t * v, w)
      BY DEF Combined
    <3> QED BY <2>1, <3>1, CongTimes
  <2>10. Cong(sum[b], w * e)
    BY <2>2, <2>7, <2>8, <2>9, CongEquiv
  <2> QED BY <2>2, <2>10, CongEquiv
<1>5. sum = wp
  BY <1>1, <1>3, <1>4, PointEq
<1> QED BY <1>5 DEF sum, up, vp, wp

LEMMA CommitmentIs ==
    ASSUME NEW amount \in Int, NEW mask \in Int
    PROVE  /\ CalcCommitment(amount, mask) \in Points
           /\ \A b \in Bases : Cong(CalcCommitment(amount, mask)[b], mask * G[b] + amount * H[b])
<1> DEFINE p == ScalarMult(mask, G)
           q == ScalarMult(amount, H)
<1>1. p \in Points /\ q \in Points /\ CalcCommitment(amount, mask) = AddPoints(p, q)
  BY PointOps, PointsAre DEF CalcCommitment, AddKeys2
<1>2. \A b \in Bases : Cong(p[b], mask * G[b]) /\ Cong(q[b], amount * H[b])
  BY PointOps, PointsAre
<1> HIDE DEF p, q
<1>3. AddPoints(p, q) \in Points /\ \A b \in Bases : Cong(AddPoints(p, q)[b], p[b] + q[b])
  BY <1>1, PointOps, 0 \in Int
<1>4. ASSUME NEW b \in Bases PROVE Cong(AddPoints(p, q)[b], mask * G[b] + amount * H[b])
  <2>1. p[b] \in Int /\ q[b] \in Int /\ G[b] \in Int /\ H[b] \in Int
    BY <1>1, CoordinateIsInt, PointsAre
  <2>2. mask * G[b] \in Int /\ amount * H[b] \in Int
    BY <2>1
  <2>3. Cong(p[b] + q[b], mask * G[b] + amount * H[b])
    BY <1>2, <2>1, <2>2, CongOps
  <2> QED BY <1>3, <2>3, CongEquiv
<1> QED BY <1>1, <1>3, <1>4

\* Two commitments to one amount differ in G only.
LEMMA CommitmentsDiffer ==
    ASSUME NEW amount \in Int, NEW m \in Int, NEW n \in Int
    PROVE  SubKeys(CalcCommitment(amount, m), CalcCommitment(amount, n)) = ScalarMult(ScSub(m, n), G)
<1> DEFINE p == CalcCommitment(amount, m)
           q == CalcCommitment(amount, n)
           d == SubKeys(p, q)
           r == ScalarMult(ScSub(m, n), G)
<1>0. ScSub(m, n) \in Int /\ Cong(ScSub(m, n), m - n)
  BY ScalarOps, QIs
<1>1. p \in Points /\ q \in Points
  BY CommitmentIs
<1>2. \A b \in Bases : Cong(p[b], m * G[b] + amount * H[b]) /\ Cong(q[b], n * G[b] + amount * H[b])
  BY CommitmentIs
<1>3. r \in Points /\ \A b \in Bases : Cong(r[b], ScSub(m, n) * G[b])
  BY <1>0, PointOps, PointsAre
<1> HIDE DEF p, q, r
<1>4. d \in Points /\ \A b \in Bases : Cong(d[b], p[b] - q[b])
  BY <1>1, PointOps, 0 \in Int
<1> HIDE DEF d
<1>5. ASSUME NEW b \in Bases PROVE Cong(d[b], r[b])
  <2> DEFINE e == G[b]
             h == amount * H[b]
             k == ScSub(m, n)
  <2>1. p[b] \in Int /\ q[b] \in Int /\ e \in Int /\ h \in Int
    BY <1>1, CoordinateIsInt, PointsAre
  <2>2. Cong(p[b], m * e + h) /\ Cong(q[b], n * e + h) /\ k \in Int /\ Cong(k, m - n)
    BY <1>0, <1>2
  <2>6. Cong(r[b], k * e) /\ Cong(d[b], p[b] - q[b])
    BY <1>3, <1>4
  <2> HIDE DEF e, h, k
  <2>3. m * e + h \in Int /\ n * e + h \in Int /\ (m * e + h) - (n * e + h) = (m - n) * e
    BY <2>1
  <2>7. m - n \in Int
    OBVIOUS
  <2>4. Cong(p[b] - q[b], (m - n) * e)
    BY <2>1, <2>2, <2>3, CongOps, ZenonT(30)
  <2>5. Cong(k * e, (m - n) * e)
    BY <2>1, <2>2, <2>7, CongTimes
  <2> QED BY <2>4, <2>5, <2>6, CongEquiv
<1>6. d = r
  BY <1>3, <1>4, <1>5, PointEq
<1> QED BY <1>6 DEF d, p, q, r

LEMMA InvEightIs == InvEight \in Scalars /\ Cong(8 * InvEight, 1)
<1> DEFINE e == 8 % Q
<1>1. e \in Scalars /\ e # 0 /\ Cong(e, 8)
  BY FieldAssumption, Reduced
<1> HIDE DEF e
<1>2. \E b \in Scalars : (e * b) % Q = 1
  BY <1>1, FieldAssumption
<1>3. Invert(e) \in Scalars /\ (e * Invert(e)) % Q = 1
  BY <1>1, <1>2 DEF Invert
<1>4. InvEight = Invert(e)
  BY DEF InvEight, e
<1>5. InvEight \in Int /\ e \in Int /\ 1 \in Scalars
  BY <1>1, <1>3, <1>4, QIs
<1>6. Cong(e * InvEight, 1)
  BY <1>3, <1>4, <1>5, ReducedIs, CongIs
<1>7. Cong(8 * InvEight, e * InvEight)
  <2>1. 8 \in Int /\ Cong(8, e)
    BY <1>1, CongEquiv
  <2> QED BY <2>1, <1>5, CongTimes, Zenon
<1> QED BY <1>3, <1>4, <1>6, <1>7, CongEquiv

\* A point is eight times its eighth.
LEMMA EightEighths ==
    ASSUME NEW p \in Points
    PROVE  ScalarMult(InvEight, p) \in Points /\ ScalarMult(8, ScalarMult(InvEight, p)) = p
<1> DEFINE q == ScalarMult(InvEight, p)
           r == ScalarMult(8, q)
<1>0. InvEight \in Int
  BY InvEightIs, QIs
<1>1. q \in Points /\ \A b \in Bases : Cong(q[b], InvEight * p[b])
  BY <1>0, PointOps
<1> HIDE DEF q
<1>2. r \in Points /\ \A b \in Bases : Cong(r[b], 8 * q[b])
  BY <1>1, PointOps, 8 \in Int
<1> HIDE DEF r
<1>3. ASSUME NEW b \in Bases PROVE Cong(r[b], p[b])
  <2> DEFINE e == p[b]
             i == InvEight
  <2>1. q[b] \in Int /\ e \in Int /\ i \in Int
    BY <1>0, <1>1, CoordinateIsInt
  <2>2. Cong(q[b], i * e) /\ Cong(8 * i, 1)
    BY <1>1, InvEightIs
  <2> HIDE DEF e, i
  <2>3. i * e \in Int /\ 8 * i \in Int /\ 8 * (i * e) = (8 * i) * e /\ 1 * e = e
    BY <2>1
  <2>0. 8 \in Int /\ 1 \in Int
    OBVIOUS
  <2>4. Cong(8 * q[b], 8 * (i * e))
    BY <2>0, <2>1, <2>2, <2>3, CongTimes, Zenon
  <2>5. Cong((8 * i) * e, 1 * e)
    BY <2>0, <2>1, <2>2, <2>3, CongTimes, Zenon
  <2>6. Cong(8 * q[b], e)
    BY <2>3, <2>4, <2>5, CongEquiv
  <2> QED BY <1>2, <2>6, CongEquiv DEF e
<1>4. r = p
  BY <1>2, <1>3, PointEq
<1> QED BY <1>1, <1>4 DEF q, r

-----------------------------------------------------------------------------
(* Hashes that were computed stay.                                              *)

Known(f, query, answer) == query \in DOMAIN f /\ f[query] = answer
HashesOK(f) == \A query \in DOMAIN f : f[query] \in Scalars \ {0}
Grows(f, g) == \A query \in DOMAIN f : Known(g, query, f[query])

LEMMA StaysKnown ==
    ASSUME NEW f, NEW g, Grows(f, g), NEW query, NEW answer, Known(f, query, answer)
    PROVE  Known(g, query, answer)
BY DEF Grows, Known

LEMMA GrowsOn ==
    /\ \A f : Grows(f, f)
    /\ \A f, g, h : Grows(f, g) /\ Grows(g, h) => Grows(f, h)
BY DEF Grows, Known

LEMMA HashGrows ==
    ASSUME NEW f, HashesOK(f), sample \in SampleType,
           NEW query, query.domain \in Domains, NEW answer \in Answers(f, query)
    PROVE  /\ answer \in Scalars \ {0}
           /\ HashesOK(Answered(f, query, answer))
           /\ Known(Answered(f, query, answer), query, answer)
           /\ Grows(f, Answered(f, query, answer))
<1>1. answer \in Scalars \ {0}
  <2>1. sample.challenges[query.domain] \subseteq Scalars \ {0}
    BY DEF SampleType
  <2> QED BY <2>1 DEF Answers, HashesOK
<1>2. query \in DOMAIN f => answer = f[query]
  BY DEF Answers
<1> DEFINE g == Answered(f, query, answer)
<1>3. /\ DOMAIN g = DOMAIN f \cup {query}
      /\ g[query] = answer
      /\ \A r \in DOMAIN f : g[r] = f[r]
  BY <1>2 DEF Answered
<1> HIDE DEF g
<1>4. HashesOK(g) /\ Known(g, query, answer) /\ Grows(f, g)
  BY <1>1, <1>3 DEF HashesOK, Known, Grows
<1> QED BY <1>1, <1>4 DEF g

LEMMA DomainOf ==
    \A domain \in Domains : \A scalars, points : Query(domain, scalars, points).domain \in Domains
BY DEF Query

-----------------------------------------------------------------------------
(* Functions over 1 .. n and their sums.                                        *)

LEMMA LenOf ==
    ASSUME NEW n \in Nat, NEW f, f = [k \in 1 .. n |-> f[k]]
    PROVE  Len(f) = n
<1> DEFINE T == {f[k] : k \in 1 .. n}
<1>1. f \in [1 .. n -> T]
  OBVIOUS
<1> HIDE DEF T
<1>2. f \in Seq(T)
  BY <1>1, SeqDef
<1>3. Len(f) \in Nat /\ DOMAIN f = 1 .. Len(f)
  BY <1>2, LenProperties
<1>4. 1 .. n = 1 .. Len(f)
  BY <1>1, <1>3
<1> QED BY <1>3, <1>4

LEMMA RangeFinite == \A n \in Nat : IsFiniteSet(1 .. n)
<1>1. \A n \in Nat : 1 \in Int /\ n \in Int
  OBVIOUS
<1> QED BY <1>1, FS_Interval, Zenon

\* The sum of a list of numbers is a number.
LEMMA SumOfSeq ==
    ASSUME NEW n \in Nat, NEW f \in [1 .. n -> Int]
    PROVE  SumFunction(f) \in Int /\ ScSum(f) \in Scalars /\ Cong(ScSum(f), SumFunction(f))
<1>1. SumFunction(f) \in Int
  <2> DEFINE I == 1 .. n
  <2>1. f \in [I -> Int] /\ IsFiniteSet(I)
    BY RangeFinite
  <2> HIDE DEF I
  <2> QED BY <2>1, SumIsInt
<1> QED BY <1>1, Reduced DEF ScSum

-----------------------------------------------------------------------------
(* The range proof: powers of two and the size of the padding.                  *)

LEMMA TwoToIs ==
    /\ TwoTo[0] = 1
    /\ \A k \in Nat : TwoTo[k] \in Nat \ {0} /\ TwoTo[k + 1] = 2 * TwoTo[k]
<1> DEFINE Step(f, k) == IF k = 0 THEN 1 ELSE 2 * f[k - 1]
           step == [p \in Nat \X Nat |-> 2 * p[2]]
<1>1. PICK f : RunsOn(f, Nat, 1, step)
  <2>1. step \in [Nat \X Nat -> Nat] /\ 1 \in Nat
    OBVIOUS
  <2> HIDE DEF step
  <2> QED BY <2>1, Recursion, Zenon
<1>2. /\ f \in [Nat -> Nat] /\ f[0] = 1
      /\ \A i \in Nat : f[i + 1] = 2 * f[i]
  BY <1>1 DEF RunsOn
<1>3. f = [k \in Nat |-> Step(f, k)]
  <2>1. ASSUME NEW k \in Nat, k # 0 PROVE f[k] = 2 * f[k - 1]
    <3>1. k - 1 \in Nat /\ (k - 1) + 1 = k
      BY <2>1
    <3> QED BY <1>2, <3>1
  <2>2. \A k \in Nat : f[k] = Step(f, k)
    BY <1>2, <2>1
  <2> HIDE DEF Step
  <2> QED BY <1>2, <2>2
<1>4. TwoTo = [k \in Nat |-> Step(TwoTo, k)]
  <2>1. \E s : s = [k \in Nat |-> Step(s, k)]
    <3> HIDE DEF Step
    <3> QED BY <1>3
  <2> QED BY <2>1 DEF TwoTo
<1>5. TwoTo[0] = 1 /\ \A k \in Nat : TwoTo[k + 1] = 2 * TwoTo[k]
  <2>1. \A k \in Nat : TwoTo[k] = Step(TwoTo, k)
    BY <1>4, Zenon
  <2> QED BY <2>1
<1>6. \A k \in Nat : TwoTo[k] \in Nat \ {0}
  <2> DEFINE T == {k \in Nat : TwoTo[k] \in Nat \ {0}}
  <2>1. 0 \in T /\ \A k \in T : k + 1 \in T
    BY <1>5
  <2>2. T = Nat
    <3> HIDE DEF T
    <3>1. T \in SUBSET Nat
      BY DEF T
    <3> QED BY <2>1, <3>1, Induct
  <2> QED BY <2>2
<1> QED BY <1>5, <1>6

LEMMA TwoToAdd ==
    \A d \in Nat : \A k \in Nat : TwoTo[k + d] = TwoTo[k] * TwoTo[d] /\ TwoTo[k + d] >= TwoTo[k]
<1> DEFINE U == {d \in Nat : \A k \in Nat : TwoTo[k + d] = TwoTo[k] * TwoTo[d] /\ TwoTo[k + d] >= TwoTo[k]}
<1>1. 0 \in U
  BY TwoToIs
<1>2. ASSUME NEW d \in U PROVE d + 1 \in U
  <2>1. d \in Nat
    BY <1>2
  <2> SUFFICES ASSUME NEW k \in Nat
               PROVE  TwoTo[k + (d + 1)] = TwoTo[k] * TwoTo[d + 1] /\ TwoTo[k + (d + 1)] >= TwoTo[k]
    BY <2>1
  <2>2. k + d \in Nat /\ k + (d + 1) = (k + d) + 1
    BY <2>1
  <2>3. TwoTo[k + d] = TwoTo[k] * TwoTo[d] /\ TwoTo[k + d] >= TwoTo[k]
    BY <1>2
  <2>4. TwoTo[k + (d + 1)] = 2 * TwoTo[k + d] /\ TwoTo[d + 1] = 2 * TwoTo[d]
    BY <2>1, <2>2, TwoToIs
  <2> DEFINE a == TwoTo[k]
             b == TwoTo[d]
             c0 == TwoTo[k + d]
  <2>5. a \in Nat /\ b \in Nat /\ c0 \in Nat
    BY <2>1, <2>2, TwoToIs
  <2> HIDE DEF a, b, c0
  <2>6. c0 = a * b /\ c0 >= a => 2 * c0 = a * (2 * b) /\ 2 * c0 >= a
    BY <2>5
  <2> QED BY <2>3, <2>4, <2>6 DEF a, b, c0
<1>3. U = Nat
  <2> HIDE DEF U
  <2>1. U \in SUBSET Nat
    BY DEF U
  <2> QED BY <1>1, <1>2, <2>1, Induct
<1> QED BY <1>3

LEMMA TwoToGrows == \A k \in Nat : TwoTo[k] > k
<1> DEFINE T == {k \in Nat : TwoTo[k] > k}
<1>1. 0 \in T /\ \A k \in T : k + 1 \in T
  BY TwoToIs
<1>2. T = Nat
  <2> HIDE DEF T
  <2>1. T \in SUBSET Nat
    BY DEF T
  <2> QED BY <1>1, <2>1, Induct
<1> QED BY <1>2

\* The padding is a power of two; it fits exactly if what is padded does.
LEMMA PaddedIs ==
    ASSUME NEW n \in Nat
    PROVE  /\ \E k \in Nat : PaddedM(n) = TwoTo[k]
           /\ ~TooLarge(n) => n <= PaddedM(n)
           /\ TooLarge(n) <=> n > MaxM
<1> DEFINE Ks == 0 .. MaxM
           Stop(k) == Stops(TwoTo[k], n)
           Least(k) == Stop(k) /\ \A j \in Ks : TwoTo[j] < TwoTo[k] => ~Stop(j)
           T == {b \in Nat : (\E k \in Ks : Stop(k) /\ TwoTo[k] <= b) => \E k \in Ks : Least(k)}
<1>1. MaxM \in Nat /\ \A k \in Ks : k \in Nat /\ TwoTo[k] \in Nat
  BY SizesAssumption, TwoToIs
<1>2. 0 \in T
  BY TwoToIs, <1>1
<1>3. ASSUME NEW b \in T PROVE b + 1 \in T
  <2>1. b \in Nat
    BY <1>3
  <2> SUFFICES ASSUME NEW k \in Ks, Stop(k), TwoTo[k] <= b + 1 PROVE \E i \in Ks : Least(i)
    BY <2>1
  <2>2. CASE \E j \in Ks : TwoTo[j] < TwoTo[k] /\ Stop(j)
    <3>1. PICK j \in Ks : TwoTo[j] < TwoTo[k] /\ Stop(j)
      BY <2>2
    <3>2. TwoTo[j] <= b
      BY <1>1, <2>1, <3>1
    <3> QED BY <1>3, <3>1, <3>2
  <2>3. CASE ~\E j \in Ks : TwoTo[j] < TwoTo[k] /\ Stop(j)
    BY <2>3
  <2> QED BY <2>2, <2>3
<1>4. T = Nat
  <2> HIDE DEF T
  <2>1. T \in SUBSET Nat
    BY DEF T
  <2> QED BY <1>2, <1>3, <2>1, Induct
<1>5. MaxM \in Ks /\ TwoTo[MaxM] > MaxM
  BY <1>1, TwoToGrows
<1>6. Stop(MaxM) /\ TwoTo[MaxM] <= TwoTo[MaxM]
  BY <1>1, <1>5 DEF Stops
<1>7. \E k \in Ks : Least(k)
  <2> HIDE DEF Stop, Least
  <2> QED BY <1>1, <1>4, <1>5, <1>6
<1> DEFINE Powers2 == {TwoTo[k] : k \in Ks}
           Is(m) == Stops(m, n) /\ \A k \in Ks : TwoTo[k] < m => ~Stops(TwoTo[k], n)
<1>8. \E m \in Powers2 : Is(m)
  BY <1>7
<1>9. PaddedM(n) = CHOOSE m \in Powers2 : Is(m)
  BY DEF PaddedM
<1>10. PaddedM(n) \in Powers2 /\ Is(PaddedM(n))
  <2> HIDE DEF Powers2, Is
  <2> QED BY <1>8, <1>9
<1>11. PICK k \in Ks : PaddedM(n) = TwoTo[k]
  BY <1>10
<1>12. PICK top \in Ks : MaxM = TwoTo[top]
  BY SizesAssumption
<1>13. TooLarge(n) => n > MaxM
  <2> SUFFICES ASSUME TooLarge(n) PROVE n > MaxM
    OBVIOUS
  <2>1. TwoTo[top] < PaddedM(n)
    BY <1>12 DEF TooLarge
  <2>2. ~Stops(TwoTo[top], n)
    BY <1>10, <2>1
  <2> QED BY <1>1, <1>12, <2>2 DEF Stops
<1>14. ~TooLarge(n) => n <= PaddedM(n) /\ n <= MaxM
  <2> SUFFICES ASSUME ~TooLarge(n) PROVE n <= PaddedM(n) /\ n <= MaxM
    OBVIOUS
  <2>1. PaddedM(n) \in Nat /\ ~(PaddedM(n) > MaxM)
    BY <1>1, <1>11 DEF TooLarge
  <2>2. Stops(PaddedM(n), n)
    BY <1>10
  <2> QED BY <1>1, <2>1, <2>2 DEF Stops
<1>15. k \in Nat
  BY <1>1
<1>16. TooLarge(n) <=> n > MaxM
  BY <1>1, <1>13, <1>14
<1> QED BY <1>11, <1>14, <1>15, <1>16
-----------------------------------------------------------------------------
(* Powers and inverses.                                                         *)

PowerStep(x) == [p \in Nat \X Scalars |-> ScMul(p[2], x)]
Pw(x) == CHOOSE f : RunsOn(f, Scalars, 1, PowerStep(x))

LEMMA PwIs ==
    ASSUME NEW x \in Int
    PROVE  /\ Pw(x) \in [Nat -> Scalars] /\ Pw(x)[0] = 1
           /\ \A i \in Nat : Pw(x)[i] \in Int /\ Pw(x)[i + 1] = ScMul(Pw(x)[i], x)
<1>1. PowerStep(x) \in [Nat \X Scalars -> Scalars] /\ 1 \in Scalars
  <2>1. ASSUME NEW p \in Nat \X Scalars PROVE ScMul(p[2], x) \in Scalars
    <3>1. p[2] \in Int
      BY QIs
    <3> QED BY <3>1, ScalarOps
  <2> QED BY <2>1, QIs DEF PowerStep
<1>2. \E f : RunsOn(f, Scalars, 1, PowerStep(x))
  BY <1>1, Recursion, Zenon
<1>3. RunsOn(Pw(x), Scalars, 1, PowerStep(x))
  BY <1>2, Zenon DEF Pw
<1> DEFINE g == Pw(x)
<1> HIDE DEF g
<1>4. g \in [Nat -> Scalars] /\ g[0] = 1 /\ \A i \in Nat : g[i + 1] = PowerStep(x)[<<i, g[i]>>]
  BY <1>3, Zenon DEF RunsOn, g
<1>5. ASSUME NEW i \in Nat PROVE g[i] \in Int /\ g[i + 1] = ScMul(g[i], x)
  <2>1. g[i] \in Scalars /\ g[i] \in Int
    BY <1>4, QIs
  <2>2. PowerStep(x)[<<i, g[i]>>] = ScMul(g[i], x)
    BY <2>1 DEF PowerStep
  <2> QED BY <1>4, <2>1, <2>2
<1> QED BY <1>4, <1>5, Zenon DEF g

LEMMA PowersIs ==
    ASSUME NEW x \in Int, NEW n \in Nat
    PROVE  Powers(x, n) = [i \in 1 .. n |-> Pw(x)[i - 1]]
<1> DEFINE Step(p, i) == IF i = 1 THEN 1 ELSE ScMul(p[i - 1], x)
           e == [i \in 1 .. n |-> Pw(x)[i - 1]]
           f == Powers(x, n)
<1>1. e = [i \in 1 .. n |-> Step(e, i)]
  <2>1. ASSUME NEW i \in 1 .. n PROVE e[i] = Step(e, i)
    <3>1. CASE i = 1
      <4>1. e[i] = Pw(x)[0]
        BY <3>1
      <4> QED BY <3>1, <4>1, PwIs
    <3>2. CASE i # 1
      <4>1. i - 2 \in Nat /\ (i - 2) + 1 = i - 1 /\ (i - 1) - 1 = i - 2 /\ i - 1 \in 1 .. n
        BY <3>2
      <4>2. Pw(x)[(i - 2) + 1] = ScMul(Pw(x)[i - 2], x)
        BY <4>1, PwIs
      <4>3. e[i] = Pw(x)[i - 1] /\ e[i - 1] = Pw(x)[i - 2]
        BY <4>1
      <4> HIDE DEF e
      <4> QED BY <3>2, <4>1, <4>2, <4>3
    <3> QED BY <3>1, <3>2
  <2> HIDE DEF Step
  <2> QED BY <2>1
<1>2. f = [i \in 1 .. n |-> Step(f, i)]
  <2>1. \E p : p = [i \in 1 .. n |-> Step(p, i)]
    <3> HIDE DEF Step, e
    <3> QED BY <1>1
  <2> QED BY <2>1 DEF Powers
<1>3. \A k \in Nat : k + 1 <= n => f[k + 1] = e[k + 1]
  <2> DEFINE T == {k \in Nat : k + 1 <= n => f[k + 1] = e[k + 1]}
  <2> HIDE DEF f, e
  <2>0. \A i \in 1 .. n : f[i] = Step(f, i) /\ e[i] = Step(e, i)
    BY <1>1, <1>2, Zenon
  <2>1. 0 \in T
    BY <2>0
  <2>2. ASSUME NEW k \in T PROVE k + 1 \in T
    <3> SUFFICES ASSUME (k + 1) + 1 <= n PROVE f[(k + 1) + 1] = e[(k + 1) + 1]
      OBVIOUS
    <3>1. k + 1 \in 1 .. n /\ (k + 1) + 1 \in 1 .. n /\ (k + 1) + 1 # 1 /\ ((k + 1) + 1) - 1 = k + 1
      OBVIOUS
    <3>2. f[k + 1] = e[k + 1]
      BY <3>1
    <3> QED BY <2>0, <3>1, <3>2
  <2>3. T = Nat
    <3> HIDE DEF T
    <3>1. T \in SUBSET Nat
      BY DEF T
    <3> QED BY <2>1, <2>2, <3>1, Induct
  <2> QED BY <2>3
<1>4. ASSUME NEW i \in 1 .. n PROVE f[i] = e[i]
  <2>1. i - 1 \in Nat /\ (i - 1) + 1 = i
    OBVIOUS
  <2> HIDE DEF f, e
  <2> QED BY <1>3, <2>1
<1>5. f = [i \in 1 .. n |-> f[i]] /\ e = [i \in 1 .. n |-> e[i]]
  <2>1. f = [i \in 1 .. n |-> f[i]]
    <3> HIDE DEF f, Step
    <3> QED BY <1>2
  <2> QED BY <2>1
<1> HIDE DEF f, e
<1>6. f = e
  BY <1>4, <1>5
<1> QED BY <1>6 DEF f, e

LEMMA PwNext ==
    ASSUME NEW x \in Int, NEW i \in Nat
    PROVE  Cong(Pw(x)[i + 1], Pw(x)[i] * x)
<1>1. Pw(x)[i] \in Int /\ Pw(x)[i + 1] = ScMul(Pw(x)[i], x)
  BY PwIs
<1> QED BY <1>1, ScalarOps

LEMMA PwAdd ==
    ASSUME NEW x \in Int, NEW i \in Nat
    PROVE  \A j \in Nat : Cong(Pw(x)[i + j], Pw(x)[i] * Pw(x)[j])
<1> DEFINE g == Pw(x)
           T == {j \in Nat : Cong(g[i + j], g[i] * g[j])}
<1>0. g[0] = 1 /\ \A k \in Nat : g[k] \in Int /\ Cong(g[k + 1], g[k] * x)
  BY PwIs, PwNext
<1> HIDE DEF g
<1>1. 0 \in T
  <2>1. g[i + 0] = g[i] * g[0]
    BY <1>0
  <2> QED BY <2>1, CongEquiv
<1>2. ASSUME NEW j \in T PROVE j + 1 \in T
  <2>1. j \in Nat /\ j + 1 \in Nat /\ i + j \in Nat /\ i + (j + 1) = (i + j) + 1
    BY <1>2
  <2>2. Cong(g[i + j], g[i] * g[j])
    BY <1>2
  <2>3. Cong(g[(i + j) + 1], g[i + j] * x) /\ Cong(g[j + 1], g[j] * x)
    BY <1>0, <2>1
  <2> DEFINE a == g[i + j]
             b == g[i]
             d == g[j]
             e == g[j + 1]
  <2>4. a \in Int /\ b \in Int /\ d \in Int /\ e \in Int
    BY <1>0, <2>1
  <2> HIDE DEF a, b, d, e
  <2>5. b * d \in Int /\ d * x \in Int /\ (b * d) * x = b * (d * x)
    BY <2>4
  <2>6. Cong(a * x, (b * d) * x)
    <3>1. Cong(a, b * d)
      BY <2>2 DEF a, b, d
    <3> QED BY <2>4, <2>5, <3>1, CongTimes
  <2>7. Cong(b * e, b * (d * x))
    <3>1. Cong(e, d * x)
      BY <2>3 DEF d, e
    <3> QED BY <2>4, <2>5, <3>1, CongTimes
  <2>8. Cong(g[(i + j) + 1], a * x)
    BY <2>3 DEF a
  <2>9. Cong(g[(i + j) + 1], b * e)
    BY <2>5, <2>6, <2>7, <2>8, CongEquiv
  <2> QED BY <2>1, <2>9 DEF b, e
<1>3. T = Nat
  <2> HIDE DEF T
  <2>1. T \in SUBSET Nat
    BY DEF T
  <2> QED BY <1>1, <1>2, <2>1, Induct
<1> QED BY <1>3 DEF g

LEMMA InvertIs ==
    ASSUME NEW a \in Scalars, a # 0
    PROVE  /\ Invert(a) \in Scalars /\ Invert(a) # 0 /\ Invert(a) \in Int /\ a \in Int
           /\ Cong(a * Invert(a), 1)
<1>1. \E b \in Scalars : (a * b) % Q = 1
  BY FieldAssumption
<1>2. Invert(a) \in Scalars /\ (a * Invert(a)) % Q = 1
  BY <1>1 DEF Invert
<1> DEFINE b == Invert(a)
<1> HIDE DEF b
<1>3. b \in Scalars /\ (a * b) % Q = 1
  BY <1>2 DEF b
<1>4. a \in Int /\ b \in Int /\ 1 % Q = 1 /\ 0 % Q = 0 /\ a * 0 = 0
  BY <1>3, QIs, ReducedIs
<1>5. b # 0
  BY <1>3, <1>4
<1> QED BY <1>3, <1>4, <1>5, CongIs DEF b

\* What is cancelled.
LEMMA Cancels ==
    ASSUME NEW a \in Int, NEW b \in Int, NEW d \in Int, Cong(a * b, 1), Cong(a * d, 1)
    PROVE  Cong(b, d)
<1>1. a * b \in Int /\ a * d \in Int /\ (a * b) * d = (a * d) * b /\ 1 * d = d /\ 1 * b = b /\ 1 \in Int
  OBVIOUS
<1> DEFINE u == a * b
           v == a * d
<1>2. u \in Int /\ v \in Int /\ Cong(u, 1) /\ Cong(v, 1) /\ 1 \in Int
  BY <1>1
<1> HIDE DEF u, v
<1>3. Cong(u * d, 1 * d) /\ Cong(v * b, 1 * b)
  BY <1>2, CongTimes
<1>4. u * d = v * b
  BY <1>1 DEF u, v
<1> QED BY <1>1, <1>3, <1>4, CongEquiv

LEMMA NotZero ==
    ASSUME NEW a \in Scalars, NEW b \in Scalars, a # 0, b # 0
    PROVE  ScMul(a, b) \in Scalars /\ ScMul(a, b) # 0
<1>1. /\ Invert(a) \in Int /\ a \in Int /\ Cong(a * Invert(a), 1) /\ b \in Int
      /\ ScMul(a, b) \in Scalars /\ Cong(ScMul(a, b), a * b)
  BY InvertIs, ScalarOps, QIs
<1> DEFINE v == Invert(a)
           p == ScMul(a, b)
<1> HIDE DEF v, p
<1>2. /\ v \in Int /\ a \in Int /\ Cong(a * v, 1) /\ b \in Int
      /\ p \in Scalars /\ p \in Int /\ Cong(p, a * b)
  BY <1>1, QIs DEF v, p
<1>3. ASSUME p = 0 PROVE FALSE
  <2>1. Cong(p * v, (a * b) * v) /\ Cong((a * v) * b, 1 * b)
    <3>1. a * b \in Int /\ a * v \in Int /\ 1 \in Int
      BY <1>2
    <3> QED BY <1>2, <3>1, CongTimes
  <2>2. p * v = 0 /\ (a * b) * v = (a * v) * b /\ 1 * b = b
    BY <1>2, <1>3
  <2>3. Cong(0, b)
    BY <2>1, <2>2, CongEquiv
  <2> QED BY <2>3, CongEq, QIs
<1> QED BY <1>2, <1>3 DEF p

LEMMA PwNotZero ==
    ASSUME NEW x \in Scalars, x # 0
    PROVE  \A i \in Nat : Pw(x)[i] \in Scalars /\ Pw(x)[i] # 0
<1> DEFINE g == Pw(x)
           T == {i \in Nat : g[i] \in Scalars /\ g[i] # 0}
<1>0. g[0] = 1 /\ \A k \in Nat : g[k + 1] = ScMul(g[k], x)
  BY PwIs, QIs
<1> HIDE DEF g
<1>1. 0 \in T
  BY <1>0, QIs
<1>2. ASSUME NEW i \in T PROVE i + 1 \in T
  BY <1>0, NotZero
<1>3. T = Nat
  <2> HIDE DEF T
  <2>1. T \in SUBSET Nat
    BY DEF T
  <2> QED BY <1>1, <1>2, <2>1, Induct
<1> QED BY <1>3 DEF g

\* The powers of an inverse are the inverses of the powers.
LEMMA PwInverse ==
    ASSUME NEW x \in Scalars, x # 0
    PROVE  \A i \in Nat : /\ Cong(Pw(x)[i] * Pw(Invert(x))[i], 1)
                          /\ Cong(Invert(Pw(x)[i]), Pw(Invert(x))[i])
<1> DEFINE v == Invert(x)
           g == Pw(x)
           h == Pw(v)
           T == {i \in Nat : Cong(g[i] * h[i], 1)}
<1>0. x \in Int /\ v \in Int /\ Cong(x * v, 1)
  BY InvertIs
<1> HIDE DEF v
<1>1. /\ g[0] = 1 /\ h[0] = 1
      /\ \A k \in Nat : g[k] \in Int /\ h[k] \in Int /\ Cong(g[k + 1], g[k] * x) /\ Cong(h[k + 1], h[k] * v)
  BY <1>0, PwIs, PwNext
<1> HIDE DEF g, h
<1>2. 0 \in T
  <2>1. g[0] * h[0] = 1
    BY <1>1
  <2> QED BY <2>1, CongEquiv
<1>3. ASSUME NEW i \in T PROVE i + 1 \in T
  <2> DEFINE a == g[i]
             b == h[i]
             d == g[i + 1]
             e == h[i + 1]
  <2>1. i \in Nat /\ i + 1 \in Nat /\ Cong(a * b, 1)
    BY <1>3
  <2>2. a \in Int /\ b \in Int /\ d \in Int /\ e \in Int /\ Cong(d, a * x) /\ Cong(e, b * v)
    BY <1>1, <2>1
  <2> HIDE DEF a, b, d, e
  <2>3. Cong(d * e, (a * x) * (b * v))
    <3>1. a * x \in Int /\ b * v \in Int
      BY <1>0, <2>2
    <3> QED BY <2>2, <3>1, CongOps
  <2>4. a * b \in Int /\ x * v \in Int /\ 1 \in Int /\ 1 * 1 = 1
    BY <1>0, <2>2
  <2>5. Cong((a * b) * (x * v), 1 * 1)
    BY <1>0, <2>1, <2>4, CongOps
  <2>6. (a * x) * (b * v) = (a * b) * (x * v)
    BY <1>0, <2>2
  <2>7. Cong(d * e, 1)
    BY <2>3, <2>4, <2>5, <2>6, CongEquiv
  <2> QED BY <2>1, <2>7 DEF d, e
<1>4. T = Nat
  <2> HIDE DEF T
  <2>1. T \in SUBSET Nat
    BY DEF T
  <2> QED BY <1>2, <1>3, <2>1, Induct
<1>5. ASSUME NEW i \in Nat PROVE Cong(g[i] * h[i], 1) /\ Cong(Invert(g[i]), h[i])
  <2>1. Cong(g[i] * h[i], 1)
    BY <1>4
  <2>2. g[i] \in Scalars /\ g[i] # 0
    BY PwNotZero DEF g
  <2>3. Cong(g[i] * Invert(g[i]), 1) /\ Invert(g[i]) \in Int
    BY <2>2, InvertIs
  <2>4. g[i] \in Int /\ h[i] \in Int
    BY <1>1
  <2> QED BY <2>1, <2>3, <2>4, Cancels
<1> QED BY <1>5, Zenon DEF g, h, v

-----------------------------------------------------------------------------
(* Sums mod Q, of scalars and of points.                                        *)

LEMMA SumCong ==
    ASSUME NEW n \in Nat, NEW f \in [1 .. n -> Int], NEW g \in [1 .. n -> Int],
           \A i \in 1 .. n : Cong(f[i], g[i])
    PROVE  Cong(SumFunction(f), SumFunction(g)) /\ SumFunction(f) \in Int /\ SumFunction(g) \in Int
<1>1. \A i \in 1 .. n : 1 * f[i] + 0 * g[i] = f[i]
  OBVIOUS
<1>2. \A i \in 1 .. n : Same(1 * f[i] + 0 * g[i], g[i], Q)
  BY <1>1 DEF Cong
<1>3. Same(1 * SumFunction(f) + 0 * SumFunction(g), SumFunction(g), Q)
  BY <1>2, QIs, SumLinear, 1 \in Int, 0 \in Int
<1>4. SumFunction(f) \in Int /\ SumFunction(g) \in Int
  BY SumIs
<1>5. 1 * SumFunction(f) + 0 * SumFunction(g) = SumFunction(f)
  BY <1>4
<1> QED BY <1>3, <1>4, <1>5 DEF Cong

Sums(f, g, h, a, b) ==
    /\ Cong(SumFunction(h), a * SumFunction(f) + b * SumFunction(g))
    /\ SumFunction(f) \in Int /\ SumFunction(g) \in Int /\ SumFunction(h) \in Int

LEMMA SumBoth ==
    ASSUME NEW n \in Nat, NEW f \in [1 .. n -> Int], NEW g \in [1 .. n -> Int], NEW h \in [1 .. n -> Int],
           NEW a \in Int, NEW b \in Int,
           \A i \in 1 .. n : Cong(h[i], a * f[i] + b * g[i])
    PROVE  Sums(f, g, h, a, b)
<1>1. \A i \in 1 .. n : Same(a * f[i] + b * g[i], h[i], Q)
  BY DEF Cong, Same
<1>2. Same(a * SumFunction(f) + b * SumFunction(g), SumFunction(h), Q)
  BY <1>1, QIs, SumLinear
<1>3. SumFunction(f) \in Int /\ SumFunction(g) \in Int /\ SumFunction(h) \in Int
  BY SumIs
<1> QED BY <1>2, <1>3 DEF Cong, Same, Sums

LEMMA SumScaled ==
    ASSUME NEW n \in Nat, NEW f \in [1 .. n -> Int], NEW h \in [1 .. n -> Int], NEW a \in Int,
           \A i \in 1 .. n : Cong(h[i], a * f[i])
    PROVE  Cong(SumFunction(h), a * SumFunction(f)) /\ SumFunction(f) \in Int /\ SumFunction(h) \in Int
<1>1. \A i \in 1 .. n : a * f[i] + 0 * f[i] = a * f[i]
  OBVIOUS
<1>2. \A i \in 1 .. n : Cong(h[i], a * f[i] + 0 * f[i])
  BY <1>1
<1>3. /\ Cong(SumFunction(h), a * SumFunction(f) + 0 * SumFunction(f))
      /\ SumFunction(f) \in Int /\ SumFunction(h) \in Int
  BY <1>2, SumBoth, 0 \in Int DEF Sums
<1>4. a * SumFunction(f) + 0 * SumFunction(f) = a * SumFunction(f)
  BY <1>3
<1> QED BY <1>3, <1>4

\* One coefficient of a sum of points.
At(ps, n, x) == [i \in 1 .. n |-> ps[i][x]]

LEMMA SumPointsIs ==
    ASSUME NEW n \in Nat, NEW ps \in [1 .. n -> Points]
    PROVE  /\ SumPoints(ps) \in Points
           /\ \A x \in Bases : /\ At(ps, n, x) \in [1 .. n -> Int]
                               /\ SumFunction(At(ps, n, x)) \in Int
                               /\ SumPoints(ps)[x] = SumFunction(At(ps, n, x)) % Q
                               /\ Cong(SumPoints(ps)[x], SumFunction(At(ps, n, x)))
<1>1. ASSUME NEW x \in Bases
      PROVE  /\ At(ps, n, x) \in [1 .. n -> Int] /\ SumFunction(At(ps, n, x)) \in Int
             /\ ScSum([i \in DOMAIN ps |-> ps[i][x]]) = SumFunction(At(ps, n, x)) % Q
             /\ ScSum([i \in DOMAIN ps |-> ps[i][x]]) \in Scalars
             /\ Cong(ScSum([i \in DOMAIN ps |-> ps[i][x]]), SumFunction(At(ps, n, x)))
  <2>1. \A i \in 1 .. n : ps[i][x] \in Int
    BY CoordinateIsInt
  <2>2. At(ps, n, x) \in [1 .. n -> Int]
    BY <2>1 DEF At
  <2>3. [i \in DOMAIN ps |-> ps[i][x]] = At(ps, n, x)
    BY DEF At
  <2> QED BY <2>2, <2>3, SumOfSeq DEF ScSum
<1> QED BY <1>1 DEF SumPoints, Points

\* A multiple of each of the bases of one kind.
Spread(kind, cs, n) == SumPoints([i \in 1 .. n |-> ScalarMult(cs[i], PointOf(<<kind, i>>))])

LEMMA SpreadIs ==
    ASSUME NEW n \in 0 .. Vectors, NEW kind \in {"Gi", "Hi"}, NEW cs, \A i \in 1 .. n : cs[i] \in Int
    PROVE  /\ Spread(kind, cs, n) \in Points
           /\ \A j \in 1 .. n : <<kind, j>> \in Bases /\ Cong(Spread(kind, cs, n)[<<kind, j>>], cs[j])
           /\ \A x \in Bases : (\A j \in 1 .. n : x # <<kind, j>>) => Spread(kind, cs, n)[x] = 0
<1> DEFINE ps == [i \in 1 .. n |-> ScalarMult(cs[i], PointOf(<<kind, i>>))]
<1>0. n \in Nat /\ Vectors \in Nat
  BY BaseAssumption
<1>1. ps \in [1 .. n -> Points]
  <2>1. ASSUME NEW i \in 1 .. n PROVE ScalarMult(cs[i], PointOf(<<kind, i>>)) \in Points
    BY PointsAre, PointOps
  <2> QED BY <2>1
<1>2. ASSUME NEW i \in 1 .. n, NEW x \in Bases
      PROVE  ps[i][x] = IF x = <<kind, i>> THEN cs[i] % Q ELSE 0
  <2>1. ps[i][x] = ScMul(cs[i], PointOf(<<kind, i>>)[x])
    BY DEF ScalarMult
  <2>2. PointOf(<<kind, i>>)[x] = IF x = <<kind, i>> THEN 1 ELSE 0
    BY DEF PointOf, Identity
  <2>3. cs[i] * 1 = cs[i] /\ cs[i] * 0 = 0 /\ 0 % Q = 0
    BY QIs, ReducedIs
  <2> QED BY <2>1, <2>2, <2>3 DEF ScMul
<1>3. \A j \in 1 .. n : <<kind, j>> \in Bases
  BY <1>0 DEF Bases
<1>4. ASSUME NEW j \in 1 .. n PROVE Cong(SumPoints(ps)[<<kind, j>>], cs[j])
  <2> DEFINE x == <<kind, j>>
             f == At(ps, n, x)
  <2>1. x \in Bases
    BY <1>3
  <2>2. /\ f \in [1 .. n -> Int] /\ Cong(SumPoints(ps)[x], SumFunction(f))
    <3> HIDE DEF ps, x
    <3> QED BY <1>0, <1>1, <2>1, SumPointsIs
  <2>3. f[j] = cs[j] % Q /\ \A i \in 1 .. n : i # j => f[i] = 0
    <3>1. \A i \in 1 .. n : x = <<kind, i>> <=> i = j
      OBVIOUS
    <3> HIDE DEF ps, x
    <3> QED BY <1>2, <2>1, <3>1 DEF At
  <2> HIDE DEF f, ps, x
  <2>4. SumFunction(f) = f[j]
    BY <1>0, <2>2, <2>3, SumOne
  <2>5. Cong(cs[j] % Q, cs[j])
    BY Reduced
  <2> QED BY <2>2, <2>3, <2>4, <2>5, CongEquiv DEF x
<1>5. ASSUME NEW x \in Bases, \A j \in 1 .. n : x # <<kind, j>> PROVE SumPoints(ps)[x] = 0
  <2> DEFINE f == At(ps, n, x)
  <2>1. f \in [1 .. n -> Int] /\ SumPoints(ps)[x] = SumFunction(f) % Q
    <3> HIDE DEF ps
    <3> QED BY <1>0, <1>1, SumPointsIs
  <2>2. \A i \in 1 .. n : f[i] = 0
    <3> HIDE DEF ps
    <3> QED BY <1>2, <1>5 DEF At
  <2> HIDE DEF f, ps
  <2>3. n + 1 \in Nat \ {0} /\ ~(n + 1 <= n)
    BY <1>0
  <2>4. SumFunction(f) = 0
    BY <1>0, <2>1, <2>2, <2>3, SumOne
  <2>5. 0 % Q = 0
    BY QIs, ReducedIs
  <2> QED BY <2>1, <2>4, <2>5
<1>6. SumPoints(ps) \in Points
  <2> HIDE DEF ps
  <2> QED BY <1>0, <1>1, SumPointsIs
<1>7. Spread(kind, cs, n) = SumPoints(ps)
  BY DEF Spread
<1> HIDE DEF ps
<1> QED BY <1>3, <1>4, <1>5, <1>6, <1>7
-----------------------------------------------------------------------------
(* One entry of the vectors in one round.                                       *)

LEMMA CongSum3 ==
    ASSUME NEW a \in Int, NEW b \in Int, NEW d \in Int, NEW u \in Int, NEW v \in Int, NEW w \in Int,
           Cong(a, u), Cong(b, v), Cong(d, w)
    PROVE  Cong((a + b) + d, (u + v) + w)
<1>1. Cong(a + b, u + v) /\ a + b \in Int /\ u + v \in Int
  BY CongOps
<1> DEFINE s == a + b
           t == u + v
<1>2. s \in Int /\ t \in Int /\ Cong(s, t)
  BY <1>1
<1> HIDE DEF s, t
<1>3. Cong(s + d, t + w)
  BY <1>2, CongOps
<1> QED BY <1>3 DEF s, t

\* The product of two folded entries, e and f being inverse to each other.
LEMMA Cross ==
    ASSUME NEW p \in Int, NEW q \in Int, NEW r \in Int, NEW s \in Int, NEW e \in Int, NEW f \in Int,
           NEW u \in Int, NEW v \in Int,
           Cong(u, p * e + q * f), Cong(v, r * f + s * e), Cong(e * f, 1)
    PROVE  Cong(u * v, (p * r + q * s) + ((e * e) * (p * s) + (f * f) * (q * r)))
<1> DEFINE pe == p * e
           qf == q * f
           rf == r * f
           se == s * e
           ef == e * f
           pr == p * r
           qs == q * s
           ps == p * s
           qr == q * r
           ee == e * e
           ff == f * f
<1>1. /\ pe \in Int /\ qf \in Int /\ rf \in Int /\ se \in Int /\ ef \in Int /\ pr \in Int /\ qs \in Int
      /\ ps \in Int /\ qr \in Int /\ ee \in Int /\ ff \in Int
  OBVIOUS
<1>2. pe * rf = pr * ef /\ qf * se = qs * ef
  OBVIOUS
<1>3. pe * se = ee * ps /\ qf * rf = ff * qr
  OBVIOUS
<1>4. Cong(u, pe + qf) /\ Cong(v, rf + se) /\ Cong(ef, 1)
  OBVIOUS
<1> HIDE DEF pe, qf, rf, se, ef, pr, qs, ps, qr, ee, ff
<1>5. pe + qf \in Int /\ rf + se \in Int
  BY <1>1
<1>6. Cong(u * v, (pe + qf) * (rf + se))
  BY <1>4, <1>5, CongOps
<1>7. (pe + qf) * (rf + se) = (pe * rf + qf * se) + (pe * se + qf * rf)
  BY <1>1
<1>8. Cong(pr * ef, pr) /\ Cong(qs * ef, qs)
  <2>1. Cong(pr * ef, pr * 1) /\ Cong(qs * ef, qs * 1)
    BY <1>1, <1>4, CongTimes, 1 \in Int
  <2>2. pr * 1 = pr /\ qs * 1 = qs
    BY <1>1
  <2> QED BY <2>1, <2>2
<1> DEFINE m == pr * ef
           n == qs * ef
           o == ee * ps + ff * qr
<1>9. m \in Int /\ n \in Int /\ o \in Int /\ Cong(m, pr) /\ Cong(n, qs) /\ Cong(o, o)
  BY <1>1, <1>8, CongEquiv
<1>10. (pe + qf) * (rf + se) = (m + n) + o
  BY <1>2, <1>3, <1>7
<1> HIDE DEF m, n, o
<1>11. Cong((m + n) + o, (pr + qs) + o)
  BY <1>1, <1>9, CongSum3
<1>12. Cong(u * v, (pr + qs) + o)
  BY <1>6, <1>10, <1>11, CongEquiv
<1> QED BY <1>12 DEF o, pr, qs, ps, qr, ee, ff

\* What base x gets of entry k: a over g, b over h, and their weighted product over H.
Term(a, b, g, h, x, k) ==
    (a[k] * g[k][x] + b[k] * h[k][x]) + (a[k] * b[k]) * (Pw(y)[k] * H[x])

FoldsTo(a, b, g, h, e, f, yn, yi, w1, w2, a1, a2, b1, b2, g1, g2, h1, h2) ==
    Cong((a * g + b * h) + (a * b) * w1,
         (((a1 * g1 + b1 * h1) + (a1 * b1) * w1) + ((a2 * g2 + b2 * h2) + (a2 * b2) * w2))
         + ((e * e) * (((a1 * yi) * g2 + b2 * h1) + (a1 * b2) * w1)
            + (f * f) * (((a2 * yn) * g1 + b1 * h2) + ((a2 * yn) * b1) * w1)))

LEMMA FoldTerm ==
    ASSUME NEW a1 \in Int, NEW a2 \in Int, NEW b1 \in Int, NEW b2 \in Int,
           NEW g1 \in Int, NEW g2 \in Int, NEW h1 \in Int, NEW h2 \in Int,
           NEW e \in Int, NEW f \in Int, NEW yn \in Int, NEW yi \in Int,
           NEW w1 \in Int, NEW w2 \in Int,
           NEW a \in Int, NEW b \in Int, NEW g \in Int, NEW h \in Int,
           Cong(a, a1 * e + (a2 * yn) * f), Cong(b, b2 * e + b1 * f),
           Cong(g, g1 * f + (yi * g2) * e), Cong(h, h2 * f + h1 * e),
           Cong(e * f, 1), Cong(yn * yi, 1), Cong(w2, yn * w1)
    PROVE  FoldsTo(a, b, g, h, e, f, yn, yi, w1, w2, a1, a2, b1, b2, g1, g2, h1, h2)
<1> DEFINE ay == a2 * yn
           yg == yi * g2
           ee == e * e
           ff == f * f
<1>1. ay \in Int /\ yg \in Int /\ ee \in Int /\ ff \in Int
  OBVIOUS
<1>2. Cong(a, a1 * e + ay * f) /\ Cong(g, g1 * f + yg * e)
  OBVIOUS
<1>3. ay * yg = (a2 * g2) * (yn * yi) /\ a1 * yg = (a1 * yi) * g2
  OBVIOUS
<1>4. Cong(ay * yg, a2 * g2)
  <2> DEFINE m == a2 * g2
             n == yn * yi
  <2>1. m \in Int /\ n \in Int /\ Cong(n, 1) /\ m * 1 = m /\ 1 \in Int
    OBVIOUS
  <2> HIDE DEF m, n
  <2>2. Cong(m * n, m * 1)
    BY <2>1, CongTimes
  <2>3. Cong(m * n, m)
    BY <2>1, <2>2
  <2> QED BY <1>3, <2>3 DEF m, n
<1>5. Cong((ay * b2) * w1, (a2 * b2) * w2)
  <2> DEFINE m == a2 * b2
             n == yn * w1
  <2>1. m \in Int /\ n \in Int /\ Cong(w2, n)
    OBVIOUS
  <2>2. (ay * b2) * w1 = m * n
    OBVIOUS
  <2> HIDE DEF m, n
  <2>3. Cong(m * w2, m * n)
    BY <2>1, CongTimes
  <2>4. Cong(m * n, m * w2)
    BY <2>3, CongEquiv
  <2> QED BY <2>2, <2>4 DEF m
<1> HIDE DEF ay, yg
<1>6. Cong(a * g, (a1 * g1 + ay * yg) + (ee * (a1 * yg) + ff * (ay * g1)))
  BY <1>1, <1>2, Cross
<1>7. Cong(b * h, (b2 * h2 + b1 * h1) + (ee * (b2 * h1) + ff * (b1 * h2)))
  BY Cross
<1>8. Cong(a * b, (a1 * b1 + ay * b2) + (ee * (a1 * b2) + ff * (ay * b1)))
  <2>1. Cong(b, b1 * f + b2 * e)
    <3>1. b1 * f + b2 * e = b2 * e + b1 * f
      OBVIOUS
    <3> QED BY <3>1
  <2> QED BY <1>1, <1>2, <2>1, Cross
<1> DEFINE A1_ == a1 * g1
           A2_ == a2 * g2
           AA  == ay * yg
           AL  == a1 * yg
           AR  == ay * g1
           B1_ == b1 * h1
           B2_ == b2 * h2
           BL  == b2 * h1
           BR  == b1 * h2
           C1_ == a1 * b1
           CC  == ay * b2
           CL  == a1 * b2
           CR  == ay * b1
           ag == a * g
           bh == b * h
           ab == a * b
<1>9. /\ A1_ \in Int /\ A2_ \in Int /\ AA \in Int /\ AL \in Int /\ AR \in Int
      /\ B1_ \in Int /\ B2_ \in Int /\ BL \in Int /\ BR \in Int
      /\ C1_ \in Int /\ CC \in Int /\ CL \in Int /\ CR \in Int
      /\ ag \in Int /\ bh \in Int /\ ab \in Int
  BY <1>1
<1>10. /\ Cong(ag, (A1_ + AA) + (ee * AL + ff * AR))
       /\ Cong(bh, (B2_ + B1_) + (ee * BL + ff * BR))
       /\ Cong(ab, (C1_ + CC) + (ee * CL + ff * CR))
       /\ Cong(AA, A2_)
  BY <1>4, <1>6, <1>7, <1>8
<1> DEFINE W2_ == (a2 * b2) * w2
<1>11. W2_ \in Int /\ Cong(CC * w1, W2_)
  BY <1>5
<1> HIDE DEF A1_, A2_, AA, AL, AR, B1_, B2_, BL, BR, C1_, CC, CL, CR, W2_, ag, bh, ab, ee, ff
<1>12. Cong(ag, (A1_ + A2_) + (ee * AL + ff * AR))
  <2> DEFINE rest == ee * AL + ff * AR
  <2>1. rest \in Int /\ Cong(rest, rest) /\ Cong(A1_, A1_)
    BY <1>1, <1>9, CongEquiv
  <2>2. Cong(ag, (A1_ + AA) + rest)
    BY <1>10
  <2> HIDE DEF rest
  <2>3. Cong((A1_ + AA) + rest, (A1_ + A2_) + rest)
    BY <1>9, <1>10, <2>1, CongSum3
  <2>4. Cong(ag, (A1_ + A2_) + rest)
    BY <2>2, <2>3, CongEquiv
  <2> QED BY <2>4 DEF rest
<1>13. Cong(ab * w1, (C1_ * w1 + W2_) + (ee * (CL * w1) + ff * (CR * w1)))
  <2> DEFINE sum == (C1_ + CC) + (ee * CL + ff * CR)
             rest == ee * (CL * w1) + ff * (CR * w1)
             m == C1_ * w1
             n == CC * w1
  <2>1. sum \in Int /\ rest \in Int /\ m \in Int /\ n \in Int
    BY <1>1, <1>9
  <2>2. sum * w1 = (m + n) + rest
    BY <1>1, <1>9
  <2>3. Cong(ab, sum) /\ Cong(n, W2_) /\ Cong(m, m) /\ Cong(rest, rest)
    BY <1>10, <1>11, CongEquiv
  <2> HIDE DEF sum, rest, m, n
  <2>4. Cong(ab * w1, sum * w1)
    BY <1>9, <2>1, <2>3, CongTimes
  <2>5. Cong((m + n) + rest, (m + W2_) + rest)
    BY <1>11, <2>1, <2>3, CongSum3
  <2>6. Cong(ab * w1, (m + W2_) + rest)
    BY <2>2, <2>4, <2>5, CongEquiv
  <2> QED BY <2>6 DEF m, rest
<1> DEFINE U == (A1_ + A2_) + (ee * AL + ff * AR)
           V_ == (B2_ + B1_) + (ee * BL + ff * BR)
           W_ == (C1_ * w1 + W2_) + (ee * (CL * w1) + ff * (CR * w1))
           abw == ab * w1
<1>14. U \in Int /\ V_ \in Int /\ W_ \in Int /\ abw \in Int
  BY <1>1, <1>9, <1>11
<1>15. Cong(ag, U) /\ Cong(bh, V_) /\ Cong(abw, W_)
  BY <1>10, <1>12, <1>13
<1>16. (U + V_) + W_ = (((A1_ + B1_) + C1_ * w1) + ((A2_ + B2_) + W2_))
                       + (ee * ((AL + BL) + CL * w1) + ff * ((AR + BR) + CR * w1))
  <2> DEFINE c1 == C1_ * w1
             cl == CL * w1
             cr == CR * w1
  <2>1. c1 \in Int /\ cl \in Int /\ cr \in Int
    BY <1>9
  <2> HIDE DEF c1, cl, cr
  <2>2. ee * ((AL + BL) + cl) = (ee * AL + ee * BL) + ee * cl
    BY <1>1, <1>9, <2>1
  <2>3. ff * ((AR + BR) + cr) = (ff * AR + ff * BR) + ff * cr
    BY <1>1, <1>9, <2>1
  <2> DEFINE al == ee * AL
             bl == ee * BL
             dl == ee * cl
             ar == ff * AR
             br == ff * BR
             dr == ff * cr
  <2>4. al \in Int /\ bl \in Int /\ dl \in Int /\ ar \in Int /\ br \in Int /\ dr \in Int
    BY <1>1, <1>9, <2>1
  <2>5. ee * ((AL + BL) + cl) = (al + bl) + dl /\ ff * ((AR + BR) + cr) = (ar + br) + dr
    BY <2>2, <2>3
  <2>6. U = (A1_ + A2_) + (al + ar) /\ V_ = (B2_ + B1_) + (bl + br) /\ W_ = (c1 + W2_) + (dl + dr)
    BY DEF c1, cl, cr
  <2> HIDE DEF al, bl, dl, ar, br, dr, U, V_, W_
  <2>7. (U + V_) + W_ = (((A1_ + B1_) + c1) + ((A2_ + B2_) + W2_)) + (((al + bl) + dl) + ((ar + br) + dr))
    BY <1>9, <1>11, <2>1, <2>4, <2>6
  <2> QED BY <2>5, <2>7 DEF c1, cl, cr
<1> HIDE DEF U, V_, W_, abw
<1>17. Cong((ag + bh) + abw, (U + V_) + W_)
  BY <1>9, <1>14, <1>15, CongSum3
<1>18. AL = (a1 * yi) * g2
  BY <1>3 DEF AL
<1> QED BY <1>16, <1>17, <1>18 DEF FoldsTo, A1_, A2_, AR, B1_, B2_, BL, BR, C1_, CL, CR, W2_, ag, bh, ab, abw, ay, ee, ff

-----------------------------------------------------------------------------
(* The vectors in one round.                                                    *)

AreHalves(v, m, W) ==
    /\ Len(v) = m + m /\ Len(v) \div 2 = m
    /\ Halves(v).low = [k \in 1 .. m |-> v[k]] /\ Halves(v).high = [k \in 1 .. m |-> v[m + k]]
    /\ Halves(v).low \in [1 .. m -> W] /\ Halves(v).high \in [1 .. m -> W]

LEMMA HalvesAre ==
    ASSUME NEW W, NEW m \in Nat \ {0}, NEW v \in [1 .. m + m -> W]
    PROVE  AreHalves(v, m, W)
<1>1. Tuple(v, m + m) /\ m + m \in Nat
  BY DEF Tuple
<1>2. Len(v) = m + m
  BY <1>1, LenOf DEF Tuple
<1>3. Len(v) \div 2 = m
  BY <1>2
<1> DEFINE s == SubSeq(v, 1, m)
           t == SubSeq(v, m + 1, m + m)
<1>4. 1 \in 1 .. m + m /\ m \in 1 - 1 .. m + m /\ m + 1 \in 1 .. m + m /\ m + m \in (m + 1) - 1 .. m + m
  OBVIOUS
<1>5. Tuple(s, (m - 1) + 1) /\ \A k \in 1 .. (m - 1) + 1 : s[k] = v[(1 + k) - 1]
  <2> DEFINE n == m + m
  <2>1. n \in Nat /\ 1 \in 1 .. n /\ m \in 1 - 1 .. n /\ Tuple(v, n)
    BY <1>1, <1>4
  <2> HIDE DEF n
  <2> QED BY <2>1, SliceIs
<1>6. Tuple(t, (m + m - (m + 1)) + 1) /\ \A k \in 1 .. (m + m - (m + 1)) + 1 : t[k] = v[((m + 1) + k) - 1]
  <2> DEFINE n == m + m
             i == m + 1
  <2>1. n \in Nat /\ i \in 1 .. n /\ n \in i - 1 .. n /\ Tuple(v, n)
    BY <1>1, <1>4
  <2>2. (n - i) + 1 = (m + m - (m + 1)) + 1
    OBVIOUS
  <2> HIDE DEF n, i
  <2>3. Tuple(SubSeq(v, i, n), (n - i) + 1) /\ \A k \in 1 .. (n - i) + 1 : SubSeq(v, i, n)[k] = v[(i + k) - 1]
    BY <2>1, SliceIs
  <2> QED BY <2>2, <2>3 DEF n, i
<1>7. (m - 1) + 1 = m /\ (m + m - (m + 1)) + 1 = m /\ \A k \in Nat : (1 + k) - 1 = k /\ ((m + 1) + k) - 1 = m + k
  OBVIOUS
<1> HIDE DEF s, t
<1>8. s = [k \in 1 .. m |-> v[k]]
  BY <1>5, <1>7 DEF Tuple
<1>9. t = [k \in 1 .. m |-> v[m + k]]
  BY <1>6, <1>7 DEF Tuple
<1>10. Halves(v).low = s /\ Halves(v).high = t
  BY <1>2, <1>3 DEF Halves, s, t
<1>11. s \in [1 .. m -> W] /\ t \in [1 .. m -> W]
  BY <1>8, <1>9
<1> QED BY <1>2, <1>3, <1>8, <1>9, <1>10, <1>11 DEF AreHalves

LEMMA WeightedIs ==
    ASSUME NEW m \in Nat, NEW a \in [1 .. m -> Scalars], NEW b \in [1 .. m -> Scalars], y \in Scalars
    PROVE  LET f == [k \in 1 .. m |-> (a[k] * b[k]) * Pw(y)[k]]
           IN  /\ WeightedInnerProduct(a, b) \in Scalars
               /\ f \in [1 .. m -> Int] /\ Cong(WeightedInnerProduct(a, b), SumFunction(f))
<1> DEFINE f == [k \in 1 .. m |-> (a[k] * b[k]) * Pw(y)[k]]
           g == [i \in DOMAIN a |-> ScMul(ScMul(a[i], b[i]), Powers(y, Len(a) + 1)[i + 1])]
<1>1. Len(a) = m /\ y \in Int /\ m + 1 \in Nat
  BY LenOf, QIs
<1>2. Powers(y, m + 1) = [i \in 1 .. m + 1 |-> Pw(y)[i - 1]]
  BY <1>1, PowersIs
<1>3. \A i \in 1 .. m : Powers(y, m + 1)[i + 1] = Pw(y)[i]
  <2>1. \A i \in 1 .. m : i + 1 \in 1 .. m + 1 /\ (i + 1) - 1 = i
    OBVIOUS
  <2> QED BY <1>2, <2>1
<1>4. g = [i \in 1 .. m |-> ScMul(ScMul(a[i], b[i]), Pw(y)[i])]
  BY <1>1, <1>3
<1>5. ASSUME NEW i \in 1 .. m
      PROVE  /\ (a[i] * b[i]) * Pw(y)[i] \in Int /\ ScMul(ScMul(a[i], b[i]), Pw(y)[i]) \in Int
             /\ Cong(ScMul(ScMul(a[i], b[i]), Pw(y)[i]), (a[i] * b[i]) * Pw(y)[i])
  <2> DEFINE p == Pw(y)[i]
             ai == a[i]
             bi == b[i]
  <2>1. p \in Int /\ ai \in Int /\ bi \in Int
    <3>1. i \in Nat
      OBVIOUS
    <3> QED BY <1>1, <3>1, PwIs, QIs
  <2> HIDE DEF p, ai, bi
  <2> DEFINE ab == ai * bi
             s == ScMul(ai, bi)
  <2>2. ab \in Int /\ s \in Scalars /\ s \in Int /\ Cong(s, ab)
    <3>1. s \in Scalars /\ Cong(s, ab)
      BY <2>1, ScalarOps
    <3>2. ab \in Int
      BY <2>1
    <3> QED BY <3>1, <3>2, QIs
  <2> HIDE DEF ab, s
  <2>3. ScMul(s, p) \in Scalars /\ Cong(ScMul(s, p), s * p)
    BY <2>1, <2>2, ScalarOps
  <2>4. Cong(s * p, ab * p) /\ ab * p \in Int
    BY <2>1, <2>2, CongTimes
  <2>5. ScMul(s, p) \in Int /\ Cong(ScMul(s, p), ab * p)
    BY <2>3, <2>4, CongEquiv, QIs
  <2> QED BY <2>4, <2>5 DEF s, p, ab, ai, bi
<1>6. f \in [1 .. m -> Int] /\ g \in [1 .. m -> Int] /\ \A i \in 1 .. m : Cong(g[i], f[i])
  BY <1>4, <1>5
<1>7. WeightedInnerProduct(a, b) = ScSum(g)
  BY DEF WeightedInnerProduct
<1> HIDE DEF f, g
<1>8. ScSum(g) \in Scalars /\ Cong(ScSum(g), SumFunction(g)) /\ Cong(SumFunction(g), SumFunction(f))
  BY <1>6, SumOfSeq, SumCong
<1>9. WeightedInnerProduct(a, b) \in Scalars /\ Cong(WeightedInnerProduct(a, b), SumFunction(f))
  BY <1>7, <1>8, CongEquiv
<1> QED BY <1>6, <1>9 DEF f

\* A multiple of G and one of H.
LEMMA AddKeys2Is ==
    ASSUME NEW u \in Int, NEW v \in Int
    PROVE  /\ AddKeys2(u, v, H) \in Points
           /\ \A x \in Bases : Cong(AddKeys2(u, v, H)[x], u * G[x] + v * H[x])
BY CommitmentIs DEF CalcCommitment

LEMMA EighthIs ==
    ASSUME NEW p \in Points
    PROVE  Eighth(p) \in Points /\ \A x \in Bases : Cong(8 * Eighth(p)[x], p[x])
<1> DEFINE q == Eighth(p)
<1>1. q \in Points /\ ScalarMult(8, q) = p
  BY EightEighths DEF Eighth
<1> HIDE DEF q
<1>2. \A x \in Bases : Cong(ScalarMult(8, q)[x], 8 * q[x])
  BY <1>1, PointOps, 8 \in Int
<1> QED BY <1>1, <1>2, CongEquiv DEF q

SideOf(p, m, w, gs, hs, a, b, cross, blind, x) ==
    LET f == [i \in 1 .. m |-> (a[i] * w) * gs[i][x]]
        g == [i \in 1 .. m |-> b[i] * hs[i][x]]
    IN  /\ f \in [1 .. m -> Int] /\ g \in [1 .. m -> Int]
        /\ Cong(8 * p[x], (SumFunction(f) + SumFunction(g)) + (blind * G[x] + cross * H[x]))

LEMMA ComputeLRIs ==
    ASSUME NEW m \in Nat, NEW w \in Int, NEW gs \in [1 .. m -> Points], NEW hs \in [1 .. m -> Points],
           NEW a \in [1 .. m -> Scalars], NEW b \in [1 .. m -> Scalars],
           NEW cross \in Int, NEW blind \in Int
    PROVE  /\ ComputeLR(w, gs, hs, a, b, cross, blind) \in Points
           /\ \A x \in Bases : SideOf(ComputeLR(w, gs, hs, a, b, cross, blind),
                                     m, w, gs, hs, a, b, cross, blind, x)
<1> DEFINE ps == [i \in DOMAIN a |-> ScalarMult(ScMul(a[i], w), gs[i])]
           qs == [i \in DOMAIN b |-> ScalarMult(b[i], hs[i])]
           p == SumPoints(ps)
           q == SumPoints(qs)
           k == AddKeys2(blind, cross, H)
           s == AddPoints(p, q)
           t == AddPoints(s, k)
           f(x) == [i \in 1 .. m |-> (a[i] * w) * gs[i][x]]
           g(x) == [i \in 1 .. m |-> b[i] * hs[i][x]]
<1>0. \A i \in 1 .. m : a[i] \in Int /\ b[i] \in Int /\ gs[i] \in Points /\ hs[i] \in Points
  BY QIs
<1>1. ASSUME NEW i \in 1 .. m
      PROVE  /\ ps[i] \in Points /\ qs[i] \in Points
             /\ \A x \in Bases : /\ (a[i] * w) * gs[i][x] \in Int /\ b[i] * hs[i][x] \in Int
                                 /\ Cong(ps[i][x], (a[i] * w) * gs[i][x]) /\ Cong(qs[i][x], b[i] * hs[i][x])
  <2> DEFINE gi == gs[i]
             hi == hs[i]
             ai == a[i]
             bi == b[i]
             aw == ScMul(ai, w)
  <2>1. aw \in Int /\ Cong(aw, ai * w) /\ ai * w \in Int /\ ai \in Int /\ bi \in Int /\ gi \in Points /\ hi \in Points
    <3>1. ai \in Int /\ bi \in Int /\ gi \in Points /\ hi \in Points
      BY <1>0
    <3>2. aw \in Scalars /\ Cong(aw, ai * w)
      <4> HIDE DEF ai
      <4> QED BY <3>1, ScalarOps
    <3>3. aw \in Int /\ ai * w \in Int
      <4> HIDE DEF aw, ai
      <4> QED BY <3>1, <3>2, QIs
    <3> QED BY <3>1, <3>2, <3>3
  <2>2. ps[i] = ScalarMult(aw, gi) /\ qs[i] = ScalarMult(bi, hi)
    OBVIOUS
  <2> HIDE DEF aw, gi, hi, ai, bi, ps, qs
  <2>3. /\ ps[i] \in Points /\ qs[i] \in Points
        /\ \A x \in Bases : Cong(ps[i][x], aw * gi[x]) /\ Cong(qs[i][x], bi * hi[x])
    BY <2>1, <2>2, PointOps
  <2>4. ASSUME NEW x \in Bases
        PROVE  (ai * w) * gi[x] \in Int /\ bi * hi[x] \in Int /\ Cong(ps[i][x], (ai * w) * gi[x])
    <3>1. gi[x] \in Int /\ hi[x] \in Int
      BY <2>1, CoordinateIsInt
    <3> DEFINE u == ai * w
               v == gi[x]
    <3>2. Cong(aw * v, u * v) /\ u * v \in Int
      <4>1. u \in Int /\ v \in Int /\ Cong(aw, u)
        BY <2>1, <3>1
      <4> HIDE DEF u, v
      <4> QED BY <2>1, <4>1, CongTimes
    <3>3. Cong(ps[i][x], aw * v)
      BY <2>3
    <3>4. bi * hi[x] \in Int
      BY <2>1, <3>1
    <3> HIDE DEF u, v
    <3>5. Cong(ps[i][x], u * v)
      BY <3>2, <3>3, CongEquiv
    <3> QED BY <3>2, <3>4, <3>5 DEF u, v
  <2> QED BY <2>3, <2>4 DEF ai, bi, gi, hi
<1>2. ps \in [1 .. m -> Points] /\ qs \in [1 .. m -> Points]
  <2>1. ps = [i \in 1 .. m |-> ps[i]] /\ qs = [i \in 1 .. m |-> qs[i]]
    OBVIOUS
  <2> HIDE DEF ps, qs
  <2> QED BY <1>1, <2>1
<1>3. /\ p \in Points /\ q \in Points
      /\ \A x \in Bases : /\ At(ps, m, x) \in [1 .. m -> Int] /\ Cong(p[x], SumFunction(At(ps, m, x)))
                          /\ At(qs, m, x) \in [1 .. m -> Int] /\ Cong(q[x], SumFunction(At(qs, m, x)))
  <2> HIDE DEF ps, qs
  <2> QED BY <1>2, SumPointsIs
<1>4. k \in Points /\ \A x \in Bases : Cong(k[x], blind * G[x] + cross * H[x])
  BY AddKeys2Is
<1>5. s \in Points /\ \A x \in Bases : Cong(s[x], p[x] + q[x])
  <2> HIDE DEF p, q
  <2> QED BY <1>3, PointOps, 0 \in Int
<1>6. t \in Points /\ \A x \in Bases : Cong(t[x], s[x] + k[x])
  <2> HIDE DEF s, k
  <2> QED BY <1>4, <1>5, PointOps, 0 \in Int
<1>7. ComputeLR(w, gs, hs, a, b, cross, blind) = Eighth(t)
  BY DEF ComputeLR
<1>8. ASSUME NEW x \in Bases
      PROVE  /\ f(x) \in [1 .. m -> Int] /\ g(x) \in [1 .. m -> Int]
             /\ Cong(t[x], (SumFunction(f(x)) + SumFunction(g(x))) + (blind * G[x] + cross * H[x]))
  <2> DEFINE fx == f(x)
             gx == g(x)
             F0 == At(ps, m, x)
             G0 == At(qs, m, x)
             rest == blind * G[x] + cross * H[x]
  <2>1. fx \in [1 .. m -> Int] /\ gx \in [1 .. m -> Int]
    BY <1>1
  <2>2. F0 \in [1 .. m -> Int] /\ G0 \in [1 .. m -> Int]
    BY <1>3
  <2>3. \A i \in 1 .. m : Cong(F0[i], fx[i]) /\ Cong(G0[i], gx[i])
    <3> HIDE DEF ps, qs
    <3> QED BY <1>1 DEF At
  <2>4. rest \in Int
    <3>1. G[x] \in Int /\ H[x] \in Int
      BY CoordinateIsInt, PointsAre
    <3> QED BY <3>1
  <2>5. p[x] \in Int /\ q[x] \in Int /\ s[x] \in Int /\ k[x] \in Int
    <3> HIDE DEF p, q, s, k
    <3> QED BY <1>3, <1>4, <1>5, CoordinateIsInt
  <2>6. Cong(p[x], SumFunction(F0)) /\ Cong(q[x], SumFunction(G0)) /\ Cong(k[x], rest)
        /\ Cong(s[x], p[x] + q[x]) /\ Cong(t[x], s[x] + k[x])
    BY <1>3, <1>4, <1>5, <1>6
  <2> HIDE DEF fx, gx, F0, G0, rest
  <2>7. /\ Cong(SumFunction(F0), SumFunction(fx)) /\ Cong(SumFunction(G0), SumFunction(gx))
        /\ SumFunction(fx) \in Int /\ SumFunction(gx) \in Int
    BY <2>1, <2>2, <2>3, SumCong
  <2> DEFINE X == SumFunction(fx)
             Y == SumFunction(gx)
             px == p[x]
             qx == q[x]
             sx == s[x]
             kx == k[x]
  <2>8. Cong(px, X) /\ Cong(qx, Y) /\ Cong(sx, px + qx) /\ Cong(kx, rest) /\ Cong(t[x], sx + kx)
    BY <2>6, <2>7, CongEquiv
  <2>9. px \in Int /\ qx \in Int /\ sx \in Int /\ kx \in Int /\ X \in Int /\ Y \in Int
    BY <2>5, <2>7
  <2> HIDE DEF X, Y, px, qx, sx, kx, p, q, s, k, t
  <2>10. px + qx \in Int /\ X + Y \in Int /\ Cong(px + qx, X + Y)
    BY <2>8, <2>9, CongOps
  <2>11. Cong(sx, X + Y)
    BY <2>8, <2>10, CongEquiv
  <2>12. Cong(sx + kx, (X + Y) + rest)
    BY <2>4, <2>8, <2>9, <2>10, <2>11, CongOps
  <2>13. Cong(t[x], (X + Y) + rest)
    BY <2>8, <2>12, CongEquiv
  <2> QED BY <2>1, <2>13 DEF X, Y, rest, fx, gx
<1> HIDE DEF t, ps, qs, p, q, s, k
<1>9. Eighth(t) \in Points /\ \A x \in Bases : Cong(8 * Eighth(t)[x], t[x])
  BY <1>6, EighthIs
<1>10. ASSUME NEW x \in Bases
       PROVE  Cong(8 * Eighth(t)[x], (SumFunction(f(x)) + SumFunction(g(x))) + (blind * G[x] + cross * H[x]))
  <2> HIDE DEF f, g
  <2> QED BY <1>8, <1>9, CongEquiv
<1>11. \A x \in Bases : SideOf(Eighth(t), m, w, gs, hs, a, b, cross, blind, x)
  BY <1>8, <1>10 DEF SideOf
<1> QED BY <1>7, <1>9, <1>11, Zenon

\* The vectors behind a round with challenge e, yn being a power of y.
NextA(a, e, yn) == VectorAdd2(VectorScalar(Halves(a).low, e), VectorScalar(Halves(a).high, ScMul(Invert(e), yn)))
NextB(b, e)     == VectorAdd2(VectorScalar(Halves(b).low, Invert(e)), VectorScalar(Halves(b).high, e))
NextG(g, e, yn) == HadamardFold(g, Invert(e), ScMul(Invert(yn), e))
NextH(h, e)     == HadamardFold(h, e, Invert(e))

LEMMA SumOfScaled ==
    ASSUME NEW u \in Int, NEW v \in Int, NEW s \in Int, NEW t \in Int
    PROVE  /\ ScAdd(ScMul(u, s), ScMul(v, t)) \in Scalars
           /\ Cong(ScAdd(ScMul(u, s), ScMul(v, t)), u * s + v * t)
<1> DEFINE p == ScMul(u, s)
           q == ScMul(v, t)
           us == u * s
           vt == v * t
<1>1. p \in Scalars /\ Cong(p, us) /\ q \in Scalars /\ Cong(q, vt)
  BY ScalarOps
<1>2. us \in Int /\ vt \in Int
  OBVIOUS
<1> HIDE DEF p, q, us, vt
<1>3. p \in Int /\ q \in Int
  BY <1>1, QIs
<1>4. ScAdd(p, q) \in Scalars /\ Cong(ScAdd(p, q), p + q)
  BY <1>3, ScalarOps
<1>5. Cong(p + q, us + vt)
  BY <1>1, <1>2, <1>3, CongOps
<1>6. Cong(ScAdd(p, q), us + vt)
  BY <1>4, <1>5, CongEquiv
<1> QED BY <1>4, <1>6 DEF p, q, us, vt

LEMMA SumOfMultiples ==
    ASSUME NEW s \in Int, NEW t \in Int, NEW p \in Points, NEW q \in Points
    PROVE  /\ AddPoints(ScalarMult(s, p), ScalarMult(t, q)) \in Points
           /\ \A x \in Bases : Cong(AddPoints(ScalarMult(s, p), ScalarMult(t, q))[x], p[x] * s + q[x] * t)
<1> DEFINE sp == ScalarMult(s, p)
           tq == ScalarMult(t, q)
<1>1. sp \in Points /\ tq \in Points /\ \A x \in Bases : Cong(sp[x], s * p[x]) /\ Cong(tq[x], t * q[x])
  BY PointOps
<1> HIDE DEF sp, tq
<1>2. AddPoints(sp, tq) \in Points /\ \A x \in Bases : Cong(AddPoints(sp, tq)[x], sp[x] + tq[x])
  BY <1>1, PointOps, 0 \in Int
<1>3. ASSUME NEW x \in Bases PROVE Cong(AddPoints(sp, tq)[x], p[x] * s + q[x] * t)
  <2>1. sp[x] \in Int /\ tq[x] \in Int /\ p[x] \in Int /\ q[x] \in Int
    BY <1>1, CoordinateIsInt
  <2>2. s * p[x] \in Int /\ t * q[x] \in Int /\ s * p[x] = p[x] * s /\ t * q[x] = q[x] * t
    BY <2>1
  <2>3. Cong(sp[x] + tq[x], p[x] * s + q[x] * t)
    BY <1>1, <2>1, <2>2, CongOps
  <2> QED BY <1>2, <2>3, CongEquiv
<1> QED BY <1>2, <1>3 DEF sp, tq

LEMMA FoldedScalars ==
    ASSUME NEW m \in Nat \ {0}, NEW v \in [1 .. m + m -> Scalars], NEW s \in Scalars, NEW t \in Scalars
    PROVE  LET next == VectorAdd2(VectorScalar(Halves(v).low, s), VectorScalar(Halves(v).high, t))
           IN  /\ next \in [1 .. m -> Scalars]
               /\ \A k \in 1 .. m : Cong(next[k], v[k] * s + v[m + k] * t)
<1> DEFINE next == VectorAdd2(VectorScalar(Halves(v).low, s), VectorScalar(Halves(v).high, t))
<1>1. Halves(v).low = [k \in 1 .. m |-> v[k]] /\ Halves(v).high = [k \in 1 .. m |-> v[m + k]]
  <2>1. AreHalves(v, m, Scalars)
    BY HalvesAre, Zenon
  <2> QED BY <2>1 DEF AreHalves
<1>2. next = [k \in 1 .. m |-> ScAdd(ScMul(v[k], s), ScMul(v[m + k], t))]
  BY <1>1 DEF VectorAdd2, VectorScalar
<1> HIDE DEF next
<1>3. ASSUME NEW k \in 1 .. m
      PROVE  next[k] \in Scalars /\ Cong(next[k], v[k] * s + v[m + k] * t)
  <2>1. v[k] \in Int /\ v[m + k] \in Int /\ s \in Int /\ t \in Int
    <3>1. k \in 1 .. m + m /\ m + k \in 1 .. m + m
      OBVIOUS
    <3>2. v[k] \in Scalars /\ v[m + k] \in Scalars
      BY <3>1
    <3> QED BY <3>2, QIs
  <2>2. next[k] = ScAdd(ScMul(v[k], s), ScMul(v[m + k], t))
    BY <1>2
  <2> DEFINE c == v[k]
             d == v[m + k]
  <2>3. c \in Int /\ d \in Int /\ s \in Int /\ t \in Int /\ next[k] = ScAdd(ScMul(c, s), ScMul(d, t))
    BY <2>1, <2>2
  <2> HIDE DEF c, d
  <2>4. next[k] \in Scalars /\ Cong(next[k], c * s + d * t)
    BY <2>3, SumOfScaled
  <2> QED BY <2>4 DEF c, d
<1>4. next = [k \in 1 .. m |-> next[k]]
  BY <1>2
<1> QED BY <1>3, <1>4 DEF next

LEMMA FoldedPoints ==
    ASSUME NEW m \in Nat \ {0}, NEW v \in [1 .. m + m -> Points], NEW s \in Scalars, NEW t \in Scalars
    PROVE  /\ HadamardFold(v, s, t) \in [1 .. m -> Points]
           /\ \A k \in 1 .. m : \A x \in Bases : Cong(HadamardFold(v, s, t)[k][x], v[k][x] * s + v[m + k][x] * t)
<1> DEFINE next == HadamardFold(v, s, t)
<1>1. next = [k \in 1 .. m |-> AddPoints(ScalarMult(s, v[k]), ScalarMult(t, v[m + k]))]
  <2>1. AreHalves(v, m, Points)
    BY HalvesAre, Zenon
  <2> QED BY <2>1 DEF HadamardFold, AreHalves
<1> HIDE DEF next
<1>2. ASSUME NEW k \in 1 .. m
      PROVE  next[k] \in Points /\ \A x \in Bases : Cong(next[k][x], v[k][x] * s + v[m + k][x] * t)
  <2>1. v[k] \in Points /\ v[m + k] \in Points /\ s \in Int /\ t \in Int
    BY QIs
  <2>2. next[k] = AddPoints(ScalarMult(s, v[k]), ScalarMult(t, v[m + k]))
    BY <1>1
  <2> QED BY <2>1, <2>2, SumOfMultiples
<1>3. next = [k \in 1 .. m |-> next[k]]
  BY <1>1
<1> QED BY <1>2, <1>3 DEF next

\* a * (b + c), where b + c is known up to multiples of Q.
LEMMA FactorIn ==
    ASSUME NEW p \in Int, NEW q \in Int, NEW s \in Int, NEW t \in Int, NEW w \in Int, Cong(t, w)
    PROVE  Cong(p * s + q * t, p * s + q * w)
<1>1. Cong(q * t, q * w) /\ q * t \in Int /\ q * w \in Int /\ p * s \in Int
  BY CongTimes
<1> DEFINE u == p * s
           v == q * t
           z0 == q * w
<1>2. u \in Int /\ v \in Int /\ z0 \in Int /\ Cong(u, u) /\ Cong(v, z0)
  BY <1>1, CongEquiv
<1> HIDE DEF u, v, z0
<1>3. Cong(u + v, u + z0)
  BY <1>2, CongOps
<1> QED BY <1>3 DEF u, v, z0

\* Vectors of n entries.
VectorsOf(a, b, g, h, n) ==
    /\ a \in [1 .. n -> Scalars] /\ b \in [1 .. n -> Scalars]
    /\ g \in [1 .. n -> Points] /\ h \in [1 .. n -> Points]

AreNext(a, b, g, h, m, e, yn) ==
    /\ VectorsOf(NextA(a, e, yn), NextB(b, e), NextG(g, e, yn), NextH(h, e), m)
    /\ \A k \in 1 .. m :
          /\ Cong(NextA(a, e, yn)[k], a[k] * e + (a[m + k] * yn) * Invert(e))
          /\ Cong(NextB(b, e)[k], b[m + k] * e + b[k] * Invert(e))
          /\ \A x \in Bases :
                /\ Cong(NextG(g, e, yn)[k][x], g[k][x] * Invert(e) + (Invert(yn) * g[m + k][x]) * e)
                /\ Cong(NextH(h, e)[k][x], h[m + k][x] * Invert(e) + h[k][x] * e)

LEMMA FoldedAre ==
    ASSUME NEW m \in Nat \ {0}, NEW a \in [1 .. m + m -> Scalars], NEW b \in [1 .. m + m -> Scalars],
           NEW g \in [1 .. m + m -> Points], NEW h \in [1 .. m + m -> Points],
           NEW e \in Scalars, e # 0, NEW yn \in Scalars, yn # 0
    PROVE  AreNext(a, b, g, h, m, e, yn)
<1> DEFINE f == Invert(e)
           yi == Invert(yn)
           fy == ScMul(f, yn)
           ye == ScMul(yi, e)
<1>1. f \in Scalars /\ yi \in Scalars /\ f \in Int /\ yi \in Int /\ e \in Int /\ yn \in Int
  BY InvertIs
<1> HIDE DEF f, yi
<1>2. fy \in Scalars /\ ye \in Scalars /\ Cong(fy, f * yn) /\ Cong(ye, yi * e) /\ fy \in Int /\ ye \in Int
  BY <1>1, ScalarOps, QIs
<1>3. /\ NextA(a, e, yn) \in [1 .. m -> Scalars]
      /\ \A k \in 1 .. m : Cong(NextA(a, e, yn)[k], a[k] * e + a[m + k] * fy)
  <2> HIDE DEF fy
  <2> QED BY <1>2, FoldedScalars DEF NextA, fy, f
<1>4. /\ NextB(b, e) \in [1 .. m -> Scalars]
      /\ \A k \in 1 .. m : Cong(NextB(b, e)[k], b[k] * f + b[m + k] * e)
  BY <1>1, FoldedScalars DEF NextB, f
<1>5. /\ NextG(g, e, yn) \in [1 .. m -> Points]
      /\ \A k \in 1 .. m : \A x \in Bases : Cong(NextG(g, e, yn)[k][x], g[k][x] * f + g[m + k][x] * ye)
  <2> HIDE DEF ye
  <2> QED BY <1>1, <1>2, FoldedPoints DEF NextG, ye, f, yi
<1>6. /\ NextH(h, e) \in [1 .. m -> Points]
      /\ \A k \in 1 .. m : \A x \in Bases : Cong(NextH(h, e)[k][x], h[k][x] * e + h[m + k][x] * f)
  BY <1>1, FoldedPoints DEF NextH, f
<1> HIDE DEF fy, ye
<1>7. ASSUME NEW k \in 1 .. m
      PROVE  /\ Cong(NextA(a, e, yn)[k], a[k] * e + (a[m + k] * yn) * f)
             /\ Cong(NextB(b, e)[k], b[m + k] * e + b[k] * f)
             /\ \A x \in Bases : /\ Cong(NextG(g, e, yn)[k][x], g[k][x] * f + (yi * g[m + k][x]) * e)
                                 /\ Cong(NextH(h, e)[k][x], h[m + k][x] * f + h[k][x] * e)
  <2> DEFINE a1 == a[k]
             a2 == a[m + k]
             b1 == b[k]
             b2 == b[m + k]
  <2>1. a1 \in Int /\ a2 \in Int /\ b1 \in Int /\ b2 \in Int
    <3>1. k \in 1 .. m + m /\ m + k \in 1 .. m + m
      OBVIOUS
    <3>2. a1 \in Scalars /\ a2 \in Scalars /\ b1 \in Scalars /\ b2 \in Scalars
      BY <3>1
    <3> QED BY <3>2, QIs
  <2>2. Cong(NextA(a, e, yn)[k], a1 * e + a2 * fy) /\ Cong(NextB(b, e)[k], b1 * f + b2 * e)
    BY <1>3, <1>4
  <2> HIDE DEF a1, a2, b1, b2
  <2>3. Cong(a1 * e + a2 * fy, a1 * e + a2 * (f * yn))
    <3>1. f * yn \in Int
      BY <1>1
    <3> QED BY <1>1, <1>2, <2>1, <3>1, FactorIn
  <2>4. a2 * (f * yn) = (a2 * yn) * f /\ b1 * f + b2 * e = b2 * e + b1 * f
    BY <1>1, <2>1
  <2>5. ASSUME NEW x \in Bases
        PROVE  /\ Cong(NextG(g, e, yn)[k][x], g[k][x] * f + (yi * g[m + k][x]) * e)
               /\ Cong(NextH(h, e)[k][x], h[m + k][x] * f + h[k][x] * e)
    <3> DEFINE g1 == g[k][x]
               g2 == g[m + k][x]
               h1 == h[k][x]
               h2 == h[m + k][x]
    <3>1. g1 \in Int /\ g2 \in Int /\ h1 \in Int /\ h2 \in Int
      BY CoordinateIsInt
    <3>2. Cong(NextG(g, e, yn)[k][x], g1 * f + g2 * ye) /\ Cong(NextH(h, e)[k][x], h1 * e + h2 * f)
      BY <1>5, <1>6
    <3> HIDE DEF g1, g2, h1, h2
    <3>3. Cong(g1 * f + g2 * ye, g1 * f + g2 * (yi * e))
      <4>1. yi * e \in Int
        BY <1>1
      <4> QED BY <1>1, <1>2, <3>1, <4>1, FactorIn
    <3>4. g2 * (yi * e) = (yi * g2) * e /\ h1 * e + h2 * f = h2 * f + h1 * e
      BY <1>1, <3>1
    <3>5. Cong(NextG(g, e, yn)[k][x], g1 * f + (yi * g2) * e)
      BY <3>2, <3>3, <3>4, CongEquiv
    <3>6. Cong(NextH(h, e)[k][x], h2 * f + h1 * e)
      BY <3>2, <3>4
    <3> QED BY <3>5, <3>6 DEF g1, g2, h1, h2
  <2>6. Cong(NextA(a, e, yn)[k], a1 * e + (a2 * yn) * f)
    BY <2>2, <2>3, <2>4, CongEquiv
  <2>7. Cong(NextB(b, e)[k], b2 * e + b1 * f)
    BY <2>2, <2>4
  <2> QED BY <2>5, <2>6, <2>7 DEF a1, a2, b1, b2
<1>8. VectorsOf(NextA(a, e, yn), NextB(b, e), NextG(g, e, yn), NextH(h, e), m)
  BY <1>3, <1>4, <1>5, <1>6 DEF VectorsOf
<1> QED BY <1>7, <1>8 DEF AreNext, f, yi

LEMMA ThreeSums ==
    ASSUME NEW n \in Nat, NEW f \in [1 .. n -> Int], NEW g \in [1 .. n -> Int], NEW q \in [1 .. n -> Int],
           NEW t \in [1 .. n -> Int], NEW d \in Int,
           \A k \in 1 .. n : Cong(t[k], (f[k] + g[k]) + q[k] * d)
    PROVE  /\ Cong(SumFunction(t), (SumFunction(f) + SumFunction(g)) + SumFunction(q) * d)
           /\ SumFunction(t) \in Int /\ SumFunction(f) \in Int /\ SumFunction(g) \in Int /\ SumFunction(q) \in Int
<1> DEFINE u == [k \in 1 .. n |-> f[k] + g[k]]
<1>1. u \in [1 .. n -> Int] /\ \A k \in 1 .. n : u[k] = f[k] + g[k]
  OBVIOUS
<1> HIDE DEF u
<1>2. \A k \in 1 .. n : 1 * f[k] + 1 * g[k] = u[k] /\ 1 * u[k] + d * q[k] = (f[k] + g[k]) + q[k] * d
  BY <1>1
<1>3. (\A k \in 1 .. n : Cong(u[k], 1 * f[k] + 1 * g[k])) /\ \A k \in 1 .. n : Cong(t[k], 1 * u[k] + d * q[k])
  BY <1>2, CongEquiv
<1>4. /\ Cong(SumFunction(u), 1 * SumFunction(f) + 1 * SumFunction(g))
      /\ SumFunction(f) \in Int /\ SumFunction(g) \in Int /\ SumFunction(u) \in Int
  <2>1. Sums(f, g, u, 1, 1)
    BY <1>1, <1>3, SumBoth, 1 \in Int, Zenon
  <2> QED BY <2>1 DEF Sums
<1>5. /\ Cong(SumFunction(t), 1 * SumFunction(u) + d * SumFunction(q))
      /\ SumFunction(q) \in Int /\ SumFunction(t) \in Int
  <2>1. Sums(u, q, t, 1, d)
    BY <1>1, <1>3, SumBoth, 1 \in Int, Zenon
  <2> QED BY <2>1 DEF Sums
<1> DEFINE X == SumFunction(f)
           Y == SumFunction(g)
           Z == SumFunction(q)
           U == SumFunction(u)
           T == SumFunction(t)
           Zd == Z * d
<1>6. X \in Int /\ Y \in Int /\ Z \in Int /\ U \in Int /\ T \in Int /\ Zd \in Int
  BY <1>4, <1>5
<1>7. Cong(U, X + Y)
  <2>1. 1 * X + 1 * Y = X + Y
    BY <1>6
  <2> QED BY <1>4, <2>1
<1>8. Cong(T, U + Zd)
  <2>1. 1 * U + d * Z = U + Z * d
    BY <1>6
  <2> QED BY <1>5, <2>1
<1> HIDE DEF X, Y, Z, U, T, Zd
<1>9. X + Y \in Int /\ Cong(Zd, Zd)
  BY <1>6, CongEquiv
<1>10. Cong(U + Zd, (X + Y) + Zd)
  BY <1>6, <1>7, <1>9, CongOps
<1>11. Cong(T, (X + Y) + Zd)
  BY <1>8, <1>10, CongEquiv
<1> QED BY <1>6, <1>11 DEF X, Y, Z, T, Zd

\* What a side of a round commits to.
LEMMA SideIs ==
    ASSUME NEW m \in Nat, NEW w \in Int, NEW gs \in [1 .. m -> Points], NEW hs \in [1 .. m -> Points],
           NEW a \in [1 .. m -> Scalars], NEW b \in [1 .. m -> Scalars],
           NEW cross \in Scalars, NEW blind \in Scalars, NEW q \in [1 .. m -> Int], NEW t \in [1 .. m -> Int],
           Cong(cross, SumFunction(q)), NEW x \in Bases,
           \A k \in 1 .. m : Cong(t[k], ((a[k] * w) * gs[k][x] + b[k] * hs[k][x]) + q[k] * H[x])
    PROVE  /\ ComputeLR(w, gs, hs, a, b, cross, blind) \in Points
           /\ Cong(8 * ComputeLR(w, gs, hs, a, b, cross, blind)[x], SumFunction(t) + blind * G[x])
<1> DEFINE f == [i \in 1 .. m |-> (a[i] * w) * gs[i][x]]
           g == [i \in 1 .. m |-> b[i] * hs[i][x]]
           p == ComputeLR(w, gs, hs, a, b, cross, blind)
           d == H[x]
           o == G[x]
<1>0. cross \in Int /\ blind \in Int
  BY QIs
<1>1. /\ p \in Points /\ f \in [1 .. m -> Int] /\ g \in [1 .. m -> Int]
      /\ Cong(8 * p[x], (SumFunction(f) + SumFunction(g)) + (blind * o + cross * d))
  <2>1. p \in Points /\ SideOf(p, m, w, gs, hs, a, b, cross, blind, x)
    BY <1>0, ComputeLRIs, Zenon
  <2> QED BY <2>1 DEF SideOf
<1>2. d \in Int /\ o \in Int
  BY CoordinateIsInt, PointsAre
<1>3. \A k \in 1 .. m : Cong(t[k], (f[k] + g[k]) + q[k] * d)
  OBVIOUS
<1> HIDE DEF f, g, p, d, o
<1>4. /\ Cong(SumFunction(t), (SumFunction(f) + SumFunction(g)) + SumFunction(q) * d)
      /\ SumFunction(t) \in Int /\ SumFunction(f) \in Int /\ SumFunction(g) \in Int /\ SumFunction(q) \in Int
  BY <1>1, <1>2, <1>3, ThreeSums
<1> DEFINE X == SumFunction(f)
           Y == SumFunction(g)
           Z == SumFunction(q)
           T == SumFunction(t)
           Zd == Z * d
           cd == cross * d
           bo == blind * o
           XY == X + Y
<1>5. Zd \in Int /\ cd \in Int /\ bo \in Int /\ XY \in Int /\ T \in Int
  BY <1>0, <1>2, <1>4
<1>6. Cong(cd, Zd)
  BY <1>0, <1>2, <1>4, CongTimes
<1>7. Cong(8 * p[x], XY + (bo + cd)) /\ Cong(T, XY + Zd)
  BY <1>1, <1>4
<1> HIDE DEF X, Y, Z, T, Zd, cd, bo, XY
<1>8. Cong(XY + (bo + cd), XY + (bo + Zd))
  <2>1. XY + (bo + cd) = (XY + bo) + cd /\ XY + (bo + Zd) = (XY + bo) + Zd /\ XY + bo \in Int
    BY <1>5
  <2>2. Cong(XY + bo, XY + bo)
    BY CongEquiv
  <2>3. Cong((XY + bo) + cd, (XY + bo) + Zd)
    <3> DEFINE s == XY + bo
    <3>1. s \in Int /\ Cong(s, s)
      BY <2>1, <2>2
    <3> HIDE DEF s
    <3>2. Cong(s + cd, s + Zd)
      BY <1>5, <1>6, <3>1, CongOps
    <3> QED BY <3>2 DEF s
  <2> QED BY <2>1, <2>3
<1>9. Cong(T + bo, XY + (bo + Zd))
  <2>1. XY + Zd \in Int /\ Cong(bo, bo) /\ (XY + Zd) + bo = XY + (bo + Zd)
    BY <1>5, CongEquiv
  <2>2. Cong(T + bo, (XY + Zd) + bo)
    <3> DEFINE s == XY + Zd
    <3>1. s \in Int /\ Cong(T, s)
      BY <1>7, <2>1
    <3> HIDE DEF s
    <3>2. Cong(T + bo, s + bo)
      BY <1>5, <2>1, <3>1, CongOps
    <3> QED BY <3>2 DEF s
  <2> QED BY <2>1, <2>2
<1>10. Cong(8 * p[x], T + bo)
  BY <1>7, <1>8, <1>9, CongEquiv
<1> QED BY <1>1, <1>10 DEF p, T, bo, o

TermL(a, b, g, h, m, yi, x, k) ==
    ((a[k] * yi) * g[m + k][x] + b[m + k] * h[k][x]) + (a[k] * b[m + k]) * (Pw(y)[k] * H[x])
TermR(a, b, g, h, m, yn, x, k) ==
    ((a[m + k] * yn) * g[k][x] + b[k] * h[m + k][x]) + ((a[m + k] * yn) * b[k]) * (Pw(y)[k] * H[x])

FoldedAt(a, b, g, h, n, x) == SumFunction([k \in 1 .. n |-> Term(a, b, g, h, x, k)])
SumL(a, b, g, h, m, yi, x) == SumFunction([k \in 1 .. m |-> TermL(a, b, g, h, m, yi, x, k)])
SumR(a, b, g, h, m, yn, x) == SumFunction([k \in 1 .. m |-> TermR(a, b, g, h, m, yn, x, k)])

EntriesAreInt(a, b, g, h, x, k) ==
    /\ a[k] \in Int /\ b[k] \in Int /\ g[k][x] \in Int /\ h[k][x] \in Int
    /\ Pw(y)[k] * H[x] \in Int /\ Term(a, b, g, h, x, k) \in Int

LEMMA TermIsInt ==
    ASSUME NEW n \in Nat, NEW a \in [1 .. n -> Scalars], NEW b \in [1 .. n -> Scalars],
           NEW g \in [1 .. n -> Points], NEW h \in [1 .. n -> Points], y \in Scalars,
           NEW x \in Bases, NEW k \in 1 .. n
    PROVE  EntriesAreInt(a, b, g, h, x, k)
<1>1. a[k] \in Int /\ b[k] \in Int /\ g[k][x] \in Int /\ h[k][x] \in Int
  <2>1. a[k] \in Scalars /\ b[k] \in Scalars /\ g[k] \in Points /\ h[k] \in Points
    OBVIOUS
  <2> QED BY <2>1, QIs, CoordinateIsInt
<1>2. Pw(y)[k] * H[x] \in Int
  <2>1. k \in Nat /\ y \in Int
    BY QIs
  <2>2. Pw(y)[k] \in Int /\ H[x] \in Int
    BY <2>1, PwIs, PointsAre, CoordinateIsInt
  <2> QED BY <2>2
<1> DEFINE u == a[k] * g[k][x]
           v == b[k] * h[k][x]
           w == a[k] * b[k]
           p == Pw(y)[k] * H[x]
<1>3. u \in Int /\ v \in Int /\ w \in Int /\ p \in Int
  BY <1>1, <1>2
<1>4. Term(a, b, g, h, x, k) = (u + v) + w * p
  BY DEF Term
<1> HIDE DEF u, v, w, p
<1>5. (u + v) + w * p \in Int
  BY <1>3
<1> QED BY <1>1, <1>2, <1>4, <1>5 DEF EntriesAreInt

LEMMA NextAre ==
    ASSUME NEW m \in Nat \ {0}, NEW a, NEW b, NEW g, NEW h, VectorsOf(a, b, g, h, m + m),
           NEW e \in Scalars, e # 0, NEW yn \in Scalars, yn # 0
    PROVE  AreNext(a, b, g, h, m, e, yn)
<1>1. /\ a \in [1 .. m + m -> Scalars] /\ b \in [1 .. m + m -> Scalars]
      /\ g \in [1 .. m + m -> Points] /\ h \in [1 .. m + m -> Points]
  BY DEF VectorsOf
<1> QED BY <1>1, FoldedAre, Zenon

LEMMA EntriesAre ==
    ASSUME NEW n \in Nat, NEW a, NEW b, NEW g, NEW h, VectorsOf(a, b, g, h, n), y \in Scalars,
           NEW x \in Bases, NEW k \in 1 .. n
    PROVE  EntriesAreInt(a, b, g, h, x, k)
<1>1. /\ a \in [1 .. n -> Scalars] /\ b \in [1 .. n -> Scalars]
      /\ g \in [1 .. n -> Points] /\ h \in [1 .. n -> Points]
  BY DEF VectorsOf
<1> QED BY <1>1, TermIsInt, Zenon

LEMMA SidesAreInt ==
    ASSUME NEW m \in Nat \ {0}, NEW a, NEW b, NEW g, NEW h, VectorsOf(a, b, g, h, m + m), y \in Scalars,
           NEW yn \in Int, NEW yi \in Int, NEW x \in Bases, NEW k \in 1 .. m
    PROVE  TermL(a, b, g, h, m, yi, x, k) \in Int /\ TermR(a, b, g, h, m, yn, x, k) \in Int
<1>1. k \in 1 .. m + m /\ m + k \in 1 .. m + m /\ m + m \in Nat
  OBVIOUS
<1> DEFINE a1 == a[k]
           b1 == b[k]
           g1 == g[k][x]
           h1 == h[k][x]
           a2 == a[m + k]
           b2 == b[m + k]
           g2 == g[m + k][x]
           h2 == h[m + k][x]
           w == Pw(y)[k] * H[x]
<1>2. /\ a1 \in Int /\ b1 \in Int /\ g1 \in Int /\ h1 \in Int /\ w \in Int
      /\ a2 \in Int /\ b2 \in Int /\ g2 \in Int /\ h2 \in Int
  BY <1>1, EntriesAre, Zenon DEF EntriesAreInt
<1>3. /\ TermL(a, b, g, h, m, yi, x, k) = ((a1 * yi) * g2 + b2 * h1) + (a1 * b2) * w
      /\ TermR(a, b, g, h, m, yn, x, k) = ((a2 * yn) * g1 + b1 * h2) + ((a2 * yn) * b1) * w
  BY DEF TermL, TermR
<1> HIDE DEF a1, b1, g1, h1, a2, b2, g2, h2, w
<1> DEFINE p == a1 * yi
           q == a1 * b2
           r == a2 * yn
<1>4. p \in Int /\ q \in Int /\ r \in Int /\ r * b1 \in Int
  BY <1>2
<1> HIDE DEF p, q, r
<1>5. (p * g2 + b2 * h1) + q * w \in Int /\ (r * g1 + b1 * h2) + (r * b1) * w \in Int
  <2>1. p * g2 \in Int /\ b2 * h1 \in Int /\ q * w \in Int /\ r * g1 \in Int /\ b1 * h2 \in Int
    BY <1>2, <1>4
  <2>2. (r * b1) * w \in Int
    BY <1>2, <1>4
  <2> QED BY <2>1, <2>2
<1> QED BY <1>3, <1>5 DEF p, q, r

LEMMA TermsFold ==
    ASSUME NEW m \in Nat \ {0}, NEW a, NEW b, NEW g, NEW h, VectorsOf(a, b, g, h, m + m),
           y \in Scalars, y # 0, NEW e \in Scalars, e # 0, NEW x \in Bases, NEW k \in 1 .. m,
           NEW yn, yn = Pw(y)[m]
    PROVE  Cong(Term(NextA(a, e, yn), NextB(b, e), NextG(g, e, yn), NextH(h, e), x, k),
                (Term(a, b, g, h, x, k) + Term(a, b, g, h, x, m + k))
                + ((e * e) * TermL(a, b, g, h, m, Invert(yn), x, k)
                   + (Invert(e) * Invert(e)) * TermR(a, b, g, h, m, yn, x, k)))
<1>1. k \in 1 .. m + m /\ m + k \in 1 .. m + m /\ m + m \in Nat /\ k \in Nat /\ m \in Nat
  OBVIOUS
<1>2. yn \in Scalars /\ yn # 0 /\ y \in Int
  BY PwNotZero, QIs
<1> DEFINE a1 == a[k]
           b1 == b[k]
           g1 == g[k][x]
           h1 == h[k][x]
           a2 == a[m + k]
           b2 == b[m + k]
           g2 == g[m + k][x]
           h2 == h[m + k][x]
           w1 == Pw(y)[k] * H[x]
           w2 == Pw(y)[m + k] * H[x]
           f == Invert(e)
           yi == Invert(yn)
           a3 == NextA(a, e, yn)[k]
           b3 == NextB(b, e)[k]
           g3 == NextG(g, e, yn)[k][x]
           h3 == NextH(h, e)[k][x]
<1>3. /\ a1 \in Int /\ b1 \in Int /\ g1 \in Int /\ h1 \in Int /\ w1 \in Int
      /\ a2 \in Int /\ b2 \in Int /\ g2 \in Int /\ h2 \in Int /\ w2 \in Int
  BY <1>1, EntriesAre, Zenon DEF EntriesAreInt
<1>4. f \in Int /\ yi \in Int /\ e \in Int /\ yn \in Int /\ Cong(e * f, 1) /\ Cong(yn * yi, 1)
  BY <1>2, InvertIs
<1>5. VectorsOf(NextA(a, e, yn), NextB(b, e), NextG(g, e, yn), NextH(h, e), m)
  BY <1>2, NextAre, Zenon DEF AreNext
<1>6. a3 \in Int /\ b3 \in Int /\ g3 \in Int /\ h3 \in Int
  <2>1. m \in Nat
    OBVIOUS
  <2>2. EntriesAreInt(NextA(a, e, yn), NextB(b, e), NextG(g, e, yn), NextH(h, e), x, k)
    BY <1>5, <2>1, EntriesAre, Zenon
  <2> QED BY <2>2 DEF EntriesAreInt
<1>7. /\ Cong(a3, a1 * e + (a2 * yn) * f) /\ Cong(b3, b2 * e + b1 * f)
      /\ Cong(g3, g1 * f + (yi * g2) * e) /\ Cong(h3, h2 * f + h1 * e)
  BY <1>2, NextAre, Zenon DEF AreNext
<1>8. Cong(w2, yn * w1)
  <2> DEFINE p == Pw(y)[k]
             r == Pw(y)[m + k]
             d == H[x]
  <2>1. m + k \in Nat /\ m \in Nat
    OBVIOUS
  <2>2. p \in Int /\ r \in Int /\ d \in Int
    BY <1>1, <1>2, <2>1, PwIs, PointsAre, CoordinateIsInt
  <2>3. Cong(r, yn * p)
    BY <1>1, <1>2, PwAdd
  <2> HIDE DEF p, r, d
  <2>4. yn * p \in Int /\ (yn * p) * d = yn * (p * d)
    BY <1>4, <2>2
  <2>5. Cong(r * d, (yn * p) * d)
    BY <2>2, <2>3, <2>4, CongTimes
  <2> QED BY <2>4, <2>5 DEF p, r, d
<1>9. /\ Term(a, b, g, h, x, k) = (a1 * g1 + b1 * h1) + (a1 * b1) * w1
      /\ Term(a, b, g, h, x, m + k) = (a2 * g2 + b2 * h2) + (a2 * b2) * w2
      /\ TermL(a, b, g, h, m, yi, x, k) = ((a1 * yi) * g2 + b2 * h1) + (a1 * b2) * w1
      /\ TermR(a, b, g, h, m, yn, x, k) = ((a2 * yn) * g1 + b1 * h2) + ((a2 * yn) * b1) * w1
      /\ Term(NextA(a, e, yn), NextB(b, e), NextG(g, e, yn), NextH(h, e), x, k)
            = (a3 * g3 + b3 * h3) + (a3 * b3) * w1
  BY Zenon DEF Term, TermL, TermR
<1> HIDE DEF a1, b1, g1, h1, a2, b2, g2, h2, w1, w2, f, yi, a3, b3, g3, h3
<1>10. Cong((a3 * g3 + b3 * h3) + (a3 * b3) * w1,
            (((a1 * g1 + b1 * h1) + (a1 * b1) * w1) + ((a2 * g2 + b2 * h2) + (a2 * b2) * w2))
            + ((e * e) * (((a1 * yi) * g2 + b2 * h1) + (a1 * b2) * w1)
               + (f * f) * (((a2 * yn) * g1 + b1 * h2) + ((a2 * yn) * b1) * w1)))
  <2>1. FoldsTo(a3, b3, g3, h3, e, f, yn, yi, w1, w2, a1, a2, b1, b2, g1, g2, h1, h2)
    BY <1>3, <1>4, <1>6, <1>7, <1>8, FoldTerm, Zenon
  <2> QED BY <2>1 DEF FoldsTo
<1> QED BY <1>9, <1>10, Zenon DEF f, yi

\* All entries.
LEMMA SumFolds ==
    ASSUME NEW m \in Nat \ {0}, NEW a, NEW b, NEW g, NEW h, VectorsOf(a, b, g, h, m + m),
           y \in Scalars, y # 0, NEW e \in Scalars, e # 0, NEW x \in Bases, NEW yn, yn = Pw(y)[m]
    PROVE  /\ FoldedAt(a, b, g, h, m + m, x) \in Int
           /\ SumL(a, b, g, h, m, Invert(yn), x) \in Int /\ SumR(a, b, g, h, m, yn, x) \in Int
           /\ Cong(FoldedAt(NextA(a, e, yn), NextB(b, e), NextG(g, e, yn), NextH(h, e), m, x),
                   FoldedAt(a, b, g, h, m + m, x)
                   + ((e * e) * SumL(a, b, g, h, m, Invert(yn), x)
                      + (Invert(e) * Invert(e)) * SumR(a, b, g, h, m, yn, x)))
<1> DEFINE a3 == NextA(a, e, yn)
           b3 == NextB(b, e)
           g3 == NextG(g, e, yn)
           h3 == NextH(h, e)
           ee == e * e
           f == Invert(e)
           ff == f * f
           yi == Invert(yn)
           all == [k \in 1 .. m + m |-> Term(a, b, g, h, x, k)]
           low == Cut(all, m)
           high == Shift(all, m, m)
           u == [k \in 1 .. m |-> low[k] + high[k]]
           tl == [k \in 1 .. m |-> TermL(a, b, g, h, m, yi, x, k)]
           tr == [k \in 1 .. m |-> TermR(a, b, g, h, m, yn, x, k)]
           v == [k \in 1 .. m |-> ee * tl[k] + ff * tr[k]]
           t == [k \in 1 .. m |-> Term(a3, b3, g3, h3, x, k)]
<1>1. m \in Nat /\ m + m \in Nat /\ \A k \in 1 .. m : k \in 1 .. m + m /\ m + k \in 1 .. m + m
  OBVIOUS
<1>2. yn \in Scalars /\ yn # 0
  BY PwNotZero
<1>3. f \in Int /\ yi \in Int /\ e \in Int /\ yn \in Int
  BY <1>2, InvertIs
<1>4. ee \in Int /\ ff \in Int
  BY <1>3
<1>5. a3 \in [1 .. m -> Scalars] /\ b3 \in [1 .. m -> Scalars] /\ g3 \in [1 .. m -> Points] /\ h3 \in [1 .. m -> Points]
  <2>1. AreNext(a, b, g, h, m, e, yn)
    BY <1>2, NextAre, Zenon
  <2> QED BY <2>1 DEF AreNext, VectorsOf
<1>6. all \in [1 .. m + m -> Int]
  <2>1. \A k \in 1 .. m + m : Term(a, b, g, h, x, k) \in Int
    BY <1>1, EntriesAre, Zenon DEF EntriesAreInt
  <2> QED BY <2>1
<1>7. t \in [1 .. m -> Int]
  <2>1. \A k \in 1 .. m : Term(a3, b3, g3, h3, x, k) \in Int
    <3> HIDE DEF a3, b3, g3, h3
    <3> QED BY <1>1, <1>5, TermIsInt, Zenon DEF EntriesAreInt
  <2> QED BY <2>1
<1>8. tl \in [1 .. m -> Int] /\ tr \in [1 .. m -> Int]
  <2>1. \A k \in 1 .. m : TermL(a, b, g, h, m, yi, x, k) \in Int /\ TermR(a, b, g, h, m, yn, x, k) \in Int
    <3> HIDE DEF yi
    <3> QED BY <1>3, SidesAreInt
  <2> QED BY <2>1
<1>9. \A k \in 1 .. m : low[k] = Term(a, b, g, h, x, k) /\ high[k] = Term(a, b, g, h, x, m + k)
  BY <1>1 DEF Cut, Shift
<1>10. low \in [1 .. m -> Int] /\ high \in [1 .. m -> Int]
  <2> HIDE DEF all
  <2> QED BY <1>1, <1>6 DEF Cut, Shift
<1>11. \A k \in 1 .. m : Cong(t[k], (low[k] + high[k]) + (ee * tl[k] + ff * tr[k]))
  <2> SUFFICES ASSUME NEW k \in 1 .. m PROVE Cong(t[k], (low[k] + high[k]) + (ee * tl[k] + ff * tr[k]))
    OBVIOUS
  <2>1. Cong(Term(a3, b3, g3, h3, x, k),
             (Term(a, b, g, h, x, k) + Term(a, b, g, h, x, m + k))
             + (ee * TermL(a, b, g, h, m, yi, x, k) + ff * TermR(a, b, g, h, m, yn, x, k)))
    BY TermsFold
  <2>2. /\ t[k] = Term(a3, b3, g3, h3, x, k) /\ tl[k] = TermL(a, b, g, h, m, yi, x, k)
        /\ tr[k] = TermR(a, b, g, h, m, yn, x, k)
        /\ low[k] = Term(a, b, g, h, x, k) /\ high[k] = Term(a, b, g, h, x, m + k)
    BY <1>9
  <2> HIDE DEF a3, b3, g3, h3, all, low, high, t, tl, tr, ee, ff, yi
  <2> QED BY <2>1, <2>2
<1>12. Splits(all, m, m)
  <2> HIDE DEF all
  <2> QED BY <1>1, <1>6, SumSplits
<1>13. /\ FoldedAt(a, b, g, h, m + m, x) = SumFunction(all) /\ FoldedAt(a3, b3, g3, h3, m, x) = SumFunction(t)
       /\ SumL(a, b, g, h, m, yi, x) = SumFunction(tl) /\ SumR(a, b, g, h, m, yn, x) = SumFunction(tr)
  BY DEF FoldedAt, SumL, SumR
<1>14. u \in [1 .. m -> Int] /\ v \in [1 .. m -> Int]
       /\ \A k \in 1 .. m : u[k] = low[k] + high[k] /\ v[k] = ee * tl[k] + ff * tr[k]
  <2> HIDE DEF low, high, tl, tr, ee, ff
  <2>1. ASSUME NEW k \in 1 .. m PROVE low[k] + high[k] \in Int /\ ee * tl[k] + ff * tr[k] \in Int
    <3>1. low[k] \in Int /\ high[k] \in Int /\ tl[k] \in Int /\ tr[k] \in Int
      BY <1>8, <1>10
    <3> QED BY <1>4, <3>1
  <2> QED BY <2>1
<1> HIDE DEF a3, b3, g3, h3, all, low, high, t, tl, tr, ee, ff, yi, u, v
<1>15. /\ \A k \in 1 .. m : Cong(u[k], 1 * low[k] + 1 * high[k])
       /\ \A k \in 1 .. m : Cong(v[k], ee * tl[k] + ff * tr[k])
       /\ \A k \in 1 .. m : Cong(t[k], 1 * u[k] + 1 * v[k])
  <2> SUFFICES ASSUME NEW k \in 1 .. m
               PROVE  /\ Cong(u[k], 1 * low[k] + 1 * high[k]) /\ Cong(v[k], ee * tl[k] + ff * tr[k])
                      /\ Cong(t[k], 1 * u[k] + 1 * v[k])
    OBVIOUS
  <2>1. low[k] \in Int /\ high[k] \in Int /\ u[k] \in Int /\ v[k] \in Int
    BY <1>10, <1>14
  <2>2. u[k] = 1 * low[k] + 1 * high[k] /\ v[k] = ee * tl[k] + ff * tr[k] /\ 1 * u[k] + 1 * v[k] = u[k] + v[k]
    BY <1>14, <2>1
  <2>3. Cong(t[k], u[k] + v[k])
    BY <1>11, <1>14
  <2> QED BY <2>2, <2>3, CongEquiv
<1>16. /\ Cong(SumFunction(u), 1 * SumFunction(low) + 1 * SumFunction(high))
       /\ SumFunction(u) \in Int /\ SumFunction(low) \in Int /\ SumFunction(high) \in Int
  <2>1. Sums(low, high, u, 1, 1)
    BY <1>1, <1>10, <1>14, <1>15, SumBoth, 1 \in Int, Zenon
  <2> QED BY <2>1 DEF Sums
<1>17. /\ Cong(SumFunction(v), ee * SumFunction(tl) + ff * SumFunction(tr))
       /\ SumFunction(v) \in Int /\ SumFunction(tl) \in Int /\ SumFunction(tr) \in Int
  <2>1. Sums(tl, tr, v, ee, ff)
    BY <1>1, <1>4, <1>8, <1>14, <1>15, SumBoth, Zenon
  <2> QED BY <2>1 DEF Sums
<1>18. Cong(SumFunction(t), 1 * SumFunction(u) + 1 * SumFunction(v)) /\ SumFunction(t) \in Int
  <2>1. Sums(u, v, t, 1, 1)
    BY <1>1, <1>7, <1>14, <1>15, SumBoth, 1 \in Int, Zenon
  <2> QED BY <2>1 DEF Sums
<1> DEFINE U == SumFunction(u)
           V0 == SumFunction(v)
           T == SumFunction(t)
           S0 == SumFunction(all)
           E == ee * SumFunction(tl) + ff * SumFunction(tr)
<1>19. S0 \in Int /\ Cong(U, S0)
  <2>1. S0 = SumFunction(low) + SumFunction(high)
    BY <1>12 DEF Splits, low, high
  <2>2. 1 * SumFunction(low) + 1 * SumFunction(high) = S0
    BY <1>16, <2>1
  <2> QED BY <1>16, <2>1, <2>2
<1>20. E \in Int
  BY <1>4, <1>17
<1>21. 1 * U + 1 * V0 = U + V0
  BY <1>16, <1>17
<1>22. Cong(V0, E) /\ Cong(T, U + V0) /\ U \in Int /\ V0 \in Int
  BY <1>16, <1>17, <1>18, <1>21
<1> HIDE DEF U, V0, T, S0, E
<1>23. Cong(U + V0, S0 + E)
  BY <1>19, <1>20, <1>22, CongOps
<1>24. Cong(T, S0 + E)
  BY <1>22, <1>23, CongEquiv
<1>25. Cong(FoldedAt(a3, b3, g3, h3, m, x), FoldedAt(a, b, g, h, m + m, x)
           + (ee * SumL(a, b, g, h, m, yi, x) + ff * SumR(a, b, g, h, m, yn, x)))
  BY <1>13, <1>24 DEF T, S0, E
<1> QED BY <1>13, <1>17, <1>19, <1>25, Zenon DEF S0, a3, b3, g3, h3, ee, ff, yi, f

-----------------------------------------------------------------------------
(* A round: what L and R add is what folding changes.                           *)

LeftSum(a, b, g, h, yn, blind) ==
    ComputeLR(Invert(yn), Halves(g).high, Halves(h).low, Halves(a).low, Halves(b).high,
              WeightedInnerProduct(Halves(a).low, Halves(b).high), blind)
RightSum(a, b, g, h, yn, blind) ==
    ComputeLR(yn, Halves(g).low, Halves(h).high, Halves(a).high, Halves(b).low,
              WeightedInnerProduct(VectorScalar(Halves(a).high, yn), Halves(b).low), blind)

Products(a, b, n) == [k \in 1 .. n |-> (a[k] * b[k]) * Pw(y)[k]]
IsWeighted(s, a, b, n) ==
    s \in Scalars /\ Products(a, b, n) \in [1 .. n -> Int] /\ Cong(s, SumFunction(Products(a, b, n)))

LEMMA InnerIs ==
    ASSUME NEW m \in Nat, NEW a \in [1 .. m -> Scalars], NEW b \in [1 .. m -> Scalars], y \in Scalars
    PROVE  IsWeighted(WeightedInnerProduct(a, b), a, b, m)
<1>1. LET f == [k \in 1 .. m |-> (a[k] * b[k]) * Pw(y)[k]]
      IN  /\ WeightedInnerProduct(a, b) \in Scalars
          /\ f \in [1 .. m -> Int] /\ Cong(WeightedInnerProduct(a, b), SumFunction(f))
  BY WeightedIs, Zenon
<1> QED BY <1>1 DEF IsWeighted, Products

IsSide(p, s, blind, x) == p \in Points /\ Cong(8 * p[x], s + blind * G[x])

LEMMA SidePointIs ==
    ASSUME NEW m \in Nat, NEW w \in Int, NEW gs \in [1 .. m -> Points], NEW hs \in [1 .. m -> Points],
           NEW a \in [1 .. m -> Scalars], NEW b \in [1 .. m -> Scalars],
           NEW cross \in Scalars, NEW blind \in Scalars, NEW q \in [1 .. m -> Int], NEW t \in [1 .. m -> Int],
           Cong(cross, SumFunction(q)), NEW x \in Bases,
           \A k \in 1 .. m : Cong(t[k], ((a[k] * w) * gs[k][x] + b[k] * hs[k][x]) + q[k] * H[x])
    PROVE  IsSide(ComputeLR(w, gs, hs, a, b, cross, blind), SumFunction(t), blind, x)
BY SideIs DEF IsSide

LEMMA LeftIs ==
    ASSUME NEW m \in Nat \ {0}, NEW a, NEW b, NEW g, NEW h, VectorsOf(a, b, g, h, m + m), y \in Scalars,
           NEW yn \in Scalars, yn # 0, NEW blind \in Scalars, NEW x \in Bases
    PROVE  IsSide(LeftSum(a, b, g, h, yn, blind), SumL(a, b, g, h, m, Invert(yn), x), blind, x)
<1> DEFINE al == Halves(a).low
           bh == Halves(b).high
           gh == Halves(g).high
           hl == Halves(h).low
           yi == Invert(yn)
           q == Products(al, bh, m)
           t == [k \in 1 .. m |-> TermL(a, b, g, h, m, yi, x, k)]
           cross == WeightedInnerProduct(al, bh)
<1>1. /\ a \in [1 .. m + m -> Scalars] /\ b \in [1 .. m + m -> Scalars]
      /\ g \in [1 .. m + m -> Points] /\ h \in [1 .. m + m -> Points] /\ m \in Nat
  BY DEF VectorsOf
<1>2. AreHalves(a, m, Scalars) /\ AreHalves(b, m, Scalars) /\ AreHalves(g, m, Points) /\ AreHalves(h, m, Points)
  BY <1>1, HalvesAre, Zenon
<1>3. /\ al \in [1 .. m -> Scalars] /\ bh \in [1 .. m -> Scalars]
      /\ gh \in [1 .. m -> Points] /\ hl \in [1 .. m -> Points]
      /\ al = [k \in 1 .. m |-> a[k]] /\ bh = [k \in 1 .. m |-> b[m + k]]
      /\ gh = [k \in 1 .. m |-> g[m + k]] /\ hl = [k \in 1 .. m |-> h[k]]
  BY <1>2 DEF AreHalves
<1>4. yi \in Int
  BY InvertIs
<1> HIDE DEF al, bh, gh, hl
<1>5. IsWeighted(cross, al, bh, m)
  BY <1>1, <1>3, InnerIs, Zenon
<1>6. cross \in Scalars /\ q \in [1 .. m -> Int] /\ Cong(cross, SumFunction(q))
  BY <1>5 DEF IsWeighted
<1>7. t \in [1 .. m -> Int]
  <2>1. \A k \in 1 .. m : TermL(a, b, g, h, m, yi, x, k) \in Int
    <3> HIDE DEF yi
    <3> QED BY <1>4, SidesAreInt
  <2> QED BY <2>1
<1>8. ASSUME NEW k \in 1 .. m
      PROVE  Cong(t[k], ((al[k] * yi) * gh[k][x] + bh[k] * hl[k][x]) + q[k] * H[x])
  <2> DEFINE u == (a[k] * yi) * g[m + k][x] + b[m + k] * h[k][x]
             ab == a[k] * b[m + k]
             p == Pw(y)[k]
             d == H[x]
  <2>1. t[k] = u + ab * (p * d)
    BY DEF TermL
  <2>2. /\ al[k] = a[k] /\ bh[k] = b[m + k] /\ gh[k] = g[m + k] /\ hl[k] = h[k]
        /\ q[k] = (al[k] * bh[k]) * p
    BY <1>3 DEF Products
  <2>3. ((al[k] * yi) * gh[k][x] + bh[k] * hl[k][x]) + q[k] * H[x] = u + (ab * p) * d
    BY <2>2
  <2>4. k \in Nat /\ y \in Int /\ k \in 1 .. m + m /\ m + k \in 1 .. m + m
    BY <1>1, QIs
  <2>5. ab \in Int /\ p \in Int /\ d \in Int
    <3>1. a[k] \in Scalars /\ b[m + k] \in Scalars
      BY <1>1, <2>4
    <3>2. p \in Int /\ d \in Int
      BY <2>4, PwIs, PointsAre, CoordinateIsInt
    <3>3. a[k] \in Int /\ b[m + k] \in Int
      BY <3>1, QIs
    <3> QED BY <3>2, <3>3
  <2> HIDE DEF u, ab, p, d, t, q, yi
  <2>6. ab * (p * d) = (ab * p) * d
    BY <2>5
  <2> QED BY <2>1, <2>3, <2>6, CongEquiv
<1>9. SumL(a, b, g, h, m, yi, x) = SumFunction(t)
  BY DEF SumL
<1>10. LeftSum(a, b, g, h, yn, blind) = ComputeLR(yi, gh, hl, al, bh, cross, blind)
  BY Zenon DEF LeftSum, al, bh, gh, hl
<1> HIDE DEF t, q, yi, cross
<1>11. IsSide(ComputeLR(yi, gh, hl, al, bh, cross, blind), SumFunction(t), blind, x)
  BY <1>1, <1>3, <1>4, <1>6, <1>7, <1>8, SidePointIs, Zenon
<1> QED BY <1>9, <1>10, <1>11, Zenon DEF yi

LEMMA RightIs ==
    ASSUME NEW m \in Nat \ {0}, NEW a, NEW b, NEW g, NEW h, VectorsOf(a, b, g, h, m + m), y \in Scalars,
           NEW yn \in Scalars, NEW blind \in Scalars, NEW x \in Bases
    PROVE  IsSide(RightSum(a, b, g, h, yn, blind), SumR(a, b, g, h, m, yn, x), blind, x)
<1> DEFINE ah == Halves(a).high
           bl == Halves(b).low
           gl == Halves(g).low
           hh == Halves(h).high
           av == VectorScalar(ah, yn)
           s == Products(av, bl, m)
           q == [k \in 1 .. m |-> ((a[m + k] * yn) * b[k]) * Pw(y)[k]]
           t == [k \in 1 .. m |-> TermR(a, b, g, h, m, yn, x, k)]
           cross == WeightedInnerProduct(av, bl)
<1>1. /\ a \in [1 .. m + m -> Scalars] /\ b \in [1 .. m + m -> Scalars]
      /\ g \in [1 .. m + m -> Points] /\ h \in [1 .. m + m -> Points] /\ m \in Nat
  BY DEF VectorsOf
<1>2. AreHalves(a, m, Scalars) /\ AreHalves(b, m, Scalars) /\ AreHalves(g, m, Points) /\ AreHalves(h, m, Points)
  BY <1>1, HalvesAre, Zenon
<1>3. /\ ah \in [1 .. m -> Scalars] /\ bl \in [1 .. m -> Scalars]
      /\ gl \in [1 .. m -> Points] /\ hh \in [1 .. m -> Points]
      /\ ah = [k \in 1 .. m |-> a[m + k]] /\ bl = [k \in 1 .. m |-> b[k]]
      /\ gl = [k \in 1 .. m |-> g[k]] /\ hh = [k \in 1 .. m |-> h[m + k]]
  BY <1>2 DEF AreHalves
<1>4. yn \in Int /\ y \in Int
  BY QIs
<1> HIDE DEF ah, bl, gl, hh
<1>5. /\ av = [k \in 1 .. m |-> ScMul(ah[k], yn)]
      /\ \A k \in 1 .. m : ah[k] \in Int /\ bl[k] \in Int /\ ScMul(ah[k], yn) \in Scalars
  <2>1. DOMAIN ah = 1 .. m
    BY <1>3
  <2>2. av = [k \in 1 .. m |-> ScMul(ah[k], yn)]
    BY <2>1 DEF VectorScalar
  <2>3. \A k \in 1 .. m : ah[k] \in Int /\ bl[k] \in Int
    BY <1>3, QIs
  <2> QED BY <1>4, <2>2, <2>3, ScalarOps
<1>6. av \in [1 .. m -> Scalars]
  BY <1>5
<1> HIDE DEF av
<1>7. IsWeighted(cross, av, bl, m)
  BY <1>1, <1>3, <1>6, InnerIs, Zenon
<1>8. cross \in Scalars /\ s \in [1 .. m -> Int] /\ Cong(cross, SumFunction(s))
  BY <1>7 DEF IsWeighted
<1>9. ASSUME NEW k \in 1 .. m
      PROVE  /\ a[m + k] \in Int /\ b[k] \in Int /\ Pw(y)[k] \in Int /\ H[x] \in Int
             /\ q[k] \in Int /\ Cong(s[k], q[k])
  <2>1. k \in Nat /\ k \in 1 .. m + m /\ m + k \in 1 .. m + m
    BY <1>1
  <2>2. a[m + k] \in Int /\ b[k] \in Int
    BY <1>1, <2>1, QIs
  <2>3. Pw(y)[k] \in Int /\ H[x] \in Int
    BY <1>4, <2>1, PwIs, PointsAre, CoordinateIsInt
  <2> DEFINE u == a[m + k] * yn
             v == ScMul(ah[k], yn)
             w == b[k]
             p == Pw(y)[k]
  <2>4. u \in Int /\ v \in Int /\ w \in Int /\ p \in Int /\ Cong(v, u)
    <3>1. ah[k] = a[m + k]
      BY <1>3
    <3>2. v \in Int /\ Cong(v, u)
      BY <1>4, <2>2, <3>1, ScalarOps, QIs
    <3> QED BY <1>4, <2>2, <2>3, <3>2
  <2>5. s[k] = (v * w) * p /\ q[k] = (u * w) * p
    BY <1>3, <1>5 DEF Products
  <2> HIDE DEF u, v, w, p, s, q
  <2>6. Cong(v * w, u * w)
    BY <2>4, CongTimes
  <2>7. v * w \in Int /\ u * w \in Int /\ (u * w) * p \in Int
    BY <2>4
  <2>8. Cong((v * w) * p, (u * w) * p)
    BY <2>4, <2>6, <2>7, CongTimes
  <2> QED BY <2>2, <2>3, <2>5, <2>7, <2>8
<1>10. q \in [1 .. m -> Int]
  <2>1. \A k \in 1 .. m : ((a[m + k] * yn) * b[k]) * Pw(y)[k] \in Int
    BY <1>9
  <2> QED BY <2>1
<1>11. t \in [1 .. m -> Int]
  <2>1. \A k \in 1 .. m : TermR(a, b, g, h, m, yn, x, k) \in Int
    BY <1>4, SidesAreInt
  <2> QED BY <2>1
<1>12. Cong(cross, SumFunction(q))
  <2> HIDE DEF s, q, cross
  <2>1. \A k \in 1 .. m : Cong(s[k], q[k])
    BY <1>9
  <2>2. Cong(SumFunction(s), SumFunction(q))
    BY <1>1, <1>8, <1>10, <2>1, SumCong
  <2> QED BY <1>8, <2>2, CongEquiv
<1>13. ASSUME NEW k \in 1 .. m
       PROVE  Cong(t[k], ((ah[k] * yn) * gl[k][x] + bl[k] * hh[k][x]) + q[k] * H[x])
  <2> DEFINE u == (a[m + k] * yn) * g[k][x] + b[k] * h[m + k][x]
             ub == (a[m + k] * yn) * b[k]
             p == Pw(y)[k]
             d == H[x]
  <2>1. t[k] = u + ub * (p * d)
    BY DEF TermR
  <2>2. ((ah[k] * yn) * gl[k][x] + bl[k] * hh[k][x]) + q[k] * H[x] = u + (ub * p) * d
    BY <1>3
  <2>3. ub \in Int /\ p \in Int /\ d \in Int
    BY <1>4, <1>9
  <2> HIDE DEF u, ub, p, d, t, q
  <2>4. ub * (p * d) = (ub * p) * d
    BY <2>3
  <2> QED BY <2>1, <2>2, <2>4, CongEquiv
<1>14. SumR(a, b, g, h, m, yn, x) = SumFunction(t)
  BY DEF SumR
<1>15. RightSum(a, b, g, h, yn, blind) = ComputeLR(yn, gl, hh, ah, bl, cross, blind)
  BY Zenon DEF RightSum, ah, bl, gl, hh, av
<1> HIDE DEF t, q, cross, s
<1>16. IsSide(ComputeLR(yn, gl, hh, ah, bl, cross, blind), SumFunction(t), blind, x)
  BY <1>1, <1>3, <1>4, <1>8, <1>10, <1>11, <1>12, <1>13, SidePointIs, Zenon
<1> QED BY <1>14, <1>15, <1>16, Zenon

LEMMA CongPlus ==
    ASSUME NEW a \in Int, NEW b \in Int, NEW d \in Int, Cong(a, b)
    PROVE  Cong(a + d, b + d) /\ Cong(d + a, d + b)
<1>1. Cong(d, d)
  BY CongEquiv
<1> QED BY <1>1, CongOps

\* What a round adds, in eighths of L and R.
LEMMA RoundPointIs ==
    ASSUME NEW e \in Scalars, NEW f \in Scalars, NEW p \in Points, NEW q \in Points
    PROVE  LET r == AddPoints(ScalarMult(ScMul(8, ScMul(e, e)), p), ScalarMult(ScMul(8, ScMul(f, f)), q))
           IN  r \in Points /\ \A x \in Bases : Cong(r[x], (e * e) * (8 * p[x]) + (f * f) * (8 * q[x]))
<1> DEFINE u == ScMul(8, ScMul(e, e))
           v == ScMul(8, ScMul(f, f))
           r == AddPoints(ScalarMult(u, p), ScalarMult(v, q))
<1>1. ASSUME NEW i \in Scalars
      PROVE  ScMul(8, ScMul(i, i)) \in Int /\ Cong(ScMul(8, ScMul(i, i)), 8 * (i * i)) /\ i * i \in Int
  <2> DEFINE k == ScMul(i, i)
             l == ScMul(8, k)
             ii == i * i
  <2>1. i \in Int /\ 8 \in Int
    BY QIs
  <2>2. ii \in Int
    BY <2>1
  <2>3. k \in Int /\ Cong(k, ii)
    BY <2>1, ScalarOps, QIs
  <2> HIDE DEF k
  <2>4. l \in Int /\ Cong(l, 8 * k)
    BY <2>1, <2>3, ScalarOps, QIs
  <2> HIDE DEF l, ii
  <2>5. Cong(8 * k, 8 * ii)
    BY <2>1, <2>2, <2>3, CongTimes
  <2>6. Cong(l, 8 * ii)
    BY <2>4, <2>5, CongEquiv
  <2> QED BY <2>2, <2>4, <2>6 DEF l, k, ii
<1>2. u \in Int /\ v \in Int /\ Cong(u, 8 * (e * e)) /\ Cong(v, 8 * (f * f)) /\ e * e \in Int /\ f * f \in Int
  BY <1>1
<1> DEFINE ee == e * e
           ff == f * f
<1>3. ee \in Int /\ ff \in Int /\ Cong(u, 8 * ee) /\ Cong(v, 8 * ff)
  BY <1>2
<1> HIDE DEF u, v, ee, ff
<1>4. r \in Points /\ \A x \in Bases : Cong(r[x], p[x] * u + q[x] * v)
  BY <1>2, SumOfMultiples
<1> HIDE DEF r
<1>5. ASSUME NEW x \in Bases PROVE Cong(r[x], ee * (8 * p[x]) + ff * (8 * q[x]))
  <2> DEFINE px == p[x]
             qx == q[x]
  <2>1. px \in Int /\ qx \in Int
    BY CoordinateIsInt
  <2>2. Cong(r[x], px * u + qx * v)
    BY <1>4
  <2> HIDE DEF px, qx
  <2>3. 8 * ee \in Int /\ 8 * ff \in Int
    BY <1>3
  <2>4. Cong(px * u, px * (8 * ee)) /\ Cong(qx * v, qx * (8 * ff))
    BY <1>2, <1>3, <2>1, <2>3, CongTimes
  <2>5. px * (8 * ee) = ee * (8 * px) /\ qx * (8 * ff) = ff * (8 * qx)
    BY <1>3, <2>1
  <2> DEFINE s == px * u
             t == qx * v
             s2 == ee * (8 * px)
             t2 == ff * (8 * qx)
  <2>6. s \in Int /\ t \in Int /\ s2 \in Int /\ t2 \in Int
    BY <1>2, <1>3, <2>1
  <2>7. Cong(s, s2) /\ Cong(t, t2)
    BY <2>4, <2>5
  <2> HIDE DEF s, t, s2, t2
  <2>8. Cong(s + t, s2 + t2)
    BY <2>6, <2>7, CongOps
  <2>9. Cong(r[x], s2 + t2)
    BY <2>2, <2>8, CongEquiv DEF s, t
  <2> QED BY <2>9 DEF s2, t2, px, qx
<1> QED BY <1>4, <1>5 DEF r, u, v, ee, ff

AddsPoint(e, p, q, x) ==
    RoundPoint(e, p, q) \in Points
    /\ Cong(RoundPoint(e, p, q)[x], (e * e) * (8 * p[x]) + (Invert(e) * Invert(e)) * (8 * q[x]))

LEMMA RoundAdds ==
    ASSUME NEW e \in Scalars, e # 0, NEW p \in Points, NEW q \in Points, NEW x \in Bases
    PROVE  AddsPoint(e, p, q, x)
<1> DEFINE f == Invert(e)
           r == AddPoints(ScalarMult(ScMul(8, ScMul(e, e)), p), ScalarMult(ScMul(8, ScMul(f, f)), q))
<1>1. f \in Scalars
  BY InvertIs
<1>2. RoundPoint(e, p, q) = r
  BY DEF RoundPoint
<1>3. r \in Points /\ \A b \in Bases : Cong(r[b], (e * e) * (8 * p[b]) + (f * f) * (8 * q[b]))
  <2> HIDE DEF f
  <2> QED BY <1>1, RoundPointIs
<1> HIDE DEF r, f
<1> QED BY <1>2, <1>3 DEF AddsPoint, f

\* The blinding.
LEMMA BlindIs ==
    ASSUME NEW alpha \in Scalars, NEW r \in Scalars, NEW s \in Scalars, NEW e \in Scalars, NEW f \in Scalars
    PROVE  LET next == ScMulAdd(s, ScMul(f, f), ScMulAdd(r, ScMul(e, e), alpha))
           IN  next \in Scalars /\ Cong(next, alpha + ((e * e) * r + (f * f) * s))
<1> DEFINE e2 == ScMul(e, e)
           f2 == ScMul(f, f)
           ee == e * e
           ff == f * f
           mid == ScMulAdd(r, e2, alpha)
           next == ScMulAdd(s, f2, mid)
<1>1. alpha \in Int /\ r \in Int /\ s \in Int /\ e \in Int /\ f \in Int
  BY QIs
<1>2. e2 \in Int /\ f2 \in Int /\ Cong(e2, ee) /\ Cong(f2, ff) /\ ee \in Int /\ ff \in Int
  <2>1. ASSUME NEW i \in Int PROVE ScMul(i, i) \in Int /\ Cong(ScMul(i, i), i * i) /\ i * i \in Int
    <3>1. ScMul(i, i) \in Scalars /\ Cong(ScMul(i, i), i * i)
      BY ScalarOps
    <3>2. i * i \in Int
      OBVIOUS
    <3> QED BY <3>1, <3>2, QIs
  <2> QED BY <1>1, <2>1
<1> HIDE DEF e2, f2, ee, ff
<1>3. r * e2 + alpha \in Int /\ r * ee \in Int /\ r * e2 \in Int
  BY <1>1, <1>2
<1>4. mid \in Int /\ Cong(mid, r * e2 + alpha)
  BY <1>3, Reduced DEF ScMulAdd
<1>5. Cong(mid, r * ee + alpha)
  <2>1. Cong(r * e2, r * ee)
    BY <1>1, <1>2, CongTimes
  <2>2. Cong(r * e2 + alpha, r * ee + alpha)
    BY <1>1, <1>3, <2>1, CongPlus
  <2> QED BY <1>4, <2>2, CongEquiv
<1> HIDE DEF mid
<1>6. s * f2 + mid \in Int /\ s * f2 \in Int /\ s * ff \in Int
  BY <1>1, <1>2, <1>4
<1>7. next \in Scalars /\ Cong(next, s * f2 + mid)
  BY <1>6, Reduced DEF ScMulAdd
<1>8. Cong(s * f2, s * ff)
  BY <1>1, <1>2, CongTimes
<1>9. r * ee + alpha \in Int
  BY <1>1, <1>3
<1>10. Cong(s * f2 + mid, s * ff + (r * ee + alpha))
  BY <1>4, <1>5, <1>6, <1>8, <1>9, CongOps
<1>11. s * ff + (r * ee + alpha) = alpha + (ee * r + ff * s)
  BY <1>1, <1>2
<1> HIDE DEF next
<1>12. Cong(next, alpha + (ee * r + ff * s))
  BY <1>7, <1>10, <1>11, CongEquiv
<1> QED BY <1>7, <1>12 DEF next, mid, e2, f2, ee, ff

\* The arithmetic of one base.
RoundBalances(F2, alpha2, F, alpha, P, Gx) == Cong(F2 + alpha2 * Gx, (F + alpha * Gx) + P)

LEMMA RoundArithmetic ==
    ASSUME NEW F \in Int, NEW F2 \in Int, NEW sL \in Int, NEW sR \in Int, NEW ee \in Int, NEW ff \in Int,
           NEW alpha \in Int, NEW alpha2 \in Int, NEW r \in Int, NEW s \in Int, NEW Gx \in Int,
           NEW l \in Int, NEW q \in Int, NEW P \in Int,
           Cong(F2, F + (ee * sL + ff * sR)), Cong(alpha2, alpha + (ee * r + ff * s)),
           Cong(l, sL + r * Gx), Cong(q, sR + s * Gx), Cong(P, ee * l + ff * q)
    PROVE  RoundBalances(F2, alpha2, F, alpha, P, Gx)
<1> DEFINE rG == r * Gx
           sG == s * Gx
           er == ee * r
           fs == ff * s
           eL == ee * sL
           fR == ff * sR
           erG == er * Gx
           fsG == fs * Gx
           aG == alpha * Gx
           el == ee * l
           fq == ff * q
           a2G == alpha2 * Gx
<1>1. /\ rG \in Int /\ sG \in Int /\ er \in Int /\ fs \in Int /\ eL \in Int /\ fR \in Int /\ aG \in Int
      /\ el \in Int /\ fq \in Int /\ a2G \in Int
  OBVIOUS
<1>2. erG \in Int /\ fsG \in Int
  BY <1>1
<1>3. Cong(el, eL + erG)
  <2>1. Cong(el, ee * (sL + rG))
    BY <1>1, CongTimes
  <2>2. ee * (sL + rG) = eL + ee * rG
    BY <1>1
  <2>3. ee * rG = erG
    OBVIOUS
  <2> QED BY <2>1, <2>2, <2>3
<1>4. Cong(fq, fR + fsG)
  <2>1. Cong(fq, ff * (sR + sG))
    BY <1>1, CongTimes
  <2>2. ff * (sR + sG) = fR + ff * sG
    BY <1>1
  <2>3. ff * sG = fsG
    OBVIOUS
  <2> QED BY <2>1, <2>2, <2>3
<1>5. Cong(a2G, aG + (erG + fsG))
  <2>1. Cong(a2G, (alpha + (er + fs)) * Gx)
    <3> DEFINE to == alpha + (er + fs)
    <3>1. to \in Int /\ Cong(alpha2, to)
      BY <1>1
    <3> HIDE DEF to
    <3>2. Cong(alpha2 * Gx, to * Gx)
      BY <3>1, CongTimes
    <3> QED BY <3>2 DEF to
  <2>2. (alpha + (er + fs)) * Gx = aG + (erG + fsG)
    <3> HIDE DEF er, fs
    <3>1. (alpha + (er + fs)) * Gx = alpha * Gx + (er + fs) * Gx
      BY <1>1
    <3>2. (er + fs) * Gx = er * Gx + fs * Gx
      BY <1>1
    <3> QED BY <3>1, <3>2
  <2> QED BY <2>1, <2>2
<1>6. Cong(F2, F + (eL + fR)) /\ Cong(P, el + fq)
  OBVIOUS
<1> HIDE DEF rG, sG, er, fs, eL, fR, erG, fsG, aG, el, fq, a2G
<1>7. Cong(P, (eL + erG) + (fR + fsG))
  <2>1. Cong(el + fq, (eL + erG) + (fR + fsG))
    BY <1>1, <1>2, <1>3, <1>4, CongOps
  <2> QED BY <1>6, <2>1, CongEquiv
<1>8. Cong((F + aG) + P, (F + aG) + ((eL + erG) + (fR + fsG)))
  <2>1. (eL + erG) + (fR + fsG) \in Int /\ F + aG \in Int
    BY <1>1, <1>2
  <2> QED BY <1>7, <2>1, CongPlus
<1>9. Cong(F2 + a2G, (F + (eL + fR)) + (aG + (erG + fsG)))
  BY <1>1, <1>2, <1>5, <1>6, CongOps
<1>10. (F + (eL + fR)) + (aG + (erG + fsG)) = (F + aG) + ((eL + erG) + (fR + fsG))
  BY <1>1, <1>2
<1>11. Cong(F2 + a2G, (F + aG) + P)
  BY <1>8, <1>9, <1>10, CongEquiv
<1> QED BY <1>11 DEF RoundBalances, a2G, aG

NextAlpha(e, alpha, r, s) ==
    ScMulAdd(s, ScMul(Invert(e), Invert(e)), ScMulAdd(r, ScMul(e, e), alpha))

LEMMA NextAlphaIs ==
    ASSUME NEW e \in Scalars, e # 0, NEW alpha \in Scalars, NEW r \in Scalars, NEW s \in Scalars
    PROVE  /\ NextAlpha(e, alpha, r, s) \in Scalars
           /\ Cong(NextAlpha(e, alpha, r, s), alpha + ((e * e) * r + (Invert(e) * Invert(e)) * s))
<1> DEFINE f == Invert(e)
           next == ScMulAdd(s, ScMul(f, f), ScMulAdd(r, ScMul(e, e), alpha))
<1>1. f \in Scalars
  BY InvertIs
<1>2. next \in Scalars /\ Cong(next, alpha + ((e * e) * r + (f * f) * s))
  <2> HIDE DEF f
  <2> QED BY <1>1, BlindIs
<1> QED BY <1>2 DEF NextAlpha

\* The vectors of one round stand for what those of the round before do, and the
\* eighths of L and R.
LEMMA RoundFolds ==
    ASSUME NEW m \in Nat \ {0}, NEW a, NEW b, NEW g, NEW h, VectorsOf(a, b, g, h, m + m),
           y \in Scalars, y # 0, NEW e \in Scalars, e # 0, NEW yn, yn = Pw(y)[m],
           NEW alpha \in Scalars, NEW r \in Scalars, NEW s \in Scalars, NEW x \in Bases
    PROVE  RoundBalances(FoldedAt(NextA(a, e, yn), NextB(b, e), NextG(g, e, yn), NextH(h, e), m, x),
                         NextAlpha(e, alpha, r, s), FoldedAt(a, b, g, h, m + m, x), alpha,
                         RoundPoint(e, LeftSum(a, b, g, h, yn, r), RightSum(a, b, g, h, yn, s))[x], G[x])
<1> DEFINE f == Invert(e)
           yi == Invert(yn)
           ee == e * e
           ff == f * f
           F == FoldedAt(a, b, g, h, m + m, x)
           F2 == FoldedAt(NextA(a, e, yn), NextB(b, e), NextG(g, e, yn), NextH(h, e), m, x)
           sL == SumL(a, b, g, h, m, yi, x)
           sR == SumR(a, b, g, h, m, yn, x)
           left == LeftSum(a, b, g, h, yn, r)
           right == RightSum(a, b, g, h, yn, s)
           P == RoundPoint(e, left, right)
           alpha2 == NextAlpha(e, alpha, r, s)
           l == 8 * left[x]
           q == 8 * right[x]
<1>1. m \in Nat /\ yn \in Scalars /\ yn # 0
  BY PwNotZero
<1>2. F \in Int /\ sL \in Int /\ sR \in Int /\ Cong(F2, F + (ee * sL + ff * sR))
  BY SumFolds
<1>3. F2 \in Int
  <2>1. AreNext(a, b, g, h, m, e, yn)
    BY <1>1, NextAre, Zenon
  <2>2. VectorsOf(NextA(a, e, yn), NextB(b, e), NextG(g, e, yn), NextH(h, e), m)
    BY <2>1 DEF AreNext
  <2>3. ASSUME NEW k \in 1 .. m
        PROVE  Term(NextA(a, e, yn), NextB(b, e), NextG(g, e, yn), NextH(h, e), x, k) \in Int
    <3>1. EntriesAreInt(NextA(a, e, yn), NextB(b, e), NextG(g, e, yn), NextH(h, e), x, k)
      BY <1>1, <2>2, EntriesAre, Zenon
    <3> QED BY <3>1 DEF EntriesAreInt
  <2> DEFINE t == [k \in 1 .. m |-> Term(NextA(a, e, yn), NextB(b, e), NextG(g, e, yn), NextH(h, e), x, k)]
  <2>4. t \in [1 .. m -> Int]
    BY <2>3
  <2>5. F2 = SumFunction(t)
    BY DEF FoldedAt
  <2> HIDE DEF t
  <2> QED BY <1>1, <2>4, <2>5, SumIs
<1>4. IsSide(left, sL, r, x) /\ IsSide(right, sR, s, x)
  BY <1>1, LeftIs, RightIs, Zenon
<1>5. /\ left \in Points /\ right \in Points
      /\ Cong(l, sL + r * G[x]) /\ Cong(q, sR + s * G[x])
  BY <1>4 DEF IsSide
<1>6. l \in Int /\ q \in Int /\ G[x] \in Int
  BY <1>5, CoordinateIsInt, PointsAre
<1> HIDE DEF left, right
<1>7. AddsPoint(e, left, right, x)
  BY <1>5, RoundAdds, Zenon
<1>8. P \in Points /\ Cong(P[x], ee * l + ff * q)
  BY <1>7 DEF AddsPoint
<1>9. P[x] \in Int
  BY <1>8, CoordinateIsInt
<1>10. alpha2 \in Scalars /\ Cong(alpha2, alpha + (ee * r + ff * s))
  BY NextAlphaIs
<1>11. ee \in Int /\ ff \in Int /\ alpha \in Int /\ r \in Int /\ s \in Int /\ alpha2 \in Int
  <2>1. f \in Int /\ e \in Int
    BY InvertIs
  <2>2. ee \in Int /\ ff \in Int
    BY <2>1
  <2> QED BY <1>10, <2>2, QIs
<1> HIDE DEF F, F2, sL, sR, ee, ff, l, q, P, alpha2
<1>12. RoundBalances(F2, alpha2, F, alpha, P[x], G[x])
  BY <1>2, <1>3, <1>5, <1>6, <1>8, <1>9, <1>10, <1>11, RoundArithmetic, Zenon
<1> QED BY <1>12, Zenon DEF F2, alpha2, F, P, left, right

-----------------------------------------------------------------------------
(* The bases: where base j is after folding to n, and with which factor.        *)

Slot(j, n)  == ((j - 1) % n) + 1
Digit(j, n) == ((j - 1) \div n) % 2

LEMMA SlotIs ==
    ASSUME NEW m \in Nat \ {0}, NEW j \in Nat \ {0}
    PROVE  /\ Slot(j, m) \in 1 .. m /\ Slot(j, m) <= j /\ Digit(j, m) \in {0, 1}
           /\ Slot(j, m + m) = Slot(j, m) + (IF Digit(j, m) = 1 THEN m ELSE 0)
<1> DEFINE u == j - 1
           r == u % m
           q == u \div m
           d == q % 2
           p == q \div 2
           M == m + m
           r2 == u % M
           q2 == u \div M
<1>1. u \in Nat /\ M \in Nat \ {0, 1}
  OBVIOUS
<1>2. r \in 0 .. m - 1 /\ q \in Int /\ u = m * q + r
  BY <1>1
<1>3. d \in {0, 1} /\ p \in Int /\ q = 2 * p + d
  BY <1>2
<1>4. r2 \in 0 .. M - 1 /\ q2 \in Int /\ u = M * q2 + r2
  <2> HIDE DEF u, M
  <2> QED BY <1>1, ModDef
<1>5. r <= u
  <2>1. CASE q >= 0
    <3>1. m * q >= 0
      BY <1>2, <2>1
    <3> QED BY <1>2, <3>1
  <2>2. CASE q <= -1
    <3>1. m * q <= -m
      BY <1>2, <2>2
    <3> QED BY <1>1, <1>2, <3>1
  <2> QED BY <1>2, <2>1, <2>2
<1> DEFINE s == IF d = 1 THEN m ELSE 0
<1>6. r + s \in 0 .. M - 1 /\ u = M * p + (r + s)
  <2>1. CASE d = 0
    <3>1. m * q = M * p
      BY <1>3, <2>1
    <3> QED BY <1>2, <2>1, <3>1
  <2>2. CASE d = 1
    <3>1. m * q = M * p + m
      BY <1>3, <2>2
    <3> HIDE DEF r, q, p, d
    <3>2. M * p \in Int
      BY <1>3
    <3> QED BY <1>2, <2>2, <3>1, <3>2
  <2> QED BY <1>3, <2>1, <2>2
<1> HIDE DEF u, r, q, d, p, M, r2, q2, s
<1>7. r2 = r + s
  <2>1. M * q2 + r2 = M * p + (r + s)
    BY <1>4, <1>6
  <2> QED BY <1>1, <1>3, <1>4, <1>6, <2>1, ModUnique
<1>8. Slot(j, m) = r + 1 /\ Digit(j, m) = d /\ Slot(j, m + m) = r2 + 1
  BY DEF Slot, Digit, r, q, d, r2, M, u
<1>9. u = j - 1
  BY DEF u
<1> QED BY <1>2, <1>3, <1>5, <1>7, <1>8, <1>9 DEF s

\* The part of base x in entry k.
Share(kind, w, fac, n, bits, k, x) ==
    IF \E j \in 1 .. bits : x = <<kind, j>> /\ Slot(j, n) = k THEN Pw(w)[x[2] - k] * fac[x[2]] ELSE 0
BasesAre(v, kind, w, fac, n, bits) ==
    \A k \in 1 .. n : \A x \in Bases : Cong(v[k][x], Share(kind, w, fac, n, bits, k, x))

ShareOf(kind, w, fac, n, bits, k, j) ==
    Share(kind, w, fac, n, bits, k, <<kind, j>>) = IF Slot(j, n) = k THEN Pw(w)[j - k] * fac[j] ELSE 0

LEMMA ShareIs ==
    ASSUME NEW kind, NEW w, NEW fac, NEW n, NEW bits, NEW j \in 1 .. bits, NEW k
    PROVE  ShareOf(kind, w, fac, n, bits, k, j)
<1>1. \A i : <<kind, j>> = <<kind, i>> => i = j
  OBVIOUS
<1>2. <<kind, j>>[2] = j
  OBVIOUS
<1>3. (\E i \in 1 .. bits : <<kind, j>> = <<kind, i>> /\ Slot(i, n) = k) <=> Slot(j, n) = k
  BY <1>1
<1> QED BY <1>2, <1>3 DEF Share, ShareOf

LEMMA NoShare ==
    ASSUME NEW kind, NEW w, NEW fac, NEW n, NEW bits, NEW k, NEW x, \A j \in 1 .. bits : x # <<kind, j>>
    PROVE  Share(kind, w, fac, n, bits, k, x) = 0
BY DEF Share

\* The arithmetic of one base, for either half.
LEMMA BothNothing ==
    ASSUME NEW v1 \in Int, NEW v2 \in Int, NEW wm \in Int, NEW lo \in Int, NEW hi \in Int, NEW r,
           Cong(v1, 0), Cong(v2, 0), Cong(r, v1 * lo + (wm * v2) * hi)
    PROVE  Cong(r, 0)
<1>1. Cong(v1 * lo, 0 * lo) /\ Cong(wm * v2, wm * 0)
  BY CongTimes, 0 \in Int
<1> DEFINE a == v1 * lo
           b == wm * v2
           d == b * hi
<1>2. a \in Int /\ b \in Int
  OBVIOUS
<1>3. Cong(a, 0) /\ Cong(b, 0)
  BY <1>1
<1> HIDE DEF a, b
<1>4. Cong(b * hi, 0 * hi) /\ d \in Int /\ 0 * hi = 0
  <2>1. Cong(b * hi, 0 * hi)
    BY <1>2, <1>3, CongTimes, 0 \in Int, Zenon
  <2> QED BY <1>2, <2>1
<1> HIDE DEF d
<1>5. Cong(d, 0)
  BY <1>4 DEF d
<1>6. Cong(a + d, 0 + 0)
  BY <1>2, <1>3, <1>4, <1>5, CongOps, 0 \in Int
<1>7. Cong(r, a + d)
  BY DEF a, b, d
<1> QED BY <1>6, <1>7, CongEquiv, 0 + 0 = 0

Gets(r, p, f2, q, f, v1, v2, wm, lo, hi) == Cong(r, p * f2)

LEMMA LowOnly ==
    ASSUME NEW v1 \in Int, NEW v2 \in Int, NEW wm \in Int, NEW lo \in Int, NEW hi \in Int, NEW r \in Int,
           NEW p \in Int, NEW f \in Int, NEW f2 \in Int,
           Cong(v1, p * f), Cong(v2, 0), Cong(r, v1 * lo + (wm * v2) * hi), Cong(f2, f * lo)
    PROVE  Gets(r, p, f2, p, f, v1, v2, wm, lo, hi)
<1> DEFINE pf == p * f
           fl == f * lo
           a == v1 * lo
           b == wm * v2
           d == b * hi
<1>1. pf \in Int /\ fl \in Int /\ a \in Int /\ b \in Int
  OBVIOUS
<1>2. Cong(a, pf * lo)
  <2>1. Cong(v1, pf)
    OBVIOUS
  <2> HIDE DEF pf
  <2> QED BY <1>1, <2>1, CongTimes
<1>3. Cong(b, 0)
  BY CongTimes, 0 \in Int, wm * 0 = 0
<1>4. pf * lo = p * fl
  OBVIOUS
<1>5. Cong(p * fl, p * f2) /\ p * fl \in Int
  <2>1. Cong(f2, fl)
    OBVIOUS
  <2> HIDE DEF fl
  <2>2. Cong(p * f2, p * fl)
    BY <1>1, <2>1, CongTimes
  <2> QED BY <1>1, <2>2, CongEquiv
<1> HIDE DEF a, b
<1>6. d \in Int /\ Cong(d, 0)
  <2>1. Cong(b * hi, 0 * hi)
    BY <1>1, <1>3, CongTimes, 0 \in Int, Zenon
  <2>2. 0 * hi = 0
    OBVIOUS
  <2> QED BY <1>1, <2>1, <2>2
<1>7. Cong(r, a + d)
  BY DEF a, b
<1> HIDE DEF d
<1>8. Cong(a + d, a + 0) /\ a + 0 = a
  <2>1. Cong(a + d, a + 0)
    BY <1>1, <1>6, CongPlus, 0 \in Int, Zenon
  <2> QED BY <1>1, <2>1
<1> QED BY <1>2, <1>4, <1>5, <1>7, <1>8, CongEquiv DEF Gets

LEMMA HighOnly ==
    ASSUME NEW v1 \in Int, NEW v2 \in Int, NEW wm \in Int, NEW lo \in Int, NEW hi \in Int, NEW r \in Int,
           NEW p \in Int, NEW q \in Int, NEW f \in Int, NEW f2 \in Int,
           Cong(v1, 0), Cong(v2, p * f), Cong(q, p * wm),
           Cong(r, v1 * lo + (wm * v2) * hi), Cong(f2, f * hi)
    PROVE  Gets(r, q, f2, p, f, v1, v2, wm, lo, hi)
<1> DEFINE pf == p * f
           fh == f * hi
           a == v1 * lo
           b == wm * v2
           d == b * hi
           pw == p * wm
<1>1. pf \in Int /\ fh \in Int /\ a \in Int /\ b \in Int /\ pw \in Int
  OBVIOUS
<1>2. Cong(b, wm * pf)
  <2>1. Cong(v2, pf)
    OBVIOUS
  <2> HIDE DEF pf
  <2> QED BY <1>1, <2>1, CongTimes
<1>3. Cong(a, 0)
  BY CongTimes, 0 \in Int, 0 * lo = 0
<1>4. (wm * pf) * hi = pw * fh /\ wm * pf \in Int
  <2>1. wm * pf = pw * f
    OBVIOUS
  <2> HIDE DEF pw
  <2>2. (pw * f) * hi = pw * fh
    BY <1>1
  <2> QED BY <1>1, <2>1, <2>2
<1>5. Cong(pw * fh, q * f2)
  <2>1. Cong(f2, fh) /\ Cong(q, pw)
    OBVIOUS
  <2> HIDE DEF fh, pw
  <2>2. Cong(q * f2, pw * fh)
    BY <1>1, <2>1, CongOps
  <2> QED BY <2>2, CongEquiv
<1>6. Cong(r, a + d)
  OBVIOUS
<1> HIDE DEF a, b
<1>7. d \in Int /\ Cong(d, (wm * pf) * hi)
  <2>1. Cong(b * hi, (wm * pf) * hi)
    BY <1>1, <1>2, <1>4, CongTimes, Zenon
  <2> QED BY <1>1, <2>1
<1> HIDE DEF d
<1>8. Cong(a + d, 0 + d) /\ 0 + d = d
  <2>1. Cong(a + d, 0 + d)
    BY <1>1, <1>3, <1>7, CongPlus, 0 \in Int, Zenon
  <2> QED BY <1>7, <2>1
<1> QED BY <1>4, <1>5, <1>6, <1>7, <1>8, CongEquiv DEF Gets

\* Folding keeps the shares: the high half takes another factor than the low one.
FoldsBases(v, v2, kind, w, wm, lo, hi, fac, fac2, m, bits) == BasesAre(v2, kind, w, fac2, m, bits)

LEMMA BasesFold ==
    ASSUME NEW m \in Nat \ {0}, NEW bits \in Nat, NEW kind, NEW w \in Scalars,
           NEW v \in [1 .. m + m -> Points], NEW v2 \in [1 .. m -> Points],
           NEW wm \in Int, Cong(wm, Pw(w)[m]), NEW lo \in Int, NEW hi \in Int,
           \A k \in 1 .. m : \A x \in Bases : Cong(v2[k][x], v[k][x] * lo + (wm * v[m + k][x]) * hi),
           NEW fac \in [1 .. bits -> Int], NEW fac2 \in [1 .. bits -> Int],
           \A j \in 1 .. bits : Cong(fac2[j], fac[j] * (IF Digit(j, m) = 1 THEN hi ELSE lo)),
           BasesAre(v, kind, w, fac, m + m, bits)
    PROVE  FoldsBases(v, v2, kind, w, wm, lo, hi, fac, fac2, m, bits)
<1> SUFFICES ASSUME NEW k \in 1 .. m, NEW x \in Bases
             PROVE  Cong(v2[k][x], Share(kind, w, fac2, m, bits, k, x))
  BY DEF BasesAre, FoldsBases
<1> DEFINE v1x == v[k][x]
           v2x == v[m + k][x]
           r == v2[k][x]
<1>1. k \in 1 .. m + m /\ m + k \in 1 .. m + m
  OBVIOUS
<1>2. v1x \in Int /\ v2x \in Int /\ r \in Int
  <2>1. v[k] \in Points /\ v[m + k] \in Points /\ v2[k] \in Points
    BY <1>1
  <2> QED BY <2>1, CoordinateIsInt
<1>3. Cong(r, v1x * lo + (wm * v2x) * hi)
  OBVIOUS
<1>4. /\ Cong(v1x, Share(kind, w, fac, m + m, bits, k, x))
      /\ Cong(v2x, Share(kind, w, fac, m + m, bits, m + k, x))
  BY <1>1 DEF BasesAre
<1> HIDE DEF v1x, v2x, r
<1>5. ASSUME \A j \in 1 .. bits : x # <<kind, j>>
      PROVE  Cong(r, Share(kind, w, fac2, m, bits, k, x))
  <2>1. Cong(v1x, 0) /\ Cong(v2x, 0) /\ Share(kind, w, fac2, m, bits, k, x) = 0
    BY <1>4, <1>5, NoShare
  <2> QED BY <1>2, <1>3, <2>1, BothNothing
<1>6. ASSUME NEW j \in 1 .. bits, x = <<kind, j>>
      PROVE  Cong(r, Share(kind, w, fac2, m, bits, k, x))
  <2> DEFINE d == Digit(j, m)
             o == Slot(j, m)
             o2 == Slot(j, m + m)
             f == fac[j]
             f2 == fac2[j]
             p1 == Pw(w)[j - k]
             p2 == Pw(w)[j - (m + k)]
  <2>1. /\ o \in 1 .. m /\ o <= j /\ d \in {0, 1} /\ o2 = o + (IF d = 1 THEN m ELSE 0)
        /\ o2 \in 1 .. m + m /\ o2 <= j
    <3>1. j \in Nat \ {0} /\ m + m \in Nat \ {0}
      OBVIOUS
    <3> QED BY <3>1, SlotIs
  <2>2. /\ Share(kind, w, fac, m + m, bits, k, x) = IF o2 = k THEN p1 * f ELSE 0
        /\ Share(kind, w, fac, m + m, bits, m + k, x) = IF o2 = m + k THEN p2 * f ELSE 0
        /\ Share(kind, w, fac2, m, bits, k, x) = IF o = k THEN p1 * f2 ELSE 0
    <3>1. /\ ShareOf(kind, w, fac, m + m, bits, k, j) /\ ShareOf(kind, w, fac, m + m, bits, m + k, j)
          /\ ShareOf(kind, w, fac2, m, bits, k, j)
      BY ShareIs, Zenon
    <3> QED BY <1>6, <3>1 DEF ShareOf
  <2>3. f \in Int /\ f2 \in Int /\ Cong(f2, f * (IF d = 1 THEN hi ELSE lo)) /\ w \in Int
    BY QIs
  <2> HIDE DEF d, o, o2, f, f2
  <2>4. CASE o # k
    <3>1. o2 # k /\ o2 # m + k
      BY <2>1, <2>4
    <3>2. Cong(v1x, 0) /\ Cong(v2x, 0)
      BY <1>4, <2>2, <3>1
    <3> QED BY <1>2, <1>3, <2>2, <2>4, <3>2, BothNothing
  <2>5. CASE o = k /\ d = 0
    <3>1. o2 = k /\ o2 # m + k /\ j - k \in Nat
      BY <2>1, <2>5
    <3>2. p1 \in Int
      BY <2>3, <3>1, PwIs
    <3>3. Cong(v1x, p1 * f) /\ Cong(v2x, 0) /\ Cong(f2, f * lo)
      BY <1>4, <2>2, <2>3, <2>5, <3>1
    <3> HIDE DEF p1
    <3>4. Gets(r, p1, f2, p1, f, v1x, v2x, wm, lo, hi)
      BY <1>2, <1>3, <2>3, <3>2, <3>3, LowOnly, Zenon
    <3> QED BY <2>2, <2>5, <3>4 DEF Gets
  <2>6. CASE o = k /\ d = 1
    <3>1. o2 # k /\ o2 = m + k /\ j - k \in Nat /\ j - (m + k) \in Nat /\ j - k = (j - (m + k)) + m
      BY <2>1, <2>6
    <3>2. p1 \in Int /\ p2 \in Int /\ Pw(w)[m] \in Int
      BY <2>3, <3>1, PwIs
    <3>3. Cong(p1, p2 * wm)
      <4>1. m \in Nat
        OBVIOUS
      <4>2. Cong(Pw(w)[(j - (m + k)) + m], p2 * Pw(w)[m])
        BY <2>3, <3>1, <4>1, PwAdd
      <4>3. Cong(p1, p2 * Pw(w)[m])
        BY <3>1, <4>2
      <4> HIDE DEF p1, p2
      <4>4. Cong(Pw(w)[m], wm)
        BY CongEquiv
      <4>5. Cong(p2 * Pw(w)[m], p2 * wm)
        BY <3>2, <4>4, CongTimes
      <4> QED BY <4>3, <4>5, CongEquiv
    <3>4. Cong(v1x, 0) /\ Cong(v2x, p2 * f) /\ Cong(f2, f * hi)
      BY <1>4, <2>2, <2>3, <2>6, <3>1
    <3> HIDE DEF p1, p2
    <3>5. Gets(r, p1, f2, p2, f, v1x, v2x, wm, lo, hi)
      BY <1>2, <1>3, <2>3, <3>2, <3>3, <3>4, HighOnly, Zenon
    <3> QED BY <2>2, <2>6, <3>5 DEF Gets
  <2> QED BY <2>1, <2>4, <2>5, <2>6
<1> QED BY <1>5, <1>6 DEF r

LEMMA MirrorDigit ==
    ASSUME NEW m \in Nat \ {0}, NEW d \in Nat, NEW bits, bits = d * (m + m), NEW j \in 1 .. bits
    PROVE  Digit((bits + 1) - j, m) = 1 - Digit(j, m) /\ (bits + 1) - j \in 1 .. bits
<1> DEFINE u == j - 1
           r == u % m
           q == u \div m
           p == q \div 2
           e == q % 2
           u2 == ((bits + 1) - j) - 1
           r2 == u2 % m
           q2 == u2 \div m
           qq == ((2 * d) - 1) - q
           rr == (m - 1) - r
           dm == d * m
           mq == m * q
<1>1. u \in Int /\ u2 \in Int /\ bits \in Int /\ u + u2 = bits - 1
  OBVIOUS
<1>2. r \in 0 .. m - 1 /\ q \in Int /\ u = mq + r /\ mq \in Int
  BY <1>1
<1>3. e \in {0, 1} /\ p \in Int /\ q = 2 * p + e
  BY <1>2
<1>4. r2 \in 0 .. m - 1 /\ q2 \in Int /\ u2 = m * q2 + r2
  BY <1>1
<1>5. bits = 2 * dm /\ dm \in Int
  OBVIOUS
<1>6. m * qq = (2 * dm - m) - mq /\ qq \in Int
  <2> HIDE DEF q, p
  <2>1. m * ((2 * d) - 1) = 2 * dm - m
    OBVIOUS
  <2>2. (2 * d) - 1 \in Int
    OBVIOUS
  <2> DEFINE k == (2 * d) - 1
  <2> HIDE DEF k
  <2>3. k \in Int
    BY <2>2 DEF k
  <2>4. m * (k - q) = m * k - m * q
    BY <1>2, <2>3
  <2> QED BY <1>2, <2>1, <2>2, <2>4 DEF k
<1>7. u2 = m * qq + rr /\ rr \in 0 .. m - 1
  <2> DEFINE mqq == m * qq
  <2>1. mqq = (2 * dm - m) - mq
    BY <1>6
  <2> HIDE DEF mqq, u, u2, r, mq, dm, q, p
  <2> QED BY <1>1, <1>2, <1>5, <2>1 DEF mqq
<1>8. q2 = qq
  <2> HIDE DEF q2, qq, r2, rr, u2
  <2>1. m * q2 + r2 = m * qq + rr
    BY <1>4, <1>7
  <2>2. ASSUME NEW i \in Int, NEW k \in Int, NEW s \in 0 .. m - 1, NEW t \in 0 .. m - 1,
               m * i + s = m * k + t, i < k
        PROVE  FALSE
    <3>1. m * (i + 1) <= m * k
      BY <2>2
    <3>2. m * (i + 1) = m * i + m
      OBVIOUS
    <3> DEFINE mi == m * i
               mk == m * k
    <3>3. mi \in Int /\ mk \in Int /\ mi + m <= mk /\ mi + s = mk + t
      BY <2>2, <3>1, <3>2
    <3> HIDE DEF mi, mk
    <3> QED BY <3>3
  <2> QED BY <1>4, <1>6, <1>7, <2>1, <2>2
<1>9. q2 % 2 = 1 - e
  <2> DEFINE k == (d - 1) - p
  <2>1. k \in Int /\ q2 = 2 * k + (1 - e) /\ 1 - e \in {0, 1}
    BY <1>3, <1>8
  <2> HIDE DEF k, q2, e
  <2> QED BY <2>1
<1>10. Digit(j, m) = e /\ Digit((bits + 1) - j, m) = q2 % 2
  BY DEF Digit
<1> QED BY <1>9, <1>10

LEMMA PwOne == \A i \in Nat : Pw(1)[i] = 1
<1> DEFINE T == {i \in Nat : Pw(1)[i] = 1}
<1>1. 0 \in T /\ 1 \in Int
  BY PwIs
<1>2. ASSUME NEW i \in T PROVE i + 1 \in T
  <2>1. i \in Nat /\ Pw(1)[i] = 1
    OBVIOUS
  <2>2. Pw(1)[i + 1] = ScMul(Pw(1)[i], 1)
    BY <1>1, <2>1, PwIs
  <2>3. ScMul(1, 1) = 1
    <3>1. 1 * 1 = 1 /\ 1 % Q = 1
      BY QIs, ReducedIs
    <3> QED BY <3>1 DEF ScMul
  <2>4. Pw(1)[i + 1] = 1
    BY <2>1, <2>2, <2>3
  <2> QED BY <2>1, <2>4
<1> HIDE DEF T
<1>3. T \in SUBSET Nat
  BY DEF T
<1>4. T = Nat
  BY <1>1, <1>2, <1>3, Induct
<1> QED BY <1>4 DEF T

Mirror(f, bits) == [k \in 1 .. bits |-> f[(bits + 1) - k]]

FactorBy(e, m, k) == IF Digit(k, m) = 1 THEN e ELSE Invert(e)
NextFactor(f, e, m, bits) == [k \in 1 .. bits |-> ScMul(f[k], FactorBy(e, m, k))]

LEMMA NextFactorIs ==
    ASSUME NEW bits, NEW f \in [1 .. bits -> Scalars], NEW e \in Scalars, e # 0, NEW m
    PROVE  /\ NextFactor(f, e, m, bits) \in [1 .. bits -> Scalars]
           /\ \A k \in 1 .. bits : Cong(NextFactor(f, e, m, bits)[k], f[k] * FactorBy(e, m, k))
<1>1. ASSUME NEW k \in 1 .. bits
      PROVE  /\ ScMul(f[k], FactorBy(e, m, k)) \in Scalars
             /\ Cong(ScMul(f[k], FactorBy(e, m, k)), f[k] * FactorBy(e, m, k))
  <2>1. f[k] \in Int /\ FactorBy(e, m, k) \in Int
    BY QIs, InvertIs DEF FactorBy
  <2> QED BY <2>1, ScalarOps
<1> QED BY <1>1 DEF NextFactor

LEMMA GBasesFold ==
    ASSUME NEW m \in Nat \ {0}, NEW bits \in Nat, NEW a, NEW b, NEW g, NEW h, VectorsOf(a, b, g, h, m + m),
           y \in Scalars, y # 0, NEW e \in Scalars, e # 0, NEW yn, yn = Pw(y)[m],
           NEW f \in [1 .. bits -> Scalars], BasesAre(g, "Gi", Invert(y), f, m + m, bits)
    PROVE  BasesAre(NextG(g, e, yn), "Gi", Invert(y), NextFactor(f, e, m, bits), m, bits)
<1> DEFINE f2 == NextFactor(f, e, m, bits)
           w == Invert(y)
           wm == Invert(yn)
           lo == Invert(e)
           v2 == NextG(g, e, yn)
<1>1. m \in Nat /\ yn \in Scalars /\ yn # 0
  BY PwNotZero
<1>2. w \in Scalars /\ wm \in Int /\ lo \in Int /\ e \in Int
  BY <1>1, InvertIs
<1>3. Cong(wm, Pw(w)[m])
  BY <1>1, PwInverse
<1>4. AreNext(a, b, g, h, m, e, yn)
  BY <1>1, NextAre, Zenon
<1>5. v2 \in [1 .. m -> Points] /\ g \in [1 .. m + m -> Points]
      /\ \A k \in 1 .. m : \A x \in Bases : Cong(v2[k][x], g[k][x] * lo + (wm * g[m + k][x]) * e)
  BY <1>4 DEF AreNext, VectorsOf
<1>6. /\ f2 \in [1 .. bits -> Scalars]
      /\ \A k \in 1 .. bits : Cong(f2[k], f[k] * FactorBy(e, m, k))
  BY NextFactorIs, Zenon
<1>7. f \in [1 .. bits -> Int] /\ f2 \in [1 .. bits -> Int]
  BY <1>6, QIs
<1>8. \A k \in 1 .. bits : Cong(f2[k], f[k] * (IF Digit(k, m) = 1 THEN e ELSE lo))
  BY <1>6 DEF FactorBy
<1> HIDE DEF f2, w, wm, lo, v2
<1>9. BasesAre(g, "Gi", w, f, m + m, bits)
  BY DEF w
<1>10. FoldsBases(g, v2, "Gi", w, wm, lo, e, f, f2, m, bits)
  BY <1>2, <1>3, <1>5, <1>7, <1>8, <1>9, BasesFold, Zenon
<1> QED BY <1>10 DEF FoldsBases, v2, w, f2

LEMMA HBasesFold ==
    ASSUME NEW m \in Nat \ {0}, NEW d \in Nat, NEW bits, bits = d * (m + m),
           NEW a, NEW b, NEW g, NEW h, VectorsOf(a, b, g, h, m + m),
           NEW e \in Scalars, e # 0, NEW yn \in Scalars, yn # 0,
           NEW f \in [1 .. bits -> Scalars], BasesAre(h, "Hi", 1, Mirror(f, bits), m + m, bits)
    PROVE  BasesAre(NextH(h, e), "Hi", 1, Mirror(NextFactor(f, e, m, bits), bits), m, bits)
<1> DEFINE f2 == NextFactor(f, e, m, bits)
           fac == Mirror(f, bits)
           fac2 == Mirror(f2, bits)
           hi == Invert(e)
           v2 == NextH(h, e)
<1>1. m \in Nat /\ bits \in Nat
  OBVIOUS
<1>2. 1 \in Scalars /\ 1 \in Int /\ hi \in Int /\ e \in Int
  BY InvertIs, QIs
<1>3. Cong(1, Pw(1)[m])
  BY <1>1, PwOne, CongEquiv
<1>4. AreNext(a, b, g, h, m, e, yn)
  BY NextAre, Zenon
<1>5. v2 \in [1 .. m -> Points] /\ h \in [1 .. m + m -> Points]
      /\ \A k \in 1 .. m : \A x \in Bases : Cong(v2[k][x], h[m + k][x] * hi + h[k][x] * e)
  BY <1>4 DEF AreNext, VectorsOf
<1>6. \A k \in 1 .. m : \A x \in Bases : Cong(v2[k][x], h[k][x] * e + (1 * h[m + k][x]) * hi)
  <2> SUFFICES ASSUME NEW k \in 1 .. m, NEW x \in Bases
               PROVE  Cong(v2[k][x], h[k][x] * e + (1 * h[m + k][x]) * hi)
    OBVIOUS
  <2> DEFINE p == h[k][x]
             q == h[m + k][x]
  <2>1. k \in 1 .. m + m /\ m + k \in 1 .. m + m
    OBVIOUS
  <2>2. h[k] \in Points /\ h[m + k] \in Points
    BY <1>5, <2>1
  <2>3. p \in Int /\ q \in Int /\ Cong(v2[k][x], q * hi + p * e)
    BY <1>5, <2>2, CoordinateIsInt
  <2> HIDE DEF p, q, hi, v2
  <2>4. q * hi + p * e = p * e + (1 * q) * hi
    <3>1. 1 * q = q
      BY <2>3
    <3>2. q * hi \in Int /\ p * e \in Int
      BY <1>2, <2>3
    <3> QED BY <3>1, <3>2
  <2> QED BY <2>3, <2>4 DEF p, q
<1>7. /\ f2 \in [1 .. bits -> Scalars]
      /\ \A k \in 1 .. bits : Cong(f2[k], f[k] * FactorBy(e, m, k))
  BY NextFactorIs, Zenon
<1>8. \A k \in 1 .. bits : (bits + 1) - k \in 1 .. bits /\ Digit((bits + 1) - k, m) = 1 - Digit(k, m)
  BY MirrorDigit
<1>9. /\ \A k \in 1 .. bits : fac[k] = f[(bits + 1) - k] /\ fac2[k] = f2[(bits + 1) - k]
      /\ fac \in [1 .. bits -> Int] /\ fac2 \in [1 .. bits -> Int]
  <2> HIDE DEF f2
  <2> QED BY <1>7, <1>8, QIs DEF Mirror
<1>10. \A k \in 1 .. bits : Cong(fac2[k], fac[k] * (IF Digit(k, m) = 1 THEN hi ELSE e))
  <2> SUFFICES ASSUME NEW k \in 1 .. bits
               PROVE  Cong(fac2[k], fac[k] * (IF Digit(k, m) = 1 THEN hi ELSE e))
    OBVIOUS
  <2> DEFINE i == (bits + 1) - k
  <2>1. i \in 1 .. bits /\ Digit(i, m) = 1 - Digit(k, m) /\ fac[k] = f[i] /\ fac2[k] = f2[i]
    BY <1>8, <1>9
  <2>2. Digit(k, m) \in {0, 1}
    <3>1. k \in Nat \ {0}
      OBVIOUS
    <3> QED BY <3>1, SlotIs
  <2>3. FactorBy(e, m, i) = IF Digit(k, m) = 1 THEN hi ELSE e
    BY <2>1, <2>2 DEF FactorBy
  <2> HIDE DEF i, f2, fac, fac2
  <2>4. Cong(f2[i], f[i] * FactorBy(e, m, i))
    BY <1>7, <2>1
  <2> QED BY <2>1, <2>3, <2>4
<1> HIDE DEF f2, fac, fac2, hi, v2
<1>11. BasesAre(h, "Hi", 1, fac, m + m, bits)
  BY DEF fac
<1>12. FoldsBases(h, v2, "Hi", 1, 1, e, hi, fac, fac2, m, bits)
  BY <1>1, <1>2, <1>3, <1>5, <1>6, <1>9, <1>10, <1>11, BasesFold, Zenon
<1> QED BY <1>12 DEF FoldsBases, v2, fac2, f2

-----------------------------------------------------------------------------
(* What the rounds start from.                                                  *)

IsScaledSum(s, cs, ps, n, x) ==
    LET f == [k \in 1 .. n |-> cs[k] * ps[k][x]]
    IN  s \in Points /\ f \in [1 .. n -> Int] /\ Cong(s[x], SumFunction(f))

LEMMA ScaledSumIs ==
    ASSUME NEW n \in Nat, NEW cs, \A k \in 1 .. n : cs[k] \in Int, NEW ps, \A k \in 1 .. n : ps[k] \in Points,
           NEW x \in Bases
    PROVE  IsScaledSum(SumPoints([k \in 1 .. n |-> ScalarMult(cs[k], ps[k])]), cs, ps, n, x)
<1> DEFINE qs == [k \in 1 .. n |-> ScalarMult(cs[k], ps[k])]
           f == [k \in 1 .. n |-> cs[k] * ps[k][x]]
           g == At(qs, n, x)
<1>1. ASSUME NEW k \in 1 .. n
      PROVE  /\ ScalarMult(cs[k], ps[k]) \in Points /\ cs[k] * ps[k][x] \in Int
             /\ Cong(ScalarMult(cs[k], ps[k])[x], cs[k] * ps[k][x])
  <2>1. cs[k] \in Int /\ ps[k] \in Points
    OBVIOUS
  <2>2. ps[k][x] \in Int
    BY <2>1, CoordinateIsInt
  <2>3. ScalarMult(cs[k], ps[k]) \in Points /\ Cong(ScalarMult(cs[k], ps[k])[x], cs[k] * ps[k][x])
    BY <2>1, PointOps
  <2> QED BY <2>1, <2>2, <2>3
<1>2. qs \in [1 .. n -> Points] /\ f \in [1 .. n -> Int] /\ \A k \in 1 .. n : qs[k] = ScalarMult(cs[k], ps[k])
  BY <1>1
<1>3. /\ SumPoints(qs) \in Points /\ g \in [1 .. n -> Int]
      /\ Cong(SumPoints(qs)[x], SumFunction(g))
  <2> HIDE DEF qs
  <2> QED BY <1>2, SumPointsIs
<1>4. \A k \in 1 .. n : Cong(g[k], f[k])
  <2> HIDE DEF qs
  <2> QED BY <1>1, <1>2 DEF At
<1> HIDE DEF qs, g
<1>5. Cong(SumFunction(g), SumFunction(f))
  <2> HIDE DEF f
  <2> QED BY <1>2, <1>3, <1>4, SumCong
<1>6. Cong(SumPoints(qs)[x], SumFunction(f))
  BY <1>3, <1>5, CongEquiv
<1> QED BY <1>2, <1>3, <1>6 DEF IsScaledSum, qs

\* One entry of the weighted product: the bit is 0 or 1, and y^i * y^k is top.
LEMMA EntryWeight ==
    ASSUME NEW l \in {0, 1}, NEW rr \in Int, Cong(rr, l - 1), NEW zc \in Int, NEW d \in Int, NEW u \in Int,
           NEW yk \in Int, NEW top \in Int, Cong(u * yk, top), NEW a \in Int, NEW b \in Int,
           Cong(a, l - zc), Cong(b, (rr + zc) + d * u)
    PROVE  Cong((a * b) * yk, (zc - zc * zc) * yk + top * (l * d - zc * d))
<1> DEFINE zz == zc * zc
           du == d * u
           m == l - zc
           n == (l - 1) + zc
           dl == l * d - zc * d
<1>1. zz \in Int /\ du \in Int /\ m \in Int /\ n \in Int /\ l \in Int /\ dl \in Int
  OBVIOUS
<1>2. m * n = zc - zz
  <2>1. CASE l = 0
    BY <2>1
  <2>2. CASE l = 1
    BY <2>2
  <2> QED BY <2>1, <2>2
<1>3. m * d = dl
  <2>1. CASE l = 0
    BY <2>1
  <2>2. CASE l = 1
    BY <2>2
  <2> QED BY <2>1, <2>2
<1>4. Cong(b, n + du)
  <2>1. Cong(rr + zc, n)
    BY <1>1, CongPlus, l - 1 \in Int
  <2>2. rr + zc \in Int
    OBVIOUS
  <2> HIDE DEF n, du
  <2>3. Cong((rr + zc) + du, n + du)
    BY <1>1, <2>1, <2>2, CongPlus
  <2>4. Cong(b, (rr + zc) + du)
    BY DEF du
  <2> QED BY <2>3, <2>4, CongEquiv
<1>5. Cong(a, m)
  OBVIOUS
<1> DEFINE nd == n + du
           p == zc - zz
           q == m * du
<1>6. nd \in Int /\ p \in Int /\ q \in Int /\ m * nd = p + q
  <2>1. nd \in Int /\ p \in Int
    BY <1>1
  <2>2. m * nd = m * n + m * du
    <3> HIDE DEF m, n, du
    <3> QED BY <1>1
  <2>3. q \in Int
    BY <1>1
  <2> QED BY <1>2, <2>1, <2>2, <2>3
<1>7. Cong(a * b, p + q)
  <2> HIDE DEF m, nd, p, q
  <2>1. Cong(b, nd)
    BY <1>4 DEF nd
  <2>2. Cong(a * b, m * nd)
    BY <1>1, <1>5, <1>6, <2>1, CongOps
  <2> QED BY <1>6, <2>2
<1>8. q * yk = dl * (u * yk)
  <2>1. q = (m * d) * u
    <3> HIDE DEF m
    <3> QED BY <1>1
  <2>2. q = dl * u
    BY <1>3, <2>1
  <2> HIDE DEF q, dl
  <2> QED BY <1>1, <2>2
<1> DEFINE uy == u * yk
           ab == a * b
<1>9. uy \in Int /\ ab \in Int /\ Cong(uy, top)
  <2>1. uy \in Int /\ ab \in Int
    OBVIOUS
  <2>2. Cong(uy, top)
    BY Zenon
  <2> QED BY <2>1, <2>2
<1> HIDE DEF dl, p, q, uy, ab
<1>10. Cong(ab * yk, (p + q) * yk)
  <2>1. p + q \in Int /\ Cong(ab, p + q)
    BY <1>6, <1>7 DEF ab
  <2> QED BY <1>9, <2>1, CongTimes
<1>11. (p + q) * yk = p * yk + dl * uy
  <2>1. (p + q) * yk = p * yk + q * yk
    BY <1>6
  <2> QED BY <1>8, <2>1 DEF uy
<1>12. Cong(dl * uy, dl * top) /\ dl * uy \in Int /\ dl * top \in Int /\ p * yk \in Int /\ dl * top = top * dl
  <2>1. Cong(dl * uy, dl * top)
    BY <1>1, <1>9, CongTimes
  <2> QED BY <1>1, <1>6, <1>9, <2>1
<1>13. Cong(p * yk + dl * uy, p * yk + dl * top)
  BY <1>12, CongPlus, Zenon
<1>14. Cong(ab * yk, p * yk + top * dl)
  BY <1>10, <1>11, <1>12, <1>13, CongEquiv
<1> QED BY <1>14 DEF ab, p, dl, zz

\* A sum of five parts.
IsSumOfFive(t, f1, f2, f3, f4, f5, d) ==
    /\ SumFunction(t) \in Int
    /\ SumFunction(f1) \in Int /\ SumFunction(f2) \in Int /\ SumFunction(f3) \in Int /\ SumFunction(f4) \in Int
    /\ SumFunction(f5) \in Int
    /\ Cong(SumFunction(t), ((SumFunction(f1) + SumFunction(f2)) + (SumFunction(f3) + SumFunction(f4)))
                            + d * SumFunction(f5))

LEMMA SumOfFive ==
    ASSUME NEW n \in Nat, NEW t \in [1 .. n -> Int], NEW f1 \in [1 .. n -> Int], NEW f2 \in [1 .. n -> Int],
           NEW f3 \in [1 .. n -> Int], NEW f4 \in [1 .. n -> Int], NEW f5 \in [1 .. n -> Int], NEW d \in Int,
           \A k \in 1 .. n : Cong(t[k], ((f1[k] + f2[k]) + (f3[k] + f4[k])) + d * f5[k])
    PROVE  IsSumOfFive(t, f1, f2, f3, f4, f5, d)
<1> DEFINE a == [k \in 1 .. n |-> f1[k] + f2[k]]
           b == [k \in 1 .. n |-> f3[k] + f4[k]]
           e == [k \in 1 .. n |-> a[k] + b[k]]
<1>1. a \in [1 .. n -> Int] /\ b \in [1 .. n -> Int] /\ \A k \in 1 .. n : a[k] = f1[k] + f2[k] /\ b[k] = f3[k] + f4[k]
  <2>1. \A k \in 1 .. n : f1[k] \in Int /\ f2[k] \in Int /\ f3[k] \in Int /\ f4[k] \in Int
    OBVIOUS
  <2>2. \A k \in 1 .. n : f1[k] + f2[k] \in Int /\ f3[k] + f4[k] \in Int
    BY <2>1
  <2> QED BY <2>2
<1>2. e \in [1 .. n -> Int] /\ \A k \in 1 .. n : e[k] = a[k] + b[k]
  <2> HIDE DEF a, b
  <2> QED BY <1>1
<1> HIDE DEF a, b, e
<1>3. ASSUME NEW k \in 1 .. n
      PROVE  /\ Cong(a[k], 1 * f1[k] + 1 * f2[k]) /\ Cong(b[k], 1 * f3[k] + 1 * f4[k])
             /\ Cong(e[k], 1 * a[k] + 1 * b[k]) /\ Cong(t[k], 1 * e[k] + d * f5[k])
  <2>1. /\ f1[k] \in Int /\ f2[k] \in Int /\ f3[k] \in Int /\ f4[k] \in Int /\ f5[k] \in Int
        /\ a[k] \in Int /\ b[k] \in Int /\ e[k] \in Int
    BY <1>1, <1>2
  <2>2. /\ a[k] = 1 * f1[k] + 1 * f2[k] /\ b[k] = 1 * f3[k] + 1 * f4[k]
        /\ e[k] = 1 * a[k] + 1 * b[k]
    <3>1. a[k] = f1[k] + f2[k] /\ b[k] = f3[k] + f4[k] /\ e[k] = a[k] + b[k]
      BY <1>1, <1>2
    <3>2. \A i, j \in Int : 1 * i + 1 * j = i + j
      OBVIOUS
    <3> QED BY <2>1, <3>1, <3>2
  <2>3. ((f1[k] + f2[k]) + (f3[k] + f4[k])) + d * f5[k] = 1 * e[k] + d * f5[k]
    BY <1>1, <1>2, <2>1
  <2>4. Cong(t[k], ((f1[k] + f2[k]) + (f3[k] + f4[k])) + d * f5[k])
    OBVIOUS
  <2> QED BY <2>2, <2>3, <2>4, CongEquiv
<1>4. Sums(f1, f2, a, 1, 1) /\ Sums(f3, f4, b, 1, 1)
  BY <1>1, <1>3, SumBoth, 1 \in Int, Zenon
<1>5. Sums(a, b, e, 1, 1)
  BY <1>1, <1>2, <1>3, SumBoth, 1 \in Int, Zenon
<1>6. Sums(e, f5, t, 1, d)
  BY <1>2, <1>3, SumBoth, 1 \in Int, Zenon
<1> DEFINE S1 == SumFunction(f1)
           S2 == SumFunction(f2)
           S3 == SumFunction(f3)
           S4 == SumFunction(f4)
           S5 == SumFunction(f5)
           SA == SumFunction(a)
           SB == SumFunction(b)
           SE == SumFunction(e)
           T == SumFunction(t)
           D5 == d * S5
<1>7. /\ S1 \in Int /\ S2 \in Int /\ S3 \in Int /\ S4 \in Int /\ S5 \in Int /\ SA \in Int /\ SB \in Int
      /\ SE \in Int /\ T \in Int
  BY <1>4, <1>5, <1>6 DEF Sums
<1>8. D5 \in Int
  BY <1>7
<1>9. /\ Cong(SA, 1 * S1 + 1 * S2) /\ Cong(SB, 1 * S3 + 1 * S4) /\ Cong(SE, 1 * SA + 1 * SB)
      /\ Cong(T, 1 * SE + D5)
  BY <1>4, <1>5, <1>6 DEF Sums
<1> HIDE DEF S1, S2, S3, S4, S5, SA, SB, SE, T, D5
<1>10. /\ 1 * S1 + 1 * S2 = S1 + S2 /\ 1 * S3 + 1 * S4 = S3 + S4 /\ 1 * SA + 1 * SB = SA + SB
       /\ 1 * SE + D5 = SE + D5 /\ S1 + S2 \in Int /\ S3 + S4 \in Int
       /\ (S1 + S2) + (S3 + S4) \in Int
  BY <1>7, <1>8
<1>11. Cong(SA, S1 + S2) /\ Cong(SB, S3 + S4) /\ Cong(SE, SA + SB) /\ Cong(T, SE + D5)
  BY <1>9, <1>10
<1>12. Cong(SA + SB, (S1 + S2) + (S3 + S4))
  BY <1>7, <1>10, <1>11, CongOps
<1>13. Cong(SE, (S1 + S2) + (S3 + S4))
  BY <1>11, <1>12, CongEquiv
<1>14. Cong(SE + D5, ((S1 + S2) + (S3 + S4)) + D5)
  BY <1>7, <1>8, <1>10, <1>13, CongPlus
<1>15. Cong(T, ((S1 + S2) + (S3 + S4)) + D5)
  BY <1>11, <1>14, CongEquiv
<1> QED BY <1>7, <1>15 DEF IsSumOfFive, S1, S2, S3, S4, S5, T, D5

Divides(u, m, q, r) == u \in Int /\ u \div m = q /\ u % m = r

LEMMA DivUnique ==
    ASSUME NEW m \in Nat \ {0}, NEW q \in Int, NEW r \in 0 .. m - 1, NEW u, u = m * q + r
    PROVE  Divides(u, m, q, r)
<1> DEFINE mq == m * q
<1>1. mq \in Int
  OBVIOUS
<1>2. u \in Int
  <2> HIDE DEF mq
  <2>1. u = mq + r
    BY DEF mq
  <2> QED BY <1>1, <2>1
<1> DEFINE p == u \div m
           s == u % m
<1>3. p \in Int /\ s \in 0 .. m - 1 /\ u = m * p + s
  BY <1>2
<1> HIDE DEF p, s
<1>4. ASSUME NEW i \in Int, NEW k \in Int, NEW a \in 0 .. m - 1, NEW b \in 0 .. m - 1,
             m * i + a = m * k + b, i < k
      PROVE  FALSE
  <2>1. m * (i + 1) <= m * k
    BY <1>4
  <2>2. m * (i + 1) = m * i + m
    OBVIOUS
  <2> DEFINE mi == m * i
             mk == m * k
  <2>3. mi \in Int /\ mk \in Int /\ mi + m <= mk /\ mi + a = mk + b
    BY <1>4, <2>1, <2>2
  <2> HIDE DEF mi, mk
  <2> QED BY <2>3
<1>5. p = q
  BY <1>3, <1>4
<1>6. s = r
  <2> DEFINE mp == m * p
  <2>1. mp \in Int /\ mp + s = mp + r
    BY <1>3, <1>5
  <2> HIDE DEF mp
  <2> QED BY <1>3, <2>1
<1> QED BY <1>2, <1>5, <1>6 DEF Divides, p, s

\* Entry i of block j.
LEMMA BlockEntry ==
    ASSUME NEW m \in Nat \ {0}, NEW j \in Nat \ {0}, NEW i \in 1 .. m
    PROVE  LET k == ((j - 1) * m) + i
           IN  k \in Nat \ {0} /\ (k - 1) \div m = j - 1 /\ (k - 1) % m = i - 1
<1> DEFINE k == ((j - 1) * m) + i
           q == j - 1
           qm == q * m
<1>1. q \in Nat /\ i - 1 \in 0 .. m - 1 /\ qm \in Nat /\ qm = m * q
  OBVIOUS
<1>2. k \in Nat \ {0} /\ k - 1 = m * q + (i - 1)
  <2>1. k = qm + i
    OBVIOUS
  <2> HIDE DEF qm, k
  <2> QED BY <1>1, <2>1
<1> HIDE DEF q, qm, k
<1>3. (k - 1) \div m = q /\ (k - 1) % m = i - 1
  <2>1. q \in Int
    BY <1>1
  <2>2. Divides(k - 1, m, q, i - 1)
    BY <1>1, <1>2, <2>1, DivUnique, Zenon
  <2> QED BY <2>2 DEF Divides
<1> QED BY <1>2, <1>3 DEF k, q

-----------------------------------------------------------------------------
(* An amount is the sum of its bits.                                            *)

BitOf(v, i) == (v \div TwoTo[i - 1]) % 2
BitTerms(v, n) == [i \in 1 .. n |-> BitOf(v, i) * TwoTo[i - 1]]

LEMMA BitIs ==
    ASSUME NEW v \in Nat, NEW i \in Nat \ {0}
    PROVE  BitOf(v, i) \in {0, 1} /\ TwoTo[i - 1] \in Nat \ {0} /\ BitOf(v, i) * TwoTo[i - 1] \in Int
<1>1. TwoTo[i - 1] \in Nat \ {0}
  BY TwoToIs
<1> DEFINE d == v \div TwoTo[i - 1]
<1>2. d \in Int
  BY <1>1
<1>3. d % 2 \in {0, 1}
  <2> HIDE DEF d
  <2> QED BY <1>2
<1>4. BitOf(v, i) \in {0, 1}
  BY <1>3 DEF BitOf
<1> QED BY <1>1, <1>4

LEMMA BitsSum ==
    ASSUME NEW v \in Nat
    PROVE  \A n \in Nat : /\ BitTerms(v, n) \in [1 .. n -> Int]
                          /\ SumFunction(BitTerms(v, n)) = v % TwoTo[n]
<1>1. \A n \in Nat : BitTerms(v, n) \in [1 .. n -> Int]
  <2> SUFFICES ASSUME NEW n \in Nat PROVE BitTerms(v, n) \in [1 .. n -> Int]
    OBVIOUS
  <2>1. \A i \in 1 .. n : BitOf(v, i) * TwoTo[i - 1] \in Int
    BY BitIs
  <2> QED BY <2>1 DEF BitTerms
<1> DEFINE T == {n \in Nat : SumFunction(BitTerms(v, n)) = v % TwoTo[n]}
<1>2. 0 \in T
  <2>1. SumFunction(BitTerms(v, 0)) = 0
    BY <1>1, SumEmpty, 0 \in Nat
  <2>2. v % 1 = 0
    OBVIOUS
  <2> QED BY <2>1, <2>2, TwoToIs
<1>3. ASSUME NEW n \in T PROVE n + 1 \in T
  <2>1. n \in Nat /\ n + 1 \in Nat /\ n + 1 \in Nat \ {0} /\ (n + 1) - 1 = n /\ n + 1 \in 1 .. n + 1
    OBVIOUS
  <2> DEFINE f == BitTerms(v, n + 1)
             m == TwoTo[n]
             r == v % m
             q == v \div m
  <2>2. m \in Nat \ {0} /\ TwoTo[n + 1] = 2 * m
    BY <2>1, TwoToIs
  <2>3. f \in [1 .. n + 1 -> Int]
    BY <1>1, <2>1
  <2>4. f[n + 1] = (q % 2) * m
    BY <2>1 DEF BitTerms, BitOf
  <2>5. Cut(f, n) = BitTerms(v, n)
    <3>1. \A i \in 1 .. n : i \in 1 .. n + 1
      BY <2>1
    <3> QED BY <3>1 DEF Cut, BitTerms
  <2>6. SumFunction(f) = f[n + 1] + SumFunction(Cut(f, n))
    <3> HIDE DEF f
    <3> QED BY <2>1, <2>3, SumNext
  <2>7. SumFunction(f) = (q % 2) * m + r
    BY <2>4, <2>5, <2>6
  <2>8. r \in 0 .. m - 1 /\ q \in Int /\ v = m * q + r
    <3> HIDE DEF m
    <3> QED BY <2>2
  <2> HIDE DEF f, m, r, q
  <2> DEFINE p == q \div 2
             d == q % 2
             M == 2 * m
  <2>9. d \in {0, 1} /\ p \in Int /\ q = 2 * p + d
    BY <2>8
  <2>10. d * m + r \in 0 .. M - 1 /\ M \in Nat \ {0} /\ v = M * p + (d * m + r)
    <3>1. m * q = M * p + d * m
      <4>1. CASE d = 0
        <5>1. m * q = M * p
          BY <2>2, <2>9, <4>1
        <5> QED BY <2>2, <2>9, <4>1, <5>1
      <4>2. CASE d = 1
        <5>1. m * q = M * p + m
          BY <2>2, <2>9, <4>2
        <5> QED BY <2>2, <4>2, <5>1
      <4> QED BY <2>9, <4>1, <4>2
    <3>2. d * m \in {0, m}
      BY <2>2, <2>9
    <3> DEFINE dm == d * m
               Mp == M * p
               mq == m * q
    <3>3. Mp \in Int /\ M \in Nat \ {0}
      BY <2>2, <2>9
    <3>4. mq = Mp + dm /\ v = mq + r /\ dm \in {0, m} /\ M = 2 * m
      BY <2>8, <3>1, <3>2
    <3> HIDE DEF dm, Mp, mq, M
    <3>5. dm + r \in 0 .. M - 1 /\ v = Mp + (dm + r)
      BY <2>2, <2>8, <3>3, <3>4
    <3> QED BY <3>3, <3>5 DEF dm, Mp
  <2> HIDE DEF p, M
  <2>11. v % M = d * m + r
    <3>1. Divides(v, M, p, d * m + r)
      BY <2>9, <2>10, DivUnique, Zenon
    <3> QED BY <3>1 DEF Divides
  <2>12. SumFunction(f) = v % TwoTo[n + 1]
    BY <2>2, <2>7, <2>11 DEF M
  <2> QED BY <2>1, <2>12 DEF f
<1>4. T = Nat
  <2> HIDE DEF T
  <2>1. T \in SUBSET Nat
    BY DEF T
  <2> QED BY <1>2, <1>3, <2>1, Induct
<1> QED BY <1>1, <1>4

LEMMA AmountIsBits ==
    ASSUME NEW n \in Nat, NEW v \in 0 .. TwoTo[n] - 1
    PROVE  BitTerms(v, n) \in [1 .. n -> Int] /\ SumFunction(BitTerms(v, n)) = v
<1>1. TwoTo[n] \in Nat \ {0} /\ v \in Nat
  BY TwoToIs
<1>2. v % TwoTo[n] = v
  <2>1. v = TwoTo[n] * 0 + v
    BY <1>1
  <2>2. v \in 0 .. TwoTo[n] - 1
    OBVIOUS
  <2>3. Divides(v, TwoTo[n], 0, v)
    BY <1>1, <2>1, <2>2, DivUnique, 0 \in Int, Zenon
  <2> QED BY <2>3 DEF Divides
<1> QED BY <1>1, <1>2, BitsSum

-----------------------------------------------------------------------------
(* The weights of the bits.                                                     *)

LEMMA WeightIs ==
    ASSUME NEW zc \in Int, NEW k \in Nat \ {0}, N \in Nat \ {0}
    PROVE  LET zz == ScMul(zc, zc)
               q  == (k - 1) \div N
               i  == (k - 1) % N
           IN  /\ q \in Nat /\ i \in 0 .. N - 1
               /\ Weight(zc, k) = ScMul(Pw(zz)[q + 1], TwoTo[i] % Q)
               /\ Weight(zc, k) \in Scalars /\ Weight(zc, k) \in Int
               /\ Cong(Weight(zc, k), Pw(zz)[q + 1] * TwoTo[i])
<1> DEFINE zz == ScMul(zc, zc)
           u == k - 1
           q == u \div N
           i == u % N
           w == Pw(zz)[q + 1]
           t == TwoTo[i]
<1>1. zz \in Int
  BY ScalarOps, QIs
<1>2. u \in Nat
  OBVIOUS
<1>3. q \in Int /\ i \in 0 .. N - 1 /\ u = N * q + i
  <2> HIDE DEF u
  <2> QED BY <1>2
<1>4. q \in Nat /\ q <= u
  <2> HIDE DEF q, i, u
  <2>1. CASE q <= -1
    <3>1. N * q <= -N
      BY <1>3, <2>1
    <3> QED BY <1>2, <1>3, <3>1
  <2>2. CASE q >= 0
    <3>1. N * q >= q
      BY <1>3, <2>2
    <3> QED BY <1>2, <1>3, <2>2, <3>1
  <2> QED BY <1>3, <2>1, <2>2
<1>5. q + 1 \in Nat /\ q + 2 \in 1 .. k + 1 /\ (q + 2) - 1 = q + 1 /\ k + 1 \in Nat /\ i \in Nat
  <2> HIDE DEF q, i
  <2> QED BY <1>3, <1>4
<1> HIDE DEF u, q, i
<1>6. w \in Scalars /\ w \in Int
  BY <1>1, <1>5, PwIs
<1>7. t \in Nat \ {0} /\ t \in Int
  BY <1>5, TwoToIs
<1>8. Powers(zz, k + 1)[q + 2] = w
  <2> HIDE DEF zz
  <2>1. Powers(zz, k + 1) = [j \in 1 .. k + 1 |-> Pw(zz)[j - 1]]
    BY <1>1, <1>5, PowersIs
  <2> QED BY <1>5, <2>1
<1>9. Weight(zc, k) = ScMul(w, t % Q)
  BY <1>8, Zenon DEF Weight, q, i, u
<1>10. t % Q \in Int /\ Cong(t % Q, t)
  BY <1>7, Reduced
<1> HIDE DEF w, t, zz
<1>11. ScMul(w, t % Q) \in Scalars /\ Cong(ScMul(w, t % Q), w * (t % Q))
  BY <1>6, <1>10, ScalarOps
<1>12. Cong(w * (t % Q), w * t)
  BY <1>6, <1>7, <1>10, CongTimes
<1>13. Cong(ScMul(w, t % Q), w * t)
  BY <1>11, <1>12, CongEquiv
<1> QED BY <1>3, <1>4, <1>9, <1>11, <1>13, QIs DEF w, t, zz, q, i, u

IsWeight(zc, k, q, i) ==
    /\ Weight(zc, k) \in Scalars /\ Weight(zc, k) \in Int
    /\ Pw(ScMul(zc, zc))[q + 1] \in Scalars /\ Pw(ScMul(zc, zc))[q + 1] \in Int
    /\ TwoTo[i] \in Nat \ {0}
    /\ Cong(Weight(zc, k), Pw(ScMul(zc, zc))[q + 1] * TwoTo[i])

LEMMA WeightAt ==
    ASSUME NEW zc \in Int, N \in Nat \ {0}, NEW q \in Nat, NEW i \in 0 .. N - 1, NEW k, k = (N * q + i) + 1
    PROVE  IsWeight(zc, k, q, i)
<1> DEFINE Nq == N * q
           zz == ScMul(zc, zc)
<1>1. Nq \in Nat /\ i \in Nat /\ q + 1 \in Nat /\ q \in Int
  OBVIOUS
<1>2. k \in Nat \ {0} /\ k - 1 = N * q + i
  <2> HIDE DEF Nq
  <2>1. k = (Nq + i) + 1
    BY DEF Nq
  <2>2. k - 1 = Nq + i
    BY <1>1, <2>1
  <2> QED BY <1>1, <2>1, <2>2 DEF Nq
<1>3. (k - 1) \div N = q /\ (k - 1) % N = i
  <2>1. Divides(k - 1, N, q, i)
    BY <1>1, <1>2, DivUnique, Zenon
  <2> QED BY <2>1 DEF Divides
<1>4. /\ Weight(zc, k) \in Scalars /\ Weight(zc, k) \in Int
      /\ Cong(Weight(zc, k), Pw(zz)[q + 1] * TwoTo[i])
  BY <1>2, <1>3, WeightIs
<1>5. zz \in Int
  BY ScalarOps, QIs
<1>6. Pw(zz)[q + 1] \in Scalars /\ Pw(zz)[q + 1] \in Int
  <2> HIDE DEF zz
  <2> QED BY <1>1, <1>5, PwIs
<1> QED BY <1>1, <1>4, <1>6, TwoToIs DEF IsWeight

LEMMA WindowedIs ==
    ASSUME NEW zc \in Int, N \in Nat \ {0}, MN \in Nat
    PROVE  WindowedVector(ScMul(zc, zc)) = [k \in 1 .. MN |-> Weight(zc, k)]
<1> DEFINE zz == ScMul(zc, zc)
           Step(p, k) == IF k = 1 THEN zz ELSE IF k <= N THEN ScMul(p[k - 1], 2) ELSE ScMul(p[k - N], zz)
           e == [k \in 1 .. MN |-> Weight(zc, k)]
           f == WindowedVector(zz)
<1>1. zz \in Int /\ zz \in Scalars
  BY ScalarOps, QIs
<1>2. Pw(zz)[0 + 1] = zz
  <2> HIDE DEF zz
  <2>1. Pw(zz)[0] = 1 /\ Pw(zz)[0 + 1] = ScMul(Pw(zz)[0], zz)
    BY <1>1, PwIs
  <2>2. 1 * zz = zz
    BY <1>1
  <2> QED BY <1>1, <2>1, <2>2, ReducedIs DEF ScMul
<1>3. ASSUME NEW k \in 1 .. MN PROVE e[k] = Step(e, k)
  <2>1. e[k] = Weight(zc, k)
    OBVIOUS
  <2>2. CASE k = 1
    <3>1. k = (N * 0 + 0) + 1 /\ 0 \in 0 .. N - 1
      BY <2>2
    <3>2. IsWeight(zc, k, 0, 0)
      BY <3>1, WeightAt, 0 \in Nat, Zenon
    <3>3. Weight(zc, k) \in Scalars /\ Cong(Weight(zc, k), zz * 1)
      BY <1>2, <3>2, TwoToIs DEF IsWeight
    <3>4. zz * 1 = zz
      BY <1>1
    <3> HIDE DEF zz
    <3>5. Weight(zc, k) = zz
      BY <1>1, <3>3, <3>4, CongEq
    <3> QED BY <2>1, <2>2, <3>5
  <2>3. CASE k # 1 /\ k <= N
    <3> DEFINE i == k - 1
               j == k - 2
    <3>1. i \in 0 .. N - 1 /\ j \in 0 .. N - 1 /\ k = (N * 0 + i) + 1 /\ k - 1 = (N * 0 + j) + 1 /\ i = j + 1
      BY <2>3
    <3>2. IsWeight(zc, k, 0, i) /\ IsWeight(zc, k - 1, 0, j)
      BY <3>1, WeightAt, 0 \in Nat, Zenon
    <3> DEFINE p == Pw(zz)[0 + 1]
               t == TwoTo[j]
               v == Weight(zc, k - 1)
               w == Weight(zc, k)
    <3>3. /\ w \in Scalars /\ v \in Int /\ p \in Int /\ t \in Int /\ Cong(w, p * TwoTo[i])
          /\ Cong(v, p * t)
      BY <3>2 DEF IsWeight
    <3>4. TwoTo[i] = 2 * t
      <4>1. j \in Nat
        BY <3>1
      <4> HIDE DEF i, j
      <4> QED BY <3>1, <4>1, TwoToIs
    <3>5. e[k - 1] = v
      BY <2>3
    <3> HIDE DEF p, t, v, w, e, i, j
    <3>6. Cong(w, p * (2 * t))
      BY <3>3, <3>4
    <3>7. p * (2 * t) = (p * t) * 2 /\ p * t \in Int
      BY <3>3
    <3>8. Cong(v * 2, (p * t) * 2)
      BY <3>3, <3>7, CongTimes, 2 \in Int
    <3>9. ScMul(v, 2) \in Scalars /\ Cong(ScMul(v, 2), v * 2)
      BY <3>3, ScalarOps, 2 \in Int
    <3>10. Cong(w, ScMul(v, 2))
      BY <3>6, <3>7, <3>8, <3>9, CongEquiv
    <3>11. w = ScMul(v, 2)
      BY <3>3, <3>9, <3>10, CongEq
    <3> QED BY <2>1, <2>3, <3>5, <3>11 DEF w
  <2>4. CASE k > N
    <3> DEFINE u == k - 1
               q == u \div N
               i == u % N
               l == k - N
               Nq == N * q
    <3>1. u \in Nat
      OBVIOUS
    <3>2. q \in Int /\ i \in 0 .. N - 1 /\ u = Nq + i
      <4> HIDE DEF u
      <4> QED BY <3>1
    <3>3. q - 1 \in Nat /\ q \in Nat /\ (q - 1) + 1 = q
      <4>1. u >= N
        BY <2>4
      <4> HIDE DEF q, i, u
      <4>2. CASE q <= 0
        <5>1. Nq <= 0
          BY <3>2, <4>2
        <5>2. Nq \in Int
          BY <3>2
        <5> HIDE DEF Nq
        <5> QED BY <3>2, <4>1, <5>1, <5>2
      <4> QED BY <3>2, <4>2
    <3>4. k = (N * q + i) + 1 /\ l = (N * (q - 1) + i) + 1 /\ l \in 1 .. MN
      <4>1. u = k - 1
        OBVIOUS
      <4>2. N * (q - 1) = Nq - N
        <5> HIDE DEF q
        <5> QED BY <3>2
      <4>3. Nq \in Int
        <5> HIDE DEF q
        <5> QED BY <3>2
      <4>4. l \in 1 .. MN
        BY <2>4
      <4> DEFINE M == N * (q - 1)
      <4>5. M = Nq - N
        BY <4>2
      <4> HIDE DEF u, Nq, i, q, M
      <4>6. k = (Nq + i) + 1 /\ l = (M + i) + 1
        BY <3>2, <4>1, <4>3, <4>5
      <4> QED BY <4>4, <4>6 DEF Nq, M
    <3> HIDE DEF u, i, q, Nq
    <3>5. IsWeight(zc, k, q, i)
      BY <3>2, <3>3, <3>4, WeightAt, Zenon
    <3>6. IsWeight(zc, l, q - 1, i)
      BY <3>2, <3>3, <3>4, WeightAt, Zenon
    <3> DEFINE p == Pw(zz)[(q - 1) + 1]
               p2 == Pw(zz)[q + 1]
               t == TwoTo[i]
               v == Weight(zc, l)
               w == Weight(zc, k)
    <3>7. /\ w \in Scalars /\ v \in Int /\ p \in Int /\ p2 \in Int /\ t \in Int /\ Cong(w, p2 * t)
          /\ Cong(v, p * t)
      BY <3>5, <3>6 DEF IsWeight
    <3>8. Cong(p2, p * zz)
      <4> HIDE DEF zz
      <4>1. Cong(Pw(zz)[q + 1], Pw(zz)[q] * zz)
        BY <1>1, <3>3, PwNext
      <4> QED BY <3>3, <4>1
    <3>9. e[l] = v
      BY <3>4
    <3> HIDE DEF p, p2, t, v, w, e, l, zz
    <3>10. p * zz \in Int /\ p * t \in Int /\ (p * zz) * t = (p * t) * zz
      BY <1>1, <3>7
    <3>11. Cong(p2 * t, (p * zz) * t)
      BY <3>7, <3>8, <3>10, CongTimes
    <3>12. Cong(v * zz, (p * t) * zz)
      BY <1>1, <3>7, <3>10, CongTimes
    <3>13. ScMul(v, zz) \in Scalars /\ Cong(ScMul(v, zz), v * zz)
      BY <1>1, <3>7, ScalarOps
    <3>14. Cong(w, ScMul(v, zz))
      BY <3>7, <3>10, <3>11, <3>12, <3>13, CongEquiv
    <3>15. w = ScMul(v, zz)
      BY <3>7, <3>13, <3>14, CongEq
    <3>16. k # 1 /\ ~(k <= N) /\ e[k - N] = v
      <4>1. k # 1 /\ ~(k <= N)
        BY <2>4
      <4> QED BY <3>9, <4>1 DEF l
    <3> QED BY <2>1, <3>15, <3>16 DEF w
  <2> QED BY <2>2, <2>3, <2>4
<1>4. e = [k \in 1 .. MN |-> Step(e, k)]
  <2> HIDE DEF Step
  <2> QED BY <1>3
<1>5. f = [k \in 1 .. MN |-> Step(f, k)]
  <2>1. \E p : p = [k \in 1 .. MN |-> Step(p, k)]
    <3> HIDE DEF Step, e
    <3> QED BY <1>4
  <2> QED BY <2>1 DEF WindowedVector
<1>6. \A k \in 1 .. MN : f[k] = Step(f, k) /\ e[k] = Step(e, k)
  <2> HIDE DEF f, e, Step
  <2> QED BY <1>4, <1>5, Zenon
<1> DEFINE T == {n \in Nat : \A k \in 1 .. MN : k <= n => f[k] = e[k]}
<1> HIDE DEF f, e
<1>7. 0 \in T
  OBVIOUS
<1>8. ASSUME NEW n \in T PROVE n + 1 \in T
  <2> SUFFICES ASSUME NEW k \in 1 .. MN, k = n + 1 PROVE f[k] = e[k]
    OBVIOUS
  <2>1. n \in Nat /\ \A j \in 1 .. MN : j <= n => f[j] = e[j]
    OBVIOUS
  <2>2. k # 1 => k - 1 \in 1 .. MN /\ k - 1 <= n
    BY <2>1
  <2>3. k > N => k - N \in 1 .. MN /\ k - N <= n
    BY <2>1
  <2>4. (k # 1 => f[k - 1] = e[k - 1]) /\ (k > N => f[k - N] = e[k - N])
    BY <2>1, <2>2, <2>3
  <2>5. k <= N \/ k > N
    OBVIOUS
  <2>6. Step(f, k) = Step(e, k)
    BY <2>4, <2>5
  <2>7. f[k] = e[k]
    <3> HIDE DEF Step, T
    <3> QED BY <1>6, <2>6, Zenon
  <2> QED BY <2>7
<1>9. T = Nat
  <2> HIDE DEF T
  <2>1. T \in SUBSET Nat
    BY DEF T
  <2> QED BY <1>7, <1>8, <2>1, Induct
<1>10. \A k \in 1 .. MN : f[k] = e[k]
  <2> SUFFICES ASSUME NEW k \in 1 .. MN PROVE f[k] = e[k]
    OBVIOUS
  <2>1. k \in T /\ k <= k
    BY <1>9
  <2> QED BY <2>1
<1>11. f = [k \in 1 .. MN |-> f[k]] /\ e = [k \in 1 .. MN |-> e[k]]
  <2>1. f = [k \in 1 .. MN |-> f[k]]
    <3> HIDE DEF Step
    <3> QED BY <1>5
  <2>2. e = [k \in 1 .. MN |-> e[k]]
    BY DEF e
  <2> QED BY <2>1, <2>2
<1>12. f = e
  BY <1>10, <1>11
<1> QED BY <1>12 DEF f, e

-----------------------------------------------------------------------------
(* Sizes, and the amounts in the bits of all blocks.                            *)

Fits == Len(masks) \in Nat /\ ~TooLarge(Len(masks))

LEMMA SizesAre ==
    ASSUME Fits
    PROVE  /\ N \in Nat \ {0} /\ PaddedM(Len(masks)) \in Nat \ {0} /\ Len(masks) \in 0 .. PaddedM(Len(masks))
           /\ MN = PaddedM(Len(masks)) * N /\ MN \in Nat \ {0} /\ MN \in 0 .. Vectors
           /\ \E T \in Nat : MN = TwoTo[T]
<1> DEFINE P == PaddedM(Len(masks))
<1>0. LogN \in Nat /\ MaxM \in Nat /\ MaxM * TwoTo[LogN] <= Vectors /\ Vectors \in Nat
  BY SizesAssumption, BaseAssumption
<1>1. PICK k \in Nat : P = TwoTo[k]
  BY PaddedIs DEF Fits
<1>2. P \in Nat \ {0} /\ N \in Nat \ {0} /\ N = TwoTo[LogN]
  BY <1>0, <1>1, TwoToIs DEF N
<1>3. Len(masks) \in Nat /\ Len(masks) <= P /\ P <= MaxM
  <2>1. Len(masks) <= P
    BY PaddedIs DEF Fits
  <2>2. ~(P > MaxM)
    BY DEF Fits, TooLarge
  <2> HIDE DEF P
  <2> QED BY <1>0, <1>2, <2>1, <2>2 DEF Fits
<1>4. MN = P * N
  BY DEF MN
<1>5. MN = TwoTo[k + LogN] /\ k + LogN \in Nat
  BY <1>0, <1>1, <1>2, <1>4, TwoToAdd
<1>6. P * N <= MaxM * N /\ P * N \in Nat \ {0}
  <2> HIDE DEF P
  <2> QED BY <1>0, <1>2, <1>3
<1> HIDE DEF P
<1>7. MN \in Nat \ {0} /\ MN \in 0 .. Vectors
  BY <1>0, <1>2, <1>4, <1>6
<1>8. Len(masks) \in 0 .. P
  BY <1>2, <1>3
<1> QED BY <1>2, <1>4, <1>5, <1>7, <1>8 DEF P

\* Entry i of block j is one of the entries of all blocks.
LEMMA InBlocks ==
    ASSUME NEW m \in Nat \ {0}, NEW p \in Nat, NEW j \in 1 .. p, NEW i \in 1 .. m
    PROVE  ((j - 1) * m) + i \in 1 .. p * m /\ ((j - 1) * m) + i = (m * (j - 1) + (i - 1)) + 1
<1> DEFINE q == j - 1
           d == p - j
           qm == q * m
           dm == d * m
           pm == p * m
<1>1. q \in Nat /\ d \in Nat /\ p = (q + 1) + d /\ i \in Nat /\ 1 <= i /\ i <= m
  OBVIOUS
<1> HIDE DEF q, d
<1>2. qm \in Nat /\ dm \in Nat /\ pm \in Nat /\ pm = (qm + m) + dm /\ m * q = qm
  BY <1>1
<1> HIDE DEF qm, dm, pm
<1>3. qm + i \in 1 .. pm /\ qm + i = (qm + (i - 1)) + 1
  BY <1>1, <1>2
<1> QED BY <1>2, <1>3 DEF qm, pm, q

LEMMA BitAtIs ==
    ASSUME N \in Nat \ {0}, amounts \in Seq(0 .. TwoTo[N] - 1), NEW k \in Nat \ {0}
    PROVE  BitAt(k) \in {0, 1}
<1> DEFINE u == k - 1
           j == (u \div N) + 1
           i == (u % N) + 1
<1>1. u \in Nat
  OBVIOUS
<1>2. j \in Nat \ {0} /\ i \in Nat \ {0}
  <2>1. u \div N \in Nat /\ u % N \in Nat
    <3> HIDE DEF u
    <3>1. u % N \in 0 .. N - 1 /\ u \div N \in Int /\ u = N * (u \div N) + (u % N)
      BY <1>1, ModDef
    <3> DEFINE q == u \div N
               v == u % N
    <3> HIDE DEF q, v
    <3>2. v \in 0 .. N - 1 /\ q \in Int /\ u = N * q + v
      BY <3>1 DEF q, v
    <3>3. CASE q <= -1
      <4>1. N * q <= -N
        BY <3>2, <3>3
      <4> QED BY <1>1, <3>2, <4>1
    <3>4. q <= -1 \/ q >= 0
      BY <3>2
    <3> QED BY <3>2, <3>3, <3>4 DEF q, v
  <2> HIDE DEF u
  <2> QED BY <2>1
<1>3. BitAt(k) = Bit(j, i)
  BY DEF BitAt
<1> HIDE DEF i, j
<1>4. CASE j > Len(amounts)
  BY <1>3, <1>4 DEF Bit
<1>5. CASE ~(j > Len(amounts))
  <2>1. Len(amounts) \in Nat /\ DOMAIN amounts = 1 .. Len(amounts)
    BY LenProperties
  <2>2. j \in 1 .. Len(amounts)
    BY <1>2, <1>5, <2>1
  <2>3. amounts[j] \in 0 .. TwoTo[N] - 1
    BY <2>1, <2>2, ElementOfSeq
  <2>4. TwoTo[N] \in Nat \ {0}
    <3>1. N \in Nat
      OBVIOUS
    <3> QED BY <3>1, TwoToIs, Zenon
  <2>5. amounts[j] \in Nat
    BY <2>3, <2>4
  <2>6. BitOf(amounts[j], i) \in {0, 1}
    BY <1>2, <2>5, BitIs
  <2> QED BY <1>3, <1>5, <2>6 DEF Bit, BitOf
<1> QED BY <1>4, <1>5

Weighed(zc) == [k \in 1 .. MN |-> BitAt(k) * Weight(zc, k)]
AmountTerms(zc) == [j \in 1 .. Len(masks) |-> Pw(ScMul(zc, zc))[j] * amounts[j]]

LEMMA BlockWeighs ==
    ASSUME NEW zc \in Int, N \in Nat \ {0}, NEW P \in Nat, MN = P * N, NEW j \in 1 .. P, Len(amounts) \in Nat,
           j <= Len(amounts) => amounts[j] \in 0 .. TwoTo[N] - 1,
           Weighed(zc) \in [1 .. MN -> Int]
    PROVE  Cong(BlockSum(Weighed(zc), N, j), IF j <= Len(amounts) THEN Pw(ScMul(zc, zc))[j] * amounts[j] ELSE 0)
<1> DEFINE f == Weighed(zc)
           zz == ScMul(zc, zc)
           w == Pw(zz)[j]
           h == [i \in 1 .. N |-> f[((j - 1) * N) + i]]
<1>1. BlockSum(f, N, j) = SumFunction(h)
  BY DEF BlockSum
<1>2. zz \in Int /\ j - 1 \in Nat /\ (j - 1) + 1 = j /\ j \in Nat \ {0} /\ j \in Int
  <2>1. zz \in Int
    BY ScalarOps, QIs
  <2>2. j - 1 \in Nat /\ (j - 1) + 1 = j /\ j \in Nat \ {0} /\ j \in Int
    OBVIOUS
  <2> QED BY <2>1, <2>2
<1>3. ASSUME NEW i \in 1 .. N
      PROVE  /\ ((j - 1) * N) + i \in 1 .. MN
             /\ BitAt(((j - 1) * N) + i) = Bit(j, i)
             /\ IsWeight(zc, ((j - 1) * N) + i, j - 1, i - 1)
  <2> DEFINE k == ((j - 1) * N) + i
  <2>1. k \in 1 .. MN /\ k = (N * (j - 1) + (i - 1)) + 1
    BY InBlocks
  <2>2. (k - 1) \div N = j - 1 /\ (k - 1) % N = i - 1
    <3>1. k - 1 = N * (j - 1) + (i - 1) /\ j - 1 \in Int /\ i - 1 \in 0 .. N - 1
      <4> DEFINE o == N * (j - 1)
      <4>1. o \in Int /\ k = (o + (i - 1)) + 1 /\ i - 1 \in 0 .. N - 1
        BY <1>2, <2>1
      <4> HIDE DEF o, k
      <4>2. k - 1 = o + (i - 1)
        BY <4>1
      <4> QED BY <1>2, <4>1, <4>2 DEF o
    <3> HIDE DEF k
    <3>2. Divides(k - 1, N, j - 1, i - 1)
      BY <3>1, DivUnique, Zenon
    <3> QED BY <3>2 DEF Divides
  <2>3. i - 1 \in 0 .. N - 1 /\ (i - 1) + 1 = i
    OBVIOUS
  <2> HIDE DEF k
  <2>4. BitAt(k) = Bit(j, i)
    BY <1>2, <2>2, <2>3 DEF BitAt
  <2>5. IsWeight(zc, k, j - 1, i - 1)
    BY <1>2, <2>1, <2>3, WeightAt, Zenon
  <2> QED BY <2>1, <2>4, <2>5 DEF k
<1>4. h \in [1 .. N -> Int] /\ \A i \in 1 .. N : h[i] = Bit(j, i) * Weight(zc, ((j - 1) * N) + i)
  <2>1. ASSUME NEW i \in 1 .. N PROVE h[i] \in Int /\ h[i] = Bit(j, i) * Weight(zc, ((j - 1) * N) + i)
    <3> DEFINE k == ((j - 1) * N) + i
    <3>1. k \in 1 .. MN /\ BitAt(k) = Bit(j, i)
      BY <1>3
    <3>2. h[i] = f[k]
      OBVIOUS
    <3> HIDE DEF k, h
    <3>3. f[k] = BitAt(k) * Weight(zc, k) /\ f[k] \in Int
      BY <3>1 DEF Weighed
    <3> QED BY <3>1, <3>2, <3>3 DEF k
  <2> QED BY <2>1
<1> HIDE DEF f, h, zz
<1>5. w \in Int
  BY <1>2, PwIs
<1>6. CASE j <= Len(amounts)
  <2> DEFINE v == amounts[j]
             g == BitTerms(v, N)
  <2>1. v \in 0 .. TwoTo[N] - 1 /\ v \in Nat /\ v \in Int
    BY <1>6, TwoToIs
  <2>2. g \in [1 .. N -> Int] /\ SumFunction(g) = v
    <3> HIDE DEF v
    <3> QED BY <2>1, AmountIsBits
  <2>3. ASSUME NEW i \in 1 .. N PROVE Cong(h[i], w * g[i])
    <3> DEFINE b == BitOf(v, i)
               t == TwoTo[i - 1]
               k == ((j - 1) * N) + i
               wk == Weight(zc, k)
    <3>1. Bit(j, i) = b
      BY <1>2, <1>6 DEF Bit, BitOf
    <3>2. g[i] = b * t
      BY DEF BitTerms
    <3>3. wk \in Int /\ t \in Int /\ Cong(wk, w * t)
      <4>1. IsWeight(zc, k, j - 1, i - 1)
        BY <1>3
      <4>2. Cong(wk, Pw(zz)[(j - 1) + 1] * t) /\ wk \in Int /\ t \in Int
        <5> HIDE DEF k
        <5>1. t \in Nat \ {0}
          BY <4>1 DEF IsWeight
        <5> QED BY <4>1, <5>1 DEF IsWeight, zz
      <4> QED BY <1>2, <4>2
    <3>4. b \in Int
      <4> HIDE DEF v
      <4>1. BitOf(v, i) \in {0, 1}
        BY <2>1, BitIs
      <4> QED BY <4>1
    <3>5. h[i] = b * wk
      BY <1>4, <3>1
    <3> HIDE DEF b, t, wk, w, g
    <3>6. w * t \in Int /\ b * (w * t) = w * (b * t)
      BY <1>5, <3>3, <3>4
    <3>7. Cong(b * wk, b * (w * t))
      BY <3>3, <3>4, <3>6, CongTimes
    <3> QED BY <3>2, <3>5, <3>6, <3>7
  <2> HIDE DEF g, v, w
  <2>4. Cong(SumFunction(h), w * SumFunction(g))
    BY <1>4, <1>5, <2>2, <2>3, SumScaled
  <2> QED BY <1>1, <1>6, <2>2, <2>4 DEF v, w, f, zz
<1>7. CASE ~(j <= Len(amounts))
  <2> DEFINE o == [i \in 1 .. N |-> 0]
  <2>1. o \in [1 .. N -> Int]
    OBVIOUS
  <2>2. \A i \in 1 .. N : h[i] = 0 /\ Cong(h[i], 0 * o[i])
    <3> SUFFICES ASSUME NEW i \in 1 .. N PROVE h[i] = 0 /\ Cong(h[i], 0 * o[i])
      OBVIOUS
    <3>1. Bit(j, i) = 0
      BY <1>2, <1>7 DEF Bit
    <3>2. Weight(zc, ((j - 1) * N) + i) \in Int
      BY <1>3 DEF IsWeight
    <3>3. h[i] = 0
      BY <1>4, <3>1, <3>2
    <3>4. 0 * o[i] = 0
      OBVIOUS
    <3> QED BY <3>3, <3>4, CongEquiv
  <2> HIDE DEF o
  <2>3. Cong(SumFunction(h), 0 * SumFunction(o)) /\ SumFunction(o) \in Int
    BY <1>4, <2>1, <2>2, SumScaled, 0 \in Int
  <2>4. 0 * SumFunction(o) = 0
    BY <2>3
  <2> QED BY <1>1, <1>7, <2>3, <2>4 DEF f
<1> QED BY <1>6, <1>7

WeighsAmounts(zc) ==
    /\ Weighed(zc) \in [1 .. MN -> Int] /\ AmountTerms(zc) \in [1 .. Len(masks) -> Int]
    /\ Cong(SumFunction(Weighed(zc)), SumFunction(AmountTerms(zc)))

LEMMA AmountsWeigh ==
    ASSUME NEW zc \in Int, Fits, amounts \in Seq(0 .. TwoTo[N] - 1), Len(amounts) = Len(masks)
    PROVE  WeighsAmounts(zc)
<1> DEFINE f == Weighed(zc)
           P == PaddedM(Len(masks))
           n == Len(masks)
           d == P - n
           zz == ScMul(zc, zc)
           At2(j) == IF j <= n THEN Pw(zz)[j] * amounts[j] ELSE 0
           g == [j \in 1 .. P |-> At2(j)]
           e == AmountTerms(zc)
<1>1. /\ N \in Nat \ {0} /\ P \in Nat \ {0} /\ n \in Nat /\ n <= P /\ MN = P * N /\ MN \in Nat
      /\ d \in Nat /\ n + d = P
  <2>1. N \in Nat \ {0} /\ P \in Nat \ {0} /\ n \in 0 .. P /\ MN = P * N /\ MN \in Nat
    BY SizesAre
  <2> HIDE DEF P, n
  <2> QED BY <2>1
<1>2. zz \in Int
  BY ScalarOps, QIs
<1>3. \A j \in 1 .. n : amounts[j] \in 0 .. TwoTo[N] - 1 /\ amounts[j] \in Int
  <2>1. DOMAIN amounts = 1 .. n
    BY <1>1, LenProperties
  <2>2. \A j \in 1 .. n : amounts[j] \in 0 .. TwoTo[N] - 1
    BY <2>1, ElementOfSeq
  <2>3. TwoTo[N] \in Int
    <3>1. N \in Nat
      BY <1>1
    <3>2. TwoTo[N] \in Nat \ {0}
      BY <3>1, TwoToIs, Zenon
    <3> QED BY <3>2
  <2> QED BY <2>2, <2>3
<1>4. \A j \in 1 .. P : At2(j) \in Int
  <2> SUFFICES ASSUME NEW j \in 1 .. P PROVE At2(j) \in Int
    OBVIOUS
  <2>1. CASE j <= n
    <3> HIDE DEF zz
    <3>1. j \in Nat /\ j \in 1 .. n
      BY <1>1, <2>1
    <3>2. Pw(zz)[j] \in Int /\ amounts[j] \in Int
      BY <1>2, <1>3, <3>1, PwIs
    <3> QED BY <2>1, <3>2
  <2> QED BY <2>1
<1>5. g \in [1 .. P -> Int]
  <2> HIDE DEF At2, P
  <2> QED BY <1>4
<1>6. \A k \in 1 .. MN : BitAt(k) * Weight(zc, k) \in Int
  <2> SUFFICES ASSUME NEW k \in 1 .. MN PROVE BitAt(k) * Weight(zc, k) \in Int
    OBVIOUS
  <2>1. k \in Nat \ {0}
    BY <1>1
  <2>2. Weight(zc, k) \in Int
    BY <1>1, <2>1, WeightIs
  <2>3. BitAt(k) \in {0, 1}
    BY <1>1, <2>1, BitAtIs
  <2> QED BY <2>2, <2>3
<1>7. f \in [1 .. MN -> Int]
  BY <1>6 DEF Weighed
<1>8. \A j \in 1 .. P : Same(BlockSum(f, N, j), g[j], Q)
  <2> SUFFICES ASSUME NEW j \in 1 .. P PROVE Same(BlockSum(f, N, j), g[j], Q)
    OBVIOUS
  <2>1. j <= Len(amounts) => amounts[j] \in 0 .. TwoTo[N] - 1
    BY <1>1, <1>3
  <2>2. Cong(BlockSum(f, N, j), At2(j))
    <3>1. Len(amounts) = n /\ Len(amounts) \in Nat
      BY <1>1
    <3> HIDE DEF P, f
    <3>2. Cong(BlockSum(Weighed(zc), N, j), IF j <= Len(amounts) THEN Pw(ScMul(zc, zc))[j] * amounts[j] ELSE 0)
      BY <1>1, <1>7, <2>1, <3>1, BlockWeighs DEF f
    <3> QED BY <3>1, <3>2 DEF f
  <2> QED BY <2>2 DEF Cong
<1>9. Same(SumFunction(f), SumFunction(g), Q)
  <2>1. f \in [1 .. P * N -> Int]
    BY <1>1, <1>7
  <2> HIDE DEF f, g, P
  <2> QED BY <1>1, <1>5, <1>8, <2>1, QIs, SumBlocks
<1>10. Cut(g, n) = e /\ e \in [1 .. n -> Int]
  <2>1. \A j \in 1 .. n : j \in 1 .. P /\ g[j] = Pw(zz)[j] * amounts[j] /\ g[j] \in Int
    <3> HIDE DEF P, n
    <3> QED BY <1>1, <1>5
  <2> HIDE DEF g
  <2> QED BY <2>1 DEF Cut, AmountTerms
<1>11. SumFunction(Shift(g, n, d)) = 0
  <2> DEFINE h == Shift(g, n, d)
             k == d + 1
  <2>1. \A i \in 1 .. d : g[n + i] = 0
    <3> HIDE DEF P, n
    <3>1. \A i \in 1 .. d : n + i \in 1 .. P /\ ~(n + i <= n)
      BY <1>1
    <3> QED BY <3>1
  <2> HIDE DEF g
  <2>2. h \in [1 .. d -> Int] /\ \A i \in 1 .. d : h[i] = 0
    BY <2>1 DEF Shift
  <2>3. k \in Nat \ {0} /\ ~(k <= d)
    BY <1>1
  <2>4. d \in Nat
    BY <1>1
  <2> HIDE DEF h, k, d
  <2>5. SumFunction(h) = IF k <= d THEN h[k] ELSE 0
    BY <2>2, <2>3, <2>4, SumOne, Zenon
  <2>6. SumFunction(h) = 0
    BY <2>3, <2>5
  <2> QED BY <2>6 DEF h
<1>12. SumFunction(g) = SumFunction(Cut(g, n)) + SumFunction(Shift(g, n, d))
  <2>1. g \in [1 .. n + d -> Int]
    BY <1>1, <1>5
  <2> HIDE DEF g, n, d
  <2>2. Splits(g, n, d)
    BY <1>1, <2>1, SumSplits
  <2> QED BY <2>2 DEF Splits
<1>13. SumFunction(e) \in Int
  <2> HIDE DEF e, n
  <2> QED BY <1>1, <1>10, SumIs
<1> HIDE DEF g, f, e, n, d, P
<1>14. SumFunction(g) = SumFunction(e)
  BY <1>10, <1>11, <1>12, <1>13
<1>15. Cong(SumFunction(f), SumFunction(e))
  BY <1>9, <1>14 DEF Cong
<1> QED BY <1>7, <1>10, <1>15 DEF WeighsAmounts, f, e, n

-----------------------------------------------------------------------------
(* What the vectors of the first round stand for.                               *)

StartA(zc) == [k \in 1 .. MN |-> ScSub(LeftBits[k], zc)]
StartB(yc, zc) == [k \in 1 .. MN |->
    ScAdd(ScAdd(RightBits[k], zc), ScMul(WindowedVector(ScMul(zc, zc))[k], Powers(yc, MN + 2)[MN - k + 2]))]
StartG == [k \in 1 .. MN |-> PointOf(BaseGi(k))]
StartH == [k \in 1 .. MN |-> PointOf(BaseHi(k))]
StartAlpha(yc, zc) == ScAdd(alpha1, ScMul(Powers(yc, MN + 2)[MN + 2],
    ScSum([j \in DOMAIN masks |-> ScMul(MaskWeights(ScMul(zc, zc))[j], masks[j])])))

\* The multiples of the bases that are not committed to in A.
GShifts(zc) == [k \in 1 .. MN |-> ScSub(0, zc)]
HShifts(yc, zc) == [k \in 1 .. MN |-> ScMulAdd(Weight(zc, k), Powers(yc, MN + 2)[MN - k + 2], zc)]

\* y^k and y^(MN + 1 - k), whose product is the same for all k.
Power(yc, k) == Pw(yc)[k]
Opposite(yc, k) == Pw(yc)[(MN + 1) - k]
Top(yc) == Pw(yc)[MN + 1]

Begins(yc, zc, k) ==
    /\ LeftBits[k] = BitAt(k) /\ LeftBits[k] \in {0, 1}
    /\ RightBits[k] \in Int /\ Cong(RightBits[k], LeftBits[k] - 1)
    /\ Weight(zc, k) \in Int /\ Power(yc, k) \in Int /\ Opposite(yc, k) \in Int /\ Top(yc) \in Int
    /\ Cong(Opposite(yc, k) * Power(yc, k), Top(yc))
    /\ StartA(zc)[k] \in Scalars /\ StartB(yc, zc)[k] \in Scalars
    /\ Cong(StartA(zc)[k], LeftBits[k] - zc)
    /\ Cong(StartB(yc, zc)[k], (RightBits[k] + zc) + Weight(zc, k) * Opposite(yc, k))
    /\ GShifts(zc)[k] \in Int /\ HShifts(yc, zc)[k] \in Int
    /\ Cong(GShifts(zc)[k], 0 - zc)
    /\ Cong(HShifts(yc, zc)[k], Weight(zc, k) * Opposite(yc, k) + zc)

LEMMA BeginsAt ==
    ASSUME Fits, amounts \in Seq(0 .. TwoTo[N] - 1),
           NEW yc \in Scalars, NEW zc \in Scalars, NEW k \in 1 .. MN
    PROVE  Begins(yc, zc, k)
<1> DEFINE l == LeftBits[k]
           rr == RightBits[k]
           w == Weight(zc, k)
           u == Opposite(yc, k)
           o == (MN + 1) - k
           zz == ScMul(zc, zc)
<1>1. N \in Nat \ {0} /\ MN \in Nat \ {0} /\ yc \in Int /\ zc \in Int /\ zz \in Int
  <2>1. N \in Nat \ {0} /\ MN \in Nat \ {0}
    BY SizesAre
  <2>2. yc \in Int /\ zc \in Int
    BY QIs
  <2> QED BY <2>1, <2>2, ScalarOps, QIs
<1>2. k \in Nat \ {0} /\ k \in Nat /\ o \in Nat /\ o + k = MN + 1 /\ MN + 1 \in Nat /\ MN + 2 \in Nat
      /\ MN - k + 2 = o + 1 /\ o + 1 \in 1 .. MN + 2 /\ (o + 1) - 1 = o /\ MN + 2 \in 1 .. MN + 2
  BY <1>1
<1>3. l = BitAt(k) /\ l \in {0, 1}
  BY <1>1, <1>2, BitAtIs DEF LeftBits
<1>4. rr \in Int /\ rr \in Scalars /\ Cong(rr, l - 1)
  <2>1. rr = IF BitAt(k) = 1 THEN 0 ELSE MinusOne
    BY DEF RightBits
  <2>2. MinusOne \in Scalars /\ 0 \in Scalars /\ Scalars \subseteq Int
    BY QIs DEF MinusOne, Scalars
  <2>3. Cong(MinusOne, 0 - 1)
    <3>1. MinusOne = Q * 1 + (0 - 1) /\ 0 - 1 = Q * (0 - 1) + (Q - 1)
      BY QIs DEF MinusOne
    <3>2. (0 - 1) % Q = Q - 1
      <4>1. Divides(0 - 1, Q, 0 - 1, Q - 1)
        <5>1. Q \in Nat \ {0} /\ 0 - 1 \in Int /\ Q - 1 \in 0 .. Q - 1
          BY QIs
        <5> QED BY <3>1, <5>1, DivUnique, Zenon
      <4> QED BY <4>1 DEF Divides
    <3>3. MinusOne % Q = Q - 1
      BY <2>2, ReducedIs DEF MinusOne
    <3> QED BY <3>2, <3>3, CongIs
  <2>4. l = 1 => l - 1 = 0
    OBVIOUS
  <2>5. l = 0 => l - 1 = 0 - 1
    OBVIOUS
  <2> HIDE DEF l, rr
  <2> QED BY <1>3, <2>1, <2>2, <2>3, <2>4, <2>5, CongEquiv
<1>5. w \in Int
  BY <1>1, <1>2, WeightIs
<1>6. /\ Power(yc, k) \in Int /\ u \in Int /\ Top(yc) \in Int
      /\ Cong(u * Power(yc, k), Top(yc))
  <2>1. Pw(yc)[k] \in Int /\ Pw(yc)[o] \in Int /\ Pw(yc)[MN + 1] \in Int
    BY <1>1, <1>2, PwIs
  <2>2. Cong(Pw(yc)[o + k], Pw(yc)[o] * Pw(yc)[k])
    <3> HIDE DEF o
    <3> QED BY <1>1, <1>2, PwAdd
  <2> QED BY <1>2, <2>1, <2>2, CongEquiv DEF Power, Opposite, Top
<1>7. Powers(yc, MN + 2)[MN - k + 2] = u
  <2>1. Powers(yc, MN + 2) = [i \in 1 .. MN + 2 |-> Pw(yc)[i - 1]]
    BY <1>1, <1>2, PowersIs
  <2>2. Powers(yc, MN + 2)[o + 1] = Pw(yc)[(o + 1) - 1]
    <3> HIDE DEF o
    <3> QED BY <1>2, <2>1
  <2> QED BY <1>2, <2>2 DEF Opposite
<1>8. WindowedVector(zz)[k] = w
  <2>1. WindowedVector(zz) = [i \in 1 .. MN |-> Weight(zc, i)]
    BY <1>1, WindowedIs
  <2> QED BY <2>1
<1>9. StartA(zc)[k] = ScSub(l, zc) /\ GShifts(zc)[k] = ScSub(0, zc)
  BY DEF StartA, GShifts
<1>10. StartB(yc, zc)[k] = ScAdd(ScAdd(rr, zc), ScMul(w, u)) /\ HShifts(yc, zc)[k] = ScMulAdd(w, u, zc)
  BY <1>7, <1>8 DEF StartB, HShifts
<1> HIDE DEF l, rr, w, u, zz, o
<1>11. l \in Int /\ w * u \in Int /\ rr + zc \in Int
  BY <1>1, <1>3, <1>4, <1>5, <1>6
<1>12. ScSub(l, zc) \in Scalars /\ Cong(ScSub(l, zc), l - zc) /\ ScSub(0, zc) \in Scalars /\ Cong(ScSub(0, zc), 0 - zc)
  BY <1>1, <1>11, ScalarOps, 0 \in Int
<1>13. ScMulAdd(w, u, zc) \in Scalars /\ Cong(ScMulAdd(w, u, zc), w * u + zc)
  <2>1. w * u + zc \in Int
    BY <1>1, <1>11
  <2> QED BY <2>1, Reduced DEF ScMulAdd
<1>14. ScAdd(ScAdd(rr, zc), ScMul(w, u)) \in Scalars /\ Cong(ScAdd(ScAdd(rr, zc), ScMul(w, u)), (rr + zc) + w * u)
  <2> DEFINE p == ScAdd(rr, zc)
             q == ScMul(w, u)
             wu == w * u
             rz == rr + zc
  <2>1. p \in Scalars /\ Cong(p, rz) /\ q \in Scalars /\ Cong(q, wu)
    BY <1>1, <1>4, <1>5, <1>6, ScalarOps
  <2>2. p \in Int /\ q \in Int /\ wu \in Int /\ rz \in Int
    BY <1>11, <2>1, QIs
  <2> HIDE DEF p, q, wu, rz
  <2>3. ScAdd(p, q) \in Scalars /\ Cong(ScAdd(p, q), p + q)
    BY <2>2, ScalarOps
  <2>4. Cong(p + q, rz + wu)
    BY <2>1, <2>2, CongOps
  <2>5. Cong(ScAdd(p, q), rz + wu)
    BY <2>3, <2>4, CongEquiv
  <2> QED BY <2>3, <2>5 DEF p, q, wu, rz
<1>15. ScSub(0, zc) \in Int /\ ScMulAdd(w, u, zc) \in Int
  BY <1>12, <1>13, QIs
<1> QED BY <1>3, <1>4, <1>5, <1>6, <1>9, <1>10, <1>12, <1>13, <1>14, <1>15, Zenon DEF Begins, l, rr, w, u

EntrySplits(l, rr, zc, w, yk, top, a, b, sg, sh, g, h, Hx) ==
    Cong((a * g + b * h) + (a * b) * (yk * Hx),
         ((l * g + sg * g) + (rr * h + sh * h)) + Hx * ((zc - zc * zc) * yk + top * (l * w - zc * w)))

LEMMA EntryBegins ==
    ASSUME NEW l \in {0, 1}, NEW rr \in Int, Cong(rr, l - 1), NEW zc \in Int, NEW w \in Int, NEW u \in Int,
           NEW yk \in Int, NEW top \in Int, Cong(u * yk, top), NEW a \in Int, NEW b \in Int,
           Cong(a, l - zc), Cong(b, (rr + zc) + w * u), NEW sg \in Int, NEW sh \in Int,
           Cong(sg, 0 - zc), Cong(sh, w * u + zc), NEW g \in Int, NEW h \in Int, NEW Hx \in Int
    PROVE  EntrySplits(l, rr, zc, w, yk, top, a, b, sg, sh, g, h, Hx)
<1> DEFINE wu == w * u
           e == (zc - zc * zc) * yk + top * (l * w - zc * w)
           aby == (a * b) * yk
           ag == a * g
           bh == b * h
           lg == l * g
           sgg == sg * g
           rh == rr * h
           shh == sh * h
           eH == Hx * e
           abyH == (a * b) * (yk * Hx)
<1>1. wu \in Int /\ l \in Int /\ aby \in Int /\ ag \in Int /\ bh \in Int /\ lg \in Int /\ sgg \in Int /\ rh \in Int
      /\ shh \in Int
  OBVIOUS
<1>2. e \in Int
  <2> DEFINE z2 == zc - zc * zc
             d == l * w - zc * w
  <2>1. z2 \in Int /\ d \in Int
    BY <1>1
  <2> HIDE DEF z2, d
  <2> QED BY <2>1
<1>3. Cong(aby, e)
  <2> HIDE DEF aby, e
  <2> QED BY EntryWeight DEF aby, e
<1>4. abyH = aby * Hx /\ abyH \in Int
  <2> DEFINE ab == a * b
  <2>1. ab \in Int
    OBVIOUS
  <2> HIDE DEF ab
  <2>2. ab * (yk * Hx) = (ab * yk) * Hx /\ ab * (yk * Hx) \in Int
    BY <2>1
  <2> QED BY <2>2 DEF ab
<1> HIDE DEF e, aby, abyH
<1>5. eH \in Int /\ eH = e * Hx
  BY <1>2
<1>6. Cong(abyH, eH)
  BY <1>1, <1>2, <1>3, <1>4, <1>5, CongTimes
<1>7. Cong(a, l + sg) /\ l + sg \in Int
  <2>1. Cong(l + sg, l + (0 - zc)) /\ l + (0 - zc) = l - zc
    <3>1. 0 - zc \in Int /\ l + (0 - zc) = l - zc
      BY <1>1
    <3> QED BY <1>1, <3>1, CongPlus
  <2> QED BY <1>1, <2>1, CongEquiv
<1>8. Cong(b, rr + sh) /\ rr + sh \in Int
  <2>1. wu + zc \in Int /\ rr + (wu + zc) = (rr + zc) + wu
    BY <1>1
  <2>2. Cong(rr + sh, rr + (wu + zc))
    BY <2>1, CongPlus
  <2> HIDE DEF wu
  <2>3. Cong(b, (rr + zc) + wu)
    BY DEF wu
  <2> QED BY <2>1, <2>2, <2>3, CongEquiv
<1>9. Cong(ag, lg + sgg)
  <2>1. (l + sg) * g = lg + sgg
    BY <1>1
  <2> QED BY <1>7, <2>1, CongTimes
<1>10. Cong(bh, rh + shh)
  <2>1. (rr + sh) * h = rh + shh
    BY <1>1
  <2> QED BY <1>8, <2>1, CongTimes
<1> HIDE DEF ag, bh, lg, sgg, rh, shh, eH
<1>11. lg + sgg \in Int /\ rh + shh \in Int
  BY <1>1
<1>12. Cong((ag + bh) + abyH, ((lg + sgg) + (rh + shh)) + eH)
  BY <1>1, <1>4, <1>5, <1>6, <1>9, <1>10, <1>11, CongSum3
<1> QED BY <1>12 DEF EntrySplits, ag, bh, lg, sgg, rh, shh, eH, abyH, e

Multiples(v, ps, x) == [k \in 1 .. MN |-> v[k] * ps[k][x]]
StartTerms(yc, zc, x) == [k \in 1 .. MN |->
    (StartA(zc)[k] * StartG[k][x] + StartB(yc, zc)[k] * StartH[k][x])
        + (StartA(zc)[k] * StartB(yc, zc)[k]) * (Power(yc, k) * H[x])]
EntryWeights(yc, zc) == [k \in 1 .. MN |->
    (zc - zc * zc) * Power(yc, k) + Top(yc) * (LeftBits[k] * Weight(zc, k) - zc * Weight(zc, k))]

StartSplits(yc, zc, x) ==
    IsSumOfFive(StartTerms(yc, zc, x), Multiples(LeftBits, StartG, x), Multiples(GShifts(zc), StartG, x),
                Multiples(RightBits, StartH, x), Multiples(HShifts(yc, zc), StartH, x), EntryWeights(yc, zc), H[x])

LEMMA StartSums ==
    ASSUME Fits, amounts \in Seq(0 .. TwoTo[N] - 1), NEW yc \in Scalars, NEW zc \in Scalars, NEW x \in Bases
    PROVE  StartSplits(yc, zc, x) /\ EntryWeights(yc, zc) \in [1 .. MN -> Int]
<1> DEFINE t == StartTerms(yc, zc, x)
           f1 == Multiples(LeftBits, StartG, x)
           f2 == Multiples(GShifts(zc), StartG, x)
           f3 == Multiples(RightBits, StartH, x)
           f4 == Multiples(HShifts(yc, zc), StartH, x)
           f5 == EntryWeights(yc, zc)
<1>1. MN \in Nat /\ zc \in Int /\ H[x] \in Int
  BY SizesAre, QIs, PointsAre, CoordinateIsInt
<1>2. ASSUME NEW k \in 1 .. MN
      PROVE  /\ t[k] \in Int /\ f1[k] \in Int /\ f2[k] \in Int /\ f3[k] \in Int /\ f4[k] \in Int /\ f5[k] \in Int
             /\ Cong(t[k], ((f1[k] + f2[k]) + (f3[k] + f4[k])) + H[x] * f5[k])
  <2> DEFINE l == LeftBits[k]
             rr == RightBits[k]
             w == Weight(zc, k)
             u == Opposite(yc, k)
             yk == Power(yc, k)
             top == Top(yc)
             a == StartA(zc)[k]
             b == StartB(yc, zc)[k]
             sg == GShifts(zc)[k]
             sh == HShifts(yc, zc)[k]
             g == StartG[k][x]
             h == StartH[k][x]
             Hx == H[x]
  <2>1. Begins(yc, zc, k)
    BY BeginsAt
  <2>2. /\ l \in {0, 1} /\ rr \in Int /\ Cong(rr, l - 1) /\ w \in Int /\ yk \in Int /\ u \in Int /\ top \in Int
        /\ Cong(u * yk, top) /\ Cong(a, l - zc) /\ Cong(b, (rr + zc) + w * u)
        /\ sg \in Int /\ sh \in Int /\ Cong(sg, 0 - zc) /\ Cong(sh, w * u + zc)
    BY <2>1, Zenon DEF Begins
  <2>3. a \in Int /\ b \in Int
    BY <2>1, QIs DEF Begins
  <2>4. g \in Int /\ h \in Int
    BY PointsAre, CoordinateIsInt DEF StartG, StartH
  <2>5. /\ t[k] = (a * g + b * h) + (a * b) * (yk * Hx)
        /\ f1[k] = l * g /\ f2[k] = sg * g /\ f3[k] = rr * h /\ f4[k] = sh * h
        /\ f5[k] = (zc - zc * zc) * yk + top * (l * w - zc * w)
    <3> HIDE DEF l, rr, w, u, yk, top, a, b, sg, sh, g, h, Hx
    <3> QED BY DEF StartTerms, Multiples, EntryWeights, l, rr, w, u, yk, top, a, b, sg, sh, g, h, Hx
  <2>6. Hx \in Int
    BY <1>1
  <2> HIDE DEF l, rr, w, u, yk, top, a, b, sg, sh, g, h, Hx, t, f1, f2, f3, f4, f5
  <2>7. EntrySplits(l, rr, zc, w, yk, top, a, b, sg, sh, g, h, Hx)
    BY <1>1, <2>2, <2>3, <2>4, <2>6, EntryBegins, Zenon
  <2>8. l \in Int /\ l * g \in Int /\ sg * g \in Int /\ rr * h \in Int /\ sh * h \in Int
    BY <2>2, <2>4
  <2>9. (zc - zc * zc) * yk + top * (l * w - zc * w) \in Int
    <3> DEFINE z2 == zc - zc * zc
               d == l * w - zc * w
    <3>1. z2 \in Int /\ d \in Int
      BY <1>1, <2>2, <2>8
    <3> HIDE DEF z2, d
    <3>2. z2 * yk + top * d \in Int
      BY <2>2, <3>1
    <3> QED BY <3>2 DEF z2, d
  <2>10. (a * g + b * h) + (a * b) * (yk * Hx) \in Int
    <3> DEFINE ab == a * b
               yH == yk * Hx
    <3>1. ab \in Int /\ yH \in Int
      BY <2>2, <2>3, <2>6
    <3> HIDE DEF ab, yH
    <3>2. (a * g + b * h) + ab * yH \in Int
      BY <2>3, <2>4, <3>1
    <3> QED BY <3>2 DEF ab, yH
  <2>11. Cong(t[k], ((f1[k] + f2[k]) + (f3[k] + f4[k])) + Hx * f5[k])
    BY <2>5, <2>7 DEF EntrySplits
  <2> QED BY <2>5, <2>8, <2>9, <2>10, <2>11 DEF Hx
<1>3. /\ t \in [1 .. MN -> Int] /\ f1 \in [1 .. MN -> Int] /\ f2 \in [1 .. MN -> Int] /\ f3 \in [1 .. MN -> Int]
      /\ f4 \in [1 .. MN -> Int] /\ f5 \in [1 .. MN -> Int]
  BY <1>2, Zenon DEF StartTerms, Multiples, EntryWeights
<1> HIDE DEF t, f1, f2, f3, f4, f5
<1>4. IsSumOfFive(t, f1, f2, f3, f4, f5, H[x])
  BY <1>1, <1>2, <1>3, SumOfFive
<1> QED BY <1>3, <1>4, Zenon DEF StartSplits, t, f1, f2, f3, f4, f5

\* What Zeta is made of: P the sum of the powers, W that of the weights.
ZetaFrom(zc, top, P, W) == ScSub(ScMul(ScSub(zc, ScMul(zc, zc)), P % Q), ScMul(ScMul(top, zc), W % Q))
ZetaComes(zc, top, P, W) == Cong(ZetaFrom(zc, top, P, W), (zc - zc * zc) * P - (top * zc) * W)

LEMMA ZetaArithmetic ==
    ASSUME NEW zc \in Int, NEW top \in Int, NEW P \in Int, NEW W \in Int
    PROVE  ZetaFrom(zc, top, P, W) \in Scalars /\ ZetaComes(zc, top, P, W)
<1> DEFINE z2 == zc * zc
           s == ScSub(zc, ScMul(zc, zc))
           p == P % Q
           w == W % Q
           t == ScMul(top, zc)
           d == zc - z2
           tz == top * zc
<1>1. z2 \in Int /\ d \in Int /\ tz \in Int
  OBVIOUS
<1>2. ScMul(zc, zc) \in Int /\ Cong(ScMul(zc, zc), z2)
  BY ScalarOps, QIs
<1>3. s \in Int /\ Cong(s, d)
  <2> DEFINE m == ScMul(zc, zc)
  <2>1. m \in Int /\ Cong(m, z2) /\ Cong(zc, zc)
    BY <1>2, CongEquiv
  <2> HIDE DEF m, z2
  <2>2. ScSub(zc, m) \in Scalars /\ Cong(ScSub(zc, m), zc - m)
    BY <2>1, ScalarOps
  <2>3. Cong(zc - m, zc - z2)
    BY <1>1, <2>1, CongOps
  <2>4. Cong(ScSub(zc, m), zc - z2)
    BY <2>2, <2>3, CongEquiv
  <2> QED BY <2>2, <2>4, QIs DEF m
<1>4. p \in Int /\ Cong(p, P) /\ w \in Int /\ Cong(w, W)
  BY Reduced
<1>5. t \in Int /\ Cong(t, tz)
  BY ScalarOps, QIs
<1> HIDE DEF s, p, w, t, d, tz
<1> DEFINE sp == ScMul(s, p)
           tw == ScMul(t, w)
           dP == d * P
           tzW == tz * W
<1>6. sp \in Int /\ Cong(sp, dP) /\ dP \in Int
  <2>1. Cong(s * p, d * P)
    BY <1>1, <1>3, <1>4, CongOps
  <2>2. ScMul(s, p) \in Scalars /\ Cong(ScMul(s, p), s * p)
    BY <1>3, <1>4, ScalarOps
  <2>3. d * P \in Int
    BY <1>1
  <2>5. ScMul(s, p) \in Int
    BY <2>2, QIs
  <2>4. Cong(ScMul(s, p), d * P)
    BY <2>1, <2>2, CongEquiv
  <2> QED BY <2>3, <2>4, <2>5
<1>7. tw \in Int /\ Cong(tw, tzW) /\ tzW \in Int
  <2>1. Cong(t * w, tz * W)
    BY <1>1, <1>4, <1>5, CongOps
  <2>2. ScMul(t, w) \in Scalars /\ Cong(ScMul(t, w), t * w)
    BY <1>4, <1>5, ScalarOps
  <2>3. tz * W \in Int
    BY <1>1
  <2>5. ScMul(t, w) \in Int
    BY <2>2, QIs
  <2>4. Cong(ScMul(t, w), tz * W)
    BY <2>1, <2>2, CongEquiv
  <2> QED BY <2>3, <2>4, <2>5
<1>8. ZetaFrom(zc, top, P, W) = ScSub(sp, tw)
  BY DEF ZetaFrom, s, p, w, t
<1> HIDE DEF sp, tw, dP, tzW
<1>9. ScSub(sp, tw) \in Scalars /\ Cong(ScSub(sp, tw), sp - tw)
  BY <1>6, <1>7, ScalarOps
<1>10. Cong(sp - tw, dP - tzW)
  BY <1>6, <1>7, CongOps
<1>11. Cong(ScSub(sp, tw), dP - tzW)
  BY <1>9, <1>10, CongEquiv
<1> QED BY <1>8, <1>9, <1>11 DEF ZetaComes, dP, tzW, d, tz, z2

IsZeta(yc, zc) ==
    /\ Zeta(yc, zc, MN) \in Scalars /\ Top(yc) \in Int
    /\ SumFunction(Weighed(zc)) \in Int /\ SumFunction(EntryWeights(yc, zc)) \in Int
    /\ Cong(SumFunction(EntryWeights(yc, zc)), Zeta(yc, zc, MN) + Top(yc) * SumFunction(Weighed(zc)))

LEMMA ZetaIs ==
    ASSUME Fits, amounts \in Seq(0 .. TwoTo[N] - 1), NEW yc \in Scalars, NEW zc \in Scalars,
           EntryWeights(yc, zc) \in [1 .. MN -> Int]
    PROVE  IsZeta(yc, zc)
<1> DEFINE p == [k \in 1 .. MN |-> Power(yc, k)]
           w == [k \in 1 .. MN |-> Weight(zc, k)]
           lw == Weighed(zc)
           d == [k \in 1 .. MN |-> lw[k] - zc * w[k]]
           e == EntryWeights(yc, zc)
           z2 == zc - zc * zc
           nz == 0 - zc
           top == Top(yc)
<1>1. MN \in Nat /\ MN \in Nat \ {0} /\ zc \in Int /\ yc \in Int /\ z2 \in Int /\ nz \in Int
  <2>1. MN \in Nat \ {0} /\ zc \in Int /\ yc \in Int
    BY SizesAre, QIs
  <2> QED BY <2>1
<1>2. top \in Int
  BY <1>1, PwIs DEF Top
<1>3. ASSUME NEW k \in 1 .. MN
      PROVE  /\ p[k] \in Int /\ w[k] \in Int /\ lw[k] \in Int /\ d[k] \in Int
             /\ d[k] = 1 * lw[k] + nz * w[k] /\ e[k] = z2 * p[k] + top * d[k]
  <2> DEFINE l == LeftBits[k]
             wk == Weight(zc, k)
             yk == Power(yc, k)
  <2>1. Begins(yc, zc, k)
    BY BeginsAt
  <2>2. l = BitAt(k) /\ l \in {0, 1} /\ wk \in Int /\ yk \in Int
    BY <2>1 DEF Begins
  <2>3. lw[k] = l * wk /\ p[k] = yk /\ w[k] = wk /\ d[k] = l * wk - zc * wk
    BY <2>2 DEF Weighed
  <2>4. e[k] = z2 * yk + top * (l * wk - zc * wk)
    BY DEF EntryWeights
  <2> HIDE DEF l, wk, yk, p, w, lw, d, e, z2, nz, top
  <2>5. l * wk \in Int /\ zc * wk \in Int /\ l * wk - zc * wk \in Int
    BY <1>1, <2>2
  <2>6. l * wk - zc * wk = 1 * (l * wk) + nz * wk
    <3> DEFINE lk == l * wk
               zk == zc * wk
    <3>1. nz * wk = 0 - zk /\ lk \in Int /\ zk \in Int
      BY <1>1, <2>2, <2>5 DEF nz
    <3> HIDE DEF lk, zk
    <3>2. lk - zk = 1 * lk + (0 - zk)
      BY <3>1
    <3> QED BY <3>1, <3>2 DEF lk, zk
  <2> QED BY <2>2, <2>3, <2>4, <2>5, <2>6
<1>4. p \in [1 .. MN -> Int] /\ w \in [1 .. MN -> Int] /\ lw \in [1 .. MN -> Int] /\ d \in [1 .. MN -> Int]
      /\ e \in [1 .. MN -> Int]
  BY <1>3, Zenon DEF Weighed
<1> DEFINE P == SumFunction(p)
           W == SumFunction(w)
           K == SumFunction(lw)
           S2 == SumFunction(d)
           E == SumFunction(e)
<1>5. Zeta(yc, zc, MN) = ZetaFrom(zc, top, P, W)
  <2>1. Powers(yc, MN + 2) = [i \in 1 .. MN + 2 |-> Pw(yc)[i - 1]]
    <3>1. MN + 2 \in Nat
      BY <1>1
    <3> QED BY <1>1, <3>1, PowersIs
  <2>2. Powers(yc, MN + 2)[MN + 2] = top
    <3>1. MN + 2 \in 1 .. MN + 2 /\ (MN + 2) - 1 = MN + 1
      BY <1>1
    <3> HIDE DEF top
    <3>2. Powers(yc, MN + 2)[MN + 2] = Pw(yc)[(MN + 2) - 1]
      BY <2>1, <3>1
    <3> QED BY <3>1, <3>2 DEF Top, top
  <2>3. \A k \in 1 .. MN : Powers(yc, MN + 2)[k + 1] = p[k]
    <3> SUFFICES ASSUME NEW k \in 1 .. MN PROVE Powers(yc, MN + 2)[k + 1] = Pw(yc)[k]
      BY DEF Power
    <3>1. k + 1 \in 1 .. MN + 2 /\ (k + 1) - 1 = k
      BY <1>1
    <3>2. Powers(yc, MN + 2)[k + 1] = Pw(yc)[(k + 1) - 1]
      BY <2>1, <3>1
    <3> QED BY <3>1, <3>2
  <2>4. [k \in 1 .. MN |-> Powers(yc, MN + 2)[k + 1]] = p
    BY <2>3
  <2>5. Zeta(yc, zc, MN) = ScSub(ScMul(ScSub(zc, ScMul(zc, zc)), ScSum([k \in 1 .. MN |-> Powers(yc, MN + 2)[k + 1]])),
              ScMul(ScMul(Powers(yc, MN + 2)[MN + 2], zc), ScSum(w)))
    BY DEF Zeta
  <2> HIDE DEF p, w, top
  <2> QED BY <2>2, <2>4, <2>5 DEF ZetaFrom, ScSum
<1> HIDE DEF p, w, lw, d, e, z2, nz, top
<1>6. Sums(p, d, e, z2, top)
  <2>1. \A k \in 1 .. MN : Cong(e[k], z2 * p[k] + top * d[k])
    BY <1>3, CongEquiv
  <2> QED BY <1>1, <1>2, <1>4, <2>1, SumBoth
<1>7. Sums(lw, w, d, 1, nz)
  <2>1. \A k \in 1 .. MN : Cong(d[k], 1 * lw[k] + nz * w[k])
    BY <1>3, CongEquiv
  <2> QED BY <1>1, <1>4, <2>1, SumBoth, 1 \in Int
<1>8. /\ P \in Int /\ W \in Int /\ K \in Int /\ S2 \in Int /\ E \in Int
      /\ Cong(E, z2 * P + top * S2) /\ Cong(S2, 1 * K + nz * W)
  BY <1>6, <1>7 DEF Sums
<1> HIDE DEF P, W, K, S2, E
<1>9. ZetaFrom(zc, top, P, W) \in Scalars /\ ZetaComes(zc, top, P, W)
  BY <1>1, <1>2, <1>8, ZetaArithmetic
<1> DEFINE ze == Zeta(yc, zc, MN)
           zP == z2 * P
           tz == top * zc
           tzW == tz * W
           tK == top * K
           tS == top * S2
           zW == zc * W
           tzW2 == top * zW
<1>10. ze \in Scalars /\ ze \in Int /\ Cong(ze, zP - tzW)
  BY <1>5, <1>9, QIs, Zenon DEF ZetaComes, z2
<1>11. zP \in Int /\ tz \in Int /\ tK \in Int /\ tS \in Int /\ zW \in Int
  BY <1>1, <1>2, <1>8
<1>12. tzW \in Int /\ tzW2 \in Int /\ tzW = tzW2
  BY <1>1, <1>2, <1>8
<1>13. 1 * K + nz * W = K - zW
  <2>1. nz * W = 0 - zW
    BY <1>1, <1>8 DEF nz
  <2> HIDE DEF zW
  <2> QED BY <1>8, <1>11, <2>1
<1>14. Cong(tS, top * (K - zW)) /\ top * (K - zW) = tK - tzW2
  <2>1. K - zW \in Int /\ Cong(S2, K - zW)
    BY <1>8, <1>11, <1>13
  <2>2. Cong(top * S2, top * (K - zW))
    BY <1>2, <1>8, <2>1, CongTimes
  <2>3. top * (K - zW) = top * K - top * zW
    <3> HIDE DEF zW
    <3> QED BY <1>2, <1>8, <1>11
  <2> QED BY <2>2, <2>3
<1> HIDE DEF ze, zP, tz, tzW, tK, tS, zW, tzW2
<1>15. Cong(zP + tS, zP + (tK - tzW2)) /\ zP + (tK - tzW2) = (zP - tzW) + tK
  <2>1. tK - tzW2 \in Int /\ Cong(tS, tK - tzW2) /\ zP + (tK - tzW2) = (zP - tzW) + tK
    BY <1>11, <1>12, <1>14
  <2> QED BY <1>11, <2>1, CongPlus
<1>16. Cong(ze + tK, (zP - tzW) + tK)
  <2>1. zP - tzW \in Int
    BY <1>11, <1>12
  <2> QED BY <1>10, <1>11, <2>1, CongPlus
<1>17. Cong(E, zP + tS)
  BY <1>8 DEF zP, tS
<1>18. Cong(E, ze + tK)
  BY <1>15, <1>16, <1>17, CongEquiv
<1> QED BY <1>2, <1>8, <1>10, <1>18, Zenon DEF IsZeta, ze, tK, E, K, top, e, lw

\* The masks, and the commitments, weighed as the amounts are.
MaskTerms(zc) == [j \in 1 .. Len(masks) |-> Pw(ScMul(zc, zc))[j] * masks[j]]

IsStartAlpha(yc, zc) ==
    /\ StartAlpha(yc, zc) \in Scalars /\ MaskTerms(zc) \in [1 .. Len(masks) -> Int]
    /\ SumFunction(MaskTerms(zc)) \in Int
    /\ Cong(StartAlpha(yc, zc), alpha1 + Top(yc) * SumFunction(MaskTerms(zc)))

LEMMA LastPower ==
    ASSUME NEW yc \in Scalars, MN \in Nat
    PROVE  Powers(yc, MN + 2)[MN + 2] = Top(yc) /\ Top(yc) \in Int
<1>1. yc \in Int /\ MN + 2 \in Nat /\ MN + 2 \in 1 .. MN + 2 /\ (MN + 2) - 1 = MN + 1 /\ MN + 1 \in Nat
  BY QIs
<1>2. Powers(yc, MN + 2) = [i \in 1 .. MN + 2 |-> Pw(yc)[i - 1]]
  BY <1>1, PowersIs
<1>3. Powers(yc, MN + 2)[MN + 2] = Pw(yc)[(MN + 2) - 1]
  BY <1>1, <1>2
<1>4. Pw(yc)[MN + 1] \in Int
  BY <1>1, PwIs
<1> QED BY <1>1, <1>3, <1>4 DEF Top

LEMMA StartAlphaIs ==
    ASSUME Fits, masks \in Seq(Scalars), alpha1 \in Scalars, NEW yc \in Scalars, NEW zc \in Scalars
    PROVE  IsStartAlpha(yc, zc)
<1> DEFINE n == Len(masks)
           zz == ScMul(zc, zc)
           top == Top(yc)
           f == MaskTerms(zc)
           e == [j \in DOMAIN masks |-> ScMul(MaskWeights(zz)[j], masks[j])]
<1>1. n \in Nat /\ DOMAIN masks = 1 .. n /\ zz \in Int /\ alpha1 \in Int /\ MN \in Nat
  <2>1. n \in Nat /\ DOMAIN masks = 1 .. n
    BY LenProperties
  <2>2. zc \in Int /\ alpha1 \in Int
    BY QIs
  <2>3. zz \in Int
    BY <2>2, ScalarOps, QIs
  <2> QED BY <2>1, <2>2, <2>3, SizesAre
<1>2. ASSUME NEW j \in 1 .. n
      PROVE  e[j] \in Scalars /\ e[j] \in Int /\ f[j] \in Int /\ Cong(e[j], f[j])
  <2> DEFINE w == Pw(zz)[j]
             m == masks[j]
  <2>1. j \in Nat /\ j - 1 \in Nat /\ (j - 1) + 1 = j
    BY <1>1
  <2>2. w \in Int /\ Pw(zz)[j - 1] \in Int /\ w = ScMul(Pw(zz)[j - 1], zz)
    <3> HIDE DEF zz
    <3>1. Pw(zz)[(j - 1) + 1] = ScMul(Pw(zz)[j - 1], zz)
      BY <1>1, <2>1, PwIs
    <3> QED BY <1>1, <2>1, <3>1, PwIs
  <2>3. m \in Scalars /\ m \in Int
    BY <1>1, ElementOfSeq, QIs
  <2>4. MaskWeights(zz)[j] = w
    <3> HIDE DEF zz
    <3>1. Powers(zz, n) = [i \in 1 .. n |-> Pw(zz)[i - 1]]
      BY <1>1, PowersIs
    <3>2. MaskWeights(zz)[j] = ScMul(Powers(zz, n)[j], zz)
      BY <3>1 DEF MaskWeights, VectorScalar
    <3> QED BY <2>2, <3>1, <3>2
  <2>5. e[j] = ScMul(w, m) /\ f[j] = w * m
    <3> HIDE DEF w, m, zz
    <3>1. j \in DOMAIN masks
      BY <1>1
    <3> QED BY <2>4, <3>1 DEF MaskTerms, w, m, zz
  <2> HIDE DEF w, m, e, f
  <2>6. ScMul(w, m) \in Scalars /\ Cong(ScMul(w, m), w * m)
    BY <2>2, <2>3, ScalarOps
  <2>7. w * m \in Int
    BY <2>2, <2>3
  <2> QED BY <2>5, <2>6, <2>7, QIs
<1>3. e \in [1 .. n -> Int] /\ f \in [1 .. n -> Int]
  <2>1. DOMAIN e = 1 .. n /\ DOMAIN f = 1 .. n
    BY <1>1 DEF MaskTerms
  <2>2. e = [j \in 1 .. n |-> e[j]] /\ f = [j \in 1 .. n |-> f[j]]
    BY <1>1 DEF MaskTerms
  <2> HIDE DEF e, f
  <2> QED BY <1>2, <2>2
<1>4. Powers(yc, MN + 2)[MN + 2] = top /\ top \in Int
  BY <1>1, LastPower
<1>5. StartAlpha(yc, zc) = ScAdd(alpha1, ScMul(top, SumFunction(e) % Q))
  BY <1>4 DEF StartAlpha, ScSum
<1> HIDE DEF e, f, top, n
<1> DEFINE E == SumFunction(e)
           F == SumFunction(f)
           m == E % Q
           tm == ScMul(top, m)
           tF == top * F
<1>6. E \in Int /\ F \in Int /\ Cong(E, F)
  <2>1. \A j \in 1 .. n : Cong(e[j], f[j])
    BY <1>2
  <2> QED BY <1>1, <1>3, <2>1, SumCong
<1> HIDE DEF E, F
<1>7. m \in Int /\ Cong(m, F)
  BY <1>6, Reduced, CongEquiv
<1> HIDE DEF m
<1>8. tm \in Scalars /\ tm \in Int /\ Cong(tm, top * m)
  BY <1>4, <1>7, ScalarOps, QIs
<1>9. Cong(top * m, tF)
  BY <1>4, <1>6, <1>7, CongTimes
<1>10. tF \in Int
  BY <1>4, <1>6
<1> HIDE DEF tm, tF
<1>11. Cong(tm, tF)
  BY <1>8, <1>9, CongEquiv DEF tF
<1>12. ScAdd(alpha1, tm) \in Scalars /\ Cong(ScAdd(alpha1, tm), alpha1 + tm)
  BY <1>1, <1>8, ScalarOps
<1>13. Cong(alpha1 + tm, alpha1 + tF)
  BY <1>1, <1>8, <1>10, <1>11, CongPlus
<1>14. Cong(ScAdd(alpha1, tm), alpha1 + tF)
  BY <1>12, <1>13, CongEquiv
<1> QED BY <1>3, <1>5, <1>6, <1>12, <1>14, Zenon DEF IsStartAlpha, tF, tm, m, F, E, f, top, n

=============================================================================
