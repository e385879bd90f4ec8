--------------------------- MODULE BulletproofPlus ---------------------------
(* createBulletproofPlus of types/bpp.go: the proof that all amounts of a       *)
(* transaction are small, one step per round of the inner product argument.    *)
(* Vectors and amounts are counted from 1.                                     *)
EXTENDS RctGroup

CONSTANTS
    LogN,           \* amounts have 2^LogN bits; logN = 6 in the code
    MaxM            \* maxM: amounts one proof can carry, a power of two

\* 1 << k
TwoTo[k \in Nat] == IF k = 0 THEN 1 ELSE 2 * TwoTo[k - 1]

ASSUME SizesAssumption ==
    /\ LogN \in Nat /\ MaxM \in Nat /\ MaxM * TwoTo[LogN] <= Vectors
    /\ \E k \in 0 .. MaxM : MaxM = TwoTo[k]

VARIABLES
    amounts, masks,     \* the arguments
    bppStage,           \* "start", "prepare", "rounds", "proved" or "failed"
    transcript,
    V, A, alpha1,       \* alpha1 starts as alpha
    y, z,
    Gprime, Hprime,     \* the bases, folded in half in each round
    aprime, bprime,     \* the vectors, folded with them
    L, R,
    A1, B, r1, s1, d1   \* the rest of the proof

vectorVars == <<Gprime, Hprime, aprime, bprime>>
proofVars  == <<A1, B, r1, s1, d1>>
bppVars == <<amounts, masks, bppStage, transcript, V, A, alpha1, y, z, vectorVars, L, R, proofVars>>

N == TwoTo[LogN]

\* The least power of two that is not too small, or is too large.
Stops(m, n) == m > MaxM \/ m >= n
PaddedM(n) == CHOOSE m \in {TwoTo[k] : k \in 0 .. MaxM} :
    Stops(m, n) /\ \A k \in 0 .. MaxM : TwoTo[k] < m => ~Stops(TwoTo[k], n)

MN == PaddedM(Len(masks)) * N

Bit(j, i) == IF j > Len(amounts) THEN 0 ELSE (amounts[j] \div TwoTo[i - 1]) % 2

\* The bits of all amounts, of those behind the last one too.
BitAt(k) == Bit(((k - 1) \div N) + 1, ((k - 1) % N) + 1)
LeftBits  == [k \in 1 .. MN |-> BitAt(k)]
RightBits == [k \in 1 .. MN |-> IF BitAt(k) = 1 THEN 0 ELSE MinusOne]

VectorExponent(a, b) ==
    AddPoints(SumPoints([k \in DOMAIN a |-> ScalarMult(a[k], PointOf(BaseGi(k)))]),
              SumPoints([k \in DOMAIN b |-> ScalarMult(b[k], PointOf(BaseHi(k)))]))

Eighth(p) == ScalarMult(InvEight, p)

\* z^2 * 2^i for bit i of the first amount, z^2 times the one before for the others.
WindowedVector(zSquared) ==
    LET d[k \in 1 .. MN] ==
          IF k = 1 THEN zSquared
          ELSE IF k <= N THEN ScMul(d[k - 1], 2)
          ELSE ScMul(d[k - N], zSquared)
    IN  d

Halves(v) == [low |-> SubSeq(v, 1, Len(v) \div 2), high |-> SubSeq(v, (Len(v) \div 2) + 1, Len(v))]

\* sum of a[i] * b[i] * y^i
WeightedInnerProduct(a, b) ==
    LET power == Powers(y, Len(a) + 1)
    IN  ScSum([i \in DOMAIN a |-> ScMul(ScMul(a[i], b[i]), power[i + 1])])

VectorScalar(a, x) == [i \in DOMAIN a |-> ScMul(a[i], x)]
VectorAdd2(a, b)   == [i \in DOMAIN a |-> ScAdd(a[i], b[i])]

\* Bug: the halves are folded with each other's scalar.
HadamardFold_Swapped(v, a, b) ==
    [i \in 1 .. Len(v) \div 2 |-> AddPoints(ScalarMult(b, v[i]), ScalarMult(a, v[(Len(v) \div 2) + i]))]
HadamardFold(v, a, b) ==
    [i \in 1 .. Len(v) \div 2 |-> AddPoints(ScalarMult(a, v[i]), ScalarMult(b, v[(Len(v) \div 2) + i]))]

\* An eighth of weight * a over gs, b over hs, cross*H and blind*G.
ComputeLR(weight, gs, hs, a, b, cross, blind) ==
    Eighth(AddPoints(
        AddPoints(SumPoints([i \in DOMAIN a |-> ScalarMult(ScMul(a[i], weight), gs[i])]),
                  SumPoints([i \in DOMAIN b |-> ScalarMult(b[i], hs[i])])),
        AddKeys2(blind, cross, H)))

TranscriptQuery(old, points) == Query("transcript", <<old>>, points)

-----------------------------------------------------------------------------
BppInit ==
    /\ bppStage = "start"
    /\ transcript = 0 /\ V = <<>> /\ A = Identity /\ alpha1 = 0 /\ y = 0 /\ z = 0
    /\ Gprime = <<>> /\ Hprime = <<>> /\ aprime = <<>> /\ bprime = <<>>
    /\ L = <<>> /\ R = <<>>
    /\ A1 = Identity /\ B = Identity /\ r1 = 0 /\ s1 = 0 /\ d1 = 0

\* Bug: a proof may be as large as its padding.
TooLarge_Padded(n) == n > 2 * MaxM
\* "sv/gamma are too large"
TooLarge(n) == PaddedM(n) > MaxM

\* Sizes; the commitments V open the transcript; the bits are committed to in A.
\* The two hashes of V are one here: nothing but the second is used.
BppStart ==
    /\ bppStage = "start"
    /\ IF Len(amounts) # Len(masks) \/ TooLarge(Len(masks))
       THEN /\ bppStage' = "failed"
            /\ UNCHANGED <<hashes, transcript, V, A, alpha1>>
       ELSE /\ bppStage' = "prepare"
            /\ V' = [j \in DOMAIN masks |-> AddKeys2(ScMul(masks[j], InvEight),
                                                     ScMul(amounts[j] % Q, InvEight), H)]
            /\ \E opened \in Answers(hashes, TranscriptQuery(0, V')) :
                  Hash(TranscriptQuery(0, V'), opened) /\ transcript' = opened
            /\ \E random \in sample.randoms :
                  /\ alpha1' = random[1]
                  /\ A' = Eighth(AddPoints(VectorExponent(LeftBits, RightBits),
                                           ScalarMult(random[1], G)))
    /\ UNCHANGED <<amounts, masks, y, z, vectorVars, L, R, proofVars>>

\* z^2, z^4, ...: the weight of each amount's mask in alpha1.
MaskWeights(zSquared) == VectorScalar(Powers(zSquared, Len(masks)), zSquared)

\* The challenges y and z, and the vectors and blinding the rounds start from.
BppPrepare ==
    /\ bppStage = "prepare"
    /\ \E answer \in Answers(hashes, TranscriptQuery(transcript, <<A>>)) :
          LET afterY == Answered(hashes, TranscriptQuery(transcript, <<A>>), answer)
          IN  \E next \in Answers(afterY, Query("scalar", <<answer>>, <<>>)) :
                 /\ y' = answer /\ z' = next /\ transcript' = next
                 /\ hashes' = Answered(afterY, Query("scalar", <<answer>>, <<>>), next)
    /\ LET zSquared == ScMul(z', z')
           d      == WindowedVector(zSquared)
           yPower == Powers(y', MN + 2)
       IN  /\ aprime' = [k \in 1 .. MN |-> ScSub(LeftBits[k], z')]
           /\ bprime' = [k \in 1 .. MN |->
                  ScAdd(ScAdd(RightBits[k], z'), ScMul(d[k], yPower[MN - k + 2]))]
           /\ alpha1' = ScAdd(alpha1, ScMul(yPower[MN + 2],
                  ScSum([j \in DOMAIN masks |-> ScMul(MaskWeights(zSquared)[j], masks[j])])))
    /\ Gprime' = [k \in 1 .. MN |-> PointOf(BaseGi(k))]
    /\ Hprime' = [k \in 1 .. MN |-> PointOf(BaseHi(k))]
    /\ bppStage' = "rounds"
    /\ UNCHANGED <<amounts, masks, V, A, L, R, proofVars>>

BppRound ==
    /\ bppStage = "rounds"
    /\ Len(aprime) > 1
    /\ LET n  == Len(aprime) \div 2
           a  == Halves(aprime)
           b  == Halves(bprime)
           yn == Powers(y, n + 1)[n + 1]
           yInverse == Invert(yn)
           g  == Halves(Gprime)
           h  == Halves(Hprime)
           cL == WeightedInnerProduct(a.low, b.high)
           cR == WeightedInnerProduct(VectorScalar(a.high, yn), b.low)
       IN  \E random \in sample.randoms :
           LET left  == ComputeLR(yInverse, g.high, h.low, a.low, b.high, cL, random[1])
               right == ComputeLR(yn, g.low, h.high, a.high, b.low, cR, random[2])
           IN  \E challenge \in Answers(hashes, TranscriptQuery(transcript, <<left, right>>)) :
               LET inverse == Invert(challenge)
               IN  /\ Hash(TranscriptQuery(transcript, <<left, right>>), challenge)
                   /\ transcript' = challenge
                   /\ L' = Append(L, left) /\ R' = Append(R, right)
                   /\ Gprime' = HadamardFold(Gprime, inverse, ScMul(yInverse, challenge))
                   /\ Hprime' = HadamardFold(Hprime, challenge, inverse)
                   /\ aprime' = VectorAdd2(VectorScalar(a.low, challenge),
                                           VectorScalar(a.high, ScMul(inverse, yn)))
                   /\ bprime' = VectorAdd2(VectorScalar(b.low, inverse),
                                           VectorScalar(b.high, challenge))
                   /\ alpha1' = ScMulAdd(random[2], ScMul(inverse, inverse),
                                    ScMulAdd(random[1], ScMul(challenge, challenge), alpha1))
    /\ UNCHANGED <<amounts, masks, bppStage, V, A, y, z, proofVars>>

BppFinish ==
    /\ bppStage = "rounds"
    /\ Len(aprime) = 1
    /\ \E random \in sample.randoms :
          LET r == random[1]
              s == random[2]
              d == random[3]
              eta == random[4]
              cross == ScAdd(ScMul(ScMul(r, y), bprime[1]), ScMul(ScMul(s, y), aprime[1]))
              query == TranscriptQuery(transcript, <<A1', B'>>)
          IN  /\ A1' = Eighth(AddPoints(AddPoints(ScalarMult(r, Gprime[1]), ScalarMult(s, Hprime[1])),
                                        AddKeys2(d, cross, H)))
              /\ B' = AddKeys2(ScMul(eta, InvEight), ScMul(ScMul(ScMul(r, y), s), InvEight), H)
              /\ \E e \in Answers(hashes, query) :
                    /\ Hash(query, e)
                    /\ transcript' = e
                    /\ r1' = ScMulAdd(aprime[1], e, r)
                    /\ s1' = ScMulAdd(bprime[1], e, s)
                    /\ d1' = ScMulAdd(alpha1, ScMul(e, e), ScMulAdd(d, e, eta))
    /\ bppStage' = "proved"
    /\ UNCHANGED <<amounts, masks, V, A, alpha1, y, z, vectorVars, L, R>>

BppNext == BppStart \/ BppPrepare \/ BppRound \/ BppFinish

Proof == [A |-> A, A1 |-> A1, B |-> B, r1 |-> r1, s1 |-> s1, d1 |-> d1, L |-> L, R |-> R]

-----------------------------------------------------------------------------
(* The verifier of Monero, which is not part of the repository: one equation    *)
(* over the bases themselves, with the factor each gets from all rounds.        *)

\* The challenges of the rounds, from the transcript behind z.
RoundChallenges(proof, start) ==
    LET chal[i \in 0 .. Len(proof.L)] ==
          IF i = 0 THEN start
          ELSE Lookup(TranscriptQuery(chal[i - 1], <<proof.L[i], proof.R[i]>>))
    IN  [i \in DOMAIN proof.L |-> chal[i]]

\* Of base k: the challenge of each round, or its inverse if k is in the low half.
BaseFactor(challenges, k) ==
    LET rounds == Len(challenges)
        product[i \in 0 .. rounds] ==
          IF i = 0 THEN 1
          ELSE ScMul(product[i - 1],
                     IF ((k - 1) \div TwoTo[rounds - i]) % 2 = 1 THEN challenges[i]
                     ELSE Invert(challenges[i]))
    IN  product[rounds]

\* z^2 * 2^i for bit i of the first amount, as in WindowedVector.
Weight(zc, k) == ScMul(Powers(ScMul(zc, zc), k + 1)[((k - 1) \div N) + 2], TwoTo[(k - 1) % N] % Q)

\* The multiple of H that the challenges alone account for.
Zeta(yc, zc, bits) ==
    LET yPower == Powers(yc, bits + 2)
    IN  ScSub(ScMul(ScSub(zc, ScMul(zc, zc)), ScSum([k \in 1 .. bits |-> yPower[k + 1]])),
              ScMul(ScMul(yPower[bits + 2], zc), ScSum([k \in 1 .. bits |-> Weight(zc, k)])))

\* What the rounds start from, of the commitments, A and the challenges.
StartPoint(commitments, first, yc, zc, bits) ==
    LET yPower == Powers(yc, bits + 2)
        zPower == Powers(ScMul(zc, zc), Len(commitments) + 1)
    IN  AddPoints(
            AddPoints(ScalarMult(8, first),
                      SumPoints([j \in DOMAIN commitments |->
                          ScalarMult(ScMul(yPower[bits + 2], zPower[j + 1]), commitments[j])])),
            AddPoints(SumPoints([k \in 1 .. bits |-> ScalarMult(ScSub(0, zc), PointOf(BaseGi(k)))]),
                      AddPoints(SumPoints([k \in 1 .. bits |->
                                    ScalarMult(ScMulAdd(Weight(zc, k), yPower[bits - k + 2], zc), PointOf(BaseHi(k)))]),
                                ScalarMult(Zeta(yc, zc, bits), H))))

\* What a round adds to it.
RoundPoint(challenge, left, right) ==
    AddPoints(ScalarMult(ScMul(8, ScMul(challenge, challenge)), left),
              ScalarMult(ScMul(8, ScMul(Invert(challenge), Invert(challenge))), right))

LeftSide(e, start, challenges, proof) ==
    LET folded == AddPoints(start, SumPoints([i \in DOMAIN challenges |->
                                RoundPoint(challenges[i], proof.L[i], proof.R[i])]))
    IN  AddPoints(ScalarMult(ScMul(e, e), folded),
                  AddPoints(ScalarMult(ScMul(8, e), proof.A1), ScalarMult(8, proof.B)))

RightSide(e, yc, challenges, proof, bits) ==
    LET yInv == Powers(Invert(yc), bits)
    IN  AddPoints(
            AddPoints(SumPoints([k \in 1 .. bits |-> ScalarMult(
                          ScMul(ScMul(proof.r1, e), ScMul(yInv[k], BaseFactor(challenges, k))), PointOf(BaseGi(k)))]),
                      SumPoints([k \in 1 .. bits |-> ScalarMult(
                          ScMul(ScMul(proof.s1, e), BaseFactor(challenges, bits + 1 - k)), PointOf(BaseHi(k)))])),
            AddKeys2(proof.d1, ScMul(ScMul(proof.r1, yc), proof.s1), H))

BppVerifies(commitments, proof) ==
    LET bits == TwoTo[Len(proof.L)]
        Vs   == [j \in DOMAIN commitments |-> Eighth(commitments[j])]
        t    == Lookup(TranscriptQuery(0, Vs))
        yc   == Lookup(TranscriptQuery(t, <<proof.A>>))
        zc   == Lookup(Query("scalar", <<yc>>, <<>>))
        challenges == RoundChallenges(proof, zc)
        last == IF proof.L = <<>> THEN zc ELSE challenges[Len(proof.L)]
        e    == Lookup(TranscriptQuery(last, <<proof.A1, proof.B>>))
        start == StartPoint(commitments, proof.A, yc, zc, bits)
    IN  /\ Unknown \notin {t, yc, zc, e} \cup {challenges[i] : i \in DOMAIN challenges}
        /\ Len(proof.L) = Len(proof.R)
        /\ bits = PaddedM(Len(commitments)) * N
        /\ LeftSide(e, start, challenges, proof) = RightSide(e, yc, challenges, proof, bits)

BppTypeOK ==
    /\ bppStage \in {"start", "prepare", "rounds", "proved", "failed"}
    /\ {alpha1, y, z, r1, s1, d1, transcript} \subseteq Scalars
    /\ {A, A1, B} \subseteq Points
    /\ Len(L) = Len(R)
    /\ bppStage = "rounds" =>
          /\ Len(aprime) * TwoTo[Len(L)] = MN
          /\ Len(bprime) = Len(aprime) /\ Len(Gprime) = Len(aprime) /\ Len(Hprime) = Len(aprime)
=============================================================================
