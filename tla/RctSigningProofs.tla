--------------------------- MODULE RctSigningProofs ---------------------------
(* Ring signatures that close, sums that balance and range proofs that verify,  *)
(* for every field, ring, list of inputs and outputs, draw and hash.            *)
EXTENDS RctSigning, BulletproofProofs

-----------------------------------------------------------------------------
(* A ring that closes: the challenge of every member follows from the one       *)
(* before by a hash that was computed.                                          *)

Follower(k, n) == IF k = n THEN 1 ELSE k + 1

WeightQuery(domain, claim, signature) ==
    Query(domain, <<>>, claim.P \o claim.nonzero \o <<claim.image, signature.D, claim.offset>>)

MemberQuery(k, chal, mP, mC, claim, signature) ==
    LET left  == AddKeys3(signature.S[k], G, ScMul(chal, mP), claim.P[k],
                          ScMul(chal, mC), SubKeys(claim.nonzero[k], claim.offset))
        right == AddKeys3(signature.S[k], HashToEC(claim.P[k]), ScMul(chal, mP), claim.image,
                          ScMul(chal, mC), ScalarMult(8, signature.D))
    IN  Query("CLSAG_round", <<claim.message>>,
              claim.P \o claim.nonzero \o <<claim.offset, left, right>>)

ClosesWith(f, mP, mC, chal, claim, signature) ==
    /\ Known(f, WeightQuery("CLSAG_agg_0", claim, signature), mP)
    /\ Known(f, WeightQuery("CLSAG_agg_1", claim, signature), mC)
    /\ 1 \in DOMAIN claim.P /\ signature.C1 = chal[1]
    /\ \A k \in DOMAIN claim.P :
          Known(f, MemberQuery(k, chal[k], mP, mC, claim, signature),
                chal[Follower(k, Len(claim.P))])

Closes(f, claim, signature) ==
    \E mP, mC \in Scalars : \E chal \in [DOMAIN claim.P -> Scalars] :
        ClosesWith(f, mP, mC, chal, claim, signature)

LEMMA ClosesForGood ==
    ASSUME NEW f, NEW g, Grows(f, g), NEW claim, NEW signature, Closes(f, claim, signature)
    PROVE  Closes(g, claim, signature)
<1>1. PICK mP \in Scalars, mC \in Scalars, chal \in [DOMAIN claim.P -> Scalars] :
          ClosesWith(f, mP, mC, chal, claim, signature)
  BY DEF Closes
<1>2. ClosesWith(g, mP, mC, chal, claim, signature)
  BY <1>1, StaysKnown DEF ClosesWith
<1> QED BY <1>2 DEF Closes

\* What the verifier computes, as the recursive function it is defined by.
Recurs(f, mP, mC, claim, signature) ==
    f = [i \in 1 .. Len(claim.P) + 1 |->
            IF i = 1 THEN signature.C1
            ELSE IF f[i - 1] = Unknown THEN Unknown
            ELSE ChallengeAfter(i - 1, f[i - 1], mP, mC, claim, signature)]

LEMMA ChallengesAre ==
    ASSUME NEW claim, Len(claim.P) \in Nat, NEW signature, NEW mP, NEW mC, NEW f,
           Recurs(f, mP, mC, claim, signature)
    PROVE  RingChallenges(mP, mC, claim, signature) = f
<1> DEFINE n == Len(claim.P)
           next(g, i) == IF g[i - 1] = Unknown THEN Unknown
                         ELSE ChallengeAfter(i - 1, g[i - 1], mP, mC, claim, signature)
           h == RingChallenges(mP, mC, claim, signature)
<1>1. h = CHOOSE g : Recurs(g, mP, mC, claim, signature)
  BY Zenon DEF RingChallenges, Recurs
<1>2. Recurs(h, mP, mC, claim, signature)
  BY <1>1, Zenon
<1> HIDE DEF h
<1>3. ASSUME NEW g, Recurs(g, mP, mC, claim, signature)
      PROVE  /\ g = [i \in 1 .. n + 1 |-> g[i]]
             /\ g[1] = signature.C1
             /\ \A i \in Nat : i + 1 <= n /\ 0 < i + 1 => g[(i + 1) + 1] = next(g, (i + 1) + 1)
  <2> DEFINE body(i) == IF i = 1 THEN signature.C1
                        ELSE IF g[i - 1] = Unknown THEN Unknown
                        ELSE ChallengeAfter(i - 1, g[i - 1], mP, mC, claim, signature)
  <2>1. g = [i \in 1 .. n + 1 |-> body(i)]
    BY <1>3, Zenon DEF Recurs
  <2>2. \A i \in 1 .. n + 1 : g[i] = body(i)
    <3> HIDE DEF body
    <3> QED BY <2>1
  <2>3. g = [i \in 1 .. n + 1 |-> g[i]]
    <3> HIDE DEF body
    <3> QED BY <2>1, <2>2
  <2>4. 1 \in 1 .. n + 1
    OBVIOUS
  <2>5. \A i \in Nat : i + 1 <= n => (i + 1) + 1 \in 1 .. n + 1 /\ (i + 1) + 1 # 1
    OBVIOUS
  <2>6. \A i \in Nat : i + 1 <= n => g[(i + 1) + 1] = next(g, (i + 1) + 1)
    BY <2>2, <2>5, Zenon
  <2> QED BY <2>2, <2>3, <2>4, <2>6, Zenon
<1> DEFINE T == {i \in Nat : i <= n => h[i + 1] = f[i + 1]}
<1>4. 0 \in T
  BY <1>2, <1>3
<1>5. ASSUME NEW i \in T PROVE i + 1 \in T
  <2>1. i \in Nat
    BY <1>5
  <2>2. CASE i + 1 <= n
    <3>1. h[i + 1] = f[i + 1] /\ ((i + 1) + 1) - 1 = i + 1
      BY <1>5, <2>1, <2>2
    <3>2. h[(i + 1) + 1] = next(h, (i + 1) + 1) /\ f[(i + 1) + 1] = next(f, (i + 1) + 1)
      <4>1. 0 < i + 1
        BY <2>1
      <4> HIDE DEF next
      <4> QED BY <1>2, <1>3, <2>1, <2>2, <4>1
    <3>3. next(h, (i + 1) + 1) = next(f, (i + 1) + 1)
      BY <3>1, Zenon
    <3>4. i + 1 \in Nat
      BY <2>1
    <3> QED BY <3>2, <3>3, <3>4
  <2>3. CASE ~(i + 1 <= n)
    BY <2>1, <2>3
  <2> QED BY <2>2, <2>3
<1>6. T = Nat
  <2>1. T \in SUBSET Nat
    OBVIOUS
  <2> HIDE DEF T
  <2> QED BY <1>4, <1>5, <2>1, Induct
<1>7. ASSUME NEW i \in 1 .. n + 1 PROVE h[i] = f[i]
  <2>1. i - 1 \in Nat /\ i - 1 <= n /\ (i - 1) + 1 = i
    OBVIOUS
  <2>2. i - 1 \in T
    <3> HIDE DEF T
    <3> QED BY <1>6, <2>1
  <2> QED BY <2>1, <2>2
<1>8. h = [i \in 1 .. n + 1 |-> h[i]] /\ f = [i \in 1 .. n + 1 |-> f[i]]
  BY <1>2, <1>3
<1>9. h = f
  BY <1>7, <1>8
<1> QED BY <1>9 DEF h

\* The verifier accepts a ring that closes.
LEMMA ClosesVerifies ==
    ASSUME NEW claim, Len(claim.P) \in Nat \ {0}, DOMAIN claim.P = 1 .. Len(claim.P),
           NEW signature, Closes(hashes, claim, signature)
    PROVE  ClsagVerifies(claim, signature)
<1> DEFINE n == Len(claim.P)
<1>1. PICK mP \in Scalars, mC \in Scalars, chal \in [1 .. n -> Scalars] :
          ClosesWith(hashes, mP, mC, chal, claim, signature)
  BY DEF Closes
<1>2. \A s \in Scalars : s # Unknown
  BY DEF Scalars, Unknown
<1>3. /\ RingWeight("CLSAG_agg_0", claim, signature) = mP
      /\ RingWeight("CLSAG_agg_1", claim, signature) = mC
  BY <1>1, Zenon DEF ClosesWith, Known, WeightQuery, RingWeight, Lookup
<1>4. ASSUME NEW k \in 1 .. n
      PROVE  ChallengeAfter(k, chal[k], mP, mC, claim, signature) = chal[Follower(k, n)]
  <2>1. Known(hashes, MemberQuery(k, chal[k], mP, mC, claim, signature), chal[Follower(k, n)])
    BY <1>1, Zenon DEF ClosesWith
  <2> QED BY <2>1, Zenon DEF Known, MemberQuery, ChallengeAfter, Lookup
<1> DEFINE f == [i \in 1 .. n + 1 |-> IF i <= n THEN chal[i] ELSE chal[1]]
           after(i) == ChallengeAfter(i - 1, f[i - 1], mP, mC, claim, signature)
<1>5. ASSUME NEW i \in 1 .. n + 1
      PROVE  f[i] = IF i = 1 THEN signature.C1
                    ELSE IF f[i - 1] = Unknown THEN Unknown
                    ELSE after(i)
  <2>1. CASE i = 1
    <3>1. f[1] = chal[1] /\ signature.C1 = chal[1]
      BY <1>1 DEF ClosesWith
    <3> QED BY <2>1, <3>1
  <2>2. CASE i # 1
    <3>1. i - 1 \in 1 .. n /\ i - 1 \in 1 .. n + 1 /\ i - 1 <= n
      BY <2>2
    <3>2. f[i - 1] = chal[i - 1] /\ chal[i - 1] \in Scalars
      BY <3>1
    <3>3. f[i] = chal[Follower(i - 1, n)]
      BY <2>2, <3>1 DEF Follower
    <3> HIDE DEF f
    <3>4. ChallengeAfter(i - 1, chal[i - 1], mP, mC, claim, signature) = chal[Follower(i - 1, n)]
      BY <1>4, <3>1, Zenon
    <3>5. f[i] = after(i) /\ f[i - 1] # Unknown
      BY <1>2, <3>2, <3>3, <3>4, Zenon
    <3> QED BY <2>2, <3>5, Zenon
  <2> QED BY <2>1, <2>2, Zenon
<1>6. Recurs(f, mP, mC, claim, signature)
  <2> DEFINE g(i) == IF i = 1 THEN signature.C1
                     ELSE IF f[i - 1] = Unknown THEN Unknown ELSE after(i)
  <2>1. f = [i \in 1 .. n + 1 |-> f[i]]
    OBVIOUS
  <2>2. \A i \in 1 .. n + 1 : f[i] = g(i)
    BY <1>5, Zenon
  <2> HIDE DEF f
  <2>3. [i \in 1 .. n + 1 |-> f[i]] = [i \in 1 .. n + 1 |-> g(i)]
    <3> HIDE DEF g
    <3> QED BY <2>2
  <2>4. f = [i \in 1 .. n + 1 |-> g(i)]
    BY <2>1, <2>3, Zenon
  <2> QED BY <2>4, Zenon DEF Recurs
<1>7. RingChallenges(mP, mC, claim, signature) = f
  <2> HIDE DEF f
  <2> QED BY <1>6, ChallengesAre
<1>8. f[n + 1] = signature.C1
  BY <1>1 DEF ClosesWith
<1>9. mP # Unknown /\ mC # Unknown
  BY <1>2
<1> HIDE DEF f
<1> QED BY <1>3, <1>7, <1>8, <1>9, Zenon DEF ClsagVerifies

-----------------------------------------------------------------------------
(* The signer's own member: the response gives back the nonce.                  *)

\* s + c*mu_P*p + c*mu_C*z = a, for the s that is computed from them.
LEMMA ResponseOf ==
    ASSUME NEW a \in Int, NEW x \in Int, NEW u \in Int, NEW w \in Int, NEW v \in Int
    PROVE  /\ ScSub(a, ScAdd(ScMul(x, u), ScMul(w, v))) \in Scalars
           /\ Cong(Combined(ScSub(a, ScAdd(ScMul(x, u), ScMul(w, v))), x, u, w, v), a)
<1> DEFINE m == ScMul(x, u)
           n == ScMul(w, v)
           t == ScAdd(m, n)
           s == ScSub(a, t)
           xu == x * u
           wv == w * v
<1>1. m \in Int /\ n \in Int /\ Cong(m, xu) /\ Cong(n, wv) /\ xu \in Int /\ wv \in Int
  <2>1. ASSUME NEW i \in Int, NEW j \in Int
        PROVE  ScMul(i, j) \in Int /\ Cong(ScMul(i, j), i * j) /\ i * j \in Int
    <3>1. ScMul(i, j) \in Scalars /\ Cong(ScMul(i, j), i * j)
      BY ScalarOps, Zenon
    <3>2. i * j \in Int
      OBVIOUS
    <3> QED BY <3>1, <3>2, QIs
  <2> QED BY <2>1, Zenon
<1> HIDE DEF m, n, xu, wv
<1>2. t \in Int /\ Cong(t, m + n)
  BY <1>1, ScalarOps, QIs
<1> HIDE DEF t
<1>3. s \in Scalars /\ s \in Int /\ Cong(s, a - t)
  BY <1>2, ScalarOps, QIs
<1> HIDE DEF s
<1>4. Cong(m + n, xu + wv)
  BY <1>1, CongOps
<1>5. Cong(t, xu + wv)
  BY <1>2, <1>4, CongEquiv
<1>6. xu + wv \in Int /\ a - t \in Int /\ t + (a - t) = a /\ s + (xu + wv) = (s + xu) + wv
  BY <1>1, <1>2, <1>3
<1>7. Cong(xu + wv, t)
  BY <1>5, CongEquiv
<1>8. Cong(s + (xu + wv), (a - t) + t)
  BY <1>2, <1>3, <1>6, <1>7, CongOps, Zenon
<1>9. (a - t) + t = a
  BY <1>2
<1>10. Cong((s + xu) + wv, a)
  BY <1>6, <1>8, <1>9
<1> QED BY <1>3, <1>10 DEF s, t, m, n, xu, wv, Combined

LEMMA SignerCloses ==
    ASSUME {nonce, muP, muC, c, job.p, job.z} \subseteq Scalars,
           job.P[job.l] = PubKey(job.p), job.C[job.l] = ScalarMult(job.z, G),
           job.image = ScalarMult(job.p, HashToEC(job.P[job.l])),
           D = ScalarMult(job.z, HashToEC(job.P[job.l]))
    PROVE  /\ FinalScalar \in Scalars
           /\ LeftOf(FinalScalar, c, job.l) = ScalarMult(nonce, G)
           /\ RightOf(FinalScalar, c, job.l) = ScalarMult(nonce, HashToEC(job.P[job.l]))
<1> DEFINE x == ScMul(c, muP)
           t == ScMul(c, muC)
           s == FinalScalar
           hp == HashToEC(job.P[job.l])
<1>1. nonce \in Int /\ job.p \in Int /\ job.z \in Int /\ c \in Int /\ muP \in Int /\ muC \in Int
  BY QIs
<1>2. x \in Int /\ t \in Int
  BY <1>1, ScalarOps, QIs
<1>3. s = ScSub(nonce, ScAdd(ScMul(x, job.p), ScMul(t, job.z)))
  BY DEF FinalScalar
<1> HIDE DEF x, t, s
<1>4. s \in Scalars /\ s \in Int /\ Cong(Combined(s, x, job.p, t, job.z), nonce)
  BY <1>1, <1>2, <1>3, ResponseOf, QIs
<1>5. \A p \in Points : AddKeys3(s, p, x, ScalarMult(job.p, p), t, ScalarMult(job.z, p)) = ScalarMult(nonce, p)
  <2> DEFINE u == job.p
             v == job.z
             w == nonce
  <2>1. /\ s \in Int /\ x \in Int /\ t \in Int /\ u \in Int /\ v \in Int /\ w \in Int
        /\ Cong(Combined(s, x, u, t, v), w)
    BY <1>1, <1>2, <1>4
  <2> HIDE DEF u, v, w
  <2>2. \A p \in Points : AddKeys3(s, p, x, ScalarMult(u, p), t, ScalarMult(v, p)) = ScalarMult(w, p)
    BY <2>1, OnePoint
  <2> QED BY <2>2 DEF u, v, w
<1>6. G \in Points /\ hp \in Points
  BY PointsAre
<1>7. LeftOf(s, c, job.l) = AddKeys3(s, G, x, ScalarMult(job.p, G), t, ScalarMult(job.z, G))
  BY DEF LeftOf, PubKey, x, t
<1>8. RightOf(s, c, job.l) = AddKeys3(s, hp, x, ScalarMult(job.p, hp), t, ScalarMult(job.z, hp))
  BY DEF RightOf, x, t
<1> HIDE DEF hp
<1>9. LeftOf(s, c, job.l) = ScalarMult(nonce, G) /\ RightOf(s, c, job.l) = ScalarMult(nonce, hp)
  BY <1>5, <1>6, <1>7, <1>8, Zenon
<1> QED BY <1>4, <1>9 DEF s, hp

-----------------------------------------------------------------------------
(* The inductive invariant.                                                     *)

\* What is given stays as it was given.
Given ==
    /\ tx.amounts \in Seq(0 .. TwoTo[N] - 1) /\ tx.masks \in Seq(Scalars) /\ tx.inputs \in Seq(InputType)
    /\ sample \in SampleType
    /\ \A random \in sample.randoms : Len(random) >= 4 /\ Len(random) >= Len(tx.inputs) - 1
    /\ amounts = tx.amounts /\ masks = tx.masks

SignatureType == [S : Seq(Scalars), C1 : Scalars, D : Points]

Numbers ==
    /\ nonce \in Scalars /\ muP \in Scalars /\ muC \in Scalars /\ c \in Scalars /\ C1 \in Scalars
    /\ D \in Points /\ S \in Seq(Scalars)
    /\ HashesOK(hashes)
    /\ clsags \in Seq(SignatureType)

Phases ==
    /\ progress \in {"bpp", "clsags", "done", "error"}
    /\ progress = "bpp" => stage = "idle" /\ clsags = <<>>
    /\ progress = "error" => clsags = <<>>
    /\ progress = "clsags" => Len(clsags) < Len(tx.inputs)
    /\ progress = "done" => Len(clsags) = Len(tx.inputs)
    /\ bppStage \in {"prepare", "rounds", "proved"} => Len(tx.amounts) = Len(tx.masks)
    /\ progress \in {"clsags", "done"} => bppStage = "proved"

\* The pseudo outputs commit to the amounts of the inputs, with masks whose sum is
\* that of the outputs', and the message is that of the proof.
Balanced ==
    progress \in {"clsags", "done"} =>
        /\ inputScalars \in [Inputs -> Scalars]
        /\ ScSum(inputScalars) = ScSum(tx.masks)
        /\ pseudoOuts = [i \in Inputs |-> CalcCommitment(tx.inputs[i].amount % Q, inputScalars[i])]
        /\ Known(hashes, MessageQuery([i \in Inputs |-> Image(i)], OutPk, Proof), message)

\* The call in progress is for the input behind those that are signed.
Called ==
    progress = "clsags" /\ stage # "idle" => job = ProveRctCLSAGSimple(Len(clsags) + 1)

Prepared ==
    progress = "clsags" /\ stage \in {"commit", "ring", "signed"} =>
        /\ job.l \in Members
        /\ D = ScalarMult(job.z, HashToEC(job.P[job.l]))
        /\ DOMAIN S = Members

Weighted ==
    progress = "clsags" /\ stage \in {"ring", "signed"} =>
        /\ Known(hashes, AggregateQuery("CLSAG_agg_0"), muP)
        /\ Known(hashes, AggregateQuery("CLSAG_agg_1"), muC)

\* The members the loop has been at, from the one behind the signer's on.
Visited(k) == IF index > job.l THEN job.l < k /\ k < index ELSE job.l < k \/ k < index

RoundOf(k, s, chal, mP, mC, d, call) ==
    LET left  == AddKeys3(s, G, ScMul(chal, mP), call.P[k], ScMul(chal, mC), call.C[k])
        right == AddKeys3(s, HashToEC(call.P[k]), ScMul(chal, mP), call.image, ScMul(chal, mC), d)
    IN  Query("CLSAG_round", <<call.message>>, call.P \o call.nonzero \o <<call.offset, left, right>>)

\* Each of them has the challenge that follows from the one before, the first of
\* them that which follows from the nonce; c is that of the member at hand.
Linked(chal) ==
    /\ chal[index] = c
    /\ index <= job.l => C1 = chal[1]
    /\ Known(hashes, RoundQuery(ScalarMult(nonce, G), ScalarMult(nonce, HashToEC(job.P[job.l]))),
             chal[NextIndex(job.l)])
    /\ \A k \in Members : Visited(k) =>
          Known(hashes, RoundOf(k, S[k], chal[k], muP, muC, D, job), chal[NextIndex(k)])

Walk ==
    progress = "clsags" /\ stage = "ring" =>
        index \in Members /\ \E chal \in [Members -> Scalars] : Linked(chal)

Signed ==
    progress = "clsags" /\ stage = "signed" /\ OpensInput(Len(clsags) + 1) =>
        Closes(hashes, job, Signature)

Kept ==
    progress \in {"clsags", "done"} =>
        \A i \in DOMAIN clsags : OpensInput(i) => Closes(hashes, ProveRctCLSAGSimple(i), clsags[i])

SignInv ==
    /\ Given /\ Numbers /\ Phases /\ Balanced
    /\ Called /\ Prepared /\ Weighted /\ Walk /\ Signed /\ Kept

-----------------------------------------------------------------------------
(* The arguments of the calls.                                                  *)

LEMMA InputIs ==
    ASSUME Given, NEW i \in Inputs
    PROVE  /\ tx.inputs[i] \in InputType
           /\ Len(tx.inputs[i].ring) \in Nat
           /\ DOMAIN tx.inputs[i].ring = 1 .. Len(tx.inputs[i].ring)
           /\ \A k \in DOMAIN tx.inputs[i].ring : tx.inputs[i].ring[k] \in RingMember
           /\ tx.inputs[i].l \in Nat \ {0}
           /\ tx.inputs[i].secret \in Scalars /\ tx.inputs[i].mask \in Scalars
           /\ tx.inputs[i].amount \in Nat /\ tx.inputs[i].amount % Q \in Int
<1>1. tx.inputs \in Seq(InputType)
  BY DEF Given
<1>2. tx.inputs[i] \in InputType
  BY <1>1, ElementOfSeq DEF Inputs
<1> DEFINE in == tx.inputs[i]
<1>3. /\ in.ring \in Seq(RingMember) /\ in.l \in Nat \ {0}
      /\ in.secret \in Secrets /\ in.mask \in Scalars /\ in.amount \in Nat
  BY <1>2 DEF InputType
<1> HIDE DEF in
<1>4. /\ Len(in.ring) \in Nat /\ DOMAIN in.ring = 1 .. Len(in.ring)
      /\ \A k \in DOMAIN in.ring : in.ring[k] \in RingMember
  BY <1>3, LenProperties, ElementOfSeq
<1>5. in.secret \in Scalars
  BY <1>3, BaseAssumption
<1>6. in.amount % Q \in Int
  <2>1. in.amount \in Int
    BY <1>3
  <2> QED BY <2>1, Reduced
<1> QED BY <1>2, <1>3, <1>4, <1>5, <1>6 DEF in

LEMMA CallIs ==
    ASSUME Given, NEW i \in Inputs
    PROVE  LET call == ProveRctCLSAGSimple(i)
               n    == Len(tx.inputs[i].ring)
           IN  /\ n \in Nat
               /\ Len(call.P) = n /\ Len(call.C) = n /\ Len(call.nonzero) = n
               /\ DOMAIN call.P = 1 .. n
               /\ call.l \in Nat \ {0}
               /\ call.p \in Scalars
               /\ \A k \in 1 .. n : call.C[k] = SubKeys(call.nonzero[k], call.offset)
<1> DEFINE call == ProveRctCLSAGSimple(i)
           n == Len(tx.inputs[i].ring)
<1>1. n \in Nat /\ DOMAIN tx.inputs[i].ring = 1 .. n /\ tx.inputs[i].l \in Nat \ {0} /\ tx.inputs[i].secret \in Scalars
  BY InputIs
<1>2. /\ call.P = DestOf(i) /\ call.nonzero = MaskOf(i) /\ call.offset = pseudoOuts[i]
      /\ call.C = [k \in DOMAIN MaskOf(i) |-> SubKeys(MaskOf(i)[k], pseudoOuts[i])]
      /\ call.l = tx.inputs[i].l /\ call.p = tx.inputs[i].secret
  BY DEF ProveRctCLSAGSimple
<1> HIDE DEF n, call
<1>3. /\ DestOf(i) = [k \in 1 .. n |-> DestOf(i)[k]]
      /\ MaskOf(i) = [k \in 1 .. n |-> MaskOf(i)[k]]
  BY <1>1 DEF DestOf, MaskOf
<1>4. DOMAIN MaskOf(i) = 1 .. n /\ DOMAIN DestOf(i) = 1 .. n
  BY <1>3
<1>5. call.C = [k \in 1 .. n |-> call.C[k]] /\ \A k \in 1 .. n : call.C[k] = SubKeys(call.nonzero[k], call.offset)
  BY <1>2, <1>4
<1>6. Len(DestOf(i)) = n /\ Len(MaskOf(i)) = n /\ Len(call.C) = n
  BY <1>1, <1>3, <1>5, LenOf
<1> QED BY <1>1, <1>2, <1>4, <1>5, <1>6 DEF call, n

\* A signer who can open the member that is spent knows what the ring is signed with.
LEMMA OpensWhat ==
    ASSUME Given, NEW i \in Inputs, OpensInput(i),
           inputScalars[i] \in Scalars, inputScalars \in [Inputs -> Scalars],
           pseudoOuts[i] = CalcCommitment(tx.inputs[i].amount % Q, inputScalars[i]),
           tx.inputs[i].l \in DOMAIN tx.inputs[i].ring
    PROVE  LET call == ProveRctCLSAGSimple(i)
           IN  /\ call.z \in Scalars
               /\ call.P[call.l] = PubKey(call.p)
               /\ call.C[call.l] = ScalarMult(call.z, G)
               /\ call.image = ScalarMult(call.p, HashToEC(call.P[call.l]))
<1> DEFINE call == ProveRctCLSAGSimple(i)
           in == tx.inputs[i]
           l == in.l
           x == inputScalars[i]
<1>1. /\ in.secret \in Scalars /\ in.mask \in Scalars /\ in.amount % Q \in Int
  BY InputIs
<1>2. /\ in.ring[l].secret = in.secret /\ in.ring[l].mask = in.mask
      /\ in.ring[l].amount % Q = in.amount % Q
  BY DEF OpensInput
<1>3. DestOf(i)[l] = PubKey(in.secret) /\ MaskOf(i)[l] = CalcCommitment(in.amount % Q, in.mask)
      /\ DOMAIN MaskOf(i) = DOMAIN in.ring
  BY <1>2 DEF DestOf, MaskOf
<1>4. /\ call.P = DestOf(i) /\ call.p = in.secret /\ call.l = l /\ call.z = ScSub(in.mask, x)
      /\ call.C = [k \in DOMAIN MaskOf(i) |-> SubKeys(MaskOf(i)[k], pseudoOuts[i])]
      /\ call.image = GenerateKeyImage(in.secret)
  BY DEF ProveRctCLSAGSimple, Image
<1>5. x \in Int /\ in.mask \in Int
  BY <1>1, QIs
<1> HIDE DEF call
<1>6. ScSub(in.mask, x) \in Scalars
  BY <1>5, ScalarOps
<1>7. call.C[l] = SubKeys(CalcCommitment(in.amount % Q, in.mask), CalcCommitment(in.amount % Q, x))
  BY <1>3, <1>4
<1>8. call.C[l] = ScalarMult(ScSub(in.mask, x), G)
  <2> DEFINE a == in.amount % Q
             m == in.mask
  <2>1. a \in Int /\ m \in Int /\ x \in Int
    BY <1>1, <1>5
  <2> HIDE DEF a, m, x
  <2>2. SubKeys(CalcCommitment(a, m), CalcCommitment(a, x)) = ScalarMult(ScSub(m, x), G)
    BY <2>1, CommitmentsDiffer
  <2> QED BY <1>7, <2>2 DEF a, m, x
<1>9. call.image = ScalarMult(call.p, HashToEC(call.P[l]))
  BY <1>3, <1>4 DEF GenerateKeyImage
<1> QED BY <1>3, <1>4, <1>6, <1>8, <1>9 DEF call

-----------------------------------------------------------------------------
(* The range proof and its messages.                                            *)

LEMMA InitSign == Init => SignInv
<1> SUFFICES ASSUME Init PROVE SignInv
  OBVIOUS
<1>1. PICK case \in Cases : tx = case.tx /\ sample = case.sample
  BY DEF Init
<1>2. Given
  <2>1. amounts = tx.amounts /\ masks = tx.masks
    BY DEF Init
  <2> QED BY <1>1, <2>1, TransactionAssumption DEF Given
<1>3. /\ stage = "idle" /\ nonce = 0 /\ D = Identity /\ muP = 0 /\ muC = 0 /\ c = 0 /\ S = <<>> /\ C1 = 0
      /\ hashes = <<>> /\ clsags = <<>> /\ progress = "bpp" /\ bppStage = "start"
  BY DEF Init, ClsagIdle, BppInit
<1>4. Numbers
  <2>1. DOMAIN <<>> = {}
    OBVIOUS
  <2>2. HashesOK(hashes)
    BY <1>3, <2>1 DEF HashesOK
  <2>3. S \in Seq(Scalars) /\ clsags \in Seq(SignatureType)
    BY <1>3
  <2> QED BY <1>3, <2>2, <2>3, QIs, PointsAre DEF Numbers
<1> QED BY <1>2, <1>3, <1>4 DEF SignInv, Phases, Balanced, Called, Prepared, Weighted, Walk, Signed, Kept

LEMMA HashOK ==
    ASSUME HashesOK(hashes), sample \in SampleType,
           NEW query, query.domain \in Domains, NEW answer, Hash(query, answer)
    PROVE  /\ answer \in Scalars \ {0} /\ HashesOK(hashes') /\ Grows(hashes, hashes')
           /\ Known(hashes', query, answer)
BY HashGrows DEF Hash

LEMMA DomainsAre == {"transcript", "scalar", "message", "CLSAG_agg_0", "CLSAG_agg_1", "CLSAG_round"} \subseteq Domains
BY DEF Domains

LEMMA TranscriptIs == \A old, points : TranscriptQuery(old, points).domain \in Domains
BY DomainOf, DomainsAre DEF TranscriptQuery

\* The hashes of the range proof, and the sizes it is only begun for.
LEMMA BppStepOK ==
    ASSUME SignInv, BppNext, UNCHANGED sample
    PROVE  /\ HashesOK(hashes') /\ amounts' = amounts /\ masks' = masks
           /\ bppStage' \in {"prepare", "rounds", "proved"} => Len(amounts) = Len(masks)
<1>1. HashesOK(hashes) /\ sample \in SampleType
  BY DEF SignInv, Numbers, Given
<1>2. bppStage \in {"prepare", "rounds", "proved"} => Len(amounts) = Len(masks)
  BY DEF SignInv, Phases, Given
<1>3. CASE BppStart
  <2>1. amounts' = amounts /\ masks' = masks
    BY <1>3 DEF BppStart
  <2>2. CASE Len(amounts) # Len(masks) \/ TooLarge(Len(masks))
    BY <1>1, <1>3, <2>1, <2>2 DEF BppStart
  <2>3. CASE ~(Len(amounts) # Len(masks) \/ TooLarge(Len(masks)))
    <3>1. \E opened : Hash(TranscriptQuery(0, V'), opened)
      BY <1>3, <2>3 DEF BppStart
    <3>2. HashesOK(hashes')
      BY <1>1, <3>1, TranscriptIs, HashOK
    <3> QED BY <2>1, <2>3, <3>2
  <2> QED BY <2>2, <2>3
<1>4. CASE BppPrepare
  <2>1. PICK answer \in Answers(hashes, TranscriptQuery(transcript, <<A>>)) :
          LET afterY == Answered(hashes, TranscriptQuery(transcript, <<A>>), answer)
          IN  \E next \in Answers(afterY, Query("scalar", <<answer>>, <<>>)) :
                 hashes' = Answered(afterY, Query("scalar", <<answer>>, <<>>), next)
    BY <1>4 DEF BppPrepare
  <2> DEFINE afterY == Answered(hashes, TranscriptQuery(transcript, <<A>>), answer)
             query == Query("scalar", <<answer>>, <<>>)
  <2>2. HashesOK(afterY)
    BY <1>1, TranscriptIs, HashGrows
  <2>3. query.domain \in Domains
    BY DomainOf, DomainsAre
  <2>4. PICK next \in Answers(afterY, query) : hashes' = Answered(afterY, query, next)
    BY <2>1
  <2> HIDE DEF afterY, query
  <2>5. HashesOK(hashes')
    BY <1>1, <2>2, <2>3, <2>4, HashGrows
  <2>6. bppStage = "prepare" /\ amounts' = amounts /\ masks' = masks
    BY <1>4 DEF BppPrepare
  <2> QED BY <1>2, <2>5, <2>6
<1>5. CASE BppRound
  <2>1. \E points, challenge : Hash(TranscriptQuery(transcript, points), challenge)
    BY <1>5, Zenon DEF BppRound
  <2>2. HashesOK(hashes')
    BY <1>1, <2>1, TranscriptIs, HashOK
  <2>3. bppStage = "rounds" /\ amounts' = amounts /\ masks' = masks
    BY <1>5, Zenon DEF BppRound
  <2> QED BY <1>2, <2>2, <2>3
<1>6. CASE BppFinish
  <2>1. \E points, challenge : Hash(TranscriptQuery(transcript, points), challenge)
    BY <1>6, Zenon DEF BppFinish
  <2>2. HashesOK(hashes')
    BY <1>1, <2>1, TranscriptIs, HashOK
  <2>3. bppStage = "rounds" /\ amounts' = amounts /\ masks' = masks
    BY <1>6, Zenon DEF BppFinish
  <2> QED BY <1>2, <2>2, <2>3
<1> QED BY <1>3, <1>4, <1>5, <1>6 DEF BppNext

LEMMA SignBppStep ==
    ASSUME SignInv, SignBpp
    PROVE  SignInv'
<1>1. progress = "bpp" /\ BppNext /\ UNCHANGED <<sample, clsagVars, signingVars>>
  BY DEF SignBpp
<1>2. /\ HashesOK(hashes') /\ amounts' = amounts /\ masks' = masks
      /\ bppStage' \in {"prepare", "rounds", "proved"} => Len(amounts) = Len(masks)
  BY <1>1, BppStepOK
<1>3. /\ UNCHANGED <<sample, tx, progress, inputScalars, pseudoOuts, message, clsags>>
      /\ UNCHANGED <<job, stage, nonce, D, muP, muC, c, index, S, C1>>
  BY <1>1 DEF clsagVars, signingVars
<1>4. Given'
  BY <1>2, <1>3 DEF SignInv, Given
<1>5. Numbers'
  BY <1>2, <1>3 DEF SignInv, Numbers
<1>6. Phases'
  BY <1>1, <1>2, <1>3 DEF SignInv, Phases, Given
<1> QED BY <1>1, <1>3, <1>4, <1>5, <1>6 DEF SignInv, Balanced, Called, Prepared, Weighted, Walk, Signed, Kept

LEMMA SignFailsStep ==
    ASSUME SignInv, SignFails
    PROVE  SignInv'
<1>1. /\ progress' = "error" /\ clsags' = <<>>
      /\ UNCHANGED <<sample, hashes, bppVars, clsagVars, tx, inputScalars, pseudoOuts, message>>
  BY DEF SignFails
<1>2. /\ UNCHANGED <<sample, tx, hashes, amounts, masks, bppStage>>
      /\ UNCHANGED <<job, stage, nonce, D, muP, muC, c, index, S, C1>>
  BY <1>1 DEF clsagVars, bppVars
<1>3. Given'
  BY <1>2 DEF SignInv, Given
<1>4. Numbers'
  BY <1>1, <1>2 DEF SignInv, Numbers
<1>5. Phases'
  BY <1>1, <1>2 DEF SignInv, Phases
<1> QED BY <1>1, <1>3, <1>4, <1>5 DEF SignInv, Balanced, Called, Prepared, Weighted, Walk, Signed, Kept

-----------------------------------------------------------------------------
(* The masks of the pseudo outputs.                                             *)

LEMMA LastMaskBalances ==
    ASSUME Given, NEW n \in Nat \ {0}, Inputs = 1 .. n, n = Len(tx.inputs),
           NEW random \in Seq(Scalars), Len(random) >= n - 1, NEW x,
           x = [i \in Inputs |-> IF i < n THEN random[i] ELSE LastMask(random)]
    PROVE  x \in [Inputs -> Scalars] /\ ScSum(x) = ScSum(masks)
<1> DEFINE I == 1 .. n
           rest == Without(x, I, n)
           total == ScSum(masks)
           last == LastMask(random)
<1>1. \A i \in I : i < n => random[i] \in Scalars
  <2>1. DOMAIN random = 1 .. Len(random) /\ Len(random) \in Nat
    BY LenProperties
  <2>2. \A i \in I : i < n => i \in 1 .. Len(random)
    BY <2>1
  <2> QED BY <2>1, <2>2, ElementOfSeq
<1>2. total \in Scalars /\ total \in Int
  <2>1. masks \in Seq(Scalars)
    BY DEF Given
  <2>2. Len(masks) \in Nat /\ masks \in [1 .. Len(masks) -> Scalars]
    BY <2>1, LenProperties
  <2>3. masks \in [1 .. Len(masks) -> Int]
    BY <2>2, QIs
  <2> QED BY <2>2, <2>3, SumOfSeq, QIs
<1>3. rest = [i \in Inputs \ {Len(tx.inputs)} |-> random[i]] /\ rest \in [I \ {n} -> Int]
  <2>1. \A i \in I \ {n} : i \in Inputs /\ i < n
    OBVIOUS
  <2>2. \A i \in I \ {n} : x[i] = random[i] /\ random[i] \in Int
    BY <1>1, <2>1, QIs
  <2>3. rest = [i \in I \ {n} |-> x[i]]
    BY DEF Without
  <2> HIDE DEF rest
  <2>4. rest = [i \in I \ {n} |-> random[i]] /\ rest \in [I \ {n} -> Int]
    BY <2>2, <2>3
  <2>5. I = Inputs
    OBVIOUS
  <2> HIDE DEF I
  <2> QED BY <2>4, <2>5
<1>4. IsFiniteSet(I \ {n}) /\ IsFiniteSet(I)
  <2>1. IsFiniteSet(I)
    BY RangeFinite
  <2> HIDE DEF I
  <2> QED BY <2>1, FS_Subset
<1>5. SumFunction(rest) \in Int
  <2> HIDE DEF rest
  <2> QED BY <1>3, <1>4, SumIsInt
<1>6. last = ScSub(total, ScSum(rest))
  BY <1>3 DEF LastMask
<1> DEFINE r == SumFunction(rest)
<1>7. ScSum(rest) \in Int /\ Cong(ScSum(rest), r)
  BY <1>5, Reduced DEF ScSum
<1> HIDE DEF rest, total, r
<1>8. last \in Scalars /\ Cong(last, total - ScSum(rest))
  BY <1>2, <1>6, <1>7, ScalarOps
<1>9. last \in Int
  BY <1>8, QIs
<1> HIDE DEF last
<1>10. x \in [Inputs -> Scalars]
  BY <1>1, <1>8 DEF last
<1>11. x \in [I -> Int] /\ x[n] = last /\ n \in I
  <2>1. n \in I /\ ~(n < n) /\ I = Inputs
    OBVIOUS
  <2>2. x[n] = last
    BY <2>1 DEF last
  <2> HIDE DEF I
  <2> QED BY <1>10, <2>1, <2>2, QIs
<1>12. SumFunction(x) = last + r
  <2> HIDE DEF I
  <2>1. IsFiniteSet(I) /\ x \in [I -> Int] /\ n \in I /\ x[n] = last
    BY <1>4, <1>11
  <2>2. SumFunction(x) = x[n] + SumFunction(Without(x, I, n))
    <3>1. ASSUME NEW E, IsFiniteSet(E), NEW f \in [E -> Int], NEW e \in E
          PROVE  SumFunction(f) = f[e] + SumFunction(Without(f, E, e))
      BY <3>1, SumRemove
    <3> QED BY <2>1, <3>1, SMTT(30)
  <2> QED BY <2>1, <2>2 DEF r, rest
<1>13. Cong(last, total - r)
  <2>1. Cong(total - ScSum(rest), total - r)
    <3>1. Cong(total, total)
      BY CongEquiv
    <3>2. r \in Int
      BY <1>5 DEF r
    <3> QED BY <1>2, <1>7, <3>1, <3>2, CongOps
  <2> QED BY <1>8, <2>1, CongEquiv
<1>14. Cong(last + r, (total - r) + r) /\ (total - r) + r = total /\ last + r \in Int
  <2>1. r \in Int /\ total - r \in Int /\ Cong(r, r)
    BY <1>2, <1>5, CongEquiv DEF r
  <2>2. Cong(last + r, (total - r) + r)
    BY <1>9, <1>13, <2>1, CongOps
  <2> QED BY <1>2, <1>9, <2>1, <2>2
<1>15. ScSum(x) \in Scalars /\ Cong(ScSum(x), last + r)
  BY <1>12, <1>14, Reduced DEF ScSum
<1>16. Cong(ScSum(x), total)
  BY <1>14, <1>15, CongEquiv
<1>17. ScSum(x) = total
  BY <1>2, <1>15, <1>16, CongEq
<1> QED BY <1>10, <1>17 DEF total

LEMMA InputsAre ==
    ASSUME Given
    PROVE  Len(tx.inputs) \in Nat /\ Inputs = 1 .. Len(tx.inputs)
           /\ (tx.inputs # <<>> => Len(tx.inputs) # 0)
<1>1. tx.inputs \in Seq(InputType)
  BY DEF Given
<1>2. Len(tx.inputs) \in Nat /\ Inputs = 1 .. Len(tx.inputs)
  BY <1>1, LenProperties DEF Inputs
<1>3. Len(tx.inputs) = 0 => tx.inputs = <<>>
  BY <1>1, EmptySeq
<1> QED BY <1>2, <1>3

LEMMA PseudoOutsStep ==
    ASSUME SignInv, CalculatePseudoOuts
    PROVE  SignInv'
<1> DEFINE query == MessageQuery([i \in Inputs |-> Image(i)], OutPk, Proof)
<1>1. /\ progress = "bpp" /\ bppStage = "proved" /\ tx.inputs # <<>>
      /\ \E answer \in Answers(hashes, query) : Hash(query, answer) /\ message' = answer
      /\ progress' = "clsags"
      /\ UNCHANGED <<sample, bppVars, clsagVars, tx, clsags>>
  BY DEF CalculatePseudoOuts
<1>2. PICK random \in sample.randoms :
          inputScalars' = [i \in Inputs |-> IF i < Len(tx.inputs) THEN random[i] ELSE LastMask(random)]
  BY DEF CalculatePseudoOuts
<1>3. pseudoOuts' = [i \in Inputs |-> CalcCommitment(tx.inputs[i].amount % Q, inputScalars'[i])]
  BY DEF CalculatePseudoOuts
<1>4. /\ UNCHANGED <<sample, tx, clsags, amounts, masks, bppStage>>
      /\ UNCHANGED <<job, stage, nonce, D, muP, muC, c, index, S, C1>>
      /\ UNCHANGED <<A, A1, B, r1, s1, d1, L, R>>
  BY <1>1, Zenon DEF bppVars, proofVars, clsagVars
<1>5. Given /\ stage = "idle" /\ clsags = <<>> /\ HashesOK(hashes)
  BY <1>1 DEF SignInv, Phases, Numbers
<1>6. query.domain \in Domains
  BY DomainOf, DomainsAre DEF MessageQuery
<1>7. /\ HashesOK(hashes') /\ Known(hashes', query, message')
  <2>1. sample \in SampleType
    BY <1>5 DEF Given
  <2> HIDE DEF query
  <2> QED BY <1>1, <1>5, <1>6, <2>1, HashOK
<1>8. Proof' = Proof /\ OutPk' = OutPk /\ [i \in Inputs |-> Image(i)]' = [i \in Inputs |-> Image(i)]
  BY <1>4, Zenon DEF Proof, OutPk, Inputs, Image
<1>9. Given'
  BY <1>4, <1>5 DEF Given
<1>10. Numbers'
  BY <1>4, <1>7 DEF SignInv, Numbers
<1>11. Phases'
  <2>1. Len(clsags) < Len(tx.inputs)
    BY <1>1, <1>5, InputsAre
  <2> QED BY <1>1, <1>4, <2>1 DEF SignInv, Phases
<1>12. inputScalars' \in [Inputs -> Scalars] /\ ScSum(inputScalars') = ScSum(masks)
  <2>1. random \in Seq(Scalars) /\ Len(random) >= Len(tx.inputs) - 1
    BY <1>5 DEF Given, SampleType
  <2>2. Len(tx.inputs) \in Nat \ {0} /\ Inputs = 1 .. Len(tx.inputs)
    BY <1>1, <1>5, InputsAre
  <2> QED BY <1>2, <1>5, <2>1, <2>2, LastMaskBalances
<1>13. Balanced'
  <2>1. Inputs' = Inputs /\ tx' = tx
    BY <1>4 DEF Inputs
  <2>2. ScSum(inputScalars') = ScSum(tx.masks)
    BY <1>5, <1>12 DEF Given
  <2>3. Known(hashes', MessageQuery([i \in Inputs |-> Image(i)]', OutPk', Proof'), message')
    BY <1>7, <1>8
  <2> HIDE DEF query
  <2> QED BY <1>3, <1>12, <2>1, <2>2, <2>3, Zenon DEF Balanced
<1>14. Called' /\ Prepared' /\ Weighted' /\ Walk' /\ Signed'
  BY <1>4, <1>5 DEF Called, Prepared, Weighted, Walk, Signed
<1>15. Kept'
  BY <1>4, <1>5 DEF Kept
<1> QED BY <1>9, <1>10, <1>11, <1>13, <1>14, <1>15 DEF SignInv

-----------------------------------------------------------------------------
(* Signing one input.                                                           *)

\* What a step of the ring signature leaves alone.
LEMMA Frame ==
    ASSUME SignInv, progress = "clsags",
           UNCHANGED <<sample, bppVars, signingVars>>,
           HashesOK(hashes'), Grows(hashes, hashes')
    PROVE  /\ UNCHANGED <<sample, tx, progress, inputScalars, pseudoOuts, message, clsags>>
           /\ Given' /\ Phases' /\ Balanced' /\ Kept'
           /\ \A i : ProveRctCLSAGSimple(i)' = ProveRctCLSAGSimple(i) /\ OpensInput(i)' = OpensInput(i)
<1>1. /\ UNCHANGED <<sample, tx, progress, inputScalars, pseudoOuts, message, clsags>>
      /\ UNCHANGED <<amounts, masks, bppStage>>
      /\ UNCHANGED <<A, A1, B, r1, s1, d1, L, R>>
  BY Zenon DEF bppVars, proofVars, signingVars
<1>2. Given'
  BY <1>1 DEF SignInv, Given
<1>3. Phases'
  BY <1>1 DEF SignInv, Phases
<1>4. /\ Proof' = Proof /\ OutPk' = OutPk
      /\ Inputs' = Inputs /\ [i \in Inputs |-> Image(i)]' = [i \in Inputs |-> Image(i)]
  BY <1>1, Zenon DEF Proof, OutPk, Inputs, Image
<1>5. Balanced'
  <2> DEFINE query == MessageQuery([i \in Inputs |-> Image(i)], OutPk, Proof)
  <2>1. Known(hashes, query, message)
    BY DEF SignInv, Balanced
  <2>2. query' = query
    BY <1>4, Zenon
  <2> HIDE DEF query
  <2>3. Known(hashes', query', message')
    BY <1>1, <2>1, <2>2, StaysKnown
  <2>4. /\ inputScalars \in [Inputs -> Scalars]
        /\ ScSum(inputScalars) = ScSum(tx.masks)
        /\ pseudoOuts = [i \in Inputs |-> CalcCommitment(tx.inputs[i].amount % Q, inputScalars[i])]
    BY DEF SignInv, Balanced
  <2> QED BY <1>1, <1>4, <2>3, <2>4, Zenon DEF Balanced, query
<1>6. \A i : ProveRctCLSAGSimple(i)' = ProveRctCLSAGSimple(i) /\ OpensInput(i)' = OpensInput(i)
  BY <1>1, Zenon DEF ProveRctCLSAGSimple, OpensInput, DestOf, MaskOf, Image
<1>7. Kept'
  <2>1. ASSUME NEW i \in DOMAIN clsags, OpensInput(i)
        PROVE  Closes(hashes', ProveRctCLSAGSimple(i), clsags[i])
    <3>1. Closes(hashes, ProveRctCLSAGSimple(i), clsags[i])
      BY <2>1 DEF SignInv, Kept
    <3> QED BY <3>1, ClosesForGood
  <2> QED BY <1>1, <1>6, <2>1, Zenon DEF Kept
<1> QED BY <1>1, <1>2, <1>3, <1>5, <1>6, <1>7, Zenon

LEMMA NextInput ==
    ASSUME SignInv, progress = "clsags"
    PROVE  /\ Len(clsags) \in Nat /\ Len(clsags) + 1 \in Inputs
           /\ DOMAIN clsags = 1 .. Len(clsags)
<1>1. Len(clsags) \in Nat /\ DOMAIN clsags = 1 .. Len(clsags)
  BY LenProperties DEF SignInv, Numbers
<1>2. Len(tx.inputs) \in Nat /\ Inputs = 1 .. Len(tx.inputs)
  BY InputsAre DEF SignInv
<1>3. Len(clsags) < Len(tx.inputs)
  BY DEF SignInv, Phases
<1> QED BY <1>1, <1>2, <1>3

LEMMA SignInputStep ==
    ASSUME SignInv, SignInput
    PROVE  SignInv'
<1> DEFINE i == Len(clsags) + 1
           call == ProveRctCLSAGSimple(i)
           n == Len(tx.inputs[i].ring)
<1>1. /\ progress = "clsags" /\ stage = "idle"
      /\ ClsagStart(call)
      /\ UNCHANGED <<sample, bppVars, signingVars>>
  BY DEF SignInput
<1>2. /\ job' = call /\ muP' = 0 /\ muC' = 0 /\ c' = 0 /\ C1' = 0 /\ hashes' = hashes
  BY <1>1 DEF ClsagStart
<1>3. HashesOK(hashes') /\ Grows(hashes, hashes') /\ Given /\ i \in Inputs
  BY <1>1, <1>2, GrowsOn, NextInput DEF SignInv, Numbers
<1>4. /\ UNCHANGED <<sample, tx, progress, inputScalars, pseudoOuts, message, clsags>>
      /\ Given' /\ Phases' /\ Balanced' /\ Kept'
      /\ \A j : ProveRctCLSAGSimple(j)' = ProveRctCLSAGSimple(j) /\ OpensInput(j)' = OpensInput(j)
  BY <1>1, <1>3, Frame
<1>5. /\ n \in Nat /\ Len(call.P) = n /\ DOMAIN call.P = 1 .. n /\ call.l \in Nat \ {0}
      /\ Len(call.C) = n /\ Len(call.nonzero) = n
  BY <1>3, CallIs
<1>6. call.z \in Int
  <2>1. tx.inputs[i].mask \in Int /\ inputScalars[i] \in Int
    BY <1>1, <1>3, InputIs, QIs DEF SignInv, Balanced
  <2> QED BY <2>1, ScalarOps, QIs DEF ProveRctCLSAGSimple
<1>7. call' = call
  BY <1>4, Zenon
<1> HIDE DEF call, n
<1>8. CASE call.l > n
  <2>1. stage' = "rejected" /\ nonce' = 0 /\ D' = Identity /\ S' = <<>>
    BY <1>1, <1>5, <1>8 DEF ClsagStart
  <2>2. Numbers'
    <3>1. <<>> \in Seq(Scalars)
      OBVIOUS
    <3> QED BY <1>2, <1>3, <1>4, <2>1, <3>1, QIs, PointsAre DEF SignInv, Numbers
  <2>3. Called'
    BY <1>2, <1>7, Zenon DEF Called, call
  <2> QED BY <1>4, <2>1, <2>2, <2>3 DEF SignInv, Prepared, Weighted, Walk, Signed
<1>9. CASE ~(call.l > n)
  <2>1. /\ stage' = "commit"
        /\ \E random \in sample.randoms : nonce' = random[1]
        /\ D' = ScalarMult(call.z, HashToEC(call.P[call.l]))
        /\ S' = [k \in DOMAIN call.P |-> 0]
    BY <1>1, <1>5, <1>9 DEF ClsagStart
  <2>2. nonce' \in Scalars
    <3>1. PICK random \in sample.randoms : nonce' = random[1]
      BY <2>1
    <3>2. random \in Seq(Scalars) /\ Len(random) >= 4
      BY <1>3 DEF Given, SampleType
    <3>3. 1 \in 1 .. Len(random)
      BY <3>2, LenProperties
    <3> QED BY <3>1, <3>2, <3>3, ElementOfSeq
  <2>3. D' \in Points
    BY <1>6, <2>1, PointsAre, PointOps
  <2>4. S' \in Seq(Scalars) /\ DOMAIN S' = 1 .. n
    <3>1. S' \in [1 .. n -> Scalars]
      BY <1>5, <2>1, QIs
    <3> QED BY <1>5, <3>1, SeqDef
  <2>5. Numbers'
    BY <1>2, <1>3, <1>4, <2>2, <2>3, <2>4, QIs DEF SignInv, Numbers
  <2>6. Called'
    BY <1>2, <1>7, Zenon DEF Called, call
  <2>7. Prepared'
    <3>1. job'.l \in DOMAIN job'.P /\ DOMAIN S' = DOMAIN job'.P
      BY <1>2, <1>5, <1>9, <2>4
    <3>2. D' = ScalarMult(job'.z, HashToEC(job'.P[job'.l]))
      BY <1>2, <2>1
    <3> QED BY <3>1, <3>2, Zenon DEF Prepared, Members
  <2> QED BY <1>4, <2>1, <2>5, <2>6, <2>7 DEF SignInv, Weighted, Walk, Signed
<1> QED BY <1>8, <1>9

LEMMA WrapsAround ==
    ASSUME NEW n \in Nat, NEW k \in 1 .. n
    PROVE  (k % n) + 1 = Follower(k, n) /\ Follower(k, n) \in 1 .. n
<1>1. CASE n = 1
  <2>1. k = 1 /\ 1 % 1 = 0
    BY <1>1
  <2> QED BY <1>1, <2>1 DEF Follower
<1>2. CASE n # 1
  <2>1. n \in Nat \ {0, 1} /\ k \in Int
    BY <1>2
  <2>2. k % n \in 0 .. n - 1 /\ k \div n \in Int /\ k = n * (k \div n) + (k % n)
    BY <2>1, ModDef
  <2>3. k = n => k % n = 0
    <3>1. ASSUME k = n PROVE n * (k \div n) + (k % n) = n * 1 + 0
      BY <2>1, <2>2, <3>1
    <3>2. 0 \in 0 .. n - 1 /\ 1 \in Int
      BY <2>1
    <3> QED BY <2>1, <2>2, <3>1, <3>2, ModUnique
  <2>4. k # n => k % n = k
    <3>1. n * (k \div n) + (k % n) = n * 0 + k
      BY <2>1, <2>2
    <3>2. k # n => k \in 0 .. n - 1 /\ 0 \in Int
      OBVIOUS
    <3> QED BY <2>1, <2>2, <3>1, <3>2, ModUnique
  <2> QED BY <2>1, <2>3, <2>4 DEF Follower
<1> QED BY <1>1, <1>2

LEMMA RingIs ==
    ASSUME SignInv, progress = "clsags", stage \in {"commit", "ring", "signed"}
    PROVE  /\ job = ProveRctCLSAGSimple(Len(clsags) + 1) /\ Len(clsags) + 1 \in Inputs
           /\ Len(job.P) \in Nat /\ Members = 1 .. Len(job.P) /\ DOMAIN job.P = Members
           /\ job.l \in Members /\ DOMAIN S = Members
           /\ \A k \in Members : /\ NextIndex(k) = Follower(k, Len(job.P)) /\ NextIndex(k) \in Members
                                 /\ job.C[k] = SubKeys(job.nonzero[k], job.offset)
           /\ D = ScalarMult(8, SigD)
<1>1. job = ProveRctCLSAGSimple(Len(clsags) + 1) /\ Len(clsags) + 1 \in Inputs /\ Given
  BY NextInput DEF SignInv, Called
<1>2. /\ Len(job.P) \in Nat /\ DOMAIN job.P = 1 .. Len(job.P)
      /\ \A k \in 1 .. Len(job.P) : job.C[k] = SubKeys(job.nonzero[k], job.offset)
  BY <1>1, CallIs
<1>3. Members = 1 .. Len(job.P)
  BY <1>2 DEF Members
<1>4. job.l \in Members /\ DOMAIN S = Members
  BY DEF SignInv, Prepared
<1>5. \A k \in Members : NextIndex(k) = Follower(k, Len(job.P)) /\ NextIndex(k) \in Members
  BY <1>2, <1>3, WrapsAround DEF NextIndex
<1>6. D = ScalarMult(8, SigD)
  BY EightEighths DEF SignInv, Numbers, SigD
<1> QED BY <1>1, <1>2, <1>3, <1>4, <1>5, <1>6

LEMMA CommitStep ==
    ASSUME SignInv, progress = "clsags", ClsagCommit, UNCHANGED <<sample, bppVars, signingVars>>
    PROVE  SignInv'
<1> DEFINE qP == AggregateQuery("CLSAG_agg_0")
           qC == AggregateQuery("CLSAG_agg_1")
           round == RoundQuery(ScalarMult(nonce, G), ScalarMult(nonce, HashToEC(job.P[job.l])))
<1>1. PICK p \in Answers(hashes, qP), q \in Answers(hashes, qC) :
        \E answer \in Answers(Answered(Answered(hashes, qP, p), qC, q), round) :
           /\ muP' = p /\ muC' = q /\ c' = answer
           /\ hashes' = Answered(Answered(Answered(hashes, qP, p), qC, q), round, answer)
  BY DEF ClsagCommit
<1> DEFINE f == Answered(hashes, qP, p)
           g == Answered(f, qC, q)
<1>2. PICK answer \in Answers(g, round) :
           muP' = p /\ muC' = q /\ c' = answer /\ hashes' = Answered(g, round, answer)
  BY <1>1
<1>3. /\ stage = "commit" /\ stage' = "ring" /\ index' = NextIndex(job.l)
      /\ C1' = (IF IsFirst(index') THEN c' ELSE C1)
      /\ UNCHANGED <<job, nonce, D, S>>
  BY DEF ClsagCommit
<1>4. HashesOK(hashes) /\ sample \in SampleType
  BY DEF SignInv, Numbers, Given
<1>5. qP.domain \in Domains /\ qC.domain \in Domains /\ round.domain \in Domains
  BY DomainOf, DomainsAre DEF AggregateQuery, RoundQuery
<1>6. qP # qC
  BY DEF AggregateQuery, Query
<1>7. p \in Scalars \ {0} /\ HashesOK(f) /\ Known(f, qP, p) /\ Grows(hashes, f)
  <2> HIDE DEF qP
  <2> QED BY <1>4, <1>5, HashGrows
<1>8. q \in Answers(f, qC)
  <2> HIDE DEF qP, qC
  <2> QED BY <1>6 DEF Answers, Answered
<1> HIDE DEF qP, qC, round
<1>9. q \in Scalars \ {0} /\ HashesOK(g) /\ Known(g, qC, q) /\ Grows(f, g)
  <2> HIDE DEF f
  <2> QED BY <1>4, <1>5, <1>7, <1>8, HashGrows
<1> HIDE DEF f, g
<1>10. /\ answer \in Scalars \ {0} /\ HashesOK(hashes') /\ Known(hashes', round, answer)
       /\ Grows(g, hashes')
  BY <1>2, <1>4, <1>5, <1>9, HashGrows
<1>11. Grows(hashes, hashes') /\ Known(hashes', qP, p) /\ Known(hashes', qC, q)
  BY <1>7, <1>9, <1>10, GrowsOn, StaysKnown
<1>12. /\ UNCHANGED <<sample, tx, progress, inputScalars, pseudoOuts, message, clsags>>
       /\ Given' /\ Phases' /\ Balanced' /\ Kept'
       /\ \A j : ProveRctCLSAGSimple(j)' = ProveRctCLSAGSimple(j) /\ OpensInput(j)' = OpensInput(j)
  BY <1>10, <1>11, Frame
<1>13. /\ job = ProveRctCLSAGSimple(Len(clsags) + 1)
       /\ Members = 1 .. Len(job.P) /\ Len(job.P) \in Nat /\ job.l \in Members /\ DOMAIN S = Members
       /\ NextIndex(job.l) = Follower(job.l, Len(job.P)) /\ NextIndex(job.l) \in Members
  BY <1>3, RingIs
<1>14. Numbers'
  BY <1>2, <1>3, <1>7, <1>9, <1>10, <1>12 DEF SignInv, Numbers
<1>15. Called'
  BY <1>3, <1>12, <1>13, Zenon DEF Called
<1>16. Members' = Members /\ qP' = qP /\ qC' = qC /\ round' = round
  BY <1>3, Zenon DEF Members, qP, qC, round, AggregateQuery, RoundQuery, RingPoints, SigD
<1>17. Prepared'
  BY <1>3, <1>12, <1>16 DEF SignInv, Prepared
<1>18. Weighted'
  BY <1>2, <1>11, <1>16, Zenon DEF Weighted, qP, qC
<1>19. Walk'
  <2>0. PICK chal \in [Members -> Scalars] : chal = [k \in Members |-> answer]
    BY <1>10
  <2>1. index' \in Members
    BY <1>3, <1>13
  <2>2. chal[index'] = c' /\ chal[NextIndex(job.l)] = answer
    BY <1>2, <1>3, <1>13, <2>0
  <2>3. index' <= job.l => C1' = chal[1]
    <3>1. index' = Follower(job.l, Len(job.P))
      BY <1>3, <1>13
    <3>2. index' <= job.l => index' = 1 /\ 1 \in Members
      BY <1>13, <3>1 DEF Follower
    <3> QED BY <1>2, <1>3, <2>0, <3>2 DEF IsFirst
  <2>4. \A k \in Members : ~Visited(k)'
    <3>1. index' = Follower(job.l, Len(job.P))
      BY <1>3, <1>13
    <3> QED BY <1>3, <1>13, <3>1 DEF Follower, Visited
  <2>5. NextIndex(job.l)' = NextIndex(job.l)
    BY <1>3 DEF NextIndex
  <2>6. Known(hashes', round', chal[NextIndex(job.l)'])
    BY <1>10, <1>16, <2>2, <2>5
  <2>7. Linked(chal)'
    BY <1>3, <1>16, <2>2, <2>3, <2>4, <2>6, Zenon DEF Linked, round
  <2> QED BY <1>3, <1>16, <2>1, <2>7, Zenon DEF Walk
<1>20. Signed'
  BY <1>3 DEF Signed
<1> QED BY <1>12, <1>14, <1>15, <1>17, <1>18, <1>19, <1>20 DEF SignInv

LEMMA RoundIs ==
    \A k, s, x : RoundQuery(LeftOf(s, x, k), RightOf(s, x, k)) = RoundOf(k, s, x, muP, muC, D, job)
BY DEF RoundQuery, RingPoints, LeftOf, RightOf, RoundOf

LEMMA DecoyStep ==
    ASSUME SignInv, progress = "clsags", ClsagDecoy, UNCHANGED <<sample, bppVars, signingVars>>
    PROVE  SignInv'
<1>1. PICK random \in sample.randoms :
        \E answer \in Answers(hashes, RoundQuery(LeftOf(random[1], c, index), RightOf(random[1], c, index))) :
           /\ S' = [S EXCEPT ![index] = random[1]]
           /\ c' = answer
           /\ Hash(RoundQuery(LeftOf(random[1], c, index), RightOf(random[1], c, index)), answer)
  BY DEF ClsagDecoy
<1> DEFINE s == random[1]
           round == RoundOf(index, s, c, muP, muC, D, job)
           start == RoundQuery(ScalarMult(nonce, G), ScalarMult(nonce, HashToEC(job.P[job.l])))
<1>2. PICK answer : S' = [S EXCEPT ![index] = s] /\ c' = answer /\ Hash(round, answer)
  BY <1>1, RoundIs
<1>3. /\ stage = "ring" /\ index # job.l /\ index' = NextIndex(index)
      /\ C1' = (IF IsFirst(index') THEN c' ELSE C1)
      /\ UNCHANGED <<job, stage, nonce, D, muP, muC>>
  BY DEF ClsagDecoy
<1>4. HashesOK(hashes) /\ sample \in SampleType /\ round.domain \in Domains
  BY DomainOf, DomainsAre DEF SignInv, Numbers, Given, RoundOf
<1>5. s \in Scalars
  <2>1. random \in Seq(Scalars) /\ Len(random) >= 4
    BY DEF SignInv, Given, SampleType
  <2>2. 1 \in 1 .. Len(random)
    BY <2>1, LenProperties
  <2> QED BY <2>1, <2>2, ElementOfSeq
<1> HIDE DEF s, round, start
<1>6. /\ answer \in Scalars \ {0} /\ HashesOK(hashes') /\ Grows(hashes, hashes')
      /\ Known(hashes', round, answer)
  BY <1>2, <1>4, HashOK
<1>7. /\ UNCHANGED <<sample, tx, progress, inputScalars, pseudoOuts, message, clsags>>
      /\ Given' /\ Phases' /\ Balanced' /\ Kept'
      /\ \A j : ProveRctCLSAGSimple(j)' = ProveRctCLSAGSimple(j) /\ OpensInput(j)' = OpensInput(j)
  BY <1>6, Frame
<1> DEFINE n == Len(job.P)
<1>8. /\ job = ProveRctCLSAGSimple(Len(clsags) + 1)
      /\ Members = 1 .. n /\ n \in Nat /\ job.l \in Members /\ DOMAIN S = Members
      /\ \A k \in Members : NextIndex(k) = Follower(k, n) /\ NextIndex(k) \in Members
  BY <1>3, RingIs
<1>9. index \in Members /\ \E chal \in [Members -> Scalars] : Linked(chal)
  BY <1>3 DEF SignInv, Walk
<1> HIDE DEF n
<1>10. S' \in Seq(Scalars) /\ DOMAIN S' = Members
  <2>1. S \in Seq(Scalars) /\ n \in Nat
    BY <1>8 DEF SignInv, Numbers
  <2>2. \A k \in Members : S[k] \in Scalars
    BY <1>8, <2>1, ElementOfSeq
  <2>3. S' \in [Members -> Scalars]
    <3>1. S = [k \in DOMAIN S |-> S[k]]
      BY <2>1
    <3> QED BY <1>2, <1>5, <1>8, <2>2, <3>1
  <2> QED BY <1>8, <2>3, SeqDef
<1>11. Numbers'
  BY <1>2, <1>3, <1>6, <1>7, <1>10 DEF SignInv, Numbers
<1>12. Called'
  BY <1>3, <1>7, <1>8, Zenon DEF Called
<1>13. Members' = Members /\ start' = start
  BY <1>3, Zenon DEF Members, start, RoundQuery, RingPoints
<1>14. Prepared'
  BY <1>3, <1>7, <1>10, <1>13 DEF SignInv, Prepared
<1>15. Weighted'
  <2>1. \A domain : AggregateQuery(domain)' = AggregateQuery(domain)
    BY <1>3, Zenon DEF AggregateQuery, RingPoints, SigD
  <2> DEFINE qP == AggregateQuery("CLSAG_agg_0")
             qC == AggregateQuery("CLSAG_agg_1")
  <2>2. Known(hashes, qP, muP) /\ Known(hashes, qC, muC) /\ qP' = qP /\ qC' = qC
    BY <1>3, <2>1 DEF SignInv, Weighted
  <2> HIDE DEF qP, qC
  <2>3. Known(hashes', qP', muP') /\ Known(hashes', qC', muC')
    BY <1>3, <1>6, <2>2, StaysKnown
  <2> QED BY <2>3, Zenon DEF Weighted, qP, qC
<1>16. Walk'
  <2>1. PICK old \in [Members -> Scalars] : Linked(old)
    BY <1>9
  <2>2. PICK chal \in [Members -> Scalars] : chal = [old EXCEPT ![index'] = answer]
    BY <1>6
  <2>3. index' \in Members /\ index' = Follower(index, n) /\ \A k \in Members : NextIndex(k)' = NextIndex(k)
    BY <1>3, <1>8, <1>9 DEF NextIndex
  <2>4. chal[index'] = c' /\ \A k \in Members : k # index' => chal[k] = old[k]
    BY <1>2, <2>2, <2>3
  <2>5. \A k \in Members : k # index => NextIndex(k) # index'
    BY <1>8, <1>9, <2>3, SMTT(30) DEF Follower
  <2>6. index # index'
    BY <1>3, <1>8, <1>9, <2>3 DEF Follower
  <2>7. index' <= job.l => C1' = chal[1]
    <3>1. CASE index' = 1
      BY <1>3, <2>4, <3>1 DEF IsFirst
    <3>2. CASE index' # 1
      <4>1. index' <= job.l => index <= job.l /\ 1 \in Members
        BY <1>8, <1>9, <2>3, <3>2 DEF Follower
      <4>2. C1' = C1 /\ (index <= job.l => C1 = old[1])
        BY <1>3, <2>1, <3>2 DEF IsFirst, Linked
      <4> QED BY <2>4, <3>2, <4>1, <4>2
    <3> QED BY <3>1, <3>2
  <2>8. Known(hashes', start', chal[NextIndex(job.l)'])
    <3>1. Known(hashes, start, old[NextIndex(job.l)])
      BY <2>1 DEF Linked, start
    <3>2. Known(hashes', start, old[NextIndex(job.l)])
      BY <1>6, <3>1, StaysKnown
    <3>3. chal[NextIndex(job.l)] = old[NextIndex(job.l)] /\ NextIndex(job.l)' = NextIndex(job.l)
      BY <1>3, <1>8, <2>3, <2>4, <2>5 DEF NextIndex
    <3> QED BY <1>13, <3>2, <3>3
  <2>9. ASSUME NEW k \in Members, Visited(k)'
        PROVE  Known(hashes', RoundOf(k, S'[k], chal[k], muP', muC', D', job'), chal[NextIndex(k)'])
    <3>1. CASE k = index
      <4>1. S'[k] = s /\ chal[k] = c /\ chal[NextIndex(k)'] = answer
        <5>1. S'[index] = s
          BY <1>2, <1>8, <1>9
        <5>2. chal[index] = c
          BY <1>9, <2>1, <2>4, <2>6 DEF Linked
        <5>3. NextIndex(k)' = index' /\ c' = answer
          <6>1. NextIndex(k)' = NextIndex(k) /\ NextIndex(k) = Follower(k, n)
            BY <1>8, <2>3
          <6> QED BY <1>2, <2>3, <3>1, <6>1
        <5> QED BY <2>4, <3>1, <5>1, <5>2, <5>3
      <4> QED BY <1>3, <1>6, <3>1, <4>1 DEF round
    <3>2. CASE k # index
      <4>1. Visited(k) /\ k # index'
        <5>1. job' = job
          BY <1>3
        <5>2. IF index' > job.l THEN job.l < k /\ k < index' ELSE job.l < k \/ k < index'
          BY <2>9, <5>1, Zenon DEF Visited
        <5>3. /\ k \in 1 .. n /\ index \in 1 .. n /\ job.l \in 1 .. n /\ n \in Nat
              /\ index' = (IF index = n THEN 1 ELSE index + 1) /\ index # job.l /\ k # index
          BY <1>3, <1>8, <1>9, <2>3, <3>2 DEF Follower
        <5> QED BY <5>2, <5>3 DEF Visited
      <4>2. Known(hashes, RoundOf(k, S[k], old[k], muP, muC, D, job), old[NextIndex(k)])
        BY <2>1, <4>1 DEF Linked
      <4>3. S'[k] = S[k] /\ chal[k] = old[k] /\ chal[NextIndex(k)'] = old[NextIndex(k)]
        <5>1. S'[k] = S[k]
          BY <1>2, <1>8, <3>2
        <5>2. NextIndex(k)' = NextIndex(k) /\ NextIndex(k) \in Members /\ NextIndex(k) # index'
          BY <1>8, <2>3, <2>5, <3>2
        <5> QED BY <2>4, <4>1, <5>1, <5>2
      <4>4. Known(hashes', RoundOf(k, S[k], old[k], muP, muC, D, job), old[NextIndex(k)])
        BY <1>6, <4>2, StaysKnown
      <4> QED BY <1>3, <4>3, <4>4
    <3> QED BY <3>1, <3>2
  <2>10. Linked(chal)'
    BY <1>3, <1>13, <2>4, <2>7, <2>8, <2>9, Zenon DEF Linked, start
  <2> QED BY <1>3, <1>13, <2>3, <2>10, Zenon DEF Walk
<1>17. Signed'
  BY <1>3 DEF Signed
<1> QED BY <1>7, <1>11, <1>12, <1>14, <1>15, <1>16, <1>17 DEF SignInv

LEMMA QueriesAre ==
    \A claim, signature, domain :
        claim.P = job.P /\ claim.nonzero = job.nonzero /\ claim.image = job.image
        /\ claim.offset = job.offset /\ signature.D = SigD
            => WeightQuery(domain, claim, signature) = AggregateQuery(domain)
BY Zenon DEF WeightQuery, AggregateQuery, RingPoints

\* The verifier's query for a member is the signer's.
LEMMA SameQuery ==
    ASSUME NEW k, job.C[k] = SubKeys(job.nonzero[k], job.offset),
           NEW signature, D = ScalarMult(8, signature.D), NEW x
    PROVE  MemberQuery(k, x, muP, muC, job, signature) = RoundOf(k, signature.S[k], x, muP, muC, D, job)
BY Zenon DEF MemberQuery, RoundOf

LEMMA CloseStep ==
    ASSUME SignInv, progress = "clsags", ClsagClose, UNCHANGED <<sample, bppVars, signingVars>>
    PROVE  SignInv'
<1>1. /\ stage = "ring" /\ index = job.l /\ S' = [S EXCEPT ![index] = FinalScalar]
      /\ stage' = "signed" /\ nonce' = 0
      /\ UNCHANGED <<job, hashes, D, muP, muC, c, index, C1>>
  BY DEF ClsagClose
<1>2. HashesOK(hashes') /\ Grows(hashes, hashes')
  BY <1>1, GrowsOn DEF SignInv, Numbers
<1>3. /\ UNCHANGED <<sample, tx, progress, inputScalars, pseudoOuts, message, clsags>>
      /\ Given' /\ Phases' /\ Balanced' /\ Kept'
  BY <1>2, Frame
<1> DEFINE n == Len(job.P)
           i == Len(clsags) + 1
<1>4. /\ job = ProveRctCLSAGSimple(i) /\ i \in Inputs
      /\ Members = 1 .. n /\ n \in Nat /\ job.l \in Members /\ DOMAIN S = Members /\ DOMAIN job.P = Members
      /\ \A k \in Members : /\ NextIndex(k) = Follower(k, n) /\ NextIndex(k) \in Members
                            /\ job.C[k] = SubKeys(job.nonzero[k], job.offset)
      /\ D = ScalarMult(8, SigD)
  BY <1>1, RingIs
<1> HIDE DEF n
<1>5. {nonce, muP, muC, c} \subseteq Scalars /\ C1 \in Scalars /\ SigD \in Points
  BY EightEighths DEF SignInv, Numbers, SigD
<1>6. job.p \in Scalars /\ job.z \in Scalars
  <2>1. Given /\ inputScalars[i] \in Scalars /\ tx.inputs[i].mask \in Scalars
    BY <1>3, <1>4, InputIs DEF SignInv, Balanced
  <2>2. job.z = ScSub(tx.inputs[i].mask, inputScalars[i])
    BY <1>4, Zenon DEF ProveRctCLSAGSimple
  <2>3. job.p \in Scalars
    BY <1>4, <2>1, CallIs
  <2> QED BY <2>1, <2>2, <2>3, ScalarOps, QIs
<1>7. FinalScalar \in Scalars
  <2>1. nonce \in Int /\ ScMul(c, muP) \in Int /\ job.p \in Int /\ ScMul(c, muC) \in Int /\ job.z \in Int
    <3>1. c \in Int /\ muP \in Int /\ muC \in Int
      BY <1>5, QIs
    <3> QED BY <1>5, <1>6, <3>1, ScalarOps, QIs
  <2> QED BY <2>1, ResponseOf DEF FinalScalar
<1>8. S' \in Seq(Scalars) /\ DOMAIN S' = Members
  <2>1. S \in Seq(Scalars)
    BY DEF SignInv, Numbers
  <2>2. \A k \in Members : S[k] \in Scalars
    BY <1>4, <2>1, ElementOfSeq
  <2>3. S = [k \in DOMAIN S |-> S[k]]
    BY <2>1
  <2>4. S' \in [Members -> Scalars]
    BY <1>1, <1>4, <1>7, <2>2, <2>3
  <2> QED BY <1>4, <2>4, SeqDef
<1>9. Numbers'
  BY <1>1, <1>2, <1>3, <1>8, QIs DEF SignInv, Numbers
<1>10. ProveRctCLSAGSimple(i)' = ProveRctCLSAGSimple(i) /\ OpensInput(i)' = OpensInput(i) /\ Members' = Members
  BY <1>1, <1>3, Zenon DEF ProveRctCLSAGSimple, OpensInput, DestOf, MaskOf, Image, Members
<1>11. Called'
  BY <1>1, <1>4, <1>10, Zenon DEF Called
<1>12. Prepared'
  BY <1>1, <1>3, <1>8, <1>10 DEF SignInv, Prepared
<1>13. Weighted'
  <2>1. \A domain : AggregateQuery(domain)' = AggregateQuery(domain)
    BY <1>1, Zenon DEF AggregateQuery, RingPoints, SigD
  <2> QED BY <1>1, <1>3, <2>1 DEF SignInv, Weighted
<1>14. ASSUME OpensInput(i)
       PROVE  Closes(hashes, job, Signature')
  <2>1. PICK chal \in [Members -> Scalars] : Linked(chal)
    BY <1>1 DEF SignInv, Walk
  <2> DEFINE sig == Signature'
  <2>2. sig.S = S' /\ sig.C1 = C1 /\ sig.D = SigD
    BY <1>1 DEF Signature, SigD
  <2> HIDE DEF sig
  <2>3. sig.C1 = chal[1]
    <3>1. index <= job.l
      BY <1>1, <1>4
    <3> QED BY <2>1, <2>2, <3>1 DEF Linked
  <2>4. /\ Known(hashes, WeightQuery("CLSAG_agg_0", job, sig), muP)
        /\ Known(hashes, WeightQuery("CLSAG_agg_1", job, sig), muC)
    <3>1. /\ Known(hashes, AggregateQuery("CLSAG_agg_0"), muP)
          /\ Known(hashes, AggregateQuery("CLSAG_agg_1"), muC)
      BY <1>1 DEF SignInv, Weighted
    <3>2. \A domain : WeightQuery(domain, job, sig) = AggregateQuery(domain)
      BY <2>2, QueriesAre
    <3> QED BY <3>1, <3>2
  <2>5. ASSUME NEW k \in Members
        PROVE  Known(hashes, MemberQuery(k, chal[k], muP, muC, job, sig), chal[Follower(k, n)])
    <3>1. MemberQuery(k, chal[k], muP, muC, job, sig) = RoundOf(k, sig.S[k], chal[k], muP, muC, D, job)
      BY <1>4, <2>2, SameQuery, ZenonT(30)
    <3>2. CASE k = job.l
      <4>1. S'[k] = FinalScalar /\ chal[k] = c
        BY <1>1, <1>4, <2>1, <3>2 DEF Linked
      <4>2. /\ job.P[job.l] = PubKey(job.p) /\ job.C[job.l] = ScalarMult(job.z, G)
            /\ job.image = ScalarMult(job.p, HashToEC(job.P[job.l]))
        <5>1. Given /\ Balanced
          BY DEF SignInv
        <5>2. /\ inputScalars[i] \in Scalars /\ inputScalars \in [Inputs -> Scalars]
              /\ pseudoOuts[i] = CalcCommitment(tx.inputs[i].amount % Q, inputScalars[i])
          BY <1>4, <5>1 DEF Balanced
        <5>3. job.l = tx.inputs[i].l /\ DOMAIN tx.inputs[i].ring = Members
          BY <1>4 DEF ProveRctCLSAGSimple, DestOf
        <5>4. tx.inputs[i].l \in DOMAIN tx.inputs[i].ring
          BY <1>4, <5>3
        <5> QED BY <1>4, <1>14, <5>1, <5>2, <5>4, OpensWhat
      <4>3. D = ScalarMult(job.z, HashToEC(job.P[job.l]))
        BY <1>1 DEF SignInv, Prepared
      <4>4. {nonce, muP, muC, c, job.p, job.z} \subseteq Scalars
        BY <1>5, <1>6
      <4>5. /\ LeftOf(FinalScalar, c, job.l) = ScalarMult(nonce, G)
            /\ RightOf(FinalScalar, c, job.l) = ScalarMult(nonce, HashToEC(job.P[job.l]))
        BY <4>2, <4>3, <4>4, SignerCloses, Zenon
      <4>6. RoundOf(k, FinalScalar, c, muP, muC, D, job)
              = RoundQuery(ScalarMult(nonce, G), ScalarMult(nonce, HashToEC(job.P[job.l])))
        BY <3>2, <4>5, RoundIs, Zenon
      <4>7. Known(hashes, RoundQuery(ScalarMult(nonce, G), ScalarMult(nonce, HashToEC(job.P[job.l]))),
                  chal[NextIndex(job.l)])
        BY <2>1, Zenon DEF Linked
      <4> QED BY <1>4, <2>2, <3>1, <3>2, <4>1, <4>6, <4>7
    <3>3. CASE k # job.l
      <4>1. Visited(k) /\ S'[k] = S[k]
        BY <1>1, <1>4, <3>3 DEF Visited
      <4>2. Known(hashes, RoundOf(k, S[k], chal[k], muP, muC, D, job), chal[NextIndex(k)])
        BY <2>1, <4>1, Zenon DEF Linked
      <4> QED BY <1>4, <2>2, <3>1, <4>1, <4>2
    <3> QED BY <3>2, <3>3
  <2>6. ClosesWith(hashes, muP, muC, chal, job, sig)
    <3>1. 1 \in Members
      BY <1>4
    <3> QED BY <1>4, <2>3, <2>4, <2>5, <3>1, Zenon DEF ClosesWith, n
  <2>7. muP \in Scalars /\ muC \in Scalars /\ chal \in [DOMAIN job.P -> Scalars]
    BY <1>4, <1>5
  <2> QED BY <2>6, <2>7 DEF Closes, sig
<1>15. Signed'
  BY <1>1, <1>3, <1>10, <1>14, Zenon DEF Signed
<1>16. Walk'
  BY <1>1 DEF Walk
<1> QED BY <1>3, <1>9, <1>11, <1>12, <1>13, <1>15, <1>16 DEF SignInv

LEMMA KeepStep ==
    ASSUME SignInv, KeepSignature
    PROVE  SignInv'
<1> DEFINE i == Len(clsags) + 1
<1>1. /\ progress = "clsags" /\ stage = "signed"
      /\ clsags' = Append(clsags, Signature) /\ stage' = "idle"
      /\ progress' = (IF Len(clsags') = Len(tx.inputs) THEN "done" ELSE progress)
      /\ UNCHANGED <<sample, hashes, bppVars, job, nonce, D, muP, muC, c, index, S, C1,
                     tx, inputScalars, pseudoOuts, message>>
  BY DEF KeepSignature
<1>2. /\ UNCHANGED <<amounts, masks, bppStage>>
      /\ UNCHANGED <<A, A1, B, r1, s1, d1, L, R>>
  BY <1>1, Zenon DEF bppVars, proofVars
<1>3. clsags \in Seq(SignatureType) /\ Signature \in SignatureType
  BY EightEighths DEF SignInv, Numbers, SignatureType, Signature, SigD
<1>4. /\ clsags' \in Seq(SignatureType) /\ Len(clsags') = i /\ DOMAIN clsags' = 1 .. i
      /\ clsags'[i] = Signature /\ \A j \in 1 .. Len(clsags) : clsags'[j] = clsags[j]
  BY <1>1, <1>3, AppendProperties, LenProperties
<1>5. Len(clsags) \in Nat /\ i \in Inputs /\ Len(tx.inputs) \in Nat /\ Inputs = 1 .. Len(tx.inputs)
      /\ DOMAIN clsags = 1 .. Len(clsags)
  BY <1>1, NextInput, InputsAre DEF SignInv
<1>6. progress' \in {"clsags", "done"}
  BY <1>1
<1>7. Given'
  BY <1>1, <1>2 DEF SignInv, Given
<1>8. Numbers'
  BY <1>1, <1>4 DEF SignInv, Numbers
<1>9. Phases'
  <2>1. progress' = "clsags" => Len(clsags') < Len(tx.inputs)
    BY <1>1, <1>4, <1>5
  <2>2. progress' = "done" => Len(clsags') = Len(tx.inputs)
    BY <1>1
  <2> QED BY <1>1, <1>2, <1>6, <2>1, <2>2 DEF SignInv, Phases
<1>10. Balanced'
  <2>1. /\ Proof' = Proof /\ OutPk' = OutPk /\ Inputs' = Inputs
        /\ [j \in Inputs |-> Image(j)]' = [j \in Inputs |-> Image(j)]
    BY <1>1, <1>2, Zenon DEF Proof, OutPk, Inputs, Image
  <2>2. /\ inputScalars \in [Inputs -> Scalars]
        /\ ScSum(inputScalars) = ScSum(tx.masks)
        /\ pseudoOuts = [j \in Inputs |-> CalcCommitment(tx.inputs[j].amount % Q, inputScalars[j])]
        /\ Known(hashes, MessageQuery([j \in Inputs |-> Image(j)], OutPk, Proof), message)
    BY <1>1 DEF SignInv, Balanced
  <2> QED BY <1>1, <2>1, <2>2, Zenon DEF Balanced
<1>11. Kept'
  <2>1. \A j : ProveRctCLSAGSimple(j)' = ProveRctCLSAGSimple(j) /\ OpensInput(j)' = OpensInput(j)
    BY <1>1, ZenonT(30) DEF ProveRctCLSAGSimple, OpensInput, DestOf, MaskOf, Image
  <2>2. ASSUME NEW j \in 1 .. i, OpensInput(j)
        PROVE  Closes(hashes, ProveRctCLSAGSimple(j), clsags'[j])
    <3>1. CASE j = i
      <4>1. Closes(hashes, job, Signature) /\ job = ProveRctCLSAGSimple(i)
        BY <1>1, <2>2, <3>1 DEF SignInv, Signed, Called
      <4> QED BY <1>4, <3>1, <4>1
    <3>2. CASE j # i
      <4>1. j \in 1 .. Len(clsags)
        BY <1>5, <3>2
      <4> QED BY <1>1, <1>4, <1>5, <2>2, <4>1 DEF SignInv, Kept
    <3> QED BY <3>1, <3>2
  <2> QED BY <1>1, <1>4, <2>1, <2>2, Zenon DEF Kept
<1>12. Called' /\ Prepared' /\ Weighted' /\ Walk' /\ Signed'
  BY <1>1 DEF Called, Prepared, Weighted, Walk, Signed
<1> QED BY <1>7, <1>8, <1>9, <1>10, <1>11, <1>12 DEF SignInv

LEMMA StepSign == SignInv /\ [Next]_vars => SignInv'
<1> SUFFICES ASSUME SignInv, [Next]_vars PROVE SignInv'
  OBVIOUS
<1>1. CASE SignBpp
  BY <1>1, SignBppStep
<1>2. CASE SignFails
  BY <1>2, SignFailsStep
<1>3. CASE CalculatePseudoOuts
  BY <1>3, PseudoOutsStep
<1>4. CASE SignInput
  BY <1>4, SignInputStep
<1>5. CASE SignMember
  <2>1. progress = "clsags" /\ ClsagNext /\ UNCHANGED <<sample, bppVars, signingVars>>
    BY <1>5 DEF SignMember
  <2> QED BY <2>1, CommitStep, DecoyStep, CloseStep DEF ClsagNext
<1>6. CASE KeepSignature
  BY <1>6, KeepStep
<1>7. CASE UNCHANGED vars
  <2>1. /\ UNCHANGED <<sample, hashes, amounts, masks, bppStage>>
        /\ UNCHANGED <<job, stage, nonce, D, muP, muC, c, index, S, C1>>
        /\ UNCHANGED <<tx, progress, inputScalars, pseudoOuts, message, clsags>>
        /\ UNCHANGED <<A, A1, B, r1, s1, d1, L, R>>
    BY <1>7, Zenon DEF vars, bppVars, proofVars, clsagVars, signingVars
  <2>2. Given' /\ Numbers' /\ Phases'
    BY <2>1 DEF SignInv, Given, Numbers, Phases
  <2>3. Balanced'
    <3>1. Balanced
      BY DEF SignInv
    <3> QED BY <2>1, <3>1, Zenon DEF Balanced, Proof, OutPk, Inputs, Image
  <2>4. Called' /\ Kept' /\ Signed'
    <3>1. Called /\ Kept /\ Signed
      BY DEF SignInv
    <3> QED BY <2>1, <3>1, ZenonT(30) DEF Called, Kept, Signed, Signature, SigD,
                    ProveRctCLSAGSimple, OpensInput, DestOf, MaskOf, Image
  <2>5. Prepared' /\ Weighted' /\ Walk'
    <3>1. Prepared /\ Weighted /\ Walk
      BY DEF SignInv
    <3> QED BY <2>1, <3>1, Zenon DEF Prepared, Weighted, Walk, Linked, Visited, Members,
                    NextIndex, AggregateQuery, RoundQuery, RingPoints, SigD
  <2> QED BY <2>2, <2>3, <2>4, <2>5 DEF SignInv
<1> QED BY <1>1, <1>2, <1>3, <1>4, <1>5, <1>6, <1>7 DEF Next

LEMMA Signing == Spec => []SignInv
BY InitSign, StepSign, PTL DEF Spec

-----------------------------------------------------------------------------
(* The ring closes for whoever can open the member that is spent: the complete  *)
(* half of RingCloses.                                                          *)

LEMMA InvOpened == SignInv => OpenedVerifies
<1> SUFFICES ASSUME SignInv, NEW i \in DOMAIN clsags, OpensInput(i) PROVE InputVerifies(i)
  BY DEF OpenedVerifies
<1>1. progress \in {"clsags", "done"}
  BY DEF SignInv, Phases
<1>2. Closes(hashes, ProveRctCLSAGSimple(i), clsags[i])
  BY <1>1 DEF SignInv, Kept
<1>3. i \in Inputs
  <2>1. Len(clsags) <= Len(tx.inputs) /\ Len(clsags) \in Nat /\ DOMAIN clsags = 1 .. Len(clsags)
    <3>1. clsags \in Seq(SignatureType) /\ Len(tx.inputs) \in Nat
      BY InputsAre DEF SignInv, Numbers
    <3> QED BY <1>1, <3>1, LenProperties DEF SignInv, Phases
  <2>2. Inputs = 1 .. Len(tx.inputs) /\ Len(tx.inputs) \in Nat
    BY InputsAre DEF SignInv
  <2> QED BY <2>1, <2>2
<1> DEFINE call == ProveRctCLSAGSimple(i)
<1>4. Len(call.P) \in Nat /\ DOMAIN call.P = 1 .. Len(call.P)
  BY <1>3, CallIs DEF SignInv
<1>5. Len(call.P) # 0
  <2>1. PICK mP \in Scalars, mC \in Scalars, chal \in [DOMAIN call.P -> Scalars] :
          ClosesWith(hashes, mP, mC, chal, call, clsags[i])
    BY <1>2 DEF Closes
  <2>2. 1 \in DOMAIN call.P
    BY <2>1 DEF ClosesWith
  <2> HIDE DEF call
  <2> QED BY <1>4, <2>2
<1> HIDE DEF call
<1>6. ClsagVerifies(call, clsags[i])
  BY <1>2, <1>4, <1>5, ClosesVerifies DEF call
<1> QED BY <1>6 DEF InputVerifies, call

\* Wherever the signer sits in the ring and however the draws and the hashes fall,
\* the verifier accepts the signature of every input whose spent member the signer
\* can open.
THEOREM RingsClose == Spec => []OpenedVerifies
BY Signing, InvOpened, PTL

-----------------------------------------------------------------------------
(* The sum of the pseudo outputs is that of the outputs and the fee.            *)

LEMMA SumOfCommitments ==
    ASSUME NEW n \in Nat, NEW f \in [1 .. n -> Int], NEW g \in [1 .. n -> Int],
           NEW ps \in [1 .. n -> Points],
           \A i \in 1 .. n : \A b \in Bases : Cong(ps[i][b], f[i] * G[b] + g[i] * H[b])
    PROVE  /\ SumFunction(f) \in Int /\ SumFunction(g) \in Int
           /\ SumPoints(ps) \in Points
           /\ \A b \in Bases : Cong(SumPoints(ps)[b], SumFunction(f) * G[b] + SumFunction(g) * H[b])
<1>1. SumFunction(f) \in Int /\ SumFunction(g) \in Int
  BY SumOfSeq
<1> DEFINE u == SumFunction(f)
           v == SumFunction(g)
           coordinate(b) == [i \in DOMAIN ps |-> ps[i][b]]
<1>2. ASSUME NEW b \in Bases
      PROVE  ScSum(coordinate(b)) \in Scalars /\ Cong(ScSum(coordinate(b)), u * G[b] + v * H[b])
  <2> DEFINE h == coordinate(b)
             e == G[b]
             d == H[b]
  <2>1. e \in Int /\ d \in Int /\ \A i \in 1 .. n : ps[i][b] \in Int
    BY CoordinateIsInt, PointsAre
  <2>2. h \in [1 .. n -> Int] /\ \A i \in 1 .. n : Cong(h[i], f[i] * e + g[i] * d)
    BY <2>1
  <2> HIDE DEF h, e, d
  <2>3. \A i \in 1 .. n : e * f[i] + d * g[i] = f[i] * e + g[i] * d
    BY <2>1
  <2>4. \A i \in 1 .. n : Same(e * f[i] + d * g[i], h[i], Q)
    BY <2>2, <2>3, CongEquiv DEF Cong
  <2>5. Same(e * SumFunction(f) + d * SumFunction(g), SumFunction(h), Q)
    BY <2>1, <2>2, <2>4, QIs, SumLinear
  <2>6. ScSum(h) \in Scalars /\ Cong(ScSum(h), SumFunction(h))
    BY <2>2, SumOfSeq
  <2>7. Cong(SumFunction(h), e * u + d * v)
    BY <2>5, CongEquiv DEF Cong
  <2>8. e * u + d * v = u * e + v * d
    BY <1>1, <2>1
  <2>9. Cong(ScSum(h), u * e + v * d)
    BY <2>6, <2>7, <2>8, CongEquiv
  <2> QED BY <2>6, <2>9 DEF h, e, d
<1>3. SumPoints(ps) = [b \in Bases |-> ScSum(coordinate(b))]
  BY DEF SumPoints
<1> HIDE DEF coordinate, u, v
<1>4. SumPoints(ps) \in Points /\ \A b \in Bases : Cong(SumPoints(ps)[b], u * G[b] + v * H[b])
  BY <1>2, <1>3 DEF Points
<1> QED BY <1>1, <1>4 DEF u, v

\* A commitment to what is left of an amount is one to the amount.
LEMMA CommitmentTo ==
    ASSUME NEW amount \in Int, NEW mask \in Int
    PROVE  /\ CalcCommitment(amount % Q, mask) \in Points
           /\ \A b \in Bases : Cong(CalcCommitment(amount % Q, mask)[b], mask * G[b] + amount * H[b])
<1> DEFINE a == amount % Q
           p == CalcCommitment(a, mask)
<1>1. a \in Int /\ Cong(a, amount)
  BY Reduced
<1> HIDE DEF a
<1>2. p \in Points /\ \A b \in Bases : Cong(p[b], mask * G[b] + a * H[b])
  BY <1>1, CommitmentIs
<1> HIDE DEF p
<1>3. ASSUME NEW b \in Bases PROVE Cong(p[b], mask * G[b] + amount * H[b])
  <2> DEFINE e == mask * G[b]
             d == H[b]
  <2>1. G[b] \in Int /\ d \in Int /\ e \in Int
    BY CoordinateIsInt, PointsAre
  <2>2. Cong(p[b], e + a * d)
    BY <1>2
  <2> HIDE DEF e, d
  <2>3. Cong(a * d, amount * d) /\ Cong(e, e) /\ a * d \in Int /\ amount * d \in Int
    <3>1. Cong(a * d, amount * d)
      BY <1>1, <2>1, CongTimes, Zenon
    <3> QED BY <1>1, <2>1, <3>1, CongEquiv
  <2>4. Cong(e + a * d, e + amount * d)
    BY <2>1, <2>3, CongOps, Zenon
  <2> QED BY <2>2, <2>4, CongEquiv DEF e, d
<1> QED BY <1>2, <1>3 DEF p, a

\* In one coordinate: masks X and Y with equal sums, amounts P and R, and the fee.
LEMMA FeeBalances ==
    ASSUME NEW X \in Int, NEW Y \in Int, NEW P \in Int, NEW W \in Int, NEW fee \in Int,
           NEW e \in Int, NEW d \in Int, Cong(X, Y), Cong(fee, P - W)
    PROVE  Cong(X * e + P * d, (Y * e + W * d) + fee * d)
<1>1. Cong(X * e, Y * e)
  BY CongTimes, Zenon
<1>2. P - W \in Int
  OBVIOUS
<1>3. Cong(fee * d, (P - W) * d)
  BY <1>2, CongTimes, Zenon
<1>4. X * e \in Int /\ Y * e \in Int /\ W * d \in Int /\ P * d \in Int /\ fee * d \in Int /\ (P - W) * d \in Int
      /\ W * d + fee * d \in Int /\ W * d + (P - W) * d = P * d
      /\ Y * e + (W * d + fee * d) = (Y * e + W * d) + fee * d
  <2> DEFINE w == W * d
             p == P * d
             y0 == Y * e
             f == fee * d
  <2>1. (P - W) * d = p - w /\ w \in Int /\ p \in Int /\ y0 \in Int /\ f \in Int /\ X * e \in Int
    OBVIOUS
  <2> HIDE DEF w, p, y0, f
  <2>2. w + (p - w) = p /\ w + f \in Int /\ p - w \in Int /\ y0 + (w + f) = (y0 + w) + f
    BY <2>1
  <2> QED BY <2>1, <2>2 DEF w, p, y0, f
<1>5. Cong(W * d, W * d)
  BY CongEquiv
<1>6. Cong(W * d + fee * d, W * d + (P - W) * d)
  BY <1>3, <1>4, <1>5, CongOps, Zenon
<1>7. Cong(P * d, W * d + fee * d)
  BY <1>4, <1>6, CongEquiv
<1>8. Cong(X * e + P * d, Y * e + (W * d + fee * d))
  BY <1>1, <1>4, <1>7, CongOps, Zenon
<1> QED BY <1>4, <1>8

LEMMA InvBalances ==
    ASSUME SignInv, progress = "done"
    PROVE  LET fee == ScSub(ScSum([i \in Inputs |-> tx.inputs[i].amount]), ScSum(tx.amounts))
           IN  SumPoints(pseudoOuts) = AddPoints(SumPoints(OutPk), ScalarMult(fee, H))
<1> DEFINE n == Len(tx.inputs)
           m == Len(tx.masks)
           paid == [i \in Inputs |-> tx.inputs[i].amount]
           X == SumFunction(inputScalars)
           Y == SumFunction(tx.masks)
           P == SumFunction(paid)
           W == SumFunction(tx.amounts)
           fee == ScSub(ScSum(paid), ScSum(tx.amounts))
           left == SumPoints(pseudoOuts)
           right == SumPoints(OutPk)
<1>1. Given /\ Balanced
  BY DEF SignInv
<1>2. n \in Nat /\ Inputs = 1 .. n
  BY <1>1, InputsAre
<1>3. /\ m \in Nat /\ tx.masks \in [1 .. m -> Int] /\ tx.amounts \in [1 .. m -> Int]
      /\ DOMAIN tx.masks = 1 .. m /\ DOMAIN tx.amounts = 1 .. m
  <2>1. tx.masks \in Seq(Scalars) /\ tx.amounts \in Seq(Nat)
    <3>1. 0 .. TwoTo[N] - 1 \subseteq Nat
      OBVIOUS
    <3> QED BY <1>1, <3>1, SeqMonotonic DEF Given
  <2>2. Len(tx.amounts) = m
    BY DEF SignInv, Phases
  <2>3. m \in Nat /\ tx.masks \in [1 .. m -> Scalars] /\ tx.amounts \in [1 .. m -> Nat]
    BY <2>1, <2>2, LenProperties
  <2>4. tx.masks \in [1 .. m -> Int]
    BY <2>3, QIs
  <2>5. tx.amounts \in [1 .. m -> Int]
    <3> DEFINE f == tx.amounts
    <3>1. f \in [1 .. m -> Nat]
      BY <2>3
    <3> HIDE DEF f
    <3>2. f \in [1 .. m -> Int]
      BY <3>1
    <3> QED BY <3>2 DEF f
  <2>6. DOMAIN tx.masks = 1 .. m /\ DOMAIN tx.amounts = 1 .. m
    BY <2>3
  <2> QED BY <2>3, <2>4, <2>5, <2>6
<1>4. /\ inputScalars \in [1 .. n -> Scalars] /\ inputScalars \in [1 .. n -> Int]
      /\ ScSum(inputScalars) = ScSum(tx.masks)
      /\ pseudoOuts = [i \in 1 .. n |-> CalcCommitment(tx.inputs[i].amount % Q, inputScalars[i])]
  <2>1. inputScalars \in [1 .. n -> Scalars]
    BY <1>1, <1>2 DEF Balanced
  <2> QED BY <1>1, <1>2, <2>1, QIs DEF Balanced
<1>5. paid \in [1 .. n -> Int] /\ \A i \in 1 .. n : paid[i] = tx.inputs[i].amount
  BY <1>1, <1>2, InputIs
<1> HIDE DEF paid, n, m
<1>6. /\ X \in Int /\ P \in Int /\ left \in Points
      /\ \A b \in Bases : Cong(left[b], X * G[b] + P * H[b])
  <2>1. ASSUME NEW i \in 1 .. n
        PROVE  /\ pseudoOuts[i] \in Points
               /\ \A b \in Bases : Cong(pseudoOuts[i][b], inputScalars[i] * G[b] + paid[i] * H[b])
    BY <1>4, <1>5, CommitmentTo
  <2>2. pseudoOuts \in [1 .. n -> Points]
    BY <1>4, <2>1
  <2> QED BY <1>2, <1>4, <1>5, <2>1, <2>2, SumOfCommitments
<1>7. /\ Y \in Int /\ W \in Int /\ right \in Points
      /\ \A b \in Bases : Cong(right[b], Y * G[b] + W * H[b])
  <2>1. OutPk = [j \in 1 .. m |-> CalcCommitment(tx.amounts[j] % Q, tx.masks[j])]
    BY <1>3 DEF OutPk
  <2>2. ASSUME NEW j \in 1 .. m
        PROVE  /\ OutPk[j] \in Points
               /\ \A b \in Bases : Cong(OutPk[j][b], tx.masks[j] * G[b] + tx.amounts[j] * H[b])
    BY <1>3, <2>1, CommitmentTo
  <2>3. OutPk \in [1 .. m -> Points]
    BY <2>1, <2>2
  <2> DEFINE f == tx.masks
             g == tx.amounts
             ps == OutPk
  <2>4. /\ f \in [1 .. m -> Int] /\ g \in [1 .. m -> Int] /\ ps \in [1 .. m -> Points]
        /\ \A j \in 1 .. m : \A b \in Bases : Cong(ps[j][b], f[j] * G[b] + g[j] * H[b])
    BY <1>3, <2>2, <2>3
  <2> HIDE DEF f, g, ps
  <2>5. /\ SumFunction(f) \in Int /\ SumFunction(g) \in Int /\ SumPoints(ps) \in Points
        /\ \A b \in Bases : Cong(SumPoints(ps)[b], SumFunction(f) * G[b] + SumFunction(g) * H[b])
    BY <1>3, <2>4, SumOfCommitments
  <2> QED BY <2>5 DEF f, g, ps
<1>8. Cong(X, Y)
  <2>1. Cong(ScSum(inputScalars), X) /\ Cong(ScSum(tx.masks), Y)
    BY <1>6, <1>7, Reduced DEF ScSum
  <2>2. Cong(X, ScSum(inputScalars))
    BY <2>1, CongEquiv
  <2> QED BY <1>4, <2>1, <2>2, CongEquiv
<1>9. fee \in Int /\ Cong(fee, P - W)
  <2> DEFINE p == ScSum(paid)
             w == ScSum(tx.amounts)
  <2>1. p \in Int /\ w \in Int /\ Cong(p, P) /\ Cong(w, W)
    BY <1>6, <1>7, Reduced DEF ScSum
  <2> HIDE DEF p, w
  <2>2. ScSub(p, w) \in Scalars /\ Cong(ScSub(p, w), p - w)
    BY <2>1, ScalarOps
  <2>3. Cong(p - w, P - W)
    <3> HIDE DEF P, W
    <3> QED BY <1>6, <1>7, <2>1, CongOps
  <2>4. Cong(ScSub(p, w), P - W) /\ ScSub(p, w) \in Int
    BY <2>2, <2>3, CongEquiv, QIs
  <2> QED BY <2>4 DEF p, w
<1> HIDE DEF X, Y, P, W, fee, left, right
<1> DEFINE extra == ScalarMult(fee, H)
           sum == AddPoints(right, extra)
<1>10. extra \in Points /\ \A b \in Bases : Cong(extra[b], fee * H[b])
  BY <1>9, PointOps, PointsAre
<1> HIDE DEF extra
<1>11. sum \in Points /\ \A b \in Bases : Cong(sum[b], right[b] + extra[b])
  BY <1>7, <1>10, PointOps, 0 \in Int
<1> HIDE DEF sum
<1>12. ASSUME NEW b \in Bases PROVE Cong(left[b], sum[b])
  <2> DEFINE e == G[b]
             d == H[b]
             r == right[b]
             x == extra[b]
  <2>1. e \in Int /\ d \in Int /\ r \in Int /\ x \in Int
    BY <1>7, <1>10, CoordinateIsInt, PointsAre
  <2>2. /\ Cong(left[b], X * e + P * d) /\ Cong(r, Y * e + W * d) /\ Cong(x, fee * d)
        /\ Cong(sum[b], r + x)
    BY <1>6, <1>7, <1>10, <1>11
  <2> HIDE DEF e, d, r, x
  <2>3. Cong(X * e + P * d, (Y * e + W * d) + fee * d)
    BY <1>6, <1>7, <1>8, <1>9, <2>1, FeeBalances
  <2>4. Y * e + W * d \in Int /\ fee * d \in Int
    BY <1>7, <1>9, <2>1
  <2>5. Cong(r + x, (Y * e + W * d) + fee * d)
    BY <2>1, <2>2, <2>4, CongOps, Zenon
  <2>6. Cong((Y * e + W * d) + fee * d, r + x) /\ Cong(r + x, sum[b])
    BY <2>2, <2>5, CongEquiv
  <2> QED BY <2>2, <2>3, <2>6, CongEquiv
<1>13. left = sum
  BY <1>6, <1>11, <1>12, PointEq
<1> QED BY <1>13 DEF left, right, sum, extra, fee, paid

LEMMA InvSigned == SignInv => SignedVerifies
<1> SUFFICES ASSUME SignInv, progress = "done"
             PROVE  /\ Len(clsags) = Len(tx.inputs)
                    /\ LET fee == ScSub(ScSum([i \in Inputs |-> tx.inputs[i].amount]), ScSum(tx.amounts))
                       IN  SumPoints(pseudoOuts) = AddPoints(SumPoints(OutPk), ScalarMult(fee, H))
                    /\ Lookup(MessageQuery([i \in Inputs |-> Image(i)], OutPk, Proof)) = message
                    /\ (\A i \in Inputs : OpensInput(i)) => \A i \in Inputs : InputVerifies(i)
  BY DEF SignedVerifies
<1>1. Len(clsags) = Len(tx.inputs)
  BY DEF SignInv, Phases
<1>2. LET fee == ScSub(ScSum([i \in Inputs |-> tx.inputs[i].amount]), ScSum(tx.amounts))
      IN  SumPoints(pseudoOuts) = AddPoints(SumPoints(OutPk), ScalarMult(fee, H))
  BY InvBalances
<1>3. Lookup(MessageQuery([i \in Inputs |-> Image(i)], OutPk, Proof)) = message
  <2> DEFINE query == MessageQuery([i \in Inputs |-> Image(i)], OutPk, Proof)
  <2>1. Known(hashes, query, message)
    BY DEF SignInv, Balanced
  <2> HIDE DEF query
  <2>2. Lookup(query) = message
    BY <2>1 DEF Known, Lookup
  <2> QED BY <2>2 DEF query
<1>4. (\A i \in Inputs : OpensInput(i)) => \A i \in Inputs : InputVerifies(i)
  <2>1. DOMAIN clsags = 1 .. Len(clsags)
    BY LenProperties DEF SignInv, Numbers
  <2>2. Inputs = 1 .. Len(tx.inputs)
    BY InputsAre DEF SignInv
  <2>3. OpenedVerifies
    BY InvOpened
  <2> QED BY <1>1, <2>1, <2>2, <2>3, Zenon DEF OpenedVerifies
<1> QED BY <1>1, <1>2, <1>3, <1>4, Zenon

\* A transaction that is signed balances: its pseudo outputs are its outputs and the
\* fee, its message is that of the proof that is sent, and every ring closes.
THEOREM SignedBalances == Spec => []SignedVerifies
BY Signing, InvSigned, PTL

-----------------------------------------------------------------------------
(* What the outputs commit to, in the first round.                              *)

Committed(x) ==
    /\ OutPk = [j \in 1 .. Len(masks) |-> OutPk[j]]
    /\ \A j \in 1 .. Len(masks) :
          OutPk[j] \in Points /\ masks[j] \in Int /\ amounts[j] \in Int
          /\ Cong(OutPk[j][x], masks[j] * G[x] + amounts[j] * H[x])

LEMMA OutputsCommit ==
    ASSUME tx.masks = masks, tx.amounts = amounts, masks \in Seq(Scalars), N \in Nat,
           amounts \in Seq(0 .. TwoTo[N] - 1), Len(amounts) = Len(masks), NEW x \in Bases
    PROVE  Committed(x)
<1> DEFINE n == Len(masks)
<1>1. n \in Nat /\ DOMAIN masks = 1 .. n /\ DOMAIN amounts = 1 .. n
  BY LenProperties
<1>2. OutPk = [j \in 1 .. n |-> CalcCommitment(IF j \in 1 .. n THEN amounts[j] % Q ELSE 0, masks[j])]
  BY <1>1 DEF OutPk
<1>3. OutPk = [j \in 1 .. n |-> OutPk[j]]
  BY <1>2
<1>4. ASSUME NEW j \in 1 .. n
      PROVE  OutPk[j] \in Points /\ masks[j] \in Int /\ amounts[j] \in Int
             /\ Cong(OutPk[j][x], masks[j] * G[x] + amounts[j] * H[x])
  <2> DEFINE a == amounts[j]
             m == masks[j]
  <2>1. OutPk[j] = CalcCommitment(a % Q, m)
    BY <1>2
  <2>2. m \in Int
    BY <1>1, ElementOfSeq, QIs
  <2>3. a \in Int
    <3>1. TwoTo[N] \in Nat \ {0}
      BY TwoToIs, Zenon
    <3>2. a \in 0 .. TwoTo[N] - 1
      BY <1>1, ElementOfSeq
    <3> QED BY <3>1, <3>2
  <2> HIDE DEF a, m
  <2>4. CalcCommitment(a % Q, m) \in Points /\ Cong(CalcCommitment(a % Q, m)[x], m * G[x] + a * H[x])
    BY <2>2, <2>3, CommitmentTo
  <2> QED BY <2>1, <2>2, <2>3, <2>4 DEF a, m
<1> QED BY <1>3, <1>4, Zenon DEF Committed

LEMMA Swap4 ==
    ASSUME NEW a \in Int, NEW b \in Int, NEW d \in Int, NEW e \in Int
    PROVE  (a * b) * (d * e) = (a * e) * (b * d) /\ (a * b) * d = a * (d * b)
<1> DEFINE bd == b * d
<1>1. bd \in Int /\ (a * b) * d = a * bd /\ bd = d * b
  OBVIOUS
<1>2. (a * b) * (d * e) = ((a * b) * d) * e
  <2> DEFINE ab == a * b
  <2>1. ab \in Int
    OBVIOUS
  <2> HIDE DEF ab
  <2>2. ab * (d * e) = (ab * d) * e
    BY <2>1
  <2> QED BY <2>2 DEF ab
<1>3. ((a * b) * d) * e = (a * bd) * e
  BY <1>1
<1> HIDE DEF bd
<1>4. (a * bd) * e = (a * e) * bd
  BY <1>1
<1>5. (a * b) * (d * e) = (a * e) * bd
  BY <1>2, <1>3, <1>4
<1> QED BY <1>1, <1>5 DEF bd

CommittedSum(yc, zc) ==
    SumPoints([j \in DOMAIN OutPk |->
        ScalarMult(ScMul(Powers(yc, MN + 2)[MN + 2], Powers(ScMul(zc, zc), Len(OutPk) + 1)[j + 1]), OutPk[j])])
IsCommittedSum(yc, zc, x) ==
    /\ CommittedSum(yc, zc) \in Points
    /\ Cong(CommittedSum(yc, zc)[x],
            Top(yc) * (SumFunction(MaskTerms(zc)) * G[x] + SumFunction(AmountTerms(zc)) * H[x]))

LEMMA CommittedSumIs ==
    ASSUME Len(masks) \in Nat, MN \in Nat, NEW yc \in Scalars, NEW zc \in Scalars, NEW x \in Bases, Committed(x)
    PROVE  IsCommittedSum(yc, zc, x)
<1> DEFINE n == Len(masks)
           zz == ScMul(zc, zc)
           top == Top(yc)
           c2 == [j \in 1 .. n |-> ScMul(top, Pw(zz)[j])]
           f == [k \in 1 .. n |-> c2[k] * OutPk[k][x]]
           SM == MaskTerms(zc)
           SA == AmountTerms(zc)
           g == G[x]
           h == H[x]
           tg == top * g
           th == top * h
<1>1. n \in Nat /\ n + 1 \in Nat /\ g \in Int /\ h \in Int /\ OutPk = [j \in 1 .. n |-> OutPk[j]]
  BY PointsAre, CoordinateIsInt DEF Committed
<1>2. zz \in Int
  <2>1. zc \in Int
    BY QIs
  <2> QED BY <2>1, ScalarOps, QIs
<1>3. Powers(yc, MN + 2)[MN + 2] = top /\ top \in Int
  BY LastPower
<1>4. Len(OutPk) = n
  BY <1>1, LenOf
<1>5. \A j \in 1 .. n : Powers(zz, n + 1)[j + 1] = Pw(zz)[j] /\ Pw(zz)[j] \in Int
  <2> SUFFICES ASSUME NEW j \in 1 .. n PROVE Powers(zz, n + 1)[j + 1] = Pw(zz)[j] /\ Pw(zz)[j] \in Int
    OBVIOUS
  <2> HIDE DEF zz
  <2>1. Powers(zz, n + 1) = [i \in 1 .. n + 1 |-> Pw(zz)[i - 1]]
    BY <1>1, <1>2, PowersIs
  <2>2. j \in Nat /\ j + 1 \in 1 .. n + 1 /\ (j + 1) - 1 = j
    BY <1>1
  <2>3. Powers(zz, n + 1)[j + 1] = Pw(zz)[(j + 1) - 1]
    BY <2>1, <2>2
  <2> QED BY <1>2, <2>2, <2>3, PwIs
<1>6. \A j \in 1 .. n : c2[j] = ScMul(top, Pw(zz)[j]) /\ c2[j] \in Int /\ Cong(c2[j], top * Pw(zz)[j])
  <2> SUFFICES ASSUME NEW j \in 1 .. n
               PROVE  c2[j] = ScMul(top, Pw(zz)[j]) /\ c2[j] \in Int /\ Cong(c2[j], top * Pw(zz)[j])
    OBVIOUS
  <2> DEFINE w == Pw(zz)[j]
  <2>1. w \in Int
    BY <1>5
  <2>2. c2[j] = ScMul(top, w)
    OBVIOUS
  <2> HIDE DEF w, c2, top
  <2>3. ScMul(top, w) \in Scalars /\ Cong(ScMul(top, w), top * w)
    BY <1>3, <2>1, ScalarOps
  <2> QED BY <2>2, <2>3, QIs DEF w
<1>7. CommittedSum(yc, zc) = SumPoints([k \in 1 .. n |-> ScalarMult(c2[k], OutPk[k])])
  <2>1. DOMAIN OutPk = 1 .. n
    BY <1>1
  <2> HIDE DEF c2, zz, top, n
  <2>2. [j \in DOMAIN OutPk |->
            ScalarMult(ScMul(Powers(yc, MN + 2)[MN + 2], Powers(zz, Len(OutPk) + 1)[j + 1]), OutPk[j])]
        = [k \in 1 .. n |-> ScalarMult(c2[k], OutPk[k])]
    BY <1>3, <1>4, <1>5, <1>6, <2>1
  <2> QED BY <2>2 DEF CommittedSum, zz
<1>8. \A j \in 1 .. n : /\ OutPk[j] \in Points /\ masks[j] \in Int /\ amounts[j] \in Int
                        /\ Cong(OutPk[j][x], masks[j] * g + amounts[j] * h)
  BY DEF Committed
<1>9. IsScaledSum(SumPoints([k \in 1 .. n |-> ScalarMult(c2[k], OutPk[k])]), c2, OutPk, n, x)
  <2>1. \A k \in 1 .. n : c2[k] \in Int
    BY <1>6
  <2>2. \A k \in 1 .. n : OutPk[k] \in Points
    BY <1>8
  <2> HIDE DEF c2, n
  <2> QED BY <1>1, <2>1, <2>2, ScaledSumIs
<1>10. CommittedSum(yc, zc) \in Points /\ f \in [1 .. n -> Int] /\ Cong(CommittedSum(yc, zc)[x], SumFunction(f))
  <2> HIDE DEF c2, n
  <2> QED BY <1>7, <1>9 DEF IsScaledSum
<1>11. tg \in Int /\ th \in Int
  <2> HIDE DEF top, g, h
  <2> QED BY <1>1, <1>3
<1>12. ASSUME NEW j \in 1 .. n
       PROVE  SM[j] \in Int /\ SA[j] \in Int /\ Cong(f[j], tg * SM[j] + th * SA[j])
  <2> DEFINE w == Pw(zz)[j]
             m == masks[j]
             a == amounts[j]
             o == OutPk[j][x]
             c3 == c2[j]
  <2>1. w \in Int /\ c3 \in Int /\ Cong(c3, top * w)
    <3> HIDE DEF zz, c2, top
    <3> QED BY <1>5, <1>6
  <2>2. m \in Int /\ a \in Int /\ o \in Int /\ Cong(o, m * g + a * h)
    <3> HIDE DEF g, h
    <3> QED BY <1>8, CoordinateIsInt
  <2>3. SM[j] = w * m /\ SA[j] = w * a
    BY DEF MaskTerms, AmountTerms
  <2>4. f[j] = c3 * o
    OBVIOUS
  <2> HIDE DEF w, m, a, o, c3, f, SM, SA, top, tg, th, g, h
  <2> DEFINE tw == top * w
             mg == m * g
             ah == a * h
  <2>0. top \in Int /\ g \in Int /\ h \in Int
    BY <1>1, <1>3, Zenon
  <2>12. w \in Int /\ m \in Int /\ a \in Int
    BY <2>1, <2>2, Zenon
  <2>5. tw \in Int /\ mg \in Int /\ ah \in Int
    BY <2>0, <2>12
  <2>6. tw * mg = (top * g) * (w * m) /\ tw * ah = (top * h) * (w * a)
    BY <2>0, <2>12, Swap4
  <2>7. w * m \in Int /\ w * a \in Int
    BY <2>12
  <2>8. Cong(c3, tw) /\ Cong(o, mg + ah)
    BY <2>1, <2>2
  <2> HIDE DEF tw, mg, ah
  <2>9. tw * (mg + ah) = tw * mg + tw * ah /\ mg + ah \in Int
    BY <2>5
  <2>10. Cong(c3 * o, tw * (mg + ah))
    BY <2>1, <2>2, <2>5, <2>8, <2>9, CongOps
  <2>11. Cong(c3 * o, (top * g) * (w * m) + (top * h) * (w * a))
    BY <2>6, <2>9, <2>10
  <2> QED BY <2>3, <2>4, <2>7, <2>11 DEF tg, th
<1>13. SM \in [1 .. n -> Int] /\ SA \in [1 .. n -> Int]
  BY <1>12, Zenon DEF MaskTerms, AmountTerms
<1> HIDE DEF f, SM, SA, n, tg, th
<1>14. Sums(SM, SA, f, tg, th)
  BY <1>1, <1>10, <1>11, <1>12, <1>13, SumBoth
<1> DEFINE P == SumFunction(SM)
           W == SumFunction(SA)
<1>15. P \in Int /\ W \in Int /\ Cong(SumFunction(f), tg * P + th * W)
  BY <1>14 DEF Sums
<1> HIDE DEF P, W, g, h, top
<1>16. tg * P + th * W = top * (P * g + W * h)
  <2> DEFINE pg == P * g
             wh == W * h
  <2>1. tg * P = top * pg /\ th * W = top * wh
    BY <1>1, <1>3, <1>15, Swap4 DEF tg, th
  <2>3. pg \in Int /\ wh \in Int
    BY <1>1, <1>15
  <2> HIDE DEF pg, wh
  <2>2. top * (pg + wh) = top * pg + top * wh
    BY <1>3, <2>3
  <2> QED BY <2>1, <2>2 DEF pg, wh
<1>17. Cong(CommittedSum(yc, zc)[x], top * (P * g + W * h))
  BY <1>10, <1>15, <1>16, CongEquiv
<1> QED BY <1>10, <1>17, Zenon DEF IsCommittedSum, top, P, W, SM, SA, g, h

StartBalances(T, al2, g, sp) == Cong(T + al2 * g, sp)
StartParts(T, S1, S2, S3, S4, S5, h, al, al2, g, top, SM, SA, K, ze, a8, cs, gs, hs, sp) ==
    StartBalances(T, al2, g, sp)

LEMMA StartArithmetic ==
    ASSUME NEW T \in Int, NEW S1 \in Int, NEW S2 \in Int, NEW S3 \in Int, NEW S4 \in Int, NEW S5 \in Int,
           NEW h \in Int, NEW al \in Int, NEW al2 \in Int, NEW g \in Int, NEW top \in Int, NEW SM \in Int,
           NEW SA \in Int, NEW K \in Int, NEW ze \in Int, NEW a8 \in Int, NEW cs \in Int, NEW gs \in Int,
           NEW hs \in Int, NEW sp \in Int,
           Cong(T, ((S1 + S2) + (S3 + S4)) + h * S5), Cong(S5, ze + top * K), Cong(K, SA),
           Cong(al2, al + top * SM), Cong(a8, (S1 + S3) + al * g), Cong(cs, top * (SM * g + SA * h)),
           Cong(gs, S2), Cong(hs, S4), Cong(sp, (a8 + cs) + (gs + (hs + ze * h)))
    PROVE  StartParts(T, S1, S2, S3, S4, S5, h, al, al2, g, top, SM, SA, K, ze, a8, cs, gs, hs, sp)
<1> DEFINE hS == h * S5
           tK == top * K
           tA == top * SA
           tM == top * SM
           tMg == tM * g
           tAh == tA * h
           zh == ze * h
           ag == al * g
           ag2 == al2 * g
<1>1. /\ hS \in Int /\ tK \in Int /\ tA \in Int /\ tM \in Int /\ zh \in Int /\ ag \in Int /\ ag2 \in Int
      /\ tMg \in Int /\ tAh \in Int
  <2>1. tA \in Int /\ tM \in Int
    OBVIOUS
  <2> HIDE DEF tA, tM
  <2> QED BY <2>1
<1>2. top * (SM * g + SA * h) = tMg + tAh
  <2> DEFINE mg == SM * g
             ah == SA * h
  <2>1. mg \in Int /\ ah \in Int /\ top * mg = tMg /\ top * ah = tAh
    OBVIOUS
  <2> HIDE DEF mg, ah, tMg, tAh
  <2>2. top * (mg + ah) = top * mg + top * ah
    BY <2>1
  <2> QED BY <2>1, <2>2 DEF mg, ah
<1>3. Cong(tK, tA)
  BY CongTimes
<1> HIDE DEF tK
<1>4. Cong(S5, ze + tA) /\ ze + tA \in Int
  <2>1. Cong(S5, ze + tK)
    BY DEF tK
  <2>2. Cong(ze + tK, ze + tA)
    BY <1>1, <1>3, CongPlus
  <2>3. ze + tA \in Int
    <3> HIDE DEF tA
    <3> QED BY <1>1
  <2> HIDE DEF tA
  <2> QED BY <2>1, <2>2, <2>3, CongEquiv
<1>5. Cong(hS, zh + tAh)
  <2> HIDE DEF tA
  <2>1. (ze + tA) * h = zh + tAh /\ hS = S5 * h
    BY <1>1
  <2>2. Cong(S5 * h, (ze + tA) * h)
    BY <1>4, CongTimes
  <2> QED BY <2>1, <2>2
<1>6. Cong(ag2, ag + tMg)
  <2>1. Cong(al2, al + tM) /\ al + tM \in Int
    <3>1. Cong(al2, al + tM)
      OBVIOUS
    <3> HIDE DEF tM
    <3> QED BY <1>1, <3>1
  <2> HIDE DEF tM
  <2>2. (al + tM) * g = ag + tMg
    BY <1>1
  <2> QED BY <2>1, <2>2, CongTimes
<1>7. /\ Cong(a8, (S1 + S3) + ag) /\ Cong(cs, tMg + tAh) /\ Cong(sp, (a8 + cs) + (gs + (hs + zh)))
      /\ Cong(T, ((S1 + S2) + (S3 + S4)) + hS)
  BY <1>2
<1> HIDE DEF hS, tA, tM, tMg, tAh, zh, ag, ag2
<1>8. Cong(T + ag2, (((S1 + S2) + (S3 + S4)) + (zh + tAh)) + (ag + tMg))
  <2> DEFINE s == (S1 + S2) + (S3 + S4)
  <2>1. s \in Int /\ s + hS \in Int /\ s + (zh + tAh) \in Int /\ ag + tMg \in Int /\ zh + tAh \in Int
    BY <1>1
  <2>2. Cong(T, s + hS)
    BY <1>7
  <2> HIDE DEF s
  <2>3. Cong(s + hS, s + (zh + tAh))
    BY <1>1, <1>5, <2>1, CongPlus
  <2>4. Cong(T, s + (zh + tAh))
    BY <2>2, <2>3, CongEquiv
  <2>5. Cong(T + ag2, (s + (zh + tAh)) + (ag + tMg))
    BY <1>1, <1>6, <2>1, <2>4, CongOps
  <2> QED BY <2>5 DEF s
<1>9. Cong(a8 + cs, ((S1 + S3) + ag) + (tMg + tAh))
  <2>1. (S1 + S3) + ag \in Int /\ tMg + tAh \in Int
    BY <1>1
  <2> QED BY <1>7, <2>1, CongOps
<1>10. Cong(gs + (hs + zh), S2 + (S4 + zh))
  <2>1. hs + zh \in Int /\ S4 + zh \in Int
    BY <1>1
  <2>2. Cong(hs + zh, S4 + zh)
    BY <1>1, CongPlus, Zenon
  <2> QED BY <2>1, <2>2, CongOps
<1>11. Cong((a8 + cs) + (gs + (hs + zh)), (((S1 + S3) + ag) + (tMg + tAh)) + (S2 + (S4 + zh)))
  <2>1. /\ a8 + cs \in Int /\ gs + (hs + zh) \in Int /\ ((S1 + S3) + ag) + (tMg + tAh) \in Int
        /\ S2 + (S4 + zh) \in Int
    BY <1>1
  <2> QED BY <1>9, <1>10, <2>1, CongOps
<1>12. (((S1 + S2) + (S3 + S4)) + (zh + tAh)) + (ag + tMg) = (((S1 + S3) + ag) + (tMg + tAh)) + (S2 + (S4 + zh))
  BY <1>1
<1>13. Cong(T + ag2, sp)
  BY <1>7, <1>8, <1>11, <1>12, CongEquiv
<1> QED BY <1>13 DEF StartBalances, StartParts, ag2

MultiplesSum(s, v, ps, x) == s \in Points /\ Cong(s[x], SumFunction(Multiples(v, ps, x)))

\* The four sums over the bases.
StartSumsAre(yc, zc, x) ==
    /\ MultiplesSum(SumPoints([k \in 1 .. MN |-> ScalarMult(LeftBits[k], PointOf(BaseGi(k)))]),
                    LeftBits, StartG, x)
    /\ MultiplesSum(SumPoints([k \in 1 .. MN |-> ScalarMult(RightBits[k], PointOf(BaseHi(k)))]),
                    RightBits, StartH, x)
    /\ MultiplesSum(SumPoints([k \in 1 .. MN |-> ScalarMult(ScSub(0, zc), PointOf(BaseGi(k)))]),
                    GShifts(zc), StartG, x)
    /\ MultiplesSum(SumPoints([k \in 1 .. MN |->
                        ScalarMult(ScMulAdd(Weight(zc, k), Powers(yc, MN + 2)[MN - k + 2], zc), PointOf(BaseHi(k)))]),
                    HShifts(yc, zc), StartH, x)

LEMMA StartSumsHold ==
    ASSUME Fits, amounts \in Seq(0 .. TwoTo[N] - 1), NEW yc \in Scalars, NEW zc \in Scalars, NEW x \in Bases
    PROVE  StartSumsAre(yc, zc, x)
<1>1. MN \in Nat
  BY SizesAre
<1>2. \A k \in 1 .. MN : /\ LeftBits[k] \in Int /\ RightBits[k] \in Int /\ GShifts(zc)[k] \in Int
                         /\ HShifts(yc, zc)[k] \in Int
  <2> SUFFICES ASSUME NEW k \in 1 .. MN
               PROVE  /\ LeftBits[k] \in Int /\ RightBits[k] \in Int /\ GShifts(zc)[k] \in Int
                      /\ HShifts(yc, zc)[k] \in Int
    OBVIOUS
  <2>1. Begins(yc, zc, k)
    BY BeginsAt
  <2>2. LeftBits[k] \in {0, 1} /\ RightBits[k] \in Int /\ GShifts(zc)[k] \in Int /\ HShifts(yc, zc)[k] \in Int
    BY <2>1, Zenon DEF Begins
  <2> QED BY <2>2
<1>3. \A k \in 1 .. MN : StartG[k] \in Points /\ StartH[k] \in Points
  BY PointsAre DEF StartG, StartH
<1>4. ASSUME NEW v, \A k \in 1 .. MN : v[k] \in Int, NEW ps, \A k \in 1 .. MN : ps[k] \in Points
      PROVE  MultiplesSum(SumPoints([k \in 1 .. MN |-> ScalarMult(v[k], ps[k])]), v, ps, x)
  <2>1. IsScaledSum(SumPoints([k \in 1 .. MN |-> ScalarMult(v[k], ps[k])]), v, ps, MN, x)
    BY <1>1, <1>4, ScaledSumIs
  <2> QED BY <2>1 DEF IsScaledSum, MultiplesSum, Multiples
<1>5. MultiplesSum(SumPoints([k \in 1 .. MN |-> ScalarMult(LeftBits[k], PointOf(BaseGi(k)))]), LeftBits, StartG, x)
  <2>1. [k \in 1 .. MN |-> ScalarMult(LeftBits[k], PointOf(BaseGi(k)))]
        = [k \in 1 .. MN |-> ScalarMult(LeftBits[k], StartG[k])]
    BY DEF StartG
  <2>2. MultiplesSum(SumPoints([k \in 1 .. MN |-> ScalarMult(LeftBits[k], StartG[k])]), LeftBits, StartG, x)
    BY <1>2, <1>3, <1>4, Zenon
  <2> QED BY <2>1, <2>2
<1>6. MultiplesSum(SumPoints([k \in 1 .. MN |-> ScalarMult(RightBits[k], PointOf(BaseHi(k)))]), RightBits, StartH, x)
  <2>1. [k \in 1 .. MN |-> ScalarMult(RightBits[k], PointOf(BaseHi(k)))]
        = [k \in 1 .. MN |-> ScalarMult(RightBits[k], StartH[k])]
    BY DEF StartH
  <2>2. MultiplesSum(SumPoints([k \in 1 .. MN |-> ScalarMult(RightBits[k], StartH[k])]), RightBits, StartH, x)
    BY <1>2, <1>3, <1>4, Zenon
  <2> QED BY <2>1, <2>2
<1>7. MultiplesSum(SumPoints([k \in 1 .. MN |-> ScalarMult(ScSub(0, zc), PointOf(BaseGi(k)))]), GShifts(zc), StartG, x)
  <2>1. [k \in 1 .. MN |-> ScalarMult(ScSub(0, zc), PointOf(BaseGi(k)))]
        = [k \in 1 .. MN |-> ScalarMult(GShifts(zc)[k], StartG[k])]
    BY DEF StartG, GShifts
  <2>2. MultiplesSum(SumPoints([k \in 1 .. MN |-> ScalarMult(GShifts(zc)[k], StartG[k])]), GShifts(zc), StartG, x)
    BY <1>2, <1>3, <1>4, Zenon
  <2> QED BY <2>1, <2>2
<1>8. MultiplesSum(SumPoints([k \in 1 .. MN |->
          ScalarMult(ScMulAdd(Weight(zc, k), Powers(yc, MN + 2)[MN - k + 2], zc), PointOf(BaseHi(k)))]),
          HShifts(yc, zc), StartH, x)
  <2>1. [k \in 1 .. MN |-> ScalarMult(ScMulAdd(Weight(zc, k), Powers(yc, MN + 2)[MN - k + 2], zc), PointOf(BaseHi(k)))]
        = [k \in 1 .. MN |-> ScalarMult(HShifts(yc, zc)[k], StartH[k])]
    BY DEF StartH, HShifts
  <2>2. MultiplesSum(SumPoints([k \in 1 .. MN |-> ScalarMult(HShifts(yc, zc)[k], StartH[k])]), HShifts(yc, zc), StartH, x)
    BY <1>2, <1>3, <1>4, Zenon
  <2> QED BY <2>1, <2>2
<1> QED BY <1>5, <1>6, <1>7, <1>8 DEF StartSumsAre

\* The same as one equation: A and the commitments are what the vectors stand for.
LEMMA StartIs ==
    ASSUME Fits, amounts \in Seq(0 .. TwoTo[N] - 1), masks \in Seq(Scalars), Len(amounts) = Len(masks),
           tx.masks = masks, tx.amounts = amounts, alpha1 \in Scalars, A \in Points,
           NEW yc \in Scalars, NEW zc \in Scalars, NEW x \in Bases,
           Cong(8 * A[x], VectorExponent(LeftBits, RightBits)[x] + alpha1 * G[x])
    PROVE  /\ StartBalances(SumFunction(StartTerms(yc, zc, x)), StartAlpha(yc, zc), G[x],
                            StartPoint(OutPk, A, yc, zc, MN)[x])
           /\ StartPoint(OutPk, A, yc, zc, MN) \in Points
<1> DEFINE T == SumFunction(StartTerms(yc, zc, x))
           S1 == SumFunction(Multiples(LeftBits, StartG, x))
           S2 == SumFunction(Multiples(GShifts(zc), StartG, x))
           S3 == SumFunction(Multiples(RightBits, StartH, x))
           S4 == SumFunction(Multiples(HShifts(yc, zc), StartH, x))
           S5 == SumFunction(EntryWeights(yc, zc))
           h == H[x]
           g == G[x]
           al2 == StartAlpha(yc, zc)
           top == Top(yc)
           SM == SumFunction(MaskTerms(zc))
           SA == SumFunction(AmountTerms(zc))
           K == SumFunction(Weighed(zc))
           ze == Zeta(yc, zc, MN)
           VG == SumPoints([k \in 1 .. MN |-> ScalarMult(LeftBits[k], PointOf(BaseGi(k)))])
           VH == SumPoints([k \in 1 .. MN |-> ScalarMult(RightBits[k], PointOf(BaseHi(k)))])
           VE == VectorExponent(LeftBits, RightBits)
           A8 == ScalarMult(8, A)
           CS == CommittedSum(yc, zc)
           GS == SumPoints([k \in 1 .. MN |-> ScalarMult(ScSub(0, zc), PointOf(BaseGi(k)))])
           HS == SumPoints([k \in 1 .. MN |->
                     ScalarMult(ScMulAdd(Weight(zc, k), Powers(yc, MN + 2)[MN - k + 2], zc), PointOf(BaseHi(k)))])
           ZH == ScalarMult(ze, H)
           SP == StartPoint(OutPk, A, yc, zc, MN)
<1>1. MN \in Nat /\ N \in Nat /\ Len(masks) \in Nat /\ zc \in Int /\ alpha1 \in Int
  BY SizesAre, QIs DEF Fits
<1>2. StartSplits(yc, zc, x) /\ EntryWeights(yc, zc) \in [1 .. MN -> Int]
  BY StartSums
<1>3. IsZeta(yc, zc)
  BY <1>2, ZetaIs
<1>4. IsStartAlpha(yc, zc)
  BY StartAlphaIs
<1>5. Committed(x)
  BY <1>1, OutputsCommit
<1>6. IsCommittedSum(yc, zc, x)
  BY <1>1, <1>5, CommittedSumIs
<1>7. WeighsAmounts(zc)
  BY <1>1, AmountsWeigh
<1>8. StartSumsAre(yc, zc, x)
  BY StartSumsHold
<1>9. /\ VG \in Points /\ Cong(VG[x], S1) /\ VH \in Points /\ Cong(VH[x], S3)
      /\ GS \in Points /\ Cong(GS[x], S2) /\ HS \in Points /\ Cong(HS[x], S4)
  BY <1>8, Zenon DEF StartSumsAre, MultiplesSum
<1>10. VE = AddPoints(VG, VH)
  <2>1. DOMAIN LeftBits = 1 .. MN /\ DOMAIN RightBits = 1 .. MN
    BY DEF LeftBits, RightBits
  <2> QED BY <2>1 DEF VectorExponent
<1>11. SP = AddPoints(AddPoints(A8, CS), AddPoints(GS, AddPoints(HS, ZH)))
  BY Zenon DEF StartPoint, CommittedSum
<1>12. /\ T \in Int /\ S1 \in Int /\ S2 \in Int /\ S3 \in Int /\ S4 \in Int /\ S5 \in Int
       /\ Cong(T, ((S1 + S2) + (S3 + S4)) + h * S5)
  BY <1>2, Zenon DEF StartSplits, IsSumOfFive
<1>13. ze \in Scalars /\ top \in Int /\ K \in Int /\ Cong(S5, ze + top * K)
  BY <1>3, Zenon DEF IsZeta
<1>14. al2 \in Scalars /\ SM \in Int /\ Cong(al2, alpha1 + top * SM)
  BY <1>4, Zenon DEF IsStartAlpha
<1>15. CS \in Points /\ Cong(CS[x], top * (SM * g + SA * h))
  BY <1>6, Zenon DEF IsCommittedSum
<1>16. AmountTerms(zc) \in [1 .. Len(masks) -> Int] /\ Cong(K, SA)
  BY <1>7, Zenon DEF WeighsAmounts
<1>17. SA \in Int
  BY <1>1, <1>16, SumIs
<1>18. g \in Int /\ h \in Int /\ ze \in Int /\ al2 \in Int /\ H \in Points
  BY <1>13, <1>14, PointsAre, CoordinateIsInt, QIs
<1>19. A8 \in Points /\ Cong(A8[x], 8 * A[x])
  BY PointOps, 8 \in Int
<1>20. ZH \in Points /\ Cong(ZH[x], ze * h)
  <2> HIDE DEF ze
  <2> QED BY <1>18, PointOps
<1>21. VE \in Points /\ Cong(VE[x], VG[x] + VH[x])
  <2> HIDE DEF VG, VH, VE
  <2> QED BY <1>9, <1>10, PointOps, 0 \in Int
<1>22. 8 * A[x] \in Int /\ VE[x] + alpha1 * g \in Int /\ Cong(8 * A[x], VE[x] + alpha1 * g) /\ alpha1 * g \in Int
  <2>1. A[x] \in Int /\ VE[x] \in Int
    BY <1>21, CoordinateIsInt
  <2>2. Cong(8 * A[x], VE[x] + alpha1 * g)
    OBVIOUS
  <2> HIDE DEF VE, g
  <2>3. alpha1 * g \in Int /\ 8 * A[x] \in Int
    BY <1>1, <1>18, <2>1
  <2>4. VE[x] + alpha1 * g \in Int
    BY <2>1, <2>3
  <2> QED BY <2>2, <2>3, <2>4, Zenon
<1> HIDE DEF T, S1, S2, S3, S4, S5, h, g, al2, top, SM, SA, K, ze, VG, VH, VE, A8, CS, GS, HS, ZH, SP
<1>23. Cong(A8[x], (S1 + S3) + alpha1 * g)
  <2>1. VG[x] \in Int /\ VH[x] \in Int /\ VE[x] \in Int
    BY <1>9, <1>21, CoordinateIsInt
  <2>2. Cong(VG[x] + VH[x], S1 + S3)
    BY <1>9, <1>12, <2>1, CongOps
  <2>3. Cong(VE[x], S1 + S3) /\ S1 + S3 \in Int
    BY <1>12, <1>21, <2>2, CongEquiv
  <2>4. Cong(VE[x] + alpha1 * g, (S1 + S3) + alpha1 * g)
    BY <1>22, <2>1, <2>3, CongPlus
  <2> QED BY <1>19, <1>22, <2>4, CongEquiv
<1> DEFINE HZ == AddPoints(HS, ZH)
           GHZ == AddPoints(GS, HZ)
           AC == AddPoints(A8, CS)
<1>24. HZ \in Points /\ Cong(HZ[x], HS[x] + ZH[x])
  BY <1>9, <1>20, PointOps, 0 \in Int
<1>25. AC \in Points /\ Cong(AC[x], A8[x] + CS[x])
  BY <1>15, <1>19, PointOps, 0 \in Int
<1> HIDE DEF HZ, AC
<1>26. GHZ \in Points /\ Cong(GHZ[x], GS[x] + HZ[x])
  BY <1>9, <1>24, PointOps, 0 \in Int
<1> HIDE DEF GHZ
<1>27. SP \in Points /\ Cong(SP[x], AC[x] + GHZ[x])
  <2>1. SP = AddPoints(AC, GHZ)
    BY <1>11 DEF AC, GHZ, HZ
  <2> QED BY <1>25, <1>26, <2>1, PointOps, 0 \in Int
<1>28. /\ A8[x] \in Int /\ CS[x] \in Int /\ GS[x] \in Int /\ HS[x] \in Int /\ ZH[x] \in Int /\ SP[x] \in Int
       /\ HZ[x] \in Int /\ AC[x] \in Int /\ GHZ[x] \in Int
  BY <1>9, <1>15, <1>19, <1>20, <1>24, <1>25, <1>26, <1>27, CoordinateIsInt
<1>29. ze * h \in Int
  BY <1>18
<1>30. Cong(HZ[x], HS[x] + ze * h)
  <2>1. Cong(HS[x] + ZH[x], HS[x] + ze * h)
    BY <1>20, <1>28, <1>29, CongPlus
  <2> QED BY <1>24, <2>1, CongEquiv
<1>31. Cong(GHZ[x], GS[x] + (HS[x] + ze * h)) /\ GS[x] + (HS[x] + ze * h) \in Int /\ A8[x] + CS[x] \in Int
  <2>1. HS[x] + ze * h \in Int
    BY <1>28, <1>29
  <2>2. Cong(GS[x] + HZ[x], GS[x] + (HS[x] + ze * h))
    BY <1>28, <1>30, <2>1, CongPlus
  <2>3. Cong(GHZ[x], GS[x] + (HS[x] + ze * h))
    BY <1>26, <2>2, CongEquiv
  <2>4. GS[x] + (HS[x] + ze * h) \in Int
    BY <1>28, <2>1
  <2>5. A8[x] + CS[x] \in Int
    BY <1>28
  <2> QED BY <2>3, <2>4, <2>5, Zenon
<1>32. Cong(SP[x], (A8[x] + CS[x]) + (GS[x] + (HS[x] + ze * h)))
  <2>1. Cong(AC[x] + GHZ[x], (A8[x] + CS[x]) + (GS[x] + (HS[x] + ze * h)))
    BY <1>25, <1>28, <1>31, CongOps
  <2> QED BY <1>27, <2>1, CongEquiv
<1>33. StartParts(T, S1, S2, S3, S4, S5, h, alpha1, al2, g, top, SM, SA, K, ze, A8[x], CS[x], GS[x], HS[x], SP[x])
  BY <1>1, <1>9, <1>12, <1>13, <1>14, <1>15, <1>16, <1>17, <1>18, <1>23, <1>28, <1>32, StartArithmetic, Zenon
<1> QED BY <1>27, <1>33, Zenon DEF StartParts, T, al2, g, SP

Ones(n) == [k \in 1 .. n |-> 1]
Begin(v, kind, w, fac, n) == BasesAre(v, kind, w, fac, n, n)

LEMMA BasesBegin ==
    ASSUME NEW n \in Nat \ {0}, n \in 0 .. Vectors, NEW kind \in {"Gi", "Hi"}, NEW w \in Scalars,
           NEW v, \A k \in 1 .. n : v[k] = PointOf(<<kind, k>>), NEW fac, \A j \in 1 .. n : fac[j] = 1
    PROVE  Begin(v, kind, w, fac, n)
<1> SUFFICES ASSUME NEW k \in 1 .. n, NEW x \in Bases
             PROVE  Cong(v[k][x], Share(kind, w, fac, n, n, k, x))
  BY DEF Begin, BasesAre
<1>1. \A j \in 1 .. n : Slot(j, n) = j
  <2> SUFFICES ASSUME NEW j \in 1 .. n PROVE Slot(j, n) = j
    OBVIOUS
  <2>1. j - 1 = n * 0 + (j - 1) /\ j - 1 \in 0 .. n - 1 /\ (j - 1) + 1 = j
    OBVIOUS
  <2>2. Divides(j - 1, n, 0, j - 1)
    BY <2>1, DivUnique, 0 \in Int, Zenon
  <2> QED BY <2>1, <2>2 DEF Divides, Slot
<1>2. <<kind, k>> \in Bases
  <2>1. k \in 1 .. Vectors
    BY BaseAssumption
  <2> QED BY <2>1 DEF Bases
<1>3. v[k][x] = IF x = <<kind, k>> THEN 1 ELSE 0
  BY <1>2 DEF PointOf, Identity
<1>4. CASE x = <<kind, k>>
  <2>1. ShareOf(kind, w, fac, n, n, k, k)
    BY ShareIs
  <2>2. Slot(k, n) = k /\ fac[k] = 1 /\ k - k = 0
    BY <1>1
  <2>3. Pw(w)[0] = 1
    <3>1. w \in Int
      BY QIs
    <3> QED BY <3>1, PwIs
  <2>4. Share(kind, w, fac, n, n, k, <<kind, k>>) = 1 * 1
    BY <2>1, <2>2, <2>3 DEF ShareOf
  <2>5. Share(kind, w, fac, n, n, k, x) = 1 /\ v[k][x] = 1
    BY <1>3, <1>4, <2>4
  <2> QED BY <2>5, CongEquiv
<1>5. CASE x # <<kind, k>>
  <2>1. ~\E j \in 1 .. n : x = <<kind, j>> /\ Slot(j, n) = k
    BY <1>1, <1>5
  <2>2. Share(kind, w, fac, n, n, k, x) = 0 /\ v[k][x] = 0
    BY <1>3, <1>5, <2>1 DEF Share
  <2> QED BY <2>2, CongEquiv
<1> QED BY <1>4, <1>5

StartBases(w) ==
    BasesAre(StartG, "Gi", w, Ones(MN), MN, MN) /\ BasesAre(StartH, "Hi", 1, Mirror(Ones(MN), MN), MN, MN)

LEMMA StartBasesAre ==
    ASSUME Fits, NEW w \in Scalars
    PROVE  StartBases(w)
<1>1. MN \in Nat \ {0} /\ MN \in 0 .. Vectors
  BY SizesAre
<1>2. /\ \A k \in 1 .. MN : StartG[k] = PointOf(<<"Gi", k>>)
      /\ \A k \in 1 .. MN : StartH[k] = PointOf(<<"Hi", k>>)
  BY DEF StartG, StartH, BaseGi, BaseHi
<1>3. \A j \in 1 .. MN : Ones(MN)[j] = 1
  BY DEF Ones
<1>4. \A j \in 1 .. MN : Mirror(Ones(MN), MN)[j] = 1
  <2> SUFFICES ASSUME NEW j \in 1 .. MN PROVE Mirror(Ones(MN), MN)[j] = 1
    OBVIOUS
  <2>1. (MN + 1) - j \in 1 .. MN
    BY <1>1
  <2> QED BY <1>3, <2>1 DEF Mirror
<1>5. Begin(StartG, "Gi", w, Ones(MN), MN)
  BY <1>1, <1>2, <1>3, BasesBegin
<1>6. Begin(StartH, "Hi", 1, Mirror(Ones(MN), MN), MN)
  BY <1>1, <1>2, <1>4, QIs, BasesBegin
<1> QED BY <1>5, <1>6, Zenon DEF Begin, StartBases

LEMMA StartVectors ==
    ASSUME Fits, amounts \in Seq(0 .. TwoTo[N] - 1), NEW yc \in Scalars, NEW zc \in Scalars
    PROVE  VectorsOf(StartA(zc), StartB(yc, zc), StartG, StartH, MN)
<1>1. \A k \in 1 .. MN : StartA(zc)[k] \in Scalars /\ StartB(yc, zc)[k] \in Scalars
  <2> SUFFICES ASSUME NEW k \in 1 .. MN PROVE StartA(zc)[k] \in Scalars /\ StartB(yc, zc)[k] \in Scalars
    OBVIOUS
  <2>1. Begins(yc, zc, k)
    BY BeginsAt
  <2> QED BY <2>1, Zenon DEF Begins
<1>2. \A k \in 1 .. MN : StartG[k] \in Points /\ StartH[k] \in Points
  BY PointsAre DEF StartG, StartH
<1>3. StartA(zc) \in [1 .. MN -> Scalars] /\ StartB(yc, zc) \in [1 .. MN -> Scalars]
  BY <1>1, Zenon DEF StartA, StartB
<1>4. StartG \in [1 .. MN -> Points] /\ StartH \in [1 .. MN -> Points]
  BY <1>2, Zenon DEF StartG, StartH
<1> QED BY <1>3, <1>4 DEF VectorsOf

-----------------------------------------------------------------------------
(* What the verifier looks up and computes.                                     *)

\* The challenges of the rounds, each from the one before; the factors of the bases.
ChainOf(f, chal, r, ls, rs) ==
    /\ chal \in [0 .. r -> Scalars \ {0}]
    /\ \A i \in 1 .. r : Known(f, TranscriptQuery(chal[i - 1], <<ls[i], rs[i]>>), chal[i])
FactorsOf(prod, chal, T, r, bits) ==
    /\ prod \in [0 .. r -> [1 .. bits -> Scalars]] /\ prod[0] = Ones(bits)
    /\ \A i \in 1 .. r : prod[i] = NextFactor(prod[i - 1], chal[i], TwoTo[T - i], bits)

ChallengesAreOf(proof, chal, r) == RoundChallenges(proof, chal[0]) = [i \in 1 .. r |-> chal[i]]

LEMMA RoundChallengesAre ==
    ASSUME NEW proof, NEW r \in Nat, DOMAIN proof.L = 1 .. r, Len(proof.L) = r, NEW chal,
           ChainOf(hashes, chal, r, proof.L, proof.R)
    PROVE  ChallengesAreOf(proof, chal, r)
<1> DEFINE start == chal[0]
           Step(f, i) == IF i = 0 THEN start
                         ELSE Lookup(TranscriptQuery(f[i - 1], <<proof.L[i], proof.R[i]>>))
           h == CHOOSE f : f = [i \in 0 .. r |-> Step(f, i)]
<1>1. \A i \in 0 .. r : chal[i] = Step(chal, i)
  <2> SUFFICES ASSUME NEW i \in 0 .. r PROVE chal[i] = Step(chal, i)
    OBVIOUS
  <2>1. CASE i = 0
    BY <2>1
  <2>2. CASE i # 0
    <3>1. i \in 1 .. r
      BY <2>2
    <3>2. Known(hashes, TranscriptQuery(chal[i - 1], <<proof.L[i], proof.R[i]>>), chal[i])
      BY <3>1 DEF ChainOf
    <3> QED BY <2>2, <3>2 DEF Known, Lookup
  <2> QED BY <2>1, <2>2
<1>2. chal = [i \in 0 .. r |-> Step(chal, i)]
  <2>1. chal = [i \in 0 .. r |-> chal[i]]
    BY DEF ChainOf
  <2> HIDE DEF Step
  <2> QED BY <1>1, <2>1
<1>3. h = [i \in 0 .. r |-> Step(h, i)]
  <2>1. \E f : f = [i \in 0 .. r |-> Step(f, i)]
    <3> HIDE DEF Step
    <3> QED BY <1>2
  <2> HIDE DEF Step
  <2> QED BY <2>1, Zenon
<1> HIDE DEF h
<1>4. \A i \in 0 .. r : h[i] = Step(h, i)
  <2> HIDE DEF Step
  <2> QED BY <1>3, Zenon
<1>5. \A i \in 1 .. r : h[i] = chal[i]
  <2> SUFFICES ASSUME NEW i \in 1 .. r PROVE h[i] = chal[i]
    OBVIOUS
  <2>1. 0 \in 0 .. r
    OBVIOUS
  <2>2. h[0] = Step(h, 0) /\ chal[0] = Step(chal, 0)
    <3> HIDE DEF Step
    <3> QED BY <1>1, <1>4, <2>1
  <2>3. h[0] = chal[0]
    BY <2>2
  <2>4. ASSUME NEW j \in 1 .. i, h[j - 1] = chal[j - 1] PROVE h[j] = chal[j]
    <3>1. j \in 0 .. r /\ j # 0
      OBVIOUS
    <3>2. Step(h, j) = Step(chal, j)
      BY <2>4, <3>1
    <3> HIDE DEF Step
    <3> QED BY <1>1, <1>4, <3>1, <3>2
  <2>5. i \in Nat
    OBVIOUS
  <2> QED BY <2>3, <2>4, <2>5, SameLoops
<1>6. RoundChallenges(proof, start) = [i \in 1 .. r |-> h[i]]
  BY DEF RoundChallenges, h
<1>7. RoundChallenges(proof, start) = [i \in 1 .. r |-> chal[i]]
  BY <1>5, <1>6
<1> QED BY <1>7 DEF ChallengesAreOf

FactorIs(chal, prod, r, k) == BaseFactor([i \in 1 .. r |-> chal[i]], k) = prod[r][k]

LEMMA BaseFactorIs ==
    ASSUME NEW r \in Nat, NEW bits \in Nat, NEW chal \in [0 .. r -> Scalars \ {0}], NEW prod,
           FactorsOf(prod, chal, r, r, bits), NEW k \in 1 .. bits
    PROVE  FactorIs(chal, prod, r, k)
<1> DEFINE cs == [i \in 1 .. r |-> chal[i]]
           Step(f, i) == IF i = 0 THEN 1
                         ELSE ScMul(f[i - 1], IF ((k - 1) \div TwoTo[r - i]) % 2 = 1 THEN cs[i] ELSE Invert(cs[i]))
           e == [i \in 0 .. r |-> prod[i][k]]
           h == CHOOSE f : f = [i \in 0 .. r |-> Step(f, i)]
<1>1. \A i \in 0 .. r : e[i] = Step(e, i)
  <2> SUFFICES ASSUME NEW i \in 0 .. r PROVE e[i] = Step(e, i)
    OBVIOUS
  <2>1. CASE i = 0
    BY <2>1 DEF FactorsOf, Ones
  <2>2. CASE i # 0
    <3>1. i \in 1 .. r /\ i - 1 \in 0 .. r
      BY <2>2
    <3>2. prod[i] = NextFactor(prod[i - 1], chal[i], TwoTo[r - i], bits)
      BY <3>1 DEF FactorsOf
    <3>3. prod[i][k] = ScMul(prod[i - 1][k], FactorBy(chal[i], TwoTo[r - i], k))
      BY <3>2 DEF NextFactor
    <3>4. cs[i] = chal[i] /\ e[i] = prod[i][k] /\ e[i - 1] = prod[i - 1][k]
      BY <3>1
    <3> HIDE DEF cs, e
    <3> QED BY <2>2, <3>3, <3>4 DEF FactorBy, Digit
  <2> QED BY <2>1, <2>2
<1>2. e = [i \in 0 .. r |-> Step(e, i)]
  <2> HIDE DEF Step
  <2> QED BY <1>1
<1>3. h = [i \in 0 .. r |-> Step(h, i)]
  <2>1. \E f : f = [i \in 0 .. r |-> Step(f, i)]
    <3> HIDE DEF Step, e
    <3> QED BY <1>2
  <2> HIDE DEF Step
  <2> QED BY <2>1, Zenon
<1>4. Len(cs) = r
  BY LenOf
<1>5. BaseFactor(cs, k) = h[r]
  <2> HIDE DEF cs
  <2> QED BY <1>4, Zenon DEF BaseFactor, h
<1> HIDE DEF h, e, cs
<1>6. \A i \in 0 .. r : h[i] = Step(h, i)
  <2> HIDE DEF Step
  <2> QED BY <1>3, Zenon
<1>7. h[r] = e[r]
  <2>1. 0 \in 0 .. r
    OBVIOUS
  <2>2. h[0] = Step(h, 0) /\ e[0] = Step(e, 0)
    <3> HIDE DEF Step
    <3> QED BY <1>1, <1>6, <2>1
  <2>3. h[0] = e[0]
    BY <2>2
  <2>4. ASSUME NEW j \in 1 .. r, h[j - 1] = e[j - 1] PROVE h[j] = e[j]
    <3>1. j \in 0 .. r /\ j # 0
      OBVIOUS
    <3>2. Step(h, j) = Step(e, j)
      BY <2>4, <3>1
    <3> HIDE DEF Step
    <3> QED BY <1>1, <1>6, <3>1, <3>2
  <2> QED BY <2>3, <2>4, SameLoops
<1>8. e[r] = prod[r][k]
  BY DEF e
<1> QED BY <1>5, <1>7, <1>8, Zenon DEF cs, FactorIs

-----------------------------------------------------------------------------
(* The last step: the vectors of length one are replaced by r1, s1 and d1.      *)

LastBalances(fold, a8, b8, e, g, h, gx, hx, yc, u1, v1, w1) ==
    Cong((e * e) * fold + (e * a8 + b8), ((u1 * e) * g + (v1 * e) * h) + (w1 * gx + ((u1 * yc) * v1) * hx))

\* One coefficient of the responses.
LEMMA ResponseTimes ==
    ASSUME NEW a \in Int, NEW e \in Int, NEW r \in Int, NEW g \in Int
    PROVE  ((a * e + r) * e) * g = (e * e) * (a * g) + e * (r * g)
<1> DEFINE ae == a * e
           re == r * e
           aee == ae * e
<1>1. ae \in Int /\ re \in Int /\ aee \in Int
  <2>1. ae \in Int /\ re \in Int
    OBVIOUS
  <2> HIDE DEF ae
  <2> QED BY <2>1
<1>2. (ae + r) * e = aee + re
  <2> HIDE DEF ae
  <2> QED BY <1>1
<1>3. (aee + re) * g = aee * g + re * g
  <2> HIDE DEF aee, re
  <2> QED BY <1>1
<1>4. aee * g = (e * e) * (a * g)
  OBVIOUS
<1>5. re * g = e * (r * g)
  OBVIOUS
<1> QED BY <1>2, <1>3, <1>4, <1>5

LEMMA BlindTimes ==
    ASSUME NEW alpha \in Int, NEW e \in Int, NEW d \in Int, NEW eta \in Int, NEW g \in Int
    PROVE  (alpha * (e * e) + (d * e + eta)) * g = (e * e) * (alpha * g) + (e * (d * g) + eta * g)
<1> DEFINE aee == alpha * (e * e)
           de == d * e
<1>1. aee \in Int /\ de \in Int
  <2>1. e * e \in Int
    OBVIOUS
  <2> QED BY <2>1
<1>2. (aee + (de + eta)) * g = aee * g + (de * g + eta * g)
  <2> HIDE DEF aee, de
  <2>1. (aee + (de + eta)) * g = aee * g + (de + eta) * g
    BY <1>1
  <2>2. (de + eta) * g = de * g + eta * g
    BY <1>1
  <2> QED BY <2>1, <2>2
<1>3. aee * g = (e * e) * (alpha * g)
  OBVIOUS
<1>4. de * g = e * (d * g)
  OBVIOUS
<1> QED BY <1>2, <1>3, <1>4

LEMMA ProductTimes ==
    ASSUME NEW a \in Int, NEW b \in Int, NEW e \in Int, NEW r \in Int, NEW s \in Int, NEW yc \in Int, NEW h \in Int
    PROVE  (((a * e + r) * yc) * (b * e + s)) * h
              = (e * e) * ((a * b) * (yc * h)) + (e * (((r * yc) * b + (s * yc) * a) * h) + ((r * yc) * s) * h)
<1> DEFINE ae == a * e
           be == b * e
           p == ae * yc
           q == r * yc
           t == yc * h
           ryb == (r * yc) * b
           sya == (s * yc) * a
<1>1. ae \in Int /\ be \in Int /\ q \in Int /\ t \in Int
  OBVIOUS
<1>2. p \in Int /\ ryb \in Int /\ sya \in Int
  <2>1. s * yc \in Int
    OBVIOUS
  <2> HIDE DEF ae, q
  <2> QED BY <1>1, <2>1 DEF q
<1>3. (ae + r) * yc = p + q
  <2> HIDE DEF ae
  <2> QED BY <1>1
<1>4. (p + q) * (be + s) = (p * be + p * s) + (q * be + q * s)
  <2> HIDE DEF p, q, be
  <2>1. (p + q) * (be + s) = p * (be + s) + q * (be + s)
    BY <1>1, <1>2
  <2>2. p * (be + s) = p * be + p * s
    BY <1>1, <1>2
  <2>3. q * (be + s) = q * be + q * s
    BY <1>1, <1>2
  <2> QED BY <2>1, <2>2, <2>3
<1> DEFINE m1 == p * be
           m2 == p * s
           m3 == q * be
           m4 == q * s
<1>5. m1 \in Int /\ m2 \in Int /\ m3 \in Int /\ m4 \in Int
  <2> HIDE DEF p, q, be
  <2> QED BY <1>1, <1>2
<1>6. ((m1 + m2) + (m3 + m4)) * h = (m1 * h + m2 * h) + (m3 * h + m4 * h)
  <2> HIDE DEF m1, m2, m3, m4
  <2>1. ((m1 + m2) + (m3 + m4)) * h = (m1 + m2) * h + (m3 + m4) * h
    BY <1>5
  <2>2. (m1 + m2) * h = m1 * h + m2 * h
    BY <1>5
  <2>3. (m3 + m4) * h = m3 * h + m4 * h
    BY <1>5
  <2> QED BY <2>1, <2>2, <2>3
<1>7. m1 * h = (e * e) * ((a * b) * t)
  OBVIOUS
<1>8. m2 * h = e * (sya * h)
  OBVIOUS
<1>9. m3 * h = e * (ryb * h)
  OBVIOUS
<1>10. e * ((ryb + sya) * h) = e * (ryb * h) + e * (sya * h)
  <2> DEFINE rh == ryb * h
             sh == sya * h
  <2>1. (ryb + sya) * h = rh + sh
    <3> HIDE DEF ryb, sya
    <3> QED BY <1>2
  <2>2. rh \in Int /\ sh \in Int
    <3> HIDE DEF ryb, sya
    <3> QED BY <1>2
  <2> HIDE DEF rh, sh
  <2>3. e * (rh + sh) = e * rh + e * sh
    BY <2>2
  <2> QED BY <2>1, <2>3 DEF rh, sh
<1> DEFINE n1 == m1 * h
           n2 == m2 * h
           n3 == m3 * h
           n4 == m4 * h
           k == e * ((ryb + sya) * h)
<1>11. n1 \in Int /\ n2 \in Int /\ n3 \in Int /\ n4 \in Int
  <2> HIDE DEF m1, m2, m3, m4
  <2> QED BY <1>5
<1>12. k = n3 + n2
  BY <1>8, <1>9, <1>10
<1>13. (((a * e + r) * yc) * (b * e + s)) * h = (n1 + n2) + (n3 + n4)
  BY <1>3, <1>4, <1>6
<1>14. (n1 + n2) + (n3 + n4) = n1 + (k + n4)
  <2> HIDE DEF n1, n2, n3, n4, k
  <2> QED BY <1>11, <1>12
<1> QED BY <1>7, <1>13, <1>14

LEMMA ResponseIs ==
    ASSUME NEW a \in Int, NEW e \in Int, NEW r \in Int, NEW g \in Int, NEW u \in Int, Cong(u, a * e + r)
    PROVE  Cong((u * e) * g, (e * e) * (a * g) + e * (r * g))
<1> DEFINE t == a * e + r
<1>1. t \in Int /\ Cong(u, t)
  OBVIOUS
<1> HIDE DEF t
<1>2. Cong(u * e, t * e)
  BY <1>1, CongTimes
<1>3. u * e \in Int /\ t * e \in Int
  BY <1>1
<1>4. Cong((u * e) * g, (t * e) * g)
  BY <1>2, <1>3, CongTimes
<1>5. (t * e) * g = (e * e) * (a * g) + e * (r * g)
  BY ResponseTimes DEF t
<1> QED BY <1>4, <1>5

LEMMA BlindsIs ==
    ASSUME NEW alpha \in Int, NEW e \in Int, NEW d \in Int, NEW eta \in Int, NEW g \in Int, NEW w \in Int,
           Cong(w, alpha * (e * e) + (d * e + eta))
    PROVE  Cong(w * g, (e * e) * (alpha * g) + (e * (d * g) + eta * g))
<1> DEFINE t == alpha * (e * e) + (d * e + eta)
<1>1. t \in Int /\ Cong(w, t)
  <2>1. e * e \in Int /\ d * e \in Int
    OBVIOUS
  <2>2. alpha * (e * e) \in Int
    BY <2>1
  <2> QED BY <2>1, <2>2
<1>2. t * g = (e * e) * (alpha * g) + (e * (d * g) + eta * g)
  BY BlindTimes
<1> HIDE DEF t
<1>3. Cong(w * g, t * g)
  BY <1>1, CongTimes
<1> QED BY <1>2, <1>3

LEMMA ProductIs ==
    ASSUME NEW a \in Int, NEW b \in Int, NEW e \in Int, NEW r \in Int, NEW s \in Int, NEW yc \in Int, NEW h \in Int,
           NEW u \in Int, NEW v \in Int, Cong(u, a * e + r), Cong(v, b * e + s)
    PROVE  Cong(((u * yc) * v) * h,
                (e * e) * ((a * b) * (yc * h)) + (e * (((r * yc) * b + (s * yc) * a) * h) + ((r * yc) * s) * h))
<1> DEFINE t == a * e + r
           k == b * e + s
<1>1. t \in Int /\ k \in Int /\ Cong(u, t) /\ Cong(v, k)
  OBVIOUS
<1>2. ((t * yc) * k) * h
         = (e * e) * ((a * b) * (yc * h)) + (e * (((r * yc) * b + (s * yc) * a) * h) + ((r * yc) * s) * h)
  BY ProductTimes
<1> HIDE DEF t, k
<1>3. Cong(u * yc, t * yc) /\ u * yc \in Int /\ t * yc \in Int
  <2>1. Cong(u * yc, t * yc)
    BY <1>1, CongTimes
  <2> QED BY <1>1, <2>1
<1> DEFINE p == u * yc
           q == t * yc
<1>4. Cong(p, q) /\ p \in Int /\ q \in Int
  BY <1>3
<1> HIDE DEF p, q
<1>5. Cong(p * v, q * k) /\ p * v \in Int /\ q * k \in Int
  BY <1>1, <1>4, CongOps
<1>6. Cong((p * v) * h, (q * k) * h)
  BY <1>5, CongTimes
<1> QED BY <1>2, <1>6 DEF p, q

Finishes(a, b, g, h, yc, e, r, s, d, eta, alpha, gx, hx, cross, p, w, u1, v1, w1, fold, a8, b8) ==
    LastBalances(fold, a8, b8, e, g, h, gx, hx, yc, u1, v1, w1)

LEMMA FinishArithmetic ==
    ASSUME NEW a \in Int, NEW b \in Int, NEW g \in Int, NEW h \in Int, NEW yc \in Int, NEW e \in Int,
           NEW r \in Int, NEW s \in Int, NEW d \in Int, NEW eta \in Int, NEW alpha \in Int,
           NEW gx \in Int, NEW hx \in Int, NEW cross \in Int, NEW p \in Int, NEW w \in Int,
           NEW u1 \in Int, NEW v1 \in Int, NEW w1 \in Int, NEW fold \in Int, NEW a8 \in Int, NEW b8 \in Int,
           Cong(u1, a * e + r), Cong(v1, b * e + s), Cong(w1, alpha * (e * e) + (d * e + eta)),
           Cong(cross, (r * yc) * b + (s * yc) * a), Cong(p, (r * yc) * s), Cong(w, yc),
           Cong(fold, ((a * g + b * h) + (a * b) * (w * hx)) + alpha * gx),
           Cong(a8, (r * g + s * h) + (d * gx + cross * hx)), Cong(b8, eta * gx + p * hx)
    PROVE  Finishes(a, b, g, h, yc, e, r, s, d, eta, alpha, gx, hx, cross, p, w, u1, v1, w1, fold, a8, b8)
<1> DEFINE ee == e * e
           ag == a * g
           bh == b * h
           ab == a * b
           yh == yc * hx
           abh == ab * yh
           lg == alpha * gx
           rg == r * g
           sh == s * h
           dg == d * gx
           mix == (r * yc) * b + (s * yc) * a
           ch == mix * hx
           eg == eta * gx
           ryse == (r * yc) * s
           rys == ryse * hx
           U == (u1 * e) * g
           V1 == (v1 * e) * h
           W == w1 * gx
           X == ((u1 * yc) * v1) * hx
<1>1. /\ ee \in Int /\ ag \in Int /\ bh \in Int /\ ab \in Int /\ yh \in Int /\ lg \in Int /\ rg \in Int
      /\ sh \in Int /\ dg \in Int /\ eg \in Int
  OBVIOUS
<1>2. mix \in Int /\ ryse \in Int
  <2>1. r * yc \in Int /\ s * yc \in Int
    OBVIOUS
  <2>2. (r * yc) * b \in Int /\ (s * yc) * a \in Int /\ (r * yc) * s \in Int
    BY <2>1
  <2> QED BY <2>2
<1>3. abh \in Int
  <2> HIDE DEF ab, yh
  <2> QED BY <1>1
<1>4. ch \in Int /\ rys \in Int
  <2> HIDE DEF mix, ryse
  <2> QED BY <1>2
<1>5. U \in Int /\ V1 \in Int
  <2>1. u1 * e \in Int /\ v1 * e \in Int
    OBVIOUS
  <2> QED BY <2>1
<1>6. W \in Int /\ X \in Int
  <2>1. u1 * yc \in Int
    OBVIOUS
  <2>2. (u1 * yc) * v1 \in Int
    BY <2>1
  <2> QED BY <2>2
<1>7. Cong(U, ee * ag + e * rg)
  BY ResponseIs
<1>8. Cong(V1, ee * bh + e * sh)
  BY ResponseIs
<1>9. Cong(W, ee * lg + (e * dg + eg))
  BY BlindsIs
<1>10. Cong(X, ee * abh + (e * ch + rys))
  BY ProductIs
<1>11. Cong(fold, ((ag + bh) + abh) + lg)
  <2>0. Cong(w * hx, yh)
    BY CongTimes
  <2>1. Cong(w * hx, yh) /\ w * hx \in Int
    BY <2>0
  <2> DEFINE wh == w * hx
  <2>2. Cong(wh, yh) /\ wh \in Int
    BY <2>1
  <2>3. Cong(fold, ((ag + bh) + ab * wh) + lg)
    OBVIOUS
  <2> HIDE DEF wh, ag, bh, ab, yh, lg
  <2>4. Cong(ab * wh, ab * yh) /\ ab * wh \in Int /\ ab * yh \in Int
    BY <1>1, <2>2, CongTimes
  <2> DEFINE i == ab * wh
             j == ab * yh
             k == ag + bh
  <2>5. i \in Int /\ j \in Int /\ k \in Int /\ Cong(i, j)
    BY <1>1, <2>4
  <2>6. Cong(fold, (k + i) + lg)
    BY <2>3
  <2> HIDE DEF i, j, k
  <2>7. Cong(k + i, k + j) /\ k + i \in Int /\ k + j \in Int
    BY <2>5, CongPlus
  <2>8. Cong((k + i) + lg, (k + j) + lg)
    BY <1>1, <2>7, CongPlus
  <2>9. Cong(fold, (k + j) + lg)
    BY <2>6, <2>8, CongEquiv
  <2> QED BY <2>9 DEF k, j
<1>12. Cong(a8, (rg + sh) + (dg + ch))
  <2>0. Cong(cross * hx, ch)
    <3>1. Cong(cross, mix)
      OBVIOUS
    <3> HIDE DEF mix
    <3> QED BY <1>2, <3>1, CongTimes
  <2>1. Cong(cross * hx, ch) /\ cross * hx \in Int
    BY <2>0
  <2> DEFINE i == cross * hx
             k == rg + sh
  <2>2. Cong(i, ch) /\ i \in Int /\ k \in Int
    BY <2>1
  <2>3. Cong(a8, k + (dg + i))
    OBVIOUS
  <2> HIDE DEF i, k, dg, ch
  <2>4. Cong(dg + i, dg + ch) /\ dg + i \in Int /\ dg + ch \in Int
    BY <1>1, <1>4, <2>2, CongPlus
  <2>5. Cong(k + (dg + i), k + (dg + ch))
    BY <2>2, <2>4, CongPlus
  <2>6. Cong(a8, k + (dg + ch))
    BY <2>3, <2>5, CongEquiv
  <2> QED BY <2>6 DEF k
<1>13. Cong(b8, eg + rys)
  <2>0. Cong(p * hx, rys)
    <3>1. Cong(p, ryse)
      OBVIOUS
    <3> HIDE DEF ryse
    <3> QED BY <1>2, <3>1, CongTimes
  <2>1. Cong(p * hx, rys) /\ p * hx \in Int
    BY <2>0
  <2> DEFINE i == p * hx
  <2>2. Cong(i, rys) /\ i \in Int
    BY <2>1
  <2>3. Cong(b8, eg + i)
    OBVIOUS
  <2> HIDE DEF i, eg, rys
  <2>4. Cong(eg + i, eg + rys)
    BY <1>1, <1>4, <2>2, CongPlus
  <2> QED BY <2>3, <2>4, CongEquiv
<1> HIDE DEF ee, ag, bh, ab, yh, abh, lg, rg, sh, dg, mix, ch, eg, ryse, rys, U, V1, W, X
<1> DEFINE f0 == ((ag + bh) + abh) + lg
           a0 == (rg + sh) + (dg + ch)
<1>14. f0 \in Int /\ a0 \in Int
  BY <1>1, <1>3, <1>4
<1>15. Cong(ee * fold, ee * f0) /\ Cong(e * a8, e * a0)
  <2>1. Cong(fold, f0) /\ Cong(a8, a0)
    BY <1>11, <1>12
  <2> HIDE DEF f0, a0
  <2> QED BY <1>1, <1>14, <2>1, CongTimes
<1>16. ee * f0 = ((ee * ag + ee * bh) + ee * abh) + ee * lg
  <2>1. ee * f0 = ee * ((ag + bh) + abh) + ee * lg
    BY <1>1, <1>3
  <2>2. ee * ((ag + bh) + abh) = ee * (ag + bh) + ee * abh
    BY <1>1, <1>3
  <2>3. ee * (ag + bh) = ee * ag + ee * bh
    BY <1>1
  <2> QED BY <2>1, <2>2, <2>3
<1>17. e * a0 = (e * rg + e * sh) + (e * dg + e * ch)
  <2>1. e * a0 = e * (rg + sh) + e * (dg + ch)
    BY <1>1, <1>4
  <2>2. e * (rg + sh) = e * rg + e * sh
    BY <1>1
  <2>3. e * (dg + ch) = e * dg + e * ch
    BY <1>1, <1>4
  <2> QED BY <2>1, <2>2, <2>3
<1> DEFINE i1 == ee * ag
           i2 == ee * bh
           i3 == ee * abh
           i4 == ee * lg
           j1 == e * rg
           j2 == e * sh
           j3 == e * dg
           j4 == e * ch
           F == ee * fold
           K == e * a8
<1>18. /\ i1 \in Int /\ i2 \in Int /\ i3 \in Int /\ i4 \in Int
       /\ j1 \in Int /\ j2 \in Int /\ j3 \in Int /\ j4 \in Int /\ F \in Int /\ K \in Int
  BY <1>1, <1>3, <1>4
<1>19. Cong(F, ((i1 + i2) + i3) + i4) /\ Cong(K, (j1 + j2) + (j3 + j4))
  BY <1>15, <1>16, <1>17
<1>20. Cong(U, i1 + j1) /\ Cong(V1, i2 + j2) /\ Cong(W, i4 + (j3 + eg)) /\ Cong(X, i3 + (j4 + rys))
  BY <1>7, <1>8, <1>9, <1>10
<1> HIDE DEF f0, a0, i1, i2, i3, i4, j1, j2, j3, j4, F, K
<1>21. Cong(K + b8, ((j1 + j2) + (j3 + j4)) + (eg + rys))
  <2>1. (j1 + j2) + (j3 + j4) \in Int /\ eg + rys \in Int
    BY <1>1, <1>4, <1>18
  <2> QED BY <1>13, <1>18, <1>19, <2>1, CongOps
<1>22. Cong(F + (K + b8), (((i1 + i2) + i3) + i4) + (((j1 + j2) + (j3 + j4)) + (eg + rys)))
  <2>1. ((i1 + i2) + i3) + i4 \in Int /\ ((j1 + j2) + (j3 + j4)) + (eg + rys) \in Int /\ K + b8 \in Int
    BY <1>1, <1>4, <1>18
  <2> QED BY <1>18, <1>19, <1>21, <2>1, CongOps
<1>23. Cong(U + V1, (i1 + j1) + (i2 + j2))
  <2>1. i1 + j1 \in Int /\ i2 + j2 \in Int
    BY <1>18
  <2> QED BY <1>5, <1>20, <2>1, CongOps
<1>24. Cong(W + X, (i4 + (j3 + eg)) + (i3 + (j4 + rys)))
  <2>1. i4 + (j3 + eg) \in Int /\ i3 + (j4 + rys) \in Int
    BY <1>1, <1>4, <1>18
  <2> QED BY <1>6, <1>20, <2>1, CongOps
<1>25. Cong((U + V1) + (W + X), ((i1 + j1) + (i2 + j2)) + ((i4 + (j3 + eg)) + (i3 + (j4 + rys))))
  <2>1. /\ (i1 + j1) + (i2 + j2) \in Int /\ (i4 + (j3 + eg)) + (i3 + (j4 + rys)) \in Int
        /\ U + V1 \in Int /\ W + X \in Int
    BY <1>1, <1>4, <1>5, <1>6, <1>18
  <2> QED BY <1>23, <1>24, <2>1, CongOps
<1>26. (((i1 + i2) + i3) + i4) + (((j1 + j2) + (j3 + j4)) + (eg + rys))
          = ((i1 + j1) + (i2 + j2)) + ((i4 + (j3 + eg)) + (i3 + (j4 + rys)))
  BY <1>1, <1>4, <1>18
<1>27. Cong(F + (K + b8), (U + V1) + (W + X))
  BY <1>22, <1>25, <1>26, CongEquiv
<1> QED BY <1>27 DEF Finishes, LastBalances, F, K, U, V1, W, X, ee

-----------------------------------------------------------------------------
(* Both sides of the equation, base by base.                                    *)

LEMMA SlotOne == \A j \in Nat \ {0} : Slot(j, 1) = 1
<1> SUFFICES ASSUME NEW j \in Nat \ {0} PROVE Slot(j, 1) = 1
  OBVIOUS
<1>1. 1 \in Nat \ {0}
  OBVIOUS
<1>2. Slot(j, 1) \in 1 .. 1
  BY <1>1, SlotIs
<1> QED BY <1>2

\* The multiples of the bases that make up what the last of them was folded to.
SpreadsBase(s, q, v, x) == s \in Points /\ Cong(s[x], q * v[x])

LEMMA SpreadOfBase ==
    ASSUME NEW bits \in 0 .. Vectors, NEW kind \in {"Gi", "Hi"}, NEW w \in Scalars,
           NEW fac \in [1 .. bits -> Int], NEW v, v[1] \in Points, BasesAre(v, kind, w, fac, 1, bits),
           NEW q \in Int, NEW cs, \A k \in 1 .. bits : cs[k] \in Int,
           \A k \in 1 .. bits : Cong(cs[k], q * (Pw(w)[k - 1] * fac[k])), NEW x \in Bases
    PROVE  SpreadsBase(Spread(kind, cs, bits), q, v[1], x)
<1> DEFINE s == Spread(kind, cs, bits)
           vx == v[1][x]
<1>0. bits \in Nat
  BY BaseAssumption
<1>1. /\ s \in Points
      /\ \A j \in 1 .. bits : <<kind, j>> \in Bases /\ Cong(s[<<kind, j>>], cs[j])
      /\ (\A j \in 1 .. bits : x # <<kind, j>>) => s[x] = 0
  BY SpreadIs
<1> HIDE DEF s
<1>2. vx \in Int /\ Cong(vx, Share(kind, w, fac, 1, bits, 1, x))
  <2>1. 1 \in 1 .. 1
    OBVIOUS
  <2> QED BY <2>1, CoordinateIsInt DEF BasesAre
<1> HIDE DEF vx
<1>3. Cong(s[x], q * vx)
  <2>1. CASE \E j \in 1 .. bits : x = <<kind, j>>
    <3>1. PICK j \in 1 .. bits : x = <<kind, j>>
      BY <2>1
    <3> DEFINE sh == Pw(w)[j - 1] * fac[j]
    <3>2. j - 1 \in Nat /\ w \in Int /\ j \in Nat \ {0}
      BY <1>0, QIs
    <3>3. Pw(w)[j - 1] \in Int /\ fac[j] \in Int
      BY <3>2, PwIs
    <3>4. sh \in Int
      BY <3>3
    <3>5. Slot(j, 1) = 1
      BY <3>2, SlotOne
    <3>6. ShareOf(kind, w, fac, 1, bits, 1, j)
      BY ShareIs, Zenon
    <3>7. Share(kind, w, fac, 1, bits, 1, x) = sh
      BY <3>1, <3>5, <3>6 DEF ShareOf
    <3>8. Cong(s[x], cs[j]) /\ Cong(cs[j], q * sh)
      BY <1>1, <3>1
    <3> HIDE DEF sh
    <3>9. Cong(sh, vx)
      BY <1>2, <3>7, CongEquiv
    <3>10. Cong(q * sh, q * vx)
      BY <1>2, <3>4, <3>9, CongTimes
    <3> QED BY <3>8, <3>10, CongEquiv
  <2>2. CASE \A j \in 1 .. bits : x # <<kind, j>>
    <3>1. s[x] = 0
      BY <1>1, <2>2
    <3>2. Share(kind, w, fac, 1, bits, 1, x) = 0
      BY <2>2, NoShare
    <3>3. Cong(0, vx)
      BY <1>2, <3>2, CongEquiv
    <3>4. Cong(q * 0, q * vx)
      BY <1>2, <3>3, CongTimes, 0 \in Int
    <3>5. q * 0 = 0
      OBVIOUS
    <3> QED BY <3>1, <3>4, <3>5
  <2> QED BY <2>1, <2>2
<1> QED BY <1>1, <1>3 DEF SpreadsBase, s, vx

LEMMA CoefficientIs ==
    ASSUME NEW u \in Int, NEW e \in Int, NEW p \in Int, NEW f \in Int
    PROVE  /\ ScMul(ScMul(u, e), ScMul(p, f)) \in Int
           /\ Cong(ScMul(ScMul(u, e), ScMul(p, f)), (u * e) * (p * f))
           /\ ScMul(ScMul(u, e), f) \in Int
           /\ Cong(ScMul(ScMul(u, e), f), (u * e) * f)
<1> DEFINE q == ScMul(u, e)
           t == ScMul(p, f)
           ue == u * e
           pf == p * f
<1>1. ue \in Int /\ pf \in Int
  OBVIOUS
<1>2. q \in Scalars /\ Cong(q, ue) /\ t \in Scalars /\ Cong(t, pf)
  BY ScalarOps
<1>3. q \in Int /\ t \in Int
  BY <1>2, QIs
<1> HIDE DEF q, t, ue, pf
<1>4. /\ ScMul(q, t) \in Scalars /\ Cong(ScMul(q, t), q * t)
      /\ ScMul(q, f) \in Scalars /\ Cong(ScMul(q, f), q * f)
  BY <1>3, ScalarOps
<1>5. Cong(q * t, ue * pf)
  BY <1>1, <1>2, <1>3, CongOps
<1>6. Cong(q * f, ue * f)
  BY <1>1, <1>2, <1>3, CongTimes
<1>7. Cong(ScMul(q, t), ue * pf) /\ Cong(ScMul(q, f), ue * f)
  BY <1>4, <1>5, <1>6, CongEquiv
<1>8. ScMul(q, t) \in Int /\ ScMul(q, f) \in Int
  BY <1>4, QIs
<1> QED BY <1>7, <1>8 DEF q, t, ue, pf

\* The first two sums on the right hand side.
GSum(u, e, yc, cs, bits) ==
    SumPoints([k \in 1 .. bits |-> ScalarMult(
        ScMul(ScMul(u, e), ScMul(Powers(Invert(yc), bits)[k], BaseFactor(cs, k))), PointOf(BaseGi(k)))])
HSum(v, e, cs, bits) ==
    SumPoints([k \in 1 .. bits |-> ScalarMult(
        ScMul(ScMul(v, e), BaseFactor(cs, bits + 1 - k)), PointOf(BaseHi(k)))])

LEMMA GSumIs ==
    ASSUME NEW bits \in 0 .. Vectors, NEW yc \in Scalars, yc # 0, NEW u \in Int, NEW e \in Int,
           NEW fac \in [1 .. bits -> Scalars], NEW cs, \A k \in 1 .. bits : BaseFactor(cs, k) = fac[k],
           NEW v, v[1] \in Points, BasesAre(v, "Gi", Invert(yc), fac, 1, bits), NEW x \in Bases
    PROVE  SpreadsBase(GSum(u, e, yc, cs, bits), u * e, v[1], x)
<1> DEFINE w == Invert(yc)
           coef == [k \in 1 .. bits |-> ScMul(ScMul(u, e), ScMul(Powers(w, bits)[k], fac[k]))]
           ue == u * e
<1>0. bits \in Nat
  BY BaseAssumption
<1>1. w \in Scalars /\ w \in Int
  BY InvertIs
<1>2. fac \in [1 .. bits -> Int]
  BY QIs
<1>3. ue \in Int
  OBVIOUS
<1> HIDE DEF w
<1>4. Powers(w, bits) = [i \in 1 .. bits |-> Pw(w)[i - 1]]
  BY <1>0, <1>1, PowersIs
<1>5. ASSUME NEW k \in 1 .. bits PROVE coef[k] \in Int /\ Cong(coef[k], ue * (Pw(w)[k - 1] * fac[k]))
  <2> DEFINE p == Pw(w)[k - 1]
             f == fac[k]
  <2>1. Powers(w, bits)[k] = p
    BY <1>4
  <2>2. k - 1 \in Nat
    BY <1>0
  <2>3. p \in Int /\ f \in Int
    BY <1>1, <1>2, <2>2, PwIs
  <2>4. coef[k] = ScMul(ScMul(u, e), ScMul(p, f))
    BY <2>1
  <2> HIDE DEF p, f, coef
  <2>5. ScMul(ScMul(u, e), ScMul(p, f)) \in Int /\ Cong(ScMul(ScMul(u, e), ScMul(p, f)), (u * e) * (p * f))
    BY <2>3, CoefficientIs
  <2> QED BY <2>4, <2>5 DEF p, f
<1>6. GSum(u, e, yc, cs, bits) = Spread("Gi", coef, bits)
  <2>1. ASSUME NEW k \in 1 .. bits
        PROVE  ScalarMult(ScMul(ScMul(u, e), ScMul(Powers(w, bits)[k], BaseFactor(cs, k))), PointOf(BaseGi(k)))
                  = ScalarMult(coef[k], PointOf(<<"Gi", k>>))
    BY DEF BaseGi
  <2>2. [k \in 1 .. bits |->
            ScalarMult(ScMul(ScMul(u, e), ScMul(Powers(w, bits)[k], BaseFactor(cs, k))), PointOf(BaseGi(k)))]
          = [k \in 1 .. bits |-> ScalarMult(coef[k], PointOf(<<"Gi", k>>))]
    <3> HIDE DEF coef
    <3> QED BY <2>1
  <2> HIDE DEF coef
  <2> QED BY <2>2, Zenon DEF GSum, Spread, w
<1>7. BasesAre(v, "Gi", w, fac, 1, bits) /\ "Gi" \in {"Gi", "Hi"}
  BY DEF w
<1> HIDE DEF coef, ue
<1>8. SpreadsBase(Spread("Gi", coef, bits), ue, v[1], x)
  BY <1>1, <1>2, <1>3, <1>5, <1>7, SpreadOfBase, Zenon
<1> QED BY <1>6, <1>8 DEF ue

LEMMA HSumIs ==
    ASSUME NEW bits \in 0 .. Vectors, NEW u \in Int, NEW e \in Int,
           NEW fac \in [1 .. bits -> Scalars], NEW cs, \A k \in 1 .. bits : BaseFactor(cs, k) = fac[k],
           NEW v, v[1] \in Points, BasesAre(v, "Hi", 1, Mirror(fac, bits), 1, bits), NEW x \in Bases
    PROVE  SpreadsBase(HSum(u, e, cs, bits), u * e, v[1], x)
<1> DEFINE mir == Mirror(fac, bits)
           coef == [k \in 1 .. bits |-> ScMul(ScMul(u, e), mir[k])]
           ue == u * e
<1>0. bits \in Nat
  BY BaseAssumption
<1>1. 1 \in Scalars /\ "Hi" \in {"Gi", "Hi"}
  BY QIs
<1>2. /\ mir \in [1 .. bits -> Int]
      /\ \A k \in 1 .. bits : mir[k] = fac[(bits + 1) - k] /\ (bits + 1) - k \in 1 .. bits /\ bits + 1 - k = (bits + 1) - k
  <2>1. \A k \in 1 .. bits : (bits + 1) - k \in 1 .. bits /\ bits + 1 - k = (bits + 1) - k
    BY <1>0
  <2>2. \A k \in 1 .. bits : mir[k] = fac[(bits + 1) - k]
    BY DEF Mirror
  <2>3. \A k \in 1 .. bits : fac[(bits + 1) - k] \in Int
    BY <2>1, QIs
  <2> QED BY <2>1, <2>2, <2>3 DEF Mirror
<1>3. ue \in Int
  OBVIOUS
<1> HIDE DEF mir
<1>5. ASSUME NEW k \in 1 .. bits PROVE coef[k] \in Int /\ Cong(coef[k], ue * (Pw(1)[k - 1] * mir[k]))
  <2> DEFINE f == mir[k]
  <2>1. f \in Int
    BY <1>2
  <2>2. k - 1 \in Nat
    BY <1>0
  <2>3. Pw(1)[k - 1] = 1
    BY <2>2, PwOne
  <2>4. coef[k] = ScMul(ScMul(u, e), f)
    OBVIOUS
  <2> HIDE DEF f, coef
  <2>5. ScMul(ScMul(u, e), f) \in Int /\ Cong(ScMul(ScMul(u, e), f), (u * e) * f)
    BY <2>1, CoefficientIs
  <2>6. 1 * f = f
    BY <2>1
  <2> QED BY <2>3, <2>4, <2>5, <2>6 DEF f
<1>6. HSum(u, e, cs, bits) = Spread("Hi", coef, bits)
  <2>1. ASSUME NEW k \in 1 .. bits
        PROVE  ScalarMult(ScMul(ScMul(u, e), BaseFactor(cs, bits + 1 - k)), PointOf(BaseHi(k)))
                  = ScalarMult(coef[k], PointOf(<<"Hi", k>>))
    <3>1. BaseFactor(cs, bits + 1 - k) = mir[k]
      BY <1>2
    <3> QED BY <3>1 DEF BaseHi
  <2>2. [k \in 1 .. bits |-> ScalarMult(ScMul(ScMul(u, e), BaseFactor(cs, bits + 1 - k)), PointOf(BaseHi(k)))]
          = [k \in 1 .. bits |-> ScalarMult(coef[k], PointOf(<<"Hi", k>>))]
    <3> HIDE DEF coef
    <3> QED BY <2>1
  <2> HIDE DEF coef
  <2> QED BY <2>2, Zenon DEF HSum, Spread
<1>7. BasesAre(v, "Hi", 1, mir, 1, bits)
  BY DEF mir
<1> HIDE DEF coef, ue
<1>8. SpreadsBase(Spread("Hi", coef, bits), ue, v[1], x)
  BY <1>1, <1>2, <1>3, <1>5, <1>7, SpreadOfBase, Zenon
<1> QED BY <1>6, <1>8 DEF ue

RightComes(p, u, v, w, e, yc, g, h, x) ==
    p \in Points /\ Cong(p[x], ((u * e) * g + (v * e) * h) + (w * G[x] + ((u * yc) * v) * H[x]))

LEMMA RightSideIs ==
    ASSUME NEW bits \in 0 .. Vectors, NEW yc \in Scalars, yc # 0, NEW u \in Scalars, NEW v \in Scalars,
           NEW w \in Scalars, NEW e \in Scalars, NEW fac \in [1 .. bits -> Scalars],
           NEW cs, \A k \in 1 .. bits : BaseFactor(cs, k) = fac[k],
           NEW gs, gs[1] \in Points, BasesAre(gs, "Gi", Invert(yc), fac, 1, bits),
           NEW hs, hs[1] \in Points, BasesAre(hs, "Hi", 1, Mirror(fac, bits), 1, bits), NEW x \in Bases,
           NEW proof, proof.r1 = u, proof.s1 = v, proof.d1 = w
    PROVE  RightComes(RightSide(e, yc, cs, proof, bits), u, v, w, e, yc, gs[1][x], hs[1][x], x)
<1> DEFINE gp == GSum(u, e, yc, cs, bits)
           hp == HSum(v, e, cs, bits)
           uy == ScMul(u, yc)
           t == ScMul(uy, v)
           k == AddKeys2(w, t, H)
           g == gs[1][x]
           h == hs[1][x]
           gx == G[x]
           hx == H[x]
           ue == u * e
           ve == v * e
           uyv == (u * yc) * v
<1>1. u \in Int /\ v \in Int /\ w \in Int /\ e \in Int /\ yc \in Int
  BY QIs
<1>2. SpreadsBase(gp, ue, gs[1], x)
  BY <1>1, GSumIs, Zenon
<1>3. SpreadsBase(hp, ve, hs[1], x)
  BY <1>1, HSumIs, Zenon
<1>4. RightSide(e, yc, cs, proof, bits) = AddPoints(AddPoints(gp, hp), k)
  BY Zenon DEF RightSide, GSum, HSum
<1>5. g \in Int /\ h \in Int /\ gx \in Int /\ hx \in Int
  BY CoordinateIsInt, PointsAre
<1>6. ue \in Int /\ ve \in Int /\ u * yc \in Int
  BY <1>1
<1>7. uyv \in Int
  BY <1>1, <1>6
<1>8. t \in Int /\ Cong(t, uyv)
  <2> DEFINE q == u * yc
  <2>1. uy \in Scalars /\ Cong(uy, q) /\ q \in Int
    BY <1>1, <1>6, ScalarOps
  <2>2. uy \in Int
    BY <2>1, QIs
  <2> HIDE DEF uy, q
  <2>3. t \in Scalars /\ Cong(t, uy * v)
    BY <1>1, <2>2, ScalarOps
  <2>4. Cong(uy * v, q * v)
    BY <1>1, <2>1, <2>2, CongTimes
  <2>5. Cong(t, q * v)
    BY <2>3, <2>4, CongEquiv
  <2>6. t \in Int
    BY <2>3, QIs
  <2> QED BY <2>5, <2>6 DEF q
<1> HIDE DEF t
<1>9. k \in Points /\ Cong(k[x], w * gx + t * hx)
  BY <1>1, <1>8, AddKeys2Is
<1>10. /\ gp \in Points /\ Cong(gp[x], ue * g)
       /\ hp \in Points /\ Cong(hp[x], ve * h)
  BY <1>2, <1>3 DEF SpreadsBase
<1> HIDE DEF gp, hp, k, g, h, gx, hx, ue, ve, uyv
<1>11. gp[x] \in Int /\ hp[x] \in Int /\ k[x] \in Int
  BY <1>9, <1>10, CoordinateIsInt
<1>12. AddPoints(gp, hp) \in Points /\ Cong(AddPoints(gp, hp)[x], gp[x] + hp[x])
  <2>1. 0 \in Int
    OBVIOUS
  <2> QED BY <1>10, <2>1, PointOps
<1> DEFINE s == AddPoints(gp, hp)
<1>13. s \in Points /\ s[x] \in Int /\ Cong(s[x], gp[x] + hp[x])
  BY <1>12, CoordinateIsInt
<1> HIDE DEF s
<1>14. AddPoints(s, k) \in Points /\ Cong(AddPoints(s, k)[x], s[x] + k[x])
  <2>1. 0 \in Int
    OBVIOUS
  <2> QED BY <1>9, <1>13, <2>1, PointOps
<1> DEFINE m1 == ue * g
           m2 == ve * h
           m3 == w * gx
           m4 == t * hx
           m5 == uyv * hx
<1>15. m1 \in Int /\ m2 \in Int /\ m3 \in Int /\ m4 \in Int /\ m5 \in Int
  BY <1>1, <1>5, <1>6, <1>7, <1>8
<1>16. Cong(m4, m5)
  BY <1>5, <1>7, <1>8, CongTimes
<1>17. Cong(gp[x], m1) /\ Cong(hp[x], m2) /\ Cong(k[x], m3 + m4)
  BY <1>9, <1>10
<1> HIDE DEF m1, m2, m3, m4, m5
<1>18. Cong(gp[x] + hp[x], m1 + m2) /\ m1 + m2 \in Int /\ gp[x] + hp[x] \in Int
  <2>1. Cong(gp[x] + hp[x], m1 + m2)
    BY <1>11, <1>15, <1>17, CongOps
  <2> QED BY <1>11, <1>15, <2>1
<1>19. Cong(m3 + m4, m3 + m5) /\ m3 + m4 \in Int /\ m3 + m5 \in Int
  BY <1>15, <1>16, CongPlus
<1>20. Cong(s[x], m1 + m2) /\ Cong(k[x], m3 + m5)
  BY <1>13, <1>17, <1>18, <1>19, CongEquiv
<1>21. Cong(s[x] + k[x], (m1 + m2) + (m3 + m5))
  BY <1>11, <1>13, <1>18, <1>19, <1>20, CongOps
<1>22. Cong(AddPoints(s, k)[x], (m1 + m2) + (m3 + m5))
  BY <1>14, <1>21, CongEquiv
<1> QED BY <1>4, <1>14, <1>22 DEF RightComes, s, m1, m2, m3, m5, g, h, gx, hx, ue, ve, uyv

\* What the rounds add.
RoundsAt(cs, ls, rs, r, x) == SumFunction([i \in 1 .. r |-> RoundPoint(cs[i], ls[i], rs[i])[x]])

LeftComes(p, e, start, sum, a1, b1, x) ==
    /\ p \in Points /\ sum \in Int
    /\ Cong(p[x], (e * e) * (start[x] + sum) + (e * (8 * a1[x]) + 8 * b1[x]))

LEMMA LeftSideIs ==
    ASSUME NEW e \in Scalars, NEW start \in Points, NEW r \in Nat,
           NEW cs, cs = [i \in 1 .. r |-> cs[i]], \A i \in 1 .. r : cs[i] \in Scalars /\ cs[i] # 0,
           NEW proof, \A i \in 1 .. r : proof.L[i] \in Points /\ proof.R[i] \in Points,
           proof.A1 \in Points, proof.B \in Points, NEW x \in Bases
    PROVE  LeftComes(LeftSide(e, start, cs, proof), e, start, RoundsAt(cs, proof.L, proof.R, r, x),
                     proof.A1, proof.B, x)
<1> DEFINE ps == [i \in 1 .. r |-> RoundPoint(cs[i], proof.L[i], proof.R[i])]
           sums == SumPoints(ps)
           sum == RoundsAt(cs, proof.L, proof.R, r, x)
           a1 == proof.A1
           b1 == proof.B
           folded == AddPoints(start, sums)
           e2 == ScMul(e, e)
           e8 == ScMul(8, e)
           p == ScalarMult(e2, folded)
           q == ScalarMult(e8, a1)
           t == ScalarMult(8, b1)
           ee == e * e
<1>1. e \in Int /\ 8 \in Int
  BY QIs
<1>2. ASSUME NEW i \in 1 .. r PROVE RoundPoint(cs[i], proof.L[i], proof.R[i]) \in Points
  <2>1. AddsPoint(cs[i], proof.L[i], proof.R[i], x)
    BY RoundAdds, Zenon
  <2> QED BY <2>1 DEF AddsPoint
<1>3. ps \in [1 .. r -> Points]
  BY <1>2
<1>4. At(ps, r, x) = [i \in 1 .. r |-> RoundPoint(cs[i], proof.L[i], proof.R[i])[x]]
  BY DEF At
<1>5. sums \in Points /\ sum \in Int /\ Cong(sums[x], sum)
  <2>1. sum = SumFunction(At(ps, r, x))
    BY <1>4 DEF RoundsAt
  <2> HIDE DEF ps, sum
  <2> QED BY <1>3, <2>1, SumPointsIs
<1>6. LeftSide(e, start, cs, proof) = AddPoints(p, AddPoints(q, t))
  <2>1. DOMAIN cs = 1 .. r
    OBVIOUS
  <2>2. [i \in DOMAIN cs |-> RoundPoint(cs[i], proof.L[i], proof.R[i])] = ps
    BY <2>1
  <2> HIDE DEF ps
  <2> QED BY <2>2, Zenon DEF LeftSide
<1> HIDE DEF ps, sums, sum
<1>7. folded \in Points /\ Cong(folded[x], start[x] + sums[x])
  BY <1>1, <1>5, PointOps
<1>8. start[x] \in Int /\ sums[x] \in Int /\ folded[x] \in Int /\ a1[x] \in Int /\ b1[x] \in Int
  BY <1>5, <1>7, CoordinateIsInt
<1>9. Cong(folded[x], start[x] + sum) /\ start[x] + sum \in Int
  <2>1. Cong(start[x] + sums[x], start[x] + sum)
    BY <1>5, <1>8, CongPlus
  <2> QED BY <1>5, <1>7, <1>8, <2>1, CongEquiv
<1>10. e2 \in Int /\ Cong(e2, ee) /\ e8 \in Int /\ Cong(e8, 8 * e) /\ ee \in Int
  <2>1. e2 \in Scalars /\ Cong(e2, ee) /\ e8 \in Scalars /\ Cong(e8, 8 * e)
    BY <1>1, ScalarOps
  <2>2. ee \in Int
    BY <1>1
  <2> QED BY <2>1, <2>2, QIs
<1> HIDE DEF folded, e2, e8, ee, a1, b1
<1>11. /\ p \in Points /\ Cong(p[x], e2 * folded[x])
       /\ q \in Points /\ Cong(q[x], e8 * a1[x])
       /\ t \in Points /\ Cong(t[x], 8 * b1[x])
  <2>1. a1 \in Points /\ b1 \in Points
    BY DEF a1, b1
  <2>2. p \in Points /\ Cong(p[x], e2 * folded[x])
    BY <1>7, <1>10, PointOps
  <2>3. q \in Points /\ Cong(q[x], e8 * a1[x])
    BY <1>10, <2>1, PointOps
  <2>4. t \in Points /\ Cong(t[x], 8 * b1[x])
    BY <1>1, <2>1, PointOps
  <2> QED BY <2>2, <2>3, <2>4
<1> HIDE DEF p, q, t
<1>12. p[x] \in Int /\ q[x] \in Int /\ t[x] \in Int
  BY <1>11, CoordinateIsInt
<1> DEFINE f == folded[x]
           f2 == start[x] + sum
           ax == a1[x]
           bx == b1[x]
           k1 == ee * f2
           k2 == e * (8 * ax)
           k3 == 8 * bx
<1>13. f \in Int /\ f2 \in Int /\ ax \in Int /\ bx \in Int /\ Cong(f, f2)
  BY <1>8, <1>9
<1>14. Cong(p[x], e2 * f) /\ Cong(q[x], e8 * ax) /\ Cong(t[x], k3)
  BY <1>11
<1> HIDE DEF f, f2, ax, bx
<1>15. k1 \in Int /\ k2 \in Int /\ k3 \in Int
  <2>1. k1 \in Int
    BY <1>10, <1>13
  <2>2. k2 \in Int
    <3>1. 8 * ax \in Int
      BY <1>13
    <3> QED BY <1>1, <1>10, <3>1
  <2>3. k3 \in Int
    BY <1>13
  <2> QED BY <2>1, <2>2, <2>3
<1>16. Cong(p[x], k1)
  <2>1. Cong(e2 * f, ee * f2)
    BY <1>10, <1>13, CongOps
  <2> QED BY <1>14, <2>1, CongEquiv
<1>17. Cong(q[x], k2)
  <2>1. 8 * e \in Int
    BY <1>1
  <2>2. Cong(e8 * ax, (8 * e) * ax)
    BY <1>10, <1>13, <2>1, CongTimes
  <2>3. (8 * e) * ax = k2
    BY <1>1, <1>13
  <2> QED BY <1>14, <2>2, <2>3, CongEquiv
<1> HIDE DEF k1, k2, k3
<1>18. AddPoints(q, t) \in Points /\ Cong(AddPoints(q, t)[x], q[x] + t[x])
  BY <1>1, <1>11, PointOps
<1> DEFINE s == AddPoints(q, t)
<1>19. s \in Points /\ Cong(s[x], q[x] + t[x]) /\ s[x] \in Int
  BY <1>18, CoordinateIsInt
<1> HIDE DEF s
<1>20. AddPoints(p, s) \in Points /\ Cong(AddPoints(p, s)[x], p[x] + s[x])
  BY <1>1, <1>11, <1>19, PointOps
<1>21. Cong(q[x] + t[x], k2 + k3) /\ k2 + k3 \in Int /\ q[x] + t[x] \in Int
  <2>1. Cong(q[x] + t[x], k2 + k3)
    BY <1>12, <1>14, <1>15, <1>17, CongOps
  <2> QED BY <1>12, <1>15, <2>1
<1>22. Cong(s[x], k2 + k3)
  BY <1>19, <1>21, CongEquiv
<1>23. Cong(p[x] + s[x], k1 + (k2 + k3))
  BY <1>12, <1>15, <1>16, <1>19, <1>21, <1>22, CongOps
<1>24. Cong(AddPoints(p, s)[x], k1 + (k2 + k3))
  BY <1>20, <1>23, CongEquiv
<1> QED BY <1>5, <1>6, <1>20, <1>24 DEF LeftComes, s, k1, k2, k3, f2, ax, bx, ee, a1, b1, sum

-----------------------------------------------------------------------------
(* What holds between two rounds: t are left, and the challenges, factors and   *)
(* points of those that are done account for what the vectors stand for.        *)

TermsOf(yc, a, b, g, h, n, x) ==
    [k \in 1 .. n |-> (a[k] * g[k][x] + b[k] * h[k][x]) + (a[k] * b[k]) * (Pw(yc)[k] * H[x])]

StandFor(yc, a, b, g, h, n, al, start, cs, ls, rs, x) ==
    Cong(SumFunction(TermsOf(yc, a, b, g, h, n, x)) + al * G[x], start[x] + RoundsAt(cs, ls, rs, Len(ls), x))

RoundingOf(f, chal, prod, t, last, yc, zc, a, b, g, h, ls, rs, al, start, bits) ==
    /\ TwoTo[t + Len(ls)] = bits
    /\ VectorsOf(a, b, g, h, TwoTo[t])
    /\ ChainOf(f, chal, Len(ls), ls, rs) /\ chal[0] = zc /\ chal[Len(ls)] = last
    /\ FactorsOf(prod, chal, t + Len(ls), Len(ls), bits)
    /\ BasesAre(g, "Gi", Invert(yc), prod[Len(ls)], TwoTo[t], bits)
    /\ BasesAre(h, "Hi", 1, Mirror(prod[Len(ls)], bits), TwoTo[t], bits)
    /\ start \in Points
    /\ \A x \in Bases : StandFor(yc, a, b, g, h, TwoTo[t], al, start, chal, ls, rs, x)

LEMMA NoRounds == \A cs, ls, rs, x : RoundsAt(cs, ls, rs, 0, x) = 0
<1> SUFFICES ASSUME NEW cs, NEW ls, NEW rs, NEW x PROVE RoundsAt(cs, ls, rs, 0, x) = 0
  OBVIOUS
<1> DEFINE f == [i \in 1 .. 0 |-> RoundPoint(cs[i], ls[i], rs[i])[x]]
<1>1. f \in [1 .. 0 -> Int]
  OBVIOUS
<1>2. RoundsAt(cs, ls, rs, 0, x) = SumFunction(f)
  BY DEF RoundsAt
<1> HIDE DEF f
<1> QED BY <1>1, <1>2, SumEmpty

RoundsMayStart(f, yc, zc) ==
    \E t \in Nat : \E chal, prod :
        RoundingOf(f, chal, prod, t, zc, yc, zc, StartA(zc), StartB(yc, zc), StartG, StartH, <<>>, <<>>,
                   StartAlpha(yc, zc), StartPoint(OutPk, A, yc, zc, MN), MN)

LEMMA RoundsStart ==
    ASSUME Fits, amounts \in Seq(0 .. TwoTo[N] - 1), masks \in Seq(Scalars), Len(amounts) = Len(masks),
           tx.masks = masks, tx.amounts = amounts, alpha1 \in Scalars, A \in Points,
           \A x \in Bases : Cong(8 * A[x], VectorExponent(LeftBits, RightBits)[x] + alpha1 * G[x]),
           NEW f, NEW yc \in Scalars, yc # 0, NEW zc \in Scalars, zc # 0
    PROVE  RoundsMayStart(f, yc, zc)
<1> DEFINE chal == [i \in 0 .. 0 |-> zc]
           prod == [i \in 0 .. 0 |-> Ones(MN)]
           start == StartPoint(OutPk, A, yc, zc, MN)
           al == StartAlpha(yc, zc)
<1>1. MN \in Nat \ {0} /\ \E T \in Nat : MN = TwoTo[T]
  BY SizesAre
<1>2. PICK t \in Nat : MN = TwoTo[t]
  BY <1>1
<1>3. Len(<<>>) = 0 /\ t + 0 = t
  OBVIOUS
<1>4. VectorsOf(StartA(zc), StartB(yc, zc), StartG, StartH, MN)
  BY StartVectors
<1>5. ChainOf(f, chal, 0, <<>>, <<>>) /\ chal[0] = zc
  <2>1. chal \in [0 .. 0 -> Scalars \ {0}]
    OBVIOUS
  <2>2. \A i \in 1 .. 0 : FALSE
    OBVIOUS
  <2> HIDE DEF chal
  <2> QED BY <2>1, <2>2 DEF ChainOf, chal
<1>6. FactorsOf(prod, chal, t, 0, MN) /\ prod[0] = Ones(MN)
  <2>1. Ones(MN) \in [1 .. MN -> Scalars]
    BY QIs DEF Ones
  <2>2. prod \in [0 .. 0 -> [1 .. MN -> Scalars]] /\ prod[0] = Ones(MN)
    BY <2>1
  <2>3. \A i \in 1 .. 0 : FALSE
    OBVIOUS
  <2> HIDE DEF prod, chal
  <2> QED BY <2>2, <2>3 DEF FactorsOf
<1>7. /\ BasesAre(StartG, "Gi", Invert(yc), Ones(MN), MN, MN)
      /\ BasesAre(StartH, "Hi", 1, Mirror(Ones(MN), MN), MN, MN)
  <2>1. Invert(yc) \in Scalars
    BY InvertIs
  <2>2. StartBases(Invert(yc))
    BY <2>1, StartBasesAre, Zenon
  <2> QED BY <2>2 DEF StartBases
<1>8. ASSUME NEW x \in Bases
      PROVE  /\ start \in Points
             /\ StandFor(yc, StartA(zc), StartB(yc, zc), StartG, StartH, MN, al, start, chal, <<>>, <<>>, x)
  <2>0. Cong(8 * A[x], VectorExponent(LeftBits, RightBits)[x] + alpha1 * G[x])
    OBVIOUS
  <2>1. StartBalances(SumFunction(StartTerms(yc, zc, x)), al, G[x], start[x]) /\ start \in Points
    BY <2>0, StartIs
  <2>2. TermsOf(yc, StartA(zc), StartB(yc, zc), StartG, StartH, MN, x) = StartTerms(yc, zc, x)
    BY Zenon DEF TermsOf, StartTerms, Power
  <2>3. RoundsAt(chal, <<>>, <<>>, Len(<<>>), x) = 0
    BY <1>3, NoRounds
  <2> HIDE DEF start, al, chal
  <2>4. start[x] \in Int
    BY <2>1, CoordinateIsInt
  <2>5. start[x] + 0 = start[x]
    BY <2>4
  <2> QED BY <2>1, <2>2, <2>3, <2>5 DEF StandFor, StartBalances
<1>9. start \in Points
  <2>1. \E x : x \in Bases
    BY DEF Bases
  <2> QED BY <1>8, <2>1
<1> HIDE DEF start, al, chal, prod
<1>10. RoundingOf(f, chal, prod, t, zc, yc, zc, StartA(zc), StartB(yc, zc), StartG, StartH, <<>>, <<>>,
                  al, start, MN)
  <2>1. TwoTo[t + Len(<<>>)] = MN
    BY <1>2, <1>3
  <2> QED BY <1>2, <1>3, <1>4, <1>5, <1>6, <1>7, <1>8, <1>9, <2>1 DEF RoundingOf
<1> QED BY <1>10, Zenon DEF RoundsMayStart, start, al

LEMMA FoldedIsInt ==
    ASSUME NEW n \in Nat, NEW a, NEW b, NEW g, NEW h, VectorsOf(a, b, g, h, n), y \in Scalars, NEW x \in Bases
    PROVE  /\ FoldedAt(a, b, g, h, n, x) \in Int
           /\ FoldedAt(a, b, g, h, n, x) = SumFunction(TermsOf(y, a, b, g, h, n, x))
<1> DEFINE t == [k \in 1 .. n |-> Term(a, b, g, h, x, k)]
<1>1. ASSUME NEW k \in 1 .. n PROVE Term(a, b, g, h, x, k) \in Int
  <2>1. EntriesAreInt(a, b, g, h, x, k)
    BY EntriesAre, Zenon
  <2> QED BY <2>1 DEF EntriesAreInt
<1>2. t \in [1 .. n -> Int]
  BY <1>1
<1>3. FoldedAt(a, b, g, h, n, x) = SumFunction(t)
  BY DEF FoldedAt
<1>4. TermsOf(y, a, b, g, h, n, x) = t
  BY Zenon DEF TermsOf, Term
<1> HIDE DEF t
<1> QED BY <1>2, <1>3, <1>4, SumIs

\* One round more.
AddsRound(cs2, ls2, rs2, cs, ls, rs, r, e, left, right, x) ==
    /\ RoundsAt(cs, ls, rs, r, x) \in Int
    /\ RoundsAt(cs2, ls2, rs2, r + 1, x) = RoundsAt(cs, ls, rs, r, x) + RoundPoint(e, left, right)[x]
    /\ RoundPoint(e, left, right)[x] \in Int

LEMMA RoundsNext ==
    ASSUME NEW r \in Nat, NEW x \in Bases, NEW cs, NEW ls, NEW rs, NEW cs2, NEW ls2, NEW rs2,
           NEW e \in Scalars, e # 0, NEW left \in Points, NEW right \in Points,
           \A i \in 1 .. r : cs[i] \in Scalars /\ cs[i] # 0 /\ ls[i] \in Points /\ rs[i] \in Points,
           \A i \in 1 .. r : cs2[i] = cs[i] /\ ls2[i] = ls[i] /\ rs2[i] = rs[i],
           cs2[r + 1] = e, ls2[r + 1] = left, rs2[r + 1] = right
    PROVE  AddsRound(cs2, ls2, rs2, cs, ls, rs, r, e, left, right, x)
<1> DEFINE f == [i \in 1 .. r |-> RoundPoint(cs[i], ls[i], rs[i])[x]]
           f2 == [i \in 1 .. r + 1 |-> RoundPoint(cs2[i], ls2[i], rs2[i])[x]]
           p == RoundPoint(e, left, right)[x]
<1>1. ASSUME NEW i \in 1 .. r PROVE RoundPoint(cs[i], ls[i], rs[i])[x] \in Int
  <2>1. AddsPoint(cs[i], ls[i], rs[i], x)
    BY RoundAdds, Zenon
  <2> QED BY <2>1, CoordinateIsInt DEF AddsPoint
<1>2. p \in Int
  <2>1. AddsPoint(e, left, right, x)
    BY RoundAdds, Zenon
  <2> QED BY <2>1, CoordinateIsInt DEF AddsPoint
<1>3. f \in [1 .. r -> Int]
  BY <1>1
<1>4. ASSUME NEW i \in 1 .. r
      PROVE  i \in 1 .. r + 1 /\ i # r + 1 /\ f2[i] = f[i] /\ f2[i] \in Int
  <2>1. i \in 1 .. r + 1 /\ i # r + 1
    OBVIOUS
  <2>2. f2[i] = RoundPoint(cs2[i], ls2[i], rs2[i])[x]
    BY <2>1
  <2>3. f2[i] = f[i]
    BY <2>2
  <2> QED BY <1>3, <2>1, <2>3
<1>5. r + 1 \in 1 .. r + 1 /\ f2[r + 1] = p
  <2>1. r + 1 \in 1 .. r + 1
    OBVIOUS
  <2> QED BY <2>1
<1>6. \A i \in 1 .. r + 1 : i = r + 1 \/ i \in 1 .. r
  OBVIOUS
<1>7. f2 \in [1 .. r + 1 -> Int]
  <2>1. \A i \in 1 .. r + 1 : f2[i] \in Int
    <3> HIDE DEF f2, f, p
    <3> QED BY <1>2, <1>4, <1>5, <1>6
  <2>2. f2 = [i \in 1 .. r + 1 |-> f2[i]]
    OBVIOUS
  <2> HIDE DEF f2
  <2> QED BY <2>1, <2>2
<1>8. Cut(f2, r) = f
  <2>1. \A i \in 1 .. r : f2[i] = f[i]
    BY <1>4
  <2> HIDE DEF f2
  <2> QED BY <2>1 DEF Cut
<1>9. RoundsAt(cs, ls, rs, r, x) = SumFunction(f) /\ RoundsAt(cs2, ls2, rs2, r + 1, x) = SumFunction(f2)
  BY DEF RoundsAt
<1> HIDE DEF f, f2, p
<1>10. SumFunction(f) \in Int /\ SumFunction(f2) = f2[r + 1] + SumFunction(Cut(f2, r))
  BY <1>3, <1>7, SumIs, SumNext
<1>11. SumFunction(f2) = SumFunction(f) + p
  BY <1>2, <1>5, <1>8, <1>10
<1> QED BY <1>2, <1>9, <1>10, <1>11 DEF AddsRound, p

RoundsGoOn(f, u, e, zc, a, b, g, h, ls, rs, al, start, bits) ==
    \E chal, prod : RoundingOf(f, chal, prod, u, e, y, zc, a, b, g, h, ls, rs, al, start, bits)

StandsFor(F, al, Gx, st, sm) == Cong(F + al * Gx, st + sm)

LEMMA NextStandsFor ==
    ASSUME NEW F \in Int, NEW F2 \in Int, NEW al \in Int, NEW al2 \in Int, NEW Gx \in Int, NEW sm \in Int,
           NEW sm2 \in Int, NEW P \in Int, NEW st \in Int,
           RoundBalances(F2, al2, F, al, P, Gx), Cong(F + al * Gx, st + sm), sm2 = sm + P
    PROVE  StandsFor(F2, al2, Gx, st, sm2)
<1> DEFINE p == al * Gx
           q == al2 * Gx
<1>1. p \in Int /\ q \in Int
  OBVIOUS
<1>2. Cong(F2 + q, (F + p) + P) /\ Cong(F + p, st + sm)
  BY DEF RoundBalances
<1> HIDE DEF p, q
<1>3. F + p \in Int /\ st + sm \in Int
  BY <1>1
<1>4. Cong((F + p) + P, (st + sm) + P)
  BY <1>2, <1>3, CongPlus
<1>5. (st + sm) + P = st + sm2
  OBVIOUS
<1>6. Cong(F2 + q, st + sm2)
  BY <1>2, <1>4, <1>5, CongEquiv
<1> QED BY <1>6 DEF StandsFor, q

\* A sequence of the rounds, counted from 0, with one more.
Extend(v, r, e) == [i \in 0 .. r + 1 |-> IF i <= r THEN v[i] ELSE e]

SameUpTo(ls2, ls, rs2, rs, r) == \A i \in 1 .. r : ls2[i] = ls[i] /\ rs2[i] = rs[i]

ChainGrowsTo(f2, chal, r, e, ls2, rs2) == ChainOf(f2, Extend(chal, r, e), r + 1, ls2, rs2)

\* The chain of challenges goes on with the answer to the query over the new pair.
LEMMA ChainGrows ==
    ASSUME NEW f, NEW f2, Grows(f, f2), NEW r \in Nat, NEW chal, NEW ls, NEW rs, ChainOf(f, chal, r, ls, rs),
           NEW ls2, NEW rs2, SameUpTo(ls2, ls, rs2, rs, r),
           NEW e \in Scalars, e # 0,
           Known(f2, TranscriptQuery(chal[r], <<ls2[r + 1], rs2[r + 1]>>), e)
    PROVE  ChainGrowsTo(f2, chal, r, e, ls2, rs2)
<1> DEFINE chal2 == [i \in 0 .. r + 1 |-> IF i <= r THEN chal[i] ELSE e]
<1>1. chal \in [0 .. r -> Scalars \ {0}]
  BY DEF ChainOf
<1>2. \A i \in 0 .. r : i \in 0 .. r + 1 /\ i <= r
  OBVIOUS
<1>3. \A i \in 0 .. r : chal2[i] = chal[i]
  BY <1>2
<1>4. r + 1 \in 0 .. r + 1 /\ ~(r + 1 <= r)
  OBVIOUS
<1>5. chal2[r + 1] = e
  BY <1>4
<1>6. chal2 \in [0 .. r + 1 -> Scalars \ {0}]
  <2>1. \A i \in 0 .. r + 1 : i <= r => i \in 0 .. r
    OBVIOUS
  <2> QED BY <1>1, <2>1
<1>7. ASSUME NEW i \in 1 .. r + 1 PROVE Known(f2, TranscriptQuery(chal2[i - 1], <<ls2[i], rs2[i]>>), chal2[i])
  <2>1. CASE i = r + 1
    <3>1. i - 1 = r /\ r \in 0 .. r
      BY <2>1
    <3>2. chal2[i - 1] = chal[r] /\ chal2[i] = e
      BY <1>3, <1>5, <2>1, <3>1
    <3> QED BY <2>1, <3>2
  <2>2. CASE i # r + 1
    <3>1. i \in 1 .. r /\ i \in 0 .. r /\ i - 1 \in 0 .. r
      BY <2>2
    <3>2. chal2[i - 1] = chal[i - 1] /\ chal2[i] = chal[i] /\ ls2[i] = ls[i] /\ rs2[i] = rs[i]
      BY <1>3, <3>1 DEF SameUpTo
    <3>3. Known(f, TranscriptQuery(chal[i - 1], <<ls[i], rs[i]>>), chal[i])
      BY <3>1 DEF ChainOf
    <3>4. Known(f2, TranscriptQuery(chal[i - 1], <<ls[i], rs[i]>>), chal[i])
      BY <3>3, StaysKnown
    <3> QED BY <3>2, <3>4
  <2> QED BY <2>1, <2>2
<1> QED BY <1>6, <1>7, Zenon DEF ChainOf, ChainGrowsTo, Extend

FactorsGrowTo(prod, chal, T, r, e, m, bits) ==
    FactorsOf(Extend(prod, r, NextFactor(prod[r], e, m, bits)), Extend(chal, r, e), T, r + 1, bits)

\* The factors the bases have got go on with one more challenge.
LEMMA FactorsGrow ==
    ASSUME NEW r \in Nat, NEW chal, NEW prod, NEW bits, NEW e \in Scalars, e # 0, NEW T \in Nat,
           FactorsOf(prod, chal, T, r, bits), NEW m, m = TwoTo[T - (r + 1)]
    PROVE  FactorsGrowTo(prod, chal, T, r, e, m, bits)
<1> DEFINE last == NextFactor(prod[r], e, m, bits)
           chal2 == [i \in 0 .. r + 1 |-> IF i <= r THEN chal[i] ELSE e]
           prod2 == [i \in 0 .. r + 1 |-> IF i <= r THEN prod[i] ELSE last]
<1>1. prod \in [0 .. r -> [1 .. bits -> Scalars]] /\ prod[0] = Ones(bits)
  BY DEF FactorsOf
<1>2. \A i \in 0 .. r : i \in 0 .. r + 1 /\ i <= r
  OBVIOUS
<1>3. \A i \in 0 .. r : chal2[i] = chal[i] /\ prod2[i] = prod[i]
  BY <1>2
<1>4. r + 1 \in 0 .. r + 1 /\ ~(r + 1 <= r) /\ r \in 0 .. r /\ 0 \in 0 .. r
  OBVIOUS
<1>5. chal2[r + 1] = e /\ prod2[r + 1] = last
  BY <1>4
<1>6. last \in [1 .. bits -> Scalars]
  <2>1. prod[r] \in [1 .. bits -> Scalars]
    BY <1>1, <1>4
  <2> QED BY <2>1, NextFactorIs
<1>7. prod2 \in [0 .. r + 1 -> [1 .. bits -> Scalars]]
  <2>1. \A i \in 0 .. r + 1 : i <= r => i \in 0 .. r
    OBVIOUS
  <2> HIDE DEF last
  <2>2. prod2 = [i \in 0 .. r + 1 |-> IF i <= r THEN prod[i] ELSE last]
    BY DEF last
  <2>3. \A i \in 0 .. r : prod[i] \in [1 .. bits -> Scalars]
    BY <1>1
  <2>4. \A i \in 0 .. r + 1 : (IF i <= r THEN prod[i] ELSE last) \in [1 .. bits -> Scalars]
    BY <1>6, <2>1, <2>3
  <2> QED BY <2>2, <2>4
<1>8. prod2[0] = Ones(bits)
  BY <1>1, <1>3, <1>4
<1>9. ASSUME NEW i \in 1 .. r + 1
      PROVE  prod2[i] = NextFactor(prod2[i - 1], chal2[i], TwoTo[T - i], bits)
  <2>1. CASE i = r + 1
    <3>1. i - 1 = r
      BY <2>1
    <3>2. prod2[i - 1] = prod[r] /\ chal2[i] = e /\ prod2[i] = last
      BY <1>3, <1>4, <1>5, <2>1, <3>1
    <3> QED BY <2>1, <3>2
  <2>2. CASE i # r + 1
    <3>1. i \in 1 .. r /\ i \in 0 .. r /\ i - 1 \in 0 .. r
      BY <2>2
    <3>2. prod2[i - 1] = prod[i - 1] /\ chal2[i] = chal[i] /\ prod2[i] = prod[i]
      BY <1>3, <3>1
    <3>3. prod[i] = NextFactor(prod[i - 1], chal[i], TwoTo[T - i], bits)
      BY <3>1 DEF FactorsOf
    <3> QED BY <3>2, <3>3
  <2> QED BY <2>1, <2>2
<1>10. FactorsOf(prod2, chal2, T, r + 1, bits)
  <2> HIDE DEF last, prod2, chal2
  <2> QED BY <1>7, <1>8, <1>9, Zenon DEF FactorsOf
<1> QED BY <1>10, Zenon DEF FactorsGrowTo, Extend


LEMMA AppendedIs ==
    ASSUME NEW ls \in Seq(Points), NEW p \in Points
    PROVE  /\ Append(ls, p) \in Seq(Points) /\ Len(Append(ls, p)) = Len(ls) + 1 /\ Len(ls) \in Nat
           /\ \A i \in 1 .. Len(ls) : Append(ls, p)[i] = ls[i] /\ ls[i] \in Points
           /\ Append(ls, p)[Len(ls) + 1] = p
<1>1. /\ Append(ls, p) \in Seq(Points) /\ Len(Append(ls, p)) = Len(ls) + 1
      /\ \A i \in 1 .. Len(ls) : Append(ls, p)[i] = ls[i]
      /\ Append(ls, p)[Len(ls) + 1] = p
  BY AppendProperties
<1>2. Len(ls) \in Nat /\ \A i \in 1 .. Len(ls) : ls[i] \in Points
  OBVIOUS
<1> QED BY <1>1, <1>2

GoesOn(f, f2, chal, prod, u, last, zc, a, b, g, h, ls, rs, al, start, bits, e, r, s, yn, left, right) ==
    RoundsGoOn(f2, u, e, zc, NextA(a, e, yn), NextB(b, e), NextG(g, e, yn), NextH(h, e),
               Append(ls, left), Append(rs, right), NextAlpha(e, al, r, s), start, bits)

\* A round (BppRound) on what stands for the start and the rounds so far stands for one
\* round more.
LEMMA RoundGoesOn ==
    ASSUME NEW f, NEW f2, Grows(f, f2), NEW chal, NEW prod, NEW u \in Nat, NEW last, NEW zc,
           NEW a, NEW b, NEW g, NEW h, NEW ls \in Seq(Points), NEW rs \in Seq(Points), Len(ls) = Len(rs),
           NEW al \in Scalars, NEW start, NEW bits \in Nat,
           RoundingOf(f, chal, prod, u + 1, last, y, zc, a, b, g, h, ls, rs, al, start, bits),
           y \in Scalars, y # 0, NEW e \in Scalars, e # 0, NEW r \in Scalars, NEW s \in Scalars,
           NEW yn, yn = Pw(y)[TwoTo[u]], NEW left, left = LeftSum(a, b, g, h, yn, r),
           NEW right, right = RightSum(a, b, g, h, yn, s),
           Known(f2, TranscriptQuery(last, <<left, right>>), e)
    PROVE  GoesOn(f, f2, chal, prod, u, last, zc, a, b, g, h, ls, rs, al, start, bits, e, r, s, yn, left, right)
<1> DEFINE m == TwoTo[u]
           n == Len(ls)
           ls2 == Append(ls, left)
           rs2 == Append(rs, right)
           chal2 == Extend(chal, n, e)
           prod2 == Extend(prod, n, NextFactor(prod[n], e, m, bits))
           a2 == NextA(a, e, yn)
           b2 == NextB(b, e)
           g2 == NextG(g, e, yn)
           h2 == NextH(h, e)
           al2 == NextAlpha(e, al, r, s)
<1>1. m \in Nat \ {0} /\ TwoTo[u + 1] = m + m /\ n \in Nat
  <2>1. m \in Nat \ {0} /\ TwoTo[u + 1] = 2 * m
    BY TwoToIs
  <2>2. n \in Nat
    OBVIOUS
  <2> HIDE DEF m
  <2> QED BY <2>1, <2>2
<1>2. /\ TwoTo[(u + 1) + n] = bits /\ VectorsOf(a, b, g, h, m + m)
      /\ ChainOf(f, chal, n, ls, rs) /\ chal[0] = zc /\ chal[n] = last
      /\ FactorsOf(prod, chal, (u + 1) + n, n, bits)
      /\ BasesAre(g, "Gi", Invert(y), prod[n], m + m, bits)
      /\ BasesAre(h, "Hi", 1, Mirror(prod[n], bits), m + m, bits)
      /\ start \in Points
      /\ \A x \in Bases : StandFor(y, a, b, g, h, m + m, al, start, chal, ls, rs, x)
  <2> HIDE DEF m
  <2> QED BY <1>1, Zenon DEF RoundingOf
<1>3. yn \in Scalars /\ yn # 0
  <2>1. m \in Nat
    BY <1>1
  <2> QED BY <2>1, PwNotZero
<1> HIDE DEF m
<1>4. left \in Points /\ right \in Points
  <2>1. BaseG \in Bases
    BY DEF Bases
  <2>2. IsSide(left, SumL(a, b, g, h, m, Invert(yn), BaseG), r, BaseG)
    BY <1>1, <1>2, <1>3, <2>1, LeftIs, Zenon
  <2>3. IsSide(right, SumR(a, b, g, h, m, yn, BaseG), s, BaseG)
    BY <1>1, <1>2, <1>3, <2>1, RightIs, Zenon
  <2> QED BY <2>2, <2>3 DEF IsSide
<1>5. /\ Len(ls2) = n + 1 /\ Len(rs2) = n + 1
      /\ \A i \in 1 .. n : ls2[i] = ls[i] /\ rs2[i] = rs[i] /\ ls[i] \in Points /\ rs[i] \in Points
      /\ ls2[n + 1] = left /\ rs2[n + 1] = right
  <2>1. /\ Len(ls2) = n + 1 /\ ls2[n + 1] = left
        /\ \A i \in 1 .. n : ls2[i] = ls[i] /\ ls[i] \in Points
    BY <1>4, AppendedIs
  <2>2. Len(rs) = n
    OBVIOUS
  <2>3. /\ Len(rs2) = Len(rs) + 1 /\ rs2[Len(rs) + 1] = right
        /\ \A i \in 1 .. Len(rs) : rs2[i] = rs[i] /\ rs[i] \in Points
    BY <1>4, AppendedIs
  <2> HIDE DEF ls2, rs2, n
  <2> QED BY <2>1, <2>2, <2>3
<1> HIDE DEF ls2, rs2, n
<1>6. TwoTo[u + (n + 1)] = bits /\ u + (n + 1) = (u + 1) + n
  <2>1. u + (n + 1) = (u + 1) + n
    BY <1>1
  <2> QED BY <1>2, <2>1
<1>7. VectorsOf(a2, b2, g2, h2, m)
  <2>1. AreNext(a, b, g, h, m, e, yn)
    BY <1>1, <1>2, <1>3, NextAre, Zenon
  <2> QED BY <2>1 DEF AreNext
<1>8. ChainOf(f2, chal2, n + 1, ls2, rs2)
  <2>1. Known(f2, TranscriptQuery(chal[n], <<ls2[n + 1], rs2[n + 1]>>), e)
    BY <1>2, <1>5
  <2>2. SameUpTo(ls2, ls, rs2, rs, n)
    BY <1>5 DEF SameUpTo
  <2>3. ChainOf(f, chal, n, ls, rs)
    BY <1>2
  <2>4. ChainGrowsTo(f2, chal, n, e, ls2, rs2)
    <3> HIDE DEF chal2, prod2, a2, b2, g2, h2, al2
    <3> QED BY <1>1, <2>1, <2>2, <2>3, ChainGrows, Zenon
  <2> QED BY <2>4, Zenon DEF ChainGrowsTo
<1>9. FactorsOf(prod2, chal2, u + (n + 1), n + 1, bits)
  <2>1. u + (n + 1) \in Nat /\ (u + (n + 1)) - (n + 1) = u
    BY <1>1
  <2>2. m = TwoTo[(u + (n + 1)) - (n + 1)]
    BY <2>1 DEF m
  <2>3. FactorsOf(prod, chal, u + (n + 1), n, bits)
    BY <1>2, <1>6
  <2>6. FactorsGrowTo(prod, chal, u + (n + 1), n, e, m, bits)
    <3> HIDE DEF chal2, prod2, a2, b2, g2, h2, al2
    <3> QED BY <1>1, <2>1, <2>2, <2>3, FactorsGrow, Zenon
  <2> QED BY <2>6, Zenon DEF FactorsGrowTo
<1>10. /\ chal2[0] = zc /\ chal2[n + 1] = e /\ \A i \in 1 .. n : chal2[i] = chal[i]
       /\ prod2[n + 1] = NextFactor(prod[n], e, m, bits)
  <2>1. n + 1 \in 0 .. n + 1 /\ ~(n + 1 <= n) /\ 0 \in 0 .. n + 1 /\ 0 <= n
    BY <1>1
  <2>2. \A i \in 1 .. n : i \in 0 .. n + 1 /\ i <= n
    BY <1>1
  <2> QED BY <1>2, <2>1, <2>2 DEF Extend
<1>11. prod[n] \in [1 .. bits -> Scalars] /\ chal \in [0 .. n -> Scalars \ {0}]
  <2>1. n \in 0 .. n
    BY <1>1
  <2> QED BY <1>2, <2>1 DEF FactorsOf, ChainOf
<1> HIDE DEF chal2, prod2
<1>12. BasesAre(g2, "Gi", Invert(y), prod2[n + 1], m, bits)
  <2>1. BasesAre(g2, "Gi", Invert(y), NextFactor(prod[n], e, m, bits), m, bits)
    BY <1>1, <1>2, <1>11, GBasesFold, Zenon DEF m
  <2> QED BY <1>10, <2>1
<1>13. BasesAre(h2, "Hi", 1, Mirror(prod2[n + 1], bits), m, bits)
  <2>1. TwoTo[n] \in Nat /\ bits = TwoTo[n] * (m + m)
    <3>1. u + 1 \in Nat
      OBVIOUS
    <3>2. TwoTo[(u + 1) + n] = TwoTo[u + 1] * TwoTo[n] /\ TwoTo[n] \in Nat
      BY <1>1, <3>1, TwoToAdd, TwoToIs
    <3>3. m + m \in Nat
      BY <1>1
    <3>4. TwoTo[u + 1] * TwoTo[n] = TwoTo[n] * TwoTo[u + 1]
      <4> DEFINE j == TwoTo[u + 1]
                 k == TwoTo[n]
      <4>1. j \in Nat /\ k \in Nat
        BY <1>1, <3>2, <3>3
      <4> HIDE DEF j, k
      <4>2. j * k = k * j
        BY <4>1
      <4> QED BY <4>2 DEF j, k
    <3> QED BY <1>1, <1>2, <3>2, <3>4
  <2>2. BasesAre(h2, "Hi", 1, Mirror(NextFactor(prod[n], e, m, bits), bits), m, bits)
    BY <1>1, <1>2, <1>3, <1>11, <2>1, HBasesFold, Zenon
  <2> QED BY <1>10, <2>2
<1>14. ASSUME NEW x \in Bases
       PROVE  StandFor(y, a2, b2, g2, h2, m, al2, start, chal2, ls2, rs2, x)
  <2> DEFINE F == FoldedAt(a, b, g, h, m + m, x)
             F2 == FoldedAt(a2, b2, g2, h2, m, x)
             P == RoundPoint(e, left, right)[x]
             sm == RoundsAt(chal, ls, rs, n, x)
             sm2 == RoundsAt(chal2, ls2, rs2, n + 1, x)
             gx == G[x]
             st == start[x]
  <2>1. RoundBalances(F2, al2, F, al, P, gx)
    <3>1. yn = Pw(y)[m]
      BY DEF m
    <3>2. RoundBalances(FoldedAt(NextA(a, e, yn), NextB(b, e), NextG(g, e, yn), NextH(h, e), m, x),
                         NextAlpha(e, al, r, s), FoldedAt(a, b, g, h, m + m, x), al,
                         RoundPoint(e, LeftSum(a, b, g, h, yn, r), RightSum(a, b, g, h, yn, s))[x], G[x])
      BY <1>1, <1>2, <3>1, RoundFolds, Zenon
    <3> QED BY <3>2, Zenon
  <2>2. /\ F \in Int /\ F = SumFunction(TermsOf(y, a, b, g, h, m + m, x))
        /\ F2 \in Int /\ F2 = SumFunction(TermsOf(y, a2, b2, g2, h2, m, x))
    <3>1. m \in Nat /\ m + m \in Nat
      BY <1>1
    <3>2. F \in Int /\ F = SumFunction(TermsOf(y, a, b, g, h, m + m, x))
      BY <1>2, <3>1, FoldedIsInt
    <3>3. F2 \in Int /\ F2 = SumFunction(TermsOf(y, a2, b2, g2, h2, m, x))
      <4> HIDE DEF a2, b2, g2, h2
      <4> QED BY <1>7, <3>1, FoldedIsInt
    <3> QED BY <3>2, <3>3
  <2>3. al2 \in Scalars
    BY NextAlphaIs
  <2>4. AddsRound(chal2, ls2, rs2, chal, ls, rs, n, e, left, right, x)
    <3>1. \A i \in 1 .. n : chal[i] \in Scalars /\ chal[i] # 0
      <4>1. \A i \in 1 .. n : i \in 0 .. n
        BY <1>1
      <4> QED BY <1>11, <4>1
    <3>2. \A i \in 1 .. n : chal[i] \in Scalars /\ chal[i] # 0 /\ ls[i] \in Points /\ rs[i] \in Points
      BY <1>5, <3>1
    <3>3. \A i \in 1 .. n : chal2[i] = chal[i] /\ ls2[i] = ls[i] /\ rs2[i] = rs[i]
      BY <1>5, <1>10
    <3> QED BY <1>1, <1>4, <1>5, <1>10, <3>2, <3>3, RoundsNext, Zenon
  <2>5. sm \in Int /\ sm2 = sm + P /\ P \in Int
    BY <2>4 DEF AddsRound
  <2>6. gx \in Int /\ st \in Int /\ al \in Int /\ al2 \in Int
    BY <1>2, <2>3, CoordinateIsInt, PointsAre, QIs
  <2>7. StandFor(y, a, b, g, h, m + m, al, start, chal, ls, rs, x)
    BY <1>2
  <2>8. Cong(F + al * gx, st + sm)
    <3>1. Cong(SumFunction(TermsOf(y, a, b, g, h, m + m, x)) + al * gx, st + sm)
      BY <2>7, Zenon DEF StandFor, n
    <3> QED BY <2>2, <3>1, Zenon
  <2> HIDE DEF F, F2, P, sm, sm2, gx, st, al2
  <2>9. sm2 \in Int
    BY <2>5
  <2>10. Cong(F2 + al2 * gx, st + sm2)
    <3>1. StandsFor(F2, al2, gx, st, sm2)
      BY <2>1, <2>2, <2>5, <2>6, <2>8, <2>9, NextStandsFor, Zenon
    <3> QED BY <3>1 DEF StandsFor
  <2>11. Cong(SumFunction(TermsOf(y, a2, b2, g2, h2, m, x)) + al2 * G[x], start[x] + RoundsAt(chal2, ls2, rs2, Len(ls2), x))
    BY <1>5, <2>2, <2>10, Zenon DEF gx, st, sm2
  <2> HIDE DEF a2, b2, g2, h2
  <2> QED BY <2>11, Zenon DEF StandFor
<1> HIDE DEF a2, b2, g2, h2, al2
<1>15. RoundingOf(f2, chal2, prod2, u, e, y, zc, a2, b2, g2, h2, ls2, rs2, al2, start, bits)
  <2> USE DEF m
  <2> QED BY <1>2, <1>5, <1>6, <1>7, <1>8, <1>9, <1>10, <1>12, <1>13, <1>14, Zenon DEF RoundingOf
<1> QED BY <1>15, Zenon DEF GoesOn, RoundsGoOn, a2, b2, g2, h2, ls2, rs2, al2

-----------------------------------------------------------------------------
(* The equation of the verifier, once the vectors have length one.              *)

\* What BppFinish sends: A1 and B, with the multiples of H they carry.
CrossOf(yc, a1, b1, r, s) == ScAdd(ScMul(ScMul(r, yc), b1), ScMul(ScMul(s, yc), a1))
FirstPoint(r, s, d, cross, g1, h1) ==
    Eighth(AddPoints(AddPoints(ScalarMult(r, g1), ScalarMult(s, h1)), AddKeys2(d, cross, H)))
SecondPoint(eta, rys) == AddKeys2(ScMul(eta, InvEight), ScMul(rys, InvEight), H)

EightIs(p, v, x) == p \in Points /\ Cong(8 * p[x], v)

LEMMA AnEighthIs ==
    ASSUME NEW u \in Int
    PROVE  ScMul(u, InvEight) \in Int /\ Cong(8 * ScMul(u, InvEight), u)
<1> DEFINE i == InvEight
           v == ScMul(u, i)
<1>1. i \in Int /\ Cong(8 * i, 1)
  BY InvEightIs, QIs
<1> HIDE DEF i
<1>2. v \in Scalars /\ v \in Int /\ Cong(v, u * i)
  BY <1>1, ScalarOps, QIs
<1> HIDE DEF v
<1>3. 8 \in Int /\ 1 \in Int /\ u * i \in Int /\ 8 * i \in Int
  BY <1>1
<1>4. Cong(8 * v, 8 * (u * i))
  BY <1>2, <1>3, CongTimes, Zenon
<1>5. 8 * (u * i) = u * (8 * i) /\ u * 1 = u
  BY <1>1
<1>6. Cong(u * (8 * i), u * 1)
  BY <1>1, <1>3, CongTimes, Zenon
<1>7. Cong(8 * v, u)
  BY <1>4, <1>5, <1>6, CongEquiv
<1> QED BY <1>2, <1>7 DEF v, i

LEMMA FirstPointIs ==
    ASSUME NEW r \in Int, NEW s \in Int, NEW d \in Int, NEW cross \in Int, NEW g1 \in Points, NEW h1 \in Points,
           NEW x \in Bases
    PROVE  EightIs(FirstPoint(r, s, d, cross, g1, h1), (r * g1[x] + s * h1[x]) + (d * G[x] + cross * H[x]), x)
<1> DEFINE p == ScalarMult(r, g1)
           q == ScalarMult(s, h1)
           t == AddPoints(p, q)
           k == AddKeys2(d, cross, H)
           u == AddPoints(t, k)
<1>1. p \in Points /\ Cong(p[x], r * g1[x]) /\ q \in Points /\ Cong(q[x], s * h1[x])
  BY PointOps
<1>2. k \in Points /\ Cong(k[x], d * G[x] + cross * H[x])
  BY AddKeys2Is
<1>3. g1[x] \in Int /\ h1[x] \in Int /\ G[x] \in Int /\ H[x] \in Int
  BY CoordinateIsInt, PointsAre
<1> DEFINE rg == r * g1[x]
           sh == s * h1[x]
           dc == d * G[x] + cross * H[x]
<1>4. rg \in Int /\ sh \in Int /\ dc \in Int
  <2>1. d * G[x] \in Int /\ cross * H[x] \in Int /\ rg \in Int /\ sh \in Int
    BY <1>3
  <2> QED BY <2>1
<1> HIDE DEF p, q, k
<1>5. t \in Points /\ Cong(t[x], p[x] + q[x])
  BY <1>1, PointOps
<1> HIDE DEF t
<1>6. u \in Points /\ Cong(u[x], t[x] + k[x])
  BY <1>2, <1>5, PointOps
<1>7. Eighth(u) \in Points /\ Cong(8 * Eighth(u)[x], u[x])
  BY <1>6, EighthIs
<1>8. p[x] \in Int /\ q[x] \in Int /\ t[x] \in Int /\ k[x] \in Int
  BY <1>1, <1>2, <1>5, CoordinateIsInt
<1>9. FirstPoint(r, s, d, cross, g1, h1) = Eighth(u)
  BY Zenon DEF FirstPoint, p, q, t, k
<1> HIDE DEF u
<1>10. Cong(p[x], rg) /\ Cong(q[x], sh) /\ Cong(k[x], dc)
  BY <1>1, <1>2
<1> HIDE DEF rg, sh, dc
<1>11. Cong(p[x] + q[x], rg + sh)
  BY <1>4, <1>8, <1>10, CongOps
<1>12. Cong(t[x], rg + sh) /\ rg + sh \in Int
  BY <1>4, <1>5, <1>11, CongEquiv
<1>13. Cong(t[x] + k[x], (rg + sh) + dc)
  BY <1>4, <1>8, <1>10, <1>12, CongOps
<1>14. Cong(8 * Eighth(u)[x], (rg + sh) + dc)
  BY <1>6, <1>7, <1>13, CongEquiv
<1> QED BY <1>7, <1>9, <1>14 DEF EightIs, rg, sh, dc

LEMMA SecondPointIs ==
    ASSUME NEW eta \in Int, NEW rys \in Int, NEW x \in Bases
    PROVE  EightIs(SecondPoint(eta, rys), eta * G[x] + rys * H[x], x)
<1> DEFINE u == ScMul(eta, InvEight)
           v == ScMul(rys, InvEight)
           p == AddKeys2(u, v, H)
           gx == G[x]
           hx == H[x]
<1>1. u \in Int /\ Cong(8 * u, eta) /\ v \in Int /\ Cong(8 * v, rys)
  BY AnEighthIs
<1> HIDE DEF u, v
<1>2. p \in Points /\ Cong(p[x], u * G[x] + v * H[x])
  BY <1>1, AddKeys2Is
<1>3. gx \in Int /\ hx \in Int
  BY CoordinateIsInt, PointsAre
<1>4. Cong(p[x], u * gx + v * hx) /\ p[x] \in Int
  BY <1>2, CoordinateIsInt
<1>5. SecondPoint(eta, rys) = p
  BY Zenon DEF SecondPoint, u, v
<1> HIDE DEF p, gx, hx
<1> DEFINE ug == u * gx
           vh == v * hx
           g8 == (8 * u) * gx
           h8 == (8 * v) * hx
<1>6. /\ ug \in Int /\ vh \in Int /\ g8 \in Int /\ h8 \in Int /\ 8 * ug = g8 /\ 8 * vh = h8
      /\ 8 * u \in Int /\ 8 * v \in Int /\ eta * gx \in Int /\ rys * hx \in Int /\ 8 \in Int
  BY <1>1, <1>3
<1>7. Cong(g8, eta * gx)
  BY <1>1, <1>3, <1>6, CongTimes
<1>8. Cong(h8, rys * hx)
  BY <1>1, <1>3, <1>6, CongTimes
<1>9. Cong(p[x], ug + vh) /\ ug + vh \in Int
  BY <1>4, <1>6
<1> HIDE DEF ug, vh, g8, h8
<1>10. Cong(8 * p[x], 8 * (ug + vh))
  BY <1>4, <1>6, <1>9, CongTimes, Zenon
<1>11. 8 * (ug + vh) = g8 + h8
  BY <1>6
<1> DEFINE m == eta * gx
           n == rys * hx
<1>12. m \in Int /\ n \in Int /\ Cong(g8, m) /\ Cong(h8, n)
  BY <1>6, <1>7, <1>8
<1> HIDE DEF m, n
<1>13. Cong(g8 + h8, m + n)
  BY <1>6, <1>12, CongOps
<1>14. Cong(8 * p[x], m + n)
  BY <1>10, <1>11, <1>13, CongEquiv
<1> QED BY <1>2, <1>5, <1>14 DEF EightIs, m, n, gx, hx

\* The vectors of length one.
OneTermIs(yc, a, b, g, h, x) ==
    /\ SumFunction(TermsOf(yc, a, b, g, h, 1, x)) = (a[1] * g[1][x] + b[1] * h[1][x]) + (a[1] * b[1]) * (Pw(yc)[1] * H[x])
    /\ SumFunction(TermsOf(yc, a, b, g, h, 1, x)) \in Int
    /\ Pw(yc)[1] \in Int /\ Cong(Pw(yc)[1], yc)

LEMMA OneTerm ==
    ASSUME NEW yc \in Scalars, NEW a, NEW b, NEW g, NEW h, VectorsOf(a, b, g, h, 1), NEW x \in Bases
    PROVE  OneTermIs(yc, a, b, g, h, x)
<1> DEFINE f == TermsOf(yc, a, b, g, h, 1, x)
           term == (a[1] * g[1][x] + b[1] * h[1][x]) + (a[1] * b[1]) * (Pw(yc)[1] * H[x])
<1>1. 1 \in 1 .. 1 /\ yc \in Int /\ 0 \in Nat /\ 0 + 1 = 1
  BY QIs
<1>2. Pw(yc)[0] = 1 /\ Pw(yc)[0 + 1] = ScMul(Pw(yc)[0], yc)
  BY <1>1, PwIs
<1>3. Pw(yc)[1] = ScMul(1, yc)
  BY <1>1, <1>2
<1>4. ScMul(1, yc) \in Scalars /\ Cong(ScMul(1, yc), 1 * yc) /\ 1 * yc = yc
  BY <1>1, ScalarOps, 1 \in Int
<1>5. Pw(yc)[1] \in Int /\ Cong(Pw(yc)[1], yc)
  BY <1>3, <1>4, QIs
<1> DEFINE w == Pw(yc)[1]
           gx == g[1][x]
           hx == h[1][x]
           bh == H[x]
<1>6. w \in Int /\ gx \in Int /\ hx \in Int /\ bh \in Int /\ a[1] \in Int /\ b[1] \in Int
  <2>1. g[1] \in Points /\ h[1] \in Points /\ a[1] \in Scalars /\ b[1] \in Scalars
    BY <1>1 DEF VectorsOf
  <2> QED BY <1>5, <2>1, CoordinateIsInt, PointsAre, QIs
<1>7. term = (a[1] * gx + b[1] * hx) + (a[1] * b[1]) * (w * bh)
  OBVIOUS
<1> HIDE DEF w, gx, hx, bh
<1>8. term \in Int
  <2>1. a[1] * gx \in Int /\ b[1] * hx \in Int /\ a[1] * b[1] \in Int /\ w * bh \in Int
    BY <1>6
  <2>2. (a[1] * b[1]) * (w * bh) \in Int
    BY <2>1
  <2> HIDE DEF term
  <2> QED BY <1>7, <2>1, <2>2
<1>9. f = [k \in 1 .. 1 |-> (a[k] * g[k][x] + b[k] * h[k][x]) + (a[k] * b[k]) * (Pw(yc)[k] * H[x])]
  BY DEF TermsOf
<1>10. f[1] = term /\ \A k \in 1 .. 1 : k = 1
  BY <1>1, <1>9
<1>11. f \in [1 .. 1 -> Int]
  <2>1. f = [k \in 1 .. 1 |-> f[k]]
    BY <1>9
  <2> HIDE DEF f, term
  <2> QED BY <1>8, <1>10, <2>1
<1> HIDE DEF f, term
<1>12. SumFunction(f) = f[1]
  <2>1. 1 \in Nat \ {0} /\ 1 \in Nat /\ 1 <= 1
    OBVIOUS
  <2>2. \A i \in 1 .. 1 : i # 1 => f[i] = 0
    BY <1>10
  <2>3. SumFunction(f) = IF 1 <= 1 THEN f[1] ELSE 0
    BY <1>11, <2>1, <2>2, SumOne
  <2> QED BY <2>1, <2>3
<1> QED BY <1>5, <1>8, <1>10, <1>12 DEF OneTermIs, f, term

\* The responses of BppFinish.
FinishSum(alpha, e, d, eta) == ScMulAdd(alpha, ScMul(e, e), ScMulAdd(d, e, eta))

LEMMA ResponsesAre ==
    ASSUME NEW a1 \in Int, NEW e \in Int, NEW r \in Int, NEW alpha \in Int, NEW d \in Int, NEW eta \in Int
    PROVE  /\ ScMulAdd(a1, e, r) \in Scalars /\ Cong(ScMulAdd(a1, e, r), a1 * e + r)
           /\ FinishSum(alpha, e, d, eta) \in Scalars
           /\ Cong(FinishSum(alpha, e, d, eta), alpha * (e * e) + (d * e + eta))
<1>1. ASSUME NEW p \in Int, NEW q \in Int, NEW t \in Int
      PROVE  ScMulAdd(p, q, t) \in Scalars /\ Cong(ScMulAdd(p, q, t), p * q + t) /\ p * q + t \in Int
  <2>1. p * q + t \in Int
    <3>1. p * q \in Int
      OBVIOUS
    <3> QED BY <3>1
  <2> QED BY <2>1, Reduced DEF ScMulAdd
<1> DEFINE e2 == ScMul(e, e)
           m == ScMulAdd(d, e, eta)
           ee == e * e
           de == d * e + eta
<1>2. e2 \in Int /\ Cong(e2, ee) /\ ee \in Int
  <2>1. ee \in Int
    BY <1>1
  <2>2. e2 \in Scalars /\ Cong(e2, ee)
    BY ScalarOps
  <2> QED BY <2>1, <2>2, QIs
<1>3. m \in Int /\ Cong(m, de) /\ de \in Int
  BY <1>1, QIs
<1>4. FinishSum(alpha, e, d, eta) = ScMulAdd(alpha, e2, m)
  BY Zenon DEF FinishSum, e2, m
<1> HIDE DEF e2, m, ee, de
<1>5. ScMulAdd(alpha, e2, m) \in Scalars /\ Cong(ScMulAdd(alpha, e2, m), alpha * e2 + m)
  BY <1>1, <1>2, <1>3
<1>6. Cong(alpha * e2, alpha * ee) /\ alpha * e2 \in Int /\ alpha * ee \in Int
  <2>1. Cong(alpha * e2, alpha * ee)
    BY <1>2, CongTimes
  <2> QED BY <1>2, <2>1
<1> DEFINE p == alpha * e2
           q == alpha * ee
<1>7. Cong(p, q) /\ p \in Int /\ q \in Int
  BY <1>6
<1> HIDE DEF p, q
<1>8. Cong(p + m, q + de)
  BY <1>3, <1>7, CongOps
<1>9. Cong(FinishSum(alpha, e, d, eta), q + de)
  BY <1>4, <1>5, <1>8, CongEquiv DEF p
<1> QED BY <1>1, <1>4, <1>5, <1>9 DEF q, ee, de

CrossIs(t, p, yc, a1, b1, r, s) ==
    /\ t \in Int /\ Cong(t, (r * yc) * b1 + (s * yc) * a1)
    /\ p \in Int /\ Cong(p, (r * yc) * s)

LEMMA CrossTerms ==
    ASSUME NEW yc \in Int, NEW a1 \in Int, NEW b1 \in Int, NEW r \in Int, NEW s \in Int
    PROVE  CrossIs(CrossOf(yc, a1, b1, r, s), ScMul(ScMul(r, yc), s), yc, a1, b1, r, s)
<1>1. ASSUME NEW p \in Int, NEW q \in Int, NEW t \in Int
      PROVE  /\ ScMul(ScMul(p, q), t) \in Int /\ Cong(ScMul(ScMul(p, q), t), (p * q) * t)
             /\ (p * q) * t \in Int
  <2> DEFINE m == ScMul(p, q)
             n == p * q
  <2>1. m \in Int /\ n \in Int /\ Cong(m, n)
    <3>1. n \in Int
      OBVIOUS
    <3>2. m \in Scalars /\ Cong(m, n)
      BY ScalarOps
    <3> QED BY <3>1, <3>2, QIs
  <2> HIDE DEF m, n
  <2>2. ScMul(m, t) \in Int /\ Cong(ScMul(m, t), m * t)
    BY <2>1, ScalarOps, QIs
  <2>3. Cong(m * t, n * t)
    BY <2>1, CongTimes
  <2>4. Cong(ScMul(m, t), n * t) /\ n * t \in Int
    BY <2>1, <2>2, <2>3, CongEquiv
  <2> QED BY <2>2, <2>4 DEF m, n
<1> DEFINE f == ScMul(ScMul(r, yc), b1)
           g == ScMul(ScMul(s, yc), a1)
           u == (r * yc) * b1
           v == (s * yc) * a1
<1>2. f \in Int /\ u \in Int /\ Cong(f, u) /\ g \in Int /\ v \in Int /\ Cong(g, v)
  BY <1>1, Zenon
<1>3. CrossOf(yc, a1, b1, r, s) = ScAdd(f, g)
  BY Zenon DEF CrossOf
<1> HIDE DEF f, g, u, v
<1>4. ScAdd(f, g) \in Scalars /\ Cong(ScAdd(f, g), f + g) /\ ScAdd(f, g) \in Int
  BY <1>2, ScalarOps, QIs
<1>5. Cong(f + g, u + v)
  BY <1>2, CongOps
<1>6. Cong(ScAdd(f, g), u + v)
  BY <1>4, <1>5, CongEquiv
<1>7. ScMul(ScMul(r, yc), s) \in Int /\ Cong(ScMul(ScMul(r, yc), s), (r * yc) * s)
  BY <1>1, Zenon
<1> QED BY <1>3, <1>4, <1>6, <1>7, Zenon DEF CrossIs, u, v

\* A proof whose last values come from vectors of length one that stand for the start
\* and all rounds (BppFinish) satisfies the equation of the verifier.
SidesAgree(e, start, yc, cs, proof, bits) == LeftSide(e, start, cs, proof) = RightSide(e, yc, cs, proof, bits)

ProofEnds(f, chal, prod, last, yc, zc, a, b, g, h, ls, rs, al, start, bits, e, r, s, d, eta, proof) ==
    SidesAgree(e, start, yc, [i \in 1 .. Len(ls) |-> chal[i]], proof, bits)

LEMMA RoundsEnd ==
    ASSUME NEW f, NEW chal, NEW prod, NEW last, NEW yc \in Scalars, yc # 0, NEW zc, NEW a, NEW b, NEW g, NEW h,
           NEW ls \in Seq(Points), NEW rs \in Seq(Points), Len(ls) = Len(rs),
           NEW al \in Scalars, NEW start, NEW bits \in 0 .. Vectors,
           RoundingOf(f, chal, prod, 0, last, yc, zc, a, b, g, h, ls, rs, al, start, bits),
           NEW e \in Scalars, NEW r \in Scalars, NEW s \in Scalars, NEW d \in Scalars, NEW eta \in Scalars,
           NEW proof, proof.L = ls, proof.R = rs,
           proof.A1 = FirstPoint(r, s, d, CrossOf(yc, a[1], b[1], r, s), g[1], h[1]),
           proof.B = SecondPoint(eta, ScMul(ScMul(r, yc), s)),
           proof.r1 = ScMulAdd(a[1], e, r), proof.s1 = ScMulAdd(b[1], e, s), proof.d1 = FinishSum(al, e, d, eta)
    PROVE  ProofEnds(f, chal, prod, last, yc, zc, a, b, g, h, ls, rs, al, start, bits, e, r, s, d, eta, proof)
<1> DEFINE n == Len(ls)
           cs == [i \in 1 .. n |-> chal[i]]
           fac == prod[n]
           g1 == g[1]
           h1 == h[1]
           a1 == a[1]
           b1 == b[1]
           u == proof.r1
           v == proof.s1
           w == proof.d1
           left == LeftSide(e, start, cs, proof)
           right == RightSide(e, yc, cs, proof, bits)
<1>1. n \in Nat /\ 0 + n = n /\ TwoTo[0] = 1 /\ bits \in Nat
  <2>1. n \in Nat
    OBVIOUS
  <2>2. bits \in Nat
    BY BaseAssumption
  <2> HIDE DEF n
  <2> QED BY <2>1, <2>2, TwoToIs
<1>2. /\ VectorsOf(a, b, g, h, 1)
      /\ ChainOf(f, chal, n, ls, rs)
      /\ FactorsOf(prod, chal, n, n, bits)
      /\ BasesAre(g, "Gi", Invert(yc), fac, 1, bits)
      /\ BasesAre(h, "Hi", 1, Mirror(fac, bits), 1, bits)
      /\ start \in Points
      /\ \A x \in Bases : StandFor(yc, a, b, g, h, 1, al, start, chal, ls, rs, x)
  BY <1>1, Zenon DEF RoundingOf
<1>3. a1 \in Scalars /\ b1 \in Scalars /\ g1 \in Points /\ h1 \in Points
  <2>1. 1 \in 1 .. 1
    OBVIOUS
  <2> QED BY <1>2, <2>1 DEF VectorsOf
<1>4. a1 \in Int /\ b1 \in Int /\ e \in Int /\ r \in Int /\ s \in Int /\ d \in Int /\ eta \in Int /\ yc \in Int /\ al \in Int
  BY <1>3, QIs
<1>5. fac \in [1 .. bits -> Scalars] /\ chal \in [0 .. n -> Scalars \ {0}]
  <2>1. n \in 0 .. n
    BY <1>1
  <2> QED BY <1>2, <2>1 DEF FactorsOf, ChainOf
<1>6. \A k \in 1 .. bits : BaseFactor(cs, k) = fac[k]
  <2> SUFFICES ASSUME NEW k \in 1 .. bits PROVE BaseFactor(cs, k) = fac[k]
    OBVIOUS
  <2>1. FactorIs(chal, prod, n, k)
    BY <1>1, <1>2, <1>5, BaseFactorIs, Zenon
  <2> QED BY <2>1, Zenon DEF FactorIs
<1>7. /\ u \in Scalars /\ Cong(u, a1 * e + r) /\ v \in Scalars /\ Cong(v, b1 * e + s)
      /\ w \in Scalars /\ Cong(w, al * (e * e) + (d * e + eta))
  <2>1. ScMulAdd(a1, e, r) \in Scalars /\ Cong(ScMulAdd(a1, e, r), a1 * e + r)
    BY <1>4, ResponsesAre
  <2>2. ScMulAdd(b1, e, s) \in Scalars /\ Cong(ScMulAdd(b1, e, s), b1 * e + s)
    BY <1>4, ResponsesAre
  <2>3. FinishSum(al, e, d, eta) \in Scalars /\ Cong(FinishSum(al, e, d, eta), al * (e * e) + (d * e + eta))
    BY <1>4, ResponsesAre
  <2> QED BY <2>1, <2>2, <2>3
<1>8. \A i \in 1 .. n : cs[i] = chal[i] /\ cs[i] \in Scalars /\ cs[i] # 0
  <2>1. \A i \in 1 .. n : i \in 0 .. n
    BY <1>1
  <2> QED BY <1>5, <2>1
<1>9. cs = [i \in 1 .. n |-> cs[i]]
  OBVIOUS
<1>10. \A i \in 1 .. n : proof.L[i] \in Points /\ proof.R[i] \in Points
  <2>1. \A i \in 1 .. Len(rs) : rs[i] \in Points
    OBVIOUS
  <2>2. \A i \in 1 .. n : ls[i] \in Points
    OBVIOUS
  <2> QED BY <2>1, <2>2
<1> HIDE DEF cs, n, fac, u, v, w
<1>11. ASSUME NEW x \in Bases
       PROVE  left \in Points /\ right \in Points /\ Cong(left[x], right[x])
  <2> DEFINE cross == CrossOf(yc, a1, b1, r, s)
             rys == ScMul(ScMul(r, yc), s)
             A1x == proof.A1
             Bx == proof.B
             F == SumFunction(TermsOf(yc, a, b, g, h, 1, x))
             sm == RoundsAt(cs, proof.L, proof.R, n, x)
             gx == G[x]
             hx == H[x]
             gg == g1[x]
             hh == h1[x]
             pw == Pw(yc)[1]
             st == start[x]
  <2>1. CrossIs(cross, rys, yc, a1, b1, r, s)
    BY <1>4, CrossTerms, Zenon
  <2>2. /\ cross \in Int /\ Cong(cross, (r * yc) * b1 + (s * yc) * a1)
        /\ rys \in Int /\ Cong(rys, (r * yc) * s)
    BY <2>1 DEF CrossIs
  <2> HIDE DEF cross, rys
  <2>3. EightIs(A1x, (r * gg + s * hh) + (d * gx + cross * hx), x)
    <3>1. A1x = FirstPoint(r, s, d, cross, g1, h1)
      BY Zenon DEF cross
    <3>2. EightIs(FirstPoint(r, s, d, cross, g1, h1), (r * g1[x] + s * h1[x]) + (d * G[x] + cross * H[x]), x)
      BY <1>3, <1>4, <2>2, FirstPointIs, Zenon
    <3> QED BY <3>1, <3>2, Zenon
  <2>4. EightIs(Bx, eta * gx + rys * hx, x)
    <3>1. Bx = SecondPoint(eta, rys)
      BY Zenon DEF rys
    <3>2. EightIs(SecondPoint(eta, rys), eta * G[x] + rys * H[x], x)
      BY <1>4, <2>2, SecondPointIs, Zenon
    <3> QED BY <3>1, <3>2, Zenon
  <2>5. A1x \in Points /\ Bx \in Points /\ A1x[x] \in Int /\ Bx[x] \in Int
    <3>1. A1x \in Points /\ Bx \in Points
      BY <2>3, <2>4, Zenon DEF EightIs
    <3> QED BY <3>1, CoordinateIsInt
  <2>6. OneTermIs(yc, a, b, g, h, x)
    BY <1>2, OneTerm, Zenon
  <2>7. LeftComes(left, e, start, sm, A1x, Bx, x)
    BY <1>1, <1>2, <1>8, <1>9, <1>10, <2>5, LeftSideIs, Zenon
  <2>8. RightComes(right, u, v, w, e, yc, gg, hh, x)
    <3>1. proof.r1 = u /\ proof.s1 = v /\ proof.d1 = w
      BY DEF u, v, w
    <3> QED BY <1>2, <1>3, <1>5, <1>6, <1>7, <3>1, RightSideIs, Zenon
  <2>9. sm = RoundsAt(chal, ls, rs, n, x)
    <3> DEFINE p1 == [i \in 1 .. n |-> RoundPoint(cs[i], ls[i], rs[i])[x]]
               p2 == [i \in 1 .. n |-> RoundPoint(chal[i], ls[i], rs[i])[x]]
    <3>1. p1 = p2
      BY <1>8
    <3> QED BY <3>1, Zenon DEF RoundsAt
  <2>10. Cong(F + al * gx, st + sm)
    <3>1. StandFor(yc, a, b, g, h, 1, al, start, chal, ls, rs, x)
      BY <1>2
    <3>2. Cong(SumFunction(TermsOf(yc, a, b, g, h, 1, x)) + al * G[x], start[x] + RoundsAt(chal, ls, rs, Len(ls), x))
      BY <3>1, Zenon DEF StandFor
    <3> QED BY <2>9, <3>2, Zenon DEF n
  <2>11. /\ F = (a1 * gg + b1 * hh) + (a1 * b1) * (pw * hx) /\ F \in Int
         /\ pw \in Int /\ Cong(pw, yc)
    BY <2>6, Zenon DEF OneTermIs
  <2>12. sm \in Int /\ st \in Int /\ gx \in Int /\ hx \in Int /\ gg \in Int /\ hh \in Int
    <3>1. sm \in Int
      BY <2>7, Zenon DEF LeftComes
    <3> QED BY <1>2, <1>3, <3>1, CoordinateIsInt, PointsAre
  <2> DEFINE fold == st + sm
             a8 == 8 * A1x[x]
             b8 == 8 * Bx[x]
  <2>13. Cong(a8, (r * gg + s * hh) + (d * gx + cross * hx)) /\ Cong(b8, eta * gx + rys * hx)
    BY <2>3, <2>4, Zenon DEF EightIs
  <2>14. left \in Points /\ Cong(left[x], (e * e) * fold + (e * a8 + b8))
    BY <2>7, Zenon DEF LeftComes
  <2>15. right \in Points /\ Cong(right[x], ((u * e) * gg + (v * e) * hh) + (w * gx + ((u * yc) * v) * hx))
    BY <2>8, Zenon DEF RightComes
  <2>16. fold \in Int /\ a8 \in Int /\ b8 \in Int /\ u \in Int /\ v \in Int /\ w \in Int
    <3>1. 8 \in Int
      OBVIOUS
    <3>2. a8 \in Int /\ b8 \in Int
      BY <2>5, <3>1
    <3>3. fold \in Int
      BY <2>12
    <3>4. u \in Int /\ v \in Int /\ w \in Int
      BY <1>7, QIs
    <3> QED BY <3>2, <3>3, <3>4
  <2>17. Cong(fold, ((a1 * gg + b1 * hh) + (a1 * b1) * (pw * hx)) + al * gx)
    BY <2>10, <2>11, CongEquiv
  <2> HIDE DEF fold, a8, b8, F, sm, st, gx, hx, gg, hh, pw, left, right, A1x, Bx
  <2>18. LastBalances(fold, a8, b8, e, gg, hh, gx, hx, yc, u, v, w)
    <3> HIDE DEF a1, b1
    <3>1. Finishes(a1, b1, gg, hh, yc, e, r, s, d, eta, al, gx, hx, cross, rys, pw, u, v, w, fold, a8, b8)
      BY <1>4, <1>7, <2>2, <2>11, <2>12, <2>13, <2>16, <2>17, FinishArithmetic, Zenon
    <3> QED BY <3>1, Zenon DEF Finishes
  <2>19. Cong((e * e) * fold + (e * a8 + b8), ((u * e) * gg + (v * e) * hh) + (w * gx + ((u * yc) * v) * hx))
    BY <2>18, Zenon DEF LastBalances
  <2> QED BY <2>14, <2>15, <2>19, CongEquiv, Zenon
<1>12. left \in Points /\ right \in Points
  <2>1. \E x : x \in Bases
    BY DEF Bases
  <2> QED BY <1>11, <2>1
<1> HIDE DEF left, right
<1>13. left = right
  BY <1>11, <1>12, PointEq
<1> QED BY <1>13, Zenon DEF ProofEnds, SidesAgree, left, right, cs, n

-----------------------------------------------------------------------------
(* The commitments and the bits: what BppStart computes.                        *)

\* What BppStart hashes: an eighth of each commitment of the transaction.
Vs == [j \in DOMAIN OutPk |-> Eighth(OutPk[j])]

\* The eighth of a commitment is the commitment to the eighths.
LEMMA EighthOfCommitment ==
    ASSUME NEW m \in Int, NEW a \in Int
    PROVE  AddKeys2(ScMul(m, InvEight), ScMul(a, InvEight), H) = Eighth(CalcCommitment(a, m))
<1> DEFINE i == InvEight
           u == ScMul(m, i)
           v == ScMul(a, i)
           p == AddKeys2(u, v, H)
           q == CalcCommitment(a, m)
           e == Eighth(q)
<1>1. i \in Int
  BY InvEightIs, QIs
<1> HIDE DEF i
<1>2. u \in Scalars /\ u \in Int /\ Cong(u, m * i) /\ v \in Scalars /\ v \in Int /\ Cong(v, a * i)
  BY <1>1, ScalarOps, QIs
<1> HIDE DEF u, v
<1>3. p \in Points /\ \A x \in Bases : Cong(p[x], u * G[x] + v * H[x])
  BY <1>2, AddKeys2Is
<1>4. q \in Points /\ \A x \in Bases : Cong(q[x], m * G[x] + a * H[x])
  BY CommitmentIs
<1> HIDE DEF p, q
<1>5. e \in Points /\ \A x \in Bases : Cong(e[x], i * q[x])
  BY <1>1, <1>4, PointOps DEF Eighth, i
<1> HIDE DEF e
<1>6. ASSUME NEW x \in Bases PROVE Cong(p[x], e[x])
  <2> DEFINE g == G[x]
             h == H[x]
             mg == m * g
             ah == a * h
             r == q[x]
  <2>1. g \in Int /\ h \in Int /\ r \in Int
    BY <1>4, CoordinateIsInt, PointsAre
  <2>2. Cong(r, mg + ah) /\ Cong(e[x], i * r) /\ Cong(p[x], u * g + v * h)
    BY <1>3, <1>4, <1>5
  <2> HIDE DEF g, h, r
  <2>3. mg \in Int /\ ah \in Int /\ m * i \in Int /\ a * i \in Int /\ u * g \in Int /\ v * h \in Int
    BY <1>1, <1>2, <2>1
  <2>4. Cong(u * g, (m * i) * g) /\ (m * i) * g = i * mg
    <3>1. Cong(u * g, (m * i) * g)
      BY <1>2, <2>1, <2>3, CongTimes
    <3>2. (m * i) * g = i * mg
      BY <1>1, <2>1
    <3> QED BY <3>1, <3>2
  <2>5. Cong(v * h, (a * i) * h) /\ (a * i) * h = i * ah
    <3>1. Cong(v * h, (a * i) * h)
      BY <1>2, <2>1, <2>3, CongTimes
    <3>2. (a * i) * h = i * ah
      BY <1>1, <2>1
    <3> QED BY <3>1, <3>2
  <2> HIDE DEF mg, ah
  <2>6. i * mg \in Int /\ i * ah \in Int /\ mg + ah \in Int /\ i * (mg + ah) = i * mg + i * ah
    BY <1>1, <2>3
  <2> DEFINE k == u * g
             l == v * h
             s == i * mg
             t == i * ah
  <2>7. k \in Int /\ l \in Int /\ s \in Int /\ t \in Int /\ Cong(k, s) /\ Cong(l, t)
    BY <2>3, <2>4, <2>5, <2>6
  <2>8. i * (mg + ah) = s + t
    BY <2>6
  <2>9. Cong(p[x], k + l)
    BY <2>2
  <2> HIDE DEF k, l, s, t
  <2>10. Cong(k + l, s + t)
    BY <2>7, CongOps
  <2>11. Cong(i * r, i * (mg + ah))
    BY <1>1, <2>1, <2>2, <2>6, CongTimes
  <2>12. Cong(e[x], s + t)
    BY <2>2, <2>8, <2>11, CongEquiv
  <2> QED BY <2>9, <2>10, <2>12, CongEquiv
<1>7. p = e
  BY <1>3, <1>5, <1>6, PointEq
<1> QED BY <1>7, Zenon DEF p, e, q, u, v, i

LEMMA OpeningIs ==
    ASSUME Given, Len(amounts) = Len(masks), N \in Nat,
           NEW f, f = [j \in DOMAIN masks |-> AddKeys2(ScMul(masks[j], InvEight), ScMul(amounts[j] % Q, InvEight), H)]
    PROVE  f = Vs
<1> DEFINE n == Len(masks)
<1>1. masks \in Seq(Scalars) /\ amounts \in Seq(0 .. TwoTo[N] - 1) /\ tx.masks = masks /\ tx.amounts = amounts
  BY DEF Given
<1>2. n \in Nat /\ DOMAIN masks = 1 .. n /\ DOMAIN amounts = 1 .. n
  BY <1>1, LenProperties
<1>3. OutPk = [j \in 1 .. n |-> CalcCommitment(IF j \in 1 .. n THEN amounts[j] % Q ELSE 0, masks[j])]
  BY <1>1, <1>2 DEF OutPk
<1> HIDE DEF n
<1>4. ASSUME NEW j \in 1 .. n
      PROVE  AddKeys2(ScMul(masks[j], InvEight), ScMul(amounts[j] % Q, InvEight), H) = Eighth(OutPk[j])
  <2> DEFINE a == amounts[j] % Q
             m == masks[j]
  <2>1. m \in Int
    BY <1>1, <1>2, ElementOfSeq, QIs DEF n
  <2>2. a \in Int
    <3>1. TwoTo[N] \in Nat \ {0}
      BY TwoToIs, Zenon
    <3>2. amounts[j] \in 0 .. TwoTo[N] - 1
      BY <1>1, <1>2, ElementOfSeq DEF n
    <3>3. amounts[j] \in Int
      BY <3>1, <3>2
    <3> QED BY <3>3, Reduced
  <2>3. OutPk[j] = CalcCommitment(a, m)
    BY <1>3
  <2> HIDE DEF a, m
  <2>4. AddKeys2(ScMul(m, InvEight), ScMul(a, InvEight), H) = Eighth(CalcCommitment(a, m))
    BY <2>1, <2>2, EighthOfCommitment
  <2> QED BY <2>3, <2>4 DEF a, m
<1>5. DOMAIN OutPk = 1 .. n
  BY <1>3
<1> QED BY <1>2, <1>4, <1>5, Zenon DEF Vs

HoldsBits(p, al) ==
    p \in Points /\ \A x \in Bases : Cong(8 * p[x], VectorExponent(LeftBits, RightBits)[x] + al * G[x])

LEMMA BitsCommitted ==
    ASSUME Fits, amounts \in Seq(0 .. TwoTo[N] - 1), NEW al \in Scalars
    PROVE  HoldsBits(Eighth(AddPoints(VectorExponent(LeftBits, RightBits), ScalarMult(al, G))), al)
<1> DEFINE VG == SumPoints([k \in 1 .. MN |-> ScalarMult(LeftBits[k], PointOf(BaseGi(k)))])
           VH == SumPoints([k \in 1 .. MN |-> ScalarMult(RightBits[k], PointOf(BaseHi(k)))])
           VE == VectorExponent(LeftBits, RightBits)
           q == ScalarMult(al, G)
           t == AddPoints(VE, q)
           p == Eighth(t)
<1>1. VE = AddPoints(VG, VH)
  <2>1. DOMAIN LeftBits = 1 .. MN /\ DOMAIN RightBits = 1 .. MN
    BY DEF LeftBits, RightBits
  <2> QED BY <2>1 DEF VectorExponent
<1>2. VG \in Points /\ VH \in Points
  <2>1. BaseG \in Bases /\ 0 \in Scalars
    BY QIs DEF Bases
  <2>2. StartSumsAre(0, 0, BaseG)
    BY <2>1, StartSumsHold, Zenon
  <2> QED BY <2>2, Zenon DEF StartSumsAre, MultiplesSum
<1>3. al \in Int /\ G \in Points
  BY QIs, PointsAre
<1>4. VE \in Points
  <2> HIDE DEF VG, VH, VE
  <2> QED BY <1>1, <1>2, PointOps, 0 \in Int
<1> HIDE DEF VE
<1>5. q \in Points /\ \A x \in Bases : Cong(q[x], al * G[x])
  BY <1>3, PointOps
<1> HIDE DEF q
<1>6. t \in Points /\ \A x \in Bases : Cong(t[x], VE[x] + q[x])
  BY <1>4, <1>5, PointOps, 0 \in Int
<1> HIDE DEF t
<1>7. p \in Points /\ \A x \in Bases : Cong(8 * p[x], t[x])
  BY <1>6, EighthIs
<1> HIDE DEF p
<1>8. ASSUME NEW x \in Bases PROVE Cong(8 * p[x], VE[x] + al * G[x])
  <2>1. VE[x] \in Int /\ q[x] \in Int /\ G[x] \in Int
    BY <1>3, <1>4, <1>5, CoordinateIsInt
  <2>2. al * G[x] \in Int
    BY <1>3, <2>1
  <2>3. Cong(VE[x] + q[x], VE[x] + al * G[x])
    BY <1>5, <2>1, <2>2, CongPlus
  <2> QED BY <1>6, <1>7, <2>3, CongEquiv
<1> QED BY <1>7, <1>8, Zenon DEF HoldsBits, p, t, VE, q

-----------------------------------------------------------------------------
(* The inductive invariant of the range proof.                                  *)

BppStages == {"start", "prepare", "rounds", "proved", "failed"}

BppNumbers ==
    /\ bppStage \in BppStages
    /\ alpha1 \in Scalars /\ y \in Scalars /\ z \in Scalars /\ transcript \in Scalars
    /\ r1 \in Scalars /\ s1 \in Scalars /\ d1 \in Scalars
    /\ A \in Points /\ A1 \in Points /\ B \in Points
    /\ L \in Seq(Points) /\ R \in Seq(Points) /\ Len(L) = Len(R)

BppSizes ==
    /\ bppStage = "failed" => Len(amounts) # Len(masks) \/ TooLarge(Len(masks))
    /\ bppStage \in {"prepare", "rounds", "proved"} => Fits /\ Len(amounts) = Len(masks)
    /\ bppStage \in {"start", "prepare", "failed"} => L = <<>> /\ R = <<>>

\* The transcript is opened by the commitments; A holds the bits of the amounts.
BitsHeld == bppStage = "prepare" => Known(hashes, TranscriptQuery(0, Vs), transcript) /\ HoldsBits(A, alpha1)

\* The challenges y and z come from the commitments and A.
OpenedWith(f, yc, zc, vs, a) ==
    /\ yc # 0 /\ zc # 0 /\ Known(f, Query("scalar", <<yc>>, <<>>), zc)
    /\ \E t : Known(f, TranscriptQuery(0, vs), t) /\ Known(f, TranscriptQuery(t, <<a>>), yc)
Opened == bppStage \in {"rounds", "proved"} => OpenedWith(hashes, y, z, Vs, A)

\* What the vectors and the blinding stand for is the start and all rounds.
RoundsStand(f, last, yc, zc, a, b, g, h, ls, rs, al, start, bits) ==
    \E t \in Nat : \E chal, prod : RoundingOf(f, chal, prod, t, last, yc, zc, a, b, g, h, ls, rs, al, start, bits)
Rounding == bppStage = "rounds" =>
    RoundsStand(hashes, transcript, y, z, aprime, bprime, Gprime, Hprime, L, R, alpha1,
                StartPoint(OutPk, A, y, z, MN), MN)

\* The equation of the verifier, with challenges that were computed.
ProofHolds(f, yc, zc, start, proof, bits) ==
    \E chal, e :
        /\ TwoTo[Len(proof.L)] = bits
        /\ ChainOf(f, chal, Len(proof.L), proof.L, proof.R) /\ chal[0] = zc
        /\ Known(f, TranscriptQuery(chal[Len(proof.L)], <<proof.A1, proof.B>>), e) /\ e \in Scalars
        /\ SidesAgree(e, start, yc, [i \in 1 .. Len(proof.L) |-> chal[i]], proof, bits)
Proved == bppStage = "proved" => ProofHolds(hashes, y, z, StartPoint(OutPk, A, y, z, MN), Proof, MN)

BppInv == BppNumbers /\ BppSizes /\ BitsHeld /\ Opened /\ Rounding /\ Proved

LEMMA InitBpp == Init => BppInv
<1> SUFFICES ASSUME Init PROVE BppInv
  OBVIOUS
<1>1. /\ bppStage = "start" /\ transcript = 0 /\ A = Identity /\ alpha1 = 0 /\ y = 0 /\ z = 0
      /\ L = <<>> /\ R = <<>> /\ A1 = Identity /\ B = Identity /\ r1 = 0 /\ s1 = 0 /\ d1 = 0
  BY DEF Init, BppInit
<1>2. BppNumbers
  BY <1>1, QIs, PointsAre DEF BppNumbers, BppStages
<1> QED BY <1>1, <1>2 DEF BppInv, BppSizes, BitsHeld, Opened, Rounding, Proved

\* Hashes that were computed stay, whatever is done.
LEMMA OpenedStays ==
    ASSUME NEW f, NEW f2, Grows(f, f2), NEW yc, NEW zc, NEW vs, NEW a, OpenedWith(f, yc, zc, vs, a)
    PROVE  OpenedWith(f2, yc, zc, vs, a)
<1>1. PICK t : Known(f, TranscriptQuery(0, vs), t) /\ Known(f, TranscriptQuery(t, <<a>>), yc)
  BY DEF OpenedWith
<1>2. Known(f2, TranscriptQuery(0, vs), t) /\ Known(f2, TranscriptQuery(t, <<a>>), yc)
  BY <1>1, StaysKnown
<1>3. yc # 0 /\ zc # 0 /\ Known(f2, Query("scalar", <<yc>>, <<>>), zc)
  BY StaysKnown DEF OpenedWith
<1> QED BY <1>2, <1>3 DEF OpenedWith

LEMMA ChainStays ==
    ASSUME NEW f, NEW f2, Grows(f, f2), NEW chal, NEW r, NEW ls, NEW rs, ChainOf(f, chal, r, ls, rs)
    PROVE  ChainOf(f2, chal, r, ls, rs)
BY StaysKnown DEF ChainOf

LEMMA RoundsStay ==
    ASSUME NEW f, NEW f2, Grows(f, f2), NEW last, NEW yc, NEW zc, NEW a, NEW b, NEW g, NEW h, NEW ls, NEW rs,
           NEW al, NEW start, NEW bits, RoundsStand(f, last, yc, zc, a, b, g, h, ls, rs, al, start, bits)
    PROVE  RoundsStand(f2, last, yc, zc, a, b, g, h, ls, rs, al, start, bits)
<1>1. PICK t \in Nat : \E chal, prod : RoundingOf(f, chal, prod, t, last, yc, zc, a, b, g, h, ls, rs, al, start, bits)
  BY DEF RoundsStand
<1>2. PICK chal, prod : RoundingOf(f, chal, prod, t, last, yc, zc, a, b, g, h, ls, rs, al, start, bits)
  BY <1>1
<1>3. ChainOf(f, chal, Len(ls), ls, rs)
  BY <1>2, Zenon DEF RoundingOf
<1>4. ChainOf(f2, chal, Len(ls), ls, rs)
  BY <1>3, ChainStays, Zenon
<1>5. RoundingOf(f2, chal, prod, t, last, yc, zc, a, b, g, h, ls, rs, al, start, bits)
  BY <1>2, <1>4, Zenon DEF RoundingOf
<1> QED BY <1>5, Zenon DEF RoundsStand

LEMMA ProofStays ==
    ASSUME NEW f, NEW f2, Grows(f, f2), NEW yc, NEW zc, NEW start, NEW proof, NEW bits,
           ProofHolds(f, yc, zc, start, proof, bits)
    PROVE  ProofHolds(f2, yc, zc, start, proof, bits)
<1>1. PICK chal, e :
        /\ TwoTo[Len(proof.L)] = bits
        /\ ChainOf(f, chal, Len(proof.L), proof.L, proof.R) /\ chal[0] = zc
        /\ Known(f, TranscriptQuery(chal[Len(proof.L)], <<proof.A1, proof.B>>), e) /\ e \in Scalars
        /\ SidesAgree(e, start, yc, [i \in 1 .. Len(proof.L) |-> chal[i]], proof, bits)
  BY Zenon DEF ProofHolds
<1>2. ChainOf(f2, chal, Len(proof.L), proof.L, proof.R)
  BY <1>1, ChainStays, Zenon
<1>3. Known(f2, TranscriptQuery(chal[Len(proof.L)], <<proof.A1, proof.B>>), e)
  BY <1>1, StaysKnown, Zenon
<1> QED BY <1>1, <1>2, <1>3, Zenon DEF ProofHolds

LEMMA BppFrame ==
    ASSUME BppInv, Grows(hashes, hashes'), UNCHANGED bppVars, tx' = tx
    PROVE  BppInv'
<1>1. /\ UNCHANGED <<amounts, masks, bppStage, transcript, V, A, alpha1, y, z, L, R>>
      /\ UNCHANGED <<Gprime, Hprime, aprime, bprime, A1, B, r1, s1, d1>>
  BY DEF bppVars, vectorVars, proofVars
<1>2. OutPk' = OutPk
  BY <1>1 DEF OutPk
<1>3. Vs' = Vs
  BY <1>2 DEF Vs
<1>4. MN' = MN /\ LeftBits' = LeftBits /\ RightBits' = RightBits
  BY <1>1, Zenon DEF MN, LeftBits, RightBits, BitAt, Bit
<1>5. BppNumbers' /\ BppSizes'
  BY <1>1 DEF BppInv, BppNumbers, BppSizes, Fits
<1>6. BitsHeld'
  <2> SUFFICES ASSUME bppStage' = "prepare"
               PROVE  Known(hashes', TranscriptQuery(0, Vs'), transcript') /\ HoldsBits(A, alpha1)'
    BY DEF BitsHeld
  <2>1. Known(hashes, TranscriptQuery(0, Vs), transcript) /\ HoldsBits(A, alpha1)
    BY <1>1 DEF BppInv, BitsHeld
  <2>2. Known(hashes', TranscriptQuery(0, Vs), transcript)
    BY <2>1, StaysKnown
  <2> QED BY <1>1, <1>3, <1>4, <2>1, <2>2 DEF HoldsBits
<1>7. Opened'
  <2> SUFFICES ASSUME bppStage' \in {"rounds", "proved"} PROVE OpenedWith(hashes', y', z', Vs', A')
    BY DEF Opened
  <2>1. OpenedWith(hashes, y, z, Vs, A)
    BY <1>1 DEF BppInv, Opened
  <2>2. OpenedWith(hashes', y, z, Vs, A)
    BY <2>1, OpenedStays
  <2> QED BY <1>1, <1>3, <2>2
<1>8. Rounding'
  <2> SUFFICES ASSUME bppStage' = "rounds"
               PROVE  RoundsStand(hashes', transcript', y', z', aprime', bprime', Gprime', Hprime', L', R', alpha1',
                                  StartPoint(OutPk', A', y', z', MN'), MN')
    BY DEF Rounding
  <2>1. RoundsStand(hashes, transcript, y, z, aprime, bprime, Gprime, Hprime, L, R, alpha1,
                    StartPoint(OutPk, A, y, z, MN), MN)
    BY <1>1 DEF BppInv, Rounding
  <2>2. RoundsStand(hashes', transcript, y, z, aprime, bprime, Gprime, Hprime, L, R, alpha1,
                    StartPoint(OutPk, A, y, z, MN), MN)
    BY <2>1, RoundsStay, Zenon
  <2> QED BY <1>1, <1>2, <1>4, <2>2, Zenon
<1>9. Proved'
  <2> SUFFICES ASSUME bppStage' = "proved"
               PROVE  ProofHolds(hashes', y', z', StartPoint(OutPk', A', y', z', MN'), Proof', MN')
    BY DEF Proved
  <2>1. ProofHolds(hashes, y, z, StartPoint(OutPk, A, y, z, MN), Proof, MN)
    BY <1>1 DEF BppInv, Proved
  <2>2. ProofHolds(hashes', y, z, StartPoint(OutPk, A, y, z, MN), Proof, MN)
    BY <2>1, ProofStays, Zenon
  <2>3. Proof' = Proof
    BY <1>1 DEF Proof
  <2> QED BY <1>1, <1>2, <1>4, <2>2, <2>3, Zenon
<1> QED BY <1>5, <1>6, <1>7, <1>8, <1>9 DEF BppInv

-----------------------------------------------------------------------------
(* One step per action of the range proof.                                      *)

LEMMA DrawsAre ==
    ASSUME Given, NEW random \in sample.randoms
    PROVE  random[1] \in Scalars /\ random[2] \in Scalars /\ random[3] \in Scalars /\ random[4] \in Scalars
<1>1. random \in Seq(Scalars) /\ Len(random) >= 4
  BY DEF Given, SampleType
<1>2. Len(random) \in Nat
  BY <1>1, LenProperties
<1>3. 1 \in 1 .. Len(random) /\ 2 \in 1 .. Len(random) /\ 3 \in 1 .. Len(random) /\ 4 \in 1 .. Len(random)
  BY <1>1, <1>2
<1> QED BY <1>1, <1>3, ElementOfSeq

LEMMA NewHash ==
    ASSUME SignInv, NEW query, query.domain \in Domains, NEW answer, Hash(query, answer)
    PROVE  answer \in Scalars /\ answer # 0 /\ Grows(hashes, hashes') /\ Known(hashes', query, answer)
<1>1. HashesOK(hashes) /\ sample \in SampleType
  BY DEF SignInv, Numbers, Given
<1>2. answer \in Scalars \ {0} /\ Grows(hashes, hashes') /\ Known(hashes', query, answer)
  BY <1>1, HashOK, Zenon
<1> QED BY <1>2

LEMMA SameOutputs ==
    ASSUME tx' = tx, masks' = masks, amounts' = amounts
    PROVE  /\ OutPk' = OutPk /\ Vs' = Vs /\ MN' = MN /\ LeftBits' = LeftBits /\ RightBits' = RightBits
           /\ Fits' = Fits
<1>1. OutPk' = OutPk
  BY DEF OutPk
<1>2. Vs' = Vs
  BY <1>1 DEF Vs
<1>3. MN' = MN /\ LeftBits' = LeftBits /\ RightBits' = RightBits
  BY Zenon DEF MN, LeftBits, RightBits, BitAt, Bit
<1>4. Fits' = Fits
  BY DEF Fits
<1> QED BY <1>1, <1>2, <1>3, <1>4

LEMMA BppStartStep ==
    ASSUME SignInv, BppInv, BppStart, tx' = tx
    PROVE  BppInv'
<1>1. /\ bppStage = "start" /\ UNCHANGED <<amounts, masks, y, z, L, R, A1, B, r1, s1, d1>>
  BY DEF BppStart, proofVars
<1>2. Given /\ L = <<>> /\ R = <<>> /\ BppNumbers
  BY <1>1 DEF SignInv, BppInv, BppSizes
<1>3. Vs' = Vs /\ LeftBits' = LeftBits /\ RightBits' = RightBits /\ Fits' = Fits
  BY <1>1, SameOutputs
<1>4. CASE Len(amounts) # Len(masks) \/ TooLarge(Len(masks))
  <2>1. bppStage' = "failed" /\ UNCHANGED <<transcript, V, A, alpha1>>
    BY <1>4 DEF BppStart
  <2>2. BppNumbers'
    BY <1>1, <1>2, <2>1 DEF BppNumbers, BppStages
  <2>3. BppSizes'
    BY <1>1, <1>2, <1>4, <2>1 DEF BppSizes
  <2> QED BY <2>1, <2>2, <2>3 DEF BppInv, BitsHeld, Opened, Rounding, Proved
<1>5. CASE ~(Len(amounts) # Len(masks) \/ TooLarge(Len(masks)))
  <2>1. /\ bppStage' = "prepare"
        /\ V' = [j \in DOMAIN masks |-> AddKeys2(ScMul(masks[j], InvEight), ScMul(amounts[j] % Q, InvEight), H)]
        /\ \E opened : Hash(TranscriptQuery(0, V'), opened) /\ transcript' = opened
        /\ \E random \in sample.randoms :
              /\ alpha1' = random[1]
              /\ A' = Eighth(AddPoints(VectorExponent(LeftBits, RightBits), ScalarMult(random[1], G)))
    BY <1>5 DEF BppStart
  <2>2. Fits /\ Len(amounts) = Len(masks)
    <3>1. Len(masks) \in Nat
      BY <1>2, LenProperties DEF Given
    <3> QED BY <1>5, <3>1 DEF Fits
  <2>3. N \in Nat /\ amounts \in Seq(0 .. TwoTo[N] - 1)
    BY <1>2, <2>2, SizesAre DEF Given
  <2>4. V' = Vs
    BY <1>2, <2>1, <2>2, <2>3, OpeningIs
  <2>5. PICK opened : Hash(TranscriptQuery(0, Vs), opened) /\ transcript' = opened
    BY <2>1, <2>4
  <2>6. transcript' \in Scalars /\ Known(hashes', TranscriptQuery(0, Vs), transcript')
    BY <2>5, TranscriptIs, NewHash
  <2>7. PICK random \in sample.randoms :
              /\ alpha1' = random[1]
              /\ A' = Eighth(AddPoints(VectorExponent(LeftBits, RightBits), ScalarMult(random[1], G)))
    BY <2>1
  <2>8. alpha1' \in Scalars
    BY <1>2, <2>7, DrawsAre
  <2>9. HoldsBits(A', alpha1')
    <3>1. A' = Eighth(AddPoints(VectorExponent(LeftBits, RightBits), ScalarMult(alpha1', G)))
      BY <2>7
    <3>2. HoldsBits(Eighth(AddPoints(VectorExponent(LeftBits, RightBits), ScalarMult(alpha1', G))), alpha1')
      BY <2>2, <2>3, <2>8, BitsCommitted, Zenon
    <3> QED BY <3>1, <3>2
  <2>10. A' \in Points
    BY <2>9 DEF HoldsBits
  <2>11. BppNumbers'
    BY <1>1, <1>2, <2>1, <2>6, <2>8, <2>10 DEF BppNumbers, BppStages
  <2>12. BppSizes'
    BY <1>1, <1>2, <1>3, <2>1, <2>2 DEF BppSizes
  <2>13. BitsHeld'
    BY <1>3, <2>6, <2>9 DEF BitsHeld, HoldsBits
  <2> QED BY <2>1, <2>11, <2>12, <2>13 DEF BppInv, Opened, Rounding, Proved
<1> QED BY <1>4, <1>5

LEMMA BppPrepareStep ==
    ASSUME SignInv, BppInv, BppPrepare, tx' = tx
    PROVE  BppInv'
<1>1. /\ bppStage = "prepare" /\ bppStage' = "rounds"
      /\ UNCHANGED <<amounts, masks, A, L, R, A1, B, r1, s1, d1>>
  BY DEF BppPrepare, proofVars
<1>2. /\ Given /\ L = <<>> /\ R = <<>> /\ BppNumbers /\ Fits /\ Len(amounts) = Len(masks)
      /\ Known(hashes, TranscriptQuery(0, Vs), transcript) /\ HoldsBits(A, alpha1)
      /\ HashesOK(hashes) /\ sample \in SampleType
  BY <1>1 DEF SignInv, BppInv, BppSizes, BitsHeld, Numbers, Given
<1>3. OutPk' = OutPk /\ Vs' = Vs /\ MN' = MN /\ Fits' = Fits
  BY <1>1, SameOutputs
<1>4. PICK answer \in Answers(hashes, TranscriptQuery(transcript, <<A>>)) :
        LET afterY == Answered(hashes, TranscriptQuery(transcript, <<A>>), answer)
        IN  \E next \in Answers(afterY, Query("scalar", <<answer>>, <<>>)) :
               /\ y' = answer /\ z' = next /\ transcript' = next
               /\ hashes' = Answered(afterY, Query("scalar", <<answer>>, <<>>), next)
  BY DEF BppPrepare
<1> DEFINE afterY == Answered(hashes, TranscriptQuery(transcript, <<A>>), answer)
           query == Query("scalar", <<answer>>, <<>>)
<1>5. PICK next \in Answers(afterY, query) :
        y' = answer /\ z' = next /\ transcript' = next /\ hashes' = Answered(afterY, query, next)
  BY <1>4
<1>6. /\ answer \in Scalars \ {0} /\ HashesOK(afterY) /\ Grows(hashes, afterY)
      /\ Known(afterY, TranscriptQuery(transcript, <<A>>), answer)
  BY <1>2, TranscriptIs, HashGrows
<1>7. query.domain \in Domains
  BY DomainOf, DomainsAre
<1> HIDE DEF afterY
<1>8. next \in Scalars \ {0} /\ Grows(afterY, hashes') /\ Known(hashes', query, next)
  <2> HIDE DEF query
  <2> QED BY <1>2, <1>5, <1>6, <1>7, HashGrows
<1>9. y' \in Scalars /\ y' # 0 /\ z' \in Scalars /\ z' # 0 /\ transcript' = z'
  BY <1>5, <1>6, <1>8
<1>10. Grows(hashes, hashes')
  BY <1>6, <1>8, GrowsOn
<1>11. OpenedWith(hashes', y', z', Vs, A)
  <2>1. Known(hashes', TranscriptQuery(0, Vs), transcript)
    BY <1>2, <1>10, StaysKnown
  <2>2. Known(hashes', TranscriptQuery(transcript, <<A>>), y')
    BY <1>5, <1>6, <1>8, StaysKnown
  <2>3. Known(hashes', Query("scalar", <<y'>>, <<>>), z')
    BY <1>5, <1>8
  <2> QED BY <1>9, <2>1, <2>2, <2>3 DEF OpenedWith
<1>12. /\ aprime' = StartA(z') /\ bprime' = StartB(y', z') /\ Gprime' = StartG /\ Hprime' = StartH
       /\ alpha1' = StartAlpha(y', z')
  BY Zenon DEF BppPrepare, StartA, StartB, StartG, StartH, StartAlpha
<1>13. /\ amounts \in Seq(0 .. TwoTo[N] - 1) /\ masks \in Seq(Scalars) /\ tx.masks = masks /\ tx.amounts = amounts
       /\ alpha1 \in Scalars /\ A \in Points
       /\ \A x \in Bases : Cong(8 * A[x], VectorExponent(LeftBits, RightBits)[x] + alpha1 * G[x])
  BY <1>2 DEF Given, BppNumbers, HoldsBits
<1>14. RoundsMayStart(hashes', y', z')
  <2> DEFINE f == hashes'
             yc == y'
             zc == z'
  <2>1. yc \in Scalars /\ yc # 0 /\ zc \in Scalars /\ zc # 0
    BY <1>9
  <2> HIDE DEF f, yc, zc
  <2>2. RoundsMayStart(f, yc, zc)
    BY <1>2, <1>13, <2>1, RoundsStart, Zenon
  <2> QED BY <2>2 DEF f, yc, zc
<1>15. alpha1' \in Scalars
  <2>1. IsStartAlpha(y', z')
    BY <1>2, <1>9, <1>13, StartAlphaIs
  <2> QED BY <1>12, <2>1 DEF IsStartAlpha
<1>16. RoundsStand(hashes', transcript', y', z', aprime', bprime', Gprime', Hprime', L', R', alpha1',
                   StartPoint(OutPk', A', y', z', MN'), MN')
  <2>1. L' = <<>> /\ R' = <<>> /\ A' = A
    BY <1>1, <1>2
  <2>2. RoundsStand(hashes', z', y', z', StartA(z'), StartB(y', z'), StartG, StartH, <<>>, <<>>,
                    StartAlpha(y', z'), StartPoint(OutPk, A, y', z', MN), MN)
    BY <1>14, Zenon DEF RoundsMayStart, RoundsStand
  <2> QED BY <1>3, <1>9, <1>12, <2>1, <2>2, Zenon
<1>17. BppNumbers'
  BY <1>1, <1>2, <1>9, <1>15 DEF BppNumbers, BppStages
<1>18. BppSizes'
  BY <1>1, <1>2, <1>3 DEF BppSizes
<1>19. Opened'
  BY <1>1, <1>3, <1>11 DEF Opened
<1>20. Rounding'
  BY <1>16, Zenon DEF Rounding
<1> QED BY <1>1, <1>17, <1>18, <1>19, <1>20 DEF BppInv, BitsHeld, Proved

LEMMA VectorLength ==
    ASSUME NEW n \in Nat, NEW W, NEW f \in [1 .. n -> W]
    PROVE  Len(f) = n
<1>1. f = [k \in 1 .. n |-> f[k]]
  OBVIOUS
<1> QED BY <1>1, LenOf

ToGo(t, a, b, g, h) ==
    /\ Len(a) = TwoTo[t] /\ Len(b) = TwoTo[t] /\ Len(g) = TwoTo[t] /\ Len(h) = TwoTo[t]
    /\ Len(a) > 1 => t # 0
    /\ Len(a) = 1 => t = 0

\* The number of rounds to come.
LEMMA RoundsToGo ==
    ASSUME NEW t \in Nat, NEW a, NEW b, NEW g, NEW h, VectorsOf(a, b, g, h, TwoTo[t])
    PROVE  ToGo(t, a, b, g, h)
<1>1. TwoTo[t] \in Nat /\ TwoTo[t] > t /\ TwoTo[0] = 1
  BY TwoToIs, TwoToGrows
<1>2. Len(a) = TwoTo[t] /\ Len(b) = TwoTo[t] /\ Len(g) = TwoTo[t] /\ Len(h) = TwoTo[t]
  BY <1>1, VectorLength DEF VectorsOf
<1>3. TwoTo[t] > 1 => t # 0
  BY <1>1
<1>4. TwoTo[t] = 1 => t = 0
  BY <1>1
<1> QED BY <1>2, <1>3, <1>4 DEF ToGo

LEMMA BppRoundStep ==
    ASSUME SignInv, BppInv, BppRound, tx' = tx
    PROVE  BppInv'
<1>1. /\ bppStage = "rounds" /\ Len(aprime) > 1
      /\ UNCHANGED <<amounts, masks, bppStage, V, A, y, z, A1, B, r1, s1, d1>>
  BY Zenon DEF BppRound, proofVars
<1>2. /\ Given /\ BppNumbers /\ Fits /\ Len(amounts) = Len(masks) /\ OpenedWith(hashes, y, z, Vs, A)
      /\ RoundsStand(hashes, transcript, y, z, aprime, bprime, Gprime, Hprime, L, R, alpha1,
                     StartPoint(OutPk, A, y, z, MN), MN)
  BY <1>1 DEF SignInv, BppInv, BppSizes, Opened, Rounding
<1>3. OutPk' = OutPk /\ Vs' = Vs /\ MN' = MN /\ Fits' = Fits
  BY <1>1, SameOutputs
<1>4. y \in Scalars /\ y # 0 /\ alpha1 \in Scalars /\ L \in Seq(Points) /\ R \in Seq(Points) /\ Len(L) = Len(R)
  BY <1>2 DEF BppNumbers, OpenedWith
<1>5. MN \in Nat
  BY <1>2, SizesAre
<1> DEFINE start == StartPoint(OutPk, A, y, z, MN)
<1>6. PICK t \in Nat : \E chal, prod :
        RoundingOf(hashes, chal, prod, t, transcript, y, z, aprime, bprime, Gprime, Hprime, L, R, alpha1, start, MN)
  BY <1>2, Zenon DEF RoundsStand
<1>7. PICK chal, prod :
        RoundingOf(hashes, chal, prod, t, transcript, y, z, aprime, bprime, Gprime, Hprime, L, R, alpha1, start, MN)
  BY <1>6
<1> HIDE DEF start
<1>8. Len(aprime) = TwoTo[t] /\ t # 0
  <2>1. VectorsOf(aprime, bprime, Gprime, Hprime, TwoTo[t])
    BY <1>7, Zenon DEF RoundingOf
  <2>2. ToGo(t, aprime, bprime, Gprime, Hprime)
    BY <2>1, RoundsToGo, Zenon
  <2> QED BY <1>1, <2>2 DEF ToGo
<1> DEFINE u == t - 1
           n == Len(aprime) \div 2
           yn == Powers(y, n + 1)[n + 1]
<1>9. u \in Nat /\ u + 1 = t
  BY <1>8
<1>10. n \in Nat /\ n = TwoTo[u]
  <2>1. TwoTo[u] \in Nat /\ TwoTo[u + 1] = 2 * TwoTo[u]
    BY <1>9, TwoToIs
  <2> DEFINE k == TwoTo[u]
  <2>2. k \in Nat /\ Len(aprime) = 2 * k
    BY <1>8, <1>9, <2>1
  <2> HIDE DEF k
  <2>3. (2 * k) \div 2 = k
    BY <2>2
  <2> QED BY <2>2, <2>3 DEF k
<1> HIDE DEF u, n
<1>11. yn = Pw(y)[TwoTo[u]]
  <2>1. y \in Int /\ n + 1 \in Nat /\ n + 1 \in 1 .. n + 1 /\ (n + 1) - 1 = n
    BY <1>4, <1>10, QIs
  <2>2. Powers(y, n + 1) = [i \in 1 .. n + 1 |-> Pw(y)[i - 1]]
    BY <2>1, PowersIs
  <2>3. Powers(y, n + 1)[n + 1] = Pw(y)[(n + 1) - 1]
    BY <2>1, <2>2
  <2> QED BY <1>10, <2>1, <2>3
<1>12. PICK random \in sample.randoms : \E e :
         /\ Hash(TranscriptQuery(transcript, <<LeftSum(aprime, bprime, Gprime, Hprime, yn, random[1]),
                                               RightSum(aprime, bprime, Gprime, Hprime, yn, random[2])>>), e)
         /\ transcript' = e
         /\ L' = Append(L, LeftSum(aprime, bprime, Gprime, Hprime, yn, random[1]))
         /\ R' = Append(R, RightSum(aprime, bprime, Gprime, Hprime, yn, random[2]))
         /\ Gprime' = NextG(Gprime, e, yn) /\ Hprime' = NextH(Hprime, e)
         /\ aprime' = NextA(aprime, e, yn) /\ bprime' = NextB(bprime, e)
         /\ alpha1' = NextAlpha(e, alpha1, random[1], random[2])
  BY Zenon DEF BppRound, LeftSum, RightSum, NextG, NextH, NextA, NextB, NextAlpha, n
<1> HIDE DEF yn
<1> DEFINE left == LeftSum(aprime, bprime, Gprime, Hprime, yn, random[1])
           right == RightSum(aprime, bprime, Gprime, Hprime, yn, random[2])
<1>13. PICK e :
         /\ Hash(TranscriptQuery(transcript, <<left, right>>), e)
         /\ transcript' = e /\ L' = Append(L, left) /\ R' = Append(R, right)
         /\ Gprime' = NextG(Gprime, e, yn) /\ Hprime' = NextH(Hprime, e)
         /\ aprime' = NextA(aprime, e, yn) /\ bprime' = NextB(bprime, e)
         /\ alpha1' = NextAlpha(e, alpha1, random[1], random[2])
  BY <1>12
<1>14. random[1] \in Scalars /\ random[2] \in Scalars
  BY <1>2, DrawsAre
<1>15. left = LeftSum(aprime, bprime, Gprime, Hprime, yn, random[1]) /\ right = RightSum(aprime, bprime, Gprime, Hprime, yn, random[2])
  OBVIOUS
<1> HIDE DEF left, right
<1>16. e \in Scalars /\ e # 0 /\ Grows(hashes, hashes') /\ Known(hashes', TranscriptQuery(transcript, <<left, right>>), e)
  BY <1>13, TranscriptIs, NewHash
<1>17. left \in Points /\ right \in Points
  <2> DEFINE m == TwoTo[u]
  <2>1. BaseG \in Bases
    BY DEF Bases
  <2>2. m \in Nat \ {0} /\ VectorsOf(aprime, bprime, Gprime, Hprime, m + m)
    <3>1. VectorsOf(aprime, bprime, Gprime, Hprime, TwoTo[t])
      BY <1>7, Zenon DEF RoundingOf
    <3>2. m \in Nat \ {0} /\ TwoTo[u + 1] = 2 * m
      BY <1>9, TwoToIs
    <3>3. TwoTo[t] = 2 * m
      BY <1>9, <3>2
    <3> HIDE DEF m
    <3>4. 2 * m = m + m
      BY <3>2
    <3> QED BY <3>1, <3>2, <3>3, <3>4
  <2>3. yn \in Scalars /\ yn # 0
    BY <1>4, <1>11, <2>2, PwNotZero
  <2> HIDE DEF m
  <2>4. IsSide(left, SumL(aprime, bprime, Gprime, Hprime, m, Invert(yn), BaseG), random[1], BaseG)
    BY <1>4, <1>14, <1>15, <2>1, <2>2, <2>3, LeftIs, Zenon
  <2>5. IsSide(right, SumR(aprime, bprime, Gprime, Hprime, m, yn, BaseG), random[2], BaseG)
    BY <1>4, <1>14, <1>15, <2>1, <2>2, <2>3, RightIs, Zenon
  <2> QED BY <2>4, <2>5 DEF IsSide
<1>18. RoundsGoOn(hashes', u, e, z, NextA(aprime, e, yn), NextB(bprime, e), NextG(Gprime, e, yn), NextH(Hprime, e),
                  Append(L, left), Append(R, right), NextAlpha(e, alpha1, random[1], random[2]), start, MN)
  <2>1. RoundingOf(hashes, chal, prod, u + 1, transcript, y, z, aprime, bprime, Gprime, Hprime, L, R, alpha1, start, MN)
    BY <1>7, <1>9
  <2>2. GoesOn(hashes, hashes', chal, prod, u, transcript, z, aprime, bprime, Gprime, Hprime, L, R, alpha1, start, MN,
               e, random[1], random[2], yn, left, right)
    BY <1>4, <1>5, <1>9, <1>11, <1>14, <1>15, <1>16, <2>1, RoundGoesOn, Zenon
  <2> QED BY <2>2, Zenon DEF GoesOn
<1>19. RoundsStand(hashes', transcript', y', z', aprime', bprime', Gprime', Hprime', L', R', alpha1',
                   StartPoint(OutPk', A', y', z', MN'), MN')
  <2>1. RoundsStand(hashes', e, y, z, NextA(aprime, e, yn), NextB(bprime, e), NextG(Gprime, e, yn), NextH(Hprime, e),
                    Append(L, left), Append(R, right), NextAlpha(e, alpha1, random[1], random[2]), start, MN)
    BY <1>9, <1>18, Zenon DEF RoundsGoOn, RoundsStand
  <2> QED BY <1>1, <1>3, <1>13, <2>1, Zenon DEF start
<1>20. BppNumbers'
  <2>1. L' \in Seq(Points) /\ R' \in Seq(Points) /\ Len(L') = Len(L) + 1 /\ Len(R') = Len(R) + 1
    BY <1>4, <1>13, <1>17, AppendedIs
  <2>2. alpha1' \in Scalars /\ transcript' \in Scalars
    BY <1>4, <1>13, <1>14, <1>16, NextAlphaIs
  <2> QED BY <1>1, <1>2, <1>4, <2>1, <2>2 DEF BppNumbers
<1>21. BppSizes'
  BY <1>1, <1>2, <1>3 DEF BppSizes
<1>22. Opened'
  <2>1. OpenedWith(hashes', y, z, Vs, A)
    BY <1>2, <1>16, OpenedStays
  <2> QED BY <1>1, <1>3, <2>1 DEF Opened
<1>23. Rounding'
  BY <1>19, Zenon DEF Rounding
<1> QED BY <1>1, <1>20, <1>21, <1>22, <1>23 DEF BppInv, BitsHeld, Proved

LEMMA BppFinishStep ==
    ASSUME SignInv, BppInv, BppFinish, tx' = tx
    PROVE  BppInv'
<1>1. /\ bppStage = "rounds" /\ Len(aprime) = 1 /\ bppStage' = "proved"
      /\ UNCHANGED <<amounts, masks, V, A, alpha1, y, z, L, R>>
  BY Zenon DEF BppFinish
<1>2. /\ Given /\ BppNumbers /\ Fits /\ Len(amounts) = Len(masks) /\ OpenedWith(hashes, y, z, Vs, A)
      /\ RoundsStand(hashes, transcript, y, z, aprime, bprime, Gprime, Hprime, L, R, alpha1,
                     StartPoint(OutPk, A, y, z, MN), MN)
  BY <1>1 DEF SignInv, BppInv, BppSizes, Opened, Rounding
<1>3. OutPk' = OutPk /\ Vs' = Vs /\ MN' = MN /\ Fits' = Fits
  BY <1>1, SameOutputs
<1>4. y \in Scalars /\ y # 0 /\ alpha1 \in Scalars /\ L \in Seq(Points) /\ R \in Seq(Points) /\ Len(L) = Len(R)
  BY <1>2 DEF BppNumbers, OpenedWith
<1>5. MN \in 0 .. Vectors
  BY <1>2, SizesAre
<1> DEFINE start == StartPoint(OutPk, A, y, z, MN)
<1>6. PICK t \in Nat : \E chal, prod :
        RoundingOf(hashes, chal, prod, t, transcript, y, z, aprime, bprime, Gprime, Hprime, L, R, alpha1, start, MN)
  BY <1>2, Zenon DEF RoundsStand
<1>7. PICK chal, prod :
        RoundingOf(hashes, chal, prod, t, transcript, y, z, aprime, bprime, Gprime, Hprime, L, R, alpha1, start, MN)
  BY <1>6
<1> HIDE DEF start
<1>8. t = 0
  <2>1. VectorsOf(aprime, bprime, Gprime, Hprime, TwoTo[t])
    BY <1>7, Zenon DEF RoundingOf
  <2>2. ToGo(t, aprime, bprime, Gprime, Hprime)
    BY <2>1, RoundsToGo, Zenon
  <2> QED BY <1>1, <2>2 DEF ToGo
<1>9. RoundingOf(hashes, chal, prod, 0, transcript, y, z, aprime, bprime, Gprime, Hprime, L, R, alpha1, start, MN)
  BY <1>7, <1>8
<1>10. PICK random \in sample.randoms :
         /\ A1' = FirstPoint(random[1], random[2], random[3], CrossOf(y, aprime[1], bprime[1], random[1], random[2]),
                             Gprime[1], Hprime[1])
         /\ B' = SecondPoint(random[4], ScMul(ScMul(random[1], y), random[2]))
         /\ \E e : /\ Hash(TranscriptQuery(transcript, <<A1', B'>>), e)
                   /\ transcript' = e
                   /\ r1' = ScMulAdd(aprime[1], e, random[1])
                   /\ s1' = ScMulAdd(bprime[1], e, random[2])
                   /\ d1' = FinishSum(alpha1, e, random[3], random[4])
  BY Zenon DEF BppFinish, FirstPoint, SecondPoint, CrossOf, FinishSum
<1>11. PICK e : /\ Hash(TranscriptQuery(transcript, <<A1', B'>>), e)
                /\ transcript' = e
                /\ r1' = ScMulAdd(aprime[1], e, random[1])
                /\ s1' = ScMulAdd(bprime[1], e, random[2])
                /\ d1' = FinishSum(alpha1, e, random[3], random[4])
  BY <1>10
<1>12. random[1] \in Scalars /\ random[2] \in Scalars /\ random[3] \in Scalars /\ random[4] \in Scalars
  BY <1>2, DrawsAre
<1>13. e \in Scalars /\ Grows(hashes, hashes') /\ Known(hashes', TranscriptQuery(transcript, <<A1', B'>>), e)
  BY <1>11, TranscriptIs, NewHash
<1> DEFINE r == random[1]
           s == random[2]
           d == random[3]
           eta == random[4]
           proof == Proof'
           n == Len(L)
<1>14. /\ proof.L = L /\ proof.R = R /\ proof.A1 = A1' /\ proof.B = B'
       /\ proof.r1 = r1' /\ proof.s1 = s1' /\ proof.d1 = d1'
  BY <1>1 DEF Proof
<1>15. /\ proof.A1 = FirstPoint(r, s, d, CrossOf(y, aprime[1], bprime[1], r, s), Gprime[1], Hprime[1])
       /\ proof.B = SecondPoint(eta, ScMul(ScMul(r, y), s))
       /\ proof.r1 = ScMulAdd(aprime[1], e, r) /\ proof.s1 = ScMulAdd(bprime[1], e, s)
       /\ proof.d1 = FinishSum(alpha1, e, d, eta)
  BY <1>10, <1>11, <1>14
<1> HIDE DEF proof
<1>16. SidesAgree(e, start, y, [i \in 1 .. Len(L) |-> chal[i]], proof, MN)
  <2>1. r \in Scalars /\ s \in Scalars /\ d \in Scalars /\ eta \in Scalars
    BY <1>12
  <2>2. proof.L = L /\ proof.R = R
    BY <1>14
  <2>3. ProofEnds(hashes, chal, prod, transcript, y, z, aprime, bprime, Gprime, Hprime, L, R, alpha1, start, MN,
                  e, r, s, d, eta, proof)
    <3> HIDE DEF r, s, d, eta
    <3> QED BY <1>4, <1>5, <1>9, <1>13, <1>15, <2>1, <2>2, RoundsEnd, Zenon
  <2> QED BY <2>3, Zenon DEF ProofEnds
<1>17. ProofHolds(hashes', y, z, start, proof, MN)
  <2>1. TwoTo[n] = MN /\ ChainOf(hashes, chal, n, L, R) /\ chal[0] = z /\ chal[n] = transcript
    <3>1. n \in Nat /\ 0 + n = n
      BY <1>4, LenProperties
    <3> QED BY <1>9, <3>1, Zenon DEF RoundingOf
  <2>2. ChainOf(hashes', chal, n, L, R)
    BY <1>13, <2>1, ChainStays, Zenon
  <2>3. Known(hashes', TranscriptQuery(chal[n], <<proof.A1, proof.B>>), e)
    BY <1>13, <1>14, <2>1
  <2> QED BY <1>13, <1>14, <1>16, <2>1, <2>2, <2>3, Zenon DEF ProofHolds
<1>18. Proved'
  <2>1. start = StartPoint(OutPk', A', y', z', MN') /\ y' = y /\ z' = z /\ MN' = MN /\ proof = Proof'
    BY <1>1, <1>3 DEF start, proof
  <2> QED BY <1>17, <2>1, Zenon DEF Proved
<1>19. BppNumbers'
  <2>1. A1' \in Points /\ B' \in Points
    <3>1. VectorsOf(aprime, bprime, Gprime, Hprime, 1)
      BY <1>9, TwoToIs, Zenon DEF RoundingOf
    <3>2. 1 \in 1 .. 1
      OBVIOUS
    <3>3. aprime[1] \in Int /\ bprime[1] \in Int /\ Gprime[1] \in Points /\ Hprime[1] \in Points
      BY <3>1, <3>2, QIs DEF VectorsOf
    <3>4. BaseG \in Bases
      BY DEF Bases
    <3>5. r \in Int /\ s \in Int /\ d \in Int /\ eta \in Int /\ y \in Int
      BY <1>4, <1>12, QIs
    <3> DEFINE cross == CrossOf(y, aprime[1], bprime[1], r, s)
               rys == ScMul(ScMul(r, y), s)
    <3>6. CrossIs(cross, rys, y, aprime[1], bprime[1], r, s)
      <4> HIDE DEF r, s
      <4> QED BY <3>3, <3>5, CrossTerms, Zenon
    <3>7. cross \in Int /\ rys \in Int
      BY <3>6 DEF CrossIs
    <3>8. A1' = FirstPoint(r, s, d, cross, Gprime[1], Hprime[1]) /\ B' = SecondPoint(eta, rys)
      BY <1>10
    <3> HIDE DEF cross, rys, r, s, d, eta
    <3> DEFINE g1 == Gprime[1]
               h1 == Hprime[1]
    <3>9. EightIs(FirstPoint(r, s, d, cross, g1, h1), (r * g1[BaseG] + s * h1[BaseG]) + (d * G[BaseG] + cross * H[BaseG]), BaseG)
      <4>1. g1 \in Points /\ h1 \in Points
        BY <3>3
      <4> HIDE DEF g1, h1
      <4> QED BY <3>4, <3>5, <3>7, <4>1, FirstPointIs, Zenon
    <3>10. EightIs(SecondPoint(eta, rys), eta * G[BaseG] + rys * H[BaseG], BaseG)
      BY <3>4, <3>5, <3>7, SecondPointIs, Zenon
    <3> QED BY <3>8, <3>9, <3>10 DEF EightIs
  <2>2. r1' \in Scalars /\ s1' \in Scalars /\ d1' \in Scalars
    <3>1. \A i \in Int : i % Q \in Scalars
      BY Reduced
    <3>2. VectorsOf(aprime, bprime, Gprime, Hprime, 1)
      BY <1>9, TwoToIs, Zenon DEF RoundingOf
    <3>3. 1 \in 1 .. 1
      OBVIOUS
    <3> DEFINE a1 == aprime[1]
               b1 == bprime[1]
    <3>4. a1 \in Int /\ b1 \in Int
      BY <3>2, <3>3, QIs DEF VectorsOf
    <3>5. r \in Int /\ s \in Int /\ d \in Int /\ eta \in Int /\ e \in Int /\ alpha1 \in Int
      BY <1>4, <1>12, <1>13, QIs
    <3>6. r1' = ScMulAdd(a1, e, r) /\ s1' = ScMulAdd(b1, e, s) /\ d1' = FinishSum(alpha1, e, d, eta)
      BY <1>11
    <3> HIDE DEF a1, b1, r, s, d, eta
    <3>7. ScMulAdd(a1, e, r) \in Scalars
      BY <3>4, <3>5, ResponsesAre
    <3>8. ScMulAdd(b1, e, s) \in Scalars
      BY <3>4, <3>5, ResponsesAre
    <3>9. FinishSum(alpha1, e, d, eta) \in Scalars
      BY <3>4, <3>5, ResponsesAre
    <3> QED BY <3>6, <3>7, <3>8, <3>9
  <2> QED BY <1>1, <1>2, <1>11, <1>13, <2>1, <2>2 DEF BppNumbers, BppStages
<1>20. BppSizes'
  BY <1>1, <1>2, <1>3 DEF BppSizes
<1>21. Opened'
  <2>1. OpenedWith(hashes', y, z, Vs, A)
    BY <1>2, <1>13, OpenedStays
  <2> QED BY <1>1, <1>3, <2>1 DEF Opened
<1> QED BY <1>1, <1>18, <1>19, <1>20, <1>21 DEF BppInv, BitsHeld, Rounding

-----------------------------------------------------------------------------
(* A range proof that is finished is accepted.                                  *)

\* No step forgets a hash.
LEMMA HashesGrow ==
    ASSUME SignInv, Next
    PROVE  Grows(hashes, hashes') /\ tx' = tx
<1>1. HashesOK(hashes) /\ sample \in SampleType
  BY DEF SignInv, Numbers, Given
<1>2. ASSUME NEW query, query.domain \in Domains, NEW answer, Hash(query, answer)
      PROVE  Grows(hashes, hashes')
  BY <1>2, NewHash
<1>3. hashes' = hashes => Grows(hashes, hashes')
  BY GrowsOn
<1>4. CASE SignBpp
  <2>1. tx' = tx /\ BppNext
    BY <1>4 DEF SignBpp, signingVars
  <2>2. CASE BppStart
    <3>1. hashes' = hashes \/ \E query, answer : query.domain \in Domains /\ Hash(query, answer)
      <4>1. hashes' = hashes \/ \E opened : Hash(TranscriptQuery(0, V'), opened)
        BY <2>2 DEF BppStart
      <4> QED BY <4>1, TranscriptIs
    <3> QED BY <1>2, <1>3, <2>1, <3>1
  <2>3. CASE BppPrepare
    <3>1. PICK answer \in Answers(hashes, TranscriptQuery(transcript, <<A>>)) :
            LET afterY == Answered(hashes, TranscriptQuery(transcript, <<A>>), answer)
            IN  \E next \in Answers(afterY, Query("scalar", <<answer>>, <<>>)) :
                   hashes' = Answered(afterY, Query("scalar", <<answer>>, <<>>), next)
      BY <2>3 DEF BppPrepare
    <3> DEFINE afterY == Answered(hashes, TranscriptQuery(transcript, <<A>>), answer)
               query == Query("scalar", <<answer>>, <<>>)
    <3>2. PICK next \in Answers(afterY, query) : hashes' = Answered(afterY, query, next)
      BY <3>1
    <3>3. HashesOK(afterY) /\ Grows(hashes, afterY)
      BY <1>1, TranscriptIs, HashGrows
    <3>4. query.domain \in Domains
      BY DomainOf, DomainsAre
    <3> HIDE DEF afterY, query
    <3>5. Grows(afterY, hashes')
      BY <1>1, <3>2, <3>3, <3>4, HashGrows
    <3> QED BY <2>1, <3>3, <3>5, GrowsOn
  <2>4. CASE BppRound
    <3>1. \E points, challenge : Hash(TranscriptQuery(transcript, points), challenge)
      BY <2>4, Zenon DEF BppRound
    <3> QED BY <1>2, <2>1, <3>1, TranscriptIs
  <2>5. CASE BppFinish
    <3>1. \E points, challenge : Hash(TranscriptQuery(transcript, points), challenge)
      BY <2>5, Zenon DEF BppFinish
    <3> QED BY <1>2, <2>1, <3>1, TranscriptIs
  <2> QED BY <2>1, <2>2, <2>3, <2>4, <2>5 DEF BppNext
<1>5. CASE SignFails
  BY <1>3, <1>5 DEF SignFails
<1>6. CASE CalculatePseudoOuts
  <2>1. tx' = tx /\ \E images, commitments, proof, answer : Hash(MessageQuery(images, commitments, proof), answer)
    BY <1>6, Zenon DEF CalculatePseudoOuts
  <2>2. \A images, commitments, proof : MessageQuery(images, commitments, proof).domain \in Domains
    BY DomainOf, DomainsAre DEF MessageQuery
  <2> QED BY <1>2, <2>1, <2>2
<1>7. CASE SignInput
  BY <1>3, <1>7 DEF SignInput, ClsagStart, signingVars
<1>8. CASE SignMember
  <2>1. tx' = tx /\ ClsagNext
    BY <1>8 DEF SignMember, signingVars
  <2>2. CASE ClsagCommit
    <3> DEFINE qP == AggregateQuery("CLSAG_agg_0")
               qC == AggregateQuery("CLSAG_agg_1")
               round == RoundQuery(ScalarMult(nonce, G), ScalarMult(nonce, HashToEC(job.P[job.l])))
    <3>1. PICK p \in Answers(hashes, qP), q \in Answers(hashes, qC) :
            \E answer \in Answers(Answered(Answered(hashes, qP, p), qC, q), round) :
               hashes' = Answered(Answered(Answered(hashes, qP, p), qC, q), round, answer)
      BY <2>2 DEF ClsagCommit
    <3> DEFINE f == Answered(hashes, qP, p)
               g == Answered(f, qC, q)
    <3>2. PICK answer \in Answers(g, round) : hashes' = Answered(g, round, answer)
      BY <3>1
    <3>3. qP.domain \in Domains /\ qC.domain \in Domains /\ round.domain \in Domains
      BY DomainOf, DomainsAre DEF AggregateQuery, RoundQuery
    <3>4. q \in Answers(f, qC)
      <4>1. qP # qC
        BY DEF AggregateQuery, Query
      <4>2. (qC \in DOMAIN f <=> qC \in DOMAIN hashes) /\ (qC \in DOMAIN hashes => f[qC] = hashes[qC])
        <5> HIDE DEF qP, qC
        <5> QED BY <4>1 DEF Answered
      <4> HIDE DEF qP, qC, f
      <4> QED BY <4>2 DEF Answers
    <3>5. HashesOK(f) /\ Grows(hashes, f)
      <4> HIDE DEF qP
      <4> QED BY <1>1, <3>3, HashGrows
    <3> HIDE DEF f
    <3>6. HashesOK(g) /\ Grows(f, g)
      <4> HIDE DEF qC
      <4> QED BY <1>1, <3>3, <3>4, <3>5, HashGrows
    <3> HIDE DEF g
    <3>7. Grows(g, hashes')
      <4> HIDE DEF round
      <4> QED BY <1>1, <3>2, <3>3, <3>6, HashGrows
    <3> QED BY <2>1, <3>5, <3>6, <3>7, GrowsOn
  <2>3. CASE ClsagDecoy
    <3>1. \E left, right, answer : Hash(RoundQuery(left, right), answer)
      BY <2>3, Zenon DEF ClsagDecoy
    <3>2. \A left, right : RoundQuery(left, right).domain \in Domains
      BY DomainOf, DomainsAre DEF RoundQuery
    <3> QED BY <1>2, <2>1, <3>1, <3>2
  <2>4. CASE ClsagClose
    BY <1>3, <2>1, <2>4 DEF ClsagClose
  <2> QED BY <2>1, <2>2, <2>3, <2>4 DEF ClsagNext
<1>9. CASE KeepSignature
  BY <1>3, <1>9 DEF KeepSignature
<1> QED BY <1>4, <1>5, <1>6, <1>7, <1>8, <1>9 DEF Next

LEMMA StepBpp == SignInv /\ BppInv /\ [Next]_vars => BppInv'
<1> SUFFICES ASSUME SignInv, BppInv, [Next]_vars PROVE BppInv'
  OBVIOUS
<1>1. CASE SignBpp
  <2>1. BppNext /\ tx' = tx
    BY <1>1 DEF SignBpp, signingVars
  <2> QED BY <2>1, BppStartStep, BppPrepareStep, BppRoundStep, BppFinishStep DEF BppNext
<1>2. CASE Next /\ ~SignBpp
  <2>1. UNCHANGED bppVars
    BY <1>2 DEF Next, SignFails, CalculatePseudoOuts, SignInput, SignMember, KeepSignature
  <2> QED BY <1>2, <2>1, HashesGrow, BppFrame
<1>3. CASE UNCHANGED vars
  <2>1. UNCHANGED bppVars /\ tx' = tx /\ Grows(hashes, hashes')
    BY <1>3, GrowsOn DEF vars, signingVars
  <2> QED BY <2>1, BppFrame
<1> QED BY <1>1, <1>2, <1>3

LEMMA Proving == Spec => [](SignInv /\ BppInv)
<1>1. Init => BppInv
  BY InitBpp
<1>2. SignInv /\ BppInv /\ [Next]_vars => BppInv'
  BY StepBpp
<1> QED BY <1>1, <1>2, Signing, PTL DEF Spec

LEMMA LooksUp ==
    ASSUME HashesOK(hashes), NEW query, NEW answer, Known(hashes, query, answer)
    PROVE  Lookup(query) = answer /\ answer \in Scalars /\ answer # Unknown
<1>1. Lookup(query) = answer /\ answer \in Scalars
  BY DEF Known, Lookup, HashesOK
<1>2. \A i \in Scalars : i # Unknown
  BY QIs DEF Scalars, Unknown
<1> QED BY <1>1, <1>2

LEMMA InvVerifies == SignInv /\ BppInv => RangeProofVerifies
<1> SUFFICES ASSUME SignInv, BppInv, bppStage = "proved" PROVE BppVerifies(OutPk, Proof)
  BY DEF RangeProofVerifies
<1>1. /\ Given /\ HashesOK(hashes) /\ BppNumbers /\ Fits /\ Len(amounts) = Len(masks)
      /\ OpenedWith(hashes, y, z, Vs, A) /\ ProofHolds(hashes, y, z, StartPoint(OutPk, A, y, z, MN), Proof, MN)
  BY DEF SignInv, Numbers, BppInv, BppSizes, Opened, Proved
<1>2. PICK t : Known(hashes, TranscriptQuery(0, Vs), t) /\ Known(hashes, TranscriptQuery(t, <<A>>), y)
  BY <1>1 DEF OpenedWith
<1>3. Lookup(TranscriptQuery(0, Vs)) = t /\ t # Unknown
  BY <1>1, <1>2, LooksUp
<1>4. Lookup(TranscriptQuery(t, <<A>>)) = y /\ y # Unknown
  BY <1>1, <1>2, LooksUp
<1>5. Lookup(Query("scalar", <<y>>, <<>>)) = z /\ z # Unknown
  <2>1. Known(hashes, Query("scalar", <<y>>, <<>>), z)
    BY <1>1 DEF OpenedWith
  <2> QED BY <1>1, <2>1, LooksUp
<1> DEFINE start == StartPoint(OutPk, A, y, z, MN)
           proof == Proof
           r == Len(proof.L)
<1>6. proof.L = L /\ proof.R = R /\ proof.A = A /\ proof.A1 = A1 /\ proof.B = B
  BY DEF Proof
<1>7. L \in Seq(Points) /\ Len(L) = Len(R) /\ Len(L) \in Nat /\ DOMAIN L = 1 .. Len(L)
  BY <1>1, LenProperties DEF BppNumbers
<1>8. PICK chal, e :
        /\ TwoTo[r] = MN
        /\ ChainOf(hashes, chal, r, proof.L, proof.R) /\ chal[0] = z
        /\ Known(hashes, TranscriptQuery(chal[r], <<proof.A1, proof.B>>), e) /\ e \in Scalars
        /\ SidesAgree(e, start, y, [i \in 1 .. r |-> chal[i]], proof, MN)
  BY <1>1, Zenon DEF ProofHolds
<1> HIDE DEF proof, start
<1> DEFINE cs == [i \in 1 .. r |-> chal[i]]
<1>9. r \in Nat /\ DOMAIN proof.L = 1 .. r
  BY <1>6, <1>7
<1>10. RoundChallenges(proof, z) = cs
  <2>1. ChainOf(hashes, chal, r, proof.L, proof.R) /\ Len(proof.L) = r
    BY <1>8
  <2> HIDE DEF r
  <2>2. ChallengesAreOf(proof, chal, r)
    BY <1>9, <2>1, RoundChallengesAre, Zenon
  <2> QED BY <1>8, <2>2 DEF ChallengesAreOf
<1>11. (IF proof.L = <<>> THEN z ELSE cs[r]) = chal[r]
  <2>1. CASE proof.L = <<>>
    <3>1. r = 0
      BY <2>1
    <3> QED BY <1>8, <2>1, <3>1
  <2>2. CASE proof.L # <<>>
    <3>1. r \in 1 .. r
      <4>1. proof.L \in Seq(Points)
        BY <1>6, <1>7
      <4>2. r # 0
        BY <2>2, <4>1, EmptySeq
      <4> QED BY <1>9, <4>2
    <3> QED BY <2>2, <3>1
  <2> QED BY <2>1, <2>2
<1>12. Lookup(TranscriptQuery(chal[r], <<proof.A1, proof.B>>)) = e /\ e # Unknown
  BY <1>1, <1>8, LooksUp
<1>13. Unknown \notin {cs[i] : i \in DOMAIN cs}
  <2>1. \A i \in 1 .. r : chal[i] \in Scalars
    <3>1. \A i \in 1 .. r : i \in 0 .. r
      BY <1>9
    <3> QED BY <1>8, <3>1 DEF ChainOf
  <2>2. \A i \in Scalars : i # Unknown
    BY QIs DEF Scalars, Unknown
  <2> QED BY <2>1, <2>2
<1>14. TwoTo[r] = PaddedM(Len(OutPk)) * N /\ MN = TwoTo[r]
  <2>1. masks \in Seq(Scalars) /\ tx.masks = masks
    BY <1>1 DEF Given
  <2>2. Len(masks) \in Nat /\ DOMAIN tx.masks = 1 .. Len(masks)
    BY <2>1, LenProperties
  <2>3. OutPk = [j \in 1 .. Len(masks) |-> OutPk[j]]
    BY <2>2, Zenon DEF OutPk
  <2>4. Len(OutPk) = Len(masks)
    BY <2>2, <2>3, LenOf
  <2>5. MN = PaddedM(Len(masks)) * N
    BY <1>1, SizesAre
  <2> QED BY <1>8, <2>4, <2>5
<1>15. LeftSide(e, StartPoint(OutPk, A, y, z, TwoTo[r]), cs, proof) = RightSide(e, y, cs, proof, TwoTo[r])
  BY <1>8, <1>14, Zenon DEF SidesAgree, start
<1> HIDE DEF cs
<1>16. Unknown \notin {t, y, z, e} \cup {cs[i] : i \in DOMAIN cs}
  BY <1>3, <1>4, <1>5, <1>12, <1>13
<1>17. Len(proof.L) = Len(proof.R)
  BY <1>6, <1>7
<1>18. Vs = [j \in DOMAIN OutPk |-> Eighth(OutPk[j])]
  BY DEF Vs
<1>19. BppVerifies(OutPk, proof)
  BY <1>3, <1>4, <1>5, <1>6, <1>10, <1>11, <1>12, <1>14, <1>15, <1>16, <1>17, <1>18, Zenon DEF BppVerifies
<1> QED BY <1>19 DEF proof

\* Whatever the number of outputs, their amounts and masks, the draws and the hashes:
\* the verifier accepts every range proof that is finished.
THEOREM ProofsVerify == Spec => []RangeProofVerifies
BY Proving, InvVerifies, PTL

\* The proof is refused for a number of amounts that differs from that of the masks,
\* or is larger than what a proof can carry, and for no other.
LEMMA InvFits == SignInv /\ BppInv => FitsOrFails
<1> SUFFICES ASSUME SignInv, BppInv PROVE FitsOrFails
  OBVIOUS
<1>1. masks \in Seq(Scalars)
  BY DEF SignInv, Given
<1>2. Len(masks) \in Nat
  BY <1>1, LenProperties
<1>3. (TooLarge(Len(masks)) <=> Len(masks) > MaxM) /\ MaxM \in Nat
  BY <1>2, PaddedIs, SizesAssumption
<1>4. CASE bppStage = "failed"
  BY <1>3, <1>4 DEF BppInv, BppSizes, FitsOrFails
<1>5. CASE bppStage \in {"prepare", "rounds", "proved"}
  <2>1. Len(amounts) = Len(masks) /\ ~TooLarge(Len(masks))
    BY <1>5 DEF BppInv, BppSizes, Fits
  <2>2. Len(masks) <= MaxM
    BY <1>2, <1>3, <2>1
  <2> QED BY <1>5, <2>1, <2>2 DEF FitsOrFails
<1> QED BY <1>4, <1>5 DEF FitsOrFails

\* Whatever MaxM is: the outputs are proved if and only if there are not too many
\* of them and each has a mask ("sv/gamma are too large").
THEOREM OnlyTooManyFail == Spec => []FitsOrFails
BY Proving, InvFits, PTL

-----------------------------------------------------------------------------
(* The types.                                                                   *)

Stages == {"idle", "commit", "ring", "signed", "rejected"}
Kinds ==
    /\ stage \in Stages /\ message \in Scalars
    /\ stage \in {"commit", "ring", "signed"} => progress = "clsags"
    /\ stage = "signed" => index \in Members

LEMMA InitKinds == Init => Kinds
<1> SUFFICES ASSUME Init PROVE Kinds
  OBVIOUS
<1>1. stage = "idle" /\ message = 0
  BY DEF Init, ClsagIdle
<1>2. 0 \in Scalars
  BY QIs
<1> QED BY <1>1, <1>2 DEF Kinds, Stages

LEMMA StepKinds == SignInv /\ SignInv' /\ Kinds /\ [Next]_vars => Kinds'
<1> SUFFICES ASSUME SignInv, SignInv', Kinds, [Next]_vars PROVE Kinds'
  OBVIOUS
<1>1. CASE SignBpp
  BY <1>1 DEF SignBpp, signingVars, clsagVars, Kinds, Stages, Members
<1>2. CASE SignFails
  <2>1. progress # "clsags" \/ stage = "rejected"
    <3> SUFFICES ASSUME progress = "clsags", stage # "rejected" PROVE FALSE
      OBVIOUS
    <3>1. bppStage = "proved" /\ Len(clsags) < Len(tx.inputs) /\ clsags \in Seq(SignatureType)
      BY DEF SignInv, Phases, Numbers
    <3>2. Len(clsags) \in Nat
      BY <3>1, LenProperties
    <3>3. tx.inputs = <<>>
      BY <1>2, <3>1 DEF SignFails
    <3>4. Len(tx.inputs) = 0
      BY <3>3
    <3> QED BY <3>1, <3>2, <3>4
  <2>2. stage \in Stages /\ message \in Scalars /\ stage \notin {"commit", "ring", "signed"}
    BY <2>1 DEF Kinds
  <2>3. stage' = stage /\ message' = message
    BY <1>2 DEF SignFails, clsagVars
  <2> QED BY <2>2, <2>3 DEF Kinds, Stages
<1>3. CASE CalculatePseudoOuts
  <2>1. stage = "idle" /\ stage' = stage /\ progress' = "clsags"
    BY <1>3 DEF CalculatePseudoOuts, clsagVars, SignInv, Phases
  <2>2. Known(hashes', MessageQuery([i \in Inputs |-> Image(i)], OutPk, Proof)', message') /\ HashesOK(hashes')
    BY <2>1, Zenon DEF SignInv, Balanced, Numbers
  <2>3. message' \in Scalars
    BY <2>2 DEF Known, HashesOK
  <2> QED BY <2>1, <2>3 DEF Kinds, Stages
<1>4. CASE SignInput
  <2>1. progress' = "clsags" /\ message' = message
    BY <1>4 DEF SignInput, signingVars
  <2>2. stage' \in {"commit", "rejected"}
    BY <1>4 DEF SignInput, ClsagStart
  <2> QED BY <2>1, <2>2 DEF Kinds, Stages
<1>5. CASE SignMember
  <2>1. progress = "clsags" /\ progress' = progress /\ message' = message /\ ClsagNext
    BY <1>5 DEF SignMember, signingVars
  <2>2. CASE ClsagClose
    <3>1. stage = "ring" /\ stage' = "signed" /\ job' = job /\ index' = index
      BY <2>2 DEF ClsagClose
    <3>2. index \in Members
      BY <2>1, <3>1 DEF SignInv, Walk
    <3> QED BY <2>1, <3>1, <3>2 DEF Kinds, Stages, Members
  <2>3. CASE ClsagCommit \/ ClsagDecoy
    <3>1. stage' = "ring"
      BY <2>3 DEF ClsagCommit, ClsagDecoy
    <3> QED BY <2>1, <3>1 DEF Kinds, Stages
  <2> QED BY <2>1, <2>2, <2>3 DEF ClsagNext
<1>6. CASE KeepSignature
  BY <1>6 DEF KeepSignature, Kinds, Stages
<1>7. CASE UNCHANGED vars
  BY <1>7 DEF vars, signingVars, clsagVars, Kinds, Stages, Members
<1> QED BY <1>1, <1>2, <1>3, <1>4, <1>5, <1>6, <1>7 DEF Next

\* In a round the vectors are as long as the rounds to come ask for.
LEMMA VectorsLeft ==
    ASSUME NEW f, NEW last, NEW yc, NEW zc, NEW a, NEW b, NEW g, NEW h, NEW ls, Len(ls) \in Nat, NEW rs,
           NEW al, NEW start, NEW bits, RoundsStand(f, last, yc, zc, a, b, g, h, ls, rs, al, start, bits)
    PROVE  /\ Len(a) * TwoTo[Len(ls)] = bits
           /\ Len(b) = Len(a) /\ Len(g) = Len(a) /\ Len(h) = Len(a)
<1>1. PICK t \in Nat : \E chal, prod : RoundingOf(f, chal, prod, t, last, yc, zc, a, b, g, h, ls, rs, al, start, bits)
  BY DEF RoundsStand
<1>2. VectorsOf(a, b, g, h, TwoTo[t]) /\ TwoTo[t + Len(ls)] = bits
  BY <1>1, Zenon DEF RoundingOf
<1>3. ToGo(t, a, b, g, h)
  BY <1>2, RoundsToGo, Zenon
<1>4. TwoTo[t + Len(ls)] = TwoTo[t] * TwoTo[Len(ls)]
  BY TwoToAdd
<1> QED BY <1>2, <1>3, <1>4 DEF ToGo

LEMMA InvTypes == SignInv /\ BppInv /\ Kinds => TypeOK
<1> SUFFICES ASSUME SignInv, BppInv, Kinds PROVE TypeOK
  OBVIOUS
<1>1. Given /\ Numbers /\ Phases /\ Balanced /\ Walk /\ BppNumbers /\ Rounding
  BY DEF SignInv, BppInv
<1>2. ClsagTypeOK
  <2>1. \A i \in DOMAIN S : S[i] \in Scalars
    BY <1>1, ElementOfSeq DEF Numbers
  <2>2. {nonce, muP, muC, c, C1} \subseteq Scalars /\ D \in Points
    BY <1>1 DEF Numbers
  <2>3. stage \in {"ring", "signed"} => index \in Members
    BY <1>1 DEF Kinds, Walk
  <2> QED BY <2>1, <2>2, <2>3 DEF ClsagTypeOK, Kinds, Stages
<1>3. BppTypeOK
  <2>1. Len(L) \in Nat
    BY <1>1, LenProperties DEF BppNumbers
  <2>2. ASSUME bppStage = "rounds"
        PROVE  Len(aprime) * TwoTo[Len(L)] = MN /\ Len(bprime) = Len(aprime)
               /\ Len(Gprime) = Len(aprime) /\ Len(Hprime) = Len(aprime)
    <3>1. RoundsStand(hashes, transcript, y, z, aprime, bprime, Gprime, Hprime, L, R, alpha1,
                      StartPoint(OutPk, A, y, z, MN), MN)
      BY <1>1, <2>2 DEF Rounding
    <3> QED BY <2>1, <3>1, VectorsLeft
  <2>3. {alpha1, y, z, r1, s1, d1, transcript} \subseteq Scalars /\ {A, A1, B} \subseteq Points /\ Len(L) = Len(R)
        /\ bppStage \in BppStages
    BY <1>1 DEF BppNumbers
  <2> QED BY <2>2, <2>3 DEF BppTypeOK, BppStages
<1>4. Len(clsags) <= Len(tx.inputs)
  <2>1. Len(clsags) \in Nat /\ Len(tx.inputs) \in Nat
    BY <1>1, LenProperties DEF Numbers, Given
  <2>2. clsags = <<>> => Len(clsags) = 0
    OBVIOUS
  <2> QED BY <1>1, <2>1, <2>2 DEF Phases
<1>5. ASSUME progress \in {"clsags", "done"}
      PROVE  inputScalars \in [Inputs -> Scalars] /\ pseudoOuts \in [Inputs -> Points]
  <2>1. /\ inputScalars \in [Inputs -> Scalars]
        /\ pseudoOuts = [i \in Inputs |-> CalcCommitment(tx.inputs[i].amount % Q, inputScalars[i])]
    BY <1>1, <1>5 DEF Balanced
  <2>2. ASSUME NEW i \in Inputs PROVE CalcCommitment(tx.inputs[i].amount % Q, inputScalars[i]) \in Points
    <3>1. tx.inputs[i].amount % Q \in Int /\ inputScalars[i] \in Int
      BY <1>1, <2>1, InputIs, QIs
    <3> QED BY <3>1, CommitmentIs
  <2> QED BY <2>1, <2>2
<1>6. \A q \in DOMAIN hashes : hashes[q] \in Scalars \ {0}
  BY <1>1 DEF Numbers, HashesOK
<1>7. progress \in {"bpp", "clsags", "done", "error"} /\ message \in Scalars
  BY <1>1 DEF Phases, Kinds
<1> QED BY <1>2, <1>3, <1>4, <1>5, <1>6, <1>7 DEF TypeOK

\* Every value is of its type; in a round the four vectors are as long as each other.
THEOREM SigningTypes == Spec => []TypeOK
<1>1. Init => Kinds
  BY InitKinds
<1>2. SignInv /\ SignInv' /\ Kinds /\ [Next]_vars => Kinds'
  BY StepKinds
<1>3. SignInv /\ BppInv /\ Kinds => TypeOK
  BY InvTypes
<1> QED BY <1>1, <1>2, <1>3, Proving, PTL DEF Spec

=============================================================================
