------------------------------- MODULE RctGroup -------------------------------
(* The scalars and points that range proofs and ring signatures compute with,  *)
(* and their hashes.                                                           *)
(*                                                                             *)
(* A scalar is an integer mod the prime Q.  A point is the vector of its       *)
(* coefficients over base points nobody knows a relation between: G, H, the    *)
(* bases of the range proof, and the image Hp(x*G) of each key x*G of a ring.  *)
(* Two computations give the same point exactly if they give the same vector.  *)
(* A hash to a scalar is drawn when it is first asked for and kept.            *)
EXTENDS Integers, Sequences, Functions

CONSTANTS
    Q,              \* order of the group; 8 must be invertible
    Vectors,        \* bases of one kind the range proof may use, maxN * maxM in the code
    Secrets         \* secret keys of the outputs rings are made of

Scalars == 0 .. Q - 1

ASSUME FieldAssumption  ==
    /\ Q \in Nat \ {0, 1}
    /\ \A x \in Scalars \ {0} : \E y \in Scalars : (x * y) % Q = 1
    /\ 8 % Q # 0
ASSUME BaseAssumption   == Secrets \subseteq Scalars /\ Vectors \in Nat

\* What is hashed for what.
Domains == {"transcript", "scalar", "message", "CLSAG_agg_0", "CLSAG_agg_1", "CLSAG_round"}
SampleType ==
    [challenges : [Domains -> SUBSET (Scalars \ {0})], randoms : SUBSET Seq(Scalars)]

VARIABLES
    sample,         \* challenges: what a hash to a scalar may give, by what it is for;
                    \* randoms: what the calls of RandomScalar in one step may give
    hashes          \* the hashes computed so far, with their results

-----------------------------------------------------------------------------
ScAdd(a, b) == (a + b) % Q
\* Bug: a difference is not reduced.
ScSub_Raw(a, b) == a - b
ScSub(a, b) == (a - b) % Q
ScMul(a, b) == (a * b) % Q
ScMulAdd(a, b, c) == (a * b + c) % Q
MinusOne == Q - 1

\* The inverse of 0 is 0, as for edwards25519.Scalar.
Invert(a) == IF a = 0 THEN 0 ELSE CHOOSE b \in Scalars : (a * b) % Q = 1
InvEight == Invert(8 % Q)

ScSum(f) == SumFunction(f) % Q

\* 1, x, x^2, ...: entry i is x^(i - 1).
Powers(x, n) ==
    LET power[i \in 1 .. n] == IF i = 1 THEN 1 ELSE ScMul(power[i - 1], x) IN power

-----------------------------------------------------------------------------
BaseG     == <<"G", 0>>
BaseH     == <<"H", 0>>
BaseGi(i) == <<"Gi", i>>
BaseHi(i) == <<"Hi", i>>
Bases == {BaseG, BaseH} \cup ({"Gi", "Hi"} \X (1 .. Vectors)) \cup ({"Hp"} \X Secrets)

Points   == [Bases -> Scalars]
Identity == [b \in Bases |-> 0]
PointOf(base) == [Identity EXCEPT ![base] = 1]
G == PointOf(BaseG)
H == PointOf(BaseH)

AddPoints(p, q) == [b \in Bases |-> ScAdd(p[b], q[b])]
SubKeys(p, q)   == [b \in Bases |-> ScSub(p[b], q[b])]
ScalarMult(a, p) == [b \in Bases |-> ScMul(a, p[b])]
SumPoints(ps)   == [b \in Bases |-> ScSum([i \in DOMAIN ps |-> ps[i][b]])]

\* a*G + b*B
AddKeys2(a, b, B) == AddPoints(ScalarMult(a, G), ScalarMult(b, B))
\* a*A + b*B + c*C
AddKeys3(a, A, b, B, c, C) == SumPoints(<<ScalarMult(a, A), ScalarMult(b, B), ScalarMult(c, C)>>)

CalcCommitment(amount, mask) == AddKeys2(mask, amount, H)

\* A key of a ring is a multiple of G.
PubKey(secret) == ScalarMult(secret, G)
HashToEC(key)  == PointOf(<<"Hp", key[BaseG]>>)
GenerateKeyImage(secret) == ScalarMult(secret, HashToEC(PubKey(secret)))

-----------------------------------------------------------------------------
Query(domain, scalars, points) == [domain |-> domain, scalars |-> scalars, points |-> points]

Answers(known, query) == IF query \in DOMAIN known THEN {known[query]} ELSE sample.challenges[query.domain]
Answered(known, query, answer) ==
    [q \in DOMAIN known \cup {query} |-> IF q = query THEN answer ELSE known[q]]

\* HashToScalar and TranscriptUpdate.
Hash(query, answer) ==
    /\ answer \in Answers(hashes, query)
    /\ hashes' = Answered(hashes, query, answer)

\* A verifier asks for the same hashes.  One that was never computed differs from
\* all that were, for all anybody knows.
Unknown == -1
Lookup(query) == IF query \in DOMAIN hashes THEN hashes[query] ELSE Unknown
=============================================================================
