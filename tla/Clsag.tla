-------------------------------- MODULE Clsag --------------------------------
(* ClsagGen of types/clsag.go: the ring signature of one input, one step per   *)
(* iteration of its loop over the decoys.  Positions are counted from 1.       *)
EXTENDS RctGroup

VARIABLES
    job,        \* the arguments of the call
    stage,      \* "idle", "commit", "ring", "signed" or "rejected"
    nonce,      \* a
    D,          \* z * Hp(P[l]); sig.D is an eighth of it
    muP, muC,   \* mu_P, mu_C
    c, index,   \* loop variables c and i
    S, C1       \* of the signature under construction

clsagVars == <<job, stage, nonce, D, muP, muC, c, index, S, C1>>

Members == DOMAIN job.P

SigD == ScalarMult(InvEight, D)

RingPoints == job.P \o job.nonzero
AggregateQuery(domain) ==
    Query(domain, <<>>, RingPoints \o <<job.image, SigD, job.offset>>)
RoundQuery(L, R) ==
    Query("CLSAG_round", <<job.message>>, RingPoints \o <<job.offset, L, R>>)

NextIndex(i) == (i % Len(job.P)) + 1

-----------------------------------------------------------------------------
ClsagIdle ==
    /\ stage = "idle" /\ job = <<>>
    /\ nonce = 0 /\ D = Identity /\ muP = 0 /\ muC = 0
    /\ c = 0 /\ index = 0 /\ S = <<>> /\ C1 = 0

\* The checks of sizes and of the index; clsagPrepare.
ClsagStart(arguments) ==
    /\ job' = arguments
    /\ IF \/ Len(arguments.P) # Len(arguments.C)
          \/ Len(arguments.P) # Len(arguments.nonzero)
          \/ arguments.l > Len(arguments.P)
       THEN stage' = "rejected" /\ nonce' = 0 /\ D' = Identity /\ S' = <<>>
       ELSE /\ stage' = "commit"
            /\ \E random \in sample.randoms : nonce' = random[1]
            /\ D' = ScalarMult(arguments.z, HashToEC(arguments.P[arguments.l]))
            /\ S' = [i \in DOMAIN arguments.P |-> 0]
    /\ muP' = 0 /\ muC' = 0 /\ c' = 0 /\ index' = 0 /\ C1' = 0
    /\ UNCHANGED hashes

\* Bug: the first challenge that is computed is kept.
IsFirst_Begun(i) == i = NextIndex(job.l)

\* c1 is the challenge of the first member, met when the index wraps round.
IsFirst(i) == i = 1

\* mu_P, mu_C and the challenge behind the signer's position.
ClsagCommit ==
    /\ stage = "commit"
    /\ \E p \in Answers(hashes, AggregateQuery("CLSAG_agg_0")) :
       \E q \in Answers(hashes, AggregateQuery("CLSAG_agg_1")) :
          LET aggregated == Answered(Answered(hashes, AggregateQuery("CLSAG_agg_0"), p),
                                     AggregateQuery("CLSAG_agg_1"), q)
              round == RoundQuery(ScalarMult(nonce, G),
                                  ScalarMult(nonce, HashToEC(job.P[job.l])))
          IN  \E answer \in Answers(aggregated, round) :
                 /\ muP' = p /\ muC' = q
                 /\ c' = answer
                 /\ hashes' = Answered(aggregated, round, answer)
    /\ index' = NextIndex(job.l)
    /\ C1' = IF IsFirst(index') THEN c' ELSE C1
    /\ stage' = "ring"
    /\ UNCHANGED <<job, nonce, D, S>>

\* L and R of member i.
LeftOf(s, chal, i)  ==
    AddKeys3(s, G, ScMul(chal, muP), job.P[i], ScMul(chal, muC), job.C[i])
RightOf(s, chal, i) ==
    AddKeys3(s, HashToEC(job.P[i]), ScMul(chal, muP), job.image, ScMul(chal, muC), D)

ClsagDecoy ==
    /\ stage = "ring"
    /\ index # job.l
    /\ \E random \in sample.randoms :
          LET s == random[1]
              round == RoundQuery(LeftOf(s, c, index), RightOf(s, c, index))
          IN  \E answer \in Answers(hashes, round) :
                 /\ S' = [S EXCEPT ![index] = s]
                 /\ c' = answer
                 /\ Hash(round, answer)
    /\ index' = NextIndex(index)
    /\ C1' = IF IsFirst(index') THEN c' ELSE C1
    /\ UNCHANGED <<job, stage, nonce, D, muP, muC>>

\* s = a - c*mu_P*p - c*mu_C*z
FinalScalar ==
    ScSub(nonce, ScAdd(ScMul(ScMul(c, muP), job.p), ScMul(ScMul(c, muC), job.z)))

\* clsagSign
ClsagClose ==
    /\ stage = "ring"
    /\ index = job.l
    /\ S' = [S EXCEPT ![index] = FinalScalar]
    /\ stage' = "signed"
    /\ nonce' = 0
    /\ UNCHANGED <<job, hashes, D, muP, muC, c, index, C1>>

ClsagNext == ClsagCommit \/ ClsagDecoy \/ ClsagClose

Signature == [S |-> S, C1 |-> C1, D |-> SigD]

-----------------------------------------------------------------------------
(* The verifier of Monero, which is not part of the repository.             *)

\* Of the arguments of a call, a claim, the verifier has the message, P, nonzero,
\* offset and image.
RingWeight(domain, claim, signature) ==
    Lookup(Query(domain, <<>>, claim.P \o claim.nonzero \o
                               <<claim.image, signature.D, claim.offset>>))

\* The challenge that follows chal, the one of member k.
ChallengeAfter(k, chal, mP, mC, claim, signature) ==
    LET L == AddKeys3(signature.S[k], G, ScMul(chal, mP), claim.P[k],
                      ScMul(chal, mC), SubKeys(claim.nonzero[k], claim.offset))
        R == AddKeys3(signature.S[k], HashToEC(claim.P[k]), ScMul(chal, mP), claim.image,
                      ScMul(chal, mC), ScalarMult(8, signature.D))
    IN  Lookup(Query("CLSAG_round", <<claim.message>>,
                     claim.P \o claim.nonzero \o <<claim.offset, L, R>>))

RingChallenges(mP, mC, claim, signature) ==
    LET chal[i \in 1 .. Len(claim.P) + 1] ==
            IF i = 1 THEN signature.C1
            ELSE IF chal[i - 1] = Unknown THEN Unknown
            ELSE ChallengeAfter(i - 1, chal[i - 1], mP, mC, claim, signature)
    IN  chal

ClsagVerifies(claim, signature) ==
    LET mP == RingWeight("CLSAG_agg_0", claim, signature)
        mC == RingWeight("CLSAG_agg_1", claim, signature)
    IN  /\ mP # Unknown /\ mC # Unknown
        /\ RingChallenges(mP, mC, claim, signature)[Len(claim.P) + 1] = signature.C1

ClsagTypeOK ==
    /\ stage \in {"idle", "commit", "ring", "signed", "rejected"}
    /\ {nonce, muP, muC, c, C1} \subseteq Scalars
    /\ D \in Points
    /\ \A i \in DOMAIN S : S[i] \in Scalars
    /\ stage \in {"ring", "signed"} => index \in Members
=============================================================================
