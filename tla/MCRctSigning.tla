----------------------------- MODULE MCRctSigning -----------------------------
(* TLC's instance of RctSigning. *)
EXTENDS RctSigning

Member(secret, mask, amount) == [secret |-> secret, mask |-> mask, amount |-> amount]
Spend(ring, l, secret, mask, amount) ==
    [ring |-> ring, l |-> l, secret |-> secret, mask |-> mask, amount |-> amount]

\* Rings of one to three members; Other is an output the signer does not own.
Own == Member(1, 4, 3)
Other == Member(2, 6, 1)
Third == Member(3, 0, 2)
Honest(ring, l) == Spend(ring, l, ring[l].secret, ring[l].mask, ring[l].amount)
OwnAlone == Honest(<<Own>>, 1)

Transaction(amts, msks, ins) == [amounts |-> amts, masks |-> msks, inputs |-> ins]

\* Range proofs: no amount, every one and every two amounts of two bits, the limit
\* exceeded, and lists of different lengths.
ManyOutputs ==
    {Transaction(a, [j \in DOMAIN a |-> 2 * j + 1], <<OwnAlone>>) :
        a \in UNION {[1 .. n -> 0 .. 3] : n \in 0 .. 1} \cup ((0 .. 3) \X {0, 1, 3})}
    \cup {Transaction(<<1, 2, 3>>, <<4, 5, 6>>, <<OwnAlone>>), Transaction(<<1>>, <<4, 5>>, <<OwnAlone>>),
          Transaction(<<>>, <<>>, <<>>)}

\* Ring signatures: every position in rings of up to three, the wrong key, mask,
\* amount or both, an index past the ring, and two inputs.
ManyInputs ==
    LET ring == <<Own, Other, Third>>
        one(in) == Transaction(<<>>, <<>>, <<in>>)
    IN  {one(Honest(SubSeq(ring, 1, n), l)) : n \in 2 .. 3, l \in 1 .. 2}
        \cup {one(Honest(ring, 3)), one(Spend(ring, 4, 1, 4, 3))}
        \cup {one(Spend(ring, l, 1, 4, 3)) : l \in 2 .. 3}
        \cup {one(Spend(ring, 1, 2, 4, 3)), one(Spend(ring, 1, 1, 5, 3)), one(Spend(ring, 1, 1, 4, 2))}
        \cup {Transaction(<<>>, <<>>, <<Honest(<<Other, Own>>, 2), Honest(<<Third, Own>>, 1)>>),
              Transaction(<<2>>, <<7>>, <<Honest(<<Own, Other>>, 1), Spend(<<Third>>, 1, 2, 0, 2)>>)}

\* Every choice of two challenges in the proof, and in the rings.
ProofSample ==
    [challenges |-> [d \in Domains |-> IF d \in {"transcript", "scalar"} THEN {2, 6} ELSE {7}],
     randoms |-> {<<4, 9, 1, 5>>}]
RingSample ==
    [challenges |-> [d \in Domains |->
        CASE d = "CLSAG_agg_0" -> {2, 6} [] d = "CLSAG_agg_1" -> {3, 9} [] d = "CLSAG_round" -> {2, 7}
          [] d = "transcript" -> {3} [] OTHER -> {5}],
     randoms |-> {<<3, 0, 8, 10>>}]

MCCases == [tx : ManyOutputs, sample : {ProofSample}] \cup [tx : ManyInputs, sample : {RingSample}]
=============================================================================
