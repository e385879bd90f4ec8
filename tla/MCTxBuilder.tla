---------------------------- MODULE MCTxBuilder ----------------------------
(* TLC's instances of TxBuilder. *)
EXTENDS TxPayment

CONSTANTS alice, bob, c1, c2

address(w, kind, pid) == [owner |-> w, kind |-> kind, pid |-> pid]

MCCoinValue == (c1 :> 2) @@ (c2 :> 3)
MCCoinMask  == (c1 :> 1) @@ (c2 :> 0)

\* Any function will do as the hash; this one tells indices and derivations apart
\* where the instances can.
MCHs == [d \in Points \X Indices |-> (Cardinality(d[1]) + 2 * d[2]) % Q]

\* Honest requests for two coins, and one that claims more than the coin holds.
MCInputRequests ==
    {[coin |-> c1, amount |-> 2], [coin |-> c2, amount |-> 3], [coin |-> c1, amount |-> 3]}

\* A payee, the wallet's change, a change address that does not decode and a
\* request that forgets change_address.
MCOutputRequests ==
    {[address |-> address(bob, "standard", 0), amount |-> 3, change |-> "no"],
     [address |-> address(alice, "standard", 0), amount |-> 1, change |-> "yes"],
     [address |-> address(alice, "bad", 0), amount |-> 1, change |-> "yes"],
     [address |-> address(bob, "standard", 0), amount |-> 1, change |-> "absent"]}

MCFees == {0, 1}

\* For calls in any order: fewer requests, more calls.
MCFewInputRequests  == {[coin |-> c1, amount |-> 2], [coin |-> c2, amount |-> 3]}
MCFewOutputRequests ==
    {[address |-> address(bob, "standard", 0), amount |-> 3, change |-> "no"],
     [address |-> address(alice, "bad", 0), amount |-> 1, change |-> "yes"]}
MCFewFees == {1}

\* CalcHash and Serialize read everything and nothing reads their results, so for
\* properties of the other fields states that differ in these are the same.
WithoutResults ==
    <<requestVars, vinCount, inputs, outputVars, txnFee, keyVars, signVars, status, step, partial>>
=============================================================================
