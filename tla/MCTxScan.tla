------------------------------ MODULE MCTxScan ------------------------------
(* TLC's instance of TxScan: two coins, payments to addresses of every kind. *)
EXTENDS TxScan

CONSTANTS alice, bob, carol, c1, c2

address(w, kind, pid) == [owner |-> w, kind |-> kind, pid |-> pid]

MCCoinValue == c1 :> 6 @@ c2 :> 1
MCCoinMask  == c1 :> 1 @@ c2 :> 0

MCHs == [d \in Points \X Indices |-> (Cardinality(d[1]) + d[2]) % Q]

MCInputRequests == {[coin |-> c1, amount |-> 6], [coin |-> c2, amount |-> 1]}

payment(a, amount) == [address |-> a, amount |-> amount, change |-> "no"]
MCOutputRequests ==
    {payment(address(bob, "standard", 0), 1), payment(address(bob, "integrated", 7), 2),
     payment(address(bob, "sub", 0), 1), payment(address(carol, "sub", 0), 2),
     payment(address(alice, "sub", 0), 1),
     [address |-> address(alice, "standard", 0), amount |-> 2, change |-> "yes"],
     [address |-> address(alice, "standard", 0), amount |-> 1, change |-> "no"]}

\* Numbers of XMR with a few digits: thirds of a unit are rounded, and larger sums
\* lose their last digits, so that the order of addition matters.
MCAtomicToXmr(amount) == (10 * amount + 1) \div 3
MCXmrPlus(x, y) == LET s == x + y IN IF s < 8 THEN s ELSE 4 * (s \div 4)

\* No property of a scan speaks of what the network holds at a ring's secret position.
WithoutHidden ==
    <<requestVars, vinCount, inputs, outputVars, txnFee, keyVars, signVars, resultVars,
      status, step, partial, scanVars>>
=============================================================================
