------------------------------- MODULE MCBlock -------------------------------
(* TLC's instances of Block: merkle trees of one to nine leaves.               *)
EXTENDS Block

Tagged(n) == [name |-> "block", outs |-> <<TxOutToTaggedKey>>, extra |-> 1, txs |-> n]

\* Blocks with one output and up to eight transactions, one with two outputs, and an
\* early one, whose output has no view tag.
MCBlocks ==
    {Tagged(n) : n \in 0 .. 8}
    \cup {[name |-> "two", outs |-> <<TxOutToTaggedKey, TxOutToTaggedKey>>, extra |-> 2, txs |-> 2],
          [name |-> "early", outs |-> <<TxOutToKey>>, extra |-> 2, txs |-> 1]}
\* Transactions of one of them, and one that belongs to another.
MCTxPool == {TxData(Tagged(3), i) : i \in 1 .. 2} \cup {TxData([name |-> "two"], 1)}
=============================================================================
