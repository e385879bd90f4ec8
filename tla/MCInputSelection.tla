--------------------------- MODULE MCInputSelection ---------------------------
(* TLC's instance of InputSelection. *)
EXTENDS InputSelection, SequencesExt

View(blocks) == [outputs |-> FlattenSeq(blocks),
                 counts  |-> [b \in DOMAIN blocks |-> Len(FlattenSeq(SubSeq(blocks, 1, b)))]]

Out(tx, vout, owner) == [tx |-> tx, vout |-> vout, owner |-> owner]
Alone(tx) == <<Out(tx, 0, "miner")>>
Coin == <<Out("coin", 0, "other"), Out("coin", 1, "me")>>
Late == <<Out("late", 0, "me")>>

\* A chain, the same one a daemon that is behind has, one too short for a ring, and
\* a fork on which the coin is mined a block later.
Main   == <<Alone("a"), Alone("b"), Coin, Alone("c"), Alone("d"), Late>>
Behind == SubSeq(Main, 1, 4)
Short  == SubSeq(Main, 1, 2)
Fork   == <<Alone("a"), Alone("x"), Alone("y"), Coin, Alone("z"), Alone("w")>>

MCViews == {View(Main), View(Behind), View(Short), View(Fork)}

Ask1(tx, vout, extra) == [tx |-> tx, vout |-> vout, extra |-> extra, owner |-> "me", keysMatch |-> TRUE]
MCRequests ==
    {[Ask1("late", 0, "late") EXCEPT !.keysMatch = FALSE],
     Ask1("coin", 1, "coin"), Ask1("coin", 0, "coin"), Ask1("coin", 1, "late"),
     Ask1("coin", 1, None),
     Ask1("coin", 2, "coin"), Ask1("late", 0, "late"), Ask1("a", 0, "a")}
MCHeights == 0 .. 7
=============================================================================
