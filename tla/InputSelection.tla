---------------------------- MODULE InputSelection ----------------------------
(* writeInput2 of types/tx2.go: how an output becomes an input.  Three daemons, *)
(* each picked at random, are asked for the output's global index, the newest   *)
(* index and the keys of the ring, with the selection of DecoySelection between *)
(* the second and the third; then the keys of the output are derived.  The      *)
(* calls are those of rpc/client.go.                                            *)
(*                                                                              *)
(* The daemons are not part of the repository.  Each has a view of the chain,   *)
(* which may be behind that of another or on another fork, and answers by it;   *)
(* some answer nonsense.                                                        *)
EXTENDS DecoySelection

CONSTANTS
    Views,          \* chains: all outputs in their order, and counts[b], how many
                    \* of them are in the first b blocks
    Requests,       \* what CalcInputs may be asked for: output vout of transaction tx;
                    \* the transaction its extra field is from, None if the field
                    \* has no public key; whose keys, and whether the secret key is
                    \* that of the address
    Heights,        \* values of currentBlockHeight
    Past, Recent,   \* 100 and 10 in the code
    Mod             \* 2^64

Output == [tx : STRING, vout : Nat, owner : STRING]

\* Every block has an output; those of a transaction are numbered from 0.
ASSUME ViewAssumption ==
    /\ Views \subseteq [outputs : Seq(Output), counts : Seq(Nat \ {0})]
    /\ \A view \in Views :
          /\ \A b \in DOMAIN view.counts : view.counts[b] <= Len(view.outputs)
          /\ \A i \in DOMAIN view.outputs : \A n \in 0 .. view.outputs[i].vout :
                \E j \in DOMAIN view.outputs :
                   view.outputs[j].tx = view.outputs[i].tx /\ view.outputs[j].vout = n
ASSUME RequestAssumption ==
    Requests \subseteq [tx : STRING, vout : Nat, extra : STRING, owner : STRING, keysMatch : BOOLEAN]
ASSUME HeightAssumption  ==
    /\ Heights \subseteq 0 .. Mod - 1 /\ Past \in Nat /\ Recent \in 0 .. Past
    /\ Mod \in Nat /\ \A view \in Views : Len(view.counts) < Mod - Past

VARIABLES
    request, height,    \* the arguments of the call
    call,               \* "index", "distribution", "select", "added", "failed" or "panic"
    asked,              \* the views of the daemons asked so far
    members,            \* Mixins of the input
    blame               \* history: why the call ended without an input

inputVars == <<request, height, call, asked, members, blame>>

None == "none"
HeightOf(view) == Len(view.counts)

\* Of the blocks up to height h, which is that of block h + 1.
Count(view, h) == view.counts[h + 1]

\* Global index i is that of output i + 1.
Places(view, tx) == {i \in DOMAIN view.outputs : view.outputs[i].tx = tx}
IndexesOf(view, tx) ==
    [n \in {view.outputs[i].vout : i \in Places(view, tx)} |->
        (CHOOSE i \in Places(view, tx) : view.outputs[i].vout = n) - 1]

-----------------------------------------------------------------------------
(* Answers: a status, and a list unless the field is missing.               *)

Ok(list)   == [status |-> "ok", has |-> TRUE, list |-> list]
Empty      == [status |-> "ok", has |-> FALSE, list |-> <<>>]
Refusal    == [status |-> "failed", has |-> FALSE, list |-> <<>>]

\* A transaction that is only in the pool has no indexes; one that is nowhere is
\* not in the list, and an empty list is not sent.
TransactionAnswer(view) ==
    LET found == IndexesOf(view, request.tx)
    IN  IF DOMAIN found # {} THEN Ok([n \in 1 .. Cardinality(DOMAIN found) |-> found[n - 1]])
        ELSE Empty

FromHeight == (height - Past) % Mod
\* Bug: the newest blocks are asked for as well.
ToHeight_Newest == height % Mod
ToHeight == (height - Recent) % Mod

DistributionAnswer(view) ==
    IF FromHeight > ToHeight \/ ToHeight >= HeightOf(view) THEN Refusal
    ELSE Ok([n \in 1 .. ToHeight - FromHeight + 1 |-> Count(view, FromHeight + n - 1)])

OutsAnswer(view, indexes) ==
    IF \E i \in DOMAIN indexes : indexes[i] >= Len(view.outputs) THEN Refusal
    ELSE Ok([i \in DOMAIN indexes |-> view.outputs[indexes[i] + 1]])

\* Bug: a status that is not "ok" is not looked at.
Refused_Never(answer) == FALSE
Refused(answer) == answer.status # "ok"

\* The call returns an error, or the program ends.
End(outcome, why) ==
    /\ call' = outcome
    /\ phase' = "failed"
    /\ blame' = why
    /\ UNCHANGED <<request, height, real, max, selected, attempts, ring, offsets, indxs, pos,
                   orderIndx, mixins, members>>

\* What the calls have in common: a status other than "ok" is an error, and the
\* list is converted without a look whether it is there.
Ask(view, answer, handle) ==
    /\ asked' = Append(asked, view)
    /\ IF Refused(answer) THEN End("failed", "refusal")
       ELSE IF ~answer.has THEN End("panic", "missing")
       ELSE handle

RingReady == call = "select" /\ phase = "sum" /\ pos > RingSize
Calling   == call \in {"index", "distribution"} \/ RingReady

\* No daemon answers, in all attempts.
NoAnswer ==
    /\ Calling
    /\ End("failed", "daemon")
    /\ UNCHANGED asked

\* An answer without a status, or with fewer outputs than GetOuts asked for.
Nonsense ==
    /\ Calling
    /\ \E view \in Views : asked' = Append(asked, view)
    /\ End("panic", "daemon")

-----------------------------------------------------------------------------
InputInit ==
    /\ request \in Requests /\ height \in Heights
    /\ call = "index" /\ asked = <<>> /\ members = <<>> /\ blame = None
    /\ real = 0 /\ max = 0 /\ phase = "start" /\ selected = {} /\ attempts = 0
    /\ ring = <<>> /\ offsets = <<>> /\ indxs = <<>> /\ pos = 0 /\ orderIndx = 0 /\ mixins = <<>>

\* Bug: the index of the first output, whichever is asked for.
IndexOfVout_First(indexes) == indexes[1]
IndexOfVout(indexes) == indexes[request.vout + 1]

\* getOutputIndex
GetOutputIndex ==
    /\ call = "index"
    /\ \E view \in Views :
          LET indexes == TransactionAnswer(view).list IN
          Ask(view, TransactionAnswer(view),
              IF request.vout >= Len(indexes) THEN End("failed", "vout")
              ELSE /\ real' = IndexOfVout(indexes)
                   /\ call' = "distribution"
                   /\ UNCHANGED <<request, height, max, phase, selected, attempts, ring, offsets,
                                  indxs, pos, orderIndx, mixins, members, blame>>)

\* getMaxGlobalIndex
GetMaxGlobalIndex ==
    /\ call = "distribution"
    /\ \E view \in Views :
          LET distribution == DistributionAnswer(view).list
              last == distribution[Len(distribution)]
          IN  Ask(view, DistributionAnswer(view),
              IF distribution = <<>> \/ last = 0 THEN End("failed", "no outputs")
              ELSE /\ max' = last - 1
                   /\ call' = "select"
                   /\ UNCHANGED <<request, height, real, phase, selected, attempts, ring, offsets,
                                  indxs, pos, orderIndx, mixins, members, blame>>)

\* SelectDecoys, BuildKeyOffsets and the sums of GetMixins.
Select ==
    /\ call = "select"
    /\ \/ RejectShortChain \/ StartSelection \/ Attempt \/ GiveUp \/ SortRing
       \/ BuildKeyOffsets \/ SumOffset
    /\ call' = IF phase' = "failed" THEN "failed" ELSE call
    /\ blame' = IF phase' = "failed" THEN "selection" ELSE blame
    /\ UNCHANGED <<request, height, asked, members>>

\* The key the wallet derives: from the public key in the extra field it was given,
\* which need not be that of the transaction.
DerivedKey == [tx |-> request.extra, vout |-> request.vout, owner |-> request.owner]

\* What the request gives to derive the keys with: an extra field without a public
\* key ends the program, in the conversion of a slice to an array.
Keyless == request.extra = None
KeysUsable == ~Keyless /\ request.keysMatch

\* GetMixins, and the keys of the input, which nothing compares with its members.
AddInput ==
    /\ RingReady
    /\ \E view \in Views :
          Ask(view, OutsAnswer(view, indxs),
              IF RealPositions = {} THEN End("failed", "keys")
              ELSE IF ~KeysUsable THEN End(IF Keyless THEN "panic" ELSE "failed", "keys")
              ELSE /\ GetMixins
                   /\ members' = OutsAnswer(view, indxs).list
                   /\ call' = "added"
                   /\ UNCHANGED <<request, height, blame>>)

InputNext ==
    \/ NoAnswer \/ Nonsense
    \/ GetOutputIndex \/ GetMaxGlobalIndex \/ Select \/ AddInput

allVars == <<vars, inputVars>>

\* The steps run on the caller's goroutine; a call to a daemon comes to
\* an end, by the liveness of RpcClient.
InputSpec == InputInit /\ [][InputNext]_allVars /\ WF_allVars(InputNext)

-----------------------------------------------------------------------------
(* Properties.                                                              *)

InputTypeOK ==
    /\ TypeOK
    /\ call \in {"index", "distribution", "select", "added", "failed", "panic"}
    /\ asked \in Seq(Views) /\ Len(asked) <= 3
    /\ call = "added" => members \in [Positions -> Output]

\* Two chains have their first b blocks in common.
SameUpTo(one, other, b) ==
    /\ b \in DOMAIN one.counts /\ b \in DOMAIN other.counts
    /\ \A c \in 1 .. b : one.counts[c] = other.counts[c]
    /\ \A i \in 1 .. one.counts[b] : one.outputs[i] = other.outputs[i]

\* The first and the third call go to daemons that agree on the chain up to the
\* block of the output: then the member at the secret position is the output that was
\* asked for, and the wallet derived its key if it was given the extra field of the
\* same transaction and owns the output.  On different forks neither is compared,
\* and the ring may hide somebody else's output.
SecretMemberOpens ==
    call = "added" /\ (\E b \in DOMAIN asked[1].counts :
                            SameUpTo(asked[1], asked[3], b) /\ real < asked[1].counts[b]) =>
        LET member == members[orderIndx]
        IN  /\ member.tx = request.tx /\ member.vout = request.vout
            /\ member = DerivedKey <=> request.extra = request.tx /\ request.owner = member.owner

\* Every decoy is at least Recent blocks old for a daemon that has the blocks the
\* second one counted, so that the ring may be spent: the newest index that is
\* asked for, and one less, which is drawn, are of outputs old enough.
DecoysAreOld ==
    call = "added" /\ SameUpTo(asked[2], asked[3], height - Recent + 1) =>
        \A i \in Positions \ {orderIndx} :
            ring[i] < Count(asked[3], height - Recent)

\* Why no input was added, if all daemons answered by their views.  The program
\* ends only when the first daemon has the transaction in no block or the extra field
\* has no public key, which comes out once the third has answered; below Past blocks
\* the heights wrap round and every daemon refuses; a daemon that is behind refuses;
\* and SelectDecoys gives up for no other reason than its own.
OutcomeExplained ==
    LET view == asked[Len(asked)]
    IN  /\ call = "panic" /\ blame # "daemon" =>
              \/ Len(asked) = 1 /\ DOMAIN IndexesOf(view, request.tx) = {}
              \/ Len(asked) = 3 /\ Keyless
        /\ call = "failed" /\ blame \notin {"daemon", "selection"} =>
              \/ Len(asked) = 1 /\ request.vout \notin DOMAIN IndexesOf(view, request.tx)
              \/ Len(asked) = 2 /\ (height < Past \/ height - Recent >= HeightOf(view))
              \/ Len(asked) = 3 /\ (~request.keysMatch \/ \E i \in Positions : ring[i] >= Len(view.outputs))
        /\ call = "added" => height >= Past /\ KeysUsable
=============================================================================
