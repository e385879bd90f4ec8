# TLA+ models of go-monero

go-monero is a Go library for Monero wallets: it builds and signs transactions,
scans transactions for a wallet's outputs, asks daemons over JSON-RPC and speaks
the Levin peer-to-peer protocol. This directory holds TLA+ models of it, the TLC
configurations that check them, and proofs that the TLA+ proof system checks.
Source paths below are relative to `src/`.

Contents: [inventory](#inventory), [modules](#modules), [runs](#runs),
[proofs](#proofs), [findings](#findings), [what is not modelled](#not-modelled),
[plan](#plan).

## Inventory

| Component | Source | State it keeps | Operations |
|---|---|---|---|
| Transaction builder | `types/tx2.go`, `types/tx.go` (serialisation), `types/bpp.go`, `types/clsag.go` | one `Transaction` object: requests, inputs, outputs, fee, extra, range proof, signatures, masks | `NewEmptyTransaction`, `WriteInput`, `WriteOutput`, `SetFee`, `CalcFeeDifference`, `CalcExtra`, `CalcInputs`, `CalcOutputs`, `SignTransaction`, `CalcHash`, `Serialize` |
| Keys and addresses | `util/crypto.go`, `util/keyimage.go`, `util/key.go` | none | `DecodeAddress`, `GenerateKeyDerivation`, `DerivePublicKey`, `EncryptRctAmount`, `EncryptPaymentID`, `ParseTxExtra`, base58, varints |
| Scanning | `types/tx.go`, `util/crypto.go` | the parsed transaction | `ParseTx`, `ParseRctSig`, `ParseTxExtra`, `CheckOutputs`, `DecodeRctAmount` |
| Decoy selection | `types/gamma_selector.go` | the set of indexes drawn, the attempt counter | `SelectDecoys`, `BuildKeyOffsets`, `GetMixins` |
| RPC client | `rpc/*.go` | host list, retry count, timeout | `cycleCall` and the calls made with it |
| Ring signature | `types/clsag.go` | the signature under construction | `ClsagGen` and `proveRctCLSAGSimple`, once per input |
| Range proof | `types/bpp.go` | the proof and its transcript | `createBulletproofPlus`, `calculatePseudoOuts` |
| Levin client | `levin/client.go`, `levin/levin.go` | one TCP connection | `NewClient`, `Handshake`, `ReadMessage`, `SendRequest`, `SendResponse`, `Close` |
| Codecs | `levin/portable_storage.go`, `levin/boost.go` | none | encode and decode |
| Node and timed sync | `levin/node.go`, `levin/timedsync.go`, `levin/ping.go` | what a peer said: its peers, its top block | `NewNodeFromEntries`, `ParsePeerList`, `NewResponseTimedSync`, `NewPingFromPortableStorage` |
| Block | `types/block.go` | a block under assembly | header parsing, `InsertTx`, merkle root |
| Curve arithmetic | `util/edwards25519.go`, `util/const.go` | none | field, group and scalar operations |

How they meet. `CalcInputs` calls, for every requested input, the RPC client
three times: it asks for the global index of the output, for the newest index, and
for the keys of the ring that decoy selection chose; the keys and the mask of the
coin are derived from the extra field that the caller gave. `CalcOutputs` derives keys and masks.
`SignTransaction` runs the range proof and one ring signature per input over a
message that covers everything the transaction sends. `SendRawTransaction`
posts the serialised transaction. A wallet that receives the bytes parses them into
another `Transaction` and scans that. A Levin client hands the payloads it reads to
the portable storage, and the entries found there to `Node`.

What is hard, and where:

* **A long protocol of calls on one mutable object.** The source documents an
  order (`types/tx2.go:22-32`) and enforces none of it. Every per-input and
  per-output datum is a slice of its own, they are only ever appended to, and
  signing relates them by position. Calls are repeated because some of them fail
  half-way and are retried.
* **Two serialisations of one prefix.** What is signed is written by
  `PrefixHash`, from counters; what is sent is written by `CalculatePart1`, from
  the lengths of slices.
* **One public key for all outputs.** Its base point depends on which payees are
  subaddresses; whether each payee, and the sender's change, can recognise its
  output depends on it.
* **Answers of several daemons** that lag, lie or fork, each picked at random.
* **Timeouts** that do not cancel what they give up on.
* **A loop that ends only by luck or by a counter** (decoy selection).
* **Boundaries**: the shortest chain, the newest output, uint64 subtraction,
  scalars that must be reduced.

The library has no lock and starts no goroutine: concurrency enters through the
daemons, the network and callers who share one Levin connection.

`PROJECT.json` lists each hazard with its line and the properties that catch it.

## Modules

| Module | Models | Extends |
|---|---|---|
| `TxKeys` | addresses, derivations, one-time keys, amount and payment id encryption | |
| `TxBuilder` | the transaction builder | `TxKeys` |
| `Payment` | what the builder promises: the abstract specification | |
| `TxPayment` | the refinement mapping from `TxBuilder` to `Payment` | `TxBuilder` |
| `RctGroup` | scalars, points and hashes over a small prime field | |
| `Clsag` | the ring signature of one input, member by member | `RctGroup` |
| `BulletproofPlus` | the range proof, round by round | `RctGroup` |
| `RctSigning` | `SignTransaction`: both of them, with the pseudo outputs | `Clsag`, `BulletproofPlus` |
| `TxWire` | `Serialize`, `ParseTx`, `ParseRctSig`, `ParseTxExtra` | |
| `TxScan` | the builder, and a wallet that parses and scans what was sent | `TxBuilder`, `TxWire` |
| `DecoySelection` | `SelectDecoys`, `BuildKeyOffsets`, `GetMixins` | |
| `InputSelection` | `writeInput2`: three calls to three daemons, and the selection | `DecoySelection` |
| `RpcClient` | `SendRawTransaction` over the retry loop, and the daemons | |
| `LevinClient` | one Levin connection and the goroutines that share it, and the peer | |
| `VarInt` | the sizes of portable storage | |
| `PortableStorage` | the two writers and the reader of portable storage, and a peer's messages | `VarInt` |
| `Node` | what is taken from the entries that were read | `PortableStorage` |
| `Block` | a block given, filled, parsed and identified | |
| `MCTxBuilder`, `MCTxScan`, `MCRctSigning`, `MCDecoySelection`, `MCInputSelection`, `MCLevinClient`, `MCPortableStorage`, `MCBlock` | instances for TLC | |
| `DataTheorems` | lemmas: induction, recursion, residues, sums in any order and in blocks, concatenations and flattenings of sequences | |
| `TxProofs` | proofs about `TxBuilder`, the refinement of `Payment`, `TxWire` and `TxScan` | `TxPayment`, `TxScan`, `DataTheorems` |
| `BulletproofProofs` | lemmas: the field, the group, and the algebra of the range proof | `BulletproofPlus`, `DataTheorems` |
| `RctSigningProofs` | proofs about the ring signatures, the balance and the range proof | `RctSigning`, `BulletproofProofs` |
| `InputSelectionProofs` | proofs about `DecoySelection` and `InputSelection` | `InputSelection` |
| `RpcClientProofs` | proofs about `RpcClient` | `RpcClient` |
| `LevinProofs` | proofs about `LevinClient` and `VarInt` | `LevinClient`, `VarInt` |
| `BlockProofs` | proofs about `Block` | `Block`, `DataTheorems` |

### TxKeys

A point of the curve is the *set of secrets* that were multiplied into the base
point: `{}` is G, `{<<"tx", s>>}` is s·G, and a key derivation adds one secret.
Two parties compute the same shared secret if and only if their sets are equal,
which is what commutativity of scalar multiplication gives and the hardness of
discrete logarithms takes away otherwise. Hashes of a derivation and an index are
records of what they hash. The all-zero key a fresh `Transaction` holds
(`publicKey` until `CalcExtra`) is absorbing: it decodes to a point of order 4,
and every derivation multiplies by the cofactor 8.

An amount encrypted under one derivation and decrypted under another gives
`Garbage`, a value that is no amount.

### TxBuilder

The variables are the fields of `Transaction`. An input is the coin whose key and mask
the wallet has derived for it, from the extra field and the keys of the request, a
commitment the pair of amount and mask it opens to, a signature the record of what
it signs: the message, the coin, the pseudo output and the difference `z` of
masks. Scalars are integers mod `Q`, amounts integers mod `Mod` (2^64 in the
code).

One action is one method call. `CalcInputs`, `CalcOutputs` and `SignTransaction`
have a second action for the call that fails after it has changed the object; a
call that fails before changing anything is a stuttering step. Calls that panic
set `status`, after which nothing happens (the library never recovers). `CalcInputs` is
one of them: an answer without a status, or with a list missing or too short
(`rpc/client.go:87`, 92, 93, 99, 194, 198-200), and an extra field without a public key
(`types/tx2.go:256`) end the program, whatever was requested. Three variables are
history: `step` follows the documented order, retries included, and becomes 0 for good
when the caller leaves it; `partial` remembers a half-done `CalcInputs`; `hidden` says
what the network's chain holds where the ring of an input has its secret position. That
may be any output: its index and its members are what daemons said, the key and the
mask come from the caller, and the code compares none of them with another. No action
reads the three except to update them; `Verifies` reads `hidden`, since a verifier does.

`Verifies` states the equations a verifier of the serialised transaction checks:
the balance of the commitments, the range proof over the commitments that are
sent, and per input a ring signature of exactly the bytes sent by the key of the coin
in its ring whose second secret opens that coin minus pseudo output.

### Payment and TxPayment

`Payment` is the promise in a page: coins and payees are requested, then all of it
is signed once, with whatever is left as the fee, and what was signed is sent.
`TxPayment` maps the builder to it. What is signed is read off the messages of the
ring signatures, and what is sent off the parts of the wire: inputs, the spend
keys the outputs were made from, the amounts the range proof was made of, and the
fee. Every call that fails, is repeated, or computes fee, extra field, inputs,
outputs, hash or bytes is a stuttering step of `Payment`.

### RctGroup, Clsag, BulletproofPlus and RctSigning

`TxBuilder` takes it that a range proof and a ring signature are what a verifier
wants. These modules look inside. A scalar is an integer mod a prime `Q`. A point
is the vector of its coefficients over bases between which nobody knows a relation:
G, H, those of the range proof, and the image under `HashToEC` of each key. Two
computations give the same point in the model exactly if they give the same point
for every choice of bases. A hash to a scalar is drawn from a set when it is first
asked for and remembered, as in the random oracle model; a verifier may look a hash
up, and one that the signer never asked for is `Unknown`, which equals nothing.

`Clsag` has one step for `mu_P`, `mu_C` and the challenge behind the signer, one per
decoy, and one that closes the ring. `BulletproofPlus` has one for the commitments
and `A`, one for `y` and `z`, one per folding round, and one for the end.
`RctSigning` runs the proof, the pseudo outputs, and a signature per input over the
hash of it all. Monero's verifiers are external definitions: one equation over the
original bases for the proof, the ring of challenges for the signature.

### TxWire and TxScan

A wire is a sequence of fields, each with its width. `TxWire` writes a transaction
as `CalculatePart1`, `2` and `3` do and reads it as `ParseTx` and `ParseRctSig` do:
the counts decide how often something is read, `Inputs` and `Outputs` are appended
to what an earlier call left, the loops of the signature run over `len(tx.Outputs)`
and `VinCount`, and a reader at the end of the bytes finds zeros, since its errors
are ignored. A reader that meets a field of another width is out of step
(`inStep`); that it is, is modelled, and what it then reads is not.

`TxScan` composes the builder, in the documented order, with a receiver: `Receive`
gives it the bytes the builder sent, or the reward of a block or a payment with
additional keys as Monero makes them. It may then call `ParseTx` and `ParseRctSig`
in any order and repeatedly. `CheckOutputs` is evaluated on what it has at that
moment, for every address and the view key of its owner.

Its total is a float64 number of XMR: each amount is converted (`AtomicToXmr`,
`types/tx.go:544`) and added to the sum so far (`types/tx.go:307`), which rounds. Both
are constants, of which no more is assumed than that nothing and nothing make nothing
(`XmrAssumption`); `TotalXmr` adds in the order of the outputs, as the code does. The
instance for TLC has a sum that rounds to multiples of 4 from 8 on, so that another order
gives another total. No property says that the total is exact, because it is not.

### DecoySelection

One step per loop iteration. The real index and the newest index are independent. A draw is any index the code can compute: the gamma
sample is an arbitrary age up to the code's cap, the jitter any of its values, and
the clamping is the code's. The distribution is not modelled.

### InputSelection

`writeInput2` for one requested output. A daemon is a view of the chain: all outputs
in order and, per block, how many there are. The three calls go to any three views,
which may be behind one another or on different forks; each answers by its view, is
silent (`NoAnswer`), or sends an answer without a status or with fewer outputs than
were asked for (`Nonsense`). An answer is a status and a list that may be missing:
the code looks at the first and converts the second. Heights are computed mod `Mod`
(2^64 in the code), so that a height below `Past` wraps round. The steps of
`DecoySelection` run between the second and the third call. `DerivedKey` names the
output whose key the wallet derives, from the extra field it was given; `members`
are the outputs the third daemon returned. A request whose extra field has no public
key ends the program (`Keyless`), once the three daemons have answered.

### RpcClient

`posted` and `answers` are the network: requests and answers may be delayed past
the client's timeout, answers of given-up attempts are never read, and a daemon
may take the transaction and fail to say so. All that is assumed of daemons is
that `OK` is said after the transaction was put in the pool; other answers refuse
it, or are no JSON or JSON without a status, on which `SendRawTransaction` panics
(`Panics`, `rpc/client.go:236`, since the error of `FromJson` is ignored). Time itself is not
modelled: `AttemptFails` is enabled throughout an attempt.

### LevinClient

The two directions of the connection are sequences of bytes, each of which knows
the message it was written for and its place in it: whether a reader has met a
header is then a comparison, and reading out of step is a behaviour like any
other. One goroutine (`main`) makes the handshake and then reads and answers;
`Callers` call `SendRequest` on the same client. A call is two steps, since it
makes two writes and holds no lock between them. Reads wait for the number of
bytes they want (`io.ReadFull`, `io.CopyN`) and fail at the end of the stream.
`ReadMessage` may be called again after it returned an error.

The peer is external: it writes whole messages with payloads that parse, answers
in order what asks for an answer, hangs up on what it cannot parse, and may send
notifications, requests and commands unknown to the client at any time. The
connection may break at any byte (`PeerCloses`). Answering what `ReadMessage`
returns is the library's caller's duty and is modelled as done at once.

### VarInt and PortableStorage

A byte is a number or the n-th byte of some datum; a reader in step finds numbers
where sizes, types and lengths of names are, and one that is not may find data,
after which it is `Lost` (so is a reader that panics). The reader follows
`ReadObject`, `ReadArray` and `ReadAny` byte by byte.

There are two writers. `WriterBytes` is that of the Boost types, with which this
program writes its own messages; malformed hashes and empty lists come out as no
bytes at all, as in the code. `ValueBytes` is `Entry.Bytes`, which writes values that
were read. `Write` makes a message with the first, `PeerWrites` is a peer's message
(external; a peer does not write empty arrays), `Forward` puts what was read of a
peer into a message of this program and `ForwardPanics` does so with a bool, which
the second writer does not know.

The recursion of reader and writers is in `PortableStorage`, the arithmetic of sizes
in `VarInt`, which is proved about.

### Node

Entries are taken by name, the last of several wins, and an accessor of another type
than the entry has is a panic: `NodePanics`, `TimedSyncPanics` and `PingPanics` say
when. The accessors are tried on every message that was read, so that panics are
reached from well-formed messages of another kind. `HandshakeMessage` (external) is
what a peer with something to say writes: its own data, the top of its chain, and
peers with addresses of IPv4, IPv6 and of a network that the code does not read;
the message may be taken as it came or after it was forwarded with the untyped
writer. An address is its bytes; their text, which is never empty, is left out.

### Block

A block's bytes are a sequence of fields, each one token; a read at the wrong place
gives another field, any small number if a number was wanted, and zero behind the
end, since the code ignores the reader's errors. `SetBlockData`, `InsertTx` and
`FullfillBlockHeader` may be called in any order and repeatedly; `GetBlocks` calls
each block's once, in the order of the fields in the daemon's answer. The merkle
tree is the code's loops over one array, as recursive functions: `calcMerkleRoot`
gives the array after each round. `Shifted` and `Exponent` are the shift and the bit
length from which the code gets its powers of two. `TreeHash` and `Perfect` define the
root as Monero defines its tree hash, without the array.

## Runs

| Run | Question | Bounds | States |
|---|---|---|---|
| `TxBuilderOrdered` | Does a caller who keeps to the documented order, with failures and retries, send one payment of exactly what was asked, and is it valid? | 2 coins, up to 2 inputs and 3 outputs from requests that are honest, overclaiming, undecodable, without `change_address`; scalars mod 3, amounts mod 5; range proofs of at most 2 outputs; rings that hide the right coin or another | 39 133 |
| `TxBuilderAnyOrder` | What survives calls in any order? | 2 inputs, 2 outputs, enough room to sign up to three times | 278 763 |
| `RctSigning` | Do Monero's equations accept every range proof and every ring signature that is rightly made, and no signature of somebody else's output? | scalars mod 11; up to 2 amounts of 2 bits each, and 3 that do not fit; rings of 1 to 3, the signer anywhere; two values per challenge | 9 096 |
| `TxScan` | Who finds its money, which amounts are added up in which order, with which payment id, however often it parses? | 2 coins, `RingSize` 2; up to 3 outputs of every kind of address and three owners, change included; 2 transactions of Monero's; 4 calls of the parser | 155 417 |
| `InputSelection` | Is every ring sound and its secret member the coin that was asked for, whatever the three daemons know? Does the search end? | ring of 4, 5 attempts; 4 views: a chain of 6 blocks, the same 2 and 4 blocks behind, and a fork; 8 requests; heights 0..7, `Past` 3, `Recent` 1 | 42 046 |
| `DecoyShortChain` | Does the length check admit only chains with a ring in them? (no) | ring of 4, 5 attempts; real index 0..8, newest index 0..7 | violation |
| `RpcClient` | Is success real, are duplicates bounded, does the call come to an end? | 4 daemons, 3 attempts | 14 620 |
| `LevinClient` | Is what is read whole and in order, whatever came before? Does the handshake return, and with its own answer? | 2 goroutines; 2 messages of the peer of its own accord, of 4 kinds; 2 requests; header of 2 bytes, payloads of 0, 1 and 3 | 294 118 |
| `LevinOrder` | Are requests answered in the order received? (no) | as above, only requests from the peer | violation |
| `PortableStorage` | Does the reader recover what either writer and the peer wrote, and do a node and a timed sync hold what the peer said? | every pair of writers; objects, arrays and nested objects of every pair of values; strings of 0, 63 and 64 bytes, hashes of 31 and 32; handshakes with up to 2 peers of 5 kinds | 5 249 |
| `Block` | Is the identifier that of the block, and do transactions keep their hashes, in any order of calls? | 0 to 8 transactions, 1 or 2 miner outputs, 2 insertions, 2 parses; misread numbers 0..2 | 117 453 |
| `BlockEarly` | Is a parsed miner transaction written as it was read? (no) | as above | violation |

Why the bounds are enough. In `TxBuilder` nothing distinguishes a third input
from a second: the loops treat entry i alike, the last mask is the only special
one, and two inputs have a last and one that is not. Three outputs give two
payees and change, and one more than the bound on range proofs. `MaxInputs` is
3, room for the one input of a partial failure and the two of a retry; amounts mod 5 wrap round in reach of the requests;
a scalar field of 3 has non-trivial inverses. The proofs below remove the bounds
for every property of the builder.

In `RctSigning` a proof of two amounts has four bits and so two rounds, one of one
amount has one round: a round that is first, last, or both, and the loop treats all
others alike. `MaxM` is 2, so that three amounts are one more than the limit. In a ring of
three the signer is first, in the middle or last, and the challenge of the first
member comes about at the start, in the middle or at the end. The field is prime and
larger than every amount; every challenge takes two values independently of the
others, so that an equation that is wrong in a challenge would have to hold at both.

In `TxScan` three outputs have a payee before and one behind a subaddress, and a
change; two coins fill the rings of the wire with two signatures; four calls are two
more than a correct use. `MaxOutputs` is 12 because four calls may read three
outputs each. In `InputSelection` the heights lie on both sides of `Past` and of
every view's height, the coin is in block 3 of one chain and 4 of the other, with an
output before it and with others in its block, and two attempts more than the ring
needs let duplicates be drawn. In `RpcClient` there are more daemons than attempts,
so that all attempts may reach different ones.

In `LevinClient` a header of two bytes and payloads of one and three leave a
reader that lost its place at every offset between headers; two requests make an
overlap, and two messages one that is dropped and one that is not, or one that
is not understood and one behind it.

In `PortableStorage` a message has two entries, so that each writer has something
behind it that a wrong length would spoil; longer sizes than two bytes are the
subject of the proof. Two peers are one that is kept and one that is not, or two
that are the same. In `Block` trees of one to nine leaves lie on both sides of
every power of two up to eight.

`TxBuilderAnyOrder` uses a `VIEW` without `hash`, `sent` and `hidden`, and `TxScan` one
without `hidden`: no action reads them, and the properties of these runs do not mention
them, `TypeOK`'s conjuncts about their types apart, which are proved.

`CHECK_DEADLOCK FALSE` is set (but in `Block`, where something may always be given) because
these programs really stop: a caller may make no further call, a panic ends the process, a search or an RPC call
returns.

What each property says is written above it in its module. In short:

* `ImplementsPayment` (a refinement), `SentIsSigned`, `SentVerifies`: in the
  documented order, requests, signed bytes and sent bytes agree, and the result
  verifies exactly if the requests were funded, honest and distinct, and every ring
  hides the coin whose key signs. The builder checks none of the four, so a sound request
  can end in a signature that no one accepts: `RingsHide` is up to the daemons that were
  asked and to the extra field, and `SecretMemberOpens` says when it comes about.
* `PartialFailureIsFatal`: what a daemon's failure half-way through `CalcInputs` leads
  to. A retry adds the inputs again, and `SignTransaction` then indexes `PInputs` out of
  range: the transaction is lost, and nothing wrong is signed.
* `PanicsExplained`: in which calls the documented order can end the program, and on
  which requests: `CalcExtra`, `CalcInputs`, `CalcOutputs` and `SignTransaction`. In
  `CalcInputs` no request is safe; what of it was the daemon's doing and what the
  caller's is in `OutcomeExplained`.
* `OutputsAligned`, `SignedOnceOpens`: what any order of calls preserves.
  The second has the precondition that one signing has filled `InputScalars`:
  after two it does not hold, since the slice is appended to and read from the
  front.
* `RangeProofVerifies`, `FitsOrFails`, `RingCloses`, `SignedVerifies`: the verifier's
  equations hold of what was signed. `RingCloses` also says when they do not: for a
  key or a mask that is not that of the ring's member.
* `ParsesWhatWasSent`: `ParseTx` and `ParseRctSig` invert `Serialize`.
* `ScanFindsPaid`, `EveryPayeeReached`, `RecognisedOpens`, `PaymentIdForLastPayee`:
  exactly which wallets recognise which outputs, with which amounts in their sum, before and after
  the signature has been read, however often it was parsed; a second `ParseTx` before
  `ParseRctSig`, nothing else, puts the reader out of step. With a subaddress among several payees some payee
  cannot recognise its output; the property says for which payee lists.
* `ForeignMissed`: what of Monero's transactions the scan does not see, and that a
  coinbase is not written again as it was read, since its height is left out.
* `RingSound`, `OffsetsRecoverRing`, `Terminates`: the ring, its serialised
  offsets and the signer's secret position, whatever the daemons answered.
* `SecretMemberOpens`, `DecoysAreOld`: what the ring is made of in the eyes of the
  third daemon, if it agrees with the first about the coin, and with the second about
  the blocks that were counted.
* `OutcomeExplained`: every failure and every panic of `writeInput2` has one of the
  causes it names.
* `OkMeansAccepted`, `PostedOnce`, `Ends`: the retry loop. It ends whatever the daemons
  do, by returning or by a panic on an answer without a status.
* `ReadsWholeMessages`, `NothingSkipped`: what `ReadMessage` returns, also after
  errors that leave it out of step; with known commands only, nothing is missed.
* `FramedUnlessOverlap`: the peer loses its place only through two goroutines
  that wrote at the same time, which nothing in the client prevents.
* `NodeIsAnswer`, `HandshakeReturns`: the handshake loop.
* `ReadsOwn`, `ReadsPeers`: the reader inverts both writers. `ReadsOwn` has the
  precondition that hashes have 32 bytes and lists of identifiers are neither empty
  nor too long: the writers drop other values and keep their names.
* `TakesWhatPeerSaid`: the two readers of a peer's list, which differ in what they
  do with a peer they cannot use, agree with what the peer said and never panic on it.
* `IdentifiesBlock`, `RawHasHash`, `PanicsIfReparsed`: what parsing, inserting and
  parsing again do to a block.

Each property has a mutant in `PROJECT.json`: an operator written beside the
definition it replaces and marked `Bug:`, under which the property fails.

**Fairness.** `DecoySelection` and `InputSelection` assume weak fairness of their next
step: the loops run on the caller's goroutine and no iteration blocks but on a daemon,
whose call returns or ends the program (`Ends`, the RPC client's own property). `RpcClient` assumes weak fairness of the
client's steps, not of the daemons': the loop runs on, and `http.Client.Timeout`
ends an attempt. A client made with timeout 0 has no timeout and is excluded.
`LevinClient` assumes weak fairness of the goroutines, and of a connected peer's
reading and answering: the connection has no deadline, so a handshake with a peer
that stays silent never returns. Nothing has to be sent unasked and no connection
has to break.

## Proofs

Proved for every value of the constants that satisfies the named assumptions
(`ScalarAssumption`, `CoinAssumption`, `RequestAssumption`, `HashAssumption`,
`BoundAssumption`, `XmrAssumption`; `SizeAssumption`, `DrawAssumption`, `IndexAssumption`;
`ViewAssumption`, `HeightAssumption` and `InputSelection`'s `RequestAssumption`;
`NodeAssumption`, `RetriesAssumption`; `SizeAssumption` and `MessageAssumption` of
`LevinClient`; `FieldAssumption`, `BaseAssumption`, `SizesAssumption` and
`TransactionAssumption` of `RctSigning` and what it extends; `BlockAssumption` and
`BoundAssumption` of `Block`), which say no more than what types the
constants have, that moduli are positive, that 0 XMR and 0 XMR are 0 XMR, that a ring from the selection has at least
two members, that every block has an output and those of a transaction are numbered
from 0, that a chain is shorter than 2^64 - 100 blocks, that there is a daemon, that a
header and a handshake have bytes, that scalars other than 0, and 8, have an
inverse, that the range proof's bases and the amounts one proof can carry (`MaxM`, a
power of two as in the code) go together, that amounts are below 2^`N`, that a ring on
a wire has a member and a range proof a round, and that there are enough random numbers
for one step.

| Theorem | Module | Establishes |
|---|---|---|
| `TypeCorrect` | `TxProofs` | `Spec => []TypeOK` |
| `OutputsStayAligned` | `TxProofs` | `Spec => []OutputsAligned` |
| `OneSigningOpens` | `TxProofs` | `Spec => []SignedOnceOpens` |
| `SignsWhatWasRequested` | `TxProofs` | `Spec => []SignedAsRequested` |
| `BuilderImplementsPayment` | `TxProofs` | `OrderedSpec => ImplementsPayment` |
| `PartialFailureStaysFatal` | `TxProofs` | `Spec => []PartialFailureIsFatal` |
| `SendsWhatWasSigned` | `TxProofs` | `Spec => []SentIsSigned` |
| `SentIsValid` | `TxProofs` | `Spec => []SentVerifies` |
| `PanicsAreExplained` | `TxProofs` | `Spec => []PanicsExplained` |
| `VarInWritesBytes` | `LevinProofs` | every size below 2^30 is written as bytes |
| `VarIntRoundTrips` | `LevinProofs` | and read back, from as many bytes as its first one says |
| `InputTypeCorrect` | `InputSelectionProofs` | `InputSpec => []InputTypeOK` |
| `InputRingCorrect` | `InputSelectionProofs` | `InputSpec => []RingSound` |
| `InputOffsetsCorrect` | `InputSelectionProofs` | `InputSpec => []OffsetsRecoverRing` |
| `SecretMemberIsRequested` | `InputSelectionProofs` | `InputSpec => []SecretMemberOpens` |
| `DecoysAreSpendable` | `InputSelectionProofs` | `InputSpec => []DecoysAreOld` |
| `OutcomesAreExplained` | `InputSelectionProofs` | `InputSpec => []OutcomeExplained` |
| `Typing` | `LevinProofs` | `Spec => []TypeOK` |
| `HandshakeAnswered` | `LevinProofs` | `Spec => []NodeIsAnswer` |
| `PeerKeepsTrack` | `LevinProofs` | `Spec => []FramedUnlessOverlap` |
| `WholeInOrder` | `LevinProofs` | `Spec => []ReadsWholeMessages` |
| `ReadsEveryMessage` | `LevinProofs` | `Spec => []NothingSkipped` |
| `RingsClose` | `RctSigningProofs` | `Spec => []OpenedVerifies` |
| `SignedBalances` | `RctSigningProofs` | `Spec => []SignedVerifies` |
| `ProofsVerify` | `RctSigningProofs` | `Spec => []RangeProofVerifies` |
| `OnlyTooManyFail` | `RctSigningProofs` | `Spec => []FitsOrFails` |
| `SigningTypes` | `RctSigningProofs` | `Spec => []TypeOK` |
| `Identifies` | `BlockProofs` | `Spec => []IdentifiesBlock` |
| `Panics` | `BlockProofs` | `Spec => []PanicsIfReparsed` |
| `RawsMatch` | `BlockProofs` | `Spec => []RawHasHash` |
| `ParsersInvertSerialize` | `TxProofs` | `ScanSpec => []ParsesWhatWasSent` |
| `OnePublicKeyReaches` | `TxProofs` | `ScanSpec => []EveryPayeeReached` |
| `RecognisedCanBeSpent` | `TxProofs` | `ScanSpec => []RecognisedOpens` |
| `OnlyLastPayeeReadsId` | `TxProofs` | `ScanSpec => []PaymentIdForLastPayee` |
| `ForeignIsMissed` | `TxProofs` | `ScanSpec => []ForeignMissed` |
| `ScanFindsWhatWasPaid` | `TxProofs` | `ScanSpec => []ScanFindsPaid` |
| `SuccessIsReal` | `RpcClientProofs` | `Spec => []OkMeansAccepted` |
| `DuplicatesAreBounded` | `RpcClientProofs` | `Spec => []PostedOnce` |

**Calls in any order** (`TxProofs`). The invariant `AnyOrderInv` is
`TypeOK /\ OutputsAligned /\ SignedOnceOpens` and is inductive as it stands.
Types are needed because `OutputsAligned` speaks of positions of
concatenations; alignment is needed because `CalcOutputs` takes indexes from
`VoutCount`, which only alignment ties to `Len(outputs)`. `OutputsAppended` says
what the output loop appends, `Signed` what one signing leaves; `ScSubAdd` is the
arithmetic that makes a signature open its pseudo output.

**The documented order** (the same module). `OrderInv` says what holds at
each value of `step`; it is stronger than the properties in two places. Before
`CalcInputs` there are no inputs *unless* the step failed half-way, in which case
there are more than a retry could account for: that is why no retry can be signed.
And before `CalcOutputs` there are no outputs *unless* some address does not
decode, in which case every retry fails as well: that is why retried outputs are
never doubled in a transaction that is signed. `SentIsSigned` needs
`OutputsAligned` too, because the prefix is signed from counters and sent from
lengths. These theorems are about `Spec`, in which the caller may leave the order
at any time; the run checks them under `OrderedSpec`, which has fewer behaviours.

**The refinement** (the same module). `OrderedMoves` sorts every step of the
documented order into five kinds: a request of either sort, the fee, signing,
sending, and a step that touches none of what `Payment` sees. `PaymentInv` adds to
`OrderInv` when there are signatures and something sent, and that from the fee on,
inputs equal outputs and fee mod `Mod`. `SignedIsRequested` is the core: at step 7,
one signing makes signatures of which each signs exactly the requests, because inputs
and outputs are the requests' (`OrderInv`) and the amounts of the range proof are
theirs position by position. `SentIsOne` is `SentIsSigned` seen through the mapping:
all signatures are over what is sent, so the set of signed payments has one element.

**The equations of a verifier** (the same module, with `DataTheorems`). `BalanceInv` keeps what one
signing leaves: entry by entry the amounts of the requests, the coins, and masks
whose sum is that of the output masks mod `Q` (`SigningBalances`).
`SentEquations` goes through `Verifies` one conjunct at a time. Two of its
equations are `Funded` and `Honest` seen from the other side: the fee satisfies the sum only mod
`Mod`, and is it exactly if what is left over is an amount (`FeeIsLeft`); a member opens to
the commitment of its coin exactly if the amounts agree, since the masks do
anyway (`SignedOnceOpens`), provided that the member is the coin that signs: this is
`RingsHide`, the equation of the key. Another is `DistinctCoins`, and the rest hold of
whatever is sent.

**Decoy selection** (`InputSelectionProofs`). The invariant adds to the properties what is known of `selected` while
the loop runs (it holds the real index and otherwise indexes below the newest, and
never more than a ring) and that `indxs` agrees with `ring` up to the position summed
so far. The module also proves `TypeCorrect`, `RingCorrect` and `OffsetsCorrect` for
the selection alone.

**Input selection** (`InputSelectionProofs`). `InputInv` ties each value to the view
it came from: the real index is that of the output for the first view (`RealInv`),
the newest that of the block `Recent` ago for the second, with a height that did not
wrap round (`MaxInv`), the members are the third's (`MembersInv`), and `CallInv` says
which of the three has been asked when. `HeightsAsked` and `HeightsRefused` do the
arithmetic of wrapping; `NumberedFromZero` shows that position `vout` of a daemon's
list is output `vout`. The theorems follow from the invariant alone.

**RPC client** (`RpcClientProofs`). The bound on duplicates is not inductive: it
speaks of the daemons that hold the transaction, and a request on its way will add
one. `CopiesInv` bounds both together by the attempts made. `MessagesInv` adds that
between attempts every message is of an earlier one, which keeps a new request
distinct from those still on their way.

**Sizes** (`LevinProofs`). `VarInCases` names quotients and remainders of the three
forms; both theorems follow from it without division.

**The Levin connection** (`LevinProofs`). None of the properties is inductive:
each speaks of what has been read, and what will be read is in the two streams. Three
invariants describe them, one per direction and one for where messages come from.
`ClientMessages` and `PeersOwn` say that a message's number names one message of each
side wherever it turns up, and that every handshake of the peer's answers one that it
has read; `NodeIsAnswer` follows. `PeerFramed` is about the stream to the peer as long as no calls
have overlapped: one goroutine at most is between its two writes (`OneWriter`), what it
wrote last is the header of the message whose payload it still holds (`PendingLast`), and every byte
belongs to a message that is all there or lacks exactly that payload (`FramedAt`).
`ClientInv` is about the stream to the client: bytes of one message are next to one
another and messages ascend, so that a header the client has read is followed by
its payload or by the end (`BodyNext`), and everything returned is older than what is
left (`ReadBefore`). It holds in and out of step. For `NothingSkipped`, `StepInv` adds
where the reader stands while every command is known: at the beginning of the message
behind the last one it took.

**Ring signatures and the balance** (`RctSigningProofs`, with `DataTheorems`). `Walk` is the loop
invariant of `ClsagGen`: there are challenges, one per member, such that the hashes
remember each that was computed as the hash that follows from the one before
(`Linked`). It quantifies over all members at once although the code keeps one
challenge at a time, which is why it has to be a choice of challenges and not a variable; the member
behind the signer has the challenge that was drawn at the start, wherever in the
ring it is. `FinalScalar` closes the circle, by an identity between points that is
proved coefficient by coefficient (`Closes`). `Kept` carries signed inputs through the
signing of the others, since hashes are only added. `Balanced` is what the signatures do
not depend on: `calculatePseudoOuts` chooses the last mask so that the masks of both
sides have the same sum. A sum is the folding of a finite set in whatever order `CHOOSE` takes;
`DataTheorems` shows that every order gives the same (`IterRemove`), and that sums are linear.

**The range proof** (`BulletproofProofs`, then `RctSigningProofs`). `BppInv` follows
`createBulletproofPlus` through its stages. Behind `BppStart`, `A` holds the bits of the
amounts (`BitsHeld`), and what was hashed so far are the commitments. Between two rounds,
the vectors *stand for* a point: the sum of `a[k]*g[k] + b[k]*h[k]`, of `alpha1*G` and of the
inner product of `a` and `b`, weighted by powers of y, on `H`. `StandFor` says, base by
base, that this point is the one the verifier computes from `A` and the commitments
(`StartPoint`) with `e^2*L + e^-2*R` of every round that is done; `ChainOf` that the
challenges of those rounds follow from one another by hashes that were computed, and
`BasesAre` that each base that is left is the sum of original bases, each with a product
of challenges or their inverses that depends on the binary digits of its position
(`FactorsOf`). This has to be in the invariant because the prover folds the bases and the
verifier never does: it multiplies each original base by its factor at the end. One round keeps it
because what folding changes is what L and R add (section "A round"). The first vectors
stand for the start because an amount below 2^`N` is the sum of its bits, and because the
weights of the bits, z^2j * 2^i, are the ones the commitments are multiplied by; the padding
to a power of two stands for nothing. The last step replaces vectors of length one by
`r1`, `s1` and `d1`, and its equation, base by base, is the verifier's (`SidesAgree`).
`InvVerifies` then shows that the verifier, who looks the challenges up in the hashes,
finds those of the invariant. Nothing is assumed about the challenges but that they are
not zero, nor about the number of rounds.

**What is sent and parsed** (`TxProofs`). `ScanInv` is the builder's invariants with
`KeyInv` and `ReceiverInv`; the latter says that a receiver who has parsed once holds the
value of the parsers on the bytes that were sent. The work is then about one wire: each
reader of a field takes what its writer put there and leaves the rest (`PrefixParsed`,
`SignaturesParsed`), and a loop that reads n entries takes the n that `FlattenSeq` laid one behind the
other (`FlattenPeels`). `KeyInv` says which public key is in the extra field, and that
every output was made with the derivation of the same secret. What a wallet recognises
follows from the free algebra of `TxKeys` alone: two derivations are the same if and only
if they multiply the same secrets (`KeysAgree`, `RecognisesIf`).

**What Monero sends** (the same module). `ForeignInv` says of which address a foreign
transaction is, and what the parsers have made of it. The wire of a payment with additional
keys has the form that `PrefixParsed` and `SignaturesParsed` read. That of a coinbase ends
behind the type of its signature, and everything `ParseRctSig` reads from there on is read
behind the end: `Stays` is the invariant of a reader that can find nothing more, kept by
every reader of a field (`FieldKeeps`), of a thing (`ItemsExist`) and of many (`ItemsStay`),
from which the signature has type 0 and lists that can be written (`NullSigned`).

**Parsed any number of times** (the same module). `WireInv` says what the calls have made
of the receiver's object: by how often `ParseTx` was called and whether `ParseRctSig` came
behind one or two of these calls, `RingHolds` gives its fields (`RingParsed`,
`RingSigned`). As long as it is in step, the first outputs are those that were sent and
each further one is a copy of one of them, and the signatures are read or not; once it is
out of step it stays so. It gets there because the amounts are read by the outputs there
are, not by those there were: the first one too many is taken from the first hash
(`HashIsNoAmount`, `EcdhOverrun`, `Derails`). The object of a coinbase is never out of step
(`CoinMoves`), since everything missing is read behind the end. The scan then finds no copy,
because a one-time key contains its index, and of the outputs themselves those of `PaidTo`
(`PaidIs`, from `KeysAgree`); the totals are equal, however sums round, because the same
numbers are added in the same order (`ParsedScans`), and nothing if the numbers are
nothing (`TotalOfNothing`).
TLC has not checked `WireInv`, which ranges over values without a bound, but checks what
follows from it.

**Blocks** (`BlockProofs`). `BlockIsLaid` states at which position every field of a
block is, from which `ParseIs` says what one parse takes and appends; `Held` keeps
that the bytes are those of one block, `ParsedOnce` and `Appended` what is there after one
and after any number of parses, and `InOrder` pairs bytes with hashes. The merkle tree
is `MerkleRootIs`: the array after each round of pairing holds, in its first cells, the
hashes of perfect trees over consecutive leaves (by induction over the rounds), and the
first pass over the last leaves leaves a power of two of them. It holds for
every number of leaves; the run has up to nine.

TLC has checked each of these invariants (`AnyOrderInv`, `OrderInv`, `PaymentInv`,
`BalanceInv`, `KeyInv`, `ScanInv`, `InputInv`, `IndInv`, `ClientInv`, `StepInv`, `SignInv`,
`BlockInv`) on the
instance of its component's run, by a module that extends the instance and the proofs.

**Induction.** The induction theorems of the library take an operator as a parameter,
which the provers cannot instantiate. `DataTheorems` does without: `Induct` is about a
*set* of numbers that holds 0 and the successors of its members, and
`InductSubsets` about a set of finite sets. To show that a recursive function
`f[i \in 0..n]` has the value its definition says, a proof shows by `Induct` that a
function with these values exists for every `n`; `CHOOSE` then gives one. `Recursion` does
this once and for all for functions on an interval or on all numbers whose step is itself a function.

Only model-checked:

* Of `RingCloses`, that a ring whose member the signer cannot open does *not* close:
  it is not so in general, since a hash may have the one value that closes it, and
  holds in the run for the challenges it draws.
* `PortableStorage` and `Node`, whose reader and writers are `RECURSIVE` operators.
* Liveness, which is out of this prover's reach: `Terminates`, `Ends`,
  `HandshakeReturns`.

## Findings

1. `types/gamma_selector.go:183` accepts a chain with `max + 1 = ringSize`
   although the newest index `max` is never drawn. When the real output is older
   than `max`, at most `ringSize - 1` indexes can be collected: the loop makes its
   10 000 attempts and fails, where the check was to say "not enough outputs" at
   once. Run `DecoyShortChain`.
2. `levin/client.go:151`: requests that arrive during the handshake are dropped and
   never answered, against `levin/levin.go:138` ("peers must respond to requests w/
   this flag in the same order as received"). Run `LevinOrder`.
3. `types/block.go:89` reads a view tag behind every miner output, whatever its type;
   `types/block.go:203` writes one for tagged outputs only. Blocks with `TxOutToKey`
   outputs are misread from there on. Run `BlockEarly`.

Seen while modelling, without a run of their own:

* `rpc/core.go:26`: with `retriesCount` 0 no attempt is made and the call fails with a
  nil cause; `test/transaction_test.go:19` makes such a client and expects an answer.
* `levin/client.go:204` compares no length with `LevinPacketMaxDefaultSize`, against
  `levin/levin.go:125` ("messages >100MB are rejected").
* The branch of `Entry.Bytes` that writes arrays (`levin/portable_storage.go:139`) is
  never reached, because the case at line 125 takes every list, so that `Forward`
  writes objects for arrays.
* More than 510 block identifiers need a size of four bytes and are written as nothing
  (`levin/boost.go:146`).
* `util/crypto.go:407-409` takes the number of additional keys for a length in bytes:
  `ParseTxExtra` fails on nearly every transaction that has them (`ForeignMissed`).
* A coinbase is found by `CheckOutputs` and counted as zero (`ForeignMissed`), and its
  hash is computed without the height of its input (`ForeignMissed`).
* `ParseTx` called twice puts `ParseRctSig` out of step (`ScanFindsPaid`).
* Nothing in `writeInput2` compares the key a daemon returns for the secret position
  with the one that was derived (`SecretMemberOpens`): daemons on different forks, or
  an extra field of another transaction, give a signature that no one accepts.
* The total of a scan is a sum of float64 numbers (`types/tx.go:253`, 307), and converting
  it back cuts off the fraction (`util/crypto.go:517`): outputs of 0.7 and 0.1 XMR come to
  0.7999999999999999 XMR, one atomic unit less than was paid.
* `SendRawTransaction` ignores the error of `FromJson` and asserts that there is a status
  (`rpc/client.go:220`, 236): an answer with HTTP status 200 that is no JSON ends the program.
* An extra field without a public key gives `ParseTxExtra` no error and the conversion of a
  nil slice to a key a panic (`types/tx2.go:256`), where `OutcomeExplained` has it.
* `levin/boost.go:217` says that each number of a uint64 array is written as a varint; the
  code below it writes eight bytes, which is what `PortableStorage` has and its reader takes.
* An answer without a list, as daemons give for a transaction they do not have, ends
  the program (`rpc/client.go:92`), before `gamma_selector.go`'s "transaction not
  found" could be said (`OutcomeExplained`).

## Not modelled

* The limbs of field elements, the constant tables and the group law of
  `util/edwards25519.go` and `util/const.go`: 255-bit arithmetic is out of a model
  checker's reach. What they promise is modelled twice, as sets of secrets in `TxKeys`
  and as vectors over a small field in `RctGroup`.
* Challenges that are zero: they have negligible probability in the real field and not
  in a small one, and the code does nothing about them.
* What a reader that is out of step reads in `TxWire`, beyond that it is. (In
  `PortableStorage` and `Block` it is modelled.)
* Requests that lack a field or have one of another type (a panic in `writeInput2` and
  `writeOutput2` alike), and extra fields, addresses or keys that do not decode, beyond
  what `Requests` and `OutputRequests` name.
* What converting one amount to float64 loses, which is nothing below about 2^53 atomic
  units: `RecognisedOpens` is about the amount before it is converted.
* A Levin payload that looks like a header: `IsHeader` tells them apart, since the payloads
  are data of the model.
* Ring signature types other than 0 and 6: the builder writes the second.
* `GetBlocks`, `GetHeight` and `GetFeeEstimate` of the RPC client as calls of their
  own: they ask once and keep nothing. What `GetBlocks` does with a block is in `Block`.
* Base58, hashing to points, JSON requests (`rpc/universal.go`) and JSON shapes
  (`types/serializer.go`), logging, the wording of errors: no state, and no property
  is about them.
* The distribution of decoys.
* Daemons and peers, beyond what the clients rely on.

## Plan

Done: every component of the inventory but the curve arithmetic and the JSON shapes;
the refinement of `Payment`; the proofs above, among them every safety property of the
builder, the scan, the input selection, the range proof, the Levin connection, the RPC
client and the block. Next:

1. Digit recodings of scalars (`GeScalarMult`, `slide`) and base58 blocks as pure
   operators against their definitions.
2. `PortableStorage` with recursive functions in place of `RECURSIVE` operators, so that
   `ReadsOwn` and `ReadsPeers` can be proved.
