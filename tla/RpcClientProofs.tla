--------------------------- MODULE RpcClientProofs ---------------------------
(* Proofs about RpcClient, for any number of daemons and any retry count.       *)
EXTENDS RpcClient, FiniteSetTheorems, TLAPS

-----------------------------------------------------------------------------
(* The inductive invariant, by what it speaks of.                              *)

\* A message belongs to an attempt that has been made, a request to no other, and
\* an attempt has an answer only once its request has been handled.
MessagesInv ==
    /\ \A p, q \in posted : p.try = q.try => p = q
    /\ \A p \in posted, a \in answers : p.try # a.try
    /\ \A m \in posted \cup answers : m.try < RetriesCount /\ m.try <= try
    /\ phase = "loop" => \A m \in posted \cup answers : m.try < try

\* A daemon says "ok" only of a transaction it holds, and none gives it up.
PoolInv ==
    /\ \A a \in answers : a.kind = "ok" => pool # {}
    /\ result = "ok" => pool # {}

\* Every copy of the transaction, with a daemon or on its way, is from an attempt.
Copies == Cardinality(pool) + Cardinality(posted)

CopiesInv ==
    /\ IsFiniteSet(pool) /\ IsFiniteSet(posted)
    /\ Copies <= RetriesCount
    /\ phase = "loop" => Copies <= try
    /\ phase = "waiting" => Copies <= try + 1 /\ try < RetriesCount

IndInv == TypeOK /\ MessagesInv /\ PoolInv /\ CopiesInv

-----------------------------------------------------------------------------
LEMMA CopiesIsNumber ==
    ASSUME CopiesInv
    PROVE  Cardinality(pool) \in Nat /\ Cardinality(posted) \in Nat
BY FS_CardinalityType DEF CopiesInv

LEMMA InitInv == Init => IndInv
<1> SUFFICES ASSUME Init PROVE IndInv
  OBVIOUS
<1>1. TypeOK
  BY RetriesAssumption DEF Init, TypeOK, Results
<1>2. MessagesInv /\ PoolInv
  BY DEF Init, MessagesInv, PoolInv
<1>3. CopiesInv
  BY RetriesAssumption, FS_EmptySet DEF Init, CopiesInv, Copies
<1> QED BY <1>1, <1>2, <1>3 DEF IndInv

LEMMA PostStep ==
    ASSUME IndInv, Post
    PROVE  IndInv'
<1>1. /\ phase = "loop" /\ try < RetriesCount /\ phase' = "waiting"
      /\ try' = try /\ answers' = answers /\ pool' = pool /\ result' = result
      /\ \E node \in Nodes : posted' = posted \cup {[try |-> try, node |-> node]}
  BY DEF Post
<1>2. PICK node \in Nodes : posted' = posted \cup {[try |-> try, node |-> node]}
  BY <1>1
<1> DEFINE request == [try |-> try, node |-> node]
<1>3. TypeOK'
  BY <1>1, <1>2, RetriesAssumption DEF IndInv, TypeOK
<1>4. \A m \in posted \cup answers : m.try < try
  BY <1>1 DEF IndInv, MessagesInv
<1>5. try \in Nat /\ \A m \in posted \cup answers : m.try \in Nat
  BY RetriesAssumption DEF IndInv, TypeOK
<1>6. MessagesInv'
  BY <1>1, <1>2, <1>4, <1>5, RetriesAssumption DEF IndInv, MessagesInv
<1>7. PoolInv'
  BY <1>1 DEF IndInv, PoolInv
<1>8. request \notin posted
  BY <1>4, <1>5
<1>9. IsFiniteSet(posted') /\ Cardinality(posted') = Cardinality(posted) + 1
  BY <1>2, <1>8, FS_AddElement DEF IndInv, CopiesInv
<1>10. CopiesInv'
  BY <1>1, <1>5, <1>9, CopiesIsNumber, RetriesAssumption DEF IndInv, CopiesInv, Copies
<1> QED BY <1>3, <1>6, <1>7, <1>10 DEF IndInv

\* AttemptFails and HttpError.
LEMMA NextTryStep ==
    ASSUME IndInv, phase = "waiting", NextTry, UNCHANGED <<posted, answers, pool, result>>
    PROVE  IndInv'
<1>1. phase' = "loop" /\ try' = try + 1
  BY DEF NextTry
<1>2. try \in Nat /\ try < RetriesCount /\ Copies <= try + 1
  BY DEF IndInv, TypeOK, CopiesInv
<1>3. TypeOK'
  BY <1>1, <1>2, RetriesAssumption DEF IndInv, TypeOK
<1>4. \A m \in posted \cup answers : m.try \in Nat
  BY DEF IndInv, TypeOK
<1>5. MessagesInv'
  BY <1>1, <1>2, <1>4 DEF IndInv, MessagesInv
<1>6. PoolInv' /\ CopiesInv'
  BY <1>1, <1>2 DEF IndInv, PoolInv, CopiesInv, Copies
<1> QED BY <1>3, <1>5, <1>6 DEF IndInv

\* Answered, Panics and GiveUp.
LEMMA ReturnStep ==
    ASSUME IndInv, Answered \/ Panics \/ GiveUp
    PROVE  IndInv'
<1>1. /\ phase' \in {"returned", "panicked"} /\ UNCHANGED <<try, posted, answers, pool>>
      /\ result' \in Results
      /\ result' = "ok" => result = "ok" \/ [try |-> try, kind |-> "ok"] \in answers
  BY DEF Answered, Panics, GiveUp, Results, IndInv, TypeOK
<1>2. TypeOK' /\ MessagesInv' /\ CopiesInv'
  BY <1>1 DEF IndInv, TypeOK, MessagesInv, CopiesInv, Copies
<1>3. PoolInv'
  BY <1>1 DEF IndInv, PoolInv
<1> QED BY <1>2, <1>3 DEF IndInv

LEMMA HandleStep ==
    ASSUME IndInv, NEW request \in posted, Handle(request)
    PROVE  IndInv'
<1>1. PICK kind \in AnswerKinds :
        /\ posted' = posted \ {request}
        /\ pool' \in {pool, pool \cup {request.node}}
        /\ kind = "ok" => request.node \in pool'
        /\ answers' = answers \cup {[try |-> request.try, kind |-> kind]}
        /\ phase' = phase /\ try' = try /\ result' = result
  BY DEF Handle
<1>2. request.try \in 0 .. RetriesCount - 1 /\ request.node \in Nodes
  BY DEF IndInv, TypeOK
<1>3. TypeOK'
  BY <1>1, <1>2 DEF IndInv, TypeOK
<1>4. MessagesInv'
  <2>1. \A p \in posted' : p.try # request.try
    BY <1>1 DEF IndInv, MessagesInv
  <2>2. \A p, q \in posted' : p.try = q.try => p = q
    BY <1>1 DEF IndInv, MessagesInv
  <2>3. \A p \in posted', a \in answers' : p.try # a.try
    BY <1>1, <2>1 DEF IndInv, MessagesInv
  <2>4. \A m \in posted' \cup answers' : \E n \in posted \cup answers : m.try = n.try
    BY <1>1
  <2>5. \A m \in posted' \cup answers' : m.try < RetriesCount /\ m.try <= try
    BY <2>4 DEF IndInv, MessagesInv
  <2>6. phase = "loop" => \A m \in posted' \cup answers' : m.try < try
    BY <2>4 DEF IndInv, MessagesInv
  <2> QED BY <1>1, <2>2, <2>3, <2>5, <2>6 DEF MessagesInv
<1>5. PoolInv'
  BY <1>1 DEF IndInv, PoolInv
<1>6. CopiesInv'
  <2>1. IsFiniteSet(posted') /\ Cardinality(posted') = Cardinality(posted) - 1
    BY <1>1, FS_RemoveElement DEF IndInv, CopiesInv
  <2>2. /\ IsFiniteSet(pool')
        /\ Cardinality(pool') \in {Cardinality(pool), Cardinality(pool) + 1}
    BY <1>1, FS_AddElement DEF IndInv, CopiesInv
  <2>3. Copies' <= Copies
    BY <2>1, <2>2, CopiesIsNumber DEF IndInv, Copies
  <2>4. Copies \in Int /\ Copies' \in Int /\ try \in Nat
    BY <2>1, <2>2, CopiesIsNumber DEF IndInv, Copies, TypeOK
  <2> QED BY <1>1, <2>1, <2>2, <2>3, <2>4, RetriesAssumption DEF IndInv, CopiesInv
<1> QED BY <1>3, <1>4, <1>5, <1>6 DEF IndInv

LEMMA NextInv == IndInv /\ [Next]_vars => IndInv'
<1> SUFFICES ASSUME IndInv, [Next]_vars PROVE IndInv'
  OBVIOUS
<1>1. CASE Post
  BY <1>1, PostStep
<1>2. CASE AttemptFails \/ HttpError
  BY <1>2, NextTryStep DEF AttemptFails, HttpError
<1>3. CASE Answered \/ Panics \/ GiveUp
  BY <1>3, ReturnStep
<1>4. CASE \E request \in posted : Handle(request)
  BY <1>4, HandleStep
<1>5. CASE UNCHANGED vars
  BY <1>5 DEF vars, IndInv, TypeOK, MessagesInv, PoolInv, CopiesInv, Copies
<1> QED BY <1>1, <1>2, <1>3, <1>4, <1>5 DEF Next, Client

LEMMA Invariance == Spec => []IndInv
BY InitInv, NextInv, PTL DEF Spec

-----------------------------------------------------------------------------
\* The variables keep their types; in particular no more attempts are made than
\* the retry count allows.
THEOREM TypeCorrect == Spec => []TypeOK
<1>1. IndInv => TypeOK
  BY DEF IndInv
<1> QED BY <1>1, Invariance, PTL

\* Success is reported only for a transaction some daemon holds, however answers
\* are delayed past the attempt they belong to.
THEOREM SuccessIsReal == Spec => []OkMeansAccepted
<1>1. IndInv => OkMeansAccepted
  BY DEF IndInv, PoolInv, OkMeansAccepted
<1> QED BY <1>1, Invariance, PTL

\* For any number of daemons, at most RetriesCount come to hold the transaction,
\* however late they handle the requests of attempts that were given up.
THEOREM DuplicatesAreBounded == Spec => []PostedOnce
<1>1. IndInv => PostedOnce
  <2> SUFFICES ASSUME IndInv PROVE PostedOnce
    OBVIOUS
  <2>1. Cardinality(pool) <= RetriesCount
    BY CopiesIsNumber, RetriesAssumption DEF IndInv, CopiesInv, Copies
  <2> QED BY <2>1 DEF IndInv, MessagesInv, PostedOnce
<1> QED BY <1>1, Invariance, PTL
=============================================================================
