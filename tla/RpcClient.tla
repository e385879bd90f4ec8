------------------------------ MODULE RpcClient ------------------------------
(* SendRawTransaction of rpc/client.go over the retry loop of rpc/core.go.     *)
(*                                                                             *)
(* cycleCall posts the request to a daemon picked at random, once per attempt, *)
(* until one answers with HTTP status 200.  Timing out gives up an attempt, not *)
(* the request: it may reach the daemon later, and have been carried out       *)
(* before.  The daemons are not part of the repository; all that is assumed of *)
(* them is that a daemon answers "ok" only after taking the transaction into   *)
(* its pool.                                                                   *)
EXTENDS Integers, FiniteSets

CONSTANTS
    Nodes,          \* hostList, or the list of const.go
    RetriesCount    \* retriesCount

ASSUME NodeAssumption    == Nodes # {}
ASSUME RetriesAssumption == RetriesCount \in Nat

VARIABLES
    phase,      \* where the call is: between attempts, in one, returned, or panicked
    try,        \* loop variable: attempts that have failed
    posted,     \* requests on their way to a daemon: [try, node]
    answers,    \* answers on their way to the client: [try, kind]
    pool,       \* the daemons that hold the transaction
    result      \* what SendRawTransaction returned

vars == <<phase, try, posted, answers, pool, result>>

\* 200 with status "OK", 200 with another status ("BUSY", "Failed"), 200 with no
\* JSON or no string as status, not 200.
AnswerKinds == {"ok", "notOk", "noStatus", "httpError"}
Results     == {"none", "ok", "notOk", "failed"}

-----------------------------------------------------------------------------
Init ==
    /\ phase = "loop" /\ try = 0
    /\ posted = {} /\ answers = {} /\ pool = {}
    /\ result = "none"

\* call: getRandomDaemonNode and Post.
Post ==
    /\ phase = "loop"
    /\ try < RetriesCount
    /\ \E node \in Nodes : posted' = posted \cup {[try |-> try, node |-> node]}
    /\ phase' = "waiting"
    /\ UNCHANGED <<try, answers, pool, result>>

\* Bug: the attempt is not counted.
NextTry_NotCounted == phase' = "loop" /\ UNCHANGED try

\* call returned an error: the loop goes on after a sleep.
NextTry == try' = try + 1 /\ phase' = "loop"

\* The timeout of the HTTP client, a connection refused or a body cut short.
AttemptFails ==
    /\ phase = "waiting"
    /\ NextTry
    /\ UNCHANGED <<posted, answers, pool, result>>

HttpError ==
    /\ phase = "waiting"
    /\ [try |-> try, kind |-> "httpError"] \in answers
    /\ NextTry
    /\ UNCHANGED <<posted, answers, pool, result>>

\* Bug: the status field is not looked at.
Answered_AnyStatus ==
    /\ phase = "waiting"
    /\ \E kind \in {"ok", "notOk"} : [try |-> try, kind |-> kind] \in answers
    /\ result' = "ok"
    /\ phase' = "returned"
    /\ UNCHANGED <<try, posted, answers, pool>>

\* Status 200 ends the loop; SendRawTransaction looks at the status field.
Answered ==
    /\ phase = "waiting"
    /\ \E kind \in {"ok", "notOk"} :
          /\ [try |-> try, kind |-> kind] \in answers
          /\ result' = kind
    /\ phase' = "returned"
    /\ UNCHANGED <<try, posted, answers, pool>>

\* The error of FromJson is ignored, and the status is asserted to be a string:
\* the program ends.
Panics ==
    /\ phase = "waiting"
    /\ [try |-> try, kind |-> "noStatus"] \in answers
    /\ phase' = "panicked"
    /\ UNCHANGED <<try, posted, answers, pool, result>>

\* "failed after %d attempts"
GiveUp ==
    /\ phase = "loop"
    /\ try >= RetriesCount
    /\ result' = "failed"
    /\ phase' = "returned"
    /\ UNCHANGED <<try, posted, answers, pool>>

\* A daemon handles a request, whether or not the client still waits for it.  An
\* answer other than "ok" says nothing of what it did with the transaction.
Handle(request) ==
    \E kind \in AnswerKinds :
        /\ posted' = posted \ {request}
        /\ pool' \in {pool, pool \cup {request.node}}
        /\ kind = "ok" => request.node \in pool'
        /\ answers' = answers \cup {[try |-> request.try, kind |-> kind]}
        /\ UNCHANGED <<phase, try, result>>

Client == Post \/ AttemptFails \/ HttpError \/ Answered \/ Panics \/ GiveUp
Next   == Client \/ \E request \in posted : Handle(request)

Spec == Init /\ [][Next]_vars

\* The loop runs on, and an attempt that stays unanswered times out: every client
\* has a timeout in the tests, and http.Client ends an attempt after it.
FairSpec == Spec /\ WF_vars(Client)

-----------------------------------------------------------------------------
TypeOK ==
    /\ phase \in {"loop", "waiting", "returned", "panicked"}
    /\ try \in 0 .. RetriesCount
    /\ posted \subseteq [try : 0 .. RetriesCount - 1, node : Nodes]
    /\ answers \subseteq [try : 0 .. RetriesCount - 1, kind : AnswerKinds]
    /\ pool \subseteq Nodes
    /\ result \in Results

\* Success is never reported for a transaction no daemon holds, even when answers
\* of earlier attempts arrive late and in another order.
OkMeansAccepted == result = "ok" => pool # {}

\* A transaction reaches the daemons at most RetriesCount times, however late they
\* handle the requests: each attempt is one request to one daemon, and what is
\* still on its way belongs to an attempt that has been made.
PostedOnce ==
    /\ \A p, q \in posted : p.try = q.try => p = q
    /\ \A p \in posted, a \in answers : p.try # a.try
    /\ \A m \in posted \cup answers : m.try < RetriesCount /\ m.try <= try
    /\ Cardinality(pool) <= RetriesCount

\* SendRawTransaction comes to an end, however the daemons are silent, late or
\* refuse: it returns, unless a daemon's answer to the attempt it is in has status
\* 200 and no status field that is a string, at which the program may panic.
Ends ==
    <>(\/ phase = "returned"
       \/ phase = "panicked" /\ [try |-> try, kind |-> "noStatus"] \in answers)
=============================================================================
