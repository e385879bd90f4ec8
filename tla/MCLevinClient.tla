---------------------------- MODULE MCLevinClient ----------------------------
(* TLC's instances of LevinClient: a header of two bytes, so that payloads of   *)
(* one byte leave a reader between headers.                                     *)
EXTENDS LevinClient

MCRequests == {[command |-> "TimedSync", length |-> 1],
               [command |-> "NotifyRequestChain", length |-> 0]}

message(command, length, expects) == [command |-> command, length |-> length, expects |-> expects]

\* A request, notifications and a command the client does not know.
MCPeerMessages == {message("TimedSync", 1, TRUE), message("NotifyRequestChain", 0, FALSE),
                   message("NotifyRequestChain", 3, FALSE), message("unknown", 1, FALSE)}

\* A request that wants an answer, which is what a peer may send during a handshake.
MCPeerRequests == {message("TimedSync", 1, TRUE)}
=============================================================================
