-------------------------- MODULE MCDecoySelection --------------------------
(* TLC's instances of DecoySelection. *)
EXTENDS DecoySelection

\* Chains shorter than, as long as and longer than the ring; real outputs old,
\* newest and newer than the daemon's newest.
MCMaxIndexes  == 0 .. 7
MCRealIndexes == 0 .. 8
=============================================================================
