------------------------------- MODULE MCCall -------------------------------
(***************************************************************************)
(* An instance of Call for TLC.                                            *)
(***************************************************************************)
EXTENDS Call

CONSTANTS h1, h2, m1, m2

\* The caller has one interface, the callee one.
MCHosts == [p \in Peers |-> IF p = "caller" THEN <<h1>> ELSE <<h2>>]

MCMapped == [p \in Peers |-> IF p = "caller" THEN m1 ELSE m2]
=============================================================================
