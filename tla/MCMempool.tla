----------------------------- MODULE MCMempool ------------------------------
(* Values of the constants of MempoolMachine for TLC. *)
EXTENDS MempoolMachine

CONSTANTS t1, t2, t3, t4

=============================================================================
