---------------------------- MODULE MCFirstMiner ----------------------------
(* Small instances of FirstMiner for TLC. *)
EXTENDS FirstMiner

CONSTANTS t1, t2
=============================================================================
