-------------------------- MODULE MCBoardListener --------------------------
(* Small instances of BoardListener for TLC. *)
EXTENDS BoardListener, TLC

ThreadSymmetry == Permutations(Threads)
=============================================================================
