----------------------------- MODULE MCAnalyst -----------------------------
(* Small instances of Analyst for TLC. *)
EXTENDS Analyst

SomeWeights == {-1, 1}
=============================================================================
