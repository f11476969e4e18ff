---------------------------- MODULE MCAppClient ----------------------------
(* Small instances of AppClient for TLC. *)
EXTENDS AppClient, TLC

NameSymmetry == Permutations(Names)
=============================================================================
