---------------------------- MODULE MCPageSearch ----------------------------
(* Small instances of PageSearch for TLC. *)
EXTENDS PageSearch

SomeNums == 1..4
=============================================================================
