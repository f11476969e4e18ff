--------------------------- MODULE MCMinerServer ---------------------------
(* Small instances of MinerServer for TLC. *)
EXTENDS MinerServer, TLC

CONSTANTS big, small

\* The name of board small occurs in the urls of board big.
MCMatches == [b \in Boards |-> IF b = big THEN {big, small} ELSE {small}]

MCMaxDocs == [b \in Boards |-> IF b = big THEN 2 ELSE 1]

\* One that is mirrored or not, one that never is.
MCAskedIds == {-1, 0}

ConnSymmetry == Permutations(Conns)
=============================================================================
