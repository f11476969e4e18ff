------------------------------ MODULE MCCache ------------------------------
(* Small instances of Cache for TLC. *)
EXTENDS Cache, TLC

CONSTANTS u0, u1, u2, u3

MCUrls == {u0, u1, u2, u3}
MCUrl == [i \in Ids |-> CASE i = 0 -> u0 [] i = 1 -> u1 [] i = 2 -> u2 [] OTHER -> u3]
MCNum == [u \in Urls |-> CASE u = u0 -> 10 [] u = u1 -> 20 [] u = u2 -> 30 [] u = u3 -> 40]

\* Two deleted articles share the placeholder of the article before them.
DupUrls == {u0, u1, u2}
DupUrl == [i \in Ids |-> IF i <= 1 THEN u0 ELSE u2]

ReaderSymmetry == Permutations(Readers)
=============================================================================
