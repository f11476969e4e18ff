----------------------------- MODULE MCStorage -----------------------------
(* Small instances of Storage for TLC. *)
EXTENDS Storage, TLC

CONSTANTS new, fill

\* Any thread of the board listener may come to add any document.
All == [a \in Adders |-> Ids]

\* One adds from the newest down, one from the oldest, and they meet.
Meeting == [a \in Adders |-> IF a = new THEN 1..MaxId ELSE 0..(MaxId - 1)]

AddersAlike == Permutations(Adders)

InOrder == [i \in Ids |-> 10 * i]
=============================================================================
