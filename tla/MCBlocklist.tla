---------------------------- MODULE MCBlocklist ----------------------------
(* Instances of Blocklist for TLC. *)
EXTENDS Blocklist, TLC

CONSTANTS b1, b2

\* Two blocks of different length.
ShortAndLong == [o \in BlockOp |-> IF o = b1 THEN 1 ELSE 2]

\* No node is special.
Nodes == Permutations(Node)
=============================================================================
