---------------------------- MODULE MCAccounting ----------------------------
(* Instances of Accounting for TLC. *)
EXTENDS AccountingImplements, TLC

CONSTANTS n1, n2, k1, k2, h1, h2, h3

\* Which entity each hit belongs to: all to one; the bulk record h2 to another.
OneKey  == [h \in Hit |-> k1]
TwoKeys == [h \in Hit |-> IF h = h2 THEN k2 ELSE k1]

\* A ring that gives every key to n2 whenever n2 is a member: its arrival moves
\* all the counters of n1, and a batch for n2 can hold several entries.
Last ==
    [S \in (SUBSET Node) \ {{}} |->
        [k \in Key |-> IF n2 \in S THEN n2 ELSE CHOOSE n \in S : TRUE]]

\* What memberlist reports: nobody (memberlist is not yet created), n1 alone or
\* everybody, in any order; n1 alone or everybody; always everybody.
Views       == {{}, {n1}, Node}
ViewsFlap   == {{n1}, Node}
ViewsStable == {Node}

\* The requests for one key are interchangeable (the bulk record h2 is not).
Requests == Permutations({h1, h3})
=============================================================================
