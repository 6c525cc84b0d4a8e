---------------------------- MODULE MCLifecycle -----------------------------
(* Instances for TLC of what a process does when it starts and when it      *)
(* stops: Handover (Execute and the handover of counters) and Membership    *)
(* (Joining: JoinCluster).  The two share no state here, so a behaviour      *)
(* moves one of them, the one `focus` names.  In its initial state neither  *)
(* has a fair step enabled, so the one that rests fulfils its fairness.     *)
EXTENDS Handover, Joining

CONSTANTS a, b, c, key, h1, h2

VARIABLE focus

\* One key, whose owner is a, or else c, or else b.
OneKey == [h \in Hit |-> key]
AThenC ==
    [S \in (SUBSET Node) \ {{}} |->
        [k \in Key |-> IF a \in S THEN a ELSE IF c \in S THEN c ELSE b]]

\* One node leaves while another starts; two leave together; one leaves while
\* two hits of one key arrive, and every batch is full.
Case(starting, leaving, hits, size) ==
    [starting |-> starting, leaving |-> leaving, hits |-> hits, maxBatchSize |-> size]
Cases == {Case({c}, {a}, {h1}, 2), Case({}, {a, b}, {h1}, 2), Case({}, {a}, {h1, h2}, 1)}
LeaveTogether == {Case({}, {a, b}, {h1}, 2)}

membership == <<members, pc, peers, joined, ready, blocks, inbox, synced, excused, crashes>>

MCInit == focus \in {"handover", "membership"} /\ Init /\ M!Init

MCNext ==
    /\ UNCHANGED focus
    /\ \/ focus = "handover" /\ Next /\ UNCHANGED membership
       \/ focus = "membership" /\ M!Next /\ UNCHANGED vars

MCSpec == MCInit /\ [][MCNext]_<<focus, vars, membership>> /\ Fairness /\ M!Fairness
=============================================================================
