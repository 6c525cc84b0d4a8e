---------------------------- MODULE RateLimiter -----------------------------
(***************************************************************************)
(* What a cluster promises, as one central limiter: every hit is accepted  *)
(* or refused, an accepted hit counts once until it is forgotten, and an    *)
(* entity is blocked only after more than Limit accepted hits, one of them  *)
(* a request.  Which hits are forgotten, and when a block starts or ends,   *)
(* is left open: the cluster loses datagrams, counters expire, and nobody   *)
(* evaluates a counter that only forwarded hits reach.                      *)
(***************************************************************************)
EXTENDS Naturals, FiniteSets

CONSTANTS Key, Hit, Bulk, KeyOf, Limit

VARIABLES accepted,   \* hits let through or loaded
          refused,    \* requests answered with 429
          copies,     \* how many times a hit is counted at present
          blocked     \* entities blocked or about to be blocked somewhere

vars == <<accepted, refused, copies, blocked>>

Init ==
    /\ accepted = {} /\ refused = {} /\ blocked = {}
    /\ copies = [h \in Hit |-> 0]

Accept(h) ==
    /\ h \notin accepted \cup refused
    /\ accepted' = accepted \cup {h}
    /\ copies' = [copies EXCEPT ![h] = 1]
    /\ UNCHANGED <<refused, blocked>>

Refuse(h) ==
    /\ h \notin accepted \cup refused \cup Bulk
    /\ KeyOf[h] \in blocked
    /\ refused' = refused \cup {h}
    /\ UNCHANGED <<accepted, copies, blocked>>

Forget(D) ==
    /\ copies' = [h \in Hit |-> IF h \in D THEN 0 ELSE copies[h]]
    /\ UNCHANGED <<accepted, refused, blocked>>

AcceptedOf(k) == {h \in accepted : KeyOf[h] = k}

Block(k) ==
    /\ Cardinality(AcceptedOf(k)) > Limit
    /\ AcceptedOf(k) \ Bulk # {}
    /\ blocked' = blocked \cup {k}
    /\ UNCHANGED <<accepted, refused, copies>>

Unblock(k) ==
    /\ blocked' = blocked \ {k}
    /\ UNCHANGED <<accepted, refused, copies>>

Next ==
    \/ \E h \in Hit : Accept(h) \/ Refuse(h)
    \/ \E D \in SUBSET Hit : Forget(D)
    \/ \E k \in Key : Block(k) \/ Unblock(k)

Spec == Init /\ [][Next]_vars
=============================================================================
