------------------------ MODULE AccountingImplements ------------------------
(***************************************************************************)
(* The distributed accounting of Accounting implements the central limiter  *)
(* of RateLimiter.                                                         *)
(***************************************************************************)
EXTENDS Accounting

\* The refinement mapping.
acceptedHits == {h \in Hit : pc[h] \notin {"new", "denied"}}
refusedHits  == {h \in Hit : pc[h] = "denied"}
countedTimes ==
    [h \in Hit |-> IF Where(h) = {} THEN 0
                   ELSE IF \A p, q \in Where(h) : p = q THEN 1 ELSE 2]
blockedKeys  == {k \in Key : \E n \in Node : k \in blocked[n] \/ <<n, k>> \in events}

Central == INSTANCE RateLimiter WITH
              accepted <- acceptedHits, refused <- refusedHits,
              copies <- countedTimes, blocked <- blockedKeys

\* However requests, flushes, datagrams, ring changes and expiries interleave,
\* the cluster behaves as one limiter that may forget: no hit is counted twice
\* or counted again after it was lost, no refused request is counted, a request
\* is refused only while its entity is blocked somewhere, and a block starts
\* only after more than Limit accepted hits.
ImplementsRateLimiter == Central!Spec
=============================================================================
