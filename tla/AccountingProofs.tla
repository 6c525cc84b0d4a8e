-------------------------- MODULE AccountingProofs --------------------------
(***************************************************************************)
(* Proofs about Accounting, for any nodes, keys, hits, hash ring, limit    *)
(* and batch size, and for every interleaving of the actions.              *)
(*                                                                         *)
(* NoDoubleCount and NoFalseBlock are not inductive by themselves.  IInv   *)
(* adds what the goroutines hold at each program counter (ThreadInv), that *)
(* no two places share a counter object (CellInv), that all that is held   *)
(* anywhere was accepted (CounterContent, HeldContent), that a value read  *)
(* back from a counter is still justified when it is evaluated (CountInv), *)
(* and that the places that hold a hit are disjoint (DisjointInv).         *)
(*                                                                         *)
(* NoSilentLoss is about steps: whoever holds a hit keeps it or passes it  *)
(* on (KeptUnlessDropped), unless the step is one that Drops lists.        *)
(***************************************************************************)
EXTENDS AccountingContents, FiniteSetTheorems

\* The value to be evaluated is no more than the hits accepted so far.
CountInv ==
    \A h \in Hit : pc[h] = "evaluate" => count[h] <= Cardinality(Accepted(KeyOf[h]))

-----------------------------------------------------------------------------
(* Counts and blocks. *)

\* The value of a counter is a natural number.
LEMMA CardinalityInNat ==
    ASSUME NEW D \in SUBSET Hit
    PROVE  Cardinality(D) \in Nat
BY Zenon, ConstantsAssumption, FS_Subset, FS_CardinalityType

\* Every step keeps the types.
LEMMA NextTypeOK == TypeOK /\ [Next]_vars => TypeOK'
BY Zenon, StepTypes, CardinalityInNat DEF Countable

\* Every variable keeps its type; in particular a goroutine that is past the
\* ownership test always has a real owner address (Engine.Process).
THEOREM TypeCorrect == Spec => []TypeOK
BY InitTypeOK, NextTypeOK, PTL DEF Spec

\* A counter that holds some of the accepted hits has no larger a value.
LEMMA CardinalityMonotone ==
    ASSUME NEW T \in SUBSET Hit, NEW S \in SUBSET T
    PROVE  Cardinality(S) <= Cardinality(T)
BY Zenon, ConstantsAssumption, FS_Subset, FS_CardinalityType

\* The number of accepted hits of a key never decreases.
LEMMA AcceptedCardinality ==
    ASSUME TypeOK, [Next]_vars
    PROVE  \A k \in Key : /\ Cardinality(Accepted(k)) \in Nat
                          /\ Cardinality(Accepted(k))' \in Nat
                          /\ Cardinality(Accepted(k)) <= Cardinality(Accepted(k))'
<1> TAKE k \in Key
<1>1. Accepted(k) \in SUBSET Hit /\ Accepted(k)' \in SUBSET Hit
    BY Zenon DEF Accepted
<1>2. Accepted(k) \subseteq Accepted(k)'
    BY Zenon, AcceptedGrows
<1> QED
    BY <1>1, <1>2, CardinalityInNat, CardinalityMonotone

\* A value returned by Increment stays justified until it is evaluated.
LEMMA NextCountInv ==
    ASSUME TypeOK, ThreadInv, CellInv, CounterContent, HeldContent, CountInv, [Next]_vars
    PROVE  CountInv'
<1> USE ConstantsAssumption DEF cacheVars, flushVars, threadVars, blockVars
<1>0. \A k \in Key : /\ Cardinality(Accepted(k)) \in Nat
                     /\ Cardinality(Accepted(k))' \in Nat
                     /\ Cardinality(Accepted(k)) <= Cardinality(Accepted(k))'
    BY Zenon, AcceptedCardinality
<1>1. ASSUME \A h \in Hit : pc'[h] = "evaluate" => pc[h] = "evaluate" /\ count'[h] = count[h]
      PROVE  CountInv'
    <2> SUFFICES ASSUME NEW h \in Hit, pc'[h] = "evaluate"
                 PROVE  count'[h] <= Cardinality(Accepted(KeyOf[h]))'
        BY Zenon DEF CountInv
    <2>1. KeyOf[h] \in Key /\ count[h] \in Nat
        BY DEF TypeOK
    <2>2. count'[h] = count[h] /\ count[h] <= Cardinality(Accepted(KeyOf[h]))
        BY Zenon, <1>1 DEF CountInv
    <2> QED
        BY <1>0, <2>1, <2>2
<1>2. ASSUME NEW p \in Thread, NEW D \in SUBSET Accepted(key[p]), Returns(p, D)
      PROVE  CountInv'
    <2> SUFFICES ASSUME NEW h \in Hit, pc'[h] = "evaluate"
                 PROVE  count'[h] <= Cardinality(Accepted(KeyOf[h]))'
        BY Zenon DEF CountInv
    <2>1. KeyOf[h] \in Key /\ count[h] \in Nat
        BY DEF TypeOK
    <2>2. CASE h = p
        <3>1. count'[h] = Cardinality(D) /\ D \in SUBSET Accepted(KeyOf[h])
            BY Zenon, <1>2, <2>2 DEF Returns, ThreadInv, TypeOK
        <3>2. Accepted(KeyOf[h]) \in SUBSET Hit
            BY Zenon DEF Accepted
        <3>3. Cardinality(D) \in Nat /\ Cardinality(D) <= Cardinality(Accepted(KeyOf[h]))
            BY <3>1, <3>2, CardinalityMonotone, CardinalityInNat
        <3> QED
            BY <1>0, <2>1, <3>1, <3>3
    <2>3. CASE h # p
        <3>1. pc[h] = "evaluate" /\ count'[h] = count[h]
            BY <1>2, <2>3 DEF Returns, TypeOK, Thread
        <3>2. count[h] <= Cardinality(Accepted(KeyOf[h]))
            BY Zenon, <3>1 DEF CountInv
        <3> QED
            BY SMTT(60), <1>0, <2>1, <3>1, <3>2
    <2> QED
        BY Zenon, <2>2, <2>3
<1>3. ASSUME NEW p \in Thread
      PROVE  Of(delta[p], key[p]) \subseteq Accepted(key[p])
    BY DEF HeldContent, Of, Accepted, IsAccepted, TypeOK
<1>4. ASSUME NEW p \in Thread, AddToCounter(p)  PROVE CountInv'
    <2>1. heap[ptr[p]] \cup Of(delta[p], key[p]) \in SUBSET Accepted(key[p])
        BY Zenon, <1>3, <1>4 DEF AddToCounter, CounterContent
    <2> QED
        BY SMTT(30), <1>2, <1>4, <2>1 DEF AddToCounter
<1>5. ASSUME NEW p \in Thread, StoreCounter(p)  PROVE CountInv'
    <2>1. Of(delta[p], key[p]) \in SUBSET Accepted(key[p])
        BY Zenon, <1>3
    <2>2. Returns(p, Of(delta[p], key[p]))
        BY Zenon, <1>5 DEF StoreCounter
    <2> QED
        BY SMTT(30), <1>2, <2>1, <2>2
<1>6. ASSUME NEW p \in Thread, NEW v, v # "evaluate", pc' = [pc EXCEPT ![p] = v], UNCHANGED count
      PROVE  CountInv'
    BY <1>1, <1>6 DEF TypeOK, Thread
<1>7. ASSUME NEW h \in Hit, Exit(h)  PROVE CountInv'
    BY <1>1, <1>7 DEF Exit, TypeOK, Thread
<1>8. ASSUME UNCHANGED <<pc, count>>  PROVE CountInv'
    BY Zenon, <1>1, <1>8
<1>9. ASSUME NEW h \in Hit, NEW n \in Node, Check(h, n) \/ Deny(h, n) \/ StartBulkLoad(h, n)
      PROVE  CountInv'
    <2>1. h \in Thread
        BY Zenon DEF Thread
    <2> QED
        BY Zenon, <1>6, <1>9, <2>1 DEF Check, Deny, StartBulkLoad
<1>10. ASSUME NEW h \in Hit, Process(h)  PROVE CountInv'
    <2>1. h \in Thread
        BY Zenon DEF Thread
    <2> QED
        BY Zenon, <1>6, <1>7, <1>10, <2>1 DEF Process, ReadOwner, TestOwner, DropBulk, ReturnBulk, Evaluate, Enqueue
<1>11. ASSUME NEW p \in Thread, Increment(p)  PROVE CountInv'
    BY Zenon, <1>4, <1>5, <1>6, <1>11 DEF Increment, Lookup
<1>12. ASSUME NEW n \in Node, Handler(n) \/ Flush(n)  PROVE CountInv'
    <2>1. n \in Thread
        BY Zenon DEF Thread
    <2> QED
        BY Zenon, <1>6, <1>8, <1>12, <2>1 DEF Handler, Receive, NextEntry, Flush
<1>13. ASSUME NEW b \in net, Lose(b)  PROVE CountInv'
    BY <1>8, <1>13 DEF Lose
<1>14. ASSUME NEW n \in Node, NEW S \in View, UpdateNodes(n, S)  PROVE CountInv'
    BY Zenon, <1>8, <1>14 DEF UpdateNodes
<1>15. ASSUME NEW n \in Node, NEW k \in Key, Expire(n, k) \/ ReceiveBlock(n, k) \/ Unblock(n, k)
       PROVE  CountInv'
    BY Zenon, <1>8, <1>15 DEF Expire, ReceiveBlock, Unblock
<1>16. CASE UNCHANGED vars
    BY <1>8, <1>16 DEF vars
<1> QED
    BY SMTT(60), <1>9, <1>10, <1>11, <1>12, <1>13, <1>14, <1>15, <1>16 DEF Next

\* Every step keeps NoFalseBlock and BulkNeverBlocks.
LEMMA NextBlocks ==
    ASSUME TypeOK, ThreadInv, CountInv, NoFalseBlock, BulkNeverBlocks, [Next]_vars
    PROVE  NoFalseBlock' /\ BulkNeverBlocks'
<1> USE ConstantsAssumption DEF cacheVars, flushVars, threadVars, blockVars
<1>0. \A k \in Key : /\ Cardinality(Accepted(k)) \in Nat
                     /\ Cardinality(Accepted(k))' \in Nat
                     /\ Cardinality(Accepted(k)) <= Cardinality(Accepted(k))'
                     /\ Accepted(k) \subseteq Accepted(k)'
    BY Zenon, AcceptedCardinality, AcceptedGrows
<1> DEFINE Announced(n, k) == k \in blocked[n] \/ <<n, k>> \in events
<1>1. ASSUME \A n \in Node, k \in Key : Announced(n, k)' =>
                \/ \E m \in Node : Announced(m, k)
                \/ Cardinality(Accepted(k)) > Limit /\ Accepted(k) \ Bulk # {}
      PROVE  NoFalseBlock' /\ BulkNeverBlocks'
    <2> SUFFICES ASSUME NEW n \in Node, NEW k \in Key, Announced(n, k)'
                 PROVE  Cardinality(Accepted(k))' > Limit /\ Accepted(k)' \ Bulk # {}
        BY Zenon DEF NoFalseBlock, BulkNeverBlocks
    <2>1. Cardinality(Accepted(k)) > Limit /\ Accepted(k) \ Bulk # {}
        BY Zenon, <1>1 DEF NoFalseBlock, BulkNeverBlocks
    <2>2. Cardinality(Accepted(k))' > Limit
        BY <1>0, <2>1
    <2> QED
        BY Zenon, <1>0, <2>1, <2>2
<1>2. ASSUME NEW h \in Hit, Evaluate(h)  PROVE NoFalseBlock' /\ BulkNeverBlocks'
    <2>1. CASE Exceeds(count[h])
        <3>1. PICK S \in View :
                 /\ blocked' = [blocked EXCEPT ![at[h]] = @ \cup {KeyOf[h]}]
                 /\ events' = events \cup {<<m, KeyOf[h]>> : m \in S \ {at[h]}}
            BY <1>2, <2>1 DEF Evaluate
        <3>2. \A n \in Node, k \in Key : Announced(n, k)' => Announced(n, k) \/ k = KeyOf[h]
            BY <3>1 DEF TypeOK
        <3>3. h \in Accepted(KeyOf[h]) \ Bulk
            BY Zenon, <1>2 DEF Evaluate, Accepted, ThreadInv
        <3>4. KeyOf[h] \in Key /\ count[h] \in Nat /\ count[h] > Limit
                /\ count[h] <= Cardinality(Accepted(KeyOf[h]))
            <4>1. pc[h] = "evaluate"
                BY Zenon, <1>2 DEF Evaluate
            <4>2. KeyOf[h] \in Key /\ count[h] \in Nat
                BY DEF TypeOK
            <4>3. count[h] > Limit
                BY Zenon, <2>1 DEF Exceeds
            <4>4. count[h] <= Cardinality(Accepted(KeyOf[h]))
                BY Zenon, <4>1 DEF CountInv
            <4> QED
                BY Zenon, <4>2, <4>3, <4>4
        <3>5. Cardinality(Accepted(KeyOf[h])) > Limit
            BY <1>0, <3>4
        <3> HIDE DEF Announced
        <3> QED
            <4>1. ASSUME NEW n \in Node, NEW k \in Key, Announced(n, k)'
                  PROVE  \/ \E m \in Node : Announced(m, k)
                         \/ Cardinality(Accepted(k)) > Limit /\ Accepted(k) \ Bulk # {}
                <5>1. CASE Announced(n, k)
                    BY Zenon, <5>1
                <5>2. CASE k = KeyOf[h]
                    BY ZenonT(60), <3>3, <3>5, <5>2
                <5> QED
                    BY Zenon, <3>2, <4>1, <5>1, <5>2
            <4> QED
                BY Zenon, <1>1, <4>1
    <2>2. CASE ~Exceeds(count[h])
        BY Zenon, <1>1, <1>2, <2>2 DEF Evaluate
    <2> QED
        BY Zenon, <2>1, <2>2
<1>3. ASSUME NEW m \in Node, NEW j \in Key, ReceiveBlock(m, j)
      PROVE  NoFalseBlock' /\ BulkNeverBlocks'
    <2>1. \A n \in Node, k \in Key : Announced(n, k)' => \E x \in Node : Announced(x, k)
        <3>1. Announced(m, j)
            BY Zenon, <1>3 DEF ReceiveBlock
        <3>2. \A n \in Node, k \in Key : Announced(n, k)' => Announced(n, k) \/ k = j
            BY <1>3 DEF ReceiveBlock, TypeOK
        <3> HIDE DEF Announced
        <3> QED
            BY <3>1, <3>2
    <2> QED
        BY Zenon, <1>1, <2>1
<1>4. ASSUME NEW m \in Node, NEW j \in Key, Unblock(m, j)
      PROVE  NoFalseBlock' /\ BulkNeverBlocks'
    <2>1. \A n \in Node, k \in Key : Announced(n, k)' => Announced(n, k)
        BY <1>4 DEF Unblock, TypeOK
    <2> QED
        BY Zenon, <1>1, <2>1
<1>5. ASSUME UNCHANGED blockVars  PROVE NoFalseBlock' /\ BulkNeverBlocks'
    BY SMTT(30), <1>1, <1>5
<1>6. ASSUME NEW h \in Hit, Process(h)  PROVE NoFalseBlock' /\ BulkNeverBlocks'
    BY Zenon, <1>2, <1>5, <1>6 DEF Process, ReadOwner, TestOwner, DropBulk, ReturnBulk, Enqueue
<1>7. ASSUME NEW p \in Thread, Increment(p)  PROVE NoFalseBlock' /\ BulkNeverBlocks'
    BY Zenon, <1>5, <1>7 DEF Increment, Lookup, AddToCounter, StoreCounter, Returns
<1>8. ASSUME NEW n \in Node, Handler(n) \/ Flush(n)  PROVE NoFalseBlock' /\ BulkNeverBlocks'
    BY Zenon, <1>5, <1>8 DEF Handler, Receive, NextEntry, Flush
<1>9. ASSUME NEW h \in Hit, NEW n \in Node, Check(h, n) \/ Deny(h, n) \/ StartBulkLoad(h, n)
      PROVE  NoFalseBlock' /\ BulkNeverBlocks'
    BY Zenon, <1>5, <1>9 DEF Check, Deny, StartBulkLoad
<1>10. ASSUME NEW b \in net, Lose(b)  PROVE NoFalseBlock' /\ BulkNeverBlocks'
    BY Zenon, <1>5, <1>10 DEF Lose
<1>11. ASSUME NEW n \in Node, NEW S \in View, UpdateNodes(n, S)
       PROVE  NoFalseBlock' /\ BulkNeverBlocks'
    BY Zenon, <1>5, <1>11 DEF UpdateNodes
<1>12. ASSUME NEW n \in Node, NEW k \in Key, Expire(n, k)
       PROVE  NoFalseBlock' /\ BulkNeverBlocks'
    BY Zenon, <1>5, <1>12 DEF Expire
<1>13. CASE UNCHANGED vars
    BY Zenon, <1>5, <1>13 DEF vars
<1> QED
    BY SMTT(60), <1>3, <1>4, <1>6, <1>7, <1>8, <1>9, <1>10, <1>11, <1>12, <1>13 DEF Next

-----------------------------------------------------------------------------
(* The theorems. *)

\* The inductive invariant.
IInv == TypeOK /\ ThreadInv /\ CellInv /\ CounterContent /\ HeldContent /\ CountInv
             /\ DisjointInv /\ NoFalseBlock /\ BulkNeverBlocks

\* The initial states satisfy the invariant.
LEMMA InitIInv == Init => IInv
<1>1. Init => CountInv /\ NoFalseBlock /\ BulkNeverBlocks
    BY ConstantsAssumption DEF Init, CountInv, NoFalseBlock, BulkNeverBlocks, Thread
<1> QED
    BY <1>1, InitTypeOK, InitThreadInv, InitCellInv, InitCounterContent, InitHeldContent,
       InitDisjointInv DEF IInv

\* Every step keeps the invariant.
LEMMA NextIInv == IInv /\ [Next]_vars => IInv'
BY Zenon, NextTypeOK, NextThreadInv, NextCellInv, NextCounterContent, NextHeldContent, NextCountInv,
   NextDisjointInv, NextBlocks DEF IInv

\* IInv is inductive.
THEOREM Inductive == Spec => []IInv
BY InitIInv, NextIInv, PTL DEF Spec

\* Disjoint places are what NoDoubleCount asks for.
LEMMA DisjointPlaces == DisjointInv => NoDoubleCount
<1> SUFFICES ASSUME NEW h \in Hit, Once(h), NEW p \in Where(h), NEW q \in Where(h)
             PROVE  p = q
    BY Zenon DEF DisjointInv, NoDoubleCount
<1>1. ASSUME NEW x \in Where(h)
      PROVE  \/ x \in {"counter"} \X Node \X Key /\ h \in Counter(x[2], x[3])
             \/ x \in {"transferable"} \X Node \X Node /\ h \in transferable[x[2]][x[3]]
             \/ x \in {"buffer"} \X Node \X Node /\ h \in buffers[x[2]][x[3]]
             \/ x \in {"net"} \X net /\ h \in x[2].hits
             \/ x \in {"thread"} \X Thread /\ h \in delta[x[2]]
    BY Zenon DEF Where
<1>2. CASE p \in {"counter"} \X Node \X Key /\ h \in Counter(p[2], p[3])
    BY SMTT(30), <1>1, <1>2 DEF Once
<1>3. CASE p \in {"transferable"} \X Node \X Node /\ h \in transferable[p[2]][p[3]]
    BY SMTT(30), <1>1, <1>3 DEF Once
<1>4. CASE p \in {"buffer"} \X Node \X Node /\ h \in buffers[p[2]][p[3]]
    BY SMTT(30), <1>1, <1>4 DEF Once
<1>5. CASE p \in {"net"} \X net /\ h \in p[2].hits
    BY SMTT(30), <1>1, <1>5 DEF Once
<1>6. CASE p \in {"thread"} \X Thread /\ h \in delta[p[2]]
    BY SMTT(30), <1>1, <1>6 DEF Once
<1> QED
    BY Zenon, <1>1, <1>2, <1>3, <1>4, <1>5, <1>6

\* A hit is never counted twice, for any number of nodes, keys and hits and any
\* interleaving of Increment, Enqueue, flush, delivery, ring change and expiry.
THEOREM NeverCountedTwice == Spec => []NoDoubleCount
<1>1. IInv => NoDoubleCount
    BY Zenon, DisjointPlaces DEF IInv
<1> QED
    BY <1>1, Inductive, PTL

\* No node blocks, or announces, an entity that did not exceed its limit.
THEOREM NeverBlockedFalsely == Spec => []NoFalseBlock
<1>1. IInv => NoFalseBlock
    BY Zenon DEF IInv
<1> QED
    BY <1>1, Inductive, PTL

\* Bulk loads alone never cause a block.
THEOREM NeverBlockedByBulkLoad == Spec => []BulkNeverBlocks
<1>1. IInv => BulkNeverBlocks
    BY Zenon DEF IInv
<1> QED
    BY <1>1, Inductive, PTL

\* UpdateNodes leaves no counter on a node that its new ring gives to another.
THEOREM RingChangeIsComplete == Spec => RingChangeHandsOver
<1> DEFINE Handed == \A n \in Node : ring'[n] # ring[n] =>
              \A k \in Key : counters'[n][k] # NoCell => OwnerIn(ring'[n], n, k) = n
<1>1. TypeOK /\ [Next]_vars => [Handed]_vars
    <2> SUFFICES ASSUME TypeOK, Next PROVE Handed
        BY Zenon
    <2> USE DEF cacheVars, flushVars, threadVars, blockVars
    <2>1. ASSUME UNCHANGED ring  PROVE Handed
        BY Zenon, <2>1
    <2>2. ASSUME NEW m \in Node, NEW S \in View, UpdateNodes(m, S)  PROVE Handed
        <3> SUFFICES ASSUME NEW n \in Node, ring'[n] # ring[n], NEW k \in Key,
                            counters'[n][k] # NoCell
                     PROVE  OwnerIn(ring'[n], n, k) = n
            BY Zenon
        <3>1. n = m /\ ring'[n] = S
            BY Zenon, <2>2 DEF UpdateNodes, TypeOK
        <3>2. OwnerIn(S, n, k) \notin S \ {n}
            BY <2>2, <3>1 DEF UpdateNodes, TypeOK
        <3>3. S = {} \/ OwnerIn(S, n, k) \in S
            BY Zenon, ConstantsAssumption DEF OwnerIn
        <3> QED
            BY SMTT(30), <3>1, <3>2, <3>3 DEF OwnerIn
    <2>3. ASSUME NEW h \in Hit, NEW n \in Node, Check(h, n) \/ Deny(h, n) \/ StartBulkLoad(h, n)
          PROVE  Handed
        <3>1. UNCHANGED ring
            BY Zenon, <2>3 DEF Check, Deny, StartBulkLoad
        <3> QED
            BY Zenon, <2>1, <3>1
    <2>4. ASSUME NEW h \in Hit, Process(h)  PROVE Handed
        <3>1. UNCHANGED ring
            BY Zenon, <2>4 DEF Process, ReadOwner, TestOwner, DropBulk, ReturnBulk, Enqueue,
                             Evaluate, Exit
        <3> QED
            BY Zenon, <2>1, <3>1
    <2>5. ASSUME NEW p \in Thread, Increment(p)  PROVE Handed
        <3>1. UNCHANGED ring
            BY Zenon, <2>5 DEF Increment, Lookup, AddToCounter, StoreCounter, Returns
        <3> QED
            BY Zenon, <2>1, <3>1
    <2>6. ASSUME NEW n \in Node, Handler(n) \/ Flush(n)  PROVE Handed
        <3>1. UNCHANGED ring
            BY Zenon, <2>6 DEF Handler, Receive, NextEntry, Flush
        <3> QED
            BY Zenon, <2>1, <3>1
    <2>7. ASSUME NEW b \in net, Lose(b)  PROVE Handed
        BY Zenon, <2>1, <2>7 DEF Lose
    <2>8. ASSUME NEW n \in Node, NEW k \in Key, Expire(n, k) \/ ReceiveBlock(n, k) \/ Unblock(n, k)
          PROVE  Handed
        BY Zenon, <2>1, <2>8 DEF Expire, ReceiveBlock, Unblock
    <2> HIDE DEF Handed
    <2> QED
        BY <2>2, <2>3, <2>4, <2>5, <2>6, <2>7, <2>8 DEF Next
<1> QED
    BY <1>1, TypeCorrect, PTL DEF Spec, RingChangeHandsOver

-----------------------------------------------------------------------------
(* Who holds a hit. *)

\* Something in the cluster holds h and may still count it.
Held(h) ==
    \/ \E n \in Node, k \in Key : h \in Counter(n, k)
    \/ \E n, m \in Node : h \in transferable[n][m] \/ h \in buffers[n][m]
    \/ \E b \in net : h \in b.hits
    \/ \E p \in Thread : h \in delta[p]

\* A hit has a place exactly if something holds it.
LEMMA WhereHeld ==
    ASSUME NEW h \in Hit
    PROVE  Where(h) # {} <=> Held(h)
<1>1. ASSUME NEW n \in Node, NEW k \in Key, h \in Counter(n, k)
      PROVE  <<"counter", n, k>> \in Where(h)
    BY Zenon, <1>1 DEF Where
<1>2. ASSUME NEW n \in Node, NEW m \in Node, h \in transferable[n][m]
      PROVE  <<"transferable", n, m>> \in Where(h)
    BY Zenon, <1>2 DEF Where
<1>3. ASSUME NEW n \in Node, NEW m \in Node, h \in buffers[n][m]
      PROVE  <<"buffer", n, m>> \in Where(h)
    BY Zenon, <1>3 DEF Where
<1>4. ASSUME NEW b \in net, h \in b.hits
      PROVE  <<"net", b>> \in Where(h)
    BY Zenon, <1>4 DEF Where
<1>5. ASSUME NEW p \in Thread, h \in delta[p]
      PROVE  <<"thread", p>> \in Where(h)
    BY Zenon, <1>5 DEF Where
<1>6. ASSUME NEW x \in Where(h)  PROVE Held(h)
    BY Zenon DEF Where, Held
<1> QED
    BY Zenon, <1>1, <1>2, <1>3, <1>4, <1>5, <1>6 DEF Held

\* The same for all hits, and after a step.
LEMMA WhereHeldAfter ==
    (\A h \in Hit : Where(h) # {} <=> Held(h))'
<1>1. \A h \in Hit : Where(h) # {} <=> Held(h)
    BY Zenon, WhereHeld
<1> QED
    BY <1>1, PTL

\* A step that is none of those that drop g leaves it with somebody.
LEMMA KeptUnlessDropped ==
    ASSUME TypeOK, ThreadInv, Next, NEW g \in Hit, Held(g), ~Drops(g)
    PROVE  Held(g)'
<1> USE DEF cacheVars, flushVars, threadVars, blockVars
\* A counter that holds g is an object of the cache.
<1>0. ASSUME NEW n \in Node, NEW k \in Key, g \in Counter(n, k)
      PROVE  counters[n][k] \in Cell /\ counters[n][k] # NoCell /\ g \in heap[counters[n][k]]
    <2>1. counters[n][k] \in Cell \cup {NoCell}
        BY DEF TypeOK
    <2>2. counters[n][k] # NoCell /\ g \in heap[counters[n][k]]
        BY Zenon, <1>0 DEF Counter
    <2> QED
        BY Zenon, <2>1, <2>2
\* A step after which whatever held g has passed it on.
<1>1. ASSUME \A n \in Node, k \in Key : g \in Counter(n, k) => Held(g)',
             \A n, m \in Node : g \in transferable[n][m] => Held(g)',
             \A n, m \in Node : g \in buffers[n][m] => Held(g)',
             \A b \in net : g \in b.hits => Held(g)',
             \A p \in Thread : g \in delta[p] => Held(g)'
      PROVE  Held(g)'
    BY Zenon, <1>1 DEF Held
<1>2. ASSUME \A n \in Node, k \in Key : g \in Counter(n, k) => g \in Counter(n, k)',
             UNCHANGED <<transferable, buffers, net>>,
             \A p \in Thread : g \in delta[p] => g \in delta'[p]
      PROVE  Held(g)'
    BY Zenon, <1>2 DEF Held
<1>3. ASSUME UNCHANGED <<counters, heap, transferable, buffers, net>>,
             \A p \in Thread : g \in delta[p] => g \in delta'[p]
      PROVE  Held(g)'
    BY Zenon, <1>2, <1>3 DEF Counter
<1>4. ASSUME UNCHANGED <<counters, heap, transferable, buffers, net, delta>>
      PROVE  Held(g)'
    BY Zenon, <1>3, <1>4
\* A goroutine starts with nothing in its hands and ends with nothing.
<1>5. ASSUME NEW h \in Hit, NEW D, g \notin delta[h], delta' = [delta EXCEPT ![h] = D],
             UNCHANGED <<counters, heap, transferable, buffers, net>>
      PROVE  Held(g)'
    <2>1. \A p \in Thread : p # h => delta'[p] = delta[p]
        BY Zenon, <1>5 DEF TypeOK
    <2> QED
        BY Zenon, <1>3, <1>5, <2>1
<1>6. ASSUME NEW h \in Hit, NEW n \in Node, Check(h, n) \/ Deny(h, n) \/ StartBulkLoad(h, n)
      PROVE  Held(g)'
    <2>1. g \notin delta[h]
        BY Zenon, <1>6 DEF Check, Deny, StartBulkLoad, ThreadInv
    <2> QED
        BY Zenon, <1>4, <1>5, <1>6, <2>1 DEF Check, Deny, StartBulkLoad
<1>7. ASSUME NEW h \in Hit, Evaluate(h) \/ ReturnBulk(h)  PROVE Held(g)'
    <2>1. g \notin delta[h]
        BY Zenon, <1>7 DEF Evaluate, ReturnBulk, ThreadInv
    <2> QED
        BY Zenon, <1>5, <1>7, <2>1 DEF Evaluate, ReturnBulk, Exit
<1>8. ASSUME NEW h \in Hit, DropBulk(h)  PROVE Held(g)'
    <2>1. g # h
        BY Zenon, <1>8 DEF Drops
    <2>2. g \notin delta[h]
        BY Zenon, <1>8, <2>1 DEF DropBulk, ThreadInv
    <2> QED
        BY Zenon, <1>5, <1>8, <2>2 DEF DropBulk, Exit
\* Increment: what the thread gives up is in the counter it leaves in the cache.
<1>9. ASSUME NEW p \in Thread, NEW M, NEW n \in Node, NEW j \in Key,
             g \in M => g \in Counter(n, j)',
             \A x \in Node, k \in Key : g \in Counter(x, k) => g \in Counter(x, k)',
             delta'[p] = delta[p] \ M, \A q \in Thread \ {p} : delta'[q] = delta[q],
             UNCHANGED <<transferable, buffers, net>>
      PROVE  Held(g)'
    <2>1. CASE g \in M
        BY Zenon, <1>9, <2>1 DEF Held
    <2>2. CASE g \notin M
        BY Zenon, <1>2, <1>9, <2>2
    <2> QED
        BY Zenon, <2>1, <2>2
<1>10. ASSUME NEW p \in Thread, AddToCounter(p)  PROVE Held(g)'
    <2> DEFINE M == Of(delta[p], key[p])
    <2>1. PICK n \in Node, j \in Key : n = Site(p) /\ j = key[p]
        BY Zenon, <1>10 DEF AddToCounter, TypeOK, Site, Thread
    <2>2. ptr[p] \in Cell /\ ptr[p] # NoCell /\ M \subseteq delta[p]
        BY Zenon, <1>10 DEF AddToCounter, TypeOK, Of
    <2>3. /\ heap'[ptr[p]] = heap[ptr[p]] \cup M
          /\ \A x \in Cell : x # ptr[p] => heap'[x] = heap[x]
          /\ counters' = counters
        BY Zenon, <1>10, <2>2 DEF AddToCounter, TypeOK
    <2>4. delta'[p] = delta[p] \ M /\ \A q \in Thread \ {p} : delta'[q] = delta[q]
        BY Zenon, <1>10 DEF AddToCounter, Returns, TypeOK
    <2>5. UNCHANGED <<transferable, buffers, net>>
        BY Zenon, <1>10 DEF AddToCounter, Returns
    <2>6. g \in M => ptr[p] = counters[n][j]
        BY Zenon, <1>10, <2>1, <2>2 DEF Drops
    <2> HIDE DEF M
    <2>7. g \in M => g \in Counter(n, j)'
        BY Zenon, <2>2, <2>3, <2>6 DEF Counter
    <2>8. \A x \in Node, k \in Key : g \in Counter(x, k) => g \in Counter(x, k)'
        <3> SUFFICES ASSUME NEW x \in Node, NEW k \in Key, g \in Counter(x, k)
                     PROVE  g \in Counter(x, k)'
            BY Zenon
        <3>1. counters[x][k] \in Cell /\ counters[x][k] # NoCell /\ g \in heap[counters[x][k]]
            BY Zenon, <1>0
        <3>2. g \in heap'[counters[x][k]]
            BY <2>3, <3>1
        <3> QED
            BY Zenon, <2>3, <3>1, <3>2 DEF Counter
    <2> QED
        BY Zenon, <1>9, <2>4, <2>5, <2>7, <2>8
<1>11. ASSUME NEW p \in Thread, StoreCounter(p)  PROVE Held(g)'
    <2> DEFINE M == Of(delta[p], key[p])
               c == CHOOSE x \in FreeCell : TRUE
    <2>1. PICK n \in Node, j \in Key : n = Site(p) /\ j = key[p]
        BY Zenon, <1>11 DEF StoreCounter, TypeOK, Site, Thread
    <2>2. c \in Cell /\ c # NoCell /\ \A x \in Node, k \in Key : counters[x][k] # c
        BY <1>11, ConstantsAssumption DEF StoreCounter, FreeCell, Referenced
    <2>3. heap'[c] = M /\ \A x \in Cell : x # c => heap'[x] = heap[x]
        BY ZenonT(60), <1>11, <2>2 DEF StoreCounter, TypeOK
    <2>4. counters'[n][j] = c /\ \A x \in Node, k \in Key :
             (x # n \/ k # j) => counters'[x][k] = counters[x][k]
        BY <1>11, <2>1 DEF StoreCounter, TypeOK
    <2>5. delta'[p] = delta[p] \ M /\ \A q \in Thread \ {p} : delta'[q] = delta[q]
        BY Zenon, <1>11 DEF StoreCounter, Returns, TypeOK
    <2>6. UNCHANGED <<transferable, buffers, net>>
        BY ZenonT(60), <1>11 DEF StoreCounter, Returns
    <2>7. g \notin Counter(n, j)
        BY Zenon, <1>11, <2>1 DEF Drops
    <2> HIDE DEF M, c
    <2>8. g \in M => g \in Counter(n, j)'
        BY Zenon, <2>2, <2>3, <2>4 DEF Counter
    <2>9. \A x \in Node, k \in Key : g \in Counter(x, k) => g \in Counter(x, k)'
        <3> SUFFICES ASSUME NEW x \in Node, NEW k \in Key, g \in Counter(x, k)
                     PROVE  g \in Counter(x, k)'
            BY Zenon
        <3>1. counters'[x][k] = counters[x][k]
            BY Zenon, <2>4, <2>7
        <3>2. counters[x][k] \in Cell /\ counters[x][k] # NoCell /\ g \in heap[counters[x][k]]
            BY Zenon, <1>0
        <3>3. heap'[counters[x][k]] = heap[counters[x][k]]
            BY <2>2, <2>3, <3>2
        <3> QED
            BY Zenon, <3>1, <3>2, <3>3 DEF Counter
    <2> QED
        BY Zenon, <1>9, <2>5, <2>6, <2>8, <2>9
<1>12. ASSUME NEW h \in Hit, Enqueue(h)  PROVE Held(g)'
    <2>1. PICK n \in Node, m \in Node : n = at[h] /\ m = owner[h]
        BY Zenon, <1>12 DEF Enqueue, TypeOK
    <2> DEFINE buf == buffers[n][m] \cup delta[h] \cup transferable[n][m]
    <2>2. h \in Thread
        BY Zenon DEF Thread
    <2>3. \/ buffers' = [buffers EXCEPT ![n][m] = buf] /\ net' = net
          \/ buffers' = [buffers EXCEPT ![n][m] = {}] /\ net' = net \cup {Datagram(m, buf)}
        BY Zenon, <1>12, <2>1 DEF Enqueue
    <2>4. Datagram(m, buf).hits = buf
        BY Zenon DEF Datagram
    <2>5. /\ \A x, y \in Node : (x # n \/ y # m) => transferable'[x][y] = transferable[x][y]
          /\ \A x, y \in Node : (x # n \/ y # m) => buffers'[x][y] = buffers[x][y]
          /\ net \subseteq net'
        <3>1. transferable' = [transferable EXCEPT ![n][m] = {}]
            BY Zenon, <1>12, <2>1 DEF Enqueue
        <3>2. \A x, y \in Node : (x # n \/ y # m) => transferable'[x][y] = transferable[x][y]
            BY Zenon, <3>1 DEF TypeOK
        <3> HIDE DEF buf
        <3>3. \A x, y \in Node : (x # n \/ y # m) => buffers'[x][y] = buffers[x][y]
            <4>1. CASE buffers' = [buffers EXCEPT ![n][m] = buf]
                BY Zenon, <4>1 DEF TypeOK
            <4>2. CASE buffers' = [buffers EXCEPT ![n][m] = {}]
                BY Zenon, <4>2 DEF TypeOK
            <4> QED
                BY Zenon, <2>3, <4>1, <4>2
        <3>4. net \subseteq net'
            BY Zenon, <2>3
        <3> QED
            BY Zenon, <3>2, <3>3, <3>4
    <2>6. /\ \A q \in Thread \ {h} : delta'[q] = delta[q]
          /\ \A x \in Node, k \in Key : Counter(x, k)' = Counter(x, k)
        BY Zenon, <1>12 DEF Enqueue, Exit, Counter, TypeOK
    <2> HIDE DEF buf
    <2>7. g \in buf => Held(g)'
        <3>1. CASE net' = net \cup {Datagram(m, buf)}
            BY Zenon, <2>4, <3>1 DEF Held
        <3>2. CASE buffers' = [buffers EXCEPT ![n][m] = buf]
            <4>1. buffers'[n][m] = buf
                BY Zenon, <3>2 DEF TypeOK
            <4> QED
                BY Zenon, <4>1 DEF Held
        <3> QED
            BY Zenon, <2>3, <3>1, <3>2
    <2>8. ASSUME NEW x \in Node, NEW y \in Node,
                 g \in transferable[x][y] \/ g \in buffers[x][y]
          PROVE  Held(g)'
        <3>1. CASE x = n /\ y = m
            BY Zenon, <2>7, <2>8, <3>1 DEF buf
        <3>2. CASE x # n \/ y # m
            BY Zenon, <2>5, <2>8, <3>2 DEF Held
        <3> QED
            BY Zenon, <3>1, <3>2
    <2>9. ASSUME NEW q \in Thread, g \in delta[q]  PROVE Held(g)'
        <3>1. CASE q = h
            BY Zenon, <2>7, <2>9, <3>1 DEF buf
        <3>2. CASE q # h
            BY Zenon, <2>6, <2>9, <3>2 DEF Held
        <3> QED
            BY Zenon, <3>1, <3>2
    <2>10. \A b \in net : g \in b.hits => Held(g)'
        BY Zenon, <2>5 DEF Held
    <2>11. \A x \in Node, k \in Key : g \in Counter(x, k) => Held(g)'
        BY Zenon, <2>6 DEF Held
    <2> QED
        BY Zenon, <1>1, <2>8, <2>9, <2>10, <2>11
<1>13. ASSUME NEW n \in Node, Flush(n)  PROVE Held(g)'
    <2>1. ASSUME NEW m \in Node, g \in buffers[n][m]  PROVE Held(g)'
        <3>1. Datagram(m, buffers[n][m]) \in net'
            BY Zenon, <1>13, <2>1 DEF Flush
        <3>2. Datagram(m, buffers[n][m]).hits = buffers[n][m]
            BY Zenon DEF Datagram
        <3> QED
            BY Zenon, <2>1, <3>1, <3>2 DEF Held
    <2>2. \A x, y \in Node : x # n => buffers'[x][y] = buffers[x][y]
        BY Zenon, <1>13 DEF Flush, TypeOK
    <2>3. /\ net \subseteq net' /\ UNCHANGED <<transferable, delta>>
          /\ \A x \in Node, k \in Key : Counter(x, k)' = Counter(x, k)
        BY Zenon, <1>13 DEF Flush, Counter
    <2>4. \A x, y \in Node : g \in buffers[x][y] => Held(g)'
        BY Zenon, <2>1, <2>2 DEF Held
    <2> QED
        BY Zenon, <2>3, <2>4 DEF Held
<1>14. ASSUME NEW b \in net, Receive(b)  PROVE Held(g)'
    <2>1. b.to \in Thread
        BY Zenon DEF TypeOK, Batch, Thread
    <2>2. delta[b.to] = {} /\ delta'[b.to] = b.hits
            /\ \A q \in Thread \ {b.to} : delta'[q] = delta[q]
        BY ZenonT(60), <1>14, <2>1 DEF Receive, TypeOK
    <2>3. /\ net' = net \ {b} /\ UNCHANGED <<transferable, buffers>>
          /\ \A x \in Node, k \in Key : Counter(x, k)' = Counter(x, k)
        BY ZenonT(60), <1>14 DEF Receive, Counter
    <2>4. \A a \in net : g \in a.hits => Held(g)'
        BY Zenon, <2>1, <2>2, <2>3 DEF Held
    <2>5. \A q \in Thread : g \in delta[q] => Held(g)'
        BY Zenon, <2>2 DEF Held
    <2> QED
        BY Zenon, <2>3, <2>4, <2>5 DEF Held
<1>15. ASSUME NEW n \in Node, NEW S \in View, UpdateNodes(n, S)  PROVE Held(g)'
    <2>1. /\ transferable'[n] = [m \in Node |-> IF m \in S \ {n} THEN Moved(n, S, m)
                                                              ELSE transferable[n][m]]
          /\ counters'[n] = [k \in Key |-> IF OwnerIn(S, n, k) \in S \ {n} THEN NoCell
                                                                       ELSE counters[n][k]]
        BY Zenon, <1>15 DEF UpdateNodes, TypeOK
    <2>2. \A x \in Node : x # n => transferable'[x] = transferable[x] /\ counters'[x] = counters[x]
        BY Zenon, <1>15 DEF UpdateNodes, TypeOK
    <2>3. UNCHANGED <<heap, buffers, net, delta>>
        BY Zenon, <1>15 DEF UpdateNodes
    <2>4. S \subseteq Node
        BY Zenon, ConstantsAssumption
    <2>5. ASSUME NEW k \in Key, g \in Counter(n, k)  PROVE Held(g)'
        <3>1. CASE OwnerIn(S, n, k) \in S \ {n}
            <4>1. g \in Moved(n, S, OwnerIn(S, n, k))
                BY Zenon, <2>5 DEF Moved
            <4>2. g \in transferable'[n][OwnerIn(S, n, k)]
                BY Zenon, <2>1, <2>4, <3>1, <4>1
            <4> QED
                BY Zenon, <2>4, <3>1, <4>2 DEF Held
        <3>2. CASE OwnerIn(S, n, k) \notin S \ {n}
            <4>1. counters'[n][k] = counters[n][k]
                BY Zenon, <2>1, <3>2
            <4>2. g \in Counter(n, k)'
                BY Zenon, <2>3, <2>5, <4>1 DEF Counter
            <4> QED
                BY Zenon, <4>2 DEF Held
        <3> QED
            BY Zenon, <3>1, <3>2
    <2>6. ASSUME NEW x \in Node, NEW k \in Key, x # n, g \in Counter(x, k)  PROVE Held(g)'
        <3>1. g \in Counter(x, k)'
            BY Zenon, <2>2, <2>3, <2>6 DEF Counter
        <3> QED
            BY Zenon, <3>1 DEF Held
    <2>7. ASSUME NEW x \in Node, NEW m \in Node, g \in transferable[x][m]  PROVE Held(g)'
        <3>1. x = n => m \notin S \ {n}
            BY Zenon, <1>15, <2>7 DEF Drops
        <3>2. transferable'[x][m] = transferable[x][m]
            BY <2>1, <2>2, <3>1
        <3> QED
            BY Zenon, <2>7, <3>2 DEF Held
    <2>8. (\E x, m \in Node : g \in buffers[x][m]) \/ (\E b \in net : g \in b.hits)
            \/ (\E p \in Thread : g \in delta[p]) => Held(g)'
        BY Zenon, <2>3 DEF Held
    <2> QED
        BY Zenon, <1>1, <2>5, <2>6, <2>7, <2>8
<1>16. ASSUME NEW n \in Node, NEW j \in Key, Expire(n, j)  PROVE Held(g)'
    <2>1. g \notin Counter(n, j)
        BY Zenon, <1>16 DEF Drops
    <2>2. \A x \in Node, k \in Key : (x # n \/ k # j) => counters'[x][k] = counters[x][k]
        BY Zenon, <1>16 DEF Expire, TypeOK
    <2>3. UNCHANGED <<heap, transferable, buffers, net, delta>>
        BY Zenon, <1>16 DEF Expire
    <2>4. \A x \in Node, k \in Key : g \in Counter(x, k) => g \in Counter(x, k)'
        BY Zenon, <2>1, <2>2, <2>3 DEF Counter
    <2> QED
        BY Zenon, <1>2, <2>3, <2>4
<1>17. ASSUME NEW b \in net, Lose(b)  PROVE Held(g)'
    <2>1. g \notin b.hits
        BY Zenon, <1>17 DEF Drops
    <2>2. /\ net' = net \ {b} /\ UNCHANGED <<transferable, buffers, delta>>
          /\ \A x \in Node, k \in Key : Counter(x, k)' = Counter(x, k)
        BY Zenon, <1>17 DEF Lose, Counter
    <2>3. \A a \in net : g \in a.hits => a \in net'
        BY Zenon, <2>1, <2>2
    <2> QED
        BY Zenon, <2>2, <2>3 DEF Held
<1>18. ASSUME NEW h \in Hit, Process(h)  PROVE Held(g)'
    BY Zenon, <1>4, <1>7, <1>8, <1>12, <1>18 DEF Process, ReadOwner, TestOwner
<1>19. ASSUME NEW p \in Thread, Increment(p)  PROVE Held(g)'
    BY Zenon, <1>4, <1>10, <1>11, <1>19 DEF Increment, Lookup
<1>20. ASSUME NEW n \in Node, Handler(n) \/ Flush(n)  PROVE Held(g)'
    BY Zenon, <1>4, <1>13, <1>14, <1>20 DEF Handler, NextEntry
<1>21. ASSUME NEW n \in Node, NEW k \in Key, ReceiveBlock(n, k) \/ Unblock(n, k)  PROVE Held(g)'
    BY Zenon, <1>4, <1>21 DEF ReceiveBlock, Unblock
<1> QED
    BY Zenon, <1>6, <1>15, <1>16, <1>17, <1>18, <1>19, <1>20, <1>21 DEF Next

\* An accepted hit is lost only by the steps that Drops lists: every enqueue,
\* flush, delivery, increment and ring change keeps the hits it handles, except
\* where the datagram, the counter or the slot is given up or overwritten.
THEOREM NothingLostSilently == Spec => NoSilentLoss
<1> DEFINE Lossless == \A h \in Hit : Where(h) # {} /\ Where(h)' = {} => Drops(h)
<1>1. IInv /\ [Next]_vars => [Lossless]_vars
    <2> SUFFICES ASSUME IInv, Next, NEW h \in Hit, Where(h) # {}, Where(h)' = {}
                 PROVE  Drops(h)
        BY Zenon
    <2>1. Held(h)
        BY Zenon, WhereHeld
    <2>2. ~Held(h)'
        BY Zenon, WhereHeldAfter
    <2> QED
        BY Zenon, <2>1, <2>2, KeptUnlessDropped DEF IInv
<1> QED
    BY <1>1, Inductive, PTL DEF Spec, NoSilentLoss

=============================================================================
