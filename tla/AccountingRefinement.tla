------------------------ MODULE AccountingRefinement ------------------------
(***************************************************************************)
(* Proof that Accounting implements RateLimiter, for all constants.  By    *)
(* NoDoubleCount a hit is counted once while something holds it, so its     *)
(* abstract count is decided by whether anything does.  Only an arrival    *)
(* gives a hit its first holder; every other step passes hits on or drops  *)
(* them.                                                                   *)
(***************************************************************************)
EXTENDS AccountingProofs, AccountingImplements

-----------------------------------------------------------------------------
(* What steps do to the holders of a hit. *)

\* An arrival makes its goroutine the holder of the hit.
LEMMA ArrivalHolds ==
    ASSUME TypeOK, ThreadInv,
           NEW h \in Hit, NEW n \in Node, Check(h, n) \/ StartBulkLoad(h, n)
    PROVE  Held(h)' /\ \A g \in Hit \ {h} : Held(g)' <=> Held(g)
<1>1. /\ UNCHANGED <<transferable, buffers, net>>
      /\ \A m \in Node, k \in Key : Counter(m, k)' = Counter(m, k)
    BY Zenon DEF Check, StartBulkLoad, Counter, cacheVars, flushVars
<1>2. delta' = [delta EXCEPT ![h] = {h}] /\ h \in Thread
    BY Zenon DEF Check, StartBulkLoad, Thread
<1>3. delta'[h] = {h} /\ \A p \in Thread \ {h} : delta'[p] = delta[p]
    BY Zenon, <1>2 DEF TypeOK
<1>4. delta[h] = {}
    BY Zenon DEF Check, StartBulkLoad, ThreadInv
<1>5. \A g \in Hit \ {h}, p \in Thread : g \in delta'[p] <=> g \in delta[p]
    BY Zenon, <1>3, <1>4
<1> QED
    BY <1>1, <1>2, <1>3, <1>5 DEF Held

\* Any other step.
Later ==
    \/ \E h \in Hit : Process(h)
    \/ \E p \in Thread : Increment(p)
    \/ \E n \in Node : Handler(n) \/ Flush(n)
    \/ \E b \in net : Lose(b)
    \/ \E n \in Node, S \in View : UpdateNodes(n, S)
    \/ \E n \in Node, k \in Key : Expire(n, k) \/ ReceiveBlock(n, k) \/ Unblock(n, k)

\* After its arrival a hit that nothing holds any more is never held again.
LEMMA NeverHeldAgain ==
    ASSUME TypeOK, Later, NEW g \in Hit, Held(g)'
    PROVE  Held(g)
<1> USE DEF cacheVars, flushVars, threadVars, blockVars
\* A step after which whatever holds g got it from a holder.
<1>1. ASSUME \A n \in Node, k \in Key : g \in Counter(n, k)' => Held(g),
             \A n, m \in Node : g \in transferable'[n][m] => Held(g),
             \A n, m \in Node : g \in buffers'[n][m] => Held(g),
             \A b \in net' : g \in b.hits => Held(g),
             \A p \in Thread : g \in delta'[p] => Held(g)
      PROVE  Held(g)
    BY Zenon, <1>1 DEF Held
<1>2. ASSUME \A n \in Node, k \in Key : g \in Counter(n, k)' => g \in Counter(n, k),
             UNCHANGED <<transferable, buffers>>, net' \subseteq net,
             \A p \in Thread : delta'[p] \subseteq delta[p]
      PROVE  Held(g)
    BY Zenon, <1>1, <1>2 DEF Held
<1>3. ASSUME UNCHANGED <<counters, heap, transferable, buffers>>, net' \subseteq net,
             \A p \in Thread : delta'[p] \subseteq delta[p]
      PROVE  Held(g)
    BY Zenon, <1>2, <1>3 DEF Counter
<1>4. ASSUME UNCHANGED <<counters, heap, transferable, buffers, net, delta>>
      PROVE  Held(g)
    BY Zenon, <1>3, <1>4
<1>5. ASSUME NEW h \in Hit, Exit(h), UNCHANGED <<cacheVars, flushVars>>  PROVE Held(g)
    BY Zenon, <1>3, <1>5 DEF Exit, TypeOK
\* Increment: the counter gains what the thread gives up.
<1>6. ASSUME NEW p \in Thread, NEW M, M \subseteq delta[p],
             \A n \in Node, k \in Key :
                 Counter(n, k)' \subseteq Counter(n, k) \cup M,
             delta'[p] \subseteq delta[p], \A q \in Thread \ {p} : delta'[q] = delta[q],
             UNCHANGED <<transferable, buffers, net>>
      PROVE  Held(g)
    BY Zenon, <1>6 DEF Held
<1>7. ASSUME NEW p \in Thread, AddToCounter(p)  PROVE Held(g)
    <2> DEFINE M == Of(delta[p], key[p])
    <2>1. ptr[p] \in Cell /\ M \subseteq delta[p]
        BY Zenon, <1>7 DEF AddToCounter, TypeOK, Of
    <2>2. \A n \in Node, k \in Key : Counter(n, k)' \subseteq Counter(n, k) \cup M
        BY <1>7, <2>1 DEF AddToCounter, Counter, TypeOK
    <2>3. delta'[p] = delta[p] \ M /\ \A q \in Thread \ {p} : delta'[q] = delta[q]
        BY Zenon, <1>7 DEF AddToCounter, Returns, TypeOK
    <2>4. UNCHANGED <<transferable, buffers, net>>
        BY Zenon, <1>7 DEF AddToCounter, Returns
    <2> HIDE DEF M
    <2> QED
        BY <1>6, <2>1, <2>2, <2>3, <2>4
<1>8. ASSUME NEW p \in Thread, StoreCounter(p)  PROVE Held(g)
    <2> DEFINE M == Of(delta[p], key[p])
               c == CHOOSE x \in FreeCell : TRUE
    <2>1. M \subseteq delta[p] /\ Site(p) \in Node /\ key[p] \in Key
        BY Zenon, <1>8 DEF StoreCounter, TypeOK, Of, Site, Thread
    <2>2. c \in Cell /\ \A n \in Node, k \in Key : counters[n][k] # c
        BY <1>8 DEF StoreCounter, FreeCell, Referenced
    <2>3. heap'[c] = M /\ \A x \in Cell : x # c => heap'[x] = heap[x]
        BY ZenonT(60), <1>8, <2>2 DEF StoreCounter, TypeOK
    <2>4. \A n \in Node, k \in Key : counters'[n][k] = c \/ counters'[n][k] = counters[n][k]
        BY <1>8, <2>1 DEF StoreCounter, TypeOK
    <2>5. delta'[p] = delta[p] \ M /\ \A q \in Thread \ {p} : delta'[q] = delta[q]
        BY Zenon, <1>8 DEF StoreCounter, Returns, TypeOK
    <2>6. UNCHANGED <<transferable, buffers, net>>
        BY ZenonT(60), <1>8 DEF StoreCounter, Returns
    <2> HIDE DEF M, c
    <2>7. \A n \in Node, k \in Key : Counter(n, k)' \subseteq Counter(n, k) \cup M
        BY SMTT(60), <2>2, <2>3, <2>4 DEF Counter, TypeOK
    <2> QED
        BY ZenonT(60), <1>6, <2>1, <2>5, <2>6, <2>7
<1>9. ASSUME NEW h \in Hit, Enqueue(h)  PROVE Held(g)
    <2>1. PICK n \in Node, m \in Node : n = at[h] /\ m = owner[h]
        BY Zenon, <1>9 DEF Enqueue, TypeOK
    <2> DEFINE buf == buffers[n][m] \cup delta[h] \cup transferable[n][m]
    <2>2. h \in Thread
        BY Zenon DEF Thread
    <2>3. g \in buf => Held(g)
        BY <2>2 DEF Held
    <2>4. \A x, y \in Node : transferable'[x][y] \subseteq transferable[x][y]
        BY SMTT(30), <1>9, <2>1 DEF Enqueue, TypeOK
    <2>5. \A q \in Thread : delta'[q] \subseteq delta[q]
        BY <1>9, <2>2 DEF Enqueue, Exit, TypeOK
    <2>6. \A x \in Node, k \in Key : Counter(x, k)' = Counter(x, k)
        BY Zenon, <1>9 DEF Enqueue, Counter
    <2>7. \/ buffers' = [buffers EXCEPT ![n][m] = buf] /\ net' = net
          \/ buffers' = [buffers EXCEPT ![n][m] = {}] /\ net' = net \cup {Datagram(m, buf)}
        BY Zenon, <1>9, <2>1 DEF Enqueue
    <2>8. Datagram(m, buf).hits = buf
        BY Zenon DEF Datagram
    <2>9. \A x, y \in Node : buffers'[x][y] \subseteq buffers[x][y] \cup buf
        <3>1. \A v : \A x, y \in Node :
                 [buffers EXCEPT ![n][m] = v][x][y] \subseteq buffers[x][y] \cup v
            BY Zenon DEF TypeOK
        <3> HIDE DEF buf
        <3>2. CASE buffers' = [buffers EXCEPT ![n][m] = buf]
            BY Zenon, <3>1, <3>2
        <3>3. CASE buffers' = [buffers EXCEPT ![n][m] = {}]
            BY <3>1, <3>3
        <3> QED
            BY <2>7, <3>2, <3>3
    <2>10. \A b \in net' : b \in net \/ b.hits = buf
        BY Zenon, <2>7, <2>8
    <2> HIDE DEF buf
    <2> QED
        BY <1>1, <2>3, <2>4, <2>5, <2>6, <2>9, <2>10 DEF Held
<1>10. ASSUME NEW n \in Node, Flush(n)  PROVE Held(g)
    <2>1. \A x, y \in Node : buffers'[x][y] \subseteq buffers[x][y]
        BY Zenon, <1>10 DEF Flush, TypeOK
    <2>2. \A b \in net' : b \in net \/ \E m \in Node : b = Datagram(m, buffers[n][m])
        BY Zenon, <1>10 DEF Flush
    <2>3. \A m \in Node : Datagram(m, buffers[n][m]).hits = buffers[n][m]
        BY Zenon DEF Datagram
    <2>4. /\ UNCHANGED <<transferable, delta>>
          /\ \A x \in Node, k \in Key : Counter(x, k)' = Counter(x, k)
        BY Zenon, <1>10 DEF Flush, Counter
    <2>5. \A b \in net' : g \in b.hits => Held(g)
        BY <2>2, <2>3 DEF Held
    <2> QED
        BY <1>1, <2>1, <2>4, <2>5 DEF Held
<1>11. ASSUME NEW b \in net, Receive(b)  PROVE Held(g)
    <2>1. b.to \in Thread
        BY Zenon DEF TypeOK, Batch, Thread
    <2>2. delta'[b.to] = b.hits /\ \A q \in Thread \ {b.to} : delta'[q] = delta[q]
        BY ZenonT(60), <1>11, <2>1 DEF Receive, TypeOK
    <2>3. /\ net' = net \ {b} /\ UNCHANGED <<transferable, buffers>>
          /\ \A x \in Node, k \in Key : Counter(x, k)' = Counter(x, k)
        BY ZenonT(60), <1>11 DEF Receive, Counter
    <2> QED
        BY <1>1, <2>2, <2>3 DEF Held
<1>12. ASSUME NEW n \in Node, NEW S \in View, UpdateNodes(n, S)  PROVE Held(g)
    <2>1. \A x \in Node, k \in Key : Counter(x, k)' \subseteq Counter(x, k)
        BY SMTT(30), <1>12 DEF UpdateNodes, Counter, TypeOK
    <2>2. \A x, y \in Node : g \in transferable'[x][y] =>
             g \in transferable[x][y] \/ \E k \in Key : g \in Counter(n, k)
        BY SMTT(30), <1>12 DEF UpdateNodes, Moved, TypeOK
    <2>3. UNCHANGED <<buffers, net, delta>>
        BY Zenon, <1>12 DEF UpdateNodes
    <2> QED
        BY SMTT(60), <1>1, <2>1, <2>2, <2>3 DEF Held
<1>13. ASSUME NEW n \in Node, NEW k \in Key, Expire(n, k)  PROVE Held(g)
    <2>1. \A x \in Node, j \in Key : Counter(x, j)' \subseteq Counter(x, j)
        BY SMTT(30), <1>13 DEF Expire, Counter, TypeOK
    <2> QED
        BY SMTT(60), <1>2, <1>13, <2>1 DEF Expire
<1>14. ASSUME NEW h \in Hit, Process(h)  PROVE Held(g)
    BY <1>4, <1>5, <1>9, <1>14 DEF Process, ReadOwner, TestOwner, DropBulk, ReturnBulk, Evaluate
<1>15. ASSUME NEW p \in Thread, Increment(p)  PROVE Held(g)
    BY Zenon, <1>4, <1>7, <1>8, <1>15 DEF Increment, Lookup
<1>16. ASSUME NEW n \in Node, Handler(n) \/ Flush(n)  PROVE Held(g)
    <2>1. ASSUME NEW k \in Key, NextEntry(n, k)  PROVE Held(g)
        BY Zenon, <1>4, <2>1 DEF NextEntry
    <2>2. ASSUME NEW b \in net, Receive(b)  PROVE Held(g)
        BY Zenon, <1>11, <2>2
    <2>3. ASSUME Flush(n)  PROVE Held(g)
        BY Zenon, <1>10, <2>3
    <2> QED
        BY ZenonT(60), <1>16, <2>1, <2>2, <2>3 DEF Handler
<1>17. ASSUME NEW b \in net, Lose(b)  PROVE Held(g)
    BY Zenon, <1>3, <1>17 DEF Lose
<1>18. ASSUME NEW n \in Node, NEW k \in Key, ReceiveBlock(n, k) \/ Unblock(n, k)  PROVE Held(g)
    BY Zenon, <1>4, <1>18 DEF ReceiveBlock, Unblock
<1> QED
    BY SMTT(60), <1>12, <1>13, <1>14, <1>15, <1>16, <1>17, <1>18 DEF Later

-----------------------------------------------------------------------------
\* With no hit in two places, the abstract count is 1 or 0.
LEMMA CountedIfHeld ==
    IInv => countedTimes = [h \in Hit |-> IF Held(h) THEN 1 ELSE 0]
<1> SUFFICES ASSUME IInv, NEW h \in Hit
             PROVE  (IF Where(h) = {} THEN 0
                     ELSE IF \A p, q \in Where(h) : p = q THEN 1 ELSE 2)
                    = IF Held(h) THEN 1 ELSE 0
    BY Zenon DEF countedTimes
<1>1. \A p, q \in Where(h) : p = q
    BY Zenon, DisjointPlaces DEF IInv, NoDoubleCount
<1> QED
    BY Zenon, <1>1, WhereHeld

\* The same after a step.
LEMMA CountedIfHeldAfter ==
    IInv' => (countedTimes = [h \in Hit |-> IF Held(h) THEN 1 ELSE 0])'
BY CountedIfHeld, PTL

-----------------------------------------------------------------------------
(* The refinement. *)

\* After its arrival a hit stays accepted or refused.
LEMMA DecisionStays ==
    ASSUME TypeOK, ThreadInv, Later
    PROVE  UNCHANGED <<acceptedHits, refusedHits>>
<1> USE DEF cacheVars, flushVars, threadVars, blockVars
<1>1. ASSUME NEW p \in Thread, pc[p] \notin {"new", "denied"}, NEW v,
             v \notin {"new", "denied"}, pc' = [pc EXCEPT ![p] = v]
      PROVE  UNCHANGED <<acceptedHits, refusedHits>>
    BY <1>1 DEF acceptedHits, refusedHits, TypeOK, Thread
<1>2. ASSUME UNCHANGED pc  PROVE UNCHANGED <<acceptedHits, refusedHits>>
    BY Zenon, <1>2 DEF acceptedHits, refusedHits
<1>3. ASSUME NEW g \in Hit, Process(g)  PROVE UNCHANGED <<acceptedHits, refusedHits>>
    <2>1. g \in Thread
        BY Zenon DEF Thread
    <2>2. /\ pc[g] \notin {"new", "denied"}
          /\ \E v \in {"isOwner", "lookup", "enqueue", "done"} : pc' = [pc EXCEPT ![g] = v]
        BY Zenon, <1>3 DEF Process, ReadOwner, TestOwner, DropBulk, ReturnBulk, Evaluate, Enqueue, Exit
    <2> QED
        BY Zenon, <1>1, <2>1, <2>2
<1>4. ASSUME NEW p \in Thread, Increment(p)  PROVE UNCHANGED <<acceptedHits, refusedHits>>
    <2>1. /\ pc[p] \notin {"new", "denied"}
          /\ \E v \in {"apply", "idle", "return", "evaluate"} : pc' = [pc EXCEPT ![p] = v]
        BY Zenon, <1>4 DEF Increment, Lookup, AddToCounter, StoreCounter, Returns, AfterIncrement
    <2> QED
        BY Zenon, <1>1, <2>1
<1>5. ASSUME NEW n \in Node, Handler(n) \/ Flush(n)
      PROVE  UNCHANGED <<acceptedHits, refusedHits>>
    <2>1. n \in Thread
        BY Zenon DEF Thread
    <2> QED
        BY <1>1, <1>2, <1>5, <2>1 DEF Handler, Receive, NextEntry, Flush
<1>6. ASSUME NEW b \in net, Lose(b)  PROVE UNCHANGED <<acceptedHits, refusedHits>>
    BY Zenon, <1>2, <1>6 DEF Lose
<1>7. ASSUME NEW n \in Node, NEW S \in View, UpdateNodes(n, S)
      PROVE  UNCHANGED <<acceptedHits, refusedHits>>
    BY Zenon, <1>2, <1>7 DEF UpdateNodes
<1>8. ASSUME NEW n \in Node, NEW k \in Key, Expire(n, k) \/ ReceiveBlock(n, k) \/ Unblock(n, k)
      PROVE  UNCHANGED <<acceptedHits, refusedHits>>
    BY Zenon, <1>2, <1>8 DEF Expire, ReceiveBlock, Unblock
<1> QED
    BY SMTT(60), <1>3, <1>4, <1>5, <1>6, <1>7, <1>8 DEF Later

\* The initial state is the initial state of the central limiter.
LEMMA InitRefines == Init => Central!Init
<1> SUFFICES ASSUME Init PROVE Central!Init
    BY Zenon
<1>1. acceptedHits = {} /\ refusedHits = {}
    BY Zenon, ConstantsAssumption DEF Init, acceptedHits, refusedHits, Thread
<1>2. blockedKeys = {}
    BY Zenon DEF Init, blockedKeys
<1>3. \A h \in Hit : ~Held(h)
    BY Zenon DEF Init, Held, Counter
<1>4. countedTimes = [h \in Hit |-> 0]
    BY Zenon, <1>3, InitIInv, CountedIfHeld
<1> QED
    BY Zenon, <1>1, <1>2, <1>4 DEF Central!Init

\* Every step is a step of the central limiter, or leaves it unchanged.
LEMMA StepRefines == IInv /\ IInv' /\ [Next]_vars => [Central!Next]_(Central!vars)
<1> SUFFICES ASSUME IInv, IInv', [Next]_vars PROVE [Central!Next]_(Central!vars)
    BY Zenon
<1> USE DEF cacheVars, flushVars, threadVars, blockVars
<1>0. TypeOK /\ ThreadInv /\ CountInv
    BY Zenon DEF IInv
<1>1. /\ countedTimes = [h \in Hit |-> IF Held(h) THEN 1 ELSE 0]
      /\ countedTimes' = [h \in Hit |-> IF Held(h)' THEN 1 ELSE 0]
    BY Zenon, CountedIfHeld, CountedIfHeldAfter
<1>2. ASSUME NEW h \in Hit, NEW n \in Node, Check(h, n) \/ StartBulkLoad(h, n)
      PROVE  Central!Accept(h)
    <2>1. h \notin acceptedHits \cup refusedHits
        BY SMTT(60), <1>2 DEF Check, StartBulkLoad, acceptedHits, refusedHits
    <2>2. acceptedHits' = acceptedHits \cup {h} /\ refusedHits' = refusedHits
        BY SMTT(30), <1>0, <1>2 DEF Check, StartBulkLoad, acceptedHits, refusedHits, TypeOK, Thread
    <2>3. blockedKeys' = blockedKeys
        BY Zenon, <1>2 DEF Check, StartBulkLoad, blockedKeys
    <2>4. countedTimes' = [countedTimes EXCEPT ![h] = 1]
        BY <1>0, <1>1, <1>2, ArrivalHolds
    <2> QED
        BY ZenonT(60), <2>1, <2>2, <2>3, <2>4 DEF Central!Accept
<1>3. ASSUME NEW h \in Hit, NEW n \in Node, Deny(h, n)  PROVE Central!Refuse(h)
    <2>1. h \notin acceptedHits \cup refusedHits \cup Bulk /\ KeyOf[h] \in blockedKeys
        BY ZenonT(60), <1>3, ConstantsAssumption DEF Deny, acceptedHits, refusedHits, blockedKeys
    <2>2. acceptedHits' = acceptedHits /\ refusedHits' = refusedHits \cup {h}
        BY <1>0, <1>3 DEF Deny, acceptedHits, refusedHits, TypeOK, Thread
    <2>3. blockedKeys' = blockedKeys
        BY Zenon, <1>3 DEF Deny, blockedKeys
    <2>4. \A g \in Hit : Held(g)' <=> Held(g)
        BY Zenon, <1>3 DEF Deny, Held, Counter
    <2> QED
        BY SMTT(60), <1>1, <2>1, <2>2, <2>3, <2>4 DEF Central!Refuse
\* Any later step that leaves the blocklists alone forgets the hits it drops.
<1>4. ASSUME Later, blockedKeys' = blockedKeys
      PROVE  \E D \in SUBSET Hit : Central!Forget(D)
    <2> DEFINE D == {g \in Hit : ~Held(g)'}
    <2>1. countedTimes' = [h \in Hit |-> IF h \in D THEN 0 ELSE countedTimes[h]]
        BY <1>0, <1>1, <1>4, NeverHeldAgain
    <2>2. UNCHANGED <<acceptedHits, refusedHits>>
        BY Zenon, <1>0, <1>4, DecisionStays
    <2> QED
        BY ZenonT(60), <1>4, <2>1, <2>2 DEF Central!Forget
<1>5. ASSUME NEW h \in Hit, Evaluate(h), Exceeds(count[h])
      PROVE  Central!Block(KeyOf[h])
    <2>1. Later
        BY Zenon, <1>5 DEF Later, Process
    <2>2. UNCHANGED <<acceptedHits, refusedHits>>
        BY SMTT(60), <1>0, <2>1, DecisionStays
    <2>3. \A p \in Thread : delta'[p] = delta[p]
        <3>1. delta[h] = {}
            BY Zenon, <1>0, <1>5 DEF Evaluate, ThreadInv
        <3> QED
            BY SMTT(30), <1>0, <1>5, <3>1 DEF Evaluate, Exit, TypeOK
    <2>4. \A g \in Hit : Held(g)' <=> Held(g)
        BY Zenon, <1>5, <2>3 DEF Evaluate, Held, Counter
    <2>5. blockedKeys' = blockedKeys \cup {KeyOf[h]}
        <3>1. PICK S \in View :
                 /\ blocked' = [blocked EXCEPT ![at[h]] = @ \cup {KeyOf[h]}]
                 /\ events' = events \cup {<<m, KeyOf[h]>> : m \in S \ {at[h]}}
            BY Zenon, <1>5 DEF Evaluate
        <3>2. at[h] \in Node /\ KeyOf[h] \in Key
            BY ZenonT(30), <1>0, <1>5, ConstantsAssumption DEF Evaluate, TypeOK
        <3>3. \A n \in Node, k \in Key : k \in blocked'[n] \/ <<n, k>> \in events' =>
                 k \in blocked[n] \/ <<n, k>> \in events \/ k = KeyOf[h]
            BY Zenon, <1>0, <3>1 DEF TypeOK
        <3>4. \A n \in Node, k \in Key : k \in blocked[n] \/ <<n, k>> \in events =>
                 k \in blocked'[n] \/ <<n, k>> \in events'
            BY ZenonT(60), <1>0, <3>1 DEF TypeOK
        <3>5. KeyOf[h] \in blocked'[at[h]]
            BY <1>0, <3>1, <3>2 DEF TypeOK
        <3> QED
            BY Zenon, <3>2, <3>3, <3>4, <3>5 DEF blockedKeys
    <2>6. Central!AcceptedOf(KeyOf[h]) = Accepted(KeyOf[h])
        BY Zenon DEF Central!AcceptedOf, Accepted, acceptedHits
    <2>7. h \in Accepted(KeyOf[h]) \ Bulk
        BY Zenon, <1>0, <1>5 DEF Evaluate, Accepted, ThreadInv
    <2>8. /\ count[h] \in Nat /\ count[h] > Limit
          /\ count[h] <= Cardinality(Accepted(KeyOf[h]))
        BY Zenon, <1>0, <1>5 DEF Evaluate, Exceeds, CountInv, TypeOK
    <2>9. Cardinality(Accepted(KeyOf[h])) \in Nat
        BY Zenon, CardinalityInNat DEF Accepted
    <2>10. Cardinality(Accepted(KeyOf[h])) > Limit
        BY <2>8, <2>9, ConstantsAssumption
    <2>11. countedTimes' = countedTimes
        BY Zenon, <1>1, <2>4
    <2> QED
        BY SMTT(60), <2>2, <2>5, <2>6, <2>7, <2>10, <2>11 DEF Central!Block, Cardinality, Central!Cardinality
<1>6. ASSUME NEW n \in Node, NEW k \in Key, ReceiveBlock(n, k)
      PROVE  blockedKeys' = blockedKeys
    <2>1. \A m \in Node, j \in Key : j \in blocked'[m] \/ <<m, j>> \in events' =>
             j \in blocked[m] \/ <<m, j>> \in events
        BY ZenonT(60), <1>0, <1>6 DEF ReceiveBlock, TypeOK
    <2>2. \A m \in Node, j \in Key : j \in blocked[m] \/ <<m, j>> \in events =>
             j \in blocked'[m] \/ <<m, j>> \in events'
        BY Zenon, <1>0, <1>6 DEF ReceiveBlock, TypeOK
    <2> QED
        BY Zenon, <2>1, <2>2 DEF blockedKeys
<1>7. ASSUME NEW n \in Node, NEW k \in Key, Unblock(n, k), blockedKeys' # blockedKeys
      PROVE  Central!Unblock(k)
    <2>1. Later
        BY Zenon, <1>7 DEF Later
    <2>2. UNCHANGED <<acceptedHits, refusedHits>>
        BY <1>0, <2>1, DecisionStays
    <2>3. \A g \in Hit : Held(g)' <=> Held(g)
        BY Zenon, <1>7 DEF Unblock, Held, Counter
    <2>4. \A m \in Node, j \in Key \ {k} : j \in blocked'[m] \/ <<m, j>> \in events' <=>
             j \in blocked[m] \/ <<m, j>> \in events
        BY SMTT(60), <1>0, <1>7 DEF Unblock, TypeOK
    <2>5. \A m \in Node : k \in blocked'[m] \/ <<m, k>> \in events' =>
             k \in blocked[m] \/ <<m, k>> \in events
        BY <1>0, <1>7 DEF Unblock, TypeOK
    <2>6. blockedKeys' = blockedKeys \ {k}
        BY ZenonT(30), <1>7, <2>4, <2>5 DEF blockedKeys
    <2>7. countedTimes' = countedTimes
        BY Zenon, <1>1, <2>3
    <2> QED
        BY Zenon, <2>2, <2>6, <2>7 DEF Central!Unblock
\* The remaining later steps do not touch the blocklists.
<1>8. ASSUME Later
      PROVE  \/ \E D \in SUBSET Hit : Central!Forget(D)
             \/ \E k \in Key : Central!Block(k) \/ Central!Unblock(k)
    <2>1. ASSUME UNCHANGED blockVars  PROVE \E D \in SUBSET Hit : Central!Forget(D)
        BY ZenonT(60), <1>4, <1>8, <2>1 DEF blockedKeys
    <2>2. ASSUME NEW h \in Hit, Evaluate(h)
          PROVE  UNCHANGED blockVars \/ \E k \in Key : Central!Block(k)
        BY SMTT(60), <1>5, <2>2, ConstantsAssumption DEF Evaluate
    <2>3. ASSUME NEW h \in Hit, Process(h)
          PROVE  UNCHANGED blockVars \/ Evaluate(h)
        BY <2>3 DEF Process, ReadOwner, TestOwner, DropBulk, ReturnBulk, Enqueue
    <2>4. ASSUME NEW p \in Thread, Increment(p)  PROVE UNCHANGED blockVars
        BY Zenon, <2>4 DEF Increment, Lookup, AddToCounter, StoreCounter, Returns
    <2>5. ASSUME NEW n \in Node, Handler(n) \/ Flush(n)  PROVE UNCHANGED blockVars
        BY Zenon, <2>5 DEF Handler, Receive, NextEntry, Flush
    <2>6. ASSUME NEW b \in net, Lose(b)  PROVE UNCHANGED blockVars
        BY Zenon, <2>6 DEF Lose
    <2>7. ASSUME NEW n \in Node, NEW S \in View, UpdateNodes(n, S)  PROVE UNCHANGED blockVars
        BY Zenon, <2>7 DEF UpdateNodes
    <2>8. ASSUME NEW n \in Node, NEW k \in Key, Expire(n, k)  PROVE UNCHANGED blockVars
        BY Zenon, <2>8 DEF Expire
    <2> QED
        BY ZenonT(60), <1>4, <1>6, <1>7, <1>8, <2>1, <2>2, <2>3, <2>4, <2>5, <2>6, <2>7, <2>8 DEF Later
<1>9. CASE UNCHANGED vars
    <2>1. UNCHANGED <<acceptedHits, refusedHits, blockedKeys>>
        BY SMTT(30), <1>9 DEF vars, acceptedHits, refusedHits, blockedKeys
    <2>2. countedTimes' = countedTimes
        <3>1. UNCHANGED <<counters, heap, transferable, buffers, net, delta>>
            BY Zenon, <1>9 DEF vars
        <3> QED
            BY SMTT(30), <3>1 DEF countedTimes, Where, Counter
    <2> QED
        BY <2>1, <2>2 DEF Central!vars
<1>10. CASE Next
    <2>1. \/ \E h \in Hit, n \in Node : Check(h, n) \/ Deny(h, n) \/ StartBulkLoad(h, n)
          \/ Later
        BY Zenon, <1>10 DEF Next, Later
    <2> QED
        BY Zenon, <1>2, <1>3, <1>8, <2>1 DEF Central!Next
<1> QED
    BY Zenon, <1>9, <1>10

\* The distributed accounting implements the central limiter for any number of
\* nodes, keys and hits, any limit and batch size, and any interleaving of
\* requests, flushes, lost datagrams, ring changes and expiries.
THEOREM Refinement == Spec => ImplementsRateLimiter
<1>1. IInv /\ IInv' /\ [Next]_vars => [Central!Next]_(Central!vars)
    BY Zenon, StepRefines
<1>2. Init => Central!Init
    BY Zenon, InitRefines
<1> QED
    BY <1>1, <1>2, Inductive, PTL DEF Spec, ImplementsRateLimiter, Central!Spec
=============================================================================
