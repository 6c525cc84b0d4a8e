------------------------- MODULE AccountingContents -------------------------
(***************************************************************************)
(* Proofs about Accounting: types, what a goroutine holds at each program  *)
(* counter, which counter objects can be shared; that what the counters,   *)
(* slots, buffers, datagrams and threads hold was accepted, and that no    *)
(* two of them hold the same hit.                                          *)
(***************************************************************************)
EXTENDS Accounting, TLAPS

\* What the program counter of a goroutine says about its local variables.
ThreadInv ==
    /\ \A h \in Hit :
          /\ key[h] = KeyOf[h]
          /\ pc[h] # "idle"
          /\ delta[h] = IF pc[h] \in {"getOwner", "isOwner", "enqueue", "lookup", "apply"}
                          THEN {h} ELSE {}
          /\ pc[h] = "evaluate" => h \notin Bulk
    /\ \A n \in Node : pc[n] \in {"idle", "lookup", "apply"}
    /\ \A p \in Thread : ptr[p] # NoCell => pc[p] = "apply"

\* A counter object belongs to one key of one node, for the cache and for the
\* threads that have looked it up.
CellInv ==
    /\ \A n, m \in Node, k, j \in Key :
          counters[n][k] # NoCell /\ counters[n][k] = counters[m][j] => n = m /\ k = j
    /\ \A p \in Thread, n \in Node, k \in Key :
          ptr[p] # NoCell /\ ptr[p] = counters[n][k] => n = Site(p) /\ k = key[p]
    /\ \A p, q \in Thread :
          ptr[p] # NoCell /\ ptr[p] = ptr[q] => key[p] = key[q]

-----------------------------------------------------------------------------
(* Type correctness. *)

\* The owner that GetOwner computes is a node, on an empty ring too.
LEMMA OwnerInNode ==
    ASSUME NEW S \in SUBSET Node, NEW n \in Node, NEW k \in Key
    PROVE  OwnerIn(S, n, k) \in Node
BY Zenon, ConstantsAssumption DEF OwnerIn

\* Initially every variable has its type.
LEMMA InitTypeOK == Init => TypeOK
<1> SUFFICES ASSUME Init PROVE TypeOK
    BY Zenon
<1>1. key \in [Thread -> Key]
    BY Zenon, ConstantsAssumption DEF Init, Thread
<1> QED
    BY <1>1, ConstantsAssumption DEF Init, TypeOK, Thread

\* The value of a counter is a number (a fact of finite sets: AccountingProofs).
Countable == \A D \in SUBSET Hit : Cardinality(D) \in Nat

\* Every step keeps the types, when the value of a counter is a number.
LEMMA StepTypes ==
    ASSUME Countable, TypeOK, [Next]_vars
    PROVE  TypeOK'
<1> USE ConstantsAssumption DEF TypeOK, Thread, cacheVars, flushVars, threadVars, blockVars
<1>1. ASSUME NEW h \in Hit, NEW n \in Node, Check(h, n)  PROVE TypeOK'
    BY <1>1 DEF Check
<1>2. ASSUME NEW h \in Hit, NEW n \in Node, Deny(h, n)  PROVE TypeOK'
    BY Zenon, <1>2 DEF Deny
<1>3. ASSUME NEW h \in Hit, NEW n \in Node, StartBulkLoad(h, n)  PROVE TypeOK'
    BY <1>3 DEF StartBulkLoad
<1>4. ASSUME NEW h \in Hit, ReadOwner(h)  PROVE TypeOK'
    <2>1. at[h] \in Node /\ ring[at[h]] \in SUBSET Node /\ KeyOf[h] \in Key
        BY SMTT(60), <1>4 DEF ReadOwner
    <2>2. GetOwner(at[h], KeyOf[h]) \in Node
        BY Zenon, <2>1, OwnerInNode DEF GetOwner
    <2> QED
        BY <1>4, <2>2 DEF ReadOwner
<1>5. ASSUME NEW h \in Hit, TestOwner(h)  PROVE TypeOK'
    BY Zenon, <1>5 DEF TestOwner
<1>6. ASSUME NEW h \in Hit, DropBulk(h)  PROVE TypeOK'
    BY <1>6 DEF DropBulk, Exit
<1>7. ASSUME NEW h \in Hit, ReturnBulk(h)  PROVE TypeOK'
    BY <1>7 DEF ReturnBulk, Exit
<1>8. ASSUME NEW h \in Hit, Enqueue(h)  PROVE TypeOK'
    <2>1. at[h] \in Node /\ owner[h] \in Node
        BY Zenon, <1>8 DEF Enqueue
    <2>2. net' \subseteq Batch
        BY <1>8, <2>1 DEF Enqueue, Batch, Datagram
    <2>3. transferable' \in [Node -> [Node -> SUBSET Hit]]
        BY <1>8, <2>1 DEF Enqueue
    <2>4. buffers' \in [Node -> [Node -> SUBSET Hit]]
        BY <1>8, <2>1 DEF Enqueue
    <2>5. /\ UNCHANGED <<ring, counters, heap, key, ptr, blocked, events>>
          /\ Exit(h)
        BY Zenon, <1>8 DEF Enqueue, Exit
    <2> QED
        BY <2>2, <2>3, <2>4, <2>5 DEF Exit
<1>9. ASSUME NEW h \in Hit, Evaluate(h)  PROVE TypeOK'
    <2>1. at[h] \in Node /\ KeyOf[h] \in Key
        BY ZenonT(60), <1>9 DEF Evaluate
    <2>2. blocked' \in [Node -> SUBSET Key]
        <3>1. \/ blocked' = blocked
              \/ blocked' = [blocked EXCEPT ![at[h]] = @ \cup {KeyOf[h]}]
            BY Zenon, <1>9 DEF Evaluate
        <3>2. PICK n \in Node, k \in Key : n = at[h] /\ k = KeyOf[h]
            BY Zenon, <2>1
        <3>3. [blocked EXCEPT ![n] = @ \cup {k}] \in [Node -> SUBSET Key]
            OBVIOUS
        <3> QED
            BY Zenon, <3>1, <3>2, <3>3
    <2>3. events' \subseteq Node \X Key
        <3>1. CASE Exceeds(count[h])
            <4>1. PICK S \in View :
                     events' = events \cup {<<m, KeyOf[h]>> : m \in S \ {at[h]}}
                BY Zenon, <1>9, <3>1 DEF Evaluate
            <4>2. S \subseteq Node
                BY Zenon
            <4> QED
                BY <2>1, <4>1, <4>2
        <3>2. CASE ~Exceeds(count[h])
            BY Zenon, <1>9, <3>2 DEF Evaluate
        <3> QED
            BY Zenon, <3>1, <3>2
    <2> QED
        BY <1>9, <2>2, <2>3 DEF Evaluate, Exit
<1>10. ASSUME NEW p \in Thread, Lookup(p)  PROVE TypeOK'
    <2>1. Site(p) \in Node
        BY SMTT(30), <1>10 DEF Lookup, Site
    <2> QED
        BY <1>10, <2>1 DEF Lookup
<1>11. ASSUME NEW p \in Thread, AddToCounter(p)  PROVE TypeOK'
    <2>1. heap' \in [Cell -> SUBSET Hit]
        BY <1>11 DEF AddToCounter, Of
    <2>2. count' \in [Hit -> Nat]
        BY <1>11 DEF AddToCounter, Returns, Of, Countable
    <2> QED
        BY Zenon, <1>11, <2>1, <2>2 DEF AddToCounter, Returns, AfterIncrement, Of
<1>12. ASSUME NEW p \in Thread, StoreCounter(p)  PROVE TypeOK'
    <2> DEFINE c == CHOOSE x \in FreeCell : TRUE
               D == Of(delta[p], key[p])
    <2>1. c \in Cell
        BY <1>12 DEF StoreCounter, FreeCell
    <2>2. Site(p) \in Node /\ key[p] \in Key /\ D \in SUBSET Hit
        BY Zenon, <1>12 DEF StoreCounter, Site, Of
    <2>3. heap' \in [Cell -> SUBSET Hit]
        BY Zenon, <1>12, <2>1, <2>2 DEF StoreCounter
    <2>4. counters' \in [Node -> [Key -> Cell \cup {NoCell}]]
        BY <1>12, <2>1, <2>2 DEF StoreCounter
    <2>5. count' \in [Hit -> Nat]
        BY Zenon, <1>12, <2>2 DEF StoreCounter, Returns, Countable
    <2> QED
        BY <1>12, <2>3, <2>4, <2>5 DEF StoreCounter, Returns, AfterIncrement, Of
<1>13. ASSUME NEW n \in Node, Flush(n)  PROVE TypeOK'
    <2>1. net' \subseteq Batch
        BY <1>13 DEF Flush, Batch, Datagram
    <2> QED
        BY Zenon, <1>13, <2>1 DEF Flush
<1>14. ASSUME NEW b \in net, Lose(b)  PROVE TypeOK'
    BY Zenon, <1>14 DEF Lose
<1>15. ASSUME NEW b \in net, Receive(b)  PROVE TypeOK'
    BY Zenon, <1>15 DEF Receive, Batch
<1>16. ASSUME NEW n \in Node, NEW k \in Key, NextEntry(n, k)  PROVE TypeOK'
    BY Zenon, <1>16 DEF NextEntry
<1>17. ASSUME NEW n \in Node, NEW S \in View, UpdateNodes(n, S)  PROVE TypeOK'
    <2>1. \A m \in Node : Moved(n, S, m) \in SUBSET Hit
        BY DEF Moved, Counter
    <2>2. transferable' \in [Node -> [Node -> SUBSET Hit]]
        BY <1>17, <2>1 DEF UpdateNodes
    <2>3. counters' \in [Node -> [Key -> Cell \cup {NoCell}]]
        BY <1>17 DEF UpdateNodes
    <2> QED
        BY Zenon, <1>17, <2>2, <2>3 DEF UpdateNodes
<1>18. ASSUME NEW n \in Node, NEW k \in Key, Expire(n, k)  PROVE TypeOK'
    BY Zenon, <1>18 DEF Expire
<1>19. ASSUME NEW n \in Node, NEW k \in Key, ReceiveBlock(n, k)  PROVE TypeOK'
    BY <1>19 DEF ReceiveBlock
<1>20. ASSUME NEW n \in Node, NEW k \in Key, Unblock(n, k)  PROVE TypeOK'
    BY Zenon, <1>20 DEF Unblock
<1>21. CASE UNCHANGED vars
    BY Zenon, <1>21 DEF vars
<1> QED
    BY ZenonT(30), <1>1, <1>2, <1>3, <1>4, <1>5, <1>6, <1>7, <1>8, <1>9, <1>10, <1>11, <1>12,
       <1>13, <1>14, <1>15, <1>16, <1>17, <1>18, <1>19, <1>20, <1>21
       DEF Next, Process, Increment, Handler

-----------------------------------------------------------------------------
(* Program counters and local variables. *)

\* ThreadInv holds before any goroutine has started.
LEMMA InitThreadInv == Init => ThreadInv
BY ConstantsAssumption DEF Init, ThreadInv, Thread

\* Every step moves a goroutine and its local variables together.
LEMMA NextThreadInv == TypeOK /\ ThreadInv /\ [Next]_vars => ThreadInv'
<1> SUFFICES ASSUME TypeOK, ThreadInv, [Next]_vars PROVE ThreadInv'
    BY Zenon
<1> USE ConstantsAssumption
    DEF TypeOK, ThreadInv, Thread, cacheVars, flushVars, threadVars, blockVars
<1>1. ASSUME NEW h \in Hit, NEW n \in Node, Check(h, n)  PROVE ThreadInv'
    BY Zenon, <1>1 DEF Check
<1>2. ASSUME NEW h \in Hit, NEW n \in Node, Deny(h, n)  PROVE ThreadInv'
    BY Zenon, <1>2 DEF Deny
<1>3. ASSUME NEW h \in Hit, NEW n \in Node, StartBulkLoad(h, n)  PROVE ThreadInv'
    BY Zenon, <1>3 DEF StartBulkLoad
<1>4. ASSUME NEW h \in Hit, ReadOwner(h)  PROVE ThreadInv'
    BY Zenon, <1>4 DEF ReadOwner
<1>5. ASSUME NEW h \in Hit, TestOwner(h)  PROVE ThreadInv'
    BY Zenon, <1>5 DEF TestOwner
<1>6. ASSUME NEW h \in Hit, Exit(h), pc[h] # "apply"  PROVE ThreadInv'
    <2>1. \A g \in Hit \ {h} : pc'[g] = pc[g] /\ delta'[g] = delta[g]
        BY Zenon, <1>6 DEF Exit
    <2>2. pc'[h] = "done" /\ delta'[h] = {}
        BY Zenon, <1>6 DEF Exit
    <2>3. \A n \in Node : pc'[n] = pc[n]
        BY <1>6 DEF Exit
    <2>4. key' = key /\ ptr' = ptr
        BY Zenon, <1>6 DEF Exit
    <2> QED
        BY ZenonT(30), <1>6, <2>1, <2>2, <2>3, <2>4
<1>7. ASSUME NEW p \in Thread, Lookup(p)  PROVE ThreadInv'
    BY Zenon, <1>7 DEF Lookup
<1>8. ASSUME NEW p \in Thread, NEW D, Returns(p, D), pc[p] = "apply"  PROVE ThreadInv'
    <2>1. \A q \in Thread \ {p} : pc'[q] = pc[q] /\ delta'[q] = delta[q] /\ ptr'[q] = ptr[q]
        BY Zenon, <1>8 DEF Returns
    <2>2. /\ pc'[p] = AfterIncrement(p)
          /\ delta'[p] = delta[p] \ Of(delta[p], key[p])
          /\ ptr'[p] = NoCell
        BY Zenon, <1>8 DEF Returns
    <2>3. key' = key
        BY Zenon, <1>8 DEF Returns
    <2>4. p \in Hit => delta'[p] = {}
        BY <1>8, <2>2 DEF Of
    <2>5. /\ p \in Node => pc'[p] = "idle"
          /\ p \in Hit => pc'[p] \in {"return", "evaluate"}
          /\ p \in Bulk => pc'[p] = "return"
        BY Zenon, <2>2 DEF AfterIncrement
    <2>6. ASSUME NEW h \in Hit
          PROVE  /\ key'[h] = KeyOf[h] /\ pc'[h] # "idle"
                 /\ delta'[h] = IF pc'[h] \in {"getOwner", "isOwner", "enqueue", "lookup", "apply"}
                                  THEN {h} ELSE {}
                 /\ pc'[h] = "evaluate" => h \notin Bulk
        <3>1. CASE h = p
            BY Zenon, <2>3, <2>4, <2>5, <3>1
        <3>2. CASE h # p
            BY ZenonT(60), <2>1, <2>3, <3>2
        <3> QED
            BY Zenon, <3>1, <3>2
    <2>7. ASSUME NEW n \in Node  PROVE pc'[n] \in {"idle", "lookup", "apply"}
        <3>1. CASE n = p
            BY Zenon, <2>5, <3>1
        <3>2. CASE n # p
            <4>1. pc'[n] = pc[n]
                BY Zenon, <2>1, <3>2
            <4> QED
                BY Zenon, <4>1
        <3> QED
            BY Zenon, <3>1, <3>2
    <2>8. \A q \in Thread : ptr'[q] # NoCell => pc'[q] = "apply"
        BY SMTT(30), <2>1, <2>2
    <2> QED
        BY Zenon, <2>6, <2>7, <2>8
<1>9. ASSUME NEW b \in net, Receive(b)  PROVE ThreadInv'
    BY ZenonT(60), <1>9 DEF Receive, Batch
<1>10. ASSUME NEW n \in Node, NEW k \in Key, NextEntry(n, k)  PROVE ThreadInv'
    BY Zenon, <1>10 DEF NextEntry
<1>11. ASSUME UNCHANGED threadVars  PROVE ThreadInv'
    BY Zenon, <1>11
<1> HIDE DEF TypeOK, ThreadInv, Thread
<1>12. ASSUME NEW h \in Hit, Process(h)  PROVE ThreadInv'
    BY Zenon, <1>4, <1>5, <1>6, <1>12 DEF Process, DropBulk, ReturnBulk, Evaluate, Enqueue
<1>13. ASSUME NEW p \in Thread, Increment(p)  PROVE ThreadInv'
    BY <1>7, <1>8, <1>13 DEF Increment, AddToCounter, StoreCounter
<1>14. ASSUME NEW n \in Node, Handler(n) \/ Flush(n)  PROVE ThreadInv'
    BY Zenon, <1>9, <1>10, <1>11, <1>14 DEF Handler, Flush
<1>15. ASSUME NEW b \in net, Lose(b)  PROVE ThreadInv'
    BY Zenon, <1>11, <1>15 DEF Lose
<1>16. ASSUME NEW n \in Node, NEW S \in View, UpdateNodes(n, S)  PROVE ThreadInv'
    BY Zenon, <1>11, <1>16 DEF UpdateNodes
<1>17. ASSUME NEW n \in Node, NEW k \in Key, Expire(n, k) \/ ReceiveBlock(n, k) \/ Unblock(n, k)
       PROVE  ThreadInv'
    BY Zenon, <1>11, <1>17 DEF Expire, ReceiveBlock, Unblock
<1>18. CASE UNCHANGED vars
    BY Zenon, <1>11, <1>18 DEF vars
<1> QED
    BY Zenon, <1>1, <1>2, <1>3, <1>12, <1>13, <1>14, <1>15, <1>16, <1>17, <1>18 DEF Next

-----------------------------------------------------------------------------
(* Counter objects. *)

\* Initially there are no counter objects.
LEMMA InitCellInv == Init => CellInv
BY DEF Init, CellInv

\* Every step keeps the counter objects of different keys and nodes apart.
LEMMA NextCellInv == TypeOK /\ ThreadInv /\ CellInv /\ [Next]_vars => CellInv'
<1> SUFFICES ASSUME TypeOK, ThreadInv, CellInv, [Next]_vars PROVE CellInv'
    BY Zenon
<1> USE DEF cacheVars, flushVars, threadVars, blockVars
<1>1. ASSUME UNCHANGED <<counters, ptr, key>>,
             \A p \in Thread : ptr[p] # NoCell => Site(p)' = Site(p)
      PROVE  CellInv'
    BY <1>1 DEF CellInv
<1>2. ASSUME UNCHANGED <<counters, ptr, key, at>>  PROVE CellInv'
    BY Zenon, <1>1, <1>2 DEF Site
<1>3. ASSUME NEW h \in Hit, UNCHANGED <<counters, ptr, key>>, pc[h] # "apply",
             \A g \in Hit \ {h} : at'[g] = at[g]
      PROVE  CellInv'
    <2>1. ptr[h] = NoCell
        BY Zenon, <1>3 DEF ThreadInv, Thread
    <2> QED
        BY Zenon, <1>1, <1>3, <2>1 DEF Site, Thread
<1>4. ASSUME NEW h \in Hit, NEW n \in Node, Check(h, n) \/ StartBulkLoad(h, n)
      PROVE  CellInv'
    BY ZenonT(30), <1>3, <1>4 DEF Check, StartBulkLoad, TypeOK
<1>5. ASSUME NEW h \in Hit, Exit(h), UNCHANGED counters, pc[h] # "apply"
      PROVE  CellInv'
    BY Zenon, <1>3, <1>5 DEF Exit, TypeOK
<1>6. ASSUME NEW p \in Thread, Lookup(p)  PROVE CellInv'
    <2>1. Site(p) \in Node /\ key[p] \in Key
        BY Zenon, <1>6 DEF Lookup, Site, TypeOK, Thread
    <2>2. ptr'[p] = counters[Site(p)][key[p]]
        BY Zenon, <1>6 DEF Lookup, TypeOK
    <2>3. \A q \in Thread \ {p} : ptr'[q] = ptr[q]
        BY SMTT(30), <1>6 DEF Lookup, TypeOK
    <2>4. UNCHANGED <<counters, key>> /\ \A q \in Thread : Site(q)' = Site(q)
        BY Zenon, <1>6 DEF Lookup, Site
    <2> QED
        BY <2>1, <2>2, <2>3, <2>4 DEF CellInv
<1>7. ASSUME NEW p \in Thread, NEW D, Returns(p, D), UNCHANGED counters  PROVE CellInv'
    <2>1. ptr'[p] = NoCell /\ \A q \in Thread \ {p} : ptr'[q] = ptr[q]
        BY Zenon, <1>7 DEF Returns, TypeOK
    <2>2. UNCHANGED <<counters, key>> /\ \A q \in Thread : Site(q)' = Site(q)
        BY Zenon, <1>7 DEF Returns, Site
    <2> QED
        BY <2>1, <2>2 DEF CellInv
<1>8. ASSUME NEW p \in Thread, StoreCounter(p)  PROVE CellInv'
    <2> DEFINE c == CHOOSE x \in FreeCell : TRUE
    <2>1. Site(p) \in Node /\ key[p] \in Key
        BY Zenon, <1>8 DEF StoreCounter, Site, TypeOK, Thread
    <2>2. c \in FreeCell
        BY Zenon, <1>8 DEF StoreCounter
    <2>3. /\ c # NoCell
          /\ \A q \in Thread : ptr[q] # c
          /\ \A n \in Node, k \in Key : counters[n][k] # c
        BY ConstantsAssumption, <2>2 DEF FreeCell, Referenced
    <2>4. counters'[Site(p)][key[p]] = c
        BY Zenon, <1>8, <2>1 DEF StoreCounter, TypeOK
    <2>5. \A n \in Node, k \in Key : <<n, k>> # <<Site(p), key[p]>> =>
             counters'[n][k] = counters[n][k]
        BY Zenon, <1>8, <2>1 DEF StoreCounter, TypeOK
    <2>6. ptr'[p] = NoCell /\ \A q \in Thread \ {p} : ptr'[q] = ptr[q]
        BY Zenon, <1>8 DEF StoreCounter, Returns, TypeOK
    <2>7. UNCHANGED key /\ \A q \in Thread : Site(q)' = Site(q)
        BY Zenon, <1>8 DEF StoreCounter, Returns, Site
    <2> HIDE DEF c
    <2> QED
        BY <2>1, <2>3, <2>4, <2>5, <2>6, <2>7 DEF CellInv
<1>9. ASSUME NEW n \in Node, NEW k \in Key, NextEntry(n, k)  PROVE CellInv'
    <2>1. ptr[n] = NoCell
        BY Zenon, <1>9 DEF NextEntry, ThreadInv, Thread
    <2>2. \A q \in Thread : q # n => key'[q] = key[q]
        BY Zenon, <1>9 DEF NextEntry, TypeOK
    <2>3. UNCHANGED <<counters, ptr>> /\ \A q \in Thread : Site(q)' = Site(q)
        BY Zenon, <1>9 DEF NextEntry, Site
    <2> QED
        BY <2>1, <2>2, <2>3 DEF CellInv
<1>10. ASSUME UNCHANGED <<ptr, key, at>>,
              \A n \in Node, k \in Key : counters'[n][k] \in {counters[n][k], NoCell}
       PROVE  CellInv'
    <2>1. \A q \in Thread : Site(q)' = Site(q)
        BY Zenon, <1>10 DEF Site
    <2> QED
        BY <1>10, <2>1 DEF CellInv
<1>11. ASSUME NEW n \in Node, NEW S \in View, UpdateNodes(n, S)  PROVE CellInv'
    <2>1. \A m \in Node, k \in Key : counters'[m][k] \in {counters[m][k], NoCell}
        BY Zenon, <1>11 DEF UpdateNodes, TypeOK
    <2> QED
        BY Zenon, <1>10, <1>11, <2>1 DEF UpdateNodes
<1>12. ASSUME NEW n \in Node, NEW k \in Key, Expire(n, k)  PROVE CellInv'
    <2>1. \A m \in Node, j \in Key : counters'[m][j] \in {counters[m][j], NoCell}
        BY SMTT(30), <1>12 DEF Expire, TypeOK
    <2> QED
        BY Zenon, <1>10, <1>12, <2>1 DEF Expire
<1>13. ASSUME NEW h \in Hit, Process(h)  PROVE CellInv'
    BY SMTT(30), <1>2, <1>5, <1>13 DEF Process, ReadOwner, TestOwner, DropBulk, ReturnBulk, Evaluate, Enqueue
<1>14. ASSUME NEW p \in Thread, Increment(p)  PROVE CellInv'
    <2>1. CASE AddToCounter(p)
        <3>1. UNCHANGED counters /\ Returns(p, heap[ptr[p]] \cup Of(delta[p], key[p]))
            BY Zenon, <2>1 DEF AddToCounter
        <3> QED
            BY Zenon, <1>7, <3>1
    <2> QED
        BY Zenon, <1>6, <1>8, <1>14, <2>1 DEF Increment
<1>15. ASSUME NEW n \in Node, Handler(n) \/ Flush(n)  PROVE CellInv'
    BY Zenon, <1>2, <1>9, <1>15 DEF Handler, Receive, Flush
<1>16. ASSUME NEW b \in net, Lose(b)  PROVE CellInv'
    BY Zenon, <1>2, <1>16 DEF Lose
<1>17. ASSUME NEW h \in Hit, NEW n \in Node, Deny(h, n)  PROVE CellInv'
    BY Zenon, <1>2, <1>17 DEF Deny
<1>18. ASSUME NEW n \in Node, NEW k \in Key, ReceiveBlock(n, k) \/ Unblock(n, k)  PROVE CellInv'
    BY Zenon, <1>2, <1>18 DEF ReceiveBlock, Unblock
<1>19. CASE UNCHANGED vars
    BY Zenon, <1>2, <1>19 DEF vars
<1> QED
    BY Zenon, <1>4, <1>11, <1>12, <1>13, <1>14, <1>15, <1>16, <1>17, <1>18, <1>19 DEF Next

-----------------------------------------------------------------------------
\* The request passed the blocklist, or the bulk record was taken up.
IsAccepted(h) == pc[h] \notin {"new", "denied"}

\* A counter, cached or only looked up, holds accepted hits of its own key.
CounterContent ==
    /\ \A n \in Node, k \in Key : Counter(n, k) \subseteq Accepted(k)
    /\ \A p \in Thread : ptr[p] # NoCell => heap[ptr[p]] \subseteq Accepted(key[p])

\* Outside the counters, too, only accepted hits are held.
HeldContent ==
    /\ \A n, m \in Node : \A h \in transferable[n][m] \cup buffers[n][m] : IsAccepted(h)
    /\ \A b \in net : \A h \in b.hits : IsAccepted(h)
    /\ \A p \in Thread : \A h \in delta[p] : IsAccepted(h)

-----------------------------------------------------------------------------
(* Accepted hits, and what counters hold. *)

\* No step takes back an accepted hit.
LEMMA AcceptedGrows ==
    ASSUME TypeOK, [Next]_vars
    PROVE  /\ \A h \in Hit : IsAccepted(h) => IsAccepted(h)'
           /\ \A k \in Key : Accepted(k) \subseteq Accepted(k)'
<1> USE DEF cacheVars, flushVars, threadVars, blockVars
<1> SUFFICES ASSUME NEW h \in Hit, IsAccepted(h) PROVE IsAccepted(h)'
    BY Zenon DEF Accepted, IsAccepted
<1>1. ASSUME NEW p \in Thread, NEW v, v \notin {"new", "denied"}, pc' = [pc EXCEPT ![p] = v]
      PROVE  IsAccepted(h)'
    BY Zenon, <1>1 DEF IsAccepted, TypeOK, Thread
<1>2. ASSUME UNCHANGED pc  PROVE IsAccepted(h)'
    BY Zenon, <1>2 DEF IsAccepted
<1>3. ASSUME NEW g \in Hit, NEW n \in Node, Check(g, n) \/ Deny(g, n) \/ StartBulkLoad(g, n)
      PROVE  IsAccepted(h)'
    BY Zenon, <1>3 DEF Check, Deny, StartBulkLoad, IsAccepted, TypeOK, Thread
<1>4. ASSUME NEW g \in Hit, Process(g)  PROVE IsAccepted(h)'
    <2>1. g \in Thread
        BY Zenon DEF Thread
    <2> QED
        BY Zenon, <1>1, <1>4, <2>1 DEF Process, ReadOwner, TestOwner, DropBulk, ReturnBulk,
                                Evaluate, Enqueue, Exit
<1>5. ASSUME NEW p \in Thread, Increment(p)  PROVE IsAccepted(h)'
    BY Zenon, <1>1, <1>5 DEF Increment, Lookup, AddToCounter, StoreCounter, Returns, AfterIncrement
<1>6. ASSUME NEW n \in Node, Handler(n) \/ Flush(n)  PROVE IsAccepted(h)'
    <2>1. n \in Thread
        BY Zenon DEF Thread
    <2> QED
        BY Zenon, <1>1, <1>2, <1>6, <2>1 DEF Handler, Receive, NextEntry, Flush
<1>7. ASSUME NEW b \in net, Lose(b)  PROVE IsAccepted(h)'
    BY Zenon, <1>2, <1>7 DEF Lose
<1>8. ASSUME NEW n \in Node, NEW S \in View, UpdateNodes(n, S)  PROVE IsAccepted(h)'
    BY Zenon, <1>2, <1>8 DEF UpdateNodes
<1>9. ASSUME NEW n \in Node, NEW k \in Key, Expire(n, k) \/ ReceiveBlock(n, k) \/ Unblock(n, k)
      PROVE  IsAccepted(h)'
    BY Zenon, <1>2, <1>9 DEF Expire, ReceiveBlock, Unblock
<1>10. CASE UNCHANGED vars
    BY Zenon, <1>2, <1>10 DEF vars
<1> QED
    BY Zenon, <1>3, <1>4, <1>5, <1>6, <1>7, <1>8, <1>9, <1>10 DEF Next

\* Initially nothing is held.
LEMMA InitHeldContent == Init => HeldContent
BY DEF Init, HeldContent

\* Batches, datagrams and goroutines only ever pass on accepted hits.
LEMMA NextHeldContent ==
    ASSUME TypeOK, ThreadInv, CounterContent, HeldContent, [Next]_vars
    PROVE  HeldContent'
<1> USE DEF cacheVars, flushVars, threadVars, blockVars
<1>0. \A h \in Hit : IsAccepted(h) => IsAccepted(h)'
    BY Zenon, AcceptedGrows
<1>1. ASSUME UNCHANGED <<transferable, buffers>>, net' \subseteq net,
             \A p \in Thread : delta'[p] \subseteq delta[p]
      PROVE  HeldContent'
    BY <1>0, <1>1 DEF HeldContent, TypeOK, Batch
<1>2. ASSUME NEW h \in Hit, NEW n \in Node, Check(h, n) \/ StartBulkLoad(h, n)
      PROVE  HeldContent'
    <2>1. IsAccepted(h)'
        BY Zenon, <1>2 DEF Check, StartBulkLoad, IsAccepted, TypeOK, Thread
    <2>2. delta' = [delta EXCEPT ![h] = {h}] /\ UNCHANGED flushVars
        BY Zenon, <1>2 DEF Check, StartBulkLoad
    <2>3. \A p \in Thread : delta'[p] \subseteq delta[p] \cup {h}
        BY Zenon, <2>2 DEF TypeOK
    <2> QED
        BY <1>0, <2>1, <2>2, <2>3 DEF HeldContent, TypeOK, Batch
<1>3. ASSUME NEW h \in Hit, Exit(h), UNCHANGED flushVars  PROVE HeldContent'
    BY Zenon, <1>1, <1>3 DEF Exit, TypeOK
<1>4. ASSUME NEW p \in Thread, NEW D, Returns(p, D)  PROVE HeldContent'
    BY Zenon, <1>1, <1>4 DEF Returns, Of, TypeOK
<1>5. ASSUME NEW h \in Hit, Enqueue(h)  PROVE HeldContent'
    <2> DEFINE buf == buffers[at[h]][owner[h]] \cup delta[h] \cup transferable[at[h]][owner[h]]
    <2>1. at[h] \in Node /\ owner[h] \in Node /\ h \in Thread
        BY Zenon, <1>5 DEF Enqueue, TypeOK, Thread
    <2>2. buf \subseteq Hit /\ \A g \in buf : IsAccepted(g)
        BY <2>1 DEF HeldContent, TypeOK
    <2>3. \A n, m \in Node : /\ transferable'[n][m] \subseteq transferable[n][m]
                             /\ buffers'[n][m] \subseteq buffers[n][m] \cup buf
        BY ZenonT(60), <1>5, <2>1 DEF Enqueue, TypeOK
    <2>4. net' \subseteq net \cup {Datagram(owner[h], buf)}
        BY Zenon, <1>5 DEF Enqueue
    <2>5. \A p \in Thread : delta'[p] \subseteq delta[p]
        BY Zenon, <1>5 DEF Enqueue, Exit, TypeOK
    <2> HIDE DEF buf
    <2>6. \A n, m \in Node : \A g \in transferable'[n][m] \cup buffers'[n][m] : IsAccepted(g)'
        BY <1>0, <2>2, <2>3 DEF HeldContent, TypeOK
    <2>7. \A b \in net' : \A g \in b.hits : IsAccepted(g)'
        <3>1. \A b \in net : \A g \in b.hits : IsAccepted(g)'
            BY Zenon, <1>0 DEF HeldContent, TypeOK, Batch
        <3>2. \A g \in Datagram(owner[h], buf).hits : IsAccepted(g)'
            BY Zenon, <1>0, <2>2 DEF Datagram
        <3> QED
            BY Zenon, <2>4, <3>1, <3>2
    <2>8. \A p \in Thread : \A g \in delta'[p] : IsAccepted(g)'
        BY Zenon, <1>0, <2>5 DEF HeldContent, TypeOK
    <2> QED
        BY Zenon, <2>6, <2>7, <2>8 DEF HeldContent
<1>6. ASSUME NEW n \in Node, Flush(n)  PROVE HeldContent'
    <2>1. \A x, m \in Node : buffers'[x][m] \subseteq buffers[x][m]
        BY Zenon, <1>6 DEF Flush, TypeOK
    <2>2. \A b \in net' : b \in net \/ \E m \in Node : b.hits = buffers[n][m]
        BY <1>6 DEF Flush, Datagram
    <2>3. \A b \in net' : \A g \in b.hits : IsAccepted(g)'
        <3>1. \A b \in net : \A g \in b.hits : IsAccepted(g)'
            BY Zenon, <1>0 DEF HeldContent, TypeOK, Batch
        <3>2. \A m \in Node : \A g \in buffers[n][m] : IsAccepted(g)'
            BY <1>0 DEF HeldContent, TypeOK
        <3> QED
            BY Zenon, <2>2, <3>1, <3>2
    <2>4. UNCHANGED <<transferable, delta>>
        BY Zenon, <1>6 DEF Flush
    <2>5. \A x, m \in Node : \A g \in transferable'[x][m] \cup buffers'[x][m] : IsAccepted(g)'
        BY <1>0, <2>1, <2>4 DEF HeldContent, TypeOK
    <2>6. \A p \in Thread : \A g \in delta'[p] : IsAccepted(g)'
        BY Zenon, <1>0, <2>4 DEF HeldContent, TypeOK
    <2> QED
        BY Zenon, <2>3, <2>5, <2>6 DEF HeldContent
<1>7. ASSUME NEW b \in net, Receive(b)  PROVE HeldContent'
    <2>1. \A p \in Thread : delta'[p] \subseteq delta[p] \cup b.hits
        BY Zenon, <1>7 DEF Receive, TypeOK
    <2> QED
        BY <1>0, <1>7, <2>1 DEF Receive, HeldContent, TypeOK, Batch
<1>8. ASSUME NEW n \in Node, NEW S \in View, UpdateNodes(n, S)  PROVE HeldContent'
    <2>1. \A m \in Node : \A g \in Moved(n, S, m) : g \in Hit /\ IsAccepted(g)
        BY DEF Moved, CounterContent, Accepted, IsAccepted
    <2>2. \A x, m \in Node : transferable'[x][m] \subseteq transferable[x][m] \cup Moved(n, S, m)
        BY Zenon, <1>8 DEF UpdateNodes, TypeOK
    <2>3. UNCHANGED <<buffers, net, delta>>
        BY Zenon, <1>8 DEF UpdateNodes
    <2>4. ASSUME NEW x \in Node, NEW m \in Node, NEW g \in transferable'[x][m] \cup buffers'[x][m]
          PROVE  IsAccepted(g)'
        <3>1. g \in Hit /\ g \in transferable[x][m] \cup buffers[x][m] \cup Moved(n, S, m)
            BY <2>1, <2>2, <2>3 DEF TypeOK
        <3>2. IsAccepted(g)
            BY Zenon, <2>1, <3>1 DEF HeldContent
        <3> QED
            BY Zenon, <1>0, <3>1, <3>2
    <2>5. \A b \in net' : \A g \in b.hits : IsAccepted(g)'
        BY Zenon, <1>0, <2>3 DEF HeldContent, TypeOK, Batch
    <2>6. \A p \in Thread : \A g \in delta'[p] : IsAccepted(g)'
        BY Zenon, <1>0, <2>3 DEF HeldContent, TypeOK
    <2> QED
        BY Zenon, <2>4, <2>5, <2>6 DEF HeldContent
<1>9. ASSUME UNCHANGED <<transferable, buffers, net, delta>>  PROVE HeldContent'
    BY SMTT(30), <1>1, <1>9
<1>10. ASSUME NEW h \in Hit, Process(h)  PROVE HeldContent'
    BY Zenon, <1>3, <1>5, <1>9, <1>10 DEF Process, ReadOwner, TestOwner, DropBulk, ReturnBulk, Evaluate
<1>11. ASSUME NEW p \in Thread, Increment(p)  PROVE HeldContent'
    BY Zenon, <1>4, <1>9, <1>11 DEF Increment, Lookup, AddToCounter, StoreCounter
<1>12. ASSUME NEW n \in Node, Handler(n) \/ Flush(n)  PROVE HeldContent'
    <2>1. ASSUME NEW k \in Key, NextEntry(n, k)  PROVE HeldContent'
        BY Zenon, <1>9, <2>1 DEF NextEntry
    <2>2. ASSUME NEW b \in net, Receive(b)  PROVE HeldContent'
        BY Zenon, <1>7, <2>2
    <2>3. ASSUME Flush(n)  PROVE HeldContent'
        BY Zenon, <1>6, <2>3
    <2> QED
        BY Zenon, <1>12, <2>1, <2>2, <2>3 DEF Handler
<1>13. ASSUME NEW b \in net, Lose(b)  PROVE HeldContent'
    BY Zenon, <1>1, <1>13 DEF Lose
<1>14. ASSUME NEW n \in Node, NEW k \in Key, Expire(n, k) \/ ReceiveBlock(n, k) \/ Unblock(n, k)
       PROVE  HeldContent'
    BY Zenon, <1>9, <1>14 DEF Expire, ReceiveBlock, Unblock
<1>15. ASSUME NEW h \in Hit, NEW n \in Node, Deny(h, n)  PROVE HeldContent'
    BY Zenon, <1>9, <1>15 DEF Deny
<1>16. CASE UNCHANGED vars
    BY Zenon, <1>9, <1>16 DEF vars
<1> QED
    BY Zenon, <1>2, <1>8, <1>10, <1>11, <1>12, <1>13, <1>14, <1>15, <1>16 DEF Next

\* Initially there is nothing in the counters.
LEMMA InitCounterContent == Init => CounterContent
BY DEF Init, CounterContent, Counter

\* Every step keeps the counters to accepted hits of their own key.
LEMMA NextCounterContent ==
    ASSUME TypeOK, ThreadInv, CellInv, CounterContent, HeldContent, [Next]_vars
    PROVE  CounterContent'
<1> USE DEF cacheVars, flushVars, threadVars, blockVars
<1>0. \A k \in Key : Accepted(k) \subseteq Accepted(k)'
    BY Zenon, AcceptedGrows
<1>1. ASSUME \A n \in Node, k \in Key : Counter(n, k)' \subseteq Counter(n, k),
             UNCHANGED <<heap, key>>,
             \A p \in Thread : ptr'[p] \in {NoCell, ptr[p]}
      PROVE  CounterContent'
    BY Zenon, <1>0, <1>1 DEF CounterContent, TypeOK
<1>2. ASSUME UNCHANGED <<counters, heap, ptr, key>>  PROVE CounterContent'
    BY Zenon, <1>0, <1>2 DEF CounterContent, Counter, TypeOK
<1>3. ASSUME NEW p \in Thread, Lookup(p)  PROVE CounterContent'
    <2>1. Site(p) \in Node /\ key[p] \in Key
        BY Zenon, <1>3 DEF Lookup, Site, TypeOK, Thread
    <2>2. UNCHANGED <<counters, heap, key>>
        BY Zenon, <1>3 DEF Lookup
    <2>3. ptr'[p] # NoCell => heap[ptr'[p]] \subseteq Accepted(key[p])
        BY Zenon, <1>3, <2>1 DEF Lookup, CounterContent, Counter, TypeOK
    <2>4. \A q \in Thread \ {p} : ptr'[q] = ptr[q]
        BY Zenon, <1>3 DEF Lookup, TypeOK
    <2> QED
        BY Zenon, <1>0, <2>1, <2>2, <2>3, <2>4 DEF CounterContent, Counter, TypeOK
<1>4. ASSUME NEW p \in Thread
      PROVE  Of(delta[p], key[p]) \subseteq Accepted(key[p])
    BY Zenon DEF HeldContent, Of, Accepted, IsAccepted, TypeOK
<1>5. ASSUME NEW p \in Thread, AddToCounter(p)  PROVE CounterContent'
    <2>1. ptr[p] \in Cell /\ key[p] \in Key
        BY Zenon, <1>5 DEF AddToCounter, TypeOK
    <2>2. heap'[ptr[p]] \subseteq Accepted(key[p])
        BY Zenon, <1>4, <1>5, <2>1 DEF AddToCounter, CounterContent, TypeOK
    <2>3. \A c \in Cell : c # ptr[p] => heap'[c] = heap[c]
        BY Zenon, <1>5 DEF AddToCounter, TypeOK
    <2>4. UNCHANGED <<counters, key>> /\ \A q \in Thread : ptr'[q] \in {NoCell, ptr[q]}
        BY Zenon, <1>5 DEF AddToCounter, Returns, TypeOK
    <2>5. ASSUME NEW n \in Node, NEW k \in Key  PROVE Counter(n, k)' \subseteq Accepted(k)'
        <3>1. CASE counters[n][k] = ptr[p]
            <4>1. ptr[p] # NoCell
                BY Zenon, <1>5 DEF AddToCounter
            <4>2. k = key[p]
                BY Zenon, <3>1, <4>1 DEF CellInv
            <4>3. Counter(n, k)' \subseteq heap'[ptr[p]]
                BY Zenon, <2>4, <3>1, <4>1 DEF Counter
            <4> QED
                BY Zenon, <1>0, <2>2, <4>2, <4>3
        <3>2. CASE counters[n][k] # ptr[p]
            <4>1. counters[n][k] \in Cell \cup {NoCell}
                BY DEF TypeOK
            <4>2. Counter(n, k)' = Counter(n, k)
                BY SMTT(30), <2>3, <2>4, <3>2, <4>1 DEF Counter
            <4>3. Counter(n, k) \subseteq Accepted(k)
                BY Zenon DEF CounterContent
            <4> QED
                BY Zenon, <1>0, <4>2, <4>3
        <3> QED
            BY Zenon, <3>1, <3>2
    <2>6. ASSUME NEW q \in Thread, ptr'[q] # NoCell
          PROVE  heap'[ptr'[q]] \subseteq Accepted(key[q])'
        <3>1. CASE ptr[q] = ptr[p]
            <4>1. ptr'[q] = ptr[p] /\ ptr[p] # NoCell /\ key'[q] = key[q]
                BY Zenon, <2>4, <2>6, <3>1
            <4>2. key[q] = key[p]
                BY Zenon, <3>1, <4>1 DEF CellInv
            <4> QED
                BY Zenon, <1>0, <2>1, <2>2, <2>4, <4>1, <4>2
        <3>2. CASE ptr[q] # ptr[p]
            <4>1. ptr'[q] = ptr[q] /\ ptr[q] # NoCell /\ key'[q] = key[q]
                BY Zenon, <2>4, <2>6
            <4>2. ptr[q] \in Cell /\ key[q] \in Key
                BY Zenon, <4>1 DEF TypeOK
            <4>3. heap'[ptr[q]] = heap[ptr[q]] /\ heap[ptr[q]] \subseteq Accepted(key[q])
                BY Zenon, <2>3, <3>2, <4>1, <4>2 DEF CounterContent
            <4> QED
                BY Zenon, <1>0, <2>4, <4>1, <4>2, <4>3
        <3> QED
            BY Zenon, <3>1, <3>2
    <2> QED
        BY Zenon, <2>4, <2>5, <2>6 DEF CounterContent
<1>6. ASSUME NEW p \in Thread, StoreCounter(p)  PROVE CounterContent'
    <2> DEFINE c == CHOOSE x \in FreeCell : TRUE
    <2>1. Site(p) \in Node /\ key[p] \in Key
        BY Zenon, <1>6 DEF StoreCounter, Site, TypeOK, Thread
    <2>2. /\ c \in Cell
          /\ \A q \in Thread : ptr[q] # c
          /\ \A n \in Node, k \in Key : counters[n][k] # c
        BY <1>6 DEF StoreCounter, FreeCell, Referenced
    <2>3. heap'[c] = Of(delta[p], key[p])
        BY Zenon, <1>6, <2>2 DEF StoreCounter, TypeOK
    <2>4. \A x \in Cell : x # c => heap'[x] = heap[x]
        BY Zenon, <1>6 DEF StoreCounter, TypeOK
    <2>5. counters'[Site(p)][key[p]] = c
        BY Zenon, <1>6, <2>1 DEF StoreCounter, TypeOK
    <2>6. \A n \in Node, k \in Key : <<n, k>> # <<Site(p), key[p]>> =>
             counters'[n][k] = counters[n][k]
        BY Zenon, <1>6, <2>1 DEF StoreCounter, TypeOK
    <2>7. UNCHANGED key /\ \A q \in Thread : ptr'[q] \in {NoCell, ptr[q]}
        BY Zenon, <1>6 DEF StoreCounter, Returns, TypeOK
    <2> HIDE DEF c
    <2>8. ASSUME NEW n \in Node, NEW k \in Key  PROVE Counter(n, k)' \subseteq Accepted(k)'
        <3>1. CASE <<n, k>> = <<Site(p), key[p]>>
            BY Zenon, <1>0, <1>4, <2>1, <2>3, <2>5, <3>1 DEF Counter
        <3>2. CASE <<n, k>> # <<Site(p), key[p]>>
            BY <1>0, <2>2, <2>4, <2>6, <3>2 DEF Counter, CounterContent, TypeOK
        <3> QED
            BY Zenon, <3>1, <3>2
    <2>9. ASSUME NEW q \in Thread, ptr'[q] # NoCell
          PROVE  heap'[ptr'[q]] \subseteq Accepted(key[q])'
        BY Zenon, <1>0, <2>2, <2>4, <2>7, <2>9 DEF CounterContent, TypeOK
    <2> QED
        BY Zenon, <2>7, <2>8, <2>9 DEF CounterContent
<1>7. ASSUME NEW n \in Node, NEW k \in Key, NextEntry(n, k)  PROVE CounterContent'
    <2>1. ptr[n] = NoCell
        BY Zenon, <1>7 DEF NextEntry, ThreadInv, Thread
    <2>2. UNCHANGED <<counters, heap, ptr>> /\ \A q \in Thread : q # n => key'[q] = key[q]
        BY Zenon, <1>7 DEF NextEntry, TypeOK
    <2> QED
        BY Zenon, <1>0, <2>1, <2>2 DEF CounterContent, Counter, TypeOK
<1>8. ASSUME NEW n \in Node, NEW S \in View, UpdateNodes(n, S)  PROVE CounterContent'
    <2>1. \A m \in Node, k \in Key : counters'[m][k] \in {counters[m][k], NoCell}
        BY Zenon, <1>8 DEF UpdateNodes, TypeOK
    <2> QED
        BY Zenon, <1>1, <1>8, <2>1 DEF UpdateNodes, Counter
<1>9. ASSUME NEW n \in Node, NEW k \in Key, Expire(n, k)  PROVE CounterContent'
    <2>1. \A m \in Node, j \in Key : counters'[m][j] \in {counters[m][j], NoCell}
        BY Zenon, <1>9 DEF Expire, TypeOK
    <2> QED
        BY Zenon, <1>1, <1>9, <2>1 DEF Expire, Counter
<1>10. ASSUME NEW h \in Hit, Process(h)  PROVE CounterContent'
    BY Zenon, <1>2, <1>10 DEF Process, ReadOwner, TestOwner, DropBulk, ReturnBulk, Evaluate, Enqueue, Exit
<1>11. ASSUME NEW p \in Thread, Increment(p)  PROVE CounterContent'
    BY Zenon, <1>3, <1>5, <1>6, <1>11 DEF Increment
<1>12. ASSUME NEW n \in Node, Handler(n) \/ Flush(n)  PROVE CounterContent'
    BY Zenon, <1>2, <1>7, <1>12 DEF Handler, Receive, Flush
<1>13. ASSUME NEW b \in net, Lose(b)  PROVE CounterContent'
    BY Zenon, <1>2, <1>13 DEF Lose
<1>14. ASSUME NEW n \in Node, NEW k \in Key, ReceiveBlock(n, k) \/ Unblock(n, k)
       PROVE  CounterContent'
    BY Zenon, <1>2, <1>14 DEF ReceiveBlock, Unblock
<1>15. ASSUME NEW h \in Hit, NEW n \in Node, Check(h, n) \/ Deny(h, n) \/ StartBulkLoad(h, n)
       PROVE  CounterContent'
    BY Zenon, <1>2, <1>15 DEF Check, Deny, StartBulkLoad
<1>16. CASE UNCHANGED vars
    BY ZenonT(60), <1>2, <1>16 DEF vars
<1> QED
    BY Zenon, <1>8, <1>9, <1>10, <1>11, <1>12, <1>13, <1>14, <1>15, <1>16 DEF Next

-----------------------------------------------------------------------------
(* The places that hold a hit are disjoint. *)

\* The places of Where that hold h are pairwise the same, kind by kind.
Once(h) ==
    /\ \A n, m \in Node, k, j \in Key : h \in Counter(n, k) /\ h \in Counter(m, j) => n = m /\ k = j
    /\ \A n, m, x, y \in Node : h \in transferable[n][m] /\ h \in transferable[x][y] => n = x /\ m = y
    /\ \A n, m, x, y \in Node : h \in buffers[n][m] /\ h \in buffers[x][y] => n = x /\ m = y
    /\ \A b, c \in net : h \in b.hits /\ h \in c.hits => b = c
    /\ \A p, q \in Thread : h \in delta[p] /\ h \in delta[q] => p = q
    /\ \A n \in Node, k \in Key : h \in Counter(n, k) =>
          /\ \A x, y \in Node : h \notin transferable[x][y] /\ h \notin buffers[x][y]
          /\ \A b \in net : h \notin b.hits
          /\ \A p \in Thread : h \notin delta[p]
    /\ \A n, m \in Node : h \in transferable[n][m] =>
          /\ \A x, y \in Node : h \notin buffers[x][y]
          /\ \A b \in net : h \notin b.hits
          /\ \A p \in Thread : h \notin delta[p]
    /\ \A n, m \in Node : h \in buffers[n][m] =>
          /\ \A b \in net : h \notin b.hits
          /\ \A p \in Thread : h \notin delta[p]
    /\ \A b \in net : h \in b.hits => \A p \in Thread : h \notin delta[p]

DisjointInv == \A h \in Hit : Once(h)

\* Initially no hit is anywhere.
LEMMA InitDisjointInv == Init => DisjointInv
BY DEF Init, DisjointInv, Once, Counter

\* Every step that puts a hit in a new place takes it out of the old one.
LEMMA NextDisjointInv ==
    ASSUME TypeOK, ThreadInv, CellInv, CounterContent, HeldContent, DisjointInv, [Next]_vars
    PROVE  DisjointInv'
<1> SUFFICES ASSUME NEW g \in Hit PROVE Once(g)'
    BY Zenon DEF DisjointInv
<1> USE DEF cacheVars, flushVars, threadVars, blockVars
<1>0. Once(g)
    BY ZenonT(60) DEF DisjointInv
\* A step that brings g to no new place.
<1>1. ASSUME \A n \in Node, k \in Key : g \in Counter(n, k)' => g \in Counter(n, k),
             \A n, m \in Node : g \in transferable'[n][m] => g \in transferable[n][m],
             \A n, m \in Node : g \in buffers'[n][m] => g \in buffers[n][m],
             \A b \in net' : g \in b.hits => b \in net,
             \A p \in Thread : g \in delta'[p] => g \in delta[p]
      PROVE  Once(g)'
    BY <1>0, <1>1 DEF Once
<1>2. ASSUME UNCHANGED <<counters, heap, transferable, buffers, net, delta>>
      PROVE  Once(g)'
    BY Zenon, <1>1, <1>2 DEF Counter
<1>3. ASSUME UNCHANGED <<counters, heap, transferable, buffers>>, net' \subseteq net,
             \A p \in Thread : delta'[p] \subseteq delta[p]
      PROVE  Once(g)'
    BY Zenon, <1>1, <1>3 DEF Counter
<1>4. ASSUME NEW h \in Hit, NEW n \in Node, Check(h, n) \/ StartBulkLoad(h, n)
      PROVE  Once(g)'
    <2>1. /\ UNCHANGED <<transferable, buffers, net>>
          /\ \A m \in Node, k \in Key : Counter(m, k)' = Counter(m, k)
        BY Zenon, <1>4 DEF Check, StartBulkLoad, Counter
    <2>2. delta' = [delta EXCEPT ![h] = {h}] /\ h \in Thread
        BY Zenon, <1>4 DEF Check, StartBulkLoad, Thread
    <2>3. delta'[h] = {h} /\ \A p \in Thread \ {h} : delta'[p] = delta[p]
        BY Zenon, <2>2 DEF TypeOK
    <2>4. CASE g # h
        BY ZenonT(60), <1>1, <2>1, <2>3, <2>4
    <2>5. CASE g = h
        <3>1. ~IsAccepted(g)
            BY Zenon, <1>4, <2>5 DEF Check, StartBulkLoad, IsAccepted
        <3>2. /\ \A m \in Node, k \in Key : g \notin Counter(m, k)
              /\ \A x, y \in Node : g \notin transferable[x][y] /\ g \notin buffers[x][y]
              /\ \A b \in net : g \notin b.hits
              /\ \A p \in Thread : g \notin delta[p]
            BY Zenon, <3>1 DEF HeldContent, CounterContent, Accepted, IsAccepted
        <3> QED
            BY <2>1, <2>3, <2>5, <3>2 DEF Once
    <2> QED
        BY Zenon, <2>4, <2>5
<1>5. ASSUME NEW h \in Hit, Exit(h), UNCHANGED <<cacheVars, flushVars>>  PROVE Once(g)'
    BY Zenon, <1>3, <1>5 DEF Exit, TypeOK
\* Where else g is not when a thread holds it.
<1>6. ASSUME NEW p \in Thread, g \in delta[p]
      PROVE  /\ \A n \in Node, k \in Key : g \notin Counter(n, k)
             /\ \A x, y \in Node : g \notin transferable[x][y] /\ g \notin buffers[x][y]
             /\ \A b \in net : g \notin b.hits
             /\ \A q \in Thread \ {p} : g \notin delta[q]
    BY Zenon, <1>0, <1>6 DEF Once
<1>7. ASSUME NEW p \in Thread, AddToCounter(p)  PROVE Once(g)'
    <2> DEFINE M == Of(delta[p], key[p])
    <2>1. ptr[p] \in Cell /\ M \subseteq delta[p]
        BY ZenonT(60), <1>7 DEF AddToCounter, TypeOK, Of
    <2>2. \A n \in Node, k \in Key :
             /\ counters[n][k] = ptr[p] => Counter(n, k)' = Counter(n, k) \cup M
             /\ counters[n][k] # ptr[p] => Counter(n, k)' = Counter(n, k)
        BY SMTT(60), <1>7, <2>1 DEF AddToCounter, Counter, TypeOK
    <2>3. \A n, m \in Node, k, j \in Key :
             counters[n][k] = ptr[p] /\ counters[m][j] = ptr[p] => n = m /\ k = j
        BY ConstantsAssumption, <2>1 DEF CellInv
    <2>4. delta'[p] = delta[p] \ M /\ \A q \in Thread \ {p} : delta'[q] = delta[q]
        BY Zenon, <1>7 DEF AddToCounter, Returns, TypeOK
    <2>5. UNCHANGED <<transferable, buffers, net>>
        BY Zenon, <1>7 DEF AddToCounter, Returns
    <2> HIDE DEF M
    <2>6. CASE g \notin M
        BY ZenonT(60), <1>1, <2>2, <2>4, <2>5, <2>6
    <2>7. CASE g \in M
        <3>1. g \in delta[p]
            BY Zenon, <2>1, <2>7
        <3>2. \A n \in Node, k \in Key : g \in Counter(n, k)' => counters[n][k] = ptr[p]
            BY Zenon, <1>6, <2>2, <3>1
        <3>3. ASSUME NEW n \in Node, NEW m \in Node, NEW k \in Key, NEW j \in Key,
                     g \in Counter(n, k)', g \in Counter(m, j)'
              PROVE  n = m /\ k = j
            <4>1. counters[n][k] = ptr[p] /\ counters[m][j] = ptr[p]
                BY Zenon, <3>2, <3>3
            <4> QED
                BY <2>3, <4>1
        <3>4. /\ \A x, y \in Node : g \notin transferable'[x][y] /\ g \notin buffers'[x][y]
              /\ \A b \in net' : g \notin b.hits
            BY Zenon, <1>6, <2>5, <3>1
        <3>5. \A q \in Thread : g \notin delta'[q]
            BY Zenon, <1>6, <2>4, <2>7, <3>1
        <3> QED
            BY Zenon, <3>3, <3>4, <3>5 DEF Once
    <2> QED
        BY Zenon, <2>6, <2>7
<1>8. ASSUME NEW p \in Thread, StoreCounter(p)  PROVE Once(g)'
    <2> DEFINE M == Of(delta[p], key[p])
               c == CHOOSE x \in FreeCell : TRUE
    <2>1. M \subseteq delta[p] /\ Site(p) \in Node /\ key[p] \in Key
        BY Zenon, <1>8 DEF StoreCounter, TypeOK, Of, Site, Thread
    <2>2. c \in Cell /\ \A n \in Node, k \in Key : counters[n][k] # c
        BY <1>8 DEF StoreCounter, FreeCell, Referenced
    <2>3. heap'[c] = M /\ \A x \in Cell : x # c => heap'[x] = heap[x]
        BY Zenon, <1>8, <2>2 DEF StoreCounter, TypeOK
    <2>4. counters'[Site(p)][key[p]] = c
        BY Zenon, <1>8, <2>1 DEF StoreCounter, TypeOK
    <2>5. \A n \in Node, k \in Key : n # Site(p) \/ k # key[p] =>
             counters'[n][k] = counters[n][k]
        BY Zenon, <1>8, <2>1 DEF StoreCounter, TypeOK
    <2>6. delta'[p] = delta[p] \ M /\ \A q \in Thread \ {p} : delta'[q] = delta[q]
        BY Zenon, <1>8 DEF StoreCounter, Returns, TypeOK
    <2>7. UNCHANGED <<transferable, buffers, net>>
        BY Zenon, <1>8 DEF StoreCounter, Returns
    <2>8. PICK n \in Node, k \in Key : n = Site(p) /\ k = key[p]
        BY Zenon, <2>1
    <2> HIDE DEF M, c
    <2>9. Counter(n, k)' = M
        BY Zenon, ConstantsAssumption, <2>2, <2>3, <2>4, <2>8 DEF Counter
    <2>10. \A x \in Node, j \in Key : x # n \/ j # k => Counter(x, j)' = Counter(x, j)
        BY <2>2, <2>3, <2>5, <2>8 DEF Counter, TypeOK
    <2>11. CASE g \notin M
        BY ZenonT(60), <1>1, <2>6, <2>7, <2>9, <2>10, <2>11
    <2>12. CASE g \in M
        BY <1>6, <2>1, <2>6, <2>7, <2>9, <2>10, <2>12 DEF Once
    <2> QED
        BY Zenon, <2>11, <2>12
<1>9. ASSUME NEW h \in Hit, Enqueue(h)  PROVE Once(g)'
    <2>1. PICK n \in Node, m \in Node : n = at[h] /\ m = owner[h]
        BY Zenon, <1>9 DEF Enqueue, TypeOK
    <2> DEFINE buf == buffers[n][m] \cup delta[h] \cup transferable[n][m]
    <2>2. h \in Thread /\ buf \subseteq Hit
        BY DEF TypeOK, Thread
    <2>3. /\ transferable'[n][m] = {}
          /\ \A x, y \in Node : x # n \/ y # m => transferable'[x][y] = transferable[x][y]
        BY SMTT(30), <1>9, <2>1 DEF Enqueue, TypeOK
    <2>4. delta'[h] = {} /\ \A q \in Thread \ {h} : delta'[q] = delta[q]
        BY Zenon, <1>9, <2>2 DEF Enqueue, Exit, TypeOK
    <2>5. \A x \in Node, k \in Key : Counter(x, k)' = Counter(x, k)
        BY Zenon, <1>9 DEF Enqueue, Counter
    <2>6. \A x, y \in Node : x # n \/ y # m => buffers'[x][y] = buffers[x][y]
        BY Zenon, <1>9, <2>1 DEF Enqueue, TypeOK
    <2>7. \/ buffers' = [buffers EXCEPT ![n][m] = buf] /\ net' = net
          \/ buffers' = [buffers EXCEPT ![n][m] = {}] /\ net' = net \cup {Datagram(m, buf)}
        BY Zenon, <1>9, <2>1 DEF Enqueue
    <2>8. \/ buffers'[n][m] = buf /\ net' = net
          \/ buffers'[n][m] = {} /\ net' = net \cup {Datagram(m, buf)}
        <3>1. \A v : [buffers EXCEPT ![n][m] = v][n][m] = v
            BY ZenonT(60) DEF TypeOK
        <3> HIDE DEF buf
        <3> QED
            BY Zenon, <2>7, <3>1
    <2>9. Datagram(m, buf).hits = buf
        BY Zenon DEF Datagram
    \* Everything that goes into the buffer comes from one of three places.
    <2>10. ASSUME g \in buf
           PROVE  /\ \A x \in Node, k \in Key : g \notin Counter(x, k)
                  /\ \A x, y \in Node : x # n \/ y # m => g \notin transferable[x][y]
                  /\ \A x, y \in Node : x # n \/ y # m => g \notin buffers[x][y]
                  /\ \A b \in net : g \notin b.hits
                  /\ \A q \in Thread \ {h} : g \notin delta[q]
        BY SMTT(30), <1>0, <2>2, <2>10 DEF Once
    <2> HIDE DEF buf
    <2>11. CASE g \notin buf
        <3>1. \A x, y \in Node : g \in buffers'[x][y] => g \in buffers[x][y]
            BY Zenon, <2>6, <2>8, <2>11
        <3>2. \A b \in net' : g \in b.hits => b \in net
            BY Zenon, <2>8, <2>9, <2>11
        <3>3. \A x, y \in Node : g \in transferable'[x][y] => g \in transferable[x][y]
            BY Zenon, <2>3
        <3>4. \A q \in Thread : g \in delta'[q] => g \in delta[q]
            BY Zenon, <2>4
        <3> QED
            BY Zenon, <1>1, <2>5, <3>1, <3>2, <3>3, <3>4
    <2>12. CASE g \in buf
        <3>1. \A x \in Node, k \in Key : g \notin Counter(x, k)'
            BY Zenon, <2>5, <2>10, <2>12
        <3>2. \A x, y \in Node : g \notin transferable'[x][y]
            BY <2>3, <2>10, <2>12
        <3>3. \A q \in Thread : g \notin delta'[q]
            BY Zenon, <2>4, <2>10, <2>12
        <3>4. \A x, y \in Node : g \in buffers'[x][y] => x = n /\ y = m
            BY <2>6, <2>10, <2>12
        <3>5. \A b \in net' : g \in b.hits => b = Datagram(m, buf) /\ buffers'[n][m] = {}
            BY Zenon, <2>8, <2>10, <2>12
        <3> QED
            BY ZenonT(60), <3>1, <3>2, <3>3, <3>4, <3>5 DEF Once
    <2> QED
        BY Zenon, <2>11, <2>12
<1>10. ASSUME NEW n \in Node, Flush(n)  PROVE Once(g)'
    <2>1. \A x, y \in Node : /\ x = n => buffers'[x][y] = {}
                             /\ x # n => buffers'[x][y] = buffers[x][y]
        BY Zenon, <1>10 DEF Flush, TypeOK
    <2>2. \A b \in net' : b \in net \/ \E m \in Node : b = Datagram(m, buffers[n][m])
        BY Zenon, <1>10 DEF Flush
    <2>3. \A m \in Node : Datagram(m, buffers[n][m]).hits = buffers[n][m]
        BY Zenon DEF Datagram
    <2>4. /\ UNCHANGED <<transferable, delta>>
          /\ \A x \in Node, k \in Key : Counter(x, k)' = Counter(x, k)
        BY Zenon, <1>10 DEF Flush, Counter
    <2>5. CASE \A m \in Node : g \notin buffers[n][m]
        <3>1. \A b \in net' : g \in b.hits => b \in net
            BY Zenon, <2>2, <2>3, <2>5
        <3>2. \A x, y \in Node : g \in buffers'[x][y] => g \in buffers[x][y]
            BY SMTT(30), <2>1
        <3> QED
            BY Zenon, <1>1, <2>4, <3>1, <3>2
    <2>6. ASSUME NEW m \in Node, g \in buffers[n][m]  PROVE Once(g)'
        <3>1. /\ \A x \in Node, k \in Key : g \notin Counter(x, k)
              /\ \A x, y \in Node : g \notin transferable[x][y]
              /\ \A x, y \in Node : x # n \/ y # m => g \notin buffers[x][y]
              /\ \A b \in net : g \notin b.hits
              /\ \A q \in Thread : g \notin delta[q]
            BY Zenon, <1>0, <2>6 DEF Once
        <3>2. \A b \in net' : g \in b.hits => b = Datagram(m, buffers[n][m])
            BY <2>2, <2>3, <3>1
        <3>3. \A x, y \in Node : g \notin buffers'[x][y]
            BY Zenon, <2>1, <3>1
        <3> QED
            <4>1. /\ \A x \in Node, k \in Key : g \notin Counter(x, k)'
                  /\ \A x, y \in Node : g \notin transferable'[x][y]
                  /\ \A q \in Thread : g \notin delta'[q]
                BY Zenon, <2>4, <3>1
            <4> QED
                BY Zenon, <3>2, <3>3, <4>1 DEF Once
    <2> QED
        BY Zenon, <2>5, <2>6
<1>11. ASSUME NEW b \in net, Receive(b)  PROVE Once(g)'
    <2>1. b.to \in Thread
        BY Zenon DEF TypeOK, Batch, Thread
    <2>2. delta'[b.to] = b.hits /\ \A q \in Thread \ {b.to} : delta'[q] = delta[q]
        BY Zenon, <1>11, <2>1 DEF Receive, TypeOK
    <2>3. /\ net' = net \ {b} /\ UNCHANGED <<transferable, buffers>>
          /\ \A x \in Node, k \in Key : Counter(x, k)' = Counter(x, k)
        BY Zenon, <1>11 DEF Receive, Counter
    <2>4. CASE g \notin b.hits
        BY SMTT(30), <1>1, <2>2, <2>3, <2>4
    <2>5. CASE g \in b.hits
        <3>1. /\ \A x \in Node, k \in Key : g \notin Counter(x, k)
              /\ \A x, y \in Node : g \notin transferable[x][y] /\ g \notin buffers[x][y]
              /\ \A c \in net : g \in c.hits => c = b
              /\ \A q \in Thread : g \notin delta[q]
            BY Zenon, <1>0, <2>5 DEF Once
        <3>2. /\ \A x \in Node, k \in Key : g \notin Counter(x, k)'
              /\ \A x, y \in Node : g \notin transferable'[x][y] /\ g \notin buffers'[x][y]
              /\ \A c \in net' : g \notin c.hits
            BY Zenon, <2>3, <3>1
        <3>3. \A q \in Thread : g \in delta'[q] => q = b.to
            BY Zenon, <2>2, <3>1
        <3> QED
            BY Zenon, <3>2, <3>3 DEF Once
    <2> QED
        BY Zenon, <2>4, <2>5
<1>12. ASSUME NEW n \in Node, NEW S \in View, UpdateNodes(n, S)  PROVE Once(g)'
    <2>1. \A x \in Node, k \in Key : Counter(x, k)' \subseteq Counter(x, k)
        BY SMTT(30), <1>12 DEF UpdateNodes, Counter, TypeOK
    <2>2. \A k \in Key : OwnerIn(S, n, k) \in S \ {n} => Counter(n, k)' = {}
        BY Zenon, <1>12 DEF UpdateNodes, Counter, TypeOK
    <2>3. \A x, y \in Node : g \in transferable'[x][y] =>
             \/ g \in transferable[x][y]
             \/ x = n /\ y \in S \ {n} /\ \E k \in Key : OwnerIn(S, n, k) = y /\ g \in Counter(n, k)
        BY SMTT(30), <1>12 DEF UpdateNodes, Moved, TypeOK
    <2>4. UNCHANGED <<buffers, net, delta>>
        BY ZenonT(60), <1>12 DEF UpdateNodes
    <2>5. CASE \A k \in Key : OwnerIn(S, n, k) \in S \ {n} => g \notin Counter(n, k)
        BY SMTT(30), <1>1, <2>1, <2>3, <2>4, <2>5
    <2>6. ASSUME NEW k \in Key, OwnerIn(S, n, k) \in S \ {n}, g \in Counter(n, k)
          PROVE  Once(g)'
        <3>1. /\ \A x \in Node, j \in Key : g \in Counter(x, j) => x = n /\ j = k
              /\ \A x, y \in Node : g \notin transferable[x][y] /\ g \notin buffers[x][y]
              /\ \A b \in net : g \notin b.hits
              /\ \A q \in Thread : g \notin delta[q]
            BY SMTT(30), <1>0, <2>6 DEF Once
        <3>2. \A x \in Node, j \in Key : g \notin Counter(x, j)'
            BY Zenon, <2>1, <2>2, <2>6, <3>1
        <3>3. \A x, y \in Node : g \in transferable'[x][y] => x = n /\ y = OwnerIn(S, n, k)
            BY Zenon, <2>3, <3>1
        <3>4. /\ \A x, y \in Node : g \notin buffers'[x][y]
              /\ \A b \in net' : g \notin b.hits
              /\ \A q \in Thread : g \notin delta'[q]
            BY Zenon, <2>4, <3>1
        <3> QED
            BY Zenon, <3>2, <3>3, <3>4 DEF Once
    <2> QED
        BY Zenon, <2>5, <2>6
<1>13. ASSUME NEW n \in Node, NEW k \in Key, Expire(n, k)  PROVE Once(g)'
    <2>1. \A x \in Node, j \in Key : Counter(x, j)' \subseteq Counter(x, j)
        BY SMTT(30), <1>13 DEF Expire, Counter, TypeOK
    <2> QED
        BY SMTT(30), <1>1, <1>13, <2>1 DEF Expire
<1>14. ASSUME NEW h \in Hit, Process(h)  PROVE Once(g)'
    BY Zenon, <1>2, <1>5, <1>9, <1>14 DEF Process, ReadOwner, TestOwner, DropBulk, ReturnBulk, Evaluate
<1>15. ASSUME NEW p \in Thread, Increment(p)  PROVE Once(g)'
    BY Zenon, <1>2, <1>7, <1>8, <1>15 DEF Increment, Lookup
<1>16. ASSUME NEW n \in Node, Handler(n) \/ Flush(n)  PROVE Once(g)'
    <2>1. ASSUME NEW k \in Key, NextEntry(n, k)  PROVE Once(g)'
        BY Zenon, <1>2, <2>1 DEF NextEntry
    <2>2. ASSUME NEW b \in net, Receive(b)  PROVE Once(g)'
        BY Zenon, <1>11, <2>2
    <2>3. ASSUME Flush(n)  PROVE Once(g)'
        BY Zenon, <1>10, <2>3
    <2> QED
        BY Zenon, <1>16, <2>1, <2>2, <2>3 DEF Handler
<1>17. ASSUME NEW b \in net, Lose(b)  PROVE Once(g)'
    BY Zenon, <1>3, <1>17 DEF Lose
<1>18. ASSUME NEW h \in Hit, NEW n \in Node, Deny(h, n)  PROVE Once(g)'
    BY Zenon, <1>2, <1>18 DEF Deny
<1>19. ASSUME NEW n \in Node, NEW k \in Key, ReceiveBlock(n, k) \/ Unblock(n, k)  PROVE Once(g)'
    BY Zenon, <1>2, <1>19 DEF ReceiveBlock, Unblock
<1>20. CASE UNCHANGED vars
    BY Zenon, <1>2, <1>20 DEF vars
<1> QED
    BY Zenon, <1>4, <1>12, <1>13, <1>14, <1>15, <1>16, <1>17, <1>18, <1>19, <1>20 DEF Next
=============================================================================
