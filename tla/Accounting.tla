----------------------------- MODULE Accounting -----------------------------
(***************************************************************************)
(* The shadow accounting of a DRL cluster: the sharded request counters    *)
(* (internal/cache/accounting.go), the engine that decides who counts a    *)
(* request (internal/accounting/engine.go), the batching flusher           *)
(* (internal/accounting/flusher.go) and the handler of received batches    *)
(* (internal/membership/delegate.go).                                      *)
(*                                                                         *)
(* A counter is modelled by the set of the hits it has counted, its value  *)
(* by the cardinality of that set.  Adding is union; NoDoubleCount says    *)
(* that the sets being added are disjoint, which is what makes the         *)
(* cardinality of the union the sum the program computes.                  *)
(*                                                                         *)
(* Every hit is also the goroutine that processes it.  A goroutine shares  *)
(* the counters with the other goroutines of its node and with the         *)
(* memberlist handler of its node, without a lock between the lookup of a  *)
(* counter and the write, so the two are separate steps.                   *)
(***************************************************************************)
EXTENDS Naturals, FiniteSets

CONSTANTS
    Node,          \* addresses of the cluster nodes
    Key,           \* entity keys (hex hashes of IP, rule prefix and headers)
    Hit,           \* requests and bulk-load records; each is one goroutine
    Bulk,          \* the hits that come from POST /accounting/load
    KeyOf,         \* the entity key of each hit (resolveEntity)
    Locate,        \* the consistent-hash library: Locate[members][key]
    View,          \* member lists that memberlist may report to a node
    Cell,          \* heap objects for counters (*atomic.Int64)
    NoCell,        \* no counter in the cache
    NoNode,        \* value of a goroutine's address variables outside its life
    Limit,         \* rule.Limit
    MaxBatchSize,  \* flusher batch limit, in entries
    Faults         \* environment faults that may happen: "expire", "lose"

ASSUME ConstantsAssumption ==
    /\ Key # {}
    /\ IsFiniteSet(Hit)
    /\ Hit \cap Node = {}
    /\ Bulk \subseteq Hit
    /\ KeyOf \in [Hit -> Key]
    /\ View \subseteq SUBSET Node
    /\ Locate \in [(SUBSET Node) \ {{}} -> [Key -> Node]]
    /\ \A S \in (SUBSET Node) \ {{}}, k \in Key : Locate[S][k] \in S
    /\ NoCell \notin Cell
    /\ NoNode \notin Node
    /\ Limit \in Nat
    /\ MaxBatchSize \in Nat \ {0}

Thread == Hit \cup Node      \* a node stands for its memberlist handler

VARIABLES
    ring,          \* ring[n]: members of n's hash ring
    counters,      \* counters[n][k]: the otter cache, key to counter object
    heap,          \* heap[c]: hits added to the counter object c
    transferable,  \* transferable[n][m]: hits n took out of its cache for m
    buffers,       \* buffers[n][m]: hits batched on n for m
    net,           \* CounterBatch datagrams in flight
    pc,            \* where each thread is
    at,            \* node on which a hit's goroutine runs
    owner,         \* ownerAddr read by a hit's goroutine
    key,           \* key a thread is incrementing
    delta,         \* hits a thread holds and has not yet written anywhere
    ptr,           \* counter object a thread looked up
    count,         \* newCount returned to a hit's goroutine
    blocked,       \* blocked[n]: keys in n's BlocklistCache
    events         \* block events in flight: <<peer, key>>

cacheVars  == <<counters, heap>>
flushVars  == <<transferable, buffers, net>>
threadVars == <<pc, at, owner, key, delta, ptr, count>>
blockVars  == <<blocked, events>>
vars == <<ring, cacheVars, flushVars, threadVars, blockVars>>

Batch == [to : Node, hits : SUBSET Hit]

TypeOK ==
    /\ ring \in [Node -> SUBSET Node]
    /\ counters \in [Node -> [Key -> Cell \cup {NoCell}]]
    /\ heap \in [Cell -> SUBSET Hit]
    /\ transferable \in [Node -> [Node -> SUBSET Hit]]
    /\ buffers \in [Node -> [Node -> SUBSET Hit]]
    /\ net \subseteq Batch
    /\ pc \in [Thread -> {"new", "getOwner", "isOwner", "enqueue", "idle",
                          "lookup", "apply", "evaluate", "return", "done", "denied"}]
    /\ at \in [Hit -> Node \cup {NoNode}]
    /\ owner \in [Hit -> Node \cup {NoNode}]
    /\ key \in [Thread -> Key]
    /\ delta \in [Thread -> SUBSET Hit]
    /\ ptr \in [Thread -> Cell \cup {NoCell}]
    /\ count \in [Hit -> Nat]
    /\ blocked \in [Node -> SUBSET Key]
    /\ events \subseteq Node \X Key
    /\ \A h \in Hit :
          /\ pc[h] \notin {"new", "denied", "done"} => at[h] \in Node
          /\ pc[h] \in {"isOwner", "enqueue"} => owner[h] \in Node

-----------------------------------------------------------------------------
(* The hash ring. *)

\* Mutant of OwnerIn: no fallback to the local node.
OwnerInNil(S, n, k) == IF S = {} THEN NoNode ELSE Locate[S][k]

\* getOwnerLockedForKey: an empty ring makes the local node the owner.
OwnerIn(S, n, k) == IF S = {} THEN n ELSE Locate[S][k]

GetOwner(n, k) == OwnerIn(ring[n], n, k)

IsOwner(n, k) == GetOwner(n, k) = n

-----------------------------------------------------------------------------
(* Helpers on threads and counters. *)

Site(p) == IF p \in Node THEN p ELSE at[p]

\* The hits of D that count towards k: one entry of a batch.
Of(D, k) == {h \in D : KeyOf[h] = k}

\* Value of the counter that n's cache holds for k, as the set of its hits.
Counter(n, k) == IF counters[n][k] = NoCell THEN {} ELSE heap[counters[n][k]]

\* Counter objects nobody refers to: a new counter is allocated from these.
Referenced == {counters[n][k] : n \in Node, k \in Key} \cup {ptr[p] : p \in Thread}
FreeCell == Cell \ Referenced

Init ==
    /\ ring = [n \in Node |-> {n}]
    /\ counters = [n \in Node |-> [k \in Key |-> NoCell]]
    /\ heap = [c \in Cell |-> {}]
    /\ transferable = [n \in Node |-> [m \in Node |-> {}]]
    /\ buffers = [n \in Node |-> [m \in Node |-> {}]]
    /\ net = {}
    /\ pc = [p \in Thread |-> IF p \in Node THEN "idle" ELSE "new"]
    /\ at = [h \in Hit |-> NoNode]
    /\ owner = [h \in Hit |-> NoNode]
    /\ key = [p \in Thread |-> IF p \in Node THEN CHOOSE k \in Key : TRUE
                                             ELSE KeyOf[p]]
    /\ delta = [p \in Thread |-> {}]
    /\ ptr = [p \in Thread |-> NoCell]
    /\ count = [h \in Hit |-> 0]
    /\ blocked = [n \in Node |-> {}]
    /\ events = {}

-----------------------------------------------------------------------------
(* Arrival of a request (grpc Check) or of a bulk-load record. *)

\* Not blocked: the request is let through and "go engine.Process" starts.
Check(h, n) ==
    /\ pc[h] = "new"
    /\ h \notin Bulk
    /\ KeyOf[h] \notin blocked[n]
    /\ pc' = [pc EXCEPT ![h] = "getOwner"]
    /\ at' = [at EXCEPT ![h] = n]
    /\ delta' = [delta EXCEPT ![h] = {h}]
    /\ UNCHANGED <<ring, cacheVars, flushVars, blockVars, owner, key, ptr, count>>

\* Blocked: 429, and no accounting.
Deny(h, n) ==
    /\ pc[h] = "new"
    /\ h \notin Bulk
    /\ KeyOf[h] \in blocked[n]
    /\ pc' = [pc EXCEPT ![h] = "denied"]
    /\ UNCHANGED <<ring, cacheVars, flushVars, blockVars,
                   at, owner, key, delta, ptr, count>>

\* BulkLoad does not look at the blocklist.
StartBulkLoad(h, n) ==
    /\ pc[h] = "new"
    /\ h \in Bulk
    /\ pc' = [pc EXCEPT ![h] = "getOwner"]
    /\ at' = [at EXCEPT ![h] = n]
    /\ delta' = [delta EXCEPT ![h] = {h}]
    /\ UNCHANGED <<ring, cacheVars, flushVars, blockVars, owner, key, ptr, count>>

-----------------------------------------------------------------------------
(* Engine.Process and Engine.BulkLoad: GetOwner and IsOwner take the ring  *)
(* lock separately, so the ring may change between the two.                *)

ReadOwner(h) ==
    /\ pc[h] = "getOwner"
    /\ owner' = [owner EXCEPT ![h] = GetOwner(at[h], KeyOf[h])]
    /\ pc' = [pc EXCEPT ![h] = "isOwner"]
    /\ UNCHANGED <<ring, cacheVars, flushVars, blockVars, at, key, delta, ptr, count>>

TestOwner(h) ==
    /\ pc[h] = "isOwner"
    /\ pc' = [pc EXCEPT ![h] = IF IsOwner(at[h], KeyOf[h]) THEN "lookup" ELSE "enqueue"]
    /\ UNCHANGED <<ring, cacheVars, flushVars, blockVars,
                   at, owner, key, delta, ptr, count>>

\* The goroutine of h returns, and its local variables are gone.
Exit(h) ==
    /\ pc' = [pc EXCEPT ![h] = "done"]
    /\ at' = [at EXCEPT ![h] = NoNode]
    /\ owner' = [owner EXCEPT ![h] = NoNode]
    /\ delta' = [delta EXCEPT ![h] = {}]
    /\ count' = [count EXCEPT ![h] = 0]
    /\ UNCHANGED <<key, ptr>>

\* BulkLoad on a node that is not the owner, with distribution disabled.
DropBulk(h) ==
    /\ pc[h] = "enqueue"
    /\ h \in Bulk
    /\ Exit(h)
    /\ UNCHANGED <<ring, cacheVars, flushVars, blockVars>>

\* BulkLoad after a local increment: accepted_local.
ReturnBulk(h) ==
    /\ pc[h] = "return"
    /\ Exit(h)
    /\ UNCHANGED <<ring, cacheVars, flushVars, blockVars>>

\* Mutant of Exceeds: the limit itself blocks.
ExceedsAtLimit(c) == c >= Limit

\* Evaluate of the sliding window: strictly more than the limit blocks.
Exceeds(c) == c > Limit

\* Mutant of Evaluate: the block stays local.
EvaluateLocally(h) ==
    /\ pc[h] = "evaluate"
    /\ blocked' = IF Exceeds(count[h]) THEN [blocked EXCEPT ![at[h]] = @ \cup {KeyOf[h]}]
                                       ELSE blocked
    /\ Exit(h)
    /\ UNCHANGED <<ring, cacheVars, flushVars, events>>

\* limiter.Evaluate, blocklist.Block and QueueBlockEvent to the other members
\* memberlist knows at this moment (they need not be the ones of the ring).
Evaluate(h) ==
    /\ pc[h] = "evaluate"
    /\ IF Exceeds(count[h])
         THEN /\ blocked' = [blocked EXCEPT ![at[h]] = @ \cup {KeyOf[h]}]
              /\ \E S \in View :
                    events' = events \cup {<<m, KeyOf[h]>> : m \in S \ {at[h]}}
         ELSE UNCHANGED blockVars
    /\ Exit(h)
    /\ UNCHANGED <<ring, cacheVars, flushVars>>

-----------------------------------------------------------------------------
(* AccountingCache.Increment, by a goroutine or by the memberlist handler. *)

\* GetIfPresent.
Lookup(p) ==
    /\ pc[p] = "lookup"
    /\ ptr' = [ptr EXCEPT ![p] = counters[Site(p)][key[p]]]
    /\ pc' = [pc EXCEPT ![p] = "apply"]
    /\ UNCHANGED <<ring, cacheVars, flushVars, blockVars, at, owner, key, delta, count>>

\* Mutant of AfterIncrement: BulkLoad evaluates the limit like Process.
AfterIncrementEvaluate(p) == IF p \in Node THEN "idle" ELSE "evaluate"

\* What follows Increment: Process evaluates the limit, BulkLoad returns and
\* the handler goes on with its datagram.
AfterIncrement(p) ==
    IF p \in Node THEN "idle" ELSE IF p \in Bulk THEN "return" ELSE "evaluate"

\* The thread p returns from Increment, which gave a counter of value D.
Returns(p, D) ==
    /\ pc' = [pc EXCEPT ![p] = AfterIncrement(p)]
    /\ delta' = [delta EXCEPT ![p] = @ \ Of(@, key[p])]
    /\ ptr' = [ptr EXCEPT ![p] = NoCell]
    /\ count' = IF p \in Hit THEN [count EXCEPT ![p] = Cardinality(D)] ELSE count
    /\ UNCHANGED <<ring, flushVars, blockVars, at, owner, key>>

\* counter.Add(delta): the object may have left the cache since the lookup.
AddToCounter(p) ==
    LET c == ptr[p]
        D == heap[c] \cup Of(delta[p], key[p])
    IN  /\ pc[p] = "apply"
        /\ c # NoCell
        /\ heap' = [heap EXCEPT ![c] = D]
        /\ Returns(p, D)
        /\ UNCHANGED counters

\* cache.Set of a new counter: replaces whatever is there by now.
StoreCounter(p) ==
    LET c == CHOOSE x \in FreeCell : TRUE
        D == Of(delta[p], key[p])
    IN  /\ pc[p] = "apply"
        /\ ptr[p] = NoCell
        /\ FreeCell # {}
        /\ heap' = [heap EXCEPT ![c] = D]
        /\ counters' = [counters EXCEPT ![Site(p)][key[p]] = c]
        /\ Returns(p, D)

-----------------------------------------------------------------------------
(* The flusher.  Enqueue and flush hold f.mu, so each is one step.         *)

\* flushNode: one datagram with everything buffered for m; the buffer is
\* cleared whether or not the send succeeds.
Datagram(m, hits) == [to |-> m, hits |-> hits]

\* len(buf.entries): one entry per key.
Entries(hits) == Cardinality({KeyOf[h] : h \in hits})

\* Mutants of Enqueue: the slot is read and not deleted; the buffer is sent and
\* not cleared.
EnqueueKeepingSlot(h) ==
    LET n == at[h]
        m == owner[h]
        buf == buffers[n][m] \cup delta[h] \cup transferable[n][m]
    IN  /\ pc[h] = "enqueue"
        /\ buffers' = [buffers EXCEPT ![n][m] = buf]
        /\ Exit(h)
        /\ UNCHANGED <<ring, cacheVars, blockVars, transferable, net>>

EnqueueKeepingBatch(h) ==
    LET n == at[h]
        m == owner[h]
        buf == buffers[n][m] \cup delta[h] \cup transferable[n][m]
    IN  /\ pc[h] = "enqueue"
        /\ transferable' = [transferable EXCEPT ![n][m] = {}]
        /\ buffers' = [buffers EXCEPT ![n][m] = buf]
        /\ net' = IF Entries(buf) >= MaxBatchSize THEN net \cup {Datagram(m, buf)} ELSE net
        /\ Exit(h)
        /\ UNCHANGED <<ring, cacheVars, blockVars>>

\* Mutant of Enqueue: the slot is deleted and its content is not merged.
EnqueueDroppingSlot(h) ==
    LET n == at[h]
        m == owner[h]
        buf == buffers[n][m] \cup delta[h]
    IN  /\ pc[h] = "enqueue"
        /\ transferable' = [transferable EXCEPT ![n][m] = {}]
        /\ buffers' = [buffers EXCEPT ![n][m] = buf]
        /\ Exit(h)
        /\ UNCHANGED <<ring, cacheVars, blockVars, net>>

\* ConsumeTransferable empties the slot, and its content joins the new hit in
\* the buffer; a full buffer is flushed at once.
Enqueue(h) ==
    LET n == at[h]
        m == owner[h]
        buf == buffers[n][m] \cup delta[h] \cup transferable[n][m]
        full == Entries(buf) >= MaxBatchSize
    IN  /\ pc[h] = "enqueue"
        /\ transferable' = [transferable EXCEPT ![n][m] = {}]
        /\ buffers' = [buffers EXCEPT ![n][m] = IF full THEN {} ELSE buf]
        /\ net' = IF full THEN net \cup {Datagram(m, buf)} ELSE net
        /\ Exit(h)
        /\ UNCHANGED <<ring, cacheVars, blockVars>>

\* Mutant of Flush: the ticker sends full batches only.
FlushFull(n) ==
    /\ \E m \in Node : Entries(buffers[n][m]) >= MaxBatchSize
    /\ net' = net \cup {Datagram(m, buffers[n][m]) :
                          m \in {x \in Node : Entries(buffers[n][x]) >= MaxBatchSize}}
    /\ buffers' = [buffers EXCEPT ![n] =
                     [m \in Node |-> IF Entries(@[m]) >= MaxBatchSize THEN {} ELSE @[m]]]
    /\ UNCHANGED <<ring, cacheVars, transferable, threadVars, blockVars>>

\* The ticker of flushLoop: every non-empty buffer of n is sent.
Flush(n) ==
    /\ \E m \in Node : buffers[n][m] # {}
    /\ net' = net \cup {Datagram(m, buffers[n][m]) :
                          m \in {x \in Node : buffers[n][x] # {}}}
    /\ buffers' = [buffers EXCEPT ![n] = [m \in Node |-> {}]]
    /\ UNCHANGED <<ring, cacheVars, transferable, threadVars, blockVars>>

\* UDP: a datagram may be lost, or never leave (SendAccountingMsg fails when
\* the address is no longer a member, and flushNode only logs it).
Lose(b) ==
    /\ "lose" \in Faults
    /\ net' = net \ {b}
    /\ UNCHANGED <<ring, cacheVars, transferable, buffers, threadVars, blockVars>>

-----------------------------------------------------------------------------
(* NotifyMsg and handleAccountingMsg: the handler of a node takes one      *)
(* datagram at a time and increments its entries one after the other.      *)

Receive(b) ==
    /\ pc[b.to] = "idle"
    /\ delta[b.to] = {}
    /\ delta' = [delta EXCEPT ![b.to] = b.hits]
    /\ net' = net \ {b}
    /\ UNCHANGED <<ring, cacheVars, transferable, buffers, blockVars,
                   pc, at, owner, key, ptr, count>>

NextEntry(n, k) ==
    /\ pc[n] = "idle"
    /\ Of(delta[n], k) # {}
    /\ key' = [key EXCEPT ![n] = k]
    /\ pc' = [pc EXCEPT ![n] = "lookup"]
    /\ UNCHANGED <<ring, cacheVars, flushVars, blockVars, at, owner, delta, ptr, count>>

-----------------------------------------------------------------------------
(* Ring changes and expiry. *)

\* getTransferableLocked: the counters of n whose owner in S is m.
Moved(n, S, m) == UNION {Counter(n, k) : k \in {x \in Key : OwnerIn(S, n, x) = m}}

\* Mutant of UpdateNodes: only the ring changes.
UpdateRingOnly(n, S) ==
    /\ ring' = [ring EXCEPT ![n] = S]
    /\ UNCHANGED <<cacheVars, flushVars, threadVars, blockVars>>

\* UpdateNodes: the ring becomes S; then, for every other member, the counters
\* it owns are invalidated and overwrite the slot of that member.
UpdateNodes(n, S) ==
    /\ ring' = [ring EXCEPT ![n] = S]
    /\ transferable' = [transferable EXCEPT ![n] =
                          [m \in Node |-> IF m \in S \ {n} THEN Moved(n, S, m)
                                                           ELSE @[m]]]
    /\ counters' = [counters EXCEPT ![n] =
                      [k \in Key |-> IF OwnerIn(S, n, k) \in S \ {n} THEN NoCell
                                                                     ELSE @[k]]]
    /\ UNCHANGED <<heap, buffers, net, threadVars, blockVars>>

\* A counter leaves the cache: its window is over, or otter evicts it.
Expire(n, k) ==
    /\ "expire" \in Faults
    /\ counters[n][k] # NoCell
    /\ counters' = [counters EXCEPT ![n][k] = NoCell]
    /\ UNCHANGED <<ring, heap, flushVars, threadVars, blockVars>>

-----------------------------------------------------------------------------
(* Block events reach the peers; a block ends. *)

ReceiveBlock(m, k) ==
    /\ <<m, k>> \in events
    /\ events' = events \ {<<m, k>>}
    /\ blocked' = [blocked EXCEPT ![m] = @ \cup {k}]
    /\ UNCHANGED <<ring, cacheVars, flushVars, threadVars>>

Unblock(n, k) ==
    /\ "expire" \in Faults
    /\ k \in blocked[n]
    /\ blocked' = [blocked EXCEPT ![n] = @ \ {k}]
    /\ UNCHANGED <<ring, cacheVars, flushVars, threadVars, events>>

-----------------------------------------------------------------------------
Process(h) ==
    \/ ReadOwner(h)
    \/ TestOwner(h)
    \/ DropBulk(h)
    \/ ReturnBulk(h)
    \/ Enqueue(h)
    \/ Evaluate(h)

Increment(p) ==
    \/ Lookup(p)
    \/ AddToCounter(p)
    \/ StoreCounter(p)

Handler(n) ==
    \/ \E b \in net : b.to = n /\ Receive(b)
    \/ \E k \in Key : NextEntry(n, k)

Next ==
    \/ \E h \in Hit, n \in Node : Check(h, n) \/ Deny(h, n) \/ StartBulkLoad(h, n)
    \/ \E h \in Hit : Process(h)
    \/ \E p \in Thread : Increment(p)
    \/ \E n \in Node : Handler(n) \/ Flush(n)
    \/ \E b \in net : Lose(b)
    \/ \E n \in Node, S \in View : UpdateNodes(n, S)
    \/ \E n \in Node, k \in Key : Expire(n, k) \/ ReceiveBlock(n, k) \/ Unblock(n, k)

Spec == Init /\ [][Next]_vars

\* The Go scheduler runs every goroutine, the ticker fires, memberlist reads
\* its socket.  Nothing makes requests arrive or the membership change.
Fairness ==
    /\ \A h \in Hit : WF_vars(Process(h))
    /\ \A p \in Thread : WF_vars(Increment(p))
    /\ \A n \in Node : WF_vars(Handler(n)) /\ WF_vars(Flush(n))
    /\ WF_vars(\E n \in Node, k \in Key : ReceiveBlock(n, k))

FairSpec == Spec /\ Fairness
-----------------------------------------------------------------------------
(* Correctness. *)

\* Every place where the program holds the hit h and may still count it.
Where(h) ==
    {x \in {"counter"} \X Node \X Key : h \in Counter(x[2], x[3])}
    \cup {x \in {"transferable"} \X Node \X Node : h \in transferable[x[2]][x[3]]}
    \cup {x \in {"buffer"} \X Node \X Node : h \in buffers[x[2]][x[3]]}
    \cup {x \in {"net"} \X net : h \in x[2].hits}
    \cup {x \in {"thread"} \X Thread : h \in delta[x[2]]}

\* A hit is never counted twice: whatever the interleaving of goroutines,
\* flushes, deliveries, ring changes and expiries, it is in at most one
\* counter, transfer slot, buffer, datagram or thread of the whole cluster.
NoDoubleCount == \A h \in Hit : \A p, q \in Where(h) : p = q

\* The hits for k that were let through (or bulk-loaded) so far.
Accepted(k) == {h \in Hit : KeyOf[h] = k /\ pc[h] \notin {"new", "denied"}}

\* No false positive: an entity is in a blocklist, or announced to a peer, only
\* if more than rule.Limit hits of that entity were really accepted.
NoFalseBlock ==
    \A k \in Key :
        (\E n \in Node : k \in blocked[n] \/ <<n, k>> \in events)
            => Cardinality(Accepted(k)) > Limit

\* BulkLoad never blocks by itself ("bulk loads ... must not trigger blocks as
\* a side effect"): a blocked entity made at least one real request.
BulkNeverBlocks ==
    \A n \in Node, k \in Key :
        k \in blocked[n] \/ <<n, k>> \in events => Accepted(k) \ Bulk # {}

\* A ring change leaves no counter behind that the new ring gives to another
\* member (UpdateNodes hands all of them over).
RingChangeHandsOver ==
    [][\A n \in Node : ring'[n] # ring[n] =>
          \A k \in Key : counters'[n][k] # NoCell => OwnerIn(ring'[n], n, k) = n]_vars

\* The steps that drop the hit h: its datagram is lost, its counter leaves the
\* cache, a bulk record is not distributed, Increment adds to an object that
\* has left the cache or replaces the counter another thread stored meanwhile,
\* or a ring change overwrites the slot in which h waits to be handed over.
Drops(h) ==
    \/ \E b \in net : h \in b.hits /\ Lose(b)
    \/ \E n \in Node, k \in Key : h \in Counter(n, k) /\ Expire(n, k)
    \/ DropBulk(h)
    \/ \E p \in Thread :
          /\ AddToCounter(p)
          /\ h \in delta[p]
          /\ ptr[p] # counters[Site(p)][key[p]]
    \/ \E p \in Thread : StoreCounter(p) /\ h \in Counter(Site(p), key[p])
    \/ \E n \in Node, S \in View :
          /\ \E m \in S \ {n} : h \in transferable[n][m]
          /\ UpdateNodes(n, S)

\* An accepted hit is lost only where the program gives it up: no enqueue,
\* flush, delivery, increment or hand-over drops one on the way, in particular
\* none that the handler, a buffer or a slot already holds.
NoSilentLoss == [][\A h \in Hit : Where(h) # {} /\ Where(h)' = {} => Drops(h)]_vars

\* The hits on their way to a counter.
InPipeline(h) ==
    \/ \E p \in Thread : h \in delta[p]
    \/ \E n, m \in Node : h \in buffers[n][m]
    \/ \E b \in net : h \in b.hits

\* No hit stays forever in a goroutine, a buffer, a datagram or a handler.
PipelineDrains == \A h \in Hit : InPipeline(h) ~> ~InPipeline(h)

\* When the owner finds an entity over its limit, every node ends up blocking
\* it (if no block expires and no event is lost).
BlockReachesEveryone ==
    \A h \in Hit :
        (pc[h] = "evaluate" /\ Exceeds(count[h])) ~> \A n \in Node : KeyOf[h] \in blocked[n]

\* Nothing is on its way and all nodes agree on the ring.
Settled ==
    /\ \A h \in Hit : ~InPipeline(h) /\ pc[h] \notin {"getOwner", "isOwner", "evaluate", "return"}
    /\ \A n, m \in Node : ring[n] = ring[m] /\ transferable[n][m] = {}
    /\ events = {}

\* docs/content/docs/membership.md: "When a rate-limit threshold is breached,
\* the owner node must propagate the block to all peers".
BreachIsBlocked ==
    Settled => \A n \in Node, k \in Key :
                  Exceeds(Cardinality(Counter(n, k))) => \A m \in Node : k \in blocked[m]

\* internal/accounting/flusher.go, on counters whose owner changes: they are
\* enqueued for the new owner, "so that they can be remove from local
\* accounting".  No ring change loses a hit.
RingChangeKeepsHits ==
    [][\A n \in Node, S \in View : UpdateNodes(n, S) =>
          \A h \in Hit : Where(h) # {} => Where(h)' # {}]_vars

\* docs/content/docs/cache.md: "Increment atomically adds delta to the counter
\* and returns the new value": a hit that was processed is somewhere.
NoLostHit == \A h \in Hit : pc[h] = "done" => Where(h) # {}
=============================================================================
