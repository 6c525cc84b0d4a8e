----------------------------- MODULE Blocklist -----------------------------
(***************************************************************************)
(* Replication of the blocklist: the BlocklistCache of every node          *)
(* (internal/cache/blocklist.go), the block and unblock events that follow *)
(* a breach or an admin call (internal/membership/delegate.go,             *)
(* internal/api/handlers_blocklist.go) and the push/pull state sync.       *)
(*                                                                         *)
(* Every operation of the code works on one key at a time and the keys do  *)
(* not interact, so the model is that of one entity.  Instants are         *)
(* remaining times: an absolute deadline of the program is the number of   *)
(* ticks left until it, 0 once it has passed, and Tick ages all of them    *)
(* together.  The clocks of the nodes agree.                               *)
(***************************************************************************)
EXTENDS Naturals

CONSTANTS
    Node,         \* the members of the cluster
    BlockOp,      \* breaches found by the engine and admin POSTs
    UnblockOp,    \* admin DELETEs
    TTL,          \* TTL[o]: decision.RetryAfter or the ttl of the POST
    MaxTTL,       \* the longest TTL
    KeepsExpiry,  \* whether a Set on a present key keeps the entry's expiry, as
                  \* otter's ExpiryCreatingFunc (expire after creation) has it
    Environment,  \* what else may happen: "tick", "lose", "evict", "restart"
    NoEntry,      \* no value for the key in a cache
    NoNode        \* node of an operation that has not started

Op == BlockOp \cup UnblockOp

ASSUME BlocklistAssumption ==
    /\ MaxTTL \in Nat \ {0}
    /\ TTL \in [BlockOp -> 1..MaxTTL]
    /\ KeepsExpiry \in BOOLEAN
    /\ BlockOp \cap UnblockOp = {}
    /\ NoNode \notin Node
    /\ NoEntry \notin [deadline : 0..MaxTTL, until : 1..MaxTTL]

VARIABLES
    cache,    \* cache[n]: the entry of n's cache; until is otter's own expiry
    pc,       \* pc[o]: todo, queue (done locally, not yet announced), done
    at,       \* at[o]: node that runs o
    msgs,     \* block and unblock events and sync states in flight
    writes,   \* handlers between their GetIfPresent and their Set
    granted,  \* history: ticks left to the last deadline any Block computed
    last      \* history: the last operation that started

vars == <<cache, pc, at, msgs, writes, granted, last>>

Entry == [deadline : 0..MaxTTL, until : 1..MaxTTL]
Message == [src : Op \cup Node, to : Node, kind : {"block", "unblock", "sync"}, left : 0..MaxTTL]

TypeOK ==
    /\ cache \in [Node -> Entry \cup {NoEntry}]
    /\ pc \in [Op -> {"todo", "queue", "done"}]
    /\ at \in [Op -> Node \cup {NoNode}]
    /\ msgs \subseteq Message
    /\ writes \subseteq Message
    /\ granted \in 0..MaxTTL
    /\ last \in Op \cup {NoNode}

Init ==
    /\ cache = [n \in Node |-> NoEntry]
    /\ pc = [o \in Op |-> "todo"]
    /\ at = [o \in Op |-> NoNode]
    /\ msgs = {}
    /\ writes = {}
    /\ granted = 0
    /\ last = NoNode

-----------------------------------------------------------------------------
Later(s, t) == IF s < t THEN t ELSE s

\* Mutant of Expiry: a deadline that has passed gets no time at all.
ExpiryUnfloored(old, left) == IF KeepsExpiry /\ old # NoEntry THEN old.until ELSE left

\* The expiry otter gives an entry that is Set with a deadline: the time until
\* the deadline, or one millisecond when that has passed.
Expiry(old, left) ==
    IF KeepsExpiry /\ old # NoEntry THEN old.until ELSE IF left = 0 THEN 1 ELSE left

\* cache.Set of an entry whose deadline is left ticks away.
Set(n, left) ==
    cache' = [cache EXCEPT ![n] = [deadline |-> left, until |-> Expiry(@, left)]]

\* existing.expiresAt.Before(expiresAt).  The order of two deadlines that have
\* both passed is not in the model: either answer.
Before(s, t) == IF s = 0 /\ t = 0 THEN BOOLEAN ELSE {s < t}

\* The handler found no entry, or an older one.
Fresher(n, left) == IF cache[n] = NoEntry THEN {TRUE} ELSE Before(cache[n].deadline, left)

Announce(o, kind, left) ==
    msgs' = msgs \cup {[src |-> o, to |-> m, kind |-> kind, left |-> left] : m \in Node \ {at[o]}}

-----------------------------------------------------------------------------
(* Engine.Process on a breach, and the admin handlers: first the local     *)
(* cache, then the event to the peers, with a second reading of the clock. *)

Start(o, n) ==
    /\ pc[o] = "todo"
    /\ pc' = [pc EXCEPT ![o] = "queue"]
    /\ at' = [at EXCEPT ![o] = n]
    /\ last' = o
    /\ UNCHANGED <<msgs, writes>>

\* Block overwrites whatever is there.
Block(o, n) ==
    /\ o \in BlockOp
    /\ Start(o, n)
    /\ Set(n, TTL[o])
    /\ granted' = Later(granted, TTL[o])

QueueBlockEvent(o) ==
    /\ o \in BlockOp
    /\ pc[o] = "queue"
    /\ pc' = [pc EXCEPT ![o] = "done"]
    /\ Announce(o, "block", TTL[o])
    /\ granted' = Later(granted, TTL[o])
    /\ UNCHANGED <<cache, at, writes, last>>

Unblock(o, n) ==
    /\ o \in UnblockOp
    /\ Start(o, n)
    /\ cache' = [cache EXCEPT ![n] = NoEntry]
    /\ UNCHANGED granted

QueueUnblockEvent(o) ==
    /\ o \in UnblockOp
    /\ pc[o] = "queue"
    /\ pc' = [pc EXCEPT ![o] = "done"]
    /\ Announce(o, "unblock", 0)
    /\ UNCHANGED <<cache, at, writes, granted, last>>

-----------------------------------------------------------------------------
(* Reception.  memberlist and the gRPC channel run handlers concurrently,  *)
(* and a handler looks at the cache before it writes.                      *)

\* BlockWithExpiresAt, up to its decision to write.
HandleBlock(b) ==
    /\ b.kind = "block"
    /\ msgs' = msgs \ {b}
    /\ \E fresher \in Fresher(b.to, b.left) :
          writes' = IF fresher THEN writes \cup {b} ELSE writes
    /\ UNCHANGED <<cache, pc, at, granted, last>>

\* Mutant of MergeState: entries that are not in the cache are skipped.
MergeKnown(b) ==
    /\ b.kind = "sync"
    /\ msgs' = msgs \ {b}
    /\ \E fresher \in Fresher(b.to, b.left) :
          writes' = IF b.left > 0 /\ fresher /\ cache[b.to] # NoEntry THEN writes \cup {b} ELSE writes
    /\ UNCHANGED <<cache, pc, at, granted, last>>

\* MergeState on one entry, up to its decision: entries whose deadline has
\* passed are skipped.
MergeState(b) ==
    /\ b.kind = "sync"
    /\ msgs' = msgs \ {b}
    /\ \E fresher \in Fresher(b.to, b.left) :
          writes' = IF b.left > 0 /\ fresher THEN writes \cup {b} ELSE writes
    /\ UNCHANGED <<cache, pc, at, granted, last>>

\* The Set of BlockWithExpiresAt or MergeState.
Apply(w) ==
    /\ writes' = writes \ {w}
    /\ Set(w.to, w.left)
    /\ UNCHANGED <<pc, at, msgs, granted, last>>

HandleUnblock(b) ==
    /\ b.kind = "unblock"
    /\ msgs' = msgs \ {b}
    /\ cache' = [cache EXCEPT ![b.to] = NoEntry]
    /\ UNCHANGED <<pc, at, writes, granted, last>>

\* One direction of a push/pull: GetState of n, whose entries have not passed
\* their deadline, goes to m.  Bound: one state from n to m at a time.
PushPull(n, m) ==
    /\ n # m
    /\ cache[n] # NoEntry
    /\ cache[n].deadline > 0
    /\ \A b \in msgs \cup writes : ~(b.src = n /\ b.to = m)
    /\ msgs' = msgs \cup {[src |-> n, to |-> m, kind |-> "sync", left |-> cache[n].deadline]}
    /\ UNCHANGED <<cache, pc, at, writes, granted, last>>

-----------------------------------------------------------------------------
(* Time and faults. *)

Age(t) == IF t = 0 THEN 0 ELSE t - 1
AgeEntry(e) ==
    IF e = NoEntry \/ e.until = 1 THEN NoEntry
    ELSE [deadline |-> Age(e.deadline), until |-> e.until - 1]
AgeAll(B) == {[b EXCEPT !.left = Age(@)] : b \in B}

\* Mutant of Tick: messages carry a TTL instead of a deadline.
TickRelative ==
    /\ "tick" \in Environment
    /\ cache' = [n \in Node |-> AgeEntry(cache[n])]
    /\ granted' = Age(granted)
    /\ UNCHANGED <<pc, at, msgs, writes, last>>

\* Time passes; entries whose expiry is reached are no longer visible.
Tick ==
    /\ "tick" \in Environment
    /\ cache' = [n \in Node |-> AgeEntry(cache[n])]
    /\ msgs' = AgeAll(msgs)
    /\ writes' = AgeAll(writes)
    /\ granted' = Age(granted)
    /\ UNCHANGED <<pc, at, last>>

\* SendReliable or the channel fails; the error is only logged.
Lose(b) ==
    /\ "lose" \in Environment
    /\ msgs' = msgs \ {b}
    /\ UNCHANGED <<cache, pc, at, writes, granted, last>>

\* otter drops the entry to stay within its size.
Evict(n) ==
    /\ "evict" \in Environment
    /\ cache[n] # NoEntry
    /\ cache' = [cache EXCEPT ![n] = NoEntry]
    /\ UNCHANGED <<pc, at, msgs, writes, granted, last>>

\* The process of n ends and starts again: nothing is persisted.
Restart(n) ==
    /\ "restart" \in Environment
    /\ cache' = [cache EXCEPT ![n] = NoEntry]
    /\ writes' = {w \in writes : w.to # n}
    /\ pc' = [o \in Op |-> IF at[o] = n THEN "done" ELSE pc[o]]
    /\ UNCHANGED <<at, msgs, granted, last>>

-----------------------------------------------------------------------------
Handle(b) == HandleBlock(b) \/ MergeState(b) \/ HandleUnblock(b)

Next ==
    \/ \E o \in Op, n \in Node : Block(o, n) \/ Unblock(o, n)
    \/ \E o \in Op : QueueBlockEvent(o) \/ QueueUnblockEvent(o)
    \/ \E b \in msgs : Handle(b) \/ Lose(b)
    \/ \E w \in writes : Apply(w)
    \/ \E n, m \in Node : PushPull(n, m)
    \/ \E n \in Node : Evict(n) \/ Restart(n)
    \/ Tick

Spec == Init /\ [][Next]_vars

\* Time passes, handlers run, and of the periodic push/pulls between two nodes
\* some get through, whatever else is lost.
Fairness ==
    /\ WF_vars(Tick)
    /\ WF_vars(\E w \in writes : Apply(w))
    /\ WF_vars(\E b \in msgs : Handle(b))
    /\ \A n, m \in Node :
          /\ WF_vars(PushPull(n, m))
          /\ SF_vars(\E b \in msgs : b.src = n /\ b.to = m /\ MergeState(b))

FairSpec == Spec /\ Fairness

-----------------------------------------------------------------------------
(* Correctness. *)

\* Replication never prolongs a block: no node denies the entity longer than
\* to the last deadline that a Block or a QueueBlockEvent computed (one
\* millisecond more for an event that arrives late), however often events and
\* sync states are delayed, reordered and exchanged.
NoProlongedBlock ==
    \A n \in Node : cache[n] # NoEntry =>
        cache[n].deadline <= granted /\ cache[n].until <= Later(granted, 1)

\* An entry stays visible until its deadline.
HeldToDeadline ==
    \A n \in Node : cache[n] # NoEntry => cache[n].until >= cache[n].deadline

\* Blocks end: once nobody blocks the entity any more, the nodes do not keep
\* the block alive among themselves by push/pull.
BlocksEnd == <>[](\A n \in Node : cache[n] = NoEntry)

\* As long as the block lasts, push/pull brings it to the nodes that missed the
\* event or lost the entry.
BlockSpreads ==
    \A n, m \in Node : (cache[n] # NoEntry) ~> (cache[m] # NoEntry)

\* "the longer expiration time wins" (MergeState): applying an event or a sync
\* entry never shortens the block.
LongerWins ==
    [][\A w \in writes : Apply(w) /\ cache[w.to] # NoEntry =>
          cache'[w.to].deadline >= cache[w.to].deadline]_vars

\* "Removing a block via API must trigger a cluster-wide UnblockEvent to clear
\* the cache on all nodes": when the last operation was an unblock and nothing
\* is in flight, no node blocks the entity.
UnblockClears ==
    last \in UnblockOp /\ msgs = {} /\ writes = {} /\ (\A o \in Op : pc[o] # "queue")
        => \A n \in Node : cache[n] = NoEntry
=============================================================================
