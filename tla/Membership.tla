----------------------------- MODULE Membership -----------------------------
(***************************************************************************)
(* How a node joins the cluster and when it reports ready:                 *)
(* internal/membership/membership.go (Start, JoinCluster) and the state    *)
(* delegate's push/pull (MergeRemoteState, WaitForSync).  memberlist is    *)
(* external: its Join and its periodic push/pull exchange the member lists *)
(* and the delegates' states of two nodes.                                 *)
(*                                                                         *)
(* The blocks are those in force when the model starts; they neither end   *)
(* nor change, so a node lacks one only because it has not been told.      *)
(***************************************************************************)
EXTENDS Naturals, FiniteSets

CONSTANTS Node,
          Seed,         \* the nodes that run already and know every block
          Block,
          MaxCrashes    \* bound on the crashes in a behaviour

VARIABLES list,     \* list[n]: the members in the memberlist of n
          pc,       \* where newCluster and JoinCluster are on n
          todo,     \* the peers that memberlist.Join has not tried yet
          joined,   \* numJoined > 0
          ready,    \* StateDelegate.ready
          blocks,   \* the blocklist
          inbox,    \* states received in a push/pull, not merged yet
          synced,   \* history: a remote state was merged
          excused,  \* history: alone, or the sync timed out
          crashes

vars == <<list, pc, todo, joined, ready, blocks, inbox, synced, excused, crashes>>

Init ==
    /\ list = [n \in Node |-> IF n \in Seed THEN Seed ELSE {n}]
    /\ pc = [n \in Node |-> IF n \in Seed THEN "done" ELSE "off"]
    /\ todo = [n \in Node |-> {}]
    /\ joined = [n \in Node |-> FALSE]
    /\ ready = [n \in Node |-> n \in Seed]
    /\ blocks = [n \in Node |-> IF n \in Seed THEN Block ELSE {}]
    /\ inbox = [n \in Node |-> {}]
    /\ synced = [n \in Node |-> FALSE]
    /\ excused = [n \in Node |-> n \in Seed]
    /\ crashes = 0

Running(n) == pc[n] # "off"

(* LocalState, with the member list that memberlist adds to it.             *)
LocalState(n) == [from |-> n, list |-> list[n], blocks |-> blocks[n]]

-----------------------------------------------------------------------------
(* Ready.                                                                  *)

(* markSyncComplete stores ready and signals the unbuffered channel: the    *)
(* signal is lost unless WaitForSync is already in its select.              *)
MarkSyncComplete(n, at) ==
    /\ ready' = [ready EXCEPT ![n] = TRUE]
    /\ pc' = [pc EXCEPT ![n] = IF pc[n] = "waiting" THEN "done" ELSE at]

(* markReady of JoinCluster: nothing to synchronise with.                   *)
MarkReady(n) ==
    /\ MarkSyncComplete(n, "done")
    /\ excused' = [excused EXCEPT ![n] = TRUE]

(* Mutant of MergeRemoteState: a state that cannot be merged counts too.    *)
MergeMarksReady(n, state, at) ==
    /\ list' = [list EXCEPT ![n] = @ \cup state.list]
    /\ \/ /\ blocks' = [blocks EXCEPT ![n] = @ \cup state.blocks]
          /\ synced' = [synced EXCEPT ![n] = TRUE]
       \/ UNCHANGED <<blocks, synced>>
    /\ MarkSyncComplete(n, at)

(* memberlist merges the member list, then calls MergeRemoteState, which    *)
(* returns early when the state cannot be merged.                           *)
MergeRemoteState(n, state, at) ==
    /\ list' = [list EXCEPT ![n] = @ \cup state.list]
    /\ \/ /\ blocks' = [blocks EXCEPT ![n] = @ \cup state.blocks]
          /\ synced' = [synced EXCEPT ![n] = TRUE]
          /\ MarkSyncComplete(n, at)
       \/ /\ pc' = [pc EXCEPT ![n] = at]
          /\ UNCHANGED <<blocks, synced, ready>>

-----------------------------------------------------------------------------
(* Start and JoinCluster.                                                  *)

(* newCluster: the memberlist answers peers from now on; JoinCluster waits  *)
(* for the startup delay.                                                   *)
Start(n) ==
    /\ pc[n] = "off"
    /\ pc' = [pc EXCEPT ![n] = "delay"]
    /\ UNCHANGED <<list, todo, joined, ready, blocks, inbox, synced, excused,
                   crashes>>

(* discoverPeers fails, or returns no peer but this node.                   *)
DiscoverNobody(n) ==
    /\ pc[n] = "delay"
    /\ MarkReady(n)
    /\ UNCHANGED <<list, todo, joined, blocks, inbox, synced, crashes>>

(* discoverPeers returns the peers DNS knows, running or not.               *)
Discover(n) ==
    /\ pc[n] = "delay"
    /\ \E peers \in SUBSET (Node \ {n}) \ {{}} : todo' = [todo EXCEPT ![n] = peers]
    /\ pc' = [pc EXCEPT ![n] = "join"]
    /\ UNCHANGED <<list, joined, ready, blocks, inbox, synced, excused, crashes>>

(* memberlist.Join exchanges state with one peer after the other; the       *)
(* joining node merges in the call, the peer in its own time.               *)
JoinPeer(n, m) ==
    /\ pc[n] = "join" /\ m \in todo[n] /\ Running(m)
    /\ todo' = [todo EXCEPT ![n] = @ \ {m}]
    /\ joined' = [joined EXCEPT ![n] = TRUE]
    /\ inbox' = [inbox EXCEPT ![m] =
                   {s \in @ : s.from # n} \cup {LocalState(n)}]
    /\ MergeRemoteState(n, LocalState(m), "join")
    /\ UNCHANGED <<excused, crashes>>

JoinFails(n, m) ==
    /\ pc[n] = "join" /\ m \in todo[n]
    /\ todo' = [todo EXCEPT ![n] = @ \ {m}]
    /\ UNCHANGED <<list, pc, joined, ready, blocks, inbox, synced, excused,
                   crashes>>

(* UpdateNodes, then waitForChannelsReady, which returns when the channels  *)
(* are up or after its timeout; then WaitForSync or markReady.              *)
AfterJoin(n) ==
    /\ pc[n] = "join" /\ todo[n] = {}
    /\ \/ joined[n]
          /\ pc' = [pc EXCEPT ![n] = "test"]
          /\ UNCHANGED <<ready, excused>>
       \/ ~joined[n] /\ MarkReady(n)
    /\ UNCHANGED <<list, todo, joined, blocks, inbox, synced, crashes>>

(* WaitForSync tests ready ...                                              *)
TestReady(n) ==
    /\ pc[n] = "test"
    /\ pc' = [pc EXCEPT ![n] = IF ready[n] THEN "done" ELSE "tested"]
    /\ UNCHANGED <<list, todo, joined, ready, blocks, inbox, synced, excused,
                   crashes>>

(* ... and then enters its select.                                          *)
EnterSelect(n) ==
    /\ pc[n] = "tested"
    /\ pc' = [pc EXCEPT ![n] = "waiting"]
    /\ UNCHANGED <<list, todo, joined, ready, blocks, inbox, synced, excused,
                   crashes>>

(* Mutant of SyncTimeout: the node is not marked ready.                     *)
SyncTimeoutReturns(n) ==
    /\ pc[n] = "waiting"
    /\ pc' = [pc EXCEPT ![n] = "done"]
    /\ UNCHANGED <<list, todo, joined, ready, blocks, inbox, synced, excused,
                   crashes>>

SyncTimeout(n) ==
    /\ pc[n] = "waiting"
    /\ pc' = [pc EXCEPT ![n] = "done"]
    /\ ready' = [ready EXCEPT ![n] = TRUE]
    /\ excused' = [excused EXCEPT ![n] = TRUE]
    /\ UNCHANGED <<list, todo, joined, blocks, inbox, synced, crashes>>

-----------------------------------------------------------------------------
(* Push/pull between members, and crashes.                                 *)

(* A node keeps one undelivered state per peer (a bound).                   *)
PushPull(n, m) ==
    /\ n # m /\ m \in list[n] /\ Running(n) /\ Running(m)
    /\ \A s \in inbox[n] : s.from # m
    /\ \A s \in inbox[m] : s.from # n
    /\ inbox' = [inbox EXCEPT ![n] = @ \cup {LocalState(m)},
                              ![m] = @ \cup {LocalState(n)}]
    /\ UNCHANGED <<list, pc, todo, joined, ready, blocks, synced, excused, crashes>>

Merge(n, state) ==
    /\ state \in inbox[n]
    /\ inbox' = [inbox EXCEPT ![n] = @ \ {state}]
    /\ MergeRemoteState(n, state, pc[n])
    /\ UNCHANGED <<todo, joined, excused, crashes>>

(* A crash loses everything the process held.  The others keep the address  *)
(* in their lists, and the process may be started again under it.           *)
Crash(n) ==
    /\ Running(n) /\ n \notin Seed /\ crashes < MaxCrashes
    /\ crashes' = crashes + 1
    /\ pc' = [pc EXCEPT ![n] = "off"]
    /\ list' = [list EXCEPT ![n] = {n}]
    /\ todo' = [todo EXCEPT ![n] = {}]
    /\ joined' = [joined EXCEPT ![n] = FALSE]
    /\ ready' = [ready EXCEPT ![n] = FALSE]
    /\ blocks' = [blocks EXCEPT ![n] = {}]
    /\ inbox' = [inbox EXCEPT ![n] = {}]
    /\ synced' = [synced EXCEPT ![n] = FALSE]
    /\ excused' = [excused EXCEPT ![n] = FALSE]

JoinStep(n) ==
    \/ DiscoverNobody(n) \/ Discover(n) \/ AfterJoin(n) \/ TestReady(n)
    \/ EnterSelect(n) \/ SyncTimeout(n)
    \/ \E m \in todo[n] : JoinPeer(n, m) \/ JoinFails(n, m)

Next ==
    \/ \E n \in Node : Start(n) \/ JoinStep(n) \/ Crash(n)
    \/ \E n, m \in Node : PushPull(n, m)
    \/ \E n \in Node : \E state \in inbox[n] : Merge(n, state)

(* The goroutine of JoinCluster runs and its timeouts fire.                 *)
Fairness == \A n \in Node : WF_vars(JoinStep(n))

Spec == Init /\ [][Next]_vars
FairSpec == Spec /\ Fairness

-----------------------------------------------------------------------------
(* A node reports ready only if it merged a peer's state, found no peer to  *)
(* join, or waited for the whole sync timeout: an exchange whose state      *)
(* could not be merged does not make it ready, nor does anything that       *)
(* another node does to it in the middle of JoinCluster.                    *)
ReadyIsEarned == \A n \in Node : ready[n] => synced[n] \/ excused[n]

(* JoinCluster returns with the node ready, although the sync may complete  *)
(* between the test of ready and the select and peers may die during Join.  *)
JoinReturns ==
    \A n \in Node :
        (pc[n] = "delay") ~> \/ pc[n] = "off"
                             \/ pc[n] = "done" /\ ready[n]

(* A node that reports ready after a sync knows the blocks of the cluster.  *)
WarmWhenReady == \A n \in Node : ready[n] /\ ~excused[n] => Block \subseteq blocks[n]
=============================================================================
