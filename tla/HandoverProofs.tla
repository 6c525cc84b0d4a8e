--------------------------- MODULE HandoverProofs ---------------------------
(***************************************************************************)
(* The handover counts no hit twice and a node is ready only for a reason, *)
(* for any number of nodes, hits, leavers, joiners and crashes, any batch  *)
(* size and with every message lost that may be.                           *)
(*                                                                         *)
(* CountedOnce is not inductive.  It says nothing of the places a hit      *)
(* passes before it is in a counter, so that a step could put a hit that   *)
(* has not been received, or whose goroutine has not run, into a second    *)
(* place.  Once adds these to the places, as At names them, and the types  *)
(* add that no node hands over to itself and no payload is empty.          *)
(***************************************************************************)
EXTENDS Handover, Joining, TLAPS

-----------------------------------------------------------------------------
(* Ready and its reasons are Booleans for each node.                        *)
Reasons ==
    /\ ready \in [Joiner -> BOOLEAN]
    /\ synced \in [Joiner -> BOOLEAN]
    /\ excused \in [Joiner -> BOOLEAN]

(* markReady of JoinCluster records its excuse.                             *)
LEMMA ReadyExcused ==
    ASSUME Reasons, ReadyIsEarned, NEW n \in Joiner, UNCHANGED synced,
           ready' = [ready EXCEPT ![n] = TRUE], excused' = [excused EXCEPT ![n] = TRUE]
    PROVE  (Reasons /\ ReadyIsEarned)'
BY Zenon DEF Reasons, ReadyIsEarned, M!ReadyIsEarned

(* MergeRemoteState marks a node ready only with the state merged.          *)
LEMMA MergeEarns ==
    ASSUME Reasons, ReadyIsEarned, NEW n \in Joiner, NEW state, NEW at,
           M!MergeRemoteState(n, state, at), UNCHANGED excused
    PROVE  (Reasons /\ ReadyIsEarned)'
<1>1. \/ UNCHANGED <<ready, synced>>
      \/ ready' = [ready EXCEPT ![n] = TRUE] /\ synced' = [synced EXCEPT ![n] = TRUE]
  BY Zenon DEF M!MergeRemoteState, M!MarkSyncComplete
<1>2. CASE UNCHANGED <<ready, synced>>
  BY Zenon, <1>2 DEF Reasons, ReadyIsEarned, M!ReadyIsEarned
<1>3. CASE ready' = [ready EXCEPT ![n] = TRUE] /\ synced' = [synced EXCEPT ![n] = TRUE]
  BY Zenon, <1>3 DEF Reasons, ReadyIsEarned, M!ReadyIsEarned
<1> QED
  BY Zenon, <1>1, <1>2, <1>3

(* Whatever its peers do while it joins, and however often nodes crash and  *)
(* start again: a node is ready only if it merged the state of a peer,      *)
(* found nobody to join or waited for the whole sync timeout.               *)
THEOREM ReadinessIsEarned == M!Spec => []ReadyIsEarned
<1> DEFINE Inv == Reasons /\ ReadyIsEarned
<1>1. M!Init => Inv
  BY DEF M!Init, Reasons, ReadyIsEarned, M!ReadyIsEarned
<1>2. ASSUME Inv, [M!Next]_(M!vars) PROVE Inv'
  <2>1. CASE UNCHANGED <<ready, synced, excused>>
    BY Zenon, <1>2, <2>1 DEF Reasons, ReadyIsEarned, M!ReadyIsEarned
  <2>2. ASSUME NEW n \in Joiner, M!Start(n) PROVE Inv'
    BY Zenon, <2>1, <2>2 DEF M!Start
  <2>3. ASSUME NEW n \in Joiner, M!JoinStep(n) PROVE Inv'
    <3>1. CASE M!Discover(n) \/ M!TestReady(n) \/ M!EnterSelect(n) \/ \E m \in peers[n] : M!JoinFails(n, m)
      BY Zenon, <2>1, <3>1 DEF M!Discover, M!TestReady, M!EnterSelect, M!JoinFails
    <3>2. CASE M!DiscoverNobody(n) \/ M!AfterJoin(n) \/ M!SyncTimeout(n)
      <4>1. \/ UNCHANGED <<ready, synced, excused>>
            \/ /\ ready' = [ready EXCEPT ![n] = TRUE] /\ excused' = [excused EXCEPT ![n] = TRUE]
               /\ UNCHANGED synced
        BY Zenon, <3>2
        DEF M!DiscoverNobody, M!AfterJoin, M!SyncTimeout, M!MarkReady, M!MarkSyncComplete
      <4> QED
        BY Zenon, <1>2, <2>1, <4>1, ReadyExcused
    <3>3. ASSUME NEW m \in peers[n], M!JoinPeer(n, m) PROVE Inv'
      BY Zenon, <1>2, <3>3, MergeEarns DEF M!JoinPeer
    <3> QED
      BY Zenon, <2>3, <3>1, <3>2, <3>3 DEF M!JoinStep
  <2>4. ASSUME NEW n \in Joiner, M!Crash(n) PROVE Inv'
    <3>1. /\ ready' = [ready EXCEPT ![n] = FALSE] /\ synced' = [synced EXCEPT ![n] = FALSE]
          /\ excused' = [excused EXCEPT ![n] = FALSE]
      BY Zenon, <2>4 DEF M!Crash
    <3> QED
      BY Zenon, <1>2, <3>1 DEF Reasons, ReadyIsEarned, M!ReadyIsEarned
  <2>5. ASSUME NEW n \in Joiner, NEW m \in Joiner, M!PushPull(n, m) PROVE Inv'
    BY Zenon, <2>1, <2>5 DEF M!PushPull
  <2>6. ASSUME NEW n \in Joiner, NEW state \in inbox[n], M!Merge(n, state) PROVE Inv'
    BY Zenon, <1>2, <2>6, MergeEarns DEF M!Merge
  <2>7. CASE UNCHANGED M!vars
    BY Zenon, <2>1, <2>7 DEF M!vars
  <2> QED
    BY Zenon, <1>2, <2>2, <2>3, <2>4, <2>5, <2>6, <2>7 DEF M!Next
<1>3. Inv => ReadyIsEarned
  BY Zenon
<1> QED
  BY <1>1, <1>2, <1>3, PTL DEF M!Spec

-----------------------------------------------------------------------------
Batch == [from : Node, hits : SUBSET Hit]

(* The types of what TypeOK leaves out, and why no payload is empty or goes *)
(* to its sender.                                                           *)
HandoverTypes ==
    /\ TypeOK
    /\ new \subseteq Hit
    /\ snap \in [Node -> SUBSET Hit]
    /\ todo \in [Node -> SUBSET Node]
    /\ \A n \in Node : n \notin todo[n]
    /\ \A n \in Node : phase[n] = "evacuate" => snap[n] # {}
    /\ \A p \in mail : p.from \in Node /\ p.to \in Node /\ p.hits \subseteq Hit
    /\ settling \in [Node -> SUBSET Batch]
    /\ entries \in [Node -> SUBSET Hit]

(* The ring of a node names a node as the owner of a key.                   *)
LEMMA OwnerType ==
    ASSUME HandoverTypes, NEW n \in Node, NEW h \in Hit
    PROVE  Owner(n, KeyOf[h]) \in Node
<1>1. ring[n] \subseteq Node
  BY Zenon DEF HandoverTypes, TypeOK
<1> QED
  BY Zenon, <1>1, HandoverAssumption DEF Owner

(* What Account leaves in the pipeline has its type.                        *)
LEMMA AccountTypes ==
    ASSUME HandoverTypes, NEW n \in Node, NEW H \in SUBSET Hit, NEW h \in Hit,
           Account(n, H, KeyOf[h])
    PROVE  /\ counter' \in [Node -> SUBSET Hit]
           /\ slot' \in [Node -> [Node -> SUBSET Hit]]
           /\ buffer' \in [Node -> [Node -> SUBSET Hit]]
           /\ \A b \in net' : b.to \in Node /\ b.hits \in SUBSET Hit
<1> DEFINE m == Owner(n, KeyOf[h])
           batch == buffer[n][m] \cup H \cup slot[n][m]
           full == Cardinality({KeyOf[g] : g \in batch}) >= setting.maxBatchSize
<1>1. m \in Node
  BY Zenon, OwnerType
<1>2. batch \in SUBSET Hit
  BY <1>1 DEF HandoverTypes, TypeOK
<1>3. CASE m = n
  <2>1. counter' = [counter EXCEPT ![n] = @ \cup H] /\ UNCHANGED <<slot, buffer, net>>
    BY Zenon, <1>3 DEF Account
  <2> QED
    BY Zenon, <2>1 DEF HandoverTypes, TypeOK
<1>4. CASE m # n
  <2>1. /\ buffer' = [buffer EXCEPT ![n][m] = IF full THEN {} ELSE batch]
        /\ slot' = [slot EXCEPT ![n][m] = {}]
        /\ net' = IF full /\ m \in list[n] THEN net \cup {[to |-> m, hits |-> batch]} ELSE net
        /\ UNCHANGED counter
    BY Zenon, <1>4 DEF Account
  <2> HIDE DEF full, batch, m
  <2> QED
    BY <1>1, <1>2, <2>1 DEF HandoverTypes, TypeOK
<1> QED
  BY Zenon, <1>3, <1>4

(* The hits of the buffers of a node go to the network with their type.     *)
LEMMA FlushedTypes ==
    ASSUME HandoverTypes, NEW n \in Node, Flushed(n)
    PROVE  /\ buffer' \in [Node -> [Node -> SUBSET Hit]]
           /\ \A b \in net' : b.to \in Node /\ b.hits \in SUBSET Hit
BY DEF Flushed, Empty, HandoverTypes, TypeOK

(* A process that ends keeps the types.                                     *)
LEMMA ExitTypes ==
    ASSUME HandoverTypes, NEW n \in Node, Exit(n)
    PROVE  HandoverTypes'
<1>1. UNCHANGED <<new, net, snap, todo, mail>>
  BY Zenon DEF Exit, flusher, evacuation
<1>2. /\ phase' = [phase EXCEPT ![n] = "off"]
      /\ asked' = [asked EXCEPT ![n] = {}] /\ counter' = [counter EXCEPT ![n] = {}]
      /\ settling' = [settling EXCEPT ![n] = {}] /\ entries' = [entries EXCEPT ![n] = {}]
      /\ list' = [list EXCEPT ![n] = {}] /\ ring' = [ring EXCEPT ![n] = {}]
  BY Zenon DEF Exit
<1>3. /\ slot' \in [Node -> [Node -> SUBSET Hit]]
      /\ buffer' \in [Node -> [Node -> SUBSET Hit]]
  BY Zenon DEF Exit, Empty, HandoverTypes, TypeOK
<1> QED
  BY <1>1, <1>2, <1>3, Zenon DEF HandoverTypes, TypeOK

(* Every step of the processes keeps the types.                             *)
LEMMA NextHandoverTypes ==
    ASSUME HandoverTypes, [Next]_vars
    PROVE  HandoverTypes'
<1> USE DEF flusher, pipeline, evacuation, adoption
<1>1. ASSUME NEW n \in Node, StartNext(n) PROVE HandoverTypes'
  BY <1>1, ZenonT(60) DEF StartNext, HandoverTypes, TypeOK
<1>2. ASSUME NEW n \in Node, StartFails(n) PROVE HandoverTypes'
  BY Zenon, <1>2, ExitTypes DEF StartFails
<1>3. ASSUME NEW n \in Node, Signal(n) \/ StopServer(n) PROVE HandoverTypes'
  <2>1. \E stage \in {"stopping", "nogrpc"} : phase' = [phase EXCEPT ![n] = stage]
    BY Zenon, <1>3 DEF Signal, StopServer
  <2>2. UNCHANGED <<list, ring, new, asked, counter, slot, buffer, net, snap, todo, mail, settling, entries>>
    BY Zenon, <1>3 DEF Signal, StopServer
  <2> QED
    BY ZenonT(60), <2>1, <2>2 DEF HandoverTypes, TypeOK
<1>4. ASSUME NEW n \in Node, NEW h \in Hit, Check(n, h) PROVE HandoverTypes'
  BY SMTT(60), <1>4 DEF Check, HandoverTypes, TypeOK
<1>5. ASSUME NEW n \in Node, NEW h \in Hit, Process(n, h) PROVE HandoverTypes'
  <2>1. /\ asked' = [asked EXCEPT ![n] = @ \ {h}]
        /\ UNCHANGED <<phase, list, ring, new, snap, todo, mail, settling, entries>>
    BY Zenon, <1>5 DEF Process
  <2>2. Account(n, {h}, KeyOf[h]) /\ {h} \in SUBSET Hit
    BY Zenon, <1>5 DEF Process
  <2> QED
    BY <2>1, <2>2, AccountTypes, Zenon DEF HandoverTypes, TypeOK
<1>6. ASSUME NEW n \in Node, Flush(n) PROVE HandoverTypes'
  BY <1>6, FlushedTypes, Zenon DEF Flush, HandoverTypes, TypeOK
<1>7. ASSUME NEW n \in Node, StopFlusher(n) PROVE HandoverTypes'
  BY <1>7, FlushedTypes, Zenon DEF StopFlusher, HandoverTypes, TypeOK
<1>8. ASSUME NEW b \in net, Deliver(b) \/ Lose(b) PROVE HandoverTypes'
  <2>1. /\ net' = net \ {b}
        /\ UNCHANGED <<phase, list, ring, new, asked, slot, buffer, snap, todo, mail, settling, entries>>
    BY Zenon, <1>8 DEF Deliver, Lose
  <2>2. \/ counter' = counter
        \/ counter' = [counter EXCEPT ![b.to] = IF Alive(b.to) THEN @ \cup b.hits ELSE @]
    BY Zenon, <1>8 DEF Deliver, Lose
  <2>3. counter \in [Node -> SUBSET Hit] /\ b.to \in Node /\ b.hits \in SUBSET Hit
    BY Zenon, <1>8 DEF HandoverTypes, TypeOK
  <2>4. counter' \in [Node -> SUBSET Hit]
    BY <2>2, <2>3
  <2> QED
    BY Zenon, <2>1, <2>4 DEF HandoverTypes, TypeOK
<1>9. ASSUME NEW n \in Node, NEW m \in Node, NotifyLeave(n, m) PROVE HandoverTypes'
  BY Zenon, <1>9 DEF NotifyLeave, HandoverTypes, TypeOK
<1>10. ASSUME NEW n \in Node, UpdateNodes(n) PROVE HandoverTypes'
  <2> DEFINE Move(m) == {h \in counter[n] : Locate[list[n]][KeyOf[h]] = m}
             others == list[n] \ {n}
  <2>1. /\ ring' = [ring EXCEPT ![n] = list[n]]
        /\ slot' = [slot EXCEPT ![n] = [m \in Node |-> IF m \in others THEN Move(m) ELSE @[m]]]
        /\ counter' = [counter EXCEPT ![n] = @ \ UNION {Move(m) : m \in others}]
        /\ UNCHANGED <<phase, list, new, asked, buffer, net, snap, todo, mail, settling, entries>>
    BY Zenon, <1>10 DEF UpdateNodes
  <2>2. slot' \in [Node -> [Node -> SUBSET Hit]]
    BY <2>1 DEF HandoverTypes, TypeOK
  <2>3. counter' \in [Node -> SUBSET Hit] /\ ring' \in [Node -> SUBSET Node]
    BY <2>1 DEF HandoverTypes, TypeOK
  <2> HIDE DEF Move, others
  <2> QED
    BY Zenon, <2>1, <2>2, <2>3 DEF HandoverTypes, TypeOK
<1>11. ASSUME NEW n \in Node, Evacuate(n) PROVE HandoverTypes'
  BY <1>11, Zenon DEF Evacuate, HandoverTypes, TypeOK
<1>12. ASSUME NEW n \in Node, NEW m \in Node, SendTo(n, m) PROVE HandoverTypes'
  <2>1. /\ phase[n] = "evacuate" /\ m \in todo[n]
        /\ mail' = mail \cup {[from |-> n, to |-> m, hits |-> snap[n]]}
        /\ phase' = [phase EXCEPT ![n] = "evacuated"]
        /\ todo' = [todo EXCEPT ![n] = {}] /\ snap' = [snap EXCEPT ![n] = {}]
        /\ UNCHANGED <<list, ring, new, asked, counter, slot, buffer, net, settling, entries>>
    BY Zenon, <1>12 DEF SendTo
  <2>2. n # m /\ snap[n] # {} /\ snap[n] \subseteq Hit
    BY Zenon, <2>1 DEF HandoverTypes
  <2>3. \A p \in mail' : /\ p.to # p.from /\ p.hits # {}
                         /\ p.from \in Node /\ p.to \in Node /\ p.hits \subseteq Hit
    BY <2>1, <2>2 DEF HandoverTypes, TypeOK
  <2> QED
    BY <2>1, <2>3, Zenon DEF HandoverTypes, TypeOK
<1>13. ASSUME NEW n \in Node, NEW m \in Node, SendFails(n, m) PROVE HandoverTypes'
  BY <1>13, Zenon DEF SendFails, HandoverTypes, TypeOK
<1>14. ASSUME NEW n \in Node, EvacuateFails(n) PROVE HandoverTypes'
  BY <1>14, Zenon DEF EvacuateFails, HandoverTypes, TypeOK
<1>15. ASSUME NEW n \in Node, Leave(n) PROVE HandoverTypes'
  <2>1. CASE Exit(n)
    BY Zenon, <2>1, ExitTypes
  <2>2. CASE ~Exit(n)
    <3>1. /\ phase' = [phase EXCEPT ![n] = "left"] /\ list' = [list EXCEPT ![n] = @ \ {n}]
          /\ UNCHANGED <<ring, new, asked, counter, slot, buffer, net, snap, todo, mail,
                         settling, entries>>
      BY Zenon, <1>15, <2>2 DEF Leave
    <3> QED
      BY Zenon, <3>1 DEF HandoverTypes, TypeOK
  <2> QED
    BY Zenon, <2>1, <2>2
<1>16. ASSUME NEW n \in Node, Shutdown(n) PROVE HandoverTypes'
  BY Zenon, <1>16, ExitTypes DEF Shutdown
<1>17. ASSUME NEW p \in mail, HandleIncoming(p) PROVE HandoverTypes'
  <2>1. /\ mail' = mail \ {p}
        /\ \E B \in {{}, {[from |-> p.from, hits |-> p.hits]}} :
             settling' = [settling EXCEPT ![p.to] = @ \cup B]
        /\ UNCHANGED <<phase, list, ring, new, asked, counter, slot, buffer, net, snap, todo,
                       entries>>
    BY <1>17, Zenon DEF HandleIncoming
  <2>2. [from |-> p.from, hits |-> p.hits] \in Batch
    BY Zenon DEF HandoverTypes, Batch
  <2>3. settling' \in [Node -> SUBSET Batch]
    BY <2>1, <2>2 DEF HandoverTypes
  <2> QED
    BY <2>1, <2>3, Zenon DEF HandoverTypes, TypeOK
<1>18. ASSUME NEW n \in Node, NEW b \in settling[n], Settle(n, b) PROVE HandoverTypes'
  <2>1. /\ settling' = [settling EXCEPT ![n] = @ \ {b}]
        /\ entries' = [entries EXCEPT ![n] = @ \cup b.hits]
        /\ UNCHANGED <<phase, list, ring, new, asked, counter, slot, buffer, net, snap, todo, mail>>
    BY Zenon, <1>18 DEF Settle
  <2>2. b.hits \subseteq Hit
    BY DEF HandoverTypes, Batch
  <2> QED
    BY <2>1, <2>2, Zenon DEF HandoverTypes, TypeOK
<1>19. ASSUME NEW n \in Node, NEW k \in Key, Redistribute(n, k) PROVE HandoverTypes'
  <2> DEFINE H == {h \in entries[n] : KeyOf[h] = k}
  <2>1. /\ entries' = [entries EXCEPT ![n] = @ \ H]
        /\ UNCHANGED <<phase, list, ring, new, asked, snap, todo, mail, settling>>
    BY Zenon, <1>19 DEF Redistribute
  <2>2. PICK h \in Hit : k = KeyOf[h]
    BY Zenon DEF Key
  <2>3. Account(n, H, KeyOf[h]) /\ H \in SUBSET Hit
    BY Zenon, <1>19, <2>2 DEF Redistribute, HandoverTypes
  <2> HIDE DEF H
  <2> QED
    BY <2>1, <2>3, AccountTypes, Zenon DEF HandoverTypes, TypeOK
<1>20. ASSUME UNCHANGED vars PROVE HandoverTypes'
  BY Zenon, <1>20 DEF vars, HandoverTypes, TypeOK
<1> QED
  BY Zenon, <1>1, <1>2, <1>3, <1>4, <1>5, <1>6, <1>7, <1>8, <1>9, <1>10, <1>11, <1>12,
     <1>13, <1>14, <1>15, <1>16, <1>17, <1>18, <1>19, <1>20
     DEF Next, ShutDownStep, Background

(* The types of the processes, of the counters and of the messages hold     *)
(* throughout, and a payload goes to another node and is not empty.         *)
THEOREM HandoverIsTyped == Spec => []TypeOK
<1>1. Init => HandoverTypes
  BY HandoverAssumption DEF Init, Empty, Batch, HandoverTypes, TypeOK
<1>2. HandoverTypes /\ [Next]_vars => HandoverTypes'
  BY Zenon, NextHandoverTypes
<1>3. HandoverTypes => TypeOK
  BY Zenon DEF HandoverTypes
<1> QED
  BY <1>1, <1>2, <1>3, PTL DEF Spec

-----------------------------------------------------------------------------
(* Hit h is in place k of node x, or of x and y; places of a node that has  *)
(* begun to evacuate do not count, but for its snapshot.                    *)
At(h, k, x, y) ==
    \/ k = "new" /\ x = k /\ y = k /\ h \in new
    \/ k = "asked" /\ x \in Node /\ y = x /\ ~IsShuttingDown(x) /\ h \in asked[x]
    \/ k = "counter" /\ x \in Node /\ y = x /\ ~IsShuttingDown(x) /\ h \in counter[x]
    \/ k = "entries" /\ x \in Node /\ y = x /\ ~IsShuttingDown(x) /\ h \in entries[x]
    \/ k = "slot" /\ x \in Node /\ y \in Node /\ ~IsShuttingDown(x) /\ h \in slot[x][y]
    \/ k = "buffer" /\ x \in Node /\ y \in Node /\ ~IsShuttingDown(x) /\ h \in buffer[x][y]
    \/ k = "settling" /\ x \in Node /\ y \in settling[x] /\ ~IsShuttingDown(x) /\ h \in y.hits
    \/ k = "snap" /\ x \in Node /\ y = x /\ h \in snap[x]
    \/ k = "net" /\ x \in net /\ y = x /\ h \in x.hits
    \/ k = "mail" /\ x \in mail /\ y = x /\ h \in x.hits

(* No hit is in two places, unless a full batch carried it out of a process *)
(* after its snapshot.                                                      *)
OnePlace(h) ==
    \A k, x, y, l, v, w :
        At(h, k, x, y) /\ At(h, l, v, w) => k = l /\ x = v /\ y = w
Once == \A h \in Hit \ late : OnePlace(h)

(* A step that puts no hit anywhere.                                        *)
LEMMA NothingMoves ==
    ASSUME Once, late \subseteq late',
           \A h \in Hit \ late' : \A k, x, y : At(h, k, x, y)' => At(h, k, x, y)
    PROVE  Once'
BY DEF Once, OnePlace

(* The step moves the hits S to one place, out of any places.               *)
Moved(S, kind, one, two) ==
    /\ \A h \in Hit \ late' : \A k, x, y : At(h, k, x, y)'
           => At(h, k, x, y) \/ (h \in S /\ k = kind /\ x = one /\ y = two)
    /\ \A h \in S : \E k, x, y : At(h, k, x, y) /\ ~At(h, k, x, y)'

(* A step that moves hits to one place.                                     *)
LEMMA HitsMove ==
    ASSUME Once, late \subseteq late', NEW S, NEW kind, NEW one, NEW two,
           Moved(S, kind, one, two)
    PROVE  Once'
<1> USE DEF Moved
<1> SUFFICES ASSUME NEW h \in Hit \ late' PROVE OnePlace(h)'
  BY Zenon DEF Once
<1>1. OnePlace(h)
  BY Zenon DEF Once
<1>2. CASE h \notin S
  BY <1>1, <1>2 DEF OnePlace
<1>3. CASE h \in S
  <2>1. PICK l, v, w : At(h, l, v, w) /\ ~At(h, l, v, w)'
    BY Zenon, <1>3
  <2>2. ASSUME NEW k, NEW x, NEW y, At(h, k, x, y)' PROVE k = kind /\ x = one /\ y = two
    <3>1. CASE At(h, k, x, y)
      <4>1. k = l /\ x = v /\ y = w
        BY Zenon, <1>1, <2>1, <3>1 DEF OnePlace
      <4> QED
        BY Zenon, <2>1, <2>2, <4>1
    <3> QED
      BY <2>2, <3>1
  <2> QED
    BY <2>2 DEF OnePlace
<1> QED
  BY Zenon, <1>2, <1>3

(* A process that ends puts no hit anywhere.                                *)
LEMMA ExitOnce ==
    ASSUME HandoverTypes, Once, NEW n \in Node, Exit(n)
    PROVE  Once'
<1>1. UNCHANGED <<new, net, snap, mail, late>>
  BY Zenon DEF Exit, flusher, evacuation
<1>2. /\ phase' = [phase EXCEPT ![n] = "off"]
      /\ asked' = [asked EXCEPT ![n] = {}] /\ counter' = [counter EXCEPT ![n] = {}]
      /\ settling' = [settling EXCEPT ![n] = {}] /\ entries' = [entries EXCEPT ![n] = {}]
      /\ slot' = [slot EXCEPT ![n] = Empty] /\ buffer' = [buffer EXCEPT ![n] = Empty]
  BY Zenon DEF Exit
<1>3. \A x \in Node : x # n => /\ phase'[x] = phase[x] /\ asked'[x] = asked[x]
                               /\ counter'[x] = counter[x] /\ settling'[x] = settling[x]
                               /\ entries'[x] = entries[x] /\ slot'[x] = slot[x]
                               /\ buffer'[x] = buffer[x]
  BY <1>2 DEF HandoverTypes, TypeOK
<1>4. /\ asked'[n] = {} /\ counter'[n] = {} /\ settling'[n] = {} /\ entries'[n] = {}
      /\ \A y \in Node : slot'[n][y] = {} /\ buffer'[n][y] = {}
  BY <1>2 DEF HandoverTypes, TypeOK, Empty
<1>5. ASSUME NEW h, NEW k, NEW x, NEW y, At(h, k, x, y)' PROVE At(h, k, x, y)
  BY <1>1, <1>3, <1>4, <1>5 DEF At, IsShuttingDown
<1> QED
  BY Zenon, <1>1, <1>5, NothingMoves

(* Account takes hits from a goroutine or from a settled batch, and with    *)
(* them those of the slot; they end in one place, or the process has taken  *)
(* its snapshot and they are late or stay with it.                          *)
LEMMA AccountOnce ==
    ASSUME HandoverTypes, Once, NEW n \in Node, NEW H \in SUBSET Hit, NEW g \in Hit,
           NEW source \in {"asked", "entries"}, Account(n, H, KeyOf[g]),
           UNCHANGED <<phase, new, snap, mail, settling>>,
           \A x \in Node : asked'[x] \subseteq asked[x] /\ entries'[x] \subseteq entries[x],
           \A h \in H : ~IsShuttingDown(n) => At(h, source, n, n) /\ ~At(h, source, n, n)'
    PROVE  Once'
<1>1. PICK m \in Node : m = Owner(n, KeyOf[g])
  BY Zenon, OwnerType
<1>2. CASE m = n
  <2>1. counter' = [counter EXCEPT ![n] = @ \cup H] /\ UNCHANGED <<slot, buffer, net, late>>
    BY Zenon, <1>1, <1>2 DEF Account
  <2>2. \A x \in Node : counter'[x] = IF x = n THEN counter[n] \cup H ELSE counter[x]
    BY ZenonT(60), <2>1 DEF HandoverTypes, TypeOK
  <2>3. ASSUME NEW h, NEW k, NEW x, NEW y, At(h, k, x, y)'
        PROVE  At(h, k, x, y) \/ (~IsShuttingDown(n) /\ h \in H /\ k = "counter" /\ x = n /\ y = n)
    BY <2>1, <2>2, <2>3 DEF At, IsShuttingDown
  <2>4. CASE IsShuttingDown(n)
    BY Zenon, <2>1, <2>3, <2>4, NothingMoves
  <2>5. CASE ~IsShuttingDown(n)
    <3>1. \A h \in H : \E k, x, y : At(h, k, x, y) /\ ~At(h, k, x, y)'
      BY Zenon, <2>5
    <3>2. Moved(H, "counter", n, n)
      BY <2>3, <3>1 DEF Moved
    <3> QED
      BY Zenon, <2>1, <3>2, HitsMove
  <2> QED
    BY Zenon, <2>4, <2>5
<1>3. CASE m # n
  <2> DEFINE full == Cardinality({KeyOf[h] : h \in buffer[n][m] \cup H \cup slot[n][m]})
                       >= setting.maxBatchSize
  <2>1. PICK batch : batch = buffer[n][m] \cup H \cup slot[n][m]
    BY Zenon
  <2>2. PICK message : message = [to |-> m, hits |-> batch]
    BY Zenon
  <2>3. /\ buffer' = [buffer EXCEPT ![n][m] = IF full THEN {} ELSE batch]
        /\ slot' = [slot EXCEPT ![n][m] = {}]
        /\ net' = IF full /\ m \in list[n] THEN net \cup {message} ELSE net
        /\ late' = IF full /\ IsShuttingDown(n) THEN late \cup batch ELSE late
        /\ UNCHANGED counter
    BY Zenon, <1>1, <1>3, <2>1, <2>2 DEF Account
  <2> HIDE DEF full
  <2>4. message.hits = batch
    BY Zenon, <2>2
  <2>5. \A x, y \in Node : /\ slot'[x][y] = IF x = n /\ y = m THEN {} ELSE slot[x][y]
                           /\ ~(x = n /\ y = m) => buffer'[x][y] = buffer[x][y]
                           /\ x = n /\ y = m => buffer'[x][y] = IF full THEN {} ELSE batch
    BY <1>1, <2>3 DEF HandoverTypes, TypeOK
  <2>6. CASE full
    <3>1. ASSUME NEW h, NEW k, NEW x, NEW y, At(h, k, x, y)'
          PROVE  At(h, k, x, y) \/ (h \in batch /\ k = "net" /\ x = message /\ y = message)
      BY <2>3, <2>4, <2>5, <2>6, <3>1 DEF At, IsShuttingDown
    <3>2. CASE IsShuttingDown(n)
      BY Zenon, <2>3, <2>6, <3>1, <3>2, NothingMoves
    <3>3. CASE ~IsShuttingDown(n)
      <4>1. ASSUME NEW h \in batch
            PROVE  \E k, x, y : At(h, k, x, y) /\ ~At(h, k, x, y)'
        <5>1. CASE h \in H
          BY Zenon, <3>3, <5>1
        <5>2. CASE h \in buffer[n][m]
          <6>1. At(h, "buffer", n, m) /\ ~At(h, "buffer", n, m)'
            BY Zenon, <1>1, <2>5, <2>6, <3>3, <5>2 DEF At
          <6> QED
            BY Zenon, <6>1
        <5>3. CASE h \in slot[n][m]
          <6>1. At(h, "slot", n, m) /\ ~At(h, "slot", n, m)'
            BY Zenon, <1>1, <2>5, <3>3, <5>3 DEF At
          <6> QED
            BY Zenon, <6>1
        <5> QED
          BY Zenon, <2>1, <5>1, <5>2, <5>3
      <4>2. Moved(batch, "net", message, message)
        BY Zenon, <3>1, <4>1 DEF Moved
      <4> QED
        BY Zenon, <2>3, <3>3, <4>2, HitsMove
    <3> QED
      BY ZenonT(60), <3>2, <3>3
  <2>7. CASE ~full
    <3>1. PICK S : S = H \cup slot[n][m]
      BY ZenonT(60)
    <3>2. ASSUME NEW h, NEW k, NEW x, NEW y, At(h, k, x, y)'
          PROVE  \/ At(h, k, x, y)
                 \/ ~IsShuttingDown(n) /\ h \in S /\ k = "buffer" /\ x = n /\ y = m
      BY <2>3, <2>1, <2>5, <2>7, <3>1, <3>2 DEF At, IsShuttingDown
    <3>3. CASE IsShuttingDown(n)
      BY Zenon, <2>3, <2>7, <3>2, <3>3, NothingMoves
    <3>4. CASE ~IsShuttingDown(n)
      <4>1. ASSUME NEW h \in S
            PROVE  \E k, x, y : At(h, k, x, y) /\ ~At(h, k, x, y)'
        <5>1. CASE h \in H
          BY Zenon, <3>4, <5>1
        <5>2. CASE h \in slot[n][m]
          <6>1. At(h, "slot", n, m) /\ ~At(h, "slot", n, m)'
            BY Zenon, <1>1, <2>5, <3>4, <5>2 DEF At
          <6> QED
            BY Zenon, <6>1
        <5> QED
          BY Zenon, <3>1, <5>1, <5>2
      <4>2. Moved(S, "buffer", n, m)
        BY <3>2, <4>1 DEF Moved
      <4> QED
        BY Zenon, <2>3, <3>4, <4>2, HitsMove
    <3> QED
      BY Zenon, <3>3, <3>4
  <2> QED
    BY Zenon, <2>6, <2>7
<1> QED
  BY Zenon, <1>2, <1>3

(* The step takes a hit to no other place than this one.                    *)
OnlyTo(h, kind, one, two) ==
    \A k, x, y : At(h, k, x, y)' => At(h, k, x, y) \/ (k = kind /\ x = one /\ y = two)

(* A step that takes a hit from one place to another.                       *)
LEMMA HitMoves ==
    ASSUME NEW h, OnePlace(h), NEW kind, NEW one, NEW two, OnlyTo(h, kind, one, two),
           NEW l, NEW v, NEW w, At(h, l, v, w), ~At(h, l, v, w)'
    PROVE  OnePlace(h)'
<1> USE DEF OnlyTo
<1>1. ASSUME NEW k, NEW x, NEW y, At(h, k, x, y)' PROVE k = kind /\ x = one /\ y = two
  <2>1. CASE At(h, k, x, y)
    <3>1. k = l /\ x = v /\ y = w
      BY Zenon, <2>1 DEF OnePlace
    <3> QED
      BY Zenon, <1>1, <3>1
  <2> QED
    BY Zenon, <1>1, <2>1
<1> QED
  BY <1>1 DEF OnePlace

(* A flush takes each hit of the buffers into the message for its owner, or *)
(* drops it with a batch for a node that has gone.                          *)
LEMMA FlushedOnce ==
    ASSUME HandoverTypes, Once, NEW n \in Node, Flushed(n), ~IsShuttingDown(n),
           \A x \in Node : IsShuttingDown(x)' <=> IsShuttingDown(x),
           UNCHANGED <<new, asked, counter, slot, snap, mail, settling, entries, late>>
    PROVE  Once'
<1>1. \A x, y \in Node : buffer'[x][y] = IF x = n THEN {} ELSE buffer[x][y]
  BY Zenon DEF Flushed, Empty, HandoverTypes, TypeOK
<1>2. net' = net \cup {[to |-> m, hits |-> buffer[n][m]] :
                          m \in {x \in list[n] : buffer[n][x] # {}}}
  BY Zenon DEF Flushed
<1>3. list[n] \subseteq Node
  BY Zenon DEF HandoverTypes, TypeOK
<1> SUFFICES ASSUME NEW h \in Hit \ late PROVE OnePlace(h)'
  BY Zenon DEF Once
<1>4. OnePlace(h)
  BY Zenon DEF Once
<1>5. ASSUME NEW k, NEW x, NEW y, At(h, k, x, y)'
      PROVE  \/ At(h, k, x, y)
             \/ \E m \in Node : /\ h \in buffer[n][m] /\ k = "net"
                                /\ x = [to |-> m, hits |-> buffer[n][m]] /\ y = x
  <2>1. CASE k = "net"
    BY <1>2, <1>3, <1>5, <2>1 DEF At
  <2>2. CASE k # "net"
    BY <1>1, <1>5, <2>2 DEF At
  <2> QED
    BY Zenon, <2>1, <2>2
<1>6. CASE \A m \in Node : h \notin buffer[n][m]
  BY <1>4, <1>5, <1>6 DEF OnePlace
<1>7. ASSUME NEW m \in Node, h \in buffer[n][m] PROVE OnePlace(h)'
  <2>1. At(h, "buffer", n, m) /\ ~At(h, "buffer", n, m)'
    BY Zenon, <1>1, <1>7 DEF At
  <2>2. \A z \in Node : h \in buffer[n][z] => z = m
    <3> SUFFICES ASSUME NEW z \in Node, h \in buffer[n][z] PROVE z = m
      BY Zenon
    <3>1. At(h, "buffer", n, z)
      BY Zenon DEF At
    <3> QED
      BY Zenon, <1>4, <2>1, <3>1 DEF OnePlace
  <2>3. PICK b : b = [to |-> m, hits |-> buffer[n][m]]
    BY Zenon
  <2>4. OnlyTo(h, "net", b, b)
    BY <1>5, <2>2, <2>3 DEF OnlyTo
  <2> QED
    BY Zenon, <1>4, <2>1, <2>4, HitMoves
<1> QED
  BY Zenon, <1>6, <1>7

(* UpdateNodes takes a hit from the counter to the slot of its new owner.   *)
LEMMA UpdateOnce ==
    ASSUME HandoverTypes, Once, NEW n \in Node, UpdateNodes(n)
    PROVE  Once'
<1> DEFINE Move(m) == {h \in counter[n] : Locate[list[n]][KeyOf[h]] = m}
           others == list[n] \ {n}
<1>1. /\ slot' = [slot EXCEPT ![n] = [m \in Node |-> IF m \in others THEN Move(m) ELSE @[m]]]
      /\ counter' = [counter EXCEPT ![n] = @ \ UNION {Move(m) : m \in others}]
      /\ UNCHANGED <<phase, new, asked, buffer, net, snap, mail, settling, entries, late>>
  BY Zenon DEF UpdateNodes, flusher, evacuation, adoption
<1>2. \A x, y \in Node : slot'[x][y] = IF x = n /\ y \in others THEN Move(y) ELSE slot[x][y]
  BY Zenon, <1>1 DEF HandoverTypes, TypeOK
<1>3. \A x \in Node : counter'[x] = IF x = n THEN counter[n] \ UNION {Move(m) : m \in others}
                                            ELSE counter[x]
  BY Zenon, <1>1 DEF HandoverTypes, TypeOK
<1>4. others \subseteq Node
  BY Zenon DEF HandoverTypes, TypeOK
<1> SUFFICES ASSUME NEW h \in Hit \ late PROVE OnePlace(h)'
  BY Zenon, <1>1 DEF Once
<1>5. OnePlace(h)
  BY Zenon DEF Once
<1>6. CASE ~IsShuttingDown(n) /\ h \in counter[n] /\ Locate[list[n]][KeyOf[h]] \in others
  <2>1. PICK m \in Node : m = Locate[list[n]][KeyOf[h]]
    BY Zenon, <1>4, <1>6
  <2>2. At(h, "counter", n, n) /\ ~At(h, "counter", n, n)'
    <3>1. h \in UNION {Move(z) : z \in others}
      BY SMTT(60), <1>6
    <3> QED
      BY <1>3, <1>6, <3>1, Zenon DEF At
  <2>3. ASSUME NEW k, NEW x, NEW y, At(h, k, x, y)'
        PROVE  At(h, k, x, y) \/ (k = "slot" /\ x = n /\ y = m)
    BY <1>1, <1>2, <1>3, <2>1, <2>3 DEF At, IsShuttingDown
  <2> QED
    <3>1. OnlyTo(h, "slot", n, m)
      BY Zenon, <2>3 DEF OnlyTo
    <3> QED
      BY Zenon, <1>5, <2>2, <3>1, HitMoves
<1>7. CASE ~(~IsShuttingDown(n) /\ h \in counter[n] /\ Locate[list[n]][KeyOf[h]] \in others)
  <2>1. ASSUME NEW k, NEW x, NEW y, At(h, k, x, y)' PROVE At(h, k, x, y)
    <3>1. CASE k = "slot"
      <4>1. x \in Node /\ y \in Node /\ ~IsShuttingDown(x) /\ h \in slot'[x][y]
        BY Zenon, <1>1, <2>1, <3>1 DEF At, IsShuttingDown
      <4>2. ASSUME x = n, y \in others PROVE FALSE
        <5>1. h \in Move(y)
          BY Zenon, <1>2, <4>1, <4>2
        <5> QED
          BY Zenon, <1>7, <4>1, <4>2, <5>1
      <4>3. h \in slot[x][y]
        BY Zenon, <1>2, <4>1, <4>2
      <4> QED
        BY Zenon, <3>1, <4>1, <4>3 DEF At
    <3>2. CASE k = "counter"
      <4>1. x \in Node /\ y = x /\ ~IsShuttingDown(x) /\ h \in counter'[x]
        BY Zenon, <1>1, <2>1, <3>2 DEF At, IsShuttingDown
      <4>2. h \in counter[x]
        BY Zenon, <1>3, <4>1
      <4> QED
        BY Zenon, <3>2, <4>1, <4>2 DEF At
    <3>3. CASE k \notin {"slot", "counter"}
      BY ZenonT(60), <1>1, <2>1, <3>3 DEF At, IsShuttingDown
    <3> QED
      BY Zenon, <3>1, <3>2, <3>3
  <2> QED
    BY <1>5, <2>1 DEF OnePlace
<1> QED
  BY Zenon, <1>6, <1>7

(* A step of Execute that is not the beginning of Evacuate moves no hit.    *)
LEMMA StageOnce ==
    ASSUME HandoverTypes, Once, \A x \in Node : IsShuttingDown(x)' <=> IsShuttingDown(x),
           UNCHANGED <<new, asked, counter, slot, buffer, net, mail, settling, entries, late>>,
           \A x \in Node : snap'[x] \subseteq snap[x]
    PROVE  Once'
<1>1. ASSUME NEW h, NEW k, NEW x, NEW y, At(h, k, x, y)' PROVE At(h, k, x, y)
  BY <1>1 DEF At
<1> QED
  BY Zenon, <1>1, NothingMoves

(* Start-up stages follow start-up stages.                                  *)
LEMMA StartStages ==
    ASSUME NEW p, NEW q, Follows(StartUp, p, q)
    PROVE  p \in {"cluster", "engine", "handover", "grpc"}
BY DEF Follows, StartUp

(* The snapshot of Evacuate takes over the hits of the counter.             *)
LEMMA EvacuateOnce ==
    ASSUME HandoverTypes, Once, NEW n \in Node, Evacuate(n)
    PROVE  Once'
<1>1. PICK S : S = counter[n]
  BY Zenon
<1>2. /\ phase[n] = "flushed" /\ phase'[n] \in {"evacuate", "evacuated"}
      /\ \A x \in Node : x # n => phase'[x] = phase[x]
      /\ \A x \in Node : snap'[x] = IF x = n THEN S ELSE snap[x]
      /\ UNCHANGED <<new, asked, counter, slot, buffer, net, mail, settling, entries, late>>
  BY Zenon, <1>1 DEF Evacuate, flusher, pipeline, adoption, HandoverTypes, TypeOK
<1>3. ASSUME NEW h, NEW k, NEW x, NEW y, At(h, k, x, y)'
      PROVE  At(h, k, x, y) \/ (h \in S /\ k = "snap" /\ x = n /\ y = n)
  BY <1>2, <1>3 DEF At, IsShuttingDown
<1>4. ASSUME NEW h \in S PROVE At(h, "counter", n, n) /\ ~At(h, "counter", n, n)'
  BY Zenon, <1>1, <1>2 DEF At, IsShuttingDown
<1>5. Moved(S, "snap", n, n)
  BY Zenon, <1>3, <1>4 DEF Moved
<1> QED
  BY Zenon, <1>2, <1>5, HitsMove

(* The payload takes over the hits of the snapshot.                         *)
LEMMA SendOnce ==
    ASSUME HandoverTypes, Once, NEW n \in Node, NEW m \in Node, SendTo(n, m)
    PROVE  Once'
<1>1. PICK p : p = [from |-> n, to |-> m, hits |-> snap[n]]
  BY Zenon
<1>2. PICK S : S = snap[n]
  BY ZenonT(60)
<1>3. /\ \A x \in Node : IsShuttingDown(x)' <=> IsShuttingDown(x)
      /\ \A x \in Node : snap'[x] = IF x = n THEN {} ELSE snap[x]
      /\ mail' = mail \cup {p} /\ p.hits = S
      /\ UNCHANGED <<new, asked, counter, slot, buffer, net, settling, entries, late>>
  BY <1>1, <1>2 DEF SendTo, flusher, pipeline, IsShuttingDown, HandoverTypes, TypeOK
<1>4. ASSUME NEW h, NEW k, NEW x, NEW y, At(h, k, x, y)'
      PROVE  At(h, k, x, y) \/ (h \in S /\ k = "mail" /\ x = p /\ y = p)
  BY <1>3, <1>4 DEF At
<1>5. ASSUME NEW h \in S PROVE At(h, "snap", n, n) /\ ~At(h, "snap", n, n)'
  BY Zenon, <1>2, <1>3 DEF At
<1>6. Moved(S, "mail", p, p)
  BY Zenon, <1>4, <1>5 DEF Moved
<1> QED
  BY Zenon, <1>3, <1>6, HitsMove

(* A datagram is counted, or dropped by a process that has ended.           *)
LEMMA DeliverOnce ==
    ASSUME HandoverTypes, Once, NEW b \in net, Deliver(b)
    PROVE  Once'
<1>1. PICK n \in Node : n = b.to
  BY Zenon DEF HandoverTypes, TypeOK
<1>2. /\ \A x \in Node : counter'[x] \subseteq IF x = n THEN counter[x] \cup b.hits ELSE counter[x]
      /\ net' = net \ {b}
      /\ UNCHANGED <<phase, new, asked, slot, buffer, snap, mail, settling, entries, late>>
  BY Zenon, <1>1 DEF Deliver, flusher, evacuation, adoption, HandoverTypes, TypeOK
<1>3. ASSUME NEW h, NEW k, NEW x, NEW y, At(h, k, x, y)'
      PROVE  At(h, k, x, y) \/ (h \in b.hits /\ k = "counter" /\ x = n /\ y = n)
  BY <1>2, <1>3 DEF At, IsShuttingDown
<1>4. ASSUME NEW h \in b.hits PROVE At(h, "net", b, b) /\ ~At(h, "net", b, b)'
  BY Zenon, <1>2 DEF At
<1>5. Moved(b.hits, "counter", n, n)
  BY Zenon, <1>3, <1>4 DEF Moved
<1> QED
  BY Zenon, <1>2, <1>5, HitsMove

(* A payload is adopted or dropped.                                         *)
LEMMA IncomingOnce ==
    ASSUME HandoverTypes, Once, NEW p \in mail, HandleIncoming(p)
    PROVE  Once'
<1>1. PICK n \in Node : n = p.to
  BY Zenon DEF HandoverTypes
<1>2. PICK b : b = [from |-> p.from, hits |-> p.hits]
  BY Zenon
<1>3. /\ \A x \in Node : settling'[x] \subseteq IF x = n THEN settling[x] \cup {b} ELSE settling[x]
      /\ mail' = mail \ {p}
      /\ UNCHANGED <<phase, new, asked, counter, slot, buffer, net, snap, entries, late>>
  BY Zenon, <1>1, <1>2 DEF HandleIncoming, flusher, pipeline, evacuation, HandoverTypes
<1>4. ASSUME NEW h, NEW k, NEW x, NEW y, At(h, k, x, y)'
      PROVE  At(h, k, x, y) \/ (h \in p.hits /\ k = "settling" /\ x = n /\ y = b)
  <2>1. b.hits = p.hits
    BY Zenon, <1>2
  <2> QED
    BY <1>3, <1>4, <2>1 DEF At, IsShuttingDown
<1>5. ASSUME NEW h \in p.hits PROVE At(h, "mail", p, p) /\ ~At(h, "mail", p, p)'
  BY Zenon, <1>3 DEF At
<1>6. Moved(p.hits, "settling", n, b)
  BY Zenon, <1>4, <1>5 DEF Moved
<1> QED
  BY Zenon, <1>3, <1>6, HitsMove

(* A batch settles.                                                         *)
LEMMA SettleOnce ==
    ASSUME HandoverTypes, Once, NEW n \in Node, NEW b \in settling[n], Settle(n, b)
    PROVE  Once'
<1>1. /\ \A x \in Node : /\ settling'[x] = IF x = n THEN settling[x] \ {b} ELSE settling[x]
                         /\ entries'[x] = IF x = n THEN entries[x] \cup b.hits ELSE entries[x]
      /\ UNCHANGED <<phase, new, asked, counter, slot, buffer, net, snap, mail, late>>
  BY Zenon DEF Settle, flusher, pipeline, evacuation, HandoverTypes
<1>2. ASSUME NEW h, NEW k, NEW x, NEW y, At(h, k, x, y)'
      PROVE  \/ At(h, k, x, y)
             \/ ~IsShuttingDown(n) /\ h \in b.hits /\ k = "entries" /\ x = n /\ y = n
  <2>1. CASE k = "entries"
    BY <1>1, <1>2, <2>1, Zenon DEF At, IsShuttingDown
  <2>2. CASE k = "settling"
    BY <1>1, <1>2, <2>2, Zenon DEF At, IsShuttingDown
  <2>3. CASE k \notin {"entries", "settling"}
    BY <1>1, <1>2, <2>3 DEF At, IsShuttingDown
  <2> QED
    BY Zenon, <2>1, <2>2, <2>3
<1>3. CASE IsShuttingDown(n)
  BY Zenon, <1>1, <1>2, <1>3, NothingMoves
<1>4. CASE ~IsShuttingDown(n)
  <2>1. ASSUME NEW h \in b.hits PROVE At(h, "settling", n, b) /\ ~At(h, "settling", n, b)'
    BY <1>1, <1>4, Zenon DEF At
  <2>2. Moved(b.hits, "entries", n, n)
    BY SMTT(60), <1>2, <2>1 DEF Moved
  <2> QED
    BY Zenon, <1>1, <2>2, HitsMove
<1> QED
  BY Zenon, <1>3, <1>4

(* Every step of the processes keeps a hit in one place.                    *)
LEMMA NextOnce ==
    ASSUME HandoverTypes, Once, [Next]_vars
    PROVE  Once'
<1> USE DEF flusher, pipeline, evacuation, adoption
<1>1. ASSUME NEW n \in Node, StartNext(n) PROVE Once'
  <2>1. PICK p \in {"engine", "handover", "grpc", "running"} :
          Follows(StartUp, phase[n], p) /\ phase' = [phase EXCEPT ![n] = p]
    BY <1>1, Zenon DEF StartNext
  <2>2. \A x \in Node : IsShuttingDown(x)' <=> IsShuttingDown(x)
    BY <2>1, StartStages DEF IsShuttingDown, HandoverTypes, TypeOK
  <2> QED
    BY Zenon, <1>1, <2>2, StageOnce DEF StartNext
<1>2. ASSUME NEW n \in Node, StartFails(n) PROVE Once'
  BY Zenon, <1>2, ExitOnce DEF StartFails
<1>3. ASSUME NEW n \in Node, Signal(n) \/ StopServer(n) PROVE Once'
  <2>1. \A x \in Node : IsShuttingDown(x)' <=> IsShuttingDown(x)
    BY <1>3 DEF Signal, StopServer, IsShuttingDown, HandoverTypes, TypeOK
  <2> QED
    BY Zenon, <1>3, <2>1, StageOnce DEF Signal, StopServer
<1>4. ASSUME NEW n \in Node, NEW h \in Hit, Check(n, h) PROVE Once'
  <2>1. /\ ~IsShuttingDown(n) /\ h \in new /\ new' = new \ {h}
        /\ \A x \in Node : asked'[x] = IF x = n THEN asked[x] \cup {h} ELSE asked[x]
        /\ UNCHANGED <<phase, counter, slot, buffer, net, snap, mail, settling, entries, late>>
    BY <1>4, Zenon DEF Check, Serving, IsShuttingDown, HandoverTypes, TypeOK
  <2>2. ASSUME NEW g, NEW k, NEW x, NEW y, At(g, k, x, y)'
        PROVE  At(g, k, x, y) \/ (g \in {h} /\ k = "asked" /\ x = n /\ y = n)
    <3>1. CASE k = "asked"
      BY <2>1, <2>2, <3>1, ZenonT(60) DEF At, IsShuttingDown
    <3>2. CASE k # "asked"
      BY <2>1, <2>2, <3>2 DEF At, IsShuttingDown
    <3> QED
      BY Zenon, <3>1, <3>2
  <2>3. At(h, "new", "new", "new") /\ ~At(h, "new", "new", "new")'
    BY Zenon, <2>1 DEF At
  <2>4. Moved({h}, "asked", n, n)
    BY Zenon, <2>2, <2>3 DEF Moved
  <2> QED
    BY Zenon, <2>1, <2>4, HitsMove
<1>5. ASSUME NEW n \in Node, NEW h \in Hit, Process(n, h) PROVE Once'
  <2>1. /\ h \in asked[n] /\ Account(n, {h}, KeyOf[h])
        /\ \A x \in Node : asked'[x] = IF x = n THEN asked[x] \ {h} ELSE asked[x]
        /\ UNCHANGED <<phase, new, snap, mail, settling, entries>>
    BY <1>5, Zenon DEF Process, HandoverTypes, TypeOK
  <2>2. ASSUME ~IsShuttingDown(n) PROVE At(h, "asked", n, n) /\ ~At(h, "asked", n, n)'
    BY <2>1, <2>2, Zenon DEF At
  <2>3. {h} \in SUBSET Hit /\ "asked" \in {"asked", "entries"}
    BY Zenon
  <2>4. \A g \in {h} : ~IsShuttingDown(n) => At(g, "asked", n, n) /\ ~At(g, "asked", n, n)'
    BY Zenon, <2>2
  <2>5. \A x \in Node : asked'[x] \subseteq asked[x] /\ entries'[x] \subseteq entries[x]
    BY <2>1, Zenon
  <2> QED
    BY Zenon, <2>1, <2>3, <2>4, <2>5, AccountOnce
<1>6. ASSUME NEW n \in Node, Flush(n) PROVE Once'
  <2>1. ~IsShuttingDown(n) /\ UNCHANGED phase
    BY Zenon, <1>6 DEF Flush, Flushing, IsShuttingDown
  <2>2. \A x \in Node : IsShuttingDown(x)' <=> IsShuttingDown(x)
    BY Zenon, <2>1 DEF IsShuttingDown
  <2> QED
    BY Zenon, <1>6, <2>1, <2>2, FlushedOnce DEF Flush
<1>7. ASSUME NEW n \in Node, StopFlusher(n) PROVE Once'
  <2>1. ~IsShuttingDown(n)
    BY Zenon, <1>7 DEF StopFlusher, IsShuttingDown
  <2>2. \A x \in Node : IsShuttingDown(x)' <=> IsShuttingDown(x)
    BY Zenon, <1>7 DEF StopFlusher, IsShuttingDown, HandoverTypes, TypeOK
  <2> QED
    BY Zenon, <1>7, <2>1, <2>2, FlushedOnce DEF StopFlusher
<1>8. ASSUME NEW b \in net, Lose(b) PROVE Once'
  <2>1. net' = net \ {b} /\ UNCHANGED <<phase, new, asked, counter, slot, buffer, snap, mail,
                                         settling, entries, late>>
    BY ZenonT(60), <1>8 DEF Lose
  <2>2. ASSUME NEW h, NEW k, NEW x, NEW y, At(h, k, x, y)' PROVE At(h, k, x, y)
    BY <2>1, <2>2 DEF At, IsShuttingDown
  <2> QED
    BY Zenon, <2>1, <2>2, NothingMoves
<1>9. ASSUME NEW n \in Node, NEW m \in Node, NotifyLeave(n, m) \/ SendFails(n, m) PROVE Once'
  <2>1. UNCHANGED <<phase, new, asked, counter, slot, buffer, net, snap, mail, settling, entries,
                    late>>
    BY Zenon, <1>9 DEF NotifyLeave, SendFails
  <2>2. \A x \in Node : IsShuttingDown(x)' <=> IsShuttingDown(x)
    BY Zenon, <2>1 DEF IsShuttingDown
  <2> QED
    BY Zenon, <2>1, <2>2, StageOnce
<1>10. ASSUME NEW n \in Node, EvacuateFails(n) PROVE Once'
  <2>1. /\ \A x \in Node : IsShuttingDown(x)' <=> IsShuttingDown(x)
        /\ \A x \in Node : snap'[x] \subseteq snap[x]
        /\ UNCHANGED <<new, asked, counter, slot, buffer, net, mail, settling, entries, late>>
    BY Zenon, <1>10 DEF EvacuateFails, IsShuttingDown, HandoverTypes, TypeOK
  <2> QED
    BY Zenon, <2>1, StageOnce
<1>11. ASSUME NEW n \in Node, Leave(n) PROVE Once'
  <2>1. CASE Exit(n)
    BY Zenon, <2>1, ExitOnce
  <2>2. CASE ~Exit(n)
    <3>1. /\ \A x \in Node : IsShuttingDown(x)' <=> IsShuttingDown(x)
          /\ UNCHANGED <<new, asked, counter, slot, buffer, net, snap, mail, settling, entries,
                         late>>
      BY <1>11, <2>2 DEF Leave, IsShuttingDown, HandoverTypes, TypeOK
    <3> QED
      BY Zenon, <3>1, StageOnce
  <2> QED
    BY Zenon, <2>1, <2>2
<1>12. ASSUME NEW n \in Node, Shutdown(n) PROVE Once'
  BY Zenon, <1>12, ExitOnce DEF Shutdown
<1>13. ASSUME NEW n \in Node, NEW k \in Key, Redistribute(n, k) PROVE Once'
  <2>1. PICK H : H = {h \in entries[n] : KeyOf[h] = k}
    BY Zenon
  <2>2. PICK g \in Hit : k = KeyOf[g]
    BY Zenon DEF Key
  <2>3. /\ H \in SUBSET Hit /\ H \subseteq entries[n] /\ Account(n, H, KeyOf[g])
        /\ \A x \in Node : entries'[x] = IF x = n THEN entries[x] \ H ELSE entries[x]
        /\ UNCHANGED <<phase, new, asked, snap, mail, settling>>
    BY <1>13, <2>1, <2>2, Zenon DEF Redistribute, HandoverTypes
  <2>4. "entries" \in {"asked", "entries"}
    BY Zenon
  <2>5. \A h \in H : ~IsShuttingDown(n) => At(h, "entries", n, n) /\ ~At(h, "entries", n, n)'
    BY <2>3, Zenon DEF At
  <2>6. \A x \in Node : asked'[x] \subseteq asked[x] /\ entries'[x] \subseteq entries[x]
    BY <2>3, Zenon
  <2> QED
    BY Zenon, <2>3, <2>4, <2>5, <2>6, AccountOnce
<1>14. ASSUME UNCHANGED vars PROVE Once'
  <2>1. \A x \in Node : IsShuttingDown(x)' <=> IsShuttingDown(x)
    BY Zenon, <1>14 DEF vars, IsShuttingDown
  <2> QED
    BY Zenon, <1>14, <2>1, StageOnce DEF vars
<1> QED
  BY <1>1, <1>2, <1>3, <1>4, <1>5, <1>6, <1>7, <1>8, <1>9, <1>10, <1>11, <1>12, <1>13, <1>14,
     UpdateOnce, EvacuateOnce, SendOnce, DeliverOnce, IncomingOnce, SettleOnce
     DEF Next, ShutDownStep, Background

(* Every place of Places is one of At.                                      *)
LEMMA PlacesAreAt ==
    ASSUME NEW h, OnePlace(h), NEW p \in Places(h), NEW q \in Places(h)
    PROVE  p = q
<1> DEFINE Names(k, x, y) == IF k \in {"slot", "buffer", "settling"} THEN <<k, x, y>> ELSE <<k, x>>
           Named(r) == \E k, x, y : At(h, k, x, y) /\ r = Names(k, x, y)
<1>1. ASSUME NEW r \in Places(h) PROVE Named(r)
  <2> DEFINE live == {n \in Node : ~IsShuttingDown(n)}
             Flat == {<<"counter", n>> : n \in {x \in live : h \in counter[x]}}
                     \cup {<<"entries", n>> : n \in {x \in live : h \in entries[x]}}
                     \cup {<<"snap", n>> : n \in {x \in Node : h \in snap[x]}}
                     \cup {<<"net", b>> : b \in {x \in net : h \in x.hits}}
                     \cup {<<"mail", b>> : b \in {x \in mail : h \in x.hits}}
             Slots == UNION {{<<"slot", n, m>> : m \in {x \in Node : h \in slot[n][x]}} : n \in live}
             Buffers == UNION {{<<"buffer", n, m>> : m \in {x \in Node : h \in buffer[n][x]}} :
                                 n \in {x \in Node : Flushing(x)}}
             Batches == UNION {{<<"settling", n, b>> : b \in {x \in settling[n] : h \in x.hits}} :
                                 n \in live}
  <2>1. r \in Flat \cup Slots \cup Buffers \cup Batches
    BY Zenon, <1>1 DEF Places
  <2>3. r \in Slots => \E n, m \in Node : ~IsShuttingDown(n) /\ h \in slot[n][m] /\ r = <<"slot", n, m>>
    BY Zenon
  <2>4. r \in Buffers => \E n, m \in Node : Flushing(n) /\ h \in buffer[n][m] /\ r = <<"buffer", n, m>>
    BY Zenon
  <2>5. r \in Batches => \E n \in Node : \E b \in settling[n] : ~IsShuttingDown(n) /\ h \in b.hits /\ r = <<"settling", n, b>>
    BY Zenon
  <2>6. \A n \in Node : Flushing(n) => ~IsShuttingDown(n)
    BY Zenon DEF Flushing, IsShuttingDown
  <2>7. r \in Flat \/ r \in Slots \/ r \in Buffers \/ r \in Batches
    BY <2>1, Zenon
  <2> HIDE DEF Slots, Buffers, Batches
  <2>2. \E k, x, y : At(h, k, x, y) /\ r = Names(k, x, y)
    BY Zenon, <2>3, <2>4, <2>5, <2>6, <2>7 DEF At
  <2> QED
    BY Zenon, <2>2
<1>2. PICK k, x, y : At(h, k, x, y) /\ p = Names(k, x, y)
  BY Zenon, <1>1
<1>3. PICK l, v, w : At(h, l, v, w) /\ q = Names(l, v, w)
  BY Zenon, <1>1
<1>4. k = l /\ x = v /\ y = w
  BY Zenon, <1>2, <1>3 DEF OnePlace
<1> HIDE DEF Names
<1> QED
  BY Zenon, <1>2, <1>3, <1>4

(* However many nodes leave, hand over, adopt and redistribute, and         *)
(* whatever is lost: no hit is in two places from which it can be counted,  *)
(* except those that a full batch carried out after the snapshot.           *)
THEOREM HandoverCountsOnce == Spec => []CountedOnce
<1>1. Init => HandoverTypes /\ Once
  <2>1. Init => HandoverTypes
    BY HandoverAssumption DEF Init, Empty, Batch, HandoverTypes, TypeOK
  <2>2. ASSUME Init, NEW h, NEW k, NEW x, NEW y, At(h, k, x, y) PROVE k = "new" /\ x = k /\ y = k
    BY Zenon, <2>2 DEF Init, At, Empty
  <2> QED
    BY <2>1, <2>2 DEF Once, OnePlace
<1>2. HandoverTypes /\ Once /\ [Next]_vars => (HandoverTypes /\ Once)'
  BY Zenon, NextHandoverTypes, NextOnce
<1>3. Once => CountedOnce
  BY Zenon, PlacesAreAt DEF Once, CountedOnce
<1> QED
  BY <1>1, <1>2, <1>3, PTL DEF Spec
=============================================================================
