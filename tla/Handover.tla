------------------------------ MODULE Handover ------------------------------
(***************************************************************************)
(* The life of a process (internal/cmd/root.go) and the handover of its    *)
(* counters when it leaves (internal/membership/handover.go).              *)
(*                                                                         *)
(* Execute is a sequence of stages: the parts of the program start one     *)
(* after the other, any of them may fail and end the process, and after    *)
(* the signal they stop in a fixed order.  Counters are the sets of the    *)
(* hits they counted, as in Accounting, whose steps are coarser here: a    *)
(* counter is one set per node, and reading the owner is one step.         *)
(***************************************************************************)
EXTENDS Naturals, FiniteSets, Sequences

CONSTANTS Node, Hit,
          KeyOf,        \* the key of a hit
          Locate,       \* Locate[ring][key]: the owner (external hash ring)
          Setting,      \* the situations considered: which nodes are still
                        \* starting, which may get the signal, the hits, and
                        \* maxBatchSize in entries (one for each key)
          Faults,       \* may datagrams and connections fail?
          SettlingSuffices  \* does a ring drop a leaver within the settling
                            \* period of its handover?

VARIABLES setting,    \* the situation of this behaviour
          phase,      \* the stage of Execute
          list, ring, \* memberlist and hash ring of each node
          new,        \* hits not received yet
          asked,      \* hits whose goroutine (Process) has not run yet
          counter,    \* the accounting cache
          slot,       \* transferable: counters taken out by a ring change
          buffer,     \* the flusher's batches, per owner
          net,        \* accounting datagrams
          snap, todo, \* Evacuate: what it sends, whom it has not tried
          sent,       \* Evacuate returned nil after a send
          mail,       \* handover payloads sent
          rejected,   \* history: a payload of this node was dropped
          settling,   \* batches in the settling period
          entries,    \* entries of a settled batch, not redistributed yet
          late,       \* history: hits sent in a full batch after the snapshot
          fault       \* history: a message was lost or a start failed

(* The ring names one of its members as the owner of a key.                 *)
ASSUME HandoverAssumption ==
    /\ \A S \in SUBSET Node : S # {} => \A h \in Hit : Locate[S][KeyOf[h]] \in S
    /\ \A s \in Setting : s.hits \subseteq Hit

vars == <<setting, phase, list, ring, new, asked, counter, slot, buffer, net,
          snap, todo, sent, mail, rejected, settling, entries, late, fault>>
flusher == <<setting, late>>
pipeline == <<new, asked, counter, slot, buffer, net, flusher>>
evacuation == <<snap, todo, sent>>
adoption == <<mail, rejected, settling, entries>>

Empty == [m \in Node |-> {}]

Init ==
    /\ setting \in Setting
    /\ phase = [n \in Node |-> IF n \in setting.starting THEN "cluster" ELSE "running"]
    /\ list = [n \in Node |-> Node]
    /\ ring = [n \in Node |-> Node]
    /\ new = setting.hits
    /\ asked = [n \in Node |-> {}]
    /\ counter = [n \in Node |-> {}]
    /\ slot = [n \in Node |-> Empty]
    /\ buffer = [n \in Node |-> Empty]
    /\ net = {}
    /\ snap = [n \in Node |-> {}]
    /\ todo = [n \in Node |-> {}]
    /\ sent = [n \in Node |-> FALSE]
    /\ mail = {}
    /\ rejected = [n \in Node |-> FALSE]
    /\ settling = [n \in Node |-> {}]
    /\ entries = [n \in Node |-> {}]
    /\ late = {}
    /\ fault = FALSE

-----------------------------------------------------------------------------
(* The stages of Execute.                                                  *)

(* newCluster has run in "cluster": the memberlist answers.  Then the       *)
(* engine and its flusher; SetHandover, after which the internal API        *)
(* starts; the gRPC server, after which the proxy starts.                   *)
StartUp == <<"cluster", "engine", "handover", "grpc", "running">>

Follows(seq, p, q) == \E i \in 1..(Len(seq) - 1) : seq[i] = p /\ seq[i + 1] = q

Alive(n) == phase[n] # "off"
Serving(n) == phase[n] \in {"grpc", "running", "stopping"}
Flushing(n) == phase[n] \in {"engine", "handover", "grpc", "running", "stopping", "nogrpc"}
HandoverSet(n) == phase[n] \notin {"cluster", "engine", "off"}
IsShuttingDown(n) == phase[n] \in {"evacuate", "evacuated", "left"}

(* A process that ends takes what it holds with it.                         *)
Exit(n) ==
    /\ phase' = [phase EXCEPT ![n] = "off"]
    /\ asked' = [asked EXCEPT ![n] = {}]
    /\ counter' = [counter EXCEPT ![n] = {}]
    /\ slot' = [slot EXCEPT ![n] = Empty]
    /\ buffer' = [buffer EXCEPT ![n] = Empty]
    /\ settling' = [settling EXCEPT ![n] = {}]
    /\ entries' = [entries EXCEPT ![n] = {}]
    /\ list' = [list EXCEPT ![n] = {}]
    /\ ring' = [ring EXCEPT ![n] = {}]
    /\ UNCHANGED <<flusher, new, net, evacuation, mail, rejected>>

StartNext(n) ==
    /\ \E p \in {"engine", "handover", "grpc", "running"} :
         Follows(StartUp, phase[n], p) /\ phase' = [phase EXCEPT ![n] = p]
    /\ UNCHANGED <<list, ring, pipeline, evacuation, adoption, fault>>

StartFails(n) ==
    /\ phase[n] \in {"cluster", "engine", "handover", "grpc"}
    /\ Faults
    /\ Exit(n)
    /\ fault' = TRUE

(* The proxy and the API stop while the gRPC server still serves.           *)
Signal(n) ==
    /\ n \in setting.leaving /\ phase[n] = "running"
    /\ phase' = [phase EXCEPT ![n] = "stopping"]
    /\ UNCHANGED <<list, ring, pipeline, evacuation, adoption, fault>>

(* The gRPC server stops.                                                   *)
StopServer(n) ==
    /\ phase[n] = "stopping"
    /\ phase' = [phase EXCEPT ![n] = "nogrpc"]
    /\ UNCHANGED <<list, ring, pipeline, evacuation, adoption, fault>>

-----------------------------------------------------------------------------
(* Requests, the flusher and the ring.                                     *)

Owner(n, k) == IF ring[n] = {} THEN n ELSE Locate[ring[n]][k]

(* Check answers and starts Process, which nobody waits for.                *)
Check(n, h) ==
    /\ Serving(n) /\ h \in new
    /\ new' = new \ {h}
    /\ asked' = [asked EXCEPT ![n] = @ \cup {h}]
    /\ UNCHANGED <<flusher, phase, list, ring, counter, slot, buffer, net,
                   evacuation, adoption, fault>>

(* Count hits H where the ring of n says, locally or in the batch for the   *)
(* owner.  Enqueue adds what a ring change left for that owner, and sends a *)
(* full batch itself, also when the flusher has stopped; a batch whose      *)
(* owner is no longer a member is dropped.                                  *)
Account(n, H, k) ==
    LET m == Owner(n, k)
        batch == buffer[n][m] \cup H \cup slot[n][m]
        full == Cardinality({KeyOf[h] : h \in batch}) >= setting.maxBatchSize
    IN  IF m = n
        THEN /\ counter' = [counter EXCEPT ![n] = @ \cup H]
             /\ UNCHANGED <<slot, buffer, net, late>>
        ELSE /\ buffer' = [buffer EXCEPT ![n][m] = IF full THEN {} ELSE batch]
             /\ slot' = [slot EXCEPT ![n][m] = {}]
             /\ net' = IF full /\ m \in list[n]
                       THEN net \cup {[to |-> m, hits |-> batch]} ELSE net
             /\ late' = IF full /\ IsShuttingDown(n) THEN late \cup batch ELSE late
             /\ UNCHANGED counter

(* The goroutine runs in any stage: shutdown does not wait for it.          *)
Process(n, h) ==
    /\ h \in asked[n]
    /\ asked' = [asked EXCEPT ![n] = @ \ {h}]
    /\ Account(n, {h}, KeyOf[h])
    /\ UNCHANGED <<setting, phase, list, ring, new, evacuation, adoption,
                   fault>>

Flushed(n) ==
    /\ net' = net \cup {[to |-> m, hits |-> buffer[n][m]] :
                          m \in {x \in list[n] : buffer[n][x] # {}}}
    /\ buffer' = [buffer EXCEPT ![n] = Empty]

Flush(n) ==
    /\ Flushing(n) /\ buffer[n] # Empty
    /\ Flushed(n)
    /\ UNCHANGED <<flusher, phase, list, ring, new, asked, counter, slot,
                   evacuation, adoption, fault>>

StopFlusher(n) ==
    /\ phase[n] = "nogrpc"
    /\ phase' = [phase EXCEPT ![n] = "flushed"]
    /\ Flushed(n)
    /\ UNCHANGED <<flusher, list, ring, new, asked, counter, slot, evacuation,
                   adoption, fault>>

(* handleAccountingMsg increments in every stage.                           *)
Deliver(b) ==
    /\ b \in net
    /\ net' = net \ {b}
    /\ counter' = [counter EXCEPT ![b.to] = IF Alive(b.to) THEN @ \cup b.hits
                                                           ELSE @]
    /\ UNCHANGED <<flusher, phase, list, ring, new, asked, slot, buffer,
                   evacuation, adoption, fault>>

Lose(b) ==
    /\ Faults /\ b \in net
    /\ net' = net \ {b}
    /\ fault' = TRUE
    /\ UNCHANGED <<flusher, phase, list, ring, new, asked, counter, slot,
                   buffer, evacuation, adoption>>

(* memberlist learns that m leaves or has gone (external).                  *)
NotifyLeave(n, m) ==
    /\ Alive(n) /\ phase[m] \in {"left", "off"} /\ m \in list[n]
    /\ list' = [list EXCEPT ![n] = @ \ {m}]
    /\ UNCHANGED <<phase, ring, pipeline, evacuation, adoption, fault>>

(* UpdateNodes: counters of keys that another member owns now move to its   *)
(* slot, and what the slot held before is overwritten.                      *)
UpdateNodes(n) ==
    LET Move(m) == {h \in counter[n] : Locate[list[n]][KeyOf[h]] = m}
        others == list[n] \ {n}
    IN  /\ Alive(n) /\ ring[n] # list[n]
        /\ ring' = [ring EXCEPT ![n] = list[n]]
        /\ slot' = [slot EXCEPT ![n] = [m \in Node |->
                      IF m \in others THEN Move(m) ELSE @[m]]]
        /\ counter' = [counter EXCEPT ![n] = @ \ UNION {Move(m) : m \in others}]
        /\ UNCHANGED <<flusher, phase, list, new, asked, buffer, net, evacuation,
                       adoption, fault>>

-----------------------------------------------------------------------------
(* Evacuate at the leaver.                                                 *)

(* Mutant of Evacuate: the leaver is among the peers to try.                *)
EvacuateToSelf(n) ==
    /\ phase[n] = "flushed"
    /\ phase' = [phase EXCEPT ![n] = IF counter[n] = {} THEN "evacuated"
                                                        ELSE "evacuate"]
    /\ snap' = [snap EXCEPT ![n] = counter[n]]
    /\ todo' = [todo EXCEPT ![n] = IF counter[n] = {} THEN {} ELSE list[n]]
    /\ UNCHANGED <<list, ring, pipeline, sent, adoption, fault>>

(* SnapshotAll copies the counters (not the slots), MemberAddrs the members. *)
Evacuate(n) ==
    /\ phase[n] = "flushed"
    /\ phase' = [phase EXCEPT ![n] = IF counter[n] = {} THEN "evacuated"
                                                        ELSE "evacuate"]
    /\ snap' = [snap EXCEPT ![n] = counter[n]]
    /\ todo' = [todo EXCEPT ![n] = IF counter[n] = {} THEN {} ELSE list[n] \ {n}]
    /\ UNCHANGED <<list, ring, pipeline, sent, adoption, fault>>

(* Mutant of SendTo: the loop goes on after a success.                      *)
SendToAll(n, m) ==
    /\ phase[n] = "evacuate" /\ m \in todo[n] \cap list[n] /\ Alive(m)
    /\ mail' = mail \cup {[from |-> n, to |-> m, hits |-> snap[n]]}
    /\ sent' = [sent EXCEPT ![n] = TRUE]
    /\ todo' = [todo EXCEPT ![n] = @ \ {m}]
    /\ UNCHANGED <<phase, list, ring, pipeline, snap, rejected, settling, entries,
                   fault>>

(* SendReliable succeeds when memberlist still knows the peer and the peer  *)
(* has taken the bytes; the peer's handler runs later.                      *)
SendTo(n, m) ==
    /\ phase[n] = "evacuate" /\ m \in todo[n] \cap list[n] /\ Alive(m)
    /\ mail' = mail \cup {[from |-> n, to |-> m, hits |-> snap[n]]}
    /\ phase' = [phase EXCEPT ![n] = "evacuated"]
    /\ sent' = [sent EXCEPT ![n] = TRUE]
    /\ todo' = [todo EXCEPT ![n] = {}]
    /\ snap' = [snap EXCEPT ![n] = {}]
    /\ UNCHANGED <<list, ring, pipeline, rejected, settling, entries,
                   fault>>

SendFails(n, m) ==
    /\ phase[n] = "evacuate" /\ m \in todo[n]
    /\ Faults \/ ~Alive(m) \/ m \notin list[n]
    /\ todo' = [todo EXCEPT ![n] = @ \ {m}]
    /\ UNCHANGED <<phase, list, ring, pipeline, snap, sent, adoption, fault>>

(* Mutant of EvacuateFails: only the timeout ends the search.               *)
EvacuateTimesOut(n) ==
    /\ phase[n] = "evacuate" /\ todo[n] # {} /\ Faults
    /\ phase' = [phase EXCEPT ![n] = "evacuated"]
    /\ todo' = [todo EXCEPT ![n] = {}]
    /\ snap' = [snap EXCEPT ![n] = {}]
    /\ UNCHANGED <<list, ring, pipeline, sent, adoption, fault>>

(* No peer is left, or the time is up.                                      *)
EvacuateFails(n) ==
    /\ phase[n] = "evacuate"
    /\ todo[n] = {} \/ Faults
    /\ phase' = [phase EXCEPT ![n] = "evacuated"]
    /\ todo' = [todo EXCEPT ![n] = {}]
    /\ snap' = [snap EXCEPT ![n] = {}]
    /\ UNCHANGED <<list, ring, pipeline, sent, adoption, fault>>

(* Cluster.Leave: the only member shuts down; another one tells the rest,   *)
(* and its own memberlist no longer counts it as a member (external).       *)
Leave(n) ==
    /\ phase[n] = "evacuated"
    /\ \/ list[n] = {n} /\ Exit(n)
       \/ /\ list[n] # {n}
          /\ phase' = [phase EXCEPT ![n] = "left"]
          /\ list' = [list EXCEPT ![n] = @ \ {n}]
          /\ UNCHANGED <<ring, pipeline, evacuation, adoption>>
    /\ UNCHANGED fault

(* The broadcast is out or its timeout is over; the process ends.           *)
Shutdown(n) ==
    /\ phase[n] = "left"
    /\ Exit(n)
    /\ UNCHANGED fault

-----------------------------------------------------------------------------
(* HandleIncoming and redistribute at the adopter.                         *)

HandleIncoming(p) ==
    LET n == p.to
        accepts == HandoverSet(n) /\ ~IsShuttingDown(n)
    IN  /\ p \in mail
        /\ mail' = mail \ {p}
        /\ settling' = [settling EXCEPT ![n] =
                          IF accepts THEN @ \cup {[from |-> p.from, hits |-> p.hits]}
                                     ELSE @]
        /\ rejected' = [rejected EXCEPT ![p.from] = @ \/ ~accepts]
        /\ UNCHANGED <<phase, list, ring, pipeline, evacuation, entries, fault>>

(* Mutant of Settle: no settling period.                                    *)
SettleAtOnce(n, b) ==
    /\ b \in settling[n]
    /\ settling' = [settling EXCEPT ![n] = @ \ {b}]
    /\ entries' = [entries EXCEPT ![n] = @ \cup b.hits]
    /\ UNCHANGED <<phase, list, ring, pipeline, evacuation, mail, rejected,
                   fault>>

(* The sleep of the settling period ends.                                   *)
Settle(n, b) ==
    /\ b \in settling[n]
    /\ SettlingSuffices => b.from \notin ring[n]
    /\ settling' = [settling EXCEPT ![n] = @ \ {b}]
    /\ entries' = [entries EXCEPT ![n] = @ \cup b.hits]
    /\ UNCHANGED <<phase, list, ring, pipeline, evacuation, mail, rejected,
                   fault>>

(* One entry of the batch: one key.                                         *)
Redistribute(n, k) ==
    LET H == {h \in entries[n] : KeyOf[h] = k}
    IN  /\ H # {}
        /\ entries' = [entries EXCEPT ![n] = @ \ H]
        /\ Account(n, H, k)
        /\ UNCHANGED <<setting, phase, list, ring, new, asked, evacuation,
                       mail, rejected, settling, fault>>

-----------------------------------------------------------------------------
Key == {KeyOf[h] : h \in Hit}

ShutDownStep(n) ==
    \/ StopServer(n) \/ StopFlusher(n) \/ Evacuate(n)
    \/ \E m \in Node : SendTo(n, m) \/ SendFails(n, m)
    \/ EvacuateFails(n) \/ Leave(n) \/ Shutdown(n)

Background(n) ==
    \/ \E h \in Hit : Process(n, h)
    \/ Flush(n)
    \/ \E m \in Node : NotifyLeave(n, m)
    \/ UpdateNodes(n)
    \/ \E b \in settling[n] : Settle(n, b)
    \/ \E k \in Key : Redistribute(n, k)

Next ==
    \/ \E n \in Node :
         \/ StartNext(n) \/ StartFails(n) \/ Signal(n)
         \/ \E h \in Hit : Check(n, h)
         \/ ShutDownStep(n) \/ Background(n)
    \/ \E b \in net : Deliver(b) \/ Lose(b)
    \/ \E p \in mail : HandleIncoming(p)

Spec == Init /\ [][Next]_vars

(* The shutdown is one goroutine; tickers, sleeps and failure detection end; *)
(* what the network accepted arrives unless it is lost.                     *)
Fairness ==
    /\ \A n \in Node :
         /\ WF_vars(ShutDownStep(n))
         /\ \A h \in Hit : WF_vars(Process(n, h))
         /\ WF_vars(Flush(n))
         /\ WF_vars(\E m \in Node : NotifyLeave(n, m))
         /\ WF_vars(UpdateNodes(n))
         /\ WF_vars(\E b \in settling[n] : Settle(n, b))
         /\ WF_vars(\E k \in Key : Redistribute(n, k))
    /\ WF_vars(\E b \in net : Deliver(b))
    /\ WF_vars(\E p \in mail : HandleIncoming(p))

FairSpec == Spec /\ Fairness

-----------------------------------------------------------------------------
(* Properties.                                                             *)

(* The types; a payload goes to another node and is not empty.              *)
TypeOK ==
    /\ phase \in [Node -> {"cluster", "engine", "handover", "grpc", "running",
                           "stopping", "nogrpc", "flushed", "evacuate",
                           "evacuated", "left", "off"}]
    /\ list \in [Node -> SUBSET Node] /\ ring \in [Node -> SUBSET Node]
    /\ asked \in [Node -> SUBSET Hit] /\ counter \in [Node -> SUBSET Hit]
    /\ slot \in [Node -> [Node -> SUBSET Hit]]
    /\ buffer \in [Node -> [Node -> SUBSET Hit]]
    /\ \A b \in net : b.to \in Node /\ b.hits \in SUBSET Hit
    /\ \A p \in mail : p.to # p.from /\ p.hits # {}

(* The places from which a hit can still reach a counter that is used: what *)
(* a process holds after it began to evacuate is dead, its snapshot is not. *)
Places(h) ==
    LET live == {n \in Node : ~IsShuttingDown(n)}
    IN  {<<"counter", n>> : n \in {x \in live : h \in counter[x]}}
        \cup {<<"entries", n>> : n \in {x \in live : h \in entries[x]}}
        \cup {<<"snap", n>> : n \in {x \in Node : h \in snap[x]}}
        \cup {<<"net", b>> : b \in {x \in net : h \in x.hits}}
        \cup {<<"mail", p>> : p \in {x \in mail : h \in x.hits}}
        \cup (UNION {{<<"slot", n, m>> : m \in {x \in Node : h \in slot[n][x]}} : n \in live})
        \cup (UNION {{<<"buffer", n, m>> : m \in {x \in Node : h \in buffer[n][x]}} :
                       n \in {x \in Node : Flushing(x)}})
        \cup (UNION {{<<"settling", n, b>> : b \in {x \in settling[n] : h \in x.hits}} :
                       n \in live})

(* A hit is in at most one of these places, whatever the order in which     *)
(* several nodes leave, hand over, adopt and redistribute: no handover      *)
(* counts a request twice, which could block an entity below its limit.     *)
(* The exception are hits that a full batch carried out of the process      *)
(* after its snapshot (CountedOnceThroughout says that there are none).     *)
CountedOnce == \A h \in Hit \ late : \A p, q \in Places(h) : p = q

(* The same without the exception, which the code does not keep: a ring     *)
(* change moves counters of the snapshot to the slots, and a goroutine that *)
(* nobody waits for enqueues them and fills a batch.                        *)
CountedOnceThroughout == \A h \in Hit : \A p, q \in Places(h) : p = q

Stopping == {n \in Node : phase[n] \notin {"cluster", "engine", "handover",
                                           "grpc", "running"}}

(* What an adopter accepted reaches the counter of a node that runs, unless *)
(* a message is lost, a start fails or a second node leaves meanwhile: the  *)
(* settling period and redistribute find the owner on the ring without the  *)
(* leaver.                                                                  *)
AdoptedSurvives ==
    \A n \in Node, h \in Hit :
        (\E b \in settling[n] : h \in b.hits)
            ~> (\/ \E m \in Node : h \in counter[m] /\ Alive(m)
                \/ fault \/ Cardinality(Stopping) > 1)

(* After the signal a process ends: Evacuate tries every peer or runs out   *)
(* of time, and nothing in the sequence of root.go waits for another node   *)
(* that is leaving too.  (Without the optional persistent channels: their   *)
(* Stop, which Leave calls first, is in Channels and may have to wait.)     *)
ShutdownEnds == \A n \in Node : phase[n] = "stopping" ~> phase[n] = "off"

(* Evacuate does not report success for a payload that its adopter dropped: *)
(* docs/content/docs/membership.md says that the adopter "rejects the       *)
(* handover immediately and the sender retries with the next available      *)
(* peer".                                                                   *)
RejectedIsRetried == \A n \in Node : ~(sent[n] /\ rejected[n])
=============================================================================
