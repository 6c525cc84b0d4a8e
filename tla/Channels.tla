------------------------------ MODULE Channels ------------------------------
(***************************************************************************)
(* The persistent channels of internal/membership/channel.go: one duplex   *)
(* gRPC stream per pair of nodes, dialled by the node with the smaller     *)
(* address when memberlist reports the other one, and torn down when a     *)
(* receive or a write fails, when the peer leaves, or at Stop.             *)
(*                                                                         *)
(* A Stream is one call of connect: its dialling goroutine, the goroutine  *)
(* that serves it on the other node, and a peerChannel object with a queue *)
(* and a writeLoop at each end.  A message is one call of Send.            *)
(***************************************************************************)
EXTENDS Naturals, Sequences, FiniteSets

CONSTANTS Node,         \* addresses, ordered as the code orders them
          Stream,       \* names for the calls of connect (a bound)
          NoStream,
          Message,      \* names for the calls of Send (a bound)
          From, To,     \* sender and receiver of a message
          SendBuffer,   \* channelSendBuffer
          Leaving,      \* the nodes that may shut down
          Faults        \* may connections break and members be suspected?

VARIABLES member,   \* member[n]: the peers that memberlist reported to n
          peers,    \* cm.peers: the stream registered at n for a peer
          ends,     \* ends[s]: <<dialling node, accepting node>>
          dialer,   \* where connect is on s
          acceptor, \* where the handler Stream is on s
          up,       \* s can carry messages
          closed,   \* closed[n][s]: teardownPeer has run on that object
          queue,    \* queue[n][s]: sendCh of that object
          wire,     \* wire[n][s]: sent by n on s, not yet received
          send,     \* progress of each Send
          found,    \* the stream that Send found in cm.peers
          stop,     \* progress of Stop
          snapshot  \* the objects that Stop still has to tear down

vars == <<member, peers, ends, dialer, acceptor, up, closed, queue, wire,
          send, found, stop, snapshot>>
transport == <<ends, dialer, acceptor, up>>
outbound == <<queue, wire, send, found>>
stopping == <<stop, snapshot>>

ASSUME ChannelsAssumption ==
    /\ Node \subseteq Nat
    /\ NoStream \notin Stream
    /\ From \in [Message -> Node] /\ To \in [Message -> Node]
    /\ SendBuffer \in Nat
    /\ Leaving \subseteq Node
    /\ Faults \in BOOLEAN

NoEnds == <<>>
Ends == {e \in Node \X Node : e[1] < e[2]}

Init ==
    /\ member = [n \in Node |-> {}]
    /\ peers = [n \in Node |-> [m \in Node |-> NoStream]]
    /\ ends = [s \in Stream |-> NoEnds]
    /\ dialer = [s \in Stream |-> "none"]
    /\ acceptor = [s \in Stream |-> "none"]
    /\ up = [s \in Stream |-> FALSE]
    /\ closed = [n \in Node |-> [s \in Stream |-> FALSE]]
    /\ queue = [n \in Node |-> [s \in Stream |-> <<>>]]
    /\ wire = [n \in Node |-> [s \in Stream |-> <<>>]]
    /\ send = [i \in Message |-> "new"]
    /\ found = [i \in Message |-> NoStream]
    /\ stop = [n \in Node |-> "running"]
    /\ snapshot = [n \in Node |-> {}]

-----------------------------------------------------------------------------
(* Objects and their registration.                                         *)

Other(n, s) == IF ends[s][1] = n THEN ends[s][2] ELSE ends[s][1]

(* registerPeer: under cm.mu, the first stream for an address wins.        *)
CanRegister(n, m) == peers[n][m] = NoStream

Register(n, m, s) == peers' = [peers EXCEPT ![n][m] = s]

(* Mutants of Teardown: the entry stays in cm.peers; the dialler keeps its   *)
(* connection.                                                              *)
TeardownKeepingEntry(n, s) ==
    IF closed[n][s]
    THEN UNCHANGED <<peers, closed, up>>
    ELSE /\ closed' = [closed EXCEPT ![n][s] = TRUE]
         /\ up' = IF ends[s][1] = n THEN [up EXCEPT ![s] = FALSE] ELSE up
         /\ UNCHANGED peers

TeardownKeepingConn(n, s) ==
    IF closed[n][s]
    THEN UNCHANGED <<peers, closed, up>>
    ELSE /\ peers' = [peers EXCEPT ![n] =
                        [m \in Node |-> IF @[m] = s THEN NoStream ELSE @[m]]]
         /\ closed' = [closed EXCEPT ![n][s] = TRUE]
         /\ UNCHANGED up

(* teardownPeer: only the first call has an effect; it removes the entry    *)
(* if it is still this object, closes sendCh, and either closes the client  *)
(* connection (dialler) or signals the handler (acceptor).                  *)
Teardown(n, s) ==
    IF closed[n][s]
    THEN UNCHANGED <<peers, closed, up>>
    ELSE /\ peers' = [peers EXCEPT ![n] =
                        [m \in Node |-> IF @[m] = s THEN NoStream ELSE @[m]]]
         /\ closed' = [closed EXCEPT ![n][s] = TRUE]
         /\ up' = IF ends[s][1] = n THEN [up EXCEPT ![s] = FALSE] ELSE up

-----------------------------------------------------------------------------
(* Membership events (event.go) and the goroutines they start.             *)

(* Mutant of EstablishForPeer: both sides dial.                             *)
EstablishBothWays(n, m) ==
    IF peers[n][m] # NoStream
    THEN UNCHANGED <<ends, dialer>>
    ELSE \E s \in Stream :
           /\ dialer[s] = "none"
           /\ ends' = [ends EXCEPT ![s] = <<n, m>>]
           /\ dialer' = [dialer EXCEPT ![s] = "dialing"]

(* NotifyJoin calls EstablishForPeer: the smaller address dials, unless an  *)
(* entry already exists.                                                    *)
EstablishForPeer(n, m) ==
    IF n >= m \/ peers[n][m] # NoStream
    THEN UNCHANGED <<ends, dialer>>
    ELSE \E s \in Stream :
           /\ dialer[s] = "none"
           /\ ends' = [ends EXCEPT ![s] = <<n, m>>]
           /\ dialer' = [dialer EXCEPT ![s] = "dialing"]

NotifyJoin(n, m) ==
    /\ m # n /\ m \notin member[n]
    /\ stop[n] # "stopped" /\ stop[m] # "stopped"
    /\ member' = [member EXCEPT ![n] = @ \cup {m}]
    /\ EstablishForPeer(n, m)
    /\ UNCHANGED <<peers, acceptor, up, closed, outbound, stopping>>

(* NotifyLeave calls Close.  A running peer is reported only by mistake.    *)
NotifyLeave(n, m) ==
    /\ m \in member[n]
    /\ Faults \/ stop[m] = "stopped"
    /\ member' = [member EXCEPT ![n] = @ \ {m}]
    /\ IF peers[n][m] = NoStream
       THEN UNCHANGED <<peers, closed, up>>
       ELSE Teardown(n, peers[n][m])
    /\ UNCHANGED <<ends, dialer, acceptor, outbound, stopping>>

(* connect: the stream opens if the peer still accepts calls; a failure is  *)
(* logged and the goroutine gives up.                                       *)
OpenStream(s) ==
    /\ dialer[s] = "dialing"
    /\ stop[ends[s][2]] \in {"running", "stopping"}
    /\ dialer' = [dialer EXCEPT ![s] = "open"]
    /\ acceptor' = [acceptor EXCEPT ![s] = "called"]
    /\ up' = [up EXCEPT ![s] = TRUE]
    /\ UNCHANGED <<member, peers, ends, closed, outbound, stopping>>

DialFails(s) ==
    /\ dialer[s] = "dialing"
    /\ Faults \/ stop[ends[s][2]] \in {"draining", "stopped"}
    /\ dialer' = [dialer EXCEPT ![s] = "done"]
    /\ UNCHANGED <<member, peers, ends, acceptor, up, closed, outbound,
                   stopping>>

ConnectRegisters(s) ==
    LET n == ends[s][1]
        m == ends[s][2]
    IN  /\ dialer[s] = "open"
        /\ IF CanRegister(n, m)
           THEN /\ Register(n, m, s)
                /\ dialer' = [dialer EXCEPT ![s] = "recv"]
                /\ UNCHANGED up
           ELSE /\ dialer' = [dialer EXCEPT ![s] = "done"]
                /\ up' = [up EXCEPT ![s] = FALSE]
                /\ UNCHANGED peers
        /\ UNCHANGED <<member, ends, acceptor, closed, outbound, stopping>>

(* Stream: the handler registers the dialler or refuses the call.           *)
StreamRegisters(s) ==
    LET n == ends[s][2]
        m == ends[s][1]
    IN  /\ acceptor[s] = "called"
        /\ IF CanRegister(n, m)
           THEN /\ Register(n, m, s)
                /\ acceptor' = [acceptor EXCEPT ![s] = "recv"]
                /\ UNCHANGED up
           ELSE /\ acceptor' = [acceptor EXCEPT ![s] = "done"]
                /\ up' = [up EXCEPT ![s] = FALSE]
                /\ UNCHANGED peers
        /\ UNCHANGED <<member, ends, dialer, closed, outbound, stopping>>

-----------------------------------------------------------------------------
(* The receive loops, the write loop, and Send.                            *)

Receiving(n, s) == \/ ends[s] # NoEnds /\ ends[s][1] = n /\ dialer[s] = "recv"
                   \/ ends[s] # NoEnds /\ ends[s][2] = n /\ acceptor[s] = "recv"

(* dispatch hands a message to the delegate.                                *)
Receive(n, s) ==
    /\ Receiving(n, s)
    /\ LET m == Other(n, s)
       IN  /\ wire[m][s] # <<>>
           /\ wire' = [wire EXCEPT ![m][s] = Tail(@)]
           /\ send' = [send EXCEPT ![Head(wire[m][s])] = "received"]
    /\ UNCHANGED <<member, peers, transport, closed, queue, found,
                   stopping>>

(* Recv fails once the stream is down.  Messages received but not           *)
(* dispatched are dropped: the handler's select may prefer the error.       *)
DialerRecvEnds(s) ==
    /\ dialer[s] = "recv" /\ ~up[s]
    /\ dialer' = [dialer EXCEPT ![s] = "done"]
    /\ wire' = [wire EXCEPT ![ends[s][2]][s] = <<>>]
    /\ Teardown(ends[s][1], s)
    /\ UNCHANGED <<member, ends, acceptor, queue, send, found, stopping>>

(* Mutant of StreamReturns: the handler does not listen for the teardown.   *)
StreamReturnsOnError(s) ==
    LET n == ends[s][2]
    IN  /\ acceptor[s] = "recv"
        /\ ~up[s]
        /\ acceptor' = [acceptor EXCEPT ![s] = "done"]
        /\ wire' = [wire EXCEPT ![ends[s][1]][s] = <<>>]
        /\ Teardown(n, s)
        /\ UNCHANGED <<member, ends, dialer, queue, send, found, stopping>>

(* The handler also ends when teardown signalled it; its return ends the    *)
(* stream.                                                                  *)
StreamReturns(s) ==
    LET n == ends[s][2]
    IN  /\ acceptor[s] = "recv"
        /\ ~up[s] \/ closed[n][s]
        /\ acceptor' = [acceptor EXCEPT ![s] = "done"]
        /\ up' = [up EXCEPT ![s] = FALSE]
        /\ wire' = [wire EXCEPT ![ends[s][1]][s] = <<>>]
        /\ closed' = [closed EXCEPT ![n][s] = TRUE]
        /\ peers' = [peers EXCEPT ![n] =
                        [m \in Node |-> IF @[m] = s THEN NoStream ELSE @[m]]]
        /\ UNCHANGED <<member, ends, dialer, queue, send, found, stopping>>

(* Mutant of WriteLoop: the message is taken from the queue and not sent.   *)
WriteLoopDrops(n, s) ==
    /\ queue[n][s] # <<>>
    /\ queue' = [queue EXCEPT ![n][s] = Tail(@)]
    /\ IF up[s] THEN UNCHANGED <<peers, closed, up>> ELSE Teardown(n, s)
    /\ UNCHANGED <<member, ends, dialer, acceptor, wire, send, found, stopping>>

(* writeLoop sends the head of the queue; a failed send tears the channel   *)
(* down and leaves the rest unsent.  It has ended when the queue is closed  *)
(* and empty.                                                               *)
WriteLoop(n, s) ==
    /\ queue[n][s] # <<>>
    /\ IF up[s]
       THEN /\ queue' = [queue EXCEPT ![n][s] = Tail(@)]
            /\ wire' = [wire EXCEPT ![n][s] = Append(@, Head(queue[n][s]))]
            /\ UNCHANGED <<peers, closed, up>>
       ELSE /\ queue' = [queue EXCEPT ![n][s] = <<>>]
            /\ Teardown(n, s)
            /\ UNCHANGED wire
    /\ UNCHANGED <<member, ends, dialer, acceptor, send, found, stopping>>

(* Send reads cm.peers under the read lock ...                              *)
SendLookup(i) ==
    LET s == peers[From[i]][To[i]]
    IN  /\ send[i] = "new" /\ stop[From[i]] # "stopped"
        /\ send' = [send EXCEPT ![i] = IF s = NoStream THEN "error" ELSE "found"]
        /\ found' = [found EXCEPT ![i] = s]
        /\ UNCHANGED <<member, peers, transport, closed, queue, wire,
                       stopping>>

(* ... and queues after releasing it.                                       *)
SendQueue(i) ==
    LET n == From[i]
        s == found[i]
        room == Len(queue[n][s]) < SendBuffer
    IN  /\ send[i] = "found" /\ ~closed[n][s]
        /\ send' = [send EXCEPT ![i] = IF room THEN "queued" ELSE "error"]
        /\ queue' = IF room THEN [queue EXCEPT ![n][s] = Append(@, i)] ELSE queue
        /\ UNCHANGED <<member, peers, transport, closed, wire, found,
                       stopping>>

(* Sending on a closed Go channel panics, also inside a select with a       *)
(* default: the process ends, and everything it ran with it.                *)
SendPanics(i) ==
    LET n == From[i]
        Mine(s, e) == ends[s] # NoEnds /\ ends[s][e] = n
    IN  /\ send[i] = "found" /\ closed[n][found[i]]
        /\ send' = [j \in Message |->
                      IF j = i THEN "panic"
                      ELSE IF From[j] = n /\ send[j] \in {"new", "found", "queued"}
                           THEN "error" ELSE send[j]]
        /\ peers' = [peers EXCEPT ![n] = [m \in Node |-> NoStream]]
        /\ dialer' = [s \in Stream |-> IF Mine(s, 1) THEN "done" ELSE dialer[s]]
        /\ acceptor' = [s \in Stream |->
                          IF Mine(s, 2) THEN "done" ELSE acceptor[s]]
        /\ up' = [s \in Stream |-> up[s] /\ ~Mine(s, 1) /\ ~Mine(s, 2)]
        /\ queue' = [queue EXCEPT ![n] = [s \in Stream |-> <<>>]]
        /\ stop' = [stop EXCEPT ![n] = "stopped"]
        /\ snapshot' = [snapshot EXCEPT ![n] = {}]
        /\ UNCHANGED <<member, ends, closed, wire, found>>

-----------------------------------------------------------------------------
(* Stop, and the network.                                                  *)

StopBegins(n) ==
    /\ n \in Leaving /\ stop[n] = "running"
    /\ stop' = [stop EXCEPT ![n] = "stopping"]
    /\ snapshot' = [snapshot EXCEPT ![n] =
                      {peers[n][m] : m \in Node} \ {NoStream}]
    /\ UNCHANGED <<member, peers, transport, closed, outbound>>

StopTearsDown(n, s) ==
    /\ stop[n] = "stopping" /\ s \in snapshot[n]
    /\ snapshot' = [snapshot EXCEPT ![n] = @ \ {s}]
    /\ Teardown(n, s)
    /\ UNCHANGED <<member, ends, dialer, acceptor, outbound, stop>>

(* GracefulStop refuses new calls and waits for the handlers to return.     *)
StopServer(n) ==
    /\ stop[n] = "stopping" /\ snapshot[n] = {}
    /\ stop' = [stop EXCEPT ![n] = "draining"]
    /\ UNCHANGED <<member, peers, transport, closed, outbound, snapshot>>

StopReturns(n) ==
    /\ stop[n] = "draining"
    /\ \A s \in Stream : ends[s] # NoEnds /\ ends[s][2] = n
                           => acceptor[s] \in {"none", "done"}
    /\ stop' = [stop EXCEPT ![n] = "stopped"]
    /\ UNCHANGED <<member, peers, transport, closed, outbound, snapshot>>

(* The connection of a stream breaks, or its keepalive times out.           *)
Break(s) ==
    /\ Faults /\ up[s]
    /\ up' = [up EXCEPT ![s] = FALSE]
    /\ UNCHANGED <<member, peers, ends, dialer, acceptor, closed,
                   outbound, stopping>>

StreamStep(s) ==
    \/ OpenStream(s) \/ DialFails(s) \/ ConnectRegisters(s)
    \/ StreamRegisters(s) \/ DialerRecvEnds(s) \/ StreamReturns(s)

Next ==
    \/ \E n, m \in Node : NotifyJoin(n, m) \/ NotifyLeave(n, m)
    \/ \E s \in Stream : StreamStep(s) \/ Break(s)
    \/ \E n \in Node, s \in Stream :
         Receive(n, s) \/ WriteLoop(n, s) \/ StopTearsDown(n, s)
    \/ \E i \in Message : SendLookup(i) \/ SendQueue(i) \/ SendPanics(i)
    \/ \E n \in Node : StopBegins(n) \/ StopServer(n) \/ StopReturns(n)

(* The Go scheduler runs every goroutine; events, calls and faults are up   *)
(* to the environment.                                                      *)
Fairness ==
    /\ \A s \in Stream : WF_vars(StreamStep(s))
    /\ \A n \in Node, s \in Stream :
         WF_vars(Receive(n, s)) /\ WF_vars(WriteLoop(n, s))
    /\ \A i \in Message : WF_vars(SendQueue(i) \/ SendPanics(i))

Spec == Init /\ [][Next]_vars
FairSpec == Spec /\ Fairness

-----------------------------------------------------------------------------
(* The types of the variables.                                             *)
TypeOK ==
    /\ member \in [Node -> SUBSET Node]
    /\ peers \in [Node -> [Node -> Stream \cup {NoStream}]]
    /\ ends \in [Stream -> Ends \cup {NoEnds}]
    /\ dialer \in [Stream -> {"none", "dialing", "open", "recv", "done"}]
    /\ acceptor \in [Stream -> {"none", "called", "recv", "done"}]
    /\ up \in [Stream -> BOOLEAN]
    /\ closed \in [Node -> [Stream -> BOOLEAN]]
    /\ queue \in [Node -> [Stream -> Seq(Message)]]
    /\ wire \in [Node -> [Stream -> Seq(Message)]]
    /\ send \in [Message -> {"new", "found", "queued", "received", "error",
                             "panic"}]
    /\ found \in [Message -> Stream \cup {NoStream}]
    /\ stop \in [Node -> {"running", "stopping", "draining", "stopped"}]
    /\ snapshot \in [Node -> SUBSET Stream]

(* A stream in cm.peers is one between these two nodes, its object has not  *)
(* been torn down, and a goroutine that will notice its end is receiving on *)
(* it: neither late registrations nor repeated teardowns leave a dead entry *)
(* that Send would use and EstablishForPeer would take for a connection.    *)
EntriesAreServed ==
    \A n, m \in Node, s \in Stream :
        peers[n][m] = s => /\ ends[s] \in {<<n, m>>, <<m, n>>}
                           /\ ~closed[n][s]
                           /\ Receiving(n, s)

(* A channel registered at one end only does not stay that way: whatever    *)
(* the order of dials, registrations, refusals and teardowns, the other end *)
(* registers the same stream or this end drops it.                          *)
HalfOpen(s) == \E n, m \in Node : peers[n][m] = s /\ peers[m][n] # s

HalfOpenEnds == \A s \in Stream : HalfOpen(s) ~> ~HalfOpen(s)

(* Once either end of a stream is torn down, its dialling goroutine, its    *)
(* handler and both write loops end.  (The goroutine that receives for the  *)
(* handler may stay: it blocks when the handler returns with a message in   *)
(* msgCh and another one received.)                                         *)
StreamsEnd ==
    \A s \in Stream :
        (\E n \in Node : closed[n][s])
            ~> /\ dialer[s] = "done" /\ acceptor[s] = "done"
               /\ \A n \in Node : queue[n][s] = <<>>

(* A message that Send accepted is dispatched at the peer, unless the       *)
(* stream goes down.                                                        *)
QueuedIsDelivered ==
    \A i \in Message :
        (send[i] = "queued")
            ~> (send[i] = "received" \/ \E s \in Stream : found[i] = s /\ ~up[s])

(* Send "returns an error [...] if no channel is established": it never     *)
(* ends the process.                                                        *)
SendReturns == \A i \in Message : send[i] # "panic"
=============================================================================
