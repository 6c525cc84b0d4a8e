--------------------------- MODULE ChannelsProofs ---------------------------
(***************************************************************************)
(* Every entry of the channel tables is served, for any nodes, streams and *)
(* messages, any size of the queues, and with nodes that leave and streams *)
(* that break at any time.                                                 *)
(*                                                                         *)
(* EntriesAreServed is not inductive: if Stop, a Send or a teardown could  *)
(* hold the object of a stream before Connect or the handler registers it, *)
(* the entry then made would be of an object that is closed already.       *)
(* Attachment adds that they hold objects that were registered only.       *)
(***************************************************************************)
EXTENDS Channels, TLAPS

(* Connect or the handler of s has registered its object at n, or has       *)
(* ended: only then can that object be torn down.                           *)
Attached(n, s) ==
    /\ ends[s] # NoEnds
    /\ \/ n = ends[s][1] /\ dialer[s] \in {"recv", "done"}
       \/ n = ends[s][2] /\ acceptor[s] \in {"recv", "done"}

(* The goroutines of a stream run between its two ends, and its handler is  *)
(* called by the dial only.                                                 *)
Phases(s) ==
    /\ dialer[s] = "none" <=> ends[s] = NoEnds
    /\ ends[s] = NoEnds => acceptor[s] = "none"
    /\ dialer[s] = "dialing" => acceptor[s] = "none" \/ stop[ends[s][2]] = "stopped"

(* Whoever holds an object -- a teardown, a queue, Stop, a Send -- got it   *)
(* when it was attached.                                                    *)
Attachment ==
    /\ \A s \in Stream : Phases(s)
    /\ \A n \in Node, s \in Stream : closed[n][s] \/ queue[n][s] # <<>> => Attached(n, s)
    /\ \A n \in Node : \A s \in snapshot[n] : Attached(n, s)
    /\ \A i \in Message : send[i] = "found" => found[i] \in Stream /\ Attached(From[i], found[i])

(* The inductive invariant.                                                 *)
ChannelInv == TypeOK /\ Attachment /\ EntriesAreServed

(* A stream that has ends has two different ones.                           *)
LEMMA TwoEnds ==
    ASSUME TypeOK, NEW s \in Stream, ends[s] # NoEnds
    PROVE  ends[s][1] \in Node /\ ends[s][2] \in Node /\ ends[s][1] # ends[s][2]
<1>1. ends[s] \in Node \X Node /\ ends[s][1] < ends[s][2]
  BY DEF TypeOK, Ends
<1>2. ends[s][1] \in Nat /\ ends[s][2] \in Nat
  BY <1>1, ChannelsAssumption, Zenon
<1> QED
  BY <1>1, <1>2

-----------------------------------------------------------------------------
(* What keeps the invariant.                                               *)

(* The streams that have ends keep them, and what is attached stays so.     *)
Onward ==
    \A s \in Stream : ends[s] # NoEnds =>
        /\ ends'[s] = ends[s]
        /\ dialer[s] \in {"recv", "done"} => dialer'[s] \in {"recv", "done"}
        /\ acceptor[s] \in {"recv", "done"} => acceptor'[s] \in {"recv", "done"}

(* Every entry was there and is served as before.                           *)
EntriesStay ==
    \A n, m \in Node, s \in Stream : peers'[n][m] = s =>
        /\ peers[n][m] = s
        /\ closed'[n][s] = closed[n][s]
        /\ Receiving(n, s) => Receiving(n, s)'

(* What is held after the step was attached before it.                      *)
HeldWasAttached ==
    /\ \A n \in Node, s \in Stream : closed'[n][s] \/ queue'[n][s] # <<>> => Attached(n, s)
    /\ \A n \in Node : \A s \in snapshot'[n] : s \in Stream /\ Attached(n, s)
    /\ \A i \in Message : send'[i] = "found"
          => found'[i] \in Stream /\ Attached(From[i], found'[i])

(* Objects that are attached stay attached to whoever holds them.           *)
LEMMA StaysAttached ==
    ASSUME Onward, HeldWasAttached, \A s \in Stream : Phases(s)'
    PROVE  Attachment'
<1>1. \A n \in Node, s \in Stream : Attached(n, s) => Attached(n, s)'
  BY Zenon DEF Attached, Onward
<1> QED
  BY <1>1, ChannelsAssumption, Zenon DEF Attachment, HeldWasAttached

(* A step that adds no entry keeps the invariant.                           *)
LEMMA Stays ==
    ASSUME ChannelInv, TypeOK', Onward, EntriesStay, HeldWasAttached,
           \A s \in Stream : Phases(s)'
    PROVE  ChannelInv'
<1>1. ASSUME NEW n \in Node, NEW m \in Node, NEW s \in Stream, peers'[n][m] = s
      PROVE  ends'[s] \in {<<n, m>>, <<m, n>>} /\ ~closed'[n][s] /\ Receiving(n, s)'
  <2>1. peers[n][m] = s
    BY <1>1 DEF EntriesStay
  <2>2. ends[s] \in {<<n, m>>, <<m, n>>} /\ ~closed[n][s] /\ Receiving(n, s)
    BY Zenon, <2>1 DEF ChannelInv, EntriesAreServed
  <2>3. ends'[s] = ends[s] /\ closed'[n][s] = closed[n][s] /\ Receiving(n, s)'
    BY <1>1, <2>2 DEF Onward, EntriesStay, Receiving
  <2> QED
    BY Zenon, <2>2, <2>3
<1> QED
  BY Zenon, <1>1, StaysAttached DEF ChannelInv, EntriesAreServed

(* A step that registers, removes and ends nothing keeps the invariant.     *)
LEMMA Quiet ==
    ASSUME ChannelInv, TypeOK', UNCHANGED <<peers, ends, dialer, acceptor, closed>>,
           \A n \in Node : stop[n] = "stopped" => stop'[n] = "stopped",
           HeldWasAttached
    PROVE  ChannelInv'
<1>1. ASSUME NEW s \in Stream
      PROVE  Phases(s)'
  <2>1. Phases(s) /\ (ends[s] # NoEnds => ends[s][2] \in Node)
    BY Zenon, <1>1, TwoEnds DEF ChannelInv, Attachment
  <2> QED
    BY Zenon, <2>1 DEF Phases
<1> QED
  BY Zenon, <1>1, Stays DEF Onward, EntriesStay, Receiving

(* What a teardown of the object of s at n leaves.                          *)
Removed(n, s) ==
    /\ \A x, y \in Node, t \in Stream : peers'[x][y] = t => peers[x][y] = t /\ (x = n => t # s)
    /\ \A x \in Node, t \in Stream : x # n \/ t # s => closed'[x][t] = closed[x][t]

(* The first teardown of the object of s at n.                              *)
Closing(n, s) ==
    /\ peers' = [peers EXCEPT ![n] = [m \in Node |-> IF @[m] = s THEN NoStream ELSE @[m]]]
    /\ closed' = [closed EXCEPT ![n][s] = TRUE]

(* The first teardown of an object removes its entry, and only that.        *)
LEMMA ClosingRemoves ==
    ASSUME ChannelInv, NEW n \in Node, NEW s \in Stream, Closing(n, s)
    PROVE  /\ peers' \in [Node -> [Node -> Stream \cup {NoStream}]]
           /\ closed' \in [Node -> [Stream -> BOOLEAN]]
           /\ Removed(n, s)
<1>1. /\ peers' \in [Node -> [Node -> Stream \cup {NoStream}]]
      /\ \A x, y \in Node : peers'[x][y] = IF x = n /\ peers[x][y] = s THEN NoStream ELSE peers[x][y]
  BY DEF Closing, ChannelInv, TypeOK
<1>2. /\ closed' \in [Node -> [Stream -> BOOLEAN]]
      /\ \A x \in Node, t \in Stream : x # n \/ t # s => closed'[x][t] = closed[x][t]
  BY Zenon DEF Closing, ChannelInv, TypeOK
<1>3. ASSUME NEW x \in Node, NEW y \in Node, NEW t \in Stream, peers'[x][y] = t
      PROVE  peers[x][y] = t /\ (x = n => t # s)
  BY <1>1, <1>3, ChannelsAssumption, ZenonT(60)
<1> QED
  BY Zenon, <1>1, <1>2, <1>3 DEF Removed

(* teardownPeer removes the entry, also when it is called again.            *)
LEMMA TeardownRemoves ==
    ASSUME ChannelInv, NEW n \in Node, NEW s \in Stream, Teardown(n, s)
    PROVE  /\ peers' \in [Node -> [Node -> Stream \cup {NoStream}]]
           /\ closed' \in [Node -> [Stream -> BOOLEAN]]
           /\ up' \in [Stream -> BOOLEAN]
           /\ Removed(n, s)
<1>1. CASE closed[n][s]
  <2>1. UNCHANGED <<peers, closed, up>>
    BY Zenon, <1>1 DEF Teardown
  <2>2. \A y \in Node : peers[n][y] # s
    BY Zenon, <1>1 DEF ChannelInv, EntriesAreServed
  <2> QED
    BY Zenon, <2>1, <2>2 DEF ChannelInv, TypeOK, Removed
<1>2. CASE ~closed[n][s]
  <2>1. up' = IF ends[s][1] = n THEN [up EXCEPT ![s] = FALSE] ELSE up
    BY Zenon, <1>2 DEF Teardown
  <2>2. up' \in [Stream -> BOOLEAN]
    BY <2>1, Zenon DEF ChannelInv, TypeOK
  <2> QED
    BY Zenon, <1>2, <2>2, ClosingRemoves DEF Teardown, Closing
<1> QED
  BY Zenon, <1>1, <1>2

(* A step that tears an object down while all goroutines but the one that   *)
(* served it stay where they are keeps the invariant.                       *)
LEMMA AfterTeardown ==
    ASSUME ChannelInv, TypeOK', NEW n \in Node, NEW s \in Stream, Removed(n, s), Attached(n, s),
           UNCHANGED <<ends, stop, send, found>>,
           \A t \in Stream : t # s => dialer'[t] = dialer[t] /\ acceptor'[t] = acceptor[t],
           dialer'[s] = dialer[s] \/ (n = ends[s][1] /\ dialer'[s] = "done"),
           acceptor'[s] = acceptor[s] \/ (n = ends[s][2] /\ acceptor'[s] = "done"),
           \A x \in Node, t \in Stream : queue'[x][t] \in {queue[x][t], <<>>},
           \A x \in Node : snapshot'[x] \subseteq snapshot[x]
    PROVE  ChannelInv'
<1>1. ends[s] # NoEnds /\ ends[s][1] # ends[s][2]
  BY Zenon, TwoEnds DEF Attached, ChannelInv
<1>2. \A x \in Node, t \in Stream : x # n \/ t # s => (Receiving(x, t) => Receiving(x, t)')
  BY <1>1 DEF Receiving
<1>3. Onward /\ EntriesStay
  BY <1>2 DEF Removed, Onward, EntriesStay
<1>4. \A t \in Stream : t # s => Phases(t)'
  BY DEF ChannelInv, Attachment, Phases
<1>5. Phases(s)'
  BY <1>1 DEF ChannelInv, Attachment, Attached, Phases
<1>6. \A x \in Node, t \in Stream : closed'[x][t] \/ queue'[x][t] # <<>> => Attached(x, t)
  BY DEF ChannelInv, Attachment, Removed
<1>7. HeldWasAttached
  BY Zenon, <1>6 DEF ChannelInv, Attachment, TypeOK, HeldWasAttached
<1> QED
  BY Zenon, <1>3, <1>4, <1>5, <1>7, Stays

(* An object that an entry points to is attached.                           *)
LEMMA EntryIsAttached ==
    ASSUME ChannelInv, NEW n \in Node, NEW m \in Node, NEW s \in Stream, peers[n][m] = s
    PROVE  Attached(n, s)
BY DEF ChannelInv, EntriesAreServed, Receiving, Attached

-----------------------------------------------------------------------------
(* The steps.                                                              *)

(* A panic ends everything its process ran.                                 *)
LEMMA PanicKeeps ==
    ASSUME ChannelInv, NEW i \in Message, SendPanics(i)
    PROVE  ChannelInv'
<1> DEFINE Mine(n, s, e) == ends[s] # NoEnds /\ ends[s][e] = n
<1>1. PICK n \in Node :
      /\ send' = [j \in Message |->
                    IF j = i THEN "panic"
                    ELSE IF From[j] = n /\ send[j] \in {"new", "found", "queued"}
                         THEN "error" ELSE send[j]]
      /\ peers' = [peers EXCEPT ![n] = [m \in Node |-> NoStream]]
      /\ dialer' = [s \in Stream |-> IF Mine(n, s, 1) THEN "done" ELSE dialer[s]]
      /\ acceptor' = [s \in Stream |-> IF Mine(n, s, 2) THEN "done" ELSE acceptor[s]]
      /\ up' = [s \in Stream |-> up[s] /\ ~Mine(n, s, 1) /\ ~Mine(n, s, 2)]
      /\ queue' = [queue EXCEPT ![n] = [s \in Stream |-> <<>>]]
      /\ stop' = [stop EXCEPT ![n] = "stopped"]
      /\ snapshot' = [snapshot EXCEPT ![n] = {}]
  BY ChannelsAssumption, Zenon DEF SendPanics
<1>2. UNCHANGED <<member, ends, closed, wire, found>>
  BY Zenon DEF SendPanics
<1>3. /\ send' \in [Message -> {"new", "found", "queued", "received", "error", "panic"}]
      /\ \A j \in Message : send'[j] = "found" => send[j] = "found"
  BY Zenon, <1>1 DEF ChannelInv, TypeOK
<1>4. /\ peers' \in [Node -> [Node -> Stream \cup {NoStream}]]
      /\ \A x, y \in Node : peers'[x][y] = IF x = n THEN NoStream ELSE peers[x][y]
  BY Zenon, <1>1 DEF ChannelInv, TypeOK
<1>5. /\ dialer' \in [Stream -> {"none", "dialing", "open", "recv", "done"}]
      /\ \A s \in Stream : dialer'[s] = IF Mine(n, s, 1) THEN "done" ELSE dialer[s]
      /\ acceptor' \in [Stream -> {"none", "called", "recv", "done"}]
      /\ \A s \in Stream : acceptor'[s] = IF Mine(n, s, 2) THEN "done" ELSE acceptor[s]
      /\ up' \in [Stream -> BOOLEAN]
  BY Zenon, <1>1 DEF ChannelInv, TypeOK
<1>6. /\ queue' \in [Node -> [Stream -> Seq(Message)]]
      /\ \A x \in Node, s \in Stream : queue'[x][s] \in {queue[x][s], <<>>}
  BY <1>1 DEF ChannelInv, TypeOK
<1>7. /\ stop' \in [Node -> {"running", "stopping", "draining", "stopped"}]
      /\ \A x \in Node : stop'[x] = IF x = n THEN "stopped" ELSE stop[x]
      /\ snapshot' \in [Node -> SUBSET Stream]
      /\ \A x \in Node : snapshot'[x] \subseteq snapshot[x]
  BY Zenon, <1>1 DEF ChannelInv, TypeOK
<1>8. TypeOK'
  BY <1>2, <1>3, <1>4, <1>5, <1>6, <1>7, Zenon DEF ChannelInv, TypeOK
<1>9. Onward
  BY <1>2, <1>5, Zenon DEF Onward
<1>10. EntriesStay
  BY <1>2, <1>4, <1>5, ChannelsAssumption DEF EntriesStay, Receiving
<1>11. HeldWasAttached
  <2>1. \A x \in Node, s \in Stream : closed'[x][s] \/ queue'[x][s] # <<>> => Attached(x, s)
    BY <1>2, <1>6, Zenon DEF ChannelInv, Attachment
  <2> QED
    BY Zenon, <1>2, <1>3, <1>7, <2>1 DEF ChannelInv, Attachment, TypeOK, HeldWasAttached
<1>12. ASSUME NEW s \in Stream
       PROVE  Phases(s)'
  <2>1. Phases(s) /\ (ends[s] # NoEnds => ends[s][2] \in Node)
    BY <1>12, TwoEnds, Zenon DEF ChannelInv, Attachment
  <2> QED
    BY Zenon, <1>2, <1>5, <1>7, <2>1 DEF Phases
<1> QED
  BY Zenon, <1>8, <1>9, <1>10, <1>11, <1>12, Stays

(* A member joins: EstablishForPeer may start a dial.                       *)
LEMMA JoinKeeps ==
    ASSUME ChannelInv, NEW n \in Node, NEW m \in Node, NotifyJoin(n, m)
    PROVE  ChannelInv'
<1>1. /\ member' = [member EXCEPT ![n] = @ \cup {m}] /\ EstablishForPeer(n, m)
      /\ UNCHANGED <<peers, acceptor, up, closed, queue, wire, send, found, stop, snapshot>>
  BY Zenon DEF NotifyJoin, outbound, stopping
<1>2. member' \in [Node -> SUBSET Node]
  BY Zenon, <1>1 DEF ChannelInv, TypeOK
<1>3. HeldWasAttached
  BY Zenon, <1>1 DEF ChannelInv, Attachment, TypeOK, HeldWasAttached
<1>4. CASE UNCHANGED <<ends, dialer>>
  <2>1. TypeOK'
    BY Zenon, <1>1, <1>2, <1>4 DEF ChannelInv, TypeOK
  <2> QED
    BY Zenon, <1>1, <1>3, <1>4, <2>1, Quiet
<1>5. CASE ~UNCHANGED <<ends, dialer>>
  <2>1. ~(n >= m) /\ n \in Nat /\ m \in Nat
    BY <1>1, <1>5, ChannelsAssumption, Zenon DEF EstablishForPeer
  <2>2. <<n, m>> \in Ends /\ <<n, m>> # NoEnds
    BY <2>1 DEF Ends, NoEnds
  <2>3. PICK s \in Stream : /\ dialer[s] = "none" /\ ends' = [ends EXCEPT ![s] = <<n, m>>]
                            /\ dialer' = [dialer EXCEPT ![s] = "dialing"]
    BY <1>1, <1>5, Zenon DEF EstablishForPeer
  <2>4. TypeOK'
    BY Zenon, <1>1, <1>2, <2>2, <2>3 DEF ChannelInv, TypeOK
  <2>5. /\ \A t \in Stream : t # s => ends'[t] = ends[t] /\ dialer'[t] = dialer[t]
        /\ ends'[s] = <<n, m>> /\ dialer'[s] = "dialing"
    BY Zenon, <2>3 DEF ChannelInv, TypeOK
  <2>6. ends[s] = NoEnds
    BY Zenon, <2>3 DEF ChannelInv, Attachment, Phases
  <2>7. \A t \in Stream : Phases(t)'
    BY <1>1, <2>2, <2>5, <2>6 DEF ChannelInv, Attachment, Phases
  <2>8. Onward /\ EntriesStay
    BY <1>1, <2>5, <2>6 DEF Onward, EntriesStay, Receiving
  <2> QED
    BY Zenon, <1>3, <2>4, <2>7, <2>8, Stays
<1> QED
  BY Zenon, <1>4, <1>5

(* A member leaves: Close tears its channel down.                           *)
LEMMA LeaveKeeps ==
    ASSUME ChannelInv, NEW n \in Node, NEW m \in Node, NotifyLeave(n, m)
    PROVE  ChannelInv'
<1>1. /\ member' = [member EXCEPT ![n] = @ \ {m}]
      /\ IF peers[n][m] = NoStream THEN UNCHANGED <<peers, closed, up>>
                                   ELSE Teardown(n, peers[n][m])
      /\ UNCHANGED <<ends, dialer, acceptor, queue, wire, send, found, stop, snapshot>>
  BY Zenon DEF NotifyLeave, outbound, stopping
<1>2. member' \in [Node -> SUBSET Node]
  BY Zenon, <1>1 DEF ChannelInv, TypeOK
<1>3. CASE peers[n][m] = NoStream
  <2>1. TypeOK' /\ HeldWasAttached
    BY <1>1, <1>2, <1>3 DEF ChannelInv, Attachment, TypeOK, HeldWasAttached
  <2> QED
    BY Zenon, <1>1, <1>3, <2>1, Quiet
<1>4. CASE peers[n][m] # NoStream
  <2>1. PICK s \in Stream : s = peers[n][m]
    BY <1>4 DEF ChannelInv, TypeOK
  <2>2. Teardown(n, s) /\ Attached(n, s)
    BY Zenon, <1>1, <1>4, <2>1, EntryIsAttached
  <2>3. TypeOK' /\ Removed(n, s)
    BY <1>1, <1>2, <2>2, TeardownRemoves, Zenon DEF ChannelInv, TypeOK
  <2> QED
    BY Zenon, <1>1, <2>2, <2>3, AfterTeardown
<1> QED
  BY Zenon, <1>3, <1>4

(* Connect dials, and connections break.                                    *)
LEMMA DialKeeps ==
    ASSUME ChannelInv, NEW s \in Stream, OpenStream(s) \/ DialFails(s) \/ Break(s)
    PROVE  ChannelInv'
<1>1. UNCHANGED <<member, peers, ends, closed, queue, wire, send, found, stop, snapshot>>
  BY Zenon DEF OpenStream, DialFails, Break, outbound, stopping
<1>2. \/ /\ dialer[s] = "dialing" /\ dialer' = [dialer EXCEPT ![s] = "open"]
         /\ acceptor' = [acceptor EXCEPT ![s] = "called"]
         /\ up' = [up EXCEPT ![s] = TRUE]
         /\ stop[ends[s][2]] # "stopped"
      \/ /\ dialer[s] = "dialing" /\ dialer' = [dialer EXCEPT ![s] = "done"]
         /\ UNCHANGED <<acceptor, up>>
      \/ up' = [up EXCEPT ![s] = FALSE] /\ UNCHANGED <<dialer, acceptor>>
  BY Zenon DEF OpenStream, DialFails, Break
<1>3. /\ dialer \in [Stream -> {"none", "dialing", "open", "recv", "done"}]
      /\ acceptor \in [Stream -> {"none", "called", "recv", "done"}]
      /\ up \in [Stream -> BOOLEAN]
  BY Zenon DEF ChannelInv, TypeOK
<1>4. /\ dialer' \in [Stream -> {"none", "dialing", "open", "recv", "done"}]
      /\ acceptor' \in [Stream -> {"none", "called", "recv", "done"}]
      /\ up' \in [Stream -> BOOLEAN]
  BY <1>2, <1>3, Zenon
<1>5. TypeOK'
  BY Zenon, <1>1, <1>4 DEF ChannelInv, TypeOK
<1>6. HeldWasAttached
  BY Zenon, <1>1 DEF ChannelInv, Attachment, TypeOK, HeldWasAttached
<1>7. /\ \A t \in Stream : t # s => dialer'[t] = dialer[t] /\ acceptor'[t] = acceptor[t]
      /\ \/ /\ dialer[s] = "dialing" /\ acceptor[s] = "none"
            /\ dialer'[s] = "open" /\ acceptor'[s] = "called"
         \/ dialer[s] = "dialing" /\ dialer'[s] = "done" /\ acceptor'[s] = acceptor[s]
         \/ dialer'[s] = dialer[s] /\ acceptor'[s] = acceptor[s]
  BY <1>2, <1>3 DEF ChannelInv, Attachment, Phases
<1>8. \A t \in Stream : Phases(t)'
  BY <1>1, <1>7 DEF ChannelInv, Attachment, Phases
<1>9. Onward /\ EntriesStay
  BY <1>1, <1>7 DEF Onward, EntriesStay, Receiving
<1> QED
  BY Zenon, <1>5, <1>6, <1>8, <1>9, Stays

(* Connect or the handler registers its object, or gives the stream up.     *)
LEMMA RegisterKeeps ==
    ASSUME ChannelInv, NEW s \in Stream, ConnectRegisters(s) \/ StreamRegisters(s)
    PROVE  ChannelInv'
<1>1. ends[s] # NoEnds /\ ends[s] \in Node \X Node
  <2>1. ends[s] # NoEnds
    BY Zenon DEF ConnectRegisters, StreamRegisters, ChannelInv, Attachment, Phases
  <2> QED
    BY <2>1 DEF ChannelInv, TypeOK, Ends
<1>2. PICK d \in BOOLEAN : d <=> ConnectRegisters(s)
  BY Zenon
<1>3. PICK n, m \in Node : /\ n # m
                           /\ IF d THEN n = ends[s][1] /\ m = ends[s][2]
                                   ELSE n = ends[s][2] /\ m = ends[s][1]
  BY Zenon, <1>1, TwoEnds DEF ChannelInv
<1>4. UNCHANGED <<member, ends, closed, queue, wire, send, found, stop, snapshot>>
  BY Zenon DEF ConnectRegisters, StreamRegisters, outbound, stopping
<1>5. /\ IF d THEN dialer[s] = "open" /\ UNCHANGED acceptor
              ELSE acceptor[s] = "called" /\ UNCHANGED dialer
      /\ \/ /\ peers[n][m] = NoStream /\ peers' = [peers EXCEPT ![n][m] = s] /\ UNCHANGED up
            /\ IF d THEN dialer' = [dialer EXCEPT ![s] = "recv"]
                    ELSE acceptor' = [acceptor EXCEPT ![s] = "recv"]
         \/ /\ UNCHANGED peers /\ up' = [up EXCEPT ![s] = FALSE]
            /\ IF d THEN dialer' = [dialer EXCEPT ![s] = "done"]
                    ELSE acceptor' = [acceptor EXCEPT ![s] = "done"]
  BY Zenon, <1>2, <1>3 DEF ConnectRegisters, StreamRegisters, CanRegister, Register
<1>6. TypeOK'
  <2>1. /\ dialer \in [Stream -> {"none", "dialing", "open", "recv", "done"}]
        /\ acceptor \in [Stream -> {"none", "called", "recv", "done"}]
        /\ up \in [Stream -> BOOLEAN]
        /\ peers \in [Node -> [Node -> Stream \cup {NoStream}]]
    BY Zenon DEF ChannelInv, TypeOK
  <2>2. dialer' \in [Stream -> {"none", "dialing", "open", "recv", "done"}]
    BY SMTT(60), <1>5, <2>1
  <2>3. acceptor' \in [Stream -> {"none", "called", "recv", "done"}]
    BY Zenon, <1>5, <2>1
  <2>4. up' \in [Stream -> BOOLEAN]
    BY <1>5, <2>1, Zenon
  <2>5. [peers EXCEPT ![n][m] = s] \in [Node -> [Node -> Stream \cup {NoStream}]]
    BY Zenon, <2>1
  <2>6. peers' \in [Node -> [Node -> Stream \cup {NoStream}]]
    BY <1>5, <2>1, <2>5, Zenon
  <2> QED
    BY Zenon, <1>4, <2>2, <2>3, <2>4, <2>6 DEF ChannelInv, TypeOK
<1>7. ~Attached(n, s) /\ ~Receiving(n, s)
  BY <1>3, <1>5 DEF Attached, Receiving
<1>8. /\ \A t \in Stream : t # s => dialer'[t] = dialer[t] /\ acceptor'[t] = acceptor[t]
      /\ IF d THEN dialer'[s] \in {"recv", "done"} /\ acceptor'[s] = acceptor[s]
              ELSE acceptor'[s] \in {"recv", "done"} /\ dialer'[s] = dialer[s]
  BY <1>5 DEF ChannelInv, TypeOK
<1>9. \A t \in Stream : Phases(t)'
  BY <1>1, <1>4, <1>5, <1>8 DEF ChannelInv, Attachment, Phases
<1>10. Onward /\ HeldWasAttached
  BY Zenon, <1>4, <1>8 DEF Onward, ChannelInv, Attachment, TypeOK, HeldWasAttached
<1>11. ASSUME NEW x \in Node, NEW y \in Node, NEW t \in Stream, peers'[x][y] = t
       PROVE  ends'[t] \in {<<x, y>>, <<y, x>>} /\ ~closed'[x][t] /\ Receiving(x, t)'
  <2>1. CASE peers[x][y] = t
    <3>1. ends[t] \in {<<x, y>>, <<y, x>>} /\ ~closed[x][t] /\ Receiving(x, t)
      BY Zenon, <2>1 DEF ChannelInv, EntriesAreServed
    <3>2. x # n \/ t # s
      BY Zenon, <1>7, <3>1
    <3>3. Receiving(x, t)'
      BY Zenon, <1>3, <1>4, <1>8, <3>1, <3>2 DEF Receiving
    <3> QED
      BY Zenon, <1>4, <3>1, <3>3
  <2>2. CASE peers[x][y] # t
    <3>1. x = n /\ y = m /\ t = s /\ (IF d THEN dialer'[s] = "recv" ELSE acceptor'[s] = "recv")
      <4>1. peers' = [peers EXCEPT ![n][m] = s]
        BY Zenon, <1>5, <1>11, <2>2
      <4>2. x = n /\ y = m /\ t = s
        BY Zenon, <1>11, <2>2, <4>1 DEF ChannelInv, TypeOK
      <4> QED
        BY <1>5, <2>2, <4>2, <1>11 DEF ChannelInv, TypeOK
    <3>2. ends'[s] \in {<<n, m>>, <<m, n>>}
      BY <1>1, <1>3, <1>4
    <3>3. ~closed'[n][s] /\ Receiving(n, s)'
      BY Zenon, <1>1, <1>3, <1>4, <1>7, <3>1 DEF ChannelInv, Attachment, Receiving
    <3> QED
      BY Zenon, <3>1, <3>2, <3>3
  <2> QED
    BY Zenon, <2>1, <2>2
<1> QED
  BY <1>6, <1>9, <1>10, <1>11, StaysAttached DEF ChannelInv, EntriesAreServed

(* The receive loop of the dialler ends.                                    *)
LEMMA DialerRecvEndsKeeps ==
    ASSUME ChannelInv, NEW s \in Stream, DialerRecvEnds(s)
    PROVE  ChannelInv'
<1>1. /\ dialer[s] = "recv" /\ dialer' = [dialer EXCEPT ![s] = "done"]
      /\ wire' = [wire EXCEPT ![ends[s][2]][s] = <<>>] /\ Teardown(ends[s][1], s)
      /\ UNCHANGED <<member, ends, acceptor, queue, send, found, stop, snapshot>>
  BY Zenon DEF DialerRecvEnds, stopping
<1>2. PICK n \in Node : n = ends[s][1] /\ ends[s][2] \in Node /\ Attached(n, s)
  BY Zenon, <1>1, TwoEnds DEF Attached, ChannelInv, Attachment, Phases
<1>3. /\ dialer' \in [Stream -> {"none", "dialing", "open", "recv", "done"}]
      /\ dialer'[s] = "done" /\ \A t \in Stream : t # s => dialer'[t] = dialer[t]
  BY Zenon, <1>1 DEF ChannelInv, TypeOK
<1>4. wire' \in [Node -> [Stream -> Seq(Message)]]
  BY <1>1, <1>2 DEF ChannelInv, TypeOK
<1>5. TypeOK' /\ Removed(n, s)
  BY Zenon, <1>1, <1>2, <1>3, <1>4, TeardownRemoves DEF ChannelInv, TypeOK
<1> QED
  BY Zenon, <1>1, <1>2, <1>3, <1>5, AfterTeardown

(* The handler returns, and the stream ends with it.                        *)
LEMMA StreamReturnsKeeps ==
    ASSUME ChannelInv, NEW s \in Stream, StreamReturns(s)
    PROVE  ChannelInv'
<1>1. /\ acceptor[s] = "recv" /\ acceptor' = [acceptor EXCEPT ![s] = "done"]
      /\ up' = [up EXCEPT ![s] = FALSE] /\ wire' = [wire EXCEPT ![ends[s][1]][s] = <<>>]
      /\ closed' = [closed EXCEPT ![ends[s][2]][s] = TRUE]
      /\ peers' = [peers EXCEPT ![ends[s][2]] = [m \in Node |-> IF @[m] = s THEN NoStream ELSE @[m]]]
      /\ UNCHANGED <<member, ends, dialer, queue, send, found, stop, snapshot>>
  BY Zenon DEF StreamReturns, stopping
<1>2. PICK n \in Node : n = ends[s][2] /\ ends[s][1] \in Node /\ Attached(n, s)
  BY Zenon, <1>1, TwoEnds DEF Attached, ChannelInv, Attachment, Phases
<1>3. /\ acceptor' \in [Stream -> {"none", "called", "recv", "done"}] /\ up' \in [Stream -> BOOLEAN]
      /\ acceptor'[s] = "done" /\ \A t \in Stream : t # s => acceptor'[t] = acceptor[t]
  BY Zenon, <1>1 DEF ChannelInv, TypeOK
<1>4. wire' \in [Node -> [Stream -> Seq(Message)]]
  BY <1>1, <1>2 DEF ChannelInv, TypeOK
<1>5. /\ peers' \in [Node -> [Node -> Stream \cup {NoStream}]]
      /\ closed' \in [Node -> [Stream -> BOOLEAN]] /\ Removed(n, s)
  BY <1>1, <1>2, ClosingRemoves, ZenonT(60) DEF Closing
<1>6. TypeOK'
  BY Zenon, <1>1, <1>3, <1>4, <1>5 DEF ChannelInv, TypeOK
<1> QED
  BY Zenon, <1>1, <1>2, <1>3, <1>5, <1>6, AfterTeardown

(* A write fails.                                                           *)
LEMMA WriteFailsKeeps ==
    ASSUME ChannelInv, NEW n \in Node, NEW s \in Stream, WriteLoop(n, s), ~up[s]
    PROVE  ChannelInv'
<1>1. /\ queue' = [queue EXCEPT ![n][s] = <<>>] /\ Teardown(n, s)
      /\ UNCHANGED <<member, ends, dialer, acceptor, wire, send, found, stop, snapshot>>
  BY Zenon DEF WriteLoop, stopping
<1>2. Attached(n, s)
  BY Zenon DEF WriteLoop, ChannelInv, Attachment
<1>3. /\ queue' \in [Node -> [Stream -> Seq(Message)]]
      /\ \A x \in Node, t \in Stream : queue'[x][t] \in {queue[x][t], <<>>}
  BY <1>1 DEF ChannelInv, TypeOK
<1>4. TypeOK' /\ Removed(n, s)
  BY <1>1, <1>3, TeardownRemoves, Zenon DEF ChannelInv, TypeOK
<1> QED
  BY Zenon, <1>1, <1>2, <1>3, <1>4, AfterTeardown

(* Stop closes a channel that it found.                                     *)
LEMMA StopTearsDownKeeps ==
    ASSUME ChannelInv, NEW n \in Node, NEW s \in Stream, StopTearsDown(n, s)
    PROVE  ChannelInv'
<1>1. /\ snapshot' = [snapshot EXCEPT ![n] = @ \ {s}] /\ Teardown(n, s)
      /\ UNCHANGED <<member, ends, dialer, acceptor, queue, wire, send, found, stop>>
  BY Zenon DEF StopTearsDown, outbound
<1>2. Attached(n, s)
  BY Zenon DEF StopTearsDown, ChannelInv, Attachment
<1>3. /\ snapshot' \in [Node -> SUBSET Stream]
      /\ \A x \in Node : snapshot'[x] \subseteq snapshot[x]
  BY Zenon, <1>1 DEF ChannelInv, TypeOK
<1>4. TypeOK' /\ Removed(n, s)
  BY <1>1, <1>3, TeardownRemoves, Zenon DEF ChannelInv, TypeOK
<1> QED
  BY Zenon, <1>1, <1>2, <1>3, <1>4, AfterTeardown

(* The receive loop dispatches a message.                                   *)
LEMMA ReceiveKeeps ==
    ASSUME ChannelInv, NEW n \in Node, NEW s \in Stream, Receive(n, s)
    PROVE  ChannelInv'
<1>1. PICK m \in Node :
         /\ wire[m][s] # <<>>
         /\ wire' = [wire EXCEPT ![m][s] = Tail(@)]
         /\ send' = [send EXCEPT ![Head(wire[m][s])] = "received"]
  BY TwoEnds, Zenon DEF Receive, ChannelInv, Receiving, Other
<1>2. UNCHANGED <<member, peers, ends, dialer, acceptor, up, closed, queue, found, stop, snapshot>>
  BY Zenon DEF Receive, transport, stopping
<1>3. wire[m][s] \in Seq(Message)
  BY DEF ChannelInv, TypeOK
<1>4. Head(wire[m][s]) \in Message /\ Tail(wire[m][s]) \in Seq(Message)
  BY <1>1, <1>3
<1>5. wire' \in [Node -> [Stream -> Seq(Message)]]
  BY Zenon, <1>1, <1>4 DEF ChannelInv, TypeOK
<1>6. /\ send' \in [Message -> {"new", "found", "queued", "received", "error", "panic"}]
      /\ \A i \in Message : send'[i] \in {send[i], "received"}
  BY Zenon, <1>1, <1>4 DEF ChannelInv, TypeOK
<1>7. TypeOK' /\ HeldWasAttached
  BY Zenon, <1>2, <1>5, <1>6 DEF ChannelInv, Attachment, TypeOK, HeldWasAttached
<1> QED
  BY Zenon, <1>2, <1>7, Quiet

(* writeLoop sends a message.                                               *)
LEMMA WriteKeeps ==
    ASSUME ChannelInv, NEW n \in Node, NEW s \in Stream, WriteLoop(n, s), up[s]
    PROVE  ChannelInv'
<1>1. /\ queue[n][s] # <<>>
      /\ queue' = [queue EXCEPT ![n][s] = Tail(@)]
      /\ wire' = [wire EXCEPT ![n][s] = Append(@, Head(queue[n][s]))]
      /\ UNCHANGED <<member, peers, ends, dialer, acceptor, up, closed, send, found, stop, snapshot>>
  BY Zenon DEF WriteLoop, stopping
<1>2. queue[n][s] \in Seq(Message) /\ wire[n][s] \in Seq(Message)
  BY DEF ChannelInv, TypeOK
<1>3. Tail(queue[n][s]) \in Seq(Message) /\ Append(wire[n][s], Head(queue[n][s])) \in Seq(Message)
  BY <1>1, <1>2
<1>4. wire' \in [Node -> [Stream -> Seq(Message)]]
  BY Zenon, <1>1, <1>3 DEF ChannelInv, TypeOK
<1>5. /\ queue' \in [Node -> [Stream -> Seq(Message)]]
      /\ \A x \in Node, t \in Stream : x # n \/ t # s => queue'[x][t] = queue[x][t]
  BY Zenon, <1>1, <1>3 DEF ChannelInv, TypeOK
<1>6. TypeOK'
  BY Zenon, <1>1, <1>4, <1>5 DEF ChannelInv, TypeOK
<1>7. HeldWasAttached
  BY <1>1, <1>5 DEF ChannelInv, Attachment, TypeOK, HeldWasAttached
<1> QED
  BY Zenon, <1>1, <1>6, <1>7, Quiet

(* Send looks the channel up.                                               *)
LEMMA LookupKeeps ==
    ASSUME ChannelInv, NEW i \in Message, SendLookup(i)
    PROVE  ChannelInv'
<1>1. From[i] \in Node /\ To[i] \in Node
  BY ChannelsAssumption, Zenon
<1>2. PICK s \in Stream \cup {NoStream} : s = peers[From[i]][To[i]]
  BY <1>1 DEF ChannelInv, TypeOK
<1>3. /\ send' = [send EXCEPT ![i] = IF s = NoStream THEN "error" ELSE "found"]
      /\ found' = [found EXCEPT ![i] = s]
      /\ UNCHANGED <<member, peers, ends, dialer, acceptor, up, closed, queue, wire, stop, snapshot>>
  BY <1>2, Zenon DEF SendLookup, transport, stopping
<1>4. s \in Stream => Attached(From[i], s)
  BY <1>1, <1>2, EntryIsAttached, Zenon
<1>5. /\ send' \in [Message -> {"new", "found", "queued", "received", "error", "panic"}]
      /\ found' \in [Message -> Stream \cup {NoStream}]
      /\ \A j \in Message : j # i => send'[j] = send[j] /\ found'[j] = found[j]
      /\ send'[i] = "found" => s \in Stream
      /\ found'[i] = s
  BY Zenon, <1>3 DEF ChannelInv, TypeOK
<1>6. TypeOK'
  BY Zenon, <1>3, <1>5 DEF ChannelInv, TypeOK
<1>7. \A j \in Message : send'[j] = "found" => found'[j] \in Stream /\ Attached(From[j], found'[j])
  BY Zenon, <1>4, <1>5 DEF ChannelInv, Attachment
<1>8. HeldWasAttached
  BY Zenon, <1>3, <1>7 DEF ChannelInv, Attachment, TypeOK, HeldWasAttached
<1> QED
  BY Zenon, <1>3, <1>6, <1>8, Quiet

(* Send queues its message, or finds the buffer full.                       *)
LEMMA QueueKeeps ==
    ASSUME ChannelInv, NEW i \in Message, SendQueue(i)
    PROVE  ChannelInv'
<1>1. PICK n \in Node, s \in Stream :
         /\ Attached(n, s)
         /\ queue' = queue \/ queue' = [queue EXCEPT ![n][s] = Append(@, i)]
  BY ChannelsAssumption, Zenon DEF SendQueue, ChannelInv, Attachment
<1>2. /\ send' = [send EXCEPT ![i] = "queued"] \/ send' = [send EXCEPT ![i] = "error"]
      /\ UNCHANGED <<member, peers, ends, dialer, acceptor, up, closed, wire, found, stop, snapshot>>
  BY Zenon DEF SendQueue, transport, stopping
<1>3. Append(queue[n][s], i) \in Seq(Message)
  BY DEF ChannelInv, TypeOK
<1>4. /\ queue' \in [Node -> [Stream -> Seq(Message)]]
      /\ \A x \in Node, t \in Stream : x # n \/ t # s => queue'[x][t] = queue[x][t]
  <2>1. CASE queue' = queue
    BY Zenon, <2>1 DEF ChannelInv, TypeOK
  <2>2. CASE queue' = [queue EXCEPT ![n][s] = Append(@, i)]
    BY Zenon, <1>3, <2>2 DEF ChannelInv, TypeOK
  <2> QED
    BY <1>1, <2>1, <2>2, Zenon
<1>5. /\ send' \in [Message -> {"new", "found", "queued", "received", "error", "panic"}]
      /\ \A j \in Message : send'[j] = "found" => send[j] = "found"
  BY <1>2, Zenon DEF ChannelInv, TypeOK
<1>6. TypeOK'
  BY Zenon, <1>2, <1>4, <1>5 DEF ChannelInv, TypeOK
<1>7. \A x \in Node, t \in Stream : queue'[x][t] # <<>> => Attached(x, t)
  BY <1>1, <1>4, Zenon DEF ChannelInv, Attachment
<1>8. HeldWasAttached
  BY Zenon, <1>2, <1>5, <1>7 DEF ChannelInv, Attachment, TypeOK, HeldWasAttached
<1> QED
  BY Zenon, <1>2, <1>6, <1>8, Quiet

(* Stop: it takes its snapshot, refuses calls, and returns.                 *)
LEMMA StopKeeps ==
    ASSUME ChannelInv, NEW n \in Node, StopBegins(n) \/ StopServer(n) \/ StopReturns(n)
    PROVE  ChannelInv'
<1>1. PICK v \in {"stopping", "draining", "stopped"} :
         stop[n] # "stopped" /\ stop' = [stop EXCEPT ![n] = v]
  BY Zenon DEF StopBegins, StopServer, StopReturns
<1>2. PICK held \in {snapshot[n], {peers[n][m] : m \in Node} \ {NoStream}} :
         snapshot' = [snapshot EXCEPT ![n] = held]
  <2>1. StopBegins(n) => snapshot' = [snapshot EXCEPT ![n] = {peers[n][m] : m \in Node} \ {NoStream}]
    BY Zenon DEF StopBegins
  <2>2. ~StopBegins(n) => snapshot' = [snapshot EXCEPT ![n] = snapshot[n]]
    BY DEF StopServer, StopReturns, ChannelInv, TypeOK
  <2> QED
    BY Zenon, <2>1, <2>2
<1>3. UNCHANGED <<member, peers, ends, dialer, acceptor, up, closed, queue, wire, send, found>>
  BY Zenon DEF StopBegins, StopServer, StopReturns, transport, outbound
<1>4. held \in SUBSET Stream
  BY <1>2 DEF ChannelInv, TypeOK
<1>5. \A s \in held : Attached(n, s)
  BY Zenon, <1>2, <1>4, EntryIsAttached DEF ChannelInv, Attachment
<1>6. /\ stop' \in [Node -> {"running", "stopping", "draining", "stopped"}]
      /\ \A x \in Node : stop[x] = "stopped" => stop'[x] = "stopped"
  BY Zenon, <1>1 DEF ChannelInv, TypeOK
<1>7. /\ snapshot' \in [Node -> SUBSET Stream]
      /\ snapshot'[n] = held /\ \A x \in Node : x # n => snapshot'[x] = snapshot[x]
  BY Zenon, <1>2, <1>4 DEF ChannelInv, TypeOK
<1>8. TypeOK'
  BY Zenon, <1>3, <1>6, <1>7 DEF ChannelInv, TypeOK
<1>9. HeldWasAttached
  BY <1>3, <1>4, <1>5, <1>7, Zenon DEF ChannelInv, Attachment, TypeOK, HeldWasAttached
<1> QED
  BY Zenon, <1>3, <1>6, <1>8, <1>9, Quiet

-----------------------------------------------------------------------------
(* Every step keeps the invariant.                                          *)
LEMMA ChannelInvInductive ==
    ASSUME ChannelInv, [Next]_vars
    PROVE  ChannelInv'
<1>1. CASE \E n, m \in Node : NotifyJoin(n, m) \/ NotifyLeave(n, m)
  BY <1>1, JoinKeeps, LeaveKeeps, Zenon
<1>2. CASE \E s \in Stream : StreamStep(s) \/ Break(s)
  BY <1>2, DialKeeps, RegisterKeeps, DialerRecvEndsKeeps, StreamReturnsKeeps, Zenon DEF StreamStep
<1>3. CASE \E n \in Node, s \in Stream : Receive(n, s) \/ WriteLoop(n, s) \/ StopTearsDown(n, s)
  BY <1>3, ReceiveKeeps, WriteKeeps, WriteFailsKeeps, StopTearsDownKeeps, Zenon
<1>4. CASE \E i \in Message : SendLookup(i) \/ SendQueue(i) \/ SendPanics(i)
  BY <1>4, LookupKeeps, QueueKeeps, PanicKeeps, Zenon
<1>5. CASE \E n \in Node : StopBegins(n) \/ StopServer(n) \/ StopReturns(n)
  BY <1>5, StopKeeps, Zenon
<1>6. CASE UNCHANGED vars
  <2>1. TypeOK' /\ HeldWasAttached
    BY Zenon, <1>6 DEF ChannelInv, Attachment, TypeOK, HeldWasAttached, vars
  <2> QED
    BY Zenon, <1>6, <2>1, Quiet DEF vars
<1> QED
  BY <1>1, <1>2, <1>3, <1>4, <1>5, <1>6, Zenon DEF Next

(* ChannelInv holds at the start and therefore always.                      *)
LEMMA ChannelInvThroughout == Spec => []ChannelInv
<1>1. Init => ChannelInv
  <2> SUFFICES ASSUME Init PROVE ChannelInv
    BY Zenon
  <2>1. TypeOK
    BY DEF Init, TypeOK
  <2>2. Attachment
    BY Zenon DEF Init, Attachment, Phases
  <2>3. EntriesAreServed
    BY Zenon, ChannelsAssumption DEF Init, EntriesAreServed
  <2> QED
    BY Zenon, <2>1, <2>2, <2>3 DEF ChannelInv
<1> QED
  BY <1>1, ChannelInvInductive, PTL DEF Spec

(* The channel manager's state keeps its shape, for any number of nodes,    *)
(* dials and messages and any buffer.                                       *)
THEOREM ChannelsAreTyped == Spec => []TypeOK
<1>1. ChannelInv => TypeOK
  BY Zenon DEF ChannelInv
<1> QED
  BY <1>1, ChannelInvThroughout, PTL

(* An entry of cm.peers is an object between the two nodes that is not torn *)
(* down and whose receive loop runs, whatever order registerPeer,           *)
(* teardownPeer, Stop and a panic come in.                                  *)
THEOREM EntriesServed == Spec => []EntriesAreServed
<1>1. ChannelInv => EntriesAreServed
  BY Zenon DEF ChannelInv
<1> QED
  BY <1>1, ChannelInvThroughout, PTL
=============================================================================
