----------------------------- MODULE HttpProofs -----------------------------
(***************************************************************************)
(* The two HTTP servers of a node.                                         *)
(*                                                                         *)
(* The internal API (Admin), for any nodes, nonces, callers, sessions and  *)
(* validity periods, with any number of restarts.  Digest calls and        *)
(* browser sessions share nothing but the clock and the restarts, and have *)
(* an inductive invariant each.                                            *)
(*                                                                         *)
(* The embedded proxy (Gateway): what is served is counted, for every      *)
(* configuration of hosts, issuers and upstreams and every number of       *)
(* requests.  How it spreads them is in LimiterProofs.                     *)
(***************************************************************************)
EXTENDS Internal, Proxying, TLAPS

(* What the code keeps about Digest nonces: a nonce is in the store of at   *)
(* most one node, the one that issued it, and a call in progress is at that *)
(* node; a spent nonce is in no store, so a later call with it fails.       *)
Call == [at : {"valid"}, node : Server, nonce : Nonce, right : BOOLEAN, late : BOOLEAN]

NonceTypes ==
    /\ clock \in Nat /\ challenged \in [Server -> Nat]
    /\ store \in [Server -> [Nonce -> Nat \cup {Absent}]]
    /\ minted \subseteq Nonce /\ spent \subseteq minted
    /\ call \in [Caller -> Call \cup {A!Idle}] /\ replayed \in BOOLEAN

NonceInv ==
    /\ NonceTypes
    /\ \A n \in Server, x \in Nonce : store[n][x] # Absent => x \in minted \ spent
    /\ \A n, m \in Server, x \in Nonce : store[n][x] # Absent /\ store[m][x] # Absent => n = m
    /\ \A c \in Caller : call[c] # A!Idle =>
          /\ call[c].nonce \in minted /\ ~call[c].late
          /\ \A n \in Server : store[n][call[c].nonce] # Absent => n = call[c].node
    /\ SpentIsSpent
    /\ StoreIsBounded

(* What the code keeps about the dashboard: the key of a session is on the  *)
(* node that created it, which is the home of the browser that has the      *)
(* session, so that a peer asked through the home does not have it.         *)
Fetch == [at : {"peer", "wrap", "read"}, target : Server, status : {200, 401, 502},
          layers : Seq(Session)]

SessionInv ==
    /\ clock \in Nat
    /\ sessions \in [Server -> SUBSET Session]
    /\ expiry \in [Session -> Nat \cup {Absent}]
    /\ cookie \in [session : Session, home : Server] \cup {Absent}
    /\ fetch \in Fetch \cup {A!Idle}
    /\ fetch # A!Idle => cookie \in [session : Session, home : Server]
    /\ \A n \in Server : \A s \in sessions[n] : expiry[s] # Absent
    /\ cookie \in [session : Session, home : Server] =>
          /\ addresses \subseteq Server \ {cookie.home}
          /\ \A n \in Server : cookie.session \in sessions[n] => n = cookie.home
    /\ fetch.at = "peer" => fetch.target # cookie.home
    /\ fetch.at \in {"peer", "wrap"} => fetch.layers = <<>>
    /\ ReadableReply

-----------------------------------------------------------------------------
(* A challenge issues a nonce that no node has and keeps in the store of    *)
(* its node only what is young enough; calls in progress may end with it.   *)
LEMMA ChallengeInv ==
    ASSUME NonceInv, NEW n \in Server, A!sendChallenge(n), UNCHANGED <<clock, spent, replayed>>,
           call' \in [Caller -> Call \cup {A!Idle}],
           \A c \in Caller : call'[c] \in {call[c], A!Idle}
    PROVE  NonceInv'
<1>1. PICK x \in Nonce \ minted :
        /\ minted' = minted \cup {x}
        /\ challenged' = [challenged EXCEPT ![n] = clock]
        /\ store' = [store EXCEPT ![n] =
              [y \in Nonce |-> IF y = x THEN clock
                               ELSE IF @[y] # Absent /\ clock - @[y] > NonceLife THEN Absent
                               ELSE @[y]]]
  BY Zenon DEF A!sendChallenge
<1>2. \A m \in Server, y \in Nonce :
        store'[m][y] = IF m = n /\ y = x THEN clock
                       ELSE IF m = n /\ store[n][y] # Absent /\ clock - store[n][y] > NonceLife
                       THEN Absent ELSE store[m][y]
  BY Zenon, <1>1 DEF NonceInv, NonceTypes
<1>3. NonceTypes'
  BY <1>1 DEF NonceInv, NonceTypes
<1>4. \A m \in Server : store[m][x] = Absent
  BY Zenon, <1>1 DEF NonceInv
<1>5. \A m \in Server, y \in Nonce : store'[m][y] # Absent => y \in minted' \ spent'
  BY <1>1, <1>2, <1>4 DEF NonceInv, NonceTypes
<1>6. \A l, m \in Server, y \in Nonce : store'[l][y] # Absent /\ store'[m][y] # Absent => l = m
  BY <1>2, <1>4 DEF NonceInv
<1>7. ASSUME NEW c \in Caller, call'[c] # A!Idle
      PROVE  /\ call'[c].nonce \in minted' /\ ~call'[c].late
             /\ \A m \in Server : store'[m][call'[c].nonce] # Absent => m = call'[c].node
  <2>1. call'[c] = call[c] /\ call[c].nonce \in minted /\ call[c].nonce # x /\ call[c].nonce \in Nonce
    BY <1>1, <1>7 DEF NonceInv, NonceTypes
  <2> QED
    BY <1>1, <1>2, <1>7, <2>1 DEF NonceInv
<1>8. SpentIsSpent'
  BY Zenon DEF NonceInv, SpentIsSpent, A!SpentIsSpent
<1>9. StoreIsBounded'
  <2> SUFFICES ASSUME NEW m \in Server, NEW y \in Nonce, store'[m][y] # Absent
               PROVE  challenged'[m] - store'[m][y] <= NonceLife
    BY Zenon DEF StoreIsBounded, A!StoreIsBounded
  <2>1. CASE m = n
    <3>1. challenged'[m] = clock
      BY Zenon, <1>1, <2>1 DEF NonceInv, NonceTypes
    <3> QED
      BY <1>2, <2>1, <3>1, AdminAssumption DEF NonceInv, NonceTypes
  <2>2. CASE m # n
    BY <1>1, <1>2, <2>2 DEF NonceInv, NonceTypes, StoreIsBounded, A!StoreIsBounded
  <2> QED
    BY <2>1, <2>2
<1> QED
  BY <1>3, <1>5, <1>6, <1>7, <1>8, <1>9 DEF NonceInv

(* Removing nonces from the stores, ending calls and the passing of time    *)
(* keep NonceInv.                                                           *)
LEMMA RemovalInv ==
    ASSUME NonceInv, UNCHANGED <<minted, challenged>>, clock' \in Nat,
           store' \in [Server -> [Nonce -> Nat \cup {Absent}]],
           \A n \in Server, x \in Nonce : store'[n][x] \in {store[n][x], Absent},
           call' \in [Caller -> Call \cup {A!Idle}],
           \A c \in Caller : call'[c] \in {call[c], A!Idle},
           spent' \subseteq minted, replayed' = replayed,
           \A n \in Server, x \in spent' : store'[n][x] = Absent
    PROVE  NonceInv'
<1>1. NonceTypes'
  BY Zenon DEF NonceInv, NonceTypes
<1>2. SpentIsSpent' /\ StoreIsBounded'
  BY Zenon DEF NonceInv, SpentIsSpent, A!SpentIsSpent, StoreIsBounded, A!StoreIsBounded
<1>3. ASSUME NEW c \in Caller, call'[c] # A!Idle
      PROVE  /\ call'[c].nonce \in minted' /\ ~call'[c].late
             /\ \A n \in Server : store'[n][call'[c].nonce] # Absent => n = call'[c].node
  BY <1>3 DEF NonceInv, NonceTypes
<1>4. \A n, m \in Server, x \in Nonce : store'[n][x] # Absent /\ store'[m][x] # Absent => n = m
  BY DEF NonceInv
<1>5. \A n \in Server, x \in Nonce : store'[n][x] # Absent => x \in minted' \ spent'
  BY Zenon DEF NonceInv
<1> QED
  BY <1>1, <1>2, <1>3, <1>4, <1>5 DEF NonceInv

(* A call presents a nonce: either it is in the store, and then not spent,  *)
(* or a challenge follows.                                                  *)
LEMMA PresentInv ==
    ASSUME NonceInv, NEW c \in Caller, NEW n \in Server, NEW x \in Nonce, NEW right \in BOOLEAN,
           A!Present(c, n, x, right)
    PROVE  NonceInv'
<1>1. CASE A!validateNonce(n, x)
  <2> DEFINE new == [at |-> "valid", node |-> n, nonce |-> x, right |-> right, late |-> x \in spent]
  <2>1. store[n][x] # Absent /\ x \in minted /\ x \notin spent
    BY Zenon, <1>1 DEF A!validateNonce, NonceInv
  <2>2. new \in Call
    BY DEF Call
  <2>3. new.nonce = x /\ new.node = n /\ new.late = (x \in spent)
    BY Zenon
  <2>4. call' = [call EXCEPT ![c] = new]
    BY Zenon, <1>1 DEF A!Present
  <2>5. UNCHANGED <<clock, store, minted, challenged, spent, replayed>>
    BY Zenon, <1>1 DEF A!Present
  <2> HIDE DEF new
  <2>6. NonceTypes'
    BY Zenon, <2>2, <2>4, <2>5 DEF NonceInv, NonceTypes
  <2>7. ASSUME NEW d \in Caller, call'[d] # A!Idle
        PROVE  /\ call'[d].nonce \in minted' /\ ~call'[d].late
               /\ \A m \in Server : store'[m][call'[d].nonce] # Absent => m = call'[d].node
    <3>1. CASE d = c
      <4>1. call'[d] = new
        BY Zenon, <2>4, <3>1 DEF NonceInv, NonceTypes
      <4> QED
        BY <2>1, <2>3, <2>5, <4>1, Zenon DEF NonceInv
    <3>2. CASE d # c
      <4>1. call'[d] = call[d]
        BY Zenon, <2>4, <3>2 DEF NonceInv, NonceTypes
      <4> QED
        BY <2>5, <2>7, <4>1 DEF NonceInv
    <3> QED
      BY Zenon, <3>1, <3>2
  <2> QED
    BY <2>5, <2>6, <2>7
    DEF NonceInv, SpentIsSpent, A!SpentIsSpent, StoreIsBounded, A!StoreIsBounded
<1>2. CASE ~A!validateNonce(n, x)
  <2>1. A!sendChallenge(n) /\ UNCHANGED <<clock, call, spent, replayed>>
    BY Zenon, <1>2 DEF A!Present
  <2> QED
    BY Zenon, <2>1, ChallengeInv DEF NonceInv, NonceTypes
<1> QED
  BY Zenon, <1>1, <1>2

(* A call that is accepted deletes its nonce, which no other node has.      *)
LEMMA VerifyInv ==
    ASSUME NonceInv, NEW c \in Caller, A!Verify(c)
    PROVE  NonceInv'
<1>1. call[c] \in Call
  BY DEF A!Verify, NonceInv, NonceTypes, A!Idle
<1>2. call' = [call EXCEPT ![c] = A!Idle]
  BY Zenon DEF A!Verify
<1>3. call' \in [Caller -> Call \cup {A!Idle}] /\ \A d \in Caller : call'[d] \in {call[d], A!Idle}
  BY Zenon, <1>2 DEF NonceInv, NonceTypes
<1>4. CASE call[c].right
  <2> DEFINE n == call[c].node
             x == call[c].nonce
  <2>1. n \in Server /\ x \in Nonce /\ x \in minted /\ ~call[c].late
    BY <1>1 DEF Call, NonceInv, A!Idle
  <2>2. /\ store' = [store EXCEPT ![n][x] = Absent]
        /\ spent' = spent \cup {x}
        /\ replayed' = (replayed \/ call[c].late)
        /\ UNCHANGED <<clock, minted, challenged>>
    BY Zenon, <1>4 DEF A!Verify
  <2>3. \A m \in Server : store[m][x] # Absent => m = n
    BY <1>1 DEF NonceInv, A!Idle, Call
  <2> HIDE DEF n, x
  <2>4. store' \in [Server -> [Nonce -> Nat \cup {Absent}]]
    BY Zenon, <2>1, <2>2 DEF NonceInv, NonceTypes
  <2>5. \A m \in Server, y \in Nonce : store'[m][y] = IF m = n /\ y = x THEN Absent ELSE store[m][y]
    BY Zenon, <2>1, <2>2 DEF NonceInv, NonceTypes
  <2>6. \A m \in Server, y \in spent' : store'[m][y] = Absent
    BY <2>1, <2>2, <2>3, <2>5 DEF NonceInv, NonceTypes
  <2>7. replayed' = replayed
    <3>1. replayed = FALSE /\ call[c].late = FALSE
      BY Zenon, <1>1, <2>1 DEF Call, NonceInv, NonceTypes, SpentIsSpent, A!SpentIsSpent
    <3> QED
      BY <2>2, <3>1, Zenon
  <2>8. clock' \in Nat /\ spent' \subseteq minted
    BY <2>1, <2>2 DEF NonceInv, NonceTypes
  <2> QED
    BY <1>3, <2>2, <2>4, <2>5, <2>6, <2>7, <2>8, RemovalInv
<1>5. CASE ~call[c].right
  <2>1. A!sendChallenge(call[c].node) /\ UNCHANGED <<clock, spent, replayed>>
    BY Zenon, <1>5 DEF A!Verify
  <2>2. call[c].node \in Server
    BY Zenon, <1>1 DEF Call
  <2> QED
    BY <1>3, <2>1, <2>2, ChallengeInv
<1> QED
  BY Zenon, <1>4, <1>5

(* Every step of the API keeps NonceInv.                                    *)
LEMMA NextNonce == NonceInv /\ [A!Next]_(A!vars) => NonceInv'
<1> SUFFICES ASSUME NonceInv, [A!Next]_(A!vars) PROVE NonceInv'
  BY Zenon
<1>1. CASE UNCHANGED <<store, minted, challenged, call, spent, replayed>> /\ clock' \in Nat
  BY <1>1 DEF NonceInv, NonceTypes, SpentIsSpent, A!SpentIsSpent, StoreIsBounded, A!StoreIsBounded
<1>2. ASSUME NEW n \in Server, A!CallWithout(n) PROVE NonceInv'
  BY Zenon, <1>2, ChallengeInv DEF A!CallWithout, NonceInv, NonceTypes
<1>3. ASSUME NEW n \in Server, A!Restart(n) PROVE NonceInv'
  <2>1. store' = [store EXCEPT ![n] = [x \in Nonce |-> Absent]]
    BY Zenon, <1>3 DEF A!Restart
  <2>2. /\ store' \in [Server -> [Nonce -> Nat \cup {Absent}]]
        /\ \A m \in Server, x \in Nonce : store'[m][x] \in {store[m][x], Absent}
    BY Zenon, <2>1 DEF NonceInv, NonceTypes
  <2>3. /\ call' \in [Caller -> Call \cup {A!Idle}]
        /\ \A c \in Caller : call'[c] \in {call[c], A!Idle}
    <3>1. call' = [c \in Caller |-> IF call[c] # A!Idle /\ call[c].node = n THEN A!Idle ELSE call[c]]
      BY Zenon, <1>3 DEF A!Restart
    <3> QED
      BY Zenon, <3>1 DEF NonceInv, NonceTypes
  <2>4. UNCHANGED <<clock, minted, challenged, spent, replayed>>
    BY Zenon, <1>3 DEF A!Restart
  <2>5. \A m \in Server, x \in spent' : store'[m][x] = Absent
    BY Zenon, <2>2, <2>4 DEF NonceInv, NonceTypes
  <2>6. clock' \in Nat /\ spent' \subseteq minted
    BY Zenon, <2>4 DEF NonceInv, NonceTypes
  <2> QED
    BY <2>2, <2>3, <2>4, <2>5, <2>6, RemovalInv
<1>4. ASSUME NEW c \in Caller, A!Verify(c) PROVE NonceInv'
  BY Zenon, <1>4, VerifyInv
<1>5. ASSUME NEW c \in Caller, NEW n \in Server, NEW x \in Nonce, NEW right \in BOOLEAN,
             A!Present(c, n, x, right)
      PROVE  NonceInv'
  BY Zenon, <1>5, PresentInv
<1>6. CASE \/ \E n \in Server, s \in Session : A!Exchange(n, s)
           \/ \E m \in Server : A!Ask(m)
           \/ A!PeerAnswers \/ A!PeerUnreachable \/ A!WrapReply \/ A!Read
  <2>1. UNCHANGED <<clock, A!digest>>
    BY Zenon, <1>6 DEF A!Exchange, A!Ask, A!PeerAnswers, A!PeerUnreachable, A!WrapReply, A!Read
  <2> QED
    BY Zenon, <1>1, <2>1 DEF A!digest, NonceInv, NonceTypes
<1>7. CASE A!Tick
  BY <1>1, <1>7 DEF A!Tick, A!digest, NonceInv, NonceTypes
<1>8. CASE UNCHANGED A!vars
  BY Zenon, <1>1, <1>8 DEF A!vars, A!digest, NonceInv, NonceTypes
<1> QED
  BY <1>2, <1>3, <1>4, <1>5, <1>6, <1>7, <1>8 DEF A!Next

(* The inductive invariant of Digest authentication.                        *)
LEMMA NonceAlways == A!Spec => []NonceInv
<1>1. A!Init => NonceInv
  <2> SUFFICES ASSUME A!Init PROVE NonceInv
    BY Zenon
  <2>1. NonceTypes
    BY Zenon DEF A!Init, NonceTypes
  <2>2. SpentIsSpent
    BY Zenon DEF A!Init, SpentIsSpent, A!SpentIsSpent
  <2>3. \A n \in Server, x \in Nonce : store[n][x] = Absent
    BY Zenon DEF A!Init
  <2>4. \A c \in Caller : call[c] = A!Idle
    BY Zenon DEF A!Init
  <2> QED
    BY <2>1, <2>2, <2>3, <2>4 DEF NonceInv, StoreIsBounded, A!StoreIsBounded
<1> QED
  BY <1>1, NextNonce, PTL DEF A!Spec

(* A nonce that got a call accepted never authenticates a call that comes   *)
(* later, for any number of nodes, callers and restarts.                    *)
THEOREM NoncesAreSpent == A!Spec => []SpentIsSpent
<1>1. NonceInv => SpentIsSpent
  BY Zenon DEF NonceInv
<1> QED
  BY <1>1, NonceAlways, PTL

(* What the store of a node holds was issued within one validity period     *)
(* before its last challenge, for any validity period.                      *)
THEOREM NonceStoreIsBounded == A!Spec => []StoreIsBounded
<1>1. NonceInv => StoreIsBounded
  BY Zenon DEF NonceInv
<1> QED
  BY <1>1, NonceAlways, PTL

-----------------------------------------------------------------------------
Cookie == [session : Session, home : Server]

(* A step that leaves the sessions and the cookie alone keeps SessionInv if *)
(* the new request of the browser is as it should be.                       *)
LEMMA FetchInv ==
    ASSUME SessionInv, UNCHANGED <<clock, sessions, expiry, cookie>>,
           cookie \in Cookie, addresses' \subseteq Server \ {cookie.home},
           fetch' \in Fetch \cup {A!Idle},
           fetch'.at = "peer" => fetch'.target # cookie.home,
           fetch'.at \in {"peer", "wrap"} => fetch'.layers = <<>>,
           fetch'.at = "read" => /\ fetch'.layers \in {<<>>, <<cookie.session>>}
                                 /\ fetch'.status # 200 => fetch'.layers = <<>>
    PROVE  SessionInv'
BY Zenon DEF SessionInv, Cookie, ReadableReply, A!ReadableReply

(* A plain reply.                                                           *)
LEMMA ReplyType ==
    ASSUME NEW where \in {"peer", "wrap"}, NEW m \in Server, NEW status \in {200, 401, 502}
    PROVE  /\ A!Reply(where, m, status) \in Fetch
           /\ A!Reply(where, m, status).at = where
           /\ A!Reply(where, m, status).target = m
           /\ A!Reply(where, m, status).layers = <<>>
BY DEF A!Reply, Fetch

(* Every step of the API keeps SessionInv.                                  *)
LEMMA NextSession == SessionInv /\ [A!Next]_(A!vars) => SessionInv'
<1> SUFFICES ASSUME SessionInv, [A!Next]_(A!vars) PROVE SessionInv'
  BY Zenon
<1>1. CASE UNCHANGED A!browser /\ clock' \in Nat
  BY <1>1 DEF A!browser, SessionInv, ReadableReply, A!ReadableReply
<1>2. ASSUME NEW n \in Server, NEW s \in Session, A!Exchange(n, s) PROVE SessionInv'
  <2>1. /\ fetch = A!Idle /\ fetch' = A!Idle /\ addresses' = {} /\ clock' = clock /\ expiry[s] = Absent
        /\ cookie' = [session |-> s, home |-> n]
        /\ expiry' = [expiry EXCEPT ![s] = clock + SessionLife]
        /\ sessions' = [sessions EXCEPT ![n] = {r \in @ : clock <= expiry[r]} \cup {s}]
    BY Zenon, <1>2 DEF A!Exchange
  <2>2. cookie' \in Cookie /\ cookie'.session = s /\ cookie'.home = n
    BY Zenon, <2>1 DEF Cookie
  <2>3. clock + SessionLife \in Nat /\ clock + SessionLife # Absent
    BY AdminAssumption DEF SessionInv
  <2>4. expiry' \in [Session -> Nat \cup {Absent}] /\ \A r \in Session : expiry[r] # Absent => expiry'[r] # Absent
    BY Zenon, <2>1, <2>3 DEF SessionInv
  <2>5. sessions' \in [Server -> SUBSET Session]
    BY Zenon, <2>1 DEF SessionInv
  <2>6. \A m \in Server : \A r \in sessions'[m] : r \in sessions[m] \/ (m = n /\ r = s)
    BY Zenon, <2>1 DEF SessionInv
  <2>7. \A m \in Server : s \notin sessions[m]
    BY Zenon, <2>1 DEF SessionInv
  <2>8. expiry'[s] # Absent
    BY Zenon, <2>1, <2>3 DEF SessionInv
  <2>9. \A m \in Server : \A r \in sessions'[m] : expiry'[r] # Absent
    BY Zenon, <2>4, <2>6, <2>8 DEF SessionInv
  <2>10. fetch'.at = "idle"
    BY Zenon, <2>1 DEF A!Idle
  <2> QED
    BY Zenon, <2>1, <2>2, <2>4, <2>5, <2>6, <2>7, <2>9, <2>10
    DEF SessionInv, Cookie, ReadableReply, A!ReadableReply
<1>3. ASSUME NEW m \in Server, A!Ask(m) PROVE SessionInv'
  <2>1. cookie \in Cookie /\ addresses' \subseteq Server \ {cookie.home}
    BY Zenon, <1>3 DEF A!Ask, SessionInv, Cookie
  <2>2. \/ fetch' = A!Reply("wrap", m, 401) \/ fetch' = A!Reply("wrap", m, 200)
        \/ m # cookie.home /\ fetch' = A!Reply("peer", m, 200)
    BY <1>3, <2>1 DEF A!Ask
  <2>3. UNCHANGED <<clock, sessions, expiry, cookie>>
    BY Zenon, <1>3 DEF A!Ask
  <2> QED
    BY <2>1, <2>2, <2>3, ReplyType, FetchInv
<1>4. ASSUME fetch.at \in {"peer", "wrap", "read"}
      PROVE  fetch \in Fetch /\ cookie \in Cookie /\ addresses \subseteq Server \ {cookie.home}
  BY <1>4 DEF SessionInv, A!Idle, Cookie
<1>5. CASE A!PeerAnswers
  <2>1. fetch.at = "peer" /\ UNCHANGED <<clock, sessions, expiry, cookie, addresses>>
    BY Zenon, <1>5 DEF A!PeerAnswers
  <2>2. fetch \in Fetch /\ fetch.target # cookie.home /\ fetch.layers = <<>> /\ fetch.target \in Server
    BY <1>4, <2>1 DEF SessionInv, Fetch
  <2>3. ~A!HasKey(fetch.target, cookie.session)
    BY Zenon, <1>4, <2>1, <2>2 DEF A!HasKey, SessionInv, Cookie
  <2>4. fetch' = [fetch EXCEPT !.at = "wrap"] \/ fetch' = A!Reply("wrap", fetch.target, 401)
    BY Zenon, <1>5, <2>3 DEF A!PeerAnswers, A!Wrapped
  <2>5. CASE fetch' = [fetch EXCEPT !.at = "wrap"]
    <3>1. fetch' \in Fetch /\ fetch'.at = "wrap" /\ fetch'.layers = <<>>
      BY <2>2, <2>5 DEF Fetch
    <3> QED
      BY Zenon, <1>4, <2>1, <3>1, FetchInv
  <2>6. CASE fetch' = A!Reply("wrap", fetch.target, 401)
    BY <1>4, <2>1, <2>2, <2>6, ReplyType, FetchInv
  <2> QED
    BY Zenon, <2>4, <2>5, <2>6
<1>6. CASE A!PeerUnreachable
  <2>1. /\ fetch.at = "peer" /\ fetch' = A!Reply("wrap", fetch.target, 502)
        /\ UNCHANGED <<clock, sessions, expiry, cookie, addresses>>
    BY Zenon, <1>6 DEF A!PeerUnreachable
  <2>2. fetch.target \in Server
    BY <1>4, <2>1 DEF Fetch
  <2> QED
    BY <1>4, <2>1, <2>2, ReplyType, FetchInv
<1>7. CASE A!WrapReply
  <2>1. fetch.at = "wrap" /\ UNCHANGED <<clock, sessions, expiry, cookie, addresses>>
    BY Zenon, <1>7 DEF A!WrapReply
  <2>2. fetch \in Fetch /\ fetch.layers = <<>> /\ cookie.session \in Session
    BY Zenon, <1>4, <2>1 DEF SessionInv, Cookie
  <2>3. CASE fetch.status = 200 /\ A!HasKey(cookie.home, cookie.session)
    <3>1. fetch' = [[fetch EXCEPT !.layers = Append(@, cookie.session)] EXCEPT !.at = "read"]
      BY Zenon, <1>7, <2>3 DEF A!WrapReply, A!Wrapped
    <3>2. Append(<<>>, cookie.session) = <<cookie.session>> /\ <<cookie.session>> \in Seq(Session)
      BY <2>2
    <3>3. fetch' = [[fetch EXCEPT !.layers = <<cookie.session>>] EXCEPT !.at = "read"]
      BY Zenon, <2>2, <3>1, <3>2
    <3>4. fetch' \in Fetch /\ fetch'.at = "read" /\ fetch'.status = 200 /\ fetch'.layers = <<cookie.session>>
      BY <2>2, <2>3, <3>2, <3>3, ZenonT(30) DEF Fetch
    <3> QED
      BY Zenon, <1>4, <2>1, <3>4, FetchInv
  <2>4. CASE ~(fetch.status = 200 /\ A!HasKey(cookie.home, cookie.session))
    <3>1. fetch' = [fetch EXCEPT !.at = "read"]
      BY Zenon, <1>7, <2>4 DEF A!WrapReply, A!Wrapped
    <3>2. fetch' \in Fetch /\ fetch'.at = "read" /\ fetch'.layers = <<>>
      BY <2>2, <3>1 DEF Fetch
    <3> QED
      BY Zenon, <1>4, <2>1, <3>2, FetchInv
  <2> QED
    BY Zenon, <2>3, <2>4
<1>8. CASE A!Read
  <2>1. /\ fetch.at = "read" /\ fetch' = A!Idle /\ UNCHANGED <<clock, sessions, expiry, cookie>>
        /\ addresses' \in {addresses, Server \ {cookie.home}}
    BY Zenon, <1>8 DEF A!Read, A!activePeerAddresses
  <2>2. fetch'.at = "idle"
    BY Zenon, <2>1 DEF A!Idle
  <2> QED
    BY Zenon, <1>4, <2>1, <2>2, FetchInv
<1>9. ASSUME NEW n \in Server, A!Restart(n) PROVE SessionInv'
  <2>1. /\ sessions' = [sessions EXCEPT ![n] = {}] /\ UNCHANGED <<clock, expiry, cookie, addresses>>
        /\ \/ fetch' \in {fetch, A!Idle}
           \/ fetch # A!Idle /\ fetch' = A!Reply("wrap", n, 502)
    BY <1>9 DEF A!Restart
  <2>2. sessions' \in [Server -> SUBSET Session] /\ \A m \in Server : sessions'[m] \subseteq sessions[m]
    BY Zenon, <2>1 DEF SessionInv
  <2>3. CASE fetch' = fetch
    BY <2>1, <2>2, <2>3 DEF SessionInv, ReadableReply, A!ReadableReply
  <2>4. CASE fetch' = A!Idle
    <3>1. fetch'.at = "idle"
      BY Zenon, <2>4 DEF A!Idle
    <3> QED
      BY Zenon, <2>1, <2>2, <2>4, <3>1 DEF SessionInv, ReadableReply, A!ReadableReply
  <2>5. CASE fetch # A!Idle /\ fetch' = A!Reply("wrap", n, 502)
    BY <2>1, <2>2, <2>5, ReplyType DEF SessionInv, ReadableReply, A!ReadableReply
  <2> QED
    BY <2>1, <2>3, <2>4, <2>5
<1>10. CASE \/ \E n \in Server : A!CallWithout(n)
            \/ \E c \in Caller : A!Verify(c)
            \/ \E c \in Caller, n \in Server, x \in Nonce, right \in BOOLEAN : A!Present(c, n, x, right)
  <2>1. UNCHANGED <<clock, A!browser>>
    BY <1>10, Zenon DEF A!CallWithout, A!Verify, A!Present
  <2> QED
    BY Zenon, <1>1, <2>1 DEF SessionInv
<1>11. CASE A!Tick
  BY <1>1, <1>11 DEF A!Tick, SessionInv
<1>12. CASE UNCHANGED A!vars
  BY Zenon, <1>1, <1>12 DEF A!vars, SessionInv
<1> QED
  BY Zenon, <1>2, <1>3, <1>5, <1>6, <1>7, <1>8, <1>9, <1>10, <1>11, <1>12 DEF A!Next

(* The browser can read every reply of the internal API, for any number of  *)
(* nodes and sessions, restarts and expiries.                               *)
THEOREM RepliesAreReadable == A!Spec => []ReadableReply
<1>1. A!Init => SessionInv
  <2> SUFFICES ASSUME A!Init PROVE SessionInv
    BY Zenon
  <2>1. fetch = A!Idle /\ fetch.at = "idle"
    BY Zenon DEF A!Init, A!Idle
  <2> QED
    BY Zenon, <2>1 DEF A!Init, SessionInv, ReadableReply, A!ReadableReply
<1>2. SessionInv => ReadableReply
  BY Zenon DEF SessionInv
<1> QED
  BY <1>1, <1>2, NextSession, PTL DEF A!Spec

-----------------------------------------------------------------------------
(* Where a request can be in the proxy.                                     *)
Stages == {"new", "oidc", "limit", "forward", "upstream", "process", "end"}

(* CountedIffServed is not inductive: it needs to know that only a request  *)
(* with an upstream's answer reaches the goroutine that counts it, and that  *)
(* it is counted at the end.                                                *)
ServedInv ==
    /\ stage \in [Proxied -> Stages]
    /\ DOMAIN answer = Proxied
    /\ \A q \in Proxied : stage[q] = "process" => answer[q] \in {200, 502}
    /\ \A q \in served : q \in Proxied /\ stage[q] = "end"
    /\ CountedIffServed

(* A request that ends now was counted exactly if it has an upstream's      *)
(* answer; the others are as before.                                        *)
LEMMA EndServed ==
    ASSUME ServedInv, NEW q \in Proxied, NEW status, G!End(q, status),
           stage[q] # "end",
           \/ served' = served /\ status \notin {200, 502}
           \/ served' = served \cup {q} /\ status \in {200, 502}
    PROVE  ServedInv'
BY DEF ServedInv, G!End, CountedIffServed, G!CountedIffServed, Stages

(* A request that goes on is not at its end before or after.                *)
LEMMA GoServed ==
    ASSUME ServedInv, NEW q \in Proxied, NEW where \in {"limit", "forward", "upstream"},
           G!Go(q, where), stage[q] # "end", served' = served
    PROVE  ServedInv'
BY DEF ServedInv, G!Go, CountedIffServed, G!CountedIffServed, Stages

(* oidcMiddleware refuses with 401 or 403.                                  *)
LEMMA RefusalStatus ==
    ASSUME NEW t, NEW demands
    PROVE  G!Refusal(t, demands) \in {401, 403, Nothing}
BY DEF G!Refusal

(* Every step of the gateway keeps ServedInv.                               *)
LEMMA NextServed == ServedInv /\ [G!Next]_(G!vars) => ServedInv'
<1> SUFFICES ASSUME ServedInv, [G!Next]_(G!vars) PROVE ServedInv'
  BY Zenon
<1>1. CASE UNCHANGED <<stage, answer, served>>
  BY <1>1 DEF ServedInv, CountedIffServed, G!CountedIffServed
<1>2. CASE G!Start \/ G!Stop \/ G!BlockOrUnblock \/ (\E ips \in Pool : G!WatchDNS(ips))
  BY Zenon, <1>1, <1>2 DEF G!Start, G!Stop, G!BlockOrUnblock, G!WatchDNS
<1>3. ASSUME NEW q \in Proxied, NEW h \in G!Host, NEW p \in Route, NEW t \in Token,
             G!Arrive(q, h, p, t)
      PROVE  ServedInv'
  <2>1. CASE p \notin DOMAIN router
    BY <1>3, <2>1, EndServed DEF G!Arrive
  <2>2. CASE p \in DOMAIN router
    BY <1>3, <2>2 DEF G!Arrive, ServedInv, CountedIffServed, G!CountedIffServed, Stages
  <2> QED
    BY Zenon, <2>1, <2>2
<1>4. ASSUME NEW q \in Proxied, G!Authorise(q) PROVE ServedInv'
  <2> DEFINE refusal == G!Refusal(request[q].token, config[router[request[q].prefix].host].demands)
  <2>1. refusal # Nothing => refusal \in {401, 403}
    BY RefusalStatus
  <2>2. IF refusal = Nothing THEN G!Go(q, "limit") ELSE G!End(q, refusal)
    BY Zenon, <1>4 DEF G!Authorise
  <2>3. stage[q] # "end" /\ served' = served
    BY Zenon, <1>4 DEF G!Authorise
  <2> HIDE DEF refusal
  <2> QED
    BY <2>1, <2>2, <2>3, EndServed, GoServed
<1>5. ASSUME NEW q \in Proxied, G!TestBlocklist(q) PROVE ServedInv'
  BY <1>5, EndServed, GoServed DEF G!TestBlocklist
<1>6. ASSUME NEW q \in Proxied, G!DirectRequest(q) PROVE ServedInv'
  BY Zenon, <1>6, GoServed DEF G!DirectRequest
<1>7. ASSUME NEW q \in Proxied, NEW status \in {200, 502}, G!Answer(q, status) PROVE ServedInv'
  BY <1>7 DEF G!Answer, ServedInv, CountedIffServed, G!CountedIffServed, Stages
<1>8. ASSUME NEW q \in Proxied, G!Abort(q) PROVE ServedInv'
  BY <1>8, EndServed DEF G!Abort, G!Aborted
<1>9. ASSUME NEW q \in Proxied, G!Process(q) PROVE ServedInv'
  <2>1. answer[q] \in {200, 502} /\ stage[q] # "end"
    BY <1>9 DEF G!Process, ServedInv
  <2> QED
    BY <1>9, <2>1, EndServed DEF G!Process
<1>10. CASE UNCHANGED G!vars
  BY Zenon, <1>1, <1>10 DEF G!vars
<1> QED
  BY <1>2, <1>3, <1>4, <1>5, <1>6, <1>7, <1>8, <1>9, <1>10 DEF G!Next

(* A request is counted exactly if an upstream or its error handler         *)
(* answered it, for any routes, tokens and number of requests.              *)
THEOREM ServedIsCounted == G!Spec => []CountedIffServed
<1>1. G!Init => ServedInv
  BY DEF G!Init, ServedInv, CountedIffServed, G!CountedIffServed, Stages
<1>2. ServedInv => CountedIffServed
  BY Zenon DEF ServedInv
<1> QED
  BY <1>1, <1>2, NextServed, PTL DEF G!Spec
=============================================================================
