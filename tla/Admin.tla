------------------------------- MODULE Admin --------------------------------
(***************************************************************************)
(* Access to the internal API (internal/api): Digest nonces                *)
(* (digestauth.go), bootstrap tokens and browser sessions (ui_auth.go), the *)
(* encryption of replies (api.go) and the cross-node proxy of the dashboard *)
(* (ui_handlers.go).  Every node has the same API key, so a token signed by *)
(* one is valid on all; nonces and session keys are in the memory of one    *)
(* node and are gone after a restart.                                       *)
(***************************************************************************)
EXTENDS Naturals, Sequences, FiniteSets

CONSTANTS Server, Nonce, Caller, Session,
          NonceLife, TokenLife, SessionLife,   \* the three validity periods
          MaxTime,                             \* bound on the clock
          None

VARIABLES now,
          store,      \* nonceStore of each node: [Nonce -> time] or None
          minted,     \* nonces ever issued
          challenged, \* when each node last issued one
          call,       \* Digest calls in progress
          spent,      \* nonces that got a call accepted
          replayed,   \* a call came after its nonce was spent and was accepted
          token,      \* expiry of the bootstrap token the user holds
          sessions,   \* sessions of each node: those whose key it has
          expiry,     \* expiry that each session's signed token carries
          cookie,     \* the browser: its session and the node it talks to
          peers,      \* addresses that the last status reply gave
          fetch       \* the browser's request in progress

digest == <<store, minted, challenged, call, spent, replayed>>
browser == <<sessions, expiry, cookie, peers, fetch>>
vars == <<now, digest, token, browser>>

Idle == [at |-> "idle"]

Init ==
    /\ now = 0
    /\ store = [n \in Server |-> [x \in Nonce |-> None]]
    /\ minted = {} /\ spent = {} /\ replayed = FALSE
    /\ challenged = [n \in Server |-> 0]
    /\ call = [c \in Caller |-> Idle]
    /\ token = 0
    /\ sessions = [n \in Server |-> {}]
    /\ expiry = [s \in Session |-> None]
    /\ cookie = None /\ peers = {} /\ fetch = Idle

-----------------------------------------------------------------------------
(* Digest authentication.                                                   *)

(* Mutant of sendChallenge: nothing is cleaned up.                          *)
challengeOnly(n) ==
    \E x \in Nonce \ minted :
        /\ minted' = minted \cup {x}
        /\ challenged' = [challenged EXCEPT ![n] = now]
        /\ store' = [store EXCEPT ![n][x] = now]

(* generateNonce with cleanupExpiredNonces, under the lock; the set of       *)
(* nonces is a bound.                                                       *)
sendChallenge(n) ==
    \E x \in Nonce \ minted :
        /\ minted' = minted \cup {x}
        /\ challenged' = [challenged EXCEPT ![n] = now]
        /\ store' = [store EXCEPT ![n] =
              [y \in Nonce |-> IF y = x THEN now
                               ELSE IF @[y] # None /\ now - @[y] > NonceLife THEN None
                               ELSE @[y]]]

(* A call without usable credentials.                                       *)
CallWithout(n) ==
    /\ sendChallenge(n)
    /\ UNCHANGED <<now, call, spent, replayed, token, browser>>

validateNonce(n, x) == store[n][x] # None /\ now - store[n][x] <= NonceLife

(* Middleware up to validateNonce, which reads the store under RLock.        *)
Present(c, n, x, right) ==
    /\ call[c] = Idle /\ x \in minted
    /\ IF validateNonce(n, x)
       THEN /\ call' = [call EXCEPT ![c] =
                  [at |-> "valid", node |-> n, nonce |-> x, right |-> right, late |-> x \in spent]]
            /\ UNCHANGED <<store, minted, challenged>>
       ELSE sendChallenge(n) /\ UNCHANGED call
    /\ UNCHANGED <<now, spent, replayed, token, browser>>

(* Mutant of Verify: the nonce stays in the store.                          *)
VerifyKeeping(c) ==
    /\ call[c].at = "valid"
    /\ call' = [call EXCEPT ![c] = Idle]
    /\ IF call[c].right
       THEN /\ spent' = spent \cup {call[c].nonce}
            /\ replayed' = (replayed \/ call[c].late)
            /\ token' = now + TokenLife
            /\ UNCHANGED <<store, minted, challenged>>
       ELSE sendChallenge(call[c].node) /\ UNCHANGED <<spent, replayed, token>>
    /\ UNCHANGED <<now, browser>>

(* The rest: the response is compared and the nonce deleted; the handler is  *)
(* handleUIGetToken.                                                        *)
Verify(c) ==
    /\ call[c].at = "valid"
    /\ call' = [call EXCEPT ![c] = Idle]
    /\ IF call[c].right
       THEN /\ store' = [store EXCEPT ![call[c].node][call[c].nonce] = None]
            /\ spent' = spent \cup {call[c].nonce}
            /\ replayed' = (replayed \/ call[c].late)
            /\ token' = now + TokenLife
            /\ UNCHANGED <<minted, challenged>>
       ELSE sendChallenge(call[c].node) /\ UNCHANGED <<spent, replayed, token>>
    /\ UNCHANGED <<now, browser>>

-----------------------------------------------------------------------------
(* Sessions.                                                                *)
ValidateSession(s) == expiry[s] # None /\ now < expiry[s]
HasKey(n, s) == ValidateSession(s) /\ s \in sessions[n] /\ now <= expiry[s]

(* handleUIExchange and CreateSession with cleanExpiredSessions.            *)
Exchange(n, s) ==
    /\ fetch = Idle /\ now < token /\ expiry[s] = None
    /\ expiry' = [expiry EXCEPT ![s] = now + SessionLife]
    /\ sessions' = [sessions EXCEPT ![n] = {r \in @ : now <= expiry[r]} \cup {s}]
    /\ cookie' = [session |-> s, home |-> n]
    /\ peers' = {}
    /\ UNCHANGED <<now, digest, token, fetch>>

(* encryptedResponseMiddleware: a 2xx reply is wrapped when the node has the *)
(* key of the session.                                                      *)
Wrapped(n, reply) ==
    IF reply.status = 200 /\ HasKey(n, cookie.session)
    THEN [reply EXCEPT !.layers = Append(@, cookie.session)] ELSE reply

Reply(at, target, status) ==
    [at |-> at, target |-> target, status |-> status, layers |-> <<>>]

(* A request of the dashboard at its node, for the node itself or, through   *)
(* handleUIProxy, for a peer; dualAuthMiddleware validates the session.      *)
Ask(m) ==
    /\ cookie # None /\ fetch = Idle
    /\ m \in peers \cup {cookie.home}
    /\ fetch' = IF ~ValidateSession(cookie.session) THEN Reply("wrap", m, 401)
                ELSE IF m \in peers THEN Reply("peer", m, 200)
                ELSE Reply("wrap", m, 200)
    /\ UNCHANGED <<now, digest, token, sessions, expiry, cookie, peers>>

(* The peer authenticates the forwarded session and wraps what it can.      *)
PeerAnswers ==
    /\ fetch.at = "peer"
    /\ fetch' = IF ValidateSession(cookie.session)
                THEN [Wrapped(fetch.target, fetch) EXCEPT !.at = "wrap"]
                ELSE Reply("wrap", fetch.target, 401)
    /\ UNCHANGED <<now, digest, token, sessions, expiry, cookie, peers>>

PeerUnreachable ==
    /\ fetch.at = "peer"
    /\ fetch' = Reply("wrap", fetch.target, 502)
    /\ UNCHANGED <<now, digest, token, sessions, expiry, cookie, peers>>

WrapReply ==
    /\ fetch.at = "wrap"
    /\ fetch' = [Wrapped(cookie.home, fetch) EXCEPT !.at = "read"]
    /\ UNCHANGED <<now, digest, token, sessions, expiry, cookie, peers>>

(* Mutant of activePeerAddresses: the node is listed among its peers.       *)
allAddresses(n) == Server

(* handleStatus lists the members without the node itself.                  *)
activePeerAddresses(n) == Server \ {n}

Read ==
    /\ fetch.at = "read"
    /\ fetch' = Idle
    /\ peers' = IF fetch.status = 200 /\ fetch.target = cookie.home
                THEN activePeerAddresses(cookie.home) ELSE peers
    /\ UNCHANGED <<now, digest, token, sessions, expiry, cookie>>

-----------------------------------------------------------------------------
(* A node restarts: NewDigestAuthenticator and newUIAuthManager start empty; *)
(* what it was working on is lost.                                          *)
Restart(n) ==
    /\ store' = [store EXCEPT ![n] = [x \in Nonce |-> None]]
    /\ sessions' = [sessions EXCEPT ![n] = {}]
    /\ call' = [c \in Caller |-> IF call[c] # Idle /\ call[c].node = n THEN Idle ELSE call[c]]
    /\ fetch' = IF fetch # Idle /\ cookie.home = n THEN Idle
                ELSE IF fetch # Idle /\ fetch.at = "peer" /\ fetch.target = n
                THEN Reply("wrap", n, 502) ELSE fetch
    /\ UNCHANGED <<now, minted, challenged, spent, replayed, token, expiry, cookie, peers>>

Tick ==
    /\ now < MaxTime
    /\ now' = now + 1
    /\ UNCHANGED <<digest, token, browser>>

Next ==
    \/ \E n \in Server : CallWithout(n) \/ Restart(n)
    \/ \E c \in Caller : Verify(c)
    \/ \E c \in Caller, n \in Server, x \in Nonce, right \in BOOLEAN : Present(c, n, x, right)
    \/ \E n \in Server, s \in Session : Exchange(n, s)
    \/ \E m \in Server : Ask(m)
    \/ PeerAnswers \/ PeerUnreachable \/ WrapReply \/ Read \/ Tick

Spec == Init /\ [][Next]_vars

-----------------------------------------------------------------------------
(* Properties.                                                             *)

(* The browser can read every reply: a good one is plain or wrapped once,    *)
(* with the key of its own session, and an error is plain.  The wrapping is  *)
(* decided separately on each node a reply passes, by what that node has in  *)
(* memory after restarts and expiry.                                        *)
ReadableReply ==
    fetch.at = "read" =>
        /\ fetch.layers \in {<<>>, <<cookie.session>>}
        /\ fetch.status # 200 => fetch.layers = <<>>

(* A nonce does not authenticate a call that arrived after another call with *)
(* it had succeeded, on any node and across restarts; the validity test and  *)
(* the deletion are two critical sections, so two calls in progress at once  *)
(* may both succeed.                                                        *)
SpentIsSpent == ~replayed

(* The store of nonces is bounded by the challenges of one validity period,  *)
(* although only a further challenge cleans it: nothing in it is older,      *)
(* seen from the node's last challenge.                                     *)
StoreIsBounded ==
    \A n \in Server, x \in Nonce :
        store[n][x] # None => challenged[n] - store[n][x] <= NonceLife
=============================================================================
