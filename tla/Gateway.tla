------------------------------ MODULE Gateway -------------------------------
(***************************************************************************)
(* The embedded reverse proxy (internal/proxy): the router built from the  *)
(* configured hosts, the chain OIDC -> rate limit -> upstream of a route,  *)
(* the accounting that follows the answer, and the balancer with its DNS   *)
(* watcher.  A request is known by the route prefix that its path matches.  *)
(***************************************************************************)
EXTENDS Naturals, Sequences, FiniteSets

CONSTANTS Hosts,      \* the configured host names, a sequence
          Prefix,     \* route prefixes
          Config,     \* the configurations considered: of each host the state
                      \* of its issuer ("none", "up", "down"), what it demands
                      \* of a token, its routes and those that need a token
          Request,    \* requests
          Token,      \* kinds of bearer tokens: "missing", "invalid",
                      \* "no audience", "no scopes", "good"
          Pool,       \* answers of the resolver: sequences of addresses
          Wrap,       \* 2^64 in the code: the counter wraps there
          Earlier,    \* requests that the balancer directed before these
          None

Host == {Hosts[i] : i \in 1..Len(Hosts)}
Address == UNION {{p[i] : i \in 1..Len(p)} : p \in Pool}

VARIABLES config,          \* [Host -> settings], as loaded
          state,           \* new, serving, stopping
          router,          \* prefix -> [host, verifier]: the chi router
          blocked,         \* the blocklist denies the entity of the requests
          at, request,     \* of each request: where it is; what it asks
          answer,          \* its status code
          counted,         \* requests given to the engine
          pool, counter,   \* the balancer of a route; every route has its own,
                           \* and one is followed here
          picks, wrapped   \* since the pool changed: requests per address;
                           \* whether the counter wrapped

balancer == <<pool, counter, picks, wrapped>>
vars == <<config, state, router, blocked, at, request, answer, counted, balancer>>

Aborted == 0   \* no status: the connection is cut

Init ==
    /\ config \in Config
    /\ state = "new" /\ router = <<>> /\ blocked = FALSE
    /\ at = [q \in Request |-> "new"]
    /\ request = [q \in Request |-> None]
    /\ answer = [q \in Request |-> None]
    /\ counted = {}
    /\ pool = <<>> /\ counter = Earlier
    /\ picks = [a \in Address |-> 0] /\ wrapped = FALSE

-----------------------------------------------------------------------------
(* Start and buildRouter.  Hosts whose provider cannot be reached are       *)
(* skipped; a later route with the same pattern replaces an earlier one.    *)
Routed(h) == config[h].issuer # "down"
HasVerifier(h, p) == p \in config[h].protected /\ config[h].issuer = "up"
RouteOf(p) ==
    LET hs == SelectSeq(Hosts, LAMBDA h : Routed(h) /\ p \in config[h].routes)
        last == hs[Len(hs)]
    IN  [host |-> last, verifier |-> HasVerifier(last, p)]

Start ==
    /\ state = "new"
    /\ state' = "serving"
    /\ router' = [p \in UNION {config[h].routes : h \in {g \in Host : Routed(g)}} |-> RouteOf(p)]
    /\ UNCHANGED <<config, blocked, at, request, answer, counted, balancer>>

(* Stop: the listener closes; requests in progress continue.                *)
Stop ==
    /\ state = "serving"
    /\ state' = "stopping"
    /\ UNCHANGED <<config, router, blocked, at, request, answer, counted, balancer>>

(* The blocklist cache changes under the proxy.                             *)
BlockOrUnblock ==
    /\ blocked' = ~blocked
    /\ UNCHANGED <<config, state, router, at, request, answer, counted, balancer>>

-----------------------------------------------------------------------------
(* The handlers of a request.                                               *)
End(q, status) ==
    /\ answer' = [answer EXCEPT ![q] = status]
    /\ request' = [request EXCEPT ![q] = None]
    /\ at' = [at EXCEPT ![q] = "end"]

Go(q, where) == at' = [at EXCEPT ![q] = where] /\ UNCHANGED <<answer, request>>

Arrive(q, h, p, t) ==
    /\ state = "serving" /\ at[q] = "new"
    /\ IF p \notin DOMAIN router THEN End(q, 404)
       ELSE /\ request' = [request EXCEPT ![q] = [host |-> h, prefix |-> p, token |-> t]]
            /\ at' = [at EXCEPT ![q] = IF router[p].verifier THEN "oidc" ELSE "limit"]
            /\ UNCHANGED answer
    /\ UNCHANGED <<config, state, router, blocked, counted, balancer>>

(* oidcMiddleware: extraction, signature, audience, scopes.                 *)
Refusal(t, demands) ==
    CASE t \in {"missing", "invalid"} -> 401
      [] t = "no audience" /\ "audience" \in demands -> 403
      [] t = "no scopes" /\ "scopes" \in demands -> 403
      [] OTHER -> None

Authorise(q) ==
    /\ at[q] = "oidc"
    /\ LET refusal == Refusal(request[q].token, config[router[request[q].prefix].host].demands)
       IN  IF refusal = None THEN Go(q, "limit") ELSE End(q, refusal)
    /\ UNCHANGED <<config, state, router, blocked, counted, balancer>>

(* Mutant of TestBlocklist: a refused request is counted, too.              *)
TestBlocklistCounting(q) ==
    /\ at[q] = "limit"
    /\ IF blocked THEN /\ answer' = [answer EXCEPT ![q] = 429]
                       /\ at' = [at EXCEPT ![q] = "process"]
                       /\ UNCHANGED request
       ELSE Go(q, "forward")
    /\ UNCHANGED <<config, state, router, blocked, counted, balancer>>

(* rateLimitMiddleware, step 1.                                             *)
TestBlocklist(q) ==
    /\ at[q] = "limit"
    /\ IF blocked THEN End(q, 429) ELSE Go(q, "forward")
    /\ UNCHANGED <<config, state, router, blocked, counted, balancer>>

(* Mutant of DirectRequest: the index is read and not advanced.             *)
DirectToSame(q) ==
    /\ at[q] = "forward"
    /\ Go(q, "upstream")
    /\ IF pool = <<>> THEN UNCHANGED balancer
       ELSE /\ picks' = [picks EXCEPT ![pool[(counter % Len(pool)) + 1]] = @ + 1]
            /\ UNCHANGED <<pool, counter, wrapped>>
    /\ UNCHANGED <<config, state, router, blocked, counted>>

(* Step 2: the director picks an address under the read lock, with one      *)
(* atomic addition; with an empty pool the host name is kept.               *)
DirectRequest(q) ==
    /\ at[q] = "forward"
    /\ Go(q, "upstream")
    /\ IF pool = <<>> THEN UNCHANGED balancer
       ELSE /\ counter' = (counter + 1) % Wrap
            /\ picks' = [picks EXCEPT ![pool[(counter' % Len(pool)) + 1]] = @ + 1]
            /\ wrapped' = (wrapped \/ counter' = 0)
            /\ UNCHANGED pool
    /\ UNCHANGED <<config, state, router, blocked, counted>>

(* The upstream answers, or ErrorHandler does; then step 3 starts the        *)
(* goroutine that counts.                                                   *)
Answer(q, status) ==
    /\ at[q] = "upstream"
    /\ answer' = [answer EXCEPT ![q] = status]
    /\ at' = [at EXCEPT ![q] = "process"]
    /\ UNCHANGED <<config, state, router, blocked, request, counted, balancer>>

(* The body breaks off: ReverseProxy panics with ErrAbortHandler and         *)
(* unwinds past step 3.                                                     *)
Abort(q) ==
    /\ at[q] = "upstream"
    /\ End(q, Aborted)
    /\ UNCHANGED <<config, state, router, blocked, counted, balancer>>

Process(q) ==
    /\ at[q] = "process"
    /\ counted' = counted \cup {q}
    /\ End(q, answer[q])
    /\ UNCHANGED <<config, state, router, blocked, balancer>>

(* WatchDNS: a failed or empty answer changes nothing.                      *)
WatchDNS(ips) ==
    /\ state = "serving" /\ ips # <<>> /\ ips # pool
    /\ pool' = ips
    /\ picks' = [a \in Address |-> 0] /\ wrapped' = FALSE
    /\ UNCHANGED <<config, state, router, blocked, at, request, answer, counted, counter>>

Next ==
    \/ Start \/ Stop \/ BlockOrUnblock
    \/ \E ips \in Pool : WatchDNS(ips)
    \/ \E q \in Request :
         \/ \E h \in Host, p \in Prefix, t \in Token : Arrive(q, h, p, t)
         \/ Authorise(q) \/ TestBlocklist(q) \/ DirectRequest(q)
         \/ \E status \in {200, 502} : Answer(q, status)
         \/ Abort(q) \/ Process(q)

Spec == Init /\ [][Next]_vars

-----------------------------------------------------------------------------
(* Properties.                                                             *)

(* A request is given to the engine exactly when an upstream, or its error   *)
(* handler, answered it: one that the token check, the blocklist or the      *)
(* router refused costs its client nothing, and one answered 502 counts.     *)
(* Only an aborted transfer is served without being counted.                *)
CountedIffServed ==
    \A q \in Request : at[q] = "end" => (q \in counted <=> answer[q] \in {200, 502})

(* Between two changes of the pool the requests are spread evenly: any two   *)
(* addresses differ by one, or by two when the counter wrapped at a value    *)
(* that is no multiple of the pool's size.                                  *)
Balanced ==
    \A i, j \in 1..Len(pool) :
        picks[pool[i]] <= picks[pool[j]] + (IF wrapped THEN 2 ELSE 1)

(* internal/proxy/proxy_test.go, TestVirtualHostIsolation: "a request        *)
(* matching hostA's routes does not accidentally reach hostB".  The router   *)
(* never looks at the host of a request.                                    *)
Upstream(q) == router[request[q].prefix].host
HostIsolation ==
    \A q \in Request :
        at[q] = "upstream" /\ request[q].prefix \in config[request[q].host].routes
            => Upstream(q) = request[q].host
=============================================================================
