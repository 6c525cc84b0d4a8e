------------------------------ MODULE Limiter -------------------------------
(***************************************************************************)
(* The limit of one entity on its owner, with a clock: the window of the   *)
(* accounting counter (internal/cache/accounting.go), the two algorithms   *)
(* (internal/ratelimit) and the block they lead to                         *)
(* (internal/accounting/engine.go).  A request is also the goroutine that  *)
(* accounts for it.  Tokens are counted in parts, Unit of which make a     *)
(* token, so that refill is exact; Accounting has the races on counters,   *)
(* which are one step here.                                                *)
(***************************************************************************)
EXTENDS Integers, FiniteSets

CONSTANTS Request,
          Algorithm,   \* algorithms a configuration may name
          Per,         \* lengths of rule.Per, in ticks
          Window,      \* WindowSize of the accounting cache, in ticks
          Limit,       \* rule.Limit
          Unit,        \* parts of a token
          Capacity,    \* capacity of the bucket, in parts
          Rate,        \* refillRate, in parts per tick
          MaxTime,     \* bound on the clock
          None         \* a time or a counter that is not there

ASSUME LimiterAssumption ==
    /\ Window \in Nat \ {0} /\ Per \subseteq Nat /\ Limit \in Nat
    /\ Unit \in Nat \ {0} /\ Capacity \in Nat /\ Rate \in Nat \ {0}
    /\ MaxTime \in Nat /\ None \notin Int

VARIABLES algorithm, per,   \* the configuration
          now,
          pc,          \* new, asked, counted, candidate, loaded, done, denied
          seen,        \* time.Now() of the bucket a goroutine prepares
          value,       \* the count Increment returned
          born, total, \* the counter: when it was created (or None), its value
          counted,     \* when each request was counted, or None
          tokens, last,\* the bucket: None when it does not exist
          used,        \* tokens taken so far
          mark, markUsed, \* an observer's instant, and used at that instant
          until,       \* end of the block, 0 when there was none
          retryAt      \* end of the last refusal of the bucket, or None

conf == <<algorithm, per>>
counter == <<born, total>>
bucket == <<tokens, last, used>>
observer == <<mark, markUsed>>
vars == <<conf, now, pc, seen, value, counter, counted, bucket, observer, until, retryAt>>

(* newRateLimiter: the configured algorithm, else the sliding window.       *)
Init ==
    /\ algorithm \in {IF a = "token-bucket" THEN a ELSE "sliding-window" : a \in Algorithm}
    /\ per \in Per
    /\ now = 0
    /\ pc = [r \in Request |-> "new"]
    /\ seen = [r \in Request |-> 0]
    /\ value = [r \in Request |-> 0]
    /\ born = None /\ total = 0
    /\ counted = [r \in Request |-> None]
    /\ tokens = Capacity /\ last = None /\ used = 0
    /\ mark = 0 /\ markUsed = 0
    /\ until = 0 /\ retryAt = None

-----------------------------------------------------------------------------
(* Check reads the blocklist and answers before the request is counted.     *)
Check(r) ==
    /\ pc[r] = "new"
    /\ pc' = [pc EXCEPT ![r] = IF now < until THEN "denied" ELSE "asked"]
    /\ UNCHANGED <<conf, now, seen, value, counter, counted, bucket, observer, until,
                   retryAt>>

(* Mutant of CounterAlive: the counter never expires.                       *)
CounterForever == born # None

CounterAlive == born # None /\ now < born + Window

(* Increment: otter drops the counter Window after it was created, however  *)
(* often it is read.                                                        *)
Increment(r) ==
    LET v == IF CounterAlive THEN total + 1 ELSE 1
    IN  /\ pc[r] = "asked"
        /\ born' = IF CounterAlive THEN born ELSE now
        /\ total' = v
        /\ value' = [value EXCEPT ![r] = v]
        /\ counted' = [counted EXCEPT ![r] = now]
        /\ pc' = [pc EXCEPT ![r] = "counted"]
        /\ UNCHANGED <<conf, now, seen, bucket, observer, until, retryAt>>

(* blocklist.Block(key, ttl); a TTL of zero lasts a moment.  Whether writing *)
(* over a live entry renews its end is up to the cache library.             *)
Block(ttl) ==
    until' \in {now + (IF ttl > 0 THEN ttl ELSE 1)}
               \cup (IF now < until THEN {until} ELSE {})

(* SlidingWindow.Evaluate and what Process does with the decision.          *)
EvaluateWindow(r) ==
    /\ pc[r] = "counted" /\ algorithm = "sliding-window"
    /\ pc' = [pc EXCEPT ![r] = "done"]
    /\ IF value[r] > Limit THEN Block(per) ELSE UNCHANGED until
    /\ value' = [value EXCEPT ![r] = 0]
    /\ UNCHANGED <<conf, now, seen, counter, counted, bucket, observer, retryAt>>

(* getOrCreate: the candidate is made first, with the time of that moment.  *)
MakeCandidate(r) ==
    /\ pc[r] = "counted" /\ algorithm = "token-bucket"
    /\ pc' = [pc EXCEPT ![r] = "candidate"]
    /\ seen' = [seen EXCEPT ![r] = now]
    /\ value' = [value EXCEPT ![r] = 0]     \* only reported by this algorithm
    /\ UNCHANGED <<conf, now, counter, counted, bucket, observer, until, retryAt>>

LoadOrStore(r) ==
    /\ pc[r] = "candidate"
    /\ pc' = [pc EXCEPT ![r] = "loaded"]
    /\ last' = IF last = None THEN seen[r] ELSE last
    /\ seen' = [seen EXCEPT ![r] = 0]
    /\ UNCHANGED <<conf, now, value, counter, counted, tokens, used, observer,
                   until, retryAt>>

Least(a, b) == IF a <= b THEN a ELSE b

(* Mutant of Refilled: no cap.                                              *)
RefilledUncapped == IF last = None THEN Capacity ELSE tokens + (now - last) * Rate

(* What the bucket holds after a refill at this moment.                     *)
Refilled == IF last = None THEN Capacity ELSE Least(Capacity, tokens + (now - last) * Rate)

(* Mutant of RetryAfter: the time for what is there, not what is missing.   *)
RetryAfterHeld == Refilled \div Rate

(* RetryAfter of an empty bucket; the conversion to a Duration truncates.   *)
RetryAfter == (Unit - Refilled) \div Rate

(* TokenBucket.Evaluate, under the lock of the bucket.                      *)
EvaluateBucket(r) ==
    /\ pc[r] = "loaded"
    /\ pc' = [pc EXCEPT ![r] = "done"]
    /\ last' = now
    /\ IF Refilled >= Unit
       THEN /\ tokens' = Refilled - Unit
            /\ used' = used + 1
            /\ retryAt' = None
            /\ UNCHANGED until
       ELSE /\ tokens' = Refilled
            /\ retryAt' = now + RetryAfter
            /\ Block(RetryAfter)
            /\ UNCHANGED used
    /\ UNCHANGED <<conf, now, seen, value, counter, counted, observer>>

Tick ==
    /\ now < MaxTime
    /\ now' = now + 1
    /\ UNCHANGED <<conf, pc, seen, value, counter, counted, bucket, observer, until,
                   retryAt>>

(* The observer starts its stop watch: an instant the properties refer to.  *)
Observe ==
    /\ mark' = now /\ markUsed' = used
    /\ UNCHANGED <<conf, now, pc, seen, value, counter, counted, bucket, until, retryAt>>

Next ==
    \/ \E r \in Request :
         \/ Check(r) \/ Increment(r) \/ EvaluateWindow(r)
         \/ MakeCandidate(r) \/ LoadOrStore(r) \/ EvaluateBucket(r)
    \/ Tick \/ Observe

Spec == Init /\ [][Next]_vars

-----------------------------------------------------------------------------
(* Properties.                                                             *)

(* The rate limit of the token bucket, over every interval: from any        *)
(* instant on, no more tokens are taken than a full bucket and the refill   *)
(* since that instant provide, however requests are scheduled.              *)
RateBound == (used - markUsed) * Unit <= Capacity + (now - mark) * Rate

(* The bucket's RetryAfter is long enough: once it and one more tick (it is *)
(* truncated) are over, the bucket has a token for the next request.        *)
RetryIsEnough == retryAt # None /\ now > retryAt /\ Capacity >= Unit => Refilled >= Unit

(* Requests counted in the d ticks up to t.                                 *)
Recent(t, d) == Cardinality({r \in Request : counted[r] # None /\ t - d < counted[r]
                                           /\ counted[r] <= t})

(* A block of the sliding window is earned: when it is set, more than       *)
(* rule.Limit requests were counted within one window of the cache.         *)
BlockIsEarned ==
    [][\A r \in Request : EvaluateWindow(r) /\ until' # until =>
          Recent(counted[r], Window) > Limit]_vars

(* internal/ratelimit/sliding_window.go: "entries expire after the rule's   *)
(* `per` duration": a block needs more than rule.Limit requests within per. *)
BlockFitsRule ==
    [][\A r \in Request : EvaluateWindow(r) /\ until' # until =>
          Recent(counted[r], per) > Limit]_vars
=============================================================================
