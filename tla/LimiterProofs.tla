--------------------------- MODULE LimiterProofs ----------------------------
(***************************************************************************)
(* What a node counts: the limits (Limiter) and the shares of the          *)
(* upstream addresses (the balancer of Gateway).                           *)
(*                                                                         *)
(* The token bucket keeps its rate over every interval and its RetryAfter  *)
(* is long enough, for every capacity, rate and size of a token; the       *)
(* sliding window blocks only what exceeded its limit.  The balancer       *)
(* spreads the requests evenly, for every pool and every number of         *)
(* requests that does not take its counter around twice.                   *)
(***************************************************************************)
EXTENDS Limiter, Proxying, FiniteSetTheorems, TLAPS

(* The types the arithmetic needs.                                          *)
Numbers ==
    /\ now \in Nat /\ tokens \in Nat /\ tokens <= Capacity
    /\ last \in Nat \cup {None} /\ (last # None => last <= now)
    /\ (last = None => tokens = Capacity)
    /\ seen \in [Request -> Nat] /\ (\A r \in Request : seen[r] <= now)
    /\ used \in Nat /\ mark \in Nat /\ mark <= now /\ markUsed \in Nat
    /\ retryAt \in Nat \cup {None}

(* RateBound with what the bucket holds now: a refill never gives more than *)
(* the time since the mark does, and taking a token pays for it.            *)
Budget == (used - markUsed) * Unit + Refilled <= Capacity + (now - mark) * Rate

(* What is missing to a token is refilled one tick after retryAt.           *)
Promise ==
    retryAt # None /\ Capacity >= Unit =>
        Refilled >= Unit \/ Refilled + (retryAt + 1 - now) * Rate >= Unit

IInv == Numbers /\ Budget /\ Promise

-----------------------------------------------------------------------------
(* A product of natural numbers is one.                                     *)
LEMMA ProductNat == \A a, b \in Nat : a * b \in Nat
  OBVIOUS

(* Truncating division loses less than the divisor.                         *)
LEMMA Truncation ==
    ASSUME NEW a \in Nat, NEW b \in Nat \ {0}
    PROVE  a \div b \in Nat /\ (a \div b + 1) * b > a
  OBVIOUS

(* What the bucket holds is between nothing and its capacity.               *)
LEMMA RefilledRange ==
    ASSUME Numbers
    PROVE  Refilled \in Nat /\ Refilled <= Capacity
  <1>1. CASE last = None
    BY Zenon, <1>1, LimiterAssumption DEF Refilled, Numbers
  <1>2. CASE last # None
    <2>1. (now - last) * Rate \in Nat
      BY <1>2, LimiterAssumption, ProductNat DEF Numbers
    <2>. QED
      BY <1>2, <2>1, LimiterAssumption DEF Refilled, Least, Numbers
  <1>. QED
    BY Zenon, <1>1, <1>2
(* The same after a step.                                                   *)
LEMMA RefilledRangeNext ==
    ASSUME Numbers'
    PROVE  Refilled' \in Nat /\ Refilled' <= Capacity
  <1>1. CASE last' = None
    BY Zenon, <1>1, LimiterAssumption DEF Refilled, Numbers
  <1>2. CASE last' # None
    <2>1. now' - last' \in Nat /\ tokens' \in Nat
      <3>1. last' \in Nat /\ now' \in Nat /\ tokens' \in Nat
        BY <1>2, Zenon DEF Numbers
      <3>2. last' <= now'
        BY <1>2, Zenon DEF Numbers
      <3>3. \A x, y \in Nat : x <= y => y - x \in Nat
        OBVIOUS
      <3>. QED
        BY <3>1, <3>2, <3>3, Zenon
    <2>2. (now' - last') * Rate \in Nat
      BY Zenon, <2>1, LimiterAssumption, ProductNat
    <2>3. \A x, y \in Nat : LET z == Least(Capacity, x + y) IN z \in Nat /\ z <= Capacity
      BY LimiterAssumption DEF Least
    <2>4. Refilled' = Least(Capacity, tokens' + (now' - last') * Rate)
      BY Zenon, <1>2 DEF Refilled
    <2>. QED
      BY Zenon, <2>1, <2>2, <2>3, <2>4
  <1>. QED
    BY Zenon, <1>1, <1>2

-----------------------------------------------------------------------------
(* No bucket and nothing taken at first.                                   *)
LEMMA InitInv == Init => IInv
  <1>. SUFFICES ASSUME Init PROVE IInv
    BY Zenon
  <1>1. Refilled = Capacity
    BY Zenon DEF Init, Refilled
  <1>. QED
    BY <1>1, LimiterAssumption DEF Init, IInv, Numbers, Budget, Promise

(* Steps that leave clock, bucket, observer and promise alone.              *)
LEMMA Undisturbed ==
    ASSUME IInv, UNCHANGED <<now, bucket, observer, retryAt>>,
           seen' \in [Request -> Nat], \A r \in Request : seen'[r] <= now
    PROVE  IInv'
  <1>1. Refilled' = Refilled
    BY Zenon DEF Refilled, Least, bucket
  <1>. QED
    BY Zenon, <1>1 DEF IInv, Numbers, Budget, Promise, bucket, observer

(* Storing the candidate does not change what the bucket holds: it is full. *)
LEMMA LoadOrStoreInv ==
    ASSUME IInv, NEW r \in Request, LoadOrStore(r)
    PROVE  IInv'
  <1>1. Numbers'
    BY LimiterAssumption DEF LoadOrStore, IInv, Numbers, observer
  <1>2. Refilled' = Refilled
    <2>1. CASE last # None
      BY Zenon, <2>1 DEF LoadOrStore, Refilled, Least
    <2>2. CASE last = None
      <3>1. last' = seen[r] /\ seen[r] \in Nat /\ seen[r] <= now /\ now \in Nat
        BY Zenon, <2>2 DEF LoadOrStore, IInv, Numbers
      <3>2. (now - seen[r]) * Rate \in Nat
        BY <3>1, LimiterAssumption, ProductNat
      <3>3. Refilled' = Least(Capacity, Capacity + (now - seen[r]) * Rate)
        BY <2>2, <3>1, LimiterAssumption DEF LoadOrStore, IInv, Numbers, Refilled
      <3>. QED
        BY <2>2, <3>2, <3>3, LimiterAssumption DEF Refilled, Least
    <2>. QED
      BY Zenon, <2>1, <2>2
  <1>. QED
    BY Zenon, <1>1, <1>2 DEF LoadOrStore, IInv, Budget, Promise, observer

(* A decision: a token is paid for, or the time of the missing part noted.  *)
LEMMA EvaluateBucketInv ==
    ASSUME IInv, NEW r \in Request, EvaluateBucket(r)
    PROVE  IInv'
  <1>. DEFINE R == Refilled
  <1>1. R \in Nat /\ R <= Capacity
    BY Zenon, RefilledRange DEF IInv
  <1>2. last' = now /\ now' = now /\ now \in Nat
    BY Zenon DEF EvaluateBucket, IInv, Numbers
  <1>3. tokens' \in Nat /\ tokens' <= Capacity
    BY <1>1, LimiterAssumption DEF EvaluateBucket
  <1>4. Refilled' = tokens'
    <2>1. last' # None /\ (now' - last') * Rate = 0
      BY <1>2, LimiterAssumption
    <2>2. Refilled' = Least(Capacity, tokens' + 0)
      BY Zenon, <2>1 DEF Refilled
    <2>3. \A x \in Nat : x <= Capacity => Least(Capacity, x + 0) = x
      BY LimiterAssumption DEF Least
    <2>. QED
      BY Zenon, <1>3, <2>2, <2>3
  <1>5. CASE R >= Unit
    <2>1. tokens' = R - Unit /\ used' = used + 1 /\ retryAt' = None
      BY Zenon, <1>5 DEF EvaluateBucket
    <2>2. Numbers'
      BY <1>2, <1>3, <2>1, LimiterAssumption DEF EvaluateBucket, IInv, Numbers, observer
    <2>3. Budget'
      BY <1>1, <1>2, <1>4, <2>1, LimiterAssumption
         DEF EvaluateBucket, IInv, Numbers, Budget, observer
    <2>. QED
      BY Zenon, <2>1, <2>2, <2>3 DEF IInv, Promise
  <1>6. CASE ~(R >= Unit)
    <2>. DEFINE q == (Unit - R) \div Rate
    <2>1. tokens' = R /\ used' = used /\ retryAt' = now + q
      BY Zenon, <1>6 DEF EvaluateBucket, RetryAfter
    <2>2. q \in Nat /\ (q + 1) * Rate > Unit - R
      BY <1>1, <1>6, Truncation, LimiterAssumption
    <2>3. Numbers'
      BY <1>2, <1>3, <2>1, <2>2, LimiterAssumption DEF EvaluateBucket, IInv, Numbers, observer
    <2>4. Budget'
      BY Zenon, <1>2, <1>4, <2>1 DEF EvaluateBucket, IInv, Numbers, Budget, observer
    <2>5. retryAt' + 1 - now' = q + 1
      BY <1>2, <2>1, <2>2
    <2>6. Promise'
      BY <1>1, <1>4, <2>1, <2>2, <2>5, LimiterAssumption DEF Promise
    <2>. QED
      BY Zenon, <2>3, <2>4, <2>6 DEF IInv
  <1>. QED
    BY Zenon, <1>5, <1>6

(* A tick refills at most Rate parts, and all of them unless it fills up.   *)
LEMMA TickRefill ==
    ASSUME IInv, Tick
    PROVE  Refilled' <= Refilled + Rate /\ (Refilled' = Capacity \/ Refilled' = Refilled + Rate)
  <1>1. Numbers'
    BY DEF Tick, IInv, Numbers, bucket, observer
  <1>2. /\ Refilled \in Nat /\ Refilled <= Capacity
        /\ Refilled' \in Nat /\ Refilled' <= Capacity
    BY Zenon, <1>1, RefilledRange, RefilledRangeNext DEF IInv
  <1>3. now' = now + 1 /\ now \in Nat /\ mark \in Nat /\ used \in Nat /\ markUsed \in Nat
    BY Zenon DEF Tick, IInv, Numbers
  <1>4. UNCHANGED <<tokens, last, used, mark, markUsed, retryAt>>
    BY Zenon DEF Tick, bucket, observer
  <1>5. CASE last = None
    <2>1. Refilled' = Refilled
      BY Zenon, <1>4, <1>5 DEF Refilled
    <2>2. Refilled = Capacity
      BY Zenon, <1>5 DEF Refilled
    <2>3. Refilled' <= Refilled + Rate /\ (Refilled' = Capacity \/ Refilled' = Refilled + Rate)
      BY <1>2, <2>1, <2>2, LimiterAssumption
    <2>. QED
      BY Zenon, <2>3
  <1>6. CASE last # None
    <2>1. last \in Nat /\ tokens \in Nat
      BY Zenon, <1>6 DEF IInv, Numbers
    <2>2. (now' - last) * Rate = (now - last) * Rate + Rate
      BY <1>3, <2>1, LimiterAssumption
    <2>3. (now - last) * Rate \in Int
      BY <1>3, <2>1, LimiterAssumption
    <2>4. Refilled' = Least(Capacity, tokens + ((now - last) * Rate + Rate))
      BY Zenon, <1>4, <1>6, <2>2 DEF Refilled
    <2>5. Refilled = Least(Capacity, tokens + (now - last) * Rate)
      BY Zenon, <1>6 DEF Refilled
    <2>6. \A x \in Int : Least(Capacity, tokens + (x + Rate)) <= Least(Capacity, tokens + x) + Rate
      BY <2>1, LimiterAssumption DEF Least
    <2>7. \A x \in Int : \/ Least(Capacity, tokens + (x + Rate)) = Capacity
                         \/ Least(Capacity, tokens + (x + Rate)) = Least(Capacity, tokens + x) + Rate
      BY <2>1, LimiterAssumption DEF Least
    <2>. QED
      BY Zenon, <2>3, <2>4, <2>5, <2>6, <2>7
  <1>. QED
    BY Zenon, <1>5, <1>6

(* What a tick refills keeps the bound and the promise of RetryAfter.       *)
LEMMA TickInv ==
    ASSUME IInv, Tick
    PROVE  IInv'
  <1>1. Numbers'
    BY DEF Tick, IInv, Numbers, bucket, observer
  <1>2. /\ Refilled \in Nat /\ Refilled <= Capacity
        /\ Refilled' \in Nat /\ Refilled' <= Capacity
    BY Zenon, <1>1, RefilledRange, RefilledRangeNext DEF IInv
  <1>3. now' = now + 1 /\ now \in Nat /\ mark \in Nat /\ used \in Nat /\ markUsed \in Nat
    BY Zenon DEF Tick, IInv, Numbers
  <1>4. UNCHANGED <<used, mark, markUsed, retryAt>>
    BY Zenon DEF Tick, bucket, observer
  <1>5. Budget'
    <2>1. (now' - mark) * Rate = (now - mark) * Rate + Rate
      BY <1>3, LimiterAssumption
    <2>2. (now - mark) * Rate \in Int /\ (used - markUsed) * Unit \in Int
      BY <1>3, LimiterAssumption
    <2>. QED
      BY <1>2, <1>4, <2>1, <2>2, TickRefill, LimiterAssumption DEF IInv, Budget
  <1>6. Promise'
    <2>. SUFFICES ASSUME retryAt # None, Capacity >= Unit, ~(Refilled' >= Unit)
                  PROVE  Refilled' + (retryAt + 1 - now') * Rate >= Unit
      BY Zenon, <1>4 DEF Promise
    <2>1. Refilled' = Refilled + Rate
      BY Zenon, <1>2, TickRefill, LimiterAssumption
    <2>2. ~(Refilled >= Unit)
      BY <1>2, <2>1, LimiterAssumption
    <2>3. Refilled + (retryAt + 1 - now) * Rate >= Unit
      BY Zenon, <2>2 DEF IInv, Promise
    <2>4. retryAt \in Nat
      BY Zenon DEF IInv, Numbers
    <2>5. (retryAt + 1 - now') * Rate = (retryAt + 1 - now) * Rate - Rate
      BY <1>3, <2>4, LimiterAssumption
    <2>6. (retryAt + 1 - now) * Rate \in Int
      BY <1>3, <2>4, LimiterAssumption
    <2>. QED
      BY <1>2, <2>1, <2>3, <2>5, <2>6, LimiterAssumption
  <1>. QED
    BY Zenon, <1>1, <1>5, <1>6 DEF IInv

(* A new mark: nothing was taken since, and the bucket is at most full.     *)
LEMMA ObserveInv ==
    ASSUME IInv, Observe
    PROVE  IInv'
  <1>1. Refilled' = Refilled
    BY Zenon DEF Observe, Refilled, Least, bucket
  <1>2. Numbers' /\ Promise'
    BY <1>1 DEF Observe, IInv, Numbers, Promise, bucket
  <1>3. (used' - markUsed') * Unit = 0 /\ (now' - mark') * Rate = 0
    BY LimiterAssumption DEF Observe, IInv, Numbers, bucket
  <1>4. Budget'
    BY <1>1, <1>3, RefilledRange, LimiterAssumption DEF IInv, Budget
  <1>. QED
    BY Zenon, <1>2, <1>4 DEF IInv

(* Every step of the limiters keeps the inductive invariant.               *)
LEMMA StepInv == IInv /\ [Next]_vars => IInv'
  <1>. SUFFICES ASSUME IInv, [Next]_vars PROVE IInv'
    BY Zenon
  <1>1. ASSUME NEW r \in Request, Check(r) \/ Increment(r) \/ EvaluateWindow(r)
        PROVE  IInv'
    BY Zenon, <1>1, Undisturbed DEF Check, Increment, EvaluateWindow, IInv, Numbers
  <1>2. ASSUME NEW r \in Request, MakeCandidate(r)
        PROVE  IInv'
    BY <1>2, Undisturbed DEF MakeCandidate, IInv, Numbers
  <1>3. CASE UNCHANGED vars
    BY Zenon, <1>3, Undisturbed DEF vars, IInv, Numbers
  <1>. QED
    BY Zenon, <1>1, <1>2, <1>3, LoadOrStoreInv, EvaluateBucketInv, TickInv, ObserveInv DEF Next

-----------------------------------------------------------------------------
(* From any instant on, requests take no more tokens from the bucket than   *)
(* its capacity and the refill since then.                                  *)
THEOREM RateIsKept == Spec => []RateBound
  <1>1. IInv => RateBound
    <2>. SUFFICES ASSUME IInv PROVE RateBound
      BY Zenon
    <2>1. (used - markUsed) * Unit \in Int /\ (now - mark) * Rate \in Int
      BY LimiterAssumption DEF IInv, Numbers
    <2>. QED
      BY <2>1, RefilledRange, LimiterAssumption DEF IInv, Budget, RateBound
  <1>. QED
    BY <1>1, InitInv, StepInv, PTL DEF Spec

(* A client that waits for the RetryAfter of the bucket and one tick more   *)
(* finds a token, unless another request took it.                           *)
THEOREM RetryAfterSuffices == Spec => []RetryIsEnough
  <1>1. IInv => RetryIsEnough
    <2>. SUFFICES ASSUME IInv, retryAt # None, now > retryAt, Capacity >= Unit,
                         ~(Refilled >= Unit)
                  PROVE  FALSE
      BY Zenon DEF RetryIsEnough
    <2>1. Refilled + (retryAt + 1 - now) * Rate >= Unit
      BY Zenon DEF IInv, Promise
    <2>2. now \in Nat /\ retryAt \in Nat /\ now - retryAt - 1 \in Nat
      BY DEF IInv, Numbers
    <2>3. (now - retryAt - 1) * Rate \in Nat
      BY Zenon, <2>2, ProductNat, LimiterAssumption
    <2>4. (retryAt + 1 - now) * Rate = 0 - (now - retryAt - 1) * Rate
      BY <2>2, LimiterAssumption
    <2>. QED
      BY <2>1, <2>3, <2>4, RefilledRange, LimiterAssumption DEF IInv
  <1>. QED
    BY <1>1, InitInv, StepInv, PTL DEF Spec
-----------------------------------------------------------------------------

(* The requests counted so far, and those counted since t.                  *)
Counted == {r \in Request : counted[r] # None}
Since(t) == {r \in Counted : t <= counted[r]}

Stage == {"new", "asked", "counted", "candidate", "loaded", "done", "denied"}

(* The counter holds no more than were counted since it was created, and    *)
(* the count a goroutine was given, no more than in the window before it.   *)
CountInv ==
    /\ now \in Nat /\ total \in Nat
    /\ pc \in [Request -> Stage] /\ value \in [Request -> Nat]
    /\ counted \in [Request -> Nat \cup {None}]
    /\ IsFiniteSet(Counted)
    /\ \A r \in Request : pc[r] \in {"new", "asked"} => counted[r] = None
    /\ \A r \in Counted : counted[r] <= now
    /\ born \in Nat \cup {None} /\ (born # None => born <= now)
    /\ born # None => total <= Cardinality(Since(born))
    /\ \A r \in Request : pc[r] = "counted" =>
          counted[r] # None /\ value[r] <= Recent(counted[r], Window)

(* A larger finite set has no smaller cardinality.                          *)
LEMMA LargerSet ==
    ASSUME NEW S, NEW T, IsFiniteSet(T), S \subseteq T
    PROVE  IsFiniteSet(S) /\ Cardinality(S) \in Nat /\ Cardinality(S) <= Cardinality(T)
BY Zenon, FS_Subset, FS_CardinalityType

(* A step that counts nothing keeps CountInv.                               *)
LEMMA NothingCounted ==
    ASSUME CountInv, UNCHANGED <<counted, born, total>>, now' \in Nat, now <= now',
           pc' \in [Request -> Stage], value' \in [Request -> Nat],
           \A r \in Request : /\ pc'[r] \in {"new", "asked"} => pc[r] \in {"new", "asked"}
                              /\ pc'[r] = "counted" => pc[r] = "counted" /\ value'[r] = value[r]
    PROVE  CountInv'
<1>1. Counted' = Counted /\ (born # None => Since(born)' = Since(born))
  BY Zenon DEF Counted, Since
<1>2. \A r \in Request : Recent(counted[r], Window)' = Recent(counted[r], Window)
  BY Zenon DEF Recent
<1> QED
  BY <1>1, <1>2 DEF CountInv, Counted

(* Increment counts a request that was not counted.                         *)
LEMMA IncrementInv ==
    ASSUME CountInv, NEW r \in Request, Increment(r)
    PROVE  CountInv'
<1> DEFINE v == IF CounterAlive THEN total + 1 ELSE 1
<1>1. /\ pc[r] = "asked" /\ counted[r] = None
      /\ born' = (IF CounterAlive THEN born ELSE now)
      /\ total' = v
      /\ value' = [value EXCEPT ![r] = v]
      /\ counted' = [counted EXCEPT ![r] = now]
      /\ pc' = [pc EXCEPT ![r] = "counted"]
      /\ now' = now
  BY Zenon DEF Increment, CountInv
<1>2. v \in Nat /\ now # None
  BY LimiterAssumption DEF CountInv
<1> HIDE DEF v
<1>3. \A q \in Request : counted'[q] = IF q = r THEN now ELSE counted[q]
  BY Zenon, <1>1 DEF CountInv
<1>4. Counted' = Counted \cup {r} /\ r \notin Counted
  BY <1>1, <1>2, <1>3 DEF Counted
<1>5. IsFiniteSet(Counted')
  BY Zenon, <1>4, FS_AddElement DEF CountInv
<1>6. born' \in Nat /\ born' <= now /\ now < born' + Window /\ born' # None
  BY <1>1, LimiterAssumption DEF CounterAlive, CountInv
<1>7. Since(born)' \subseteq Counted' /\ IsFiniteSet(Since(born)')
  <2>1. Since(born)' \subseteq Counted'
    BY Zenon DEF Since
  <2> QED
    BY Zenon, <1>5, <2>1, LargerSet
<1>8. v <= Cardinality(Since(born)')
  <2>1. r \in Since(born)'
    BY Zenon, <1>3, <1>4, <1>6 DEF Since
  <2>2. CASE CounterAlive
    <3>1. born' = born /\ born # None /\ v = total + 1
      BY Zenon, <1>1, <2>2 DEF CounterAlive, v
    <3>2. Since(born) \subseteq Counted /\ r \notin Since(born) /\ IsFiniteSet(Since(born))
      <4>1. Since(born) \subseteq Counted
        BY Zenon DEF Since
      <4> QED
        BY Zenon, <1>4, <4>1, LargerSet DEF CountInv
    <3>3. Since(born) \cup {r} \subseteq Since(born)'
      BY Zenon, <1>3, <1>4, <2>1, <3>1 DEF Since, Counted
    <3>4. Cardinality(Since(born) \cup {r}) = Cardinality(Since(born)) + 1
      BY Zenon, <3>2, FS_AddElement
    <3>5. Cardinality(Since(born) \cup {r}) <= Cardinality(Since(born)')
      BY Zenon, <1>7, <3>3, LargerSet
    <3>6. Cardinality(Since(born)) \in Nat /\ Cardinality(Since(born)') \in Nat
      BY Zenon, <1>7, <3>2, FS_CardinalityType
    <3> QED
      BY <3>1, <3>4, <3>5, <3>6 DEF CountInv
  <2>3. CASE ~CounterAlive
    <3>1. Cardinality({r}) = 1 /\ {r} \subseteq Since(born)'
      BY Zenon, <2>1, FS_Singleton
    <3>2. Cardinality({r}) <= Cardinality(Since(born)')
      BY Zenon, <1>7, <3>1, LargerSet
    <3> QED
      BY Zenon, <2>3, <3>1, <3>2 DEF v
  <2> QED
    BY Zenon, <2>2, <2>3
<1>9. ASSUME NEW q \in Request, pc'[q] = "counted"
      PROVE  counted'[q] # None /\ value'[q] <= Recent(counted[q], Window)'
  <2> DEFINE W(c, t) == {s \in Request : c[s] # None /\ t - Window < c[s] /\ c[s] <= t}
  <2>1. Recent(counted[q], Window)' = Cardinality(W(counted', counted'[q]))
    BY Zenon DEF Recent
  <2>2. W(counted', counted'[q]) \subseteq Counted'
    BY Zenon DEF Counted
  <2>3. CASE q = r
    <3>1. Since(born)' \subseteq W(counted', now)
      <4> SUFFICES ASSUME NEW s \in Since(born)' PROVE s \in W(counted', now)
        BY Zenon
      <4>1. s \in Counted' /\ s \in Request /\ born' <= counted'[s] /\ counted'[s] # None
        BY Zenon DEF Since, Counted
      <4>2. counted'[s] \in Nat /\ counted'[s] <= now
        BY SMTT(60), <1>1, <1>2, <1>3, <1>4, <4>1 DEF CountInv, Counted
      <4>3. now - Window < counted'[s]
        BY <1>6, <4>1, <4>2, LimiterAssumption DEF CountInv
      <4> QED
        BY Zenon, <4>1, <4>2, <4>3
    <3>2. counted'[q] = now /\ value'[q] = v
      BY Zenon, <1>1, <1>3, <2>3 DEF CountInv
    <3>3. Cardinality(Since(born)') <= Cardinality(W(counted', now)) /\ Cardinality(W(counted', now)) \in Nat
          /\ Cardinality(Since(born)') \in Nat
      BY ZenonT(60), <1>5, <1>7, <2>2, <3>1, <3>2, LargerSet, FS_CardinalityType
    <3> HIDE DEF W
    <3> QED
      BY <1>2, <1>8, <2>1, <3>2, <3>3
  <2>4. CASE q # r
    <3>1. pc[q] = "counted" /\ counted'[q] = counted[q] /\ value'[q] = value[q] /\ counted[q] # None
      BY Zenon, <1>1, <1>3, <1>9, <2>4 DEF CountInv
    <3>2. W(counted, counted[q]) \subseteq W(counted', counted[q])
      BY <1>1, <1>3
    <3>3. /\ Cardinality(W(counted, counted[q])) <= Cardinality(W(counted', counted[q]))
          /\ Cardinality(W(counted, counted[q])) \in Nat
          /\ Cardinality(W(counted', counted[q])) \in Nat
      BY Zenon, <1>5, <2>2, <3>1, <3>2, LargerSet
    <3>4. Recent(counted[q], Window) = Cardinality(W(counted, counted[q]))
      BY Zenon DEF Recent
    <3>5. value[q] \in Nat /\ value[q] <= Cardinality(W(counted, counted[q]))
      BY Zenon, <3>1, <3>4 DEF CountInv
    <3> HIDE DEF W
    <3> QED
      BY <2>1, <3>1, <3>3, <3>5
  <2> QED
    BY Zenon, <2>3, <2>4
<1>10. pc' \in [Request -> Stage] /\ value' \in [Request -> Nat] /\ counted' \in [Request -> Nat \cup {None}]
  BY Zenon, <1>1, <1>2 DEF CountInv, Stage
<1>11. \A q \in Request : pc'[q] \in {"new", "asked"} => counted'[q] = None
  BY Zenon, <1>1, <1>3 DEF CountInv
<1>12. \A q \in Counted' : counted'[q] <= now'
  BY <1>1, <1>3, <1>4 DEF CountInv, Counted
<1> QED
  BY ZenonT(60), <1>1, <1>2, <1>5, <1>6, <1>8, <1>9, <1>10, <1>11, <1>12 DEF CountInv

(* Every step keeps CountInv.                                               *)
LEMMA NextCount == CountInv /\ [Next]_vars => CountInv'
<1> SUFFICES ASSUME CountInv, [Next]_vars PROVE CountInv'
  BY Zenon
<1>1. ASSUME NEW r \in Request, Check(r) PROVE CountInv'
  <2>1. UNCHANGED <<counted, born, total, now, value>>
    BY Zenon, <1>1 DEF Check, counter
  <2>2. pc[r] = "new" /\ \E p \in {"denied", "asked"} : pc' = [pc EXCEPT ![r] = p]
    BY Zenon, <1>1 DEF Check
  <2> QED
    BY <2>1, <2>2, NothingCounted DEF CountInv, Stage
<1>2. ASSUME NEW r \in Request, EvaluateWindow(r) \/ MakeCandidate(r) PROVE CountInv'
  <2>1. UNCHANGED <<counted, born, total, now>> /\ value' = [value EXCEPT ![r] = 0]
    BY Zenon, <1>2 DEF EvaluateWindow, MakeCandidate, counter
  <2>2. \E p \in {"done", "candidate"} : pc' = [pc EXCEPT ![r] = p]
    BY ZenonT(60), <1>2 DEF EvaluateWindow, MakeCandidate
  <2> QED
    BY <2>1, <2>2, NothingCounted DEF CountInv, Stage
<1>3. ASSUME NEW r \in Request, LoadOrStore(r) \/ EvaluateBucket(r) PROVE CountInv'
  <2>1. UNCHANGED <<counted, born, total, now, value>>
    BY Zenon, <1>3 DEF LoadOrStore, EvaluateBucket, counter
  <2>2. \E p \in {"loaded", "done"} : pc' = [pc EXCEPT ![r] = p]
    BY ZenonT(60), <1>3 DEF LoadOrStore, EvaluateBucket
  <2> QED
    BY <2>1, <2>2, NothingCounted DEF CountInv, Stage
<1>4. CASE Tick \/ Observe
  BY SMTT(60), <1>4, NothingCounted DEF Tick, Observe, CountInv, counter
<1>5. CASE UNCHANGED vars
  BY <1>5, NothingCounted DEF vars, CountInv, counter
<1> QED
  BY Zenon, <1>1, <1>2, <1>3, <1>4, <1>5, IncrementInv DEF Next

(* A block of the sliding window is earned, for every limit, window and     *)
(* number of requests: more than rule.Limit requests were counted within    *)
(* one window of the cache.                                                 *)
THEOREM BlocksAreEarned == Spec => BlockIsEarned
<1>1. Init => CountInv
  <2> SUFFICES ASSUME Init PROVE CountInv
    BY Zenon
  <2>1. Counted = {}
    BY Zenon DEF Init, Counted
  <2> QED
    BY Zenon, <2>1, FS_EmptySet DEF Init, CountInv, Stage
<1>2. CountInv /\ [Next]_vars =>
        [\A r \in Request : EvaluateWindow(r) /\ until' # until =>
            Recent(counted[r], Window) > Limit]_vars
  <2> SUFFICES ASSUME CountInv, NEW r \in Request, EvaluateWindow(r), until' # until
               PROVE  Recent(counted[r], Window) > Limit
    BY Zenon
  <2>1. pc[r] = "counted" /\ value[r] > Limit
    BY Zenon DEF EvaluateWindow
  <2>2. Recent(counted[r], Window) \in Nat
    BY Zenon, LargerSet DEF Recent, CountInv, Counted
  <2> QED
    BY <2>1, <2>2, LimiterAssumption DEF CountInv
<1> QED
  BY <1>1, <1>2, NextCount, PTL DEF Spec, BlockIsEarned

-----------------------------------------------------------------------------
(* Where a request can be in the proxy.                                     *)
Stages == {"new", "oidc", "limit", "forward", "upstream", "process", "end"}

(* The remainder of the next number.                                        *)
LEMMA NextRemainder ==
    ASSUME NEW c \in Nat, NEW n \in Nat \ {0}
    PROVE  /\ c % n \in 0..(n - 1)
           /\ (c + 1) % n = IF c % n = n - 1 THEN 0 ELSE (c % n) + 1
<1> DEFINE q == c \div n
           r == c % n
<1>1. q \in Nat /\ r \in 0..(n - 1) /\ c = q * n + r
  OBVIOUS
<1>2. \A d \in Nat, p \in Nat : \A s \in 0..(n - 1) : d = p * n + s => d % n = s
  OBVIOUS
<1> HIDE DEF q, r
<1>3. CASE r = n - 1
  <2>1. c + 1 = (q + 1) * n + 0
    BY <1>1, <1>3
  <2>2. c + 1 \in Nat /\ q + 1 \in Nat /\ 0 \in 0..(n - 1)
    BY <1>1
  <2>3. (c + 1) % n = 0
    BY Zenon, <1>2, <2>1, <2>2
  <2> QED BY Zenon, <1>1, <1>3, <2>3 DEF r
<1>4. CASE r # n - 1
  <2>1. c + 1 = q * n + (r + 1) /\ r + 1 \in 0..(n - 1)
    BY <1>1, <1>4
  <2>2. (c + 1) % n = r + 1
    BY <1>1, <1>2, <2>1
  <2> QED BY Zenon, <1>1, <1>4, <2>2 DEF r
<1> QED BY Zenon, <1>3, <1>4

(* The counter wraps at Wrap.                                               *)
LEMMA NextTurn ==
    ASSUME NEW c \in 0..(Wrap - 1)
    PROVE  (c + 1) % Wrap = IF c = Wrap - 1 THEN 0 ELSE c + 1
<1>1. Wrap \in Nat \ {0} /\ c \in Nat
  BY GatewayAssumption
<1>2. c % Wrap = c
  BY <1>1
<1>3. (c + 1) % Wrap = IF c % Wrap = Wrap - 1 THEN 0 ELSE (c % Wrap) + 1
  BY Zenon, <1>1, NextRemainder
<1> QED BY Zenon, <1>2, <1>3

-----------------------------------------------------------------------------
(* The shares f of n addresses, the last of which to be picked was e + 1.    *)
(* How many addresses after s, going round, x comes.                        *)
After(x, s, n) == IF x >= s THEN x - s ELSE x - s + n
Following(e, n) == IF e = n - 1 THEN 0 ELSE e + 1

(* The addresses were picked in turn from s on: each k times, and those up   *)
(* to the last once more.                                                   *)
InTurn(f, n, e, s, k) ==
    \A i \in 1..n : f[i] = IF After(i - 1, s, n) <= After(e, s, n) THEN k + 1 ELSE k

(* When the counter wrapped, the turns began anew with the first address,    *)
(* on top of what each had.                                                 *)
InTurnAgain(f, n, e, had, k) ==
    /\ \A i, j \in 1..n : had[i] <= had[j] + 1
    /\ \A i \in 1..n : f[i] = had[i] + (IF i - 1 <= e THEN k + 1 ELSE k)

Even(f, n, e, again) ==
    IF again THEN \E had \in [1..n -> Int], k \in Int : InTurnAgain(f, n, e, had, k)
             ELSE \E s \in 0..(n - 1), k \in Int : InTurn(f, n, e, s, k)

(* Shares in turn differ by one, or by two after the counter wrapped.        *)
LEMMA EvenDiffers ==
    ASSUME NEW n \in Nat \ {0}, NEW e \in 0..(n - 1), NEW f, NEW again \in BOOLEAN,
           Even(f, n, e, again), NEW i \in 1..n, NEW j \in 1..n
    PROVE  f[i] <= f[j] + (IF again THEN 2 ELSE 1)
<1>1. CASE again
  <2>1. PICK had \in [1..n -> Int], k \in Int : InTurnAgain(f, n, e, had, k)
    BY Zenon, <1>1 DEF Even
  <2>2. had[i] \in Int /\ had[j] \in Int /\ had[i] <= had[j] + 1
    BY Zenon, <2>1 DEF InTurnAgain
  <2>3. f[i] = had[i] + k \/ f[i] = had[i] + (k + 1)
    BY Zenon, <2>1 DEF InTurnAgain
  <2>4. f[j] = had[j] + k \/ f[j] = had[j] + (k + 1)
    BY Zenon, <2>1 DEF InTurnAgain
  <2>5. \A a, b \in Int : a <= b + 1 =>
            /\ a + k <= (b + k) + 2 /\ a + (k + 1) <= (b + k) + 2
            /\ a + k <= (b + (k + 1)) + 2 /\ a + (k + 1) <= (b + (k + 1)) + 2
    OBVIOUS
  <2>6. f[i] <= f[j] + 2
    BY Zenon, <2>2, <2>3, <2>4, <2>5
  <2> QED BY Zenon, <1>1, <2>6
<1>2. CASE ~again
  <2>1. PICK s \in 0..(n - 1), k \in Int : InTurn(f, n, e, s, k)
    BY Zenon, <1>2 DEF Even
  <2>2. f[i] \in {k, k + 1} /\ f[j] \in {k, k + 1}
    BY Zenon, <2>1 DEF InTurn
  <2> QED BY <1>2, <2>2
<1> QED BY Zenon, <1>1, <1>2

(* Before anything is picked the shares are in turn: from the address that   *)
(* comes next.                                                              *)
LEMMA EvenAtFirst ==
    ASSUME NEW n \in Nat \ {0}, NEW e \in 0..(n - 1), NEW f, \A i \in 1..n : f[i] = 0
    PROVE  Even(f, n, e, FALSE)
<1> DEFINE s == Following(e, n)
<1>1. s \in 0..(n - 1)
  BY DEF Following
<1>2. InTurn(f, n, e, s, -1)
  <2>1. After(e, s, n) = n - 1
    BY DEF After, Following
  <2>2. \A i \in 1..n : After(i - 1, s, n) <= n - 1
    BY <1>1 DEF After
  <2> QED BY <2>1, <2>2 DEF InTurn
<1> HIDE DEF s
<1>3. -1 \in Int
  OBVIOUS
<1> QED BY Zenon, <1>1, <1>2, <1>3 DEF Even

(* The following address is picked.                                         *)
LEMMA EvenNext ==
    ASSUME NEW n \in Nat \ {0}, NEW e \in 0..(n - 1), NEW f, NEW g, NEW again \in BOOLEAN,
           Even(f, n, e, again),
           \A i \in 1..n : g[i] = IF i - 1 = Following(e, n) THEN f[i] + 1 ELSE f[i]
    PROVE  Even(g, n, Following(e, n), again)
<1>1. CASE again
  <2>1. PICK had \in [1..n -> Int], k \in Int : InTurnAgain(f, n, e, had, k)
    BY Zenon, <1>1 DEF Even
  <2>2. PICK m \in Int : m = IF e = n - 1 THEN k + 1 ELSE k
    OBVIOUS
  <2>3. ASSUME NEW i \in 1..n
        PROVE  g[i] = had[i] + (IF i - 1 <= Following(e, n) THEN m + 1 ELSE m)
    <3>1. had[i] \in Int /\ f[i] = had[i] + (IF i - 1 <= e THEN k + 1 ELSE k)
      BY Zenon, <2>1 DEF InTurnAgain
    <3>2. CASE e = n - 1
      BY SMTT(60), <2>2, <3>1, <3>2 DEF Following
    <3>3. CASE e # n - 1
      BY <2>2, <3>1, <3>3 DEF Following
    <3> QED BY Zenon, <3>2, <3>3
  <2>4. InTurnAgain(g, n, Following(e, n), had, m)
    BY Zenon, <2>1, <2>3 DEF InTurnAgain
  <2> QED BY Zenon, <1>1, <2>4 DEF Even
<1>2. CASE ~again
  <2>1. PICK s \in 0..(n - 1), k \in Int : InTurn(f, n, e, s, k)
    BY Zenon, <1>2 DEF Even
  <2>2. PICK m \in Int : m = IF After(e, s, n) = n - 1 THEN k + 1 ELSE k
    OBVIOUS
  <2>3. ASSUME NEW i \in 1..n
        PROVE  g[i] = IF After(i - 1, s, n) <= After(Following(e, n), s, n) THEN m + 1 ELSE m
    <3>1. f[i] = IF After(i - 1, s, n) <= After(e, s, n) THEN k + 1 ELSE k
      BY Zenon, <2>1 DEF InTurn
    <3> QED BY <2>2, <3>1 DEF Following, After
  <2>4. InTurn(g, n, Following(e, n), s, m)
    BY Zenon, <2>3 DEF InTurn
  <2> QED BY Zenon, <1>2, <2>4 DEF Even
<1> QED BY Zenon, <1>1, <1>2

(* The counter wraps: the first address is picked.                          *)
LEMMA EvenAgain ==
    ASSUME NEW n \in Nat \ {0}, NEW e \in 0..(n - 1), NEW f, NEW g,
           Even(f, n, e, FALSE),
           \A i \in 1..n : g[i] = IF i - 1 = 0 THEN f[i] + 1 ELSE f[i]
    PROVE  Even(g, n, 0, TRUE)
<1>1. PICK s \in 0..(n - 1), k \in Int : InTurn(f, n, e, s, k)
  BY Zenon DEF Even
<1>2. \A i \in 1..n : f[i] \in {k, k + 1}
  BY Zenon, <1>1 DEF InTurn
<1> DEFINE had == [i \in 1..n |-> f[i]]
<1>3. had \in [1..n -> Int] /\ \A i, j \in 1..n : had[i] <= had[j] + 1
  BY <1>2
<1>4. \A i \in 1..n : g[i] = had[i] + (IF i - 1 <= 0 THEN 0 + 1 ELSE 0)
  BY <1>2
<1> HIDE DEF had
<1>5. InTurnAgain(g, n, 0, had, 0)
  BY Zenon, <1>3, <1>4 DEF InTurnAgain
<1>6. 0 \in Int
  OBVIOUS
<1> QED BY Zenon, <1>3, <1>5, <1>6 DEF Even

-----------------------------------------------------------------------------
(* Balanced is not inductive: which address is picked next matters, and so   *)
(* does that the counter wraps once.  It wraps a second time only after Wrap *)
(* more requests, and the requests are no more than that.                    *)
Share == [i \in 1..Len(pool) |-> picks[pool[i]]]
Directed == {q \in Proxied : stage[q] \in {"upstream", "process", "end"}}

BalanceTypes ==
    /\ stage \in [Proxied -> Stages]
    /\ pool \in Pool \cup {<<>>}
    /\ turn \in 0..(Wrap - 1)
    /\ picks \in [G!Address -> Int]
    /\ wrapped \in BOOLEAN

BalanceInv ==
    /\ BalanceTypes
    /\ wrapped => turn + 1 <= Cardinality(Directed)
    /\ pool # <<>> => Even(Share, Len(pool), turn % Len(pool), wrapped)

(* A pool that is in use.                                                   *)
LEMMA PoolInUse ==
    ASSUME NEW ips \in Pool, ips # <<>>
    PROVE  /\ Len(ips) \in Nat \ {0}
           /\ \A i \in 1..Len(ips) : ips[i] \in G!Address
           /\ \A i, j \in 1..Len(ips) : ips[i] = ips[j] => i = j
<1>1. ips \in Seq(STRING)
  BY Zenon, GatewayAssumption
<1>2. Len(ips) \in Nat \ {0}
  BY <1>1
<1>3. \A i \in 1..Len(ips) : ips[i] \in G!Address
  BY DEF G!Address
<1>4. \A i, j \in 1..Len(ips) : ips[i] = ips[j] => i = j
  BY Zenon, GatewayAssumption
<1> QED BY Zenon, <1>2, <1>3, <1>4

(* The invariant implies the property.                                       *)
LEMMA EvenIsBalanced == BalanceInv => Balanced
<1> SUFFICES ASSUME BalanceInv, NEW i \in 1..Len(pool), NEW j \in 1..Len(pool)
             PROVE  picks[pool[i]] <= picks[pool[j]] + (IF wrapped THEN 2 ELSE 1)
  BY Zenon DEF Balanced, G!Balanced
<1>1. pool # <<>>
  OBVIOUS
<1>2. pool \in Pool
  BY Zenon, <1>1 DEF BalanceInv, BalanceTypes
<1>3. Len(pool) \in Nat \ {0}
  BY Zenon, <1>1, <1>2, PoolInUse
<1>4. turn \in Nat /\ wrapped \in BOOLEAN
  BY GatewayAssumption DEF BalanceInv, BalanceTypes
<1>5. turn % Len(pool) \in 0..(Len(pool) - 1)
  BY Zenon, <1>3, <1>4, NextRemainder
<1>6. Even(Share, Len(pool), turn % Len(pool), wrapped)
  BY Zenon, <1>1 DEF BalanceInv
<1>7. Share[i] <= Share[j] + (IF wrapped THEN 2 ELSE 1)
  BY Zenon, <1>3, <1>4, <1>5, <1>6, EvenDiffers
<1> QED BY Zenon, <1>7 DEF Share

(* Requests are directed once; so the set grows, by one request at a time.   *)
LEMMA DirectedGrows ==
    ASSUME Directed \subseteq Directed'
    PROVE  /\ Cardinality(Directed) \in Nat /\ Cardinality(Directed') \in Nat
           /\ Cardinality(Directed) <= Cardinality(Directed')
           /\ Cardinality(Directed') <= Wrap
           /\ \A q \in Directed' \ Directed : Cardinality(Directed) + 1 <= Cardinality(Directed')
<1>1. IsFiniteSet(Proxied) /\ Cardinality(Proxied) <= Wrap
  BY Zenon, GatewayAssumption
<1>2. Directed \subseteq Proxied /\ Directed' \subseteq Proxied
  BY Zenon DEF Directed
<1>3. IsFiniteSet(Directed) /\ IsFiniteSet(Directed')
      /\ Cardinality(Directed') <= Cardinality(Proxied)
  BY Zenon, <1>1, <1>2, FS_Subset
<1>4. Cardinality(Directed) \in Nat /\ Cardinality(Directed') \in Nat /\ Cardinality(Proxied) \in Nat
  BY Zenon, <1>1, <1>3, FS_CardinalityType
<1>5. Cardinality(Directed) <= Cardinality(Directed')
  BY Zenon, <1>3, FS_Subset
<1>6. ASSUME NEW q \in Directed' \ Directed
      PROVE  Cardinality(Directed) + 1 <= Cardinality(Directed')
  <2>1. Cardinality(Directed) # Cardinality(Directed')
    BY Zenon, <1>3, <1>6, FS_Subset
  <2> QED BY <1>4, <1>5, <2>1
<1>7. Cardinality(Directed') <= Wrap
  BY <1>1, <1>3, <1>4, GatewayAssumption
<1> QED BY Zenon, <1>4, <1>5, <1>6, <1>7

(* A step that leaves the balancer alone, and takes back no request.         *)
LEMMA ElsewhereEven ==
    ASSUME BalanceInv, UNCHANGED <<pool, turn, picks, wrapped>>,
           stage' \in [Proxied -> Stages],
           Directed \subseteq Directed'
    PROVE  BalanceInv'
<1>1. BalanceTypes'
  BY Zenon DEF BalanceInv, BalanceTypes
<1>2. (pool # <<>> => Even(Share, Len(pool), turn % Len(pool), wrapped))'
  BY Zenon DEF BalanceInv, Share
<1>3. turn \in Nat
  BY GatewayAssumption DEF BalanceInv, BalanceTypes
<1>4. wrapped' => turn' + 1 <= Cardinality(Directed')
  BY <1>3, DirectedGrows DEF BalanceInv
<1> QED BY Zenon, <1>1, <1>2, <1>4 DEF BalanceInv

(* The resolver's answer replaces the pool.                                 *)
LEMMA NewPoolEven ==
    ASSUME BalanceInv, NEW ips \in Pool, G!WatchDNS(ips)
    PROVE  BalanceInv'
<1>1. pool' = ips /\ ips # <<>> /\ turn' = turn /\ stage' = stage /\ wrapped' = FALSE
      /\ picks' = [a \in G!Address |-> 0]
  BY Zenon DEF G!WatchDNS
<1>2. picks' \in [G!Address -> Int]
  BY <1>1
<1>3. BalanceTypes'
  BY Zenon, <1>1, <1>2 DEF BalanceInv, BalanceTypes
<1>4. Len(ips) \in Nat \ {0} /\ \A i \in 1..Len(ips) : ips[i] \in G!Address
  BY Zenon, <1>1, PoolInUse
<1>5. turn \in Nat
  BY GatewayAssumption DEF BalanceInv, BalanceTypes
<1>6. turn % Len(ips) \in 0..(Len(ips) - 1)
  BY Zenon, <1>4, <1>5, NextRemainder
<1>7. \A i \in 1..Len(ips) : Share'[i] = 0
  BY Zenon, <1>1, <1>4 DEF Share
<1>8. Even(Share', Len(ips), turn % Len(ips), FALSE)
  BY Zenon, <1>4, <1>6, <1>7, EvenAtFirst
<1> QED BY Zenon, <1>1, <1>3, <1>8 DEF BalanceInv

(* A request is directed: the counter moves on, or wraps.                   *)
LEMMA DirectEven ==
    ASSUME BalanceInv, NEW q \in Proxied, G!DirectRequest(q), pool # <<>>
    PROVE  BalanceInv'
<1> DEFINE n == Len(pool)
           e == turn % n
           to == turn' % n
<1>1. /\ stage[q] = "forward" /\ stage' = [stage EXCEPT ![q] = "upstream"]
      /\ turn' = (turn + 1) % Wrap /\ pool' = pool
      /\ picks' = [picks EXCEPT ![pool[to + 1]] = @ + 1]
      /\ wrapped' = (wrapped \/ turn' = 0)
  BY Zenon DEF G!DirectRequest, G!Go
<1>2. pool \in Pool /\ wrapped \in BOOLEAN /\ turn \in 0..(Wrap - 1) /\ picks \in [G!Address -> Int]
      /\ stage \in [Proxied -> Stages]
  BY Zenon DEF BalanceInv, BalanceTypes
<1>3. n \in Nat \ {0} /\ (\A i \in 1..n : pool[i] \in G!Address)
      /\ \A i, j \in 1..n : pool[i] = pool[j] => i = j
  BY Zenon, <1>2, PoolInUse
<1>4. Wrap \in Nat \ {0} /\ turn \in Nat
  BY <1>2, GatewayAssumption
<1>5. turn' = IF turn = Wrap - 1 THEN 0 ELSE turn + 1
  BY Zenon, <1>1, <1>2, NextTurn
<1>6. turn' \in 0..(Wrap - 1) /\ turn' \in Nat
  BY <1>2, <1>4, <1>5
<1>7. e \in 0..(n - 1) /\ to \in 0..(n - 1)
  BY Zenon, <1>3, <1>4, <1>6, NextRemainder
<1> HIDE DEF n, e, to
<1>8. to + 1 \in 1..n
  BY <1>3, <1>7
<1>9. picks' \in [G!Address -> Int]
  BY <1>1, <1>2, <1>3, <1>8
<1>10. stage' \in [Proxied -> Stages]
  BY Zenon, <1>1, <1>2 DEF Stages
<1>11. BalanceTypes'
  BY Zenon, <1>1, <1>2, <1>6, <1>9, <1>10 DEF BalanceTypes
<1>12. \A i \in 1..n : Share'[i] = IF i - 1 = to THEN Share[i] + 1 ELSE Share[i]
  <2> SUFFICES ASSUME NEW i \in 1..n
               PROVE  Share'[i] = IF i - 1 = to THEN Share[i] + 1 ELSE Share[i]
    BY Zenon
  <2>1. Share[i] = picks[pool[i]] /\ Share'[i] = picks'[pool[i]]
    BY Zenon, <1>1 DEF Share, n
  <2>2. pool[i] \in G!Address /\ (pool[i] = pool[to + 1] <=> i = to + 1)
    BY Zenon, <1>3, <1>8
  <2>3. picks'[pool[i]] = IF i = to + 1 THEN picks[pool[i]] + 1 ELSE picks[pool[i]]
    BY Zenon, <1>1, <1>2, <2>2
  <2>4. i = to + 1 <=> i - 1 = to
    BY <1>3, <1>7
  <2> QED BY Zenon, <2>1, <2>3, <2>4
<1>13. Even(Share, n, e, wrapped)
  BY Zenon DEF BalanceInv, n, e
<1>14. q \in Directed' \ Directed /\ Directed \subseteq Directed'
  BY Zenon, <1>1, <1>2 DEF Directed
<1>15. Cardinality(Directed) \in Nat /\ Cardinality(Directed') \in Nat
       /\ Cardinality(Directed') <= Wrap /\ Cardinality(Directed) + 1 <= Cardinality(Directed')
  BY Zenon, <1>14, DirectedGrows
<1>16. CASE turn = Wrap - 1
  <2>1. ~wrapped
    BY <1>4, <1>15, <1>16 DEF BalanceInv
  <2>2. turn' = 0 /\ wrapped' = TRUE
    BY Zenon, <1>1, <1>5, <1>16
  <2>3. to = 0
    BY <1>3, <2>2 DEF to
  <2>4. wrapped = FALSE
    BY Zenon, <1>2, <2>1
  <2>5. Even(Share', n, to, TRUE)
    BY ZenonT(60), <1>3, <1>7, <1>12, <1>13, <2>3, <2>4, EvenAgain
  <2>6. turn' + 1 <= Cardinality(Directed')
    BY <1>15, <2>2
  <2> QED BY Zenon, <1>1, <1>11, <2>2, <2>5, <2>6 DEF BalanceInv, n, to
<1>17. CASE turn # Wrap - 1
  <2>1. turn' = turn + 1 /\ turn' # 0
    BY <1>4, <1>5, <1>17
  <2>2. wrapped' = wrapped
    BY Zenon, <1>1, <1>2, <2>1
  <2>3. to = Following(e, n)
    BY Zenon, <1>3, <1>4, <2>1, NextRemainder DEF Following, e, to
  <2>4. Even(Share', n, to, wrapped)
    <3>1. \A i \in 1..n : Share'[i] = IF i - 1 = Following(e, n) THEN Share[i] + 1 ELSE Share[i]
      BY ZenonT(60), <1>12, <2>3
    <3>2. Even(Share', n, Following(e, n), wrapped)
      BY SMTT(60), <1>2, <1>3, <1>7, <1>13, <3>1, EvenNext
    <3> QED BY Zenon, <2>3, <3>2
  <2>5. wrapped' => turn' + 1 <= Cardinality(Directed')
    BY SMTT(60), <1>4, <1>15, <2>1, <2>2 DEF BalanceInv
  <2> QED BY ZenonT(60), <1>1, <1>11, <2>2, <2>4, <2>5 DEF BalanceInv, n, to
<1> QED BY Zenon, <1>16, <1>17

(* Every step of the proxy keeps the shares even.                           *)
LEMMA NextEven == BalanceInv /\ [G!Next]_(G!vars) => BalanceInv'
<1> SUFFICES ASSUME BalanceInv, [G!Next]_(G!vars) PROVE BalanceInv'
  BY Zenon
<1>1. stage \in [Proxied -> Stages]
  BY Zenon DEF BalanceInv, BalanceTypes
<1>2. CASE stage' = stage /\ UNCHANGED <<pool, turn, picks, wrapped>>
  BY Zenon, <1>1, <1>2, ElsewhereEven DEF Directed
<1>3. ASSUME NEW q \in Proxied, NEW to \in Stages, stage' = [stage EXCEPT ![q] = to],
             to \in {"upstream", "process", "end"}
             \/ stage[q] \notin {"upstream", "process", "end"},
             UNCHANGED <<pool, turn, picks, wrapped>>
      PROVE  BalanceInv'
  <2>1. stage' \in [Proxied -> Stages]
    BY Zenon, <1>1, <1>3
  <2>2. Directed \subseteq Directed'
    BY Zenon, <1>1, <1>3 DEF Directed
  <2> QED BY Zenon, <1>3, <2>1, <2>2, ElsewhereEven
<1>4. CASE G!Start \/ G!Stop \/ G!BlockOrUnblock \/ UNCHANGED G!vars
  BY Zenon, <1>2, <1>4 DEF G!Start, G!Stop, G!BlockOrUnblock, G!vars, G!balancer
<1>5. ASSUME NEW ips \in Pool, G!WatchDNS(ips) PROVE BalanceInv'
  BY Zenon, <1>5, NewPoolEven
<1>6. ASSUME NEW q \in Proxied, NEW h \in G!Host, NEW p \in Route, NEW t \in Token,
             G!Arrive(q, h, p, t)
      PROVE  BalanceInv'
  <2>1. /\ stage[q] = "new" /\ UNCHANGED <<pool, turn, picks, wrapped>>
        /\ \E to \in {"oidc", "limit", "end"} : stage' = [stage EXCEPT ![q] = to]
    BY Zenon, <1>6 DEF G!Arrive, G!End, G!balancer
  <2> QED BY Zenon, <2>1, <1>3 DEF Stages
<1>7. ASSUME NEW q \in Proxied, G!Authorise(q) PROVE BalanceInv'
  <2>1. /\ stage[q] = "oidc" /\ UNCHANGED <<pool, turn, picks, wrapped>>
        /\ \E to \in {"limit", "end"} : stage' = [stage EXCEPT ![q] = to]
    BY Zenon, <1>7 DEF G!Authorise, G!End, G!Go, G!balancer
  <2> QED BY Zenon, <2>1, <1>3 DEF Stages
<1>8. ASSUME NEW q \in Proxied, G!TestBlocklist(q) PROVE BalanceInv'
  <2>1. /\ stage[q] = "limit" /\ UNCHANGED <<pool, turn, picks, wrapped>>
        /\ \E to \in {"forward", "end"} : stage' = [stage EXCEPT ![q] = to]
    BY Zenon, <1>8 DEF G!TestBlocklist, G!End, G!Go, G!balancer
  <2> QED BY Zenon, <2>1, <1>3 DEF Stages
<1>9. ASSUME NEW q \in Proxied, G!DirectRequest(q) PROVE BalanceInv'
  <2>1. CASE pool = <<>>
    <3>1. UNCHANGED <<pool, turn, picks, wrapped>> /\ stage' = [stage EXCEPT ![q] = "upstream"]
      BY Zenon, <1>9, <2>1 DEF G!DirectRequest, G!Go, G!balancer
    <3> QED BY Zenon, <3>1, <1>3 DEF Stages
  <2>2. CASE pool # <<>>
    BY Zenon, <1>9, <2>2, DirectEven
  <2> QED BY Zenon, <2>1, <2>2
<1>10. ASSUME NEW q \in Proxied, NEW status \in {200, 502},
              G!Answer(q, status) \/ G!Abort(q) \/ G!Process(q)
       PROVE  BalanceInv'
  <2>1. /\ UNCHANGED <<pool, turn, picks, wrapped>>
        /\ \E to \in {"process", "end"} : stage' = [stage EXCEPT ![q] = to]
    BY ZenonT(60), <1>10 DEF G!Answer, G!Abort, G!Process, G!End, G!balancer
  <2> QED BY ZenonT(60), <2>1, <1>3 DEF Stages
<1> QED
  BY SMTT(60), <1>4, <1>5, <1>6, <1>7, <1>8, <1>9, <1>10 DEF G!Next

(* Balanced (Gateway): DirectRequest spreads the requests over the addresses *)
(* of the pool within one of each other, or two when the counter wrapped.    *)
THEOREM SpreadEvenly == G!Spec => []Balanced
<1>1. G!Init => BalanceInv
  <2> SUFFICES ASSUME G!Init PROVE BalanceInv
    BY Zenon
  <2>1. stage \in [Proxied -> Stages]
    BY Zenon DEF G!Init, Stages
  <2>2. picks \in [G!Address -> Int]
    BY DEF G!Init
  <2>3. pool = <<>> /\ wrapped = FALSE /\ turn \in 0..(Wrap - 1)
    BY Zenon, GatewayAssumption DEF G!Init
  <2> QED BY Zenon, <2>1, <2>2, <2>3 DEF BalanceInv, BalanceTypes
<1> QED
  BY <1>1, NextEven, EvenIsBalanced, PTL DEF G!Spec
=============================================================================
