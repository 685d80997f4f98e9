------------------------- MODULE RateLimiterProofs -------------------------
(***************************************************************************)
(* Theorems about RateLimiter for every set of buckets, every limit and    *)
(* every window.                                                           *)
(***************************************************************************)
EXTENDS RateLimiter, DataLemmas

\* Every bucket's history is finite, its list is a part of the history, and
\* no list is longer than its limit.
Bounded ==
  \A b \in Bucket :
    /\ IsFiniteSet(granted[b])
    /\ hits[b] \subseteq granted[b]
    /\ Cardinality(hits[b]) <= Limit[b]

\* Hits are numbered in the order of the clock.
Ordered ==
  \A b \in Bucket :
    /\ \A h \in granted[b] : h.at <= now /\ h.n < Cardinality(granted[b])
    /\ \A g, h \in granted[b] : g.n <= h.n => g.at <= h.at

\* What a list has dropped has left the window for good.
ForgottenIsOld ==
  \A b \in Bucket : \A h \in granted[b] \ hits[b] : h.at <= now - Window

IInv == TypeOK /\ Bounded /\ Ordered /\ ForgottenIsOld /\ WindowBound

-----------------------------------------------------------------------------
LEMMA WindowType == Window \in Nat /\ Window > 0
BY ClockAssumption, SMT DEF Window

\* A non-empty list has a first hit, and hits[0] is it.
LEMMA OldestIsFirst ==
  ASSUME NEW S \in SUBSET Hit, S # {}
  PROVE  Oldest(S) \in S /\ \A g \in S : Oldest(S).n <= g.n
<1> DEFINE T == {h.n : h \in S}
<1>1. T \in SUBSET Nat /\ T # {}
  BY DEF Hit
<1> HIDE DEF T
<1>2. \E m \in T : \A k \in T : m <= k
  BY <1>1, LeastNatural
<1>3. \E h \in S : \A g \in S : h.n <= g.n
  BY <1>2 DEF T
<1> QED
  BY <1>3, Zenon DEF Oldest

\* Pruning keeps a subset, and loses nothing that is still in the window.
LEMMA PruneLosesNothing ==
  ASSUME NEW S \in SUBSET Hit, NEW t \in Nat
  PROVE  /\ Prune(S, t) \subseteq S
         /\ \A h \in S \ Prune(S, t) : h.at <= t - Window
BY WindowType, SMT DEF Prune, Hit

\* On a list in clock order, pruning keeps only what is in the window.
LEMMA PruneKeepsWindow ==
  ASSUME NEW S \in SUBSET Hit, NEW t \in Nat,
         \A g, h \in S : g.n <= h.n => g.at <= h.at
  PROVE  \A h \in Prune(S, t) : h.at > t - Window
<1>1. CASE S = {}
  BY <1>1 DEF Prune
<1>2. CASE S # {} /\ Oldest(S).at <= t - Window
  BY <1>2 DEF Prune
<1>3. CASE S # {} /\ ~ (Oldest(S).at <= t - Window)
  <2>1. Oldest(S) \in S /\ \A g \in S : Oldest(S).at <= g.at
    BY <1>3, OldestIsFirst
  <2>2. Prune(S, t) = S
    BY <1>3 DEF Prune
  <2> QED
    BY <2>1, <2>2, <1>3, WindowType, SMT DEF Hit
<1> QED BY <1>1, <1>2, <1>3

-----------------------------------------------------------------------------
LEMMA RetryType ==
  ASSUME NEW S \in SUBSET Hit, S # {}, NEW t \in Nat
  PROVE  RetryAfter(S, t) \in Nat
<1>1. Oldest(S).at \in Nat
  BY OldestIsFirst DEF Hit
<1>2. (Window - (t - Oldest(S).at)) \div TicksPerSecond \in Int
  BY <1>1, WindowType, ClockAssumption, SMT
<1> QED
  BY <1>2, SMT DEF RetryAfter, AtLeastOne

LEMMA InitIInv == Init => IInv
<1> SUFFICES ASSUME Init PROVE IInv
  OBVIOUS
<1>1. TypeOK
  <2>1. reply \in Reply
    <3>1. PICK k \in Bucket :
            reply = [bucket |-> k, at |-> 0, allowed |-> TRUE, retry |-> 0]
      BY DEF Init
    <3> QED BY <3>1 DEF Reply
  <2>2. hits \in [Bucket -> SUBSET Hit] /\ granted \in [Bucket -> SUBSET Hit]
    BY DEF Init
  <2> QED BY <2>1, <2>2 DEF Init, TypeOK
<1>2. \A b \in Bucket : granted[b] = {} /\ hits[b] = {}
  BY DEF Init
<1>3. Bounded
  BY <1>2, FS_EmptySet, LimitAssumption DEF Bounded
<1>4. Ordered /\ ForgottenIsOld
  BY <1>2 DEF Ordered, ForgottenIsOld
<1>5. WindowBound
  <2> SUFFICES ASSUME NEW b \in Bucket, NEW t \in 0..now
               PROVE  Cardinality(Admitted(b, t)) <= Limit[b]
    BY DEF WindowBound
  <2>1. Admitted(b, t) = {}
    BY <1>2 DEF Admitted
  <2> QED BY <2>1, FS_EmptySet, LimitAssumption
<1> QED BY <1>1, <1>3, <1>4, <1>5 DEF IInv

\* What is in the window at the present time is in the pruned list.
LEMMA WindowInList ==
  ASSUME IInv, NEW b \in Bucket
  PROVE  /\ Prune(hits[b], now) \subseteq hits[b]
         /\ IsFiniteSet(Prune(hits[b], now))
         /\ Admitted(b, now) \subseteq Prune(hits[b], now)
         /\ \A h \in granted[b] \ Prune(hits[b], now) : h.at <= now - Window
<1>1. hits[b] \in SUBSET Hit /\ granted[b] \in SUBSET Hit /\ now \in Nat
  BY DEF IInv, TypeOK
<1>2. /\ Prune(hits[b], now) \subseteq hits[b]
      /\ \A h \in hits[b] \ Prune(hits[b], now) : h.at <= now - Window
  BY <1>1, PruneLosesNothing
<1>3. IsFiniteSet(hits[b])
  BY FS_Subset DEF IInv, Bounded
<1>4. IsFiniteSet(Prune(hits[b], now))
  BY <1>2, <1>3, FS_Subset
<1>5. \A h \in granted[b] \ Prune(hits[b], now) : h.at <= now - Window
  BY <1>2 DEF IInv, ForgottenIsOld
<1>6. Admitted(b, now) \subseteq Prune(hits[b], now)
  BY <1>1, <1>5, WindowType, SMT DEF Admitted, Hit
<1> QED BY <1>2, <1>4, <1>5, <1>6

LEMMA TickIInv == IInv /\ Tick => IInv'
<1> SUFFICES ASSUME IInv, Tick PROVE IInv'
  OBVIOUS
<1>1. TypeOK'
  BY DEF IInv, TypeOK, Tick
<1>2. Bounded'
  BY DEF IInv, Bounded, Tick
<1>3. \A b \in Bucket : granted[b] \in SUBSET Hit
  BY DEF IInv, TypeOK
<1>4. now \in Nat /\ now' = now + 1 /\ granted' = granted /\ hits' = hits
  BY DEF IInv, TypeOK, Tick
<1>5. Ordered'
  BY <1>3, <1>4, SMT DEF IInv, Ordered, Hit
<1>6. ForgottenIsOld'
  BY <1>3, <1>4, WindowType, SMT DEF IInv, ForgottenIsOld, Hit
<1>7. WindowBound'
  <2> SUFFICES ASSUME NEW b \in Bucket, NEW t \in 0..now'
               PROVE  Cardinality(Admitted(b, t)') <= Limit[b]
    BY DEF WindowBound
  <2>1. CASE t \in 0..now
    BY <2>1, <1>4 DEF IInv, WindowBound, Admitted
  <2>2. CASE t = now + 1
    <3>1. Admitted(b, t)' \subseteq Admitted(b, now)
      <4> SUFFICES ASSUME NEW h \in Admitted(b, t)' PROVE h \in Admitted(b, now)
        OBVIOUS
      <4>1. h \in granted[b] /\ h.at > t - Window
        BY <1>4 DEF Admitted
      <4>2. h.at \in Nat /\ h.at <= now
        BY <4>1, <1>3 DEF IInv, Ordered, Hit
      <4> QED
        BY <4>1, <4>2, <2>2, <1>4, WindowType DEF Admitted
    <3>2. IsFiniteSet(Admitted(b, now)) /\ Cardinality(Admitted(b, now)) <= Limit[b]
      <4>1. Admitted(b, now) \subseteq granted[b]
        BY DEF Admitted
      <4>2. now \in 0..now
        BY <1>4
      <4> QED
        BY <4>1, <4>2, FS_Subset DEF IInv, Bounded, WindowBound
    <3>3. Cardinality(Admitted(b, t)') <= Cardinality(Admitted(b, now))
      BY <3>1, <3>2, FS_Subset
    <3>4. IsFiniteSet(Admitted(b, t)')
      BY <3>1, <3>2, FS_Subset
    <3> QED
      BY <3>2, <3>3, <3>4, FS_CardinalityType, LimitAssumption
  <2> QED BY <2>1, <2>2, <1>4
<1> QED BY <1>1, <1>2, <1>5, <1>6, <1>7 DEF IInv

LEMMA RejectIInv ==
  ASSUME IInv, NEW b \in Bucket, Reject(b)
  PROVE  IInv'
<1> DEFINE live == Prune(hits[b], now)
<1>1. /\ now \in Nat /\ now' = now /\ granted' = granted
      /\ hits' = [hits EXCEPT ![b] = live]
      /\ hits \in [Bucket -> SUBSET Hit]
      /\ granted \in [Bucket -> SUBSET Hit]
  BY DEF IInv, TypeOK, Reject
<1>2. /\ live \subseteq hits[b]
      /\ \A h \in granted[b] \ live : h.at <= now - Window
  BY WindowInList
<1>3. live # {}
  <2>1. Cardinality(live) >= Limit[b]
    BY DEF Reject
  <2> QED BY <2>1, FS_EmptySet, LimitAssumption
<1>4. RetryAfter(live, now) \in Nat
  BY <1>1, <1>2, <1>3, RetryType
<1>5. TypeOK'
  <2>1. hits' \in [Bucket -> SUBSET Hit]
    BY <1>1, <1>2
  <2>2. reply' \in Reply
    BY <1>1, <1>4 DEF Reject, Reply
  <2> QED BY <1>1, <2>1, <2>2 DEF TypeOK
<1>6. Bounded'
  <2> SUFFICES ASSUME NEW c \in Bucket
               PROVE  /\ IsFiniteSet(granted[c])
                      /\ hits'[c] \subseteq granted[c]
                      /\ Cardinality(hits'[c]) <= Limit[c]
    BY <1>1 DEF Bounded
  <2>1. /\ IsFiniteSet(granted[c])
        /\ hits[c] \subseteq granted[c]
        /\ Cardinality(hits[c]) <= Limit[c]
    BY DEF IInv, Bounded
  <2>2. hits'[c] \subseteq hits[c]
    BY <1>1, <1>2
  <2>3. IsFiniteSet(hits[c]) /\ IsFiniteSet(hits'[c])
        /\ Cardinality(hits'[c]) <= Cardinality(hits[c])
    BY <2>1, <2>2, FS_Subset
  <2> QED
    BY <2>1, <2>2, <2>3, FS_CardinalityType, LimitAssumption
<1>7. Ordered' /\ WindowBound'
  BY <1>1 DEF IInv, Ordered, WindowBound, Admitted
<1>8. ForgottenIsOld'
  BY <1>1, <1>2 DEF IInv, ForgottenIsOld
<1> QED BY <1>5, <1>6, <1>7, <1>8 DEF IInv

LEMMA RecordIInv ==
  ASSUME IInv, NEW b \in Bucket, Record(b)
  PROVE  IInv'
<1> DEFINE live == Prune(hits[b], now)
           hit  == [n |-> Cardinality(granted[b]), at |-> now]
<1>1. /\ now \in Nat /\ now' = now
      /\ hits' = [hits EXCEPT ![b] = live \cup {hit}]
      /\ granted' = [granted EXCEPT ![b] = @ \cup {hit}]
      /\ hits \in [Bucket -> SUBSET Hit]
      /\ granted \in [Bucket -> SUBSET Hit]
      /\ Cardinality(live) < Limit[b]
  BY DEF IInv, TypeOK, Record
<1>2. /\ live \subseteq hits[b]
      /\ IsFiniteSet(live)
      /\ Admitted(b, now) \subseteq live
      /\ \A h \in granted[b] \ live : h.at <= now - Window
  BY WindowInList
<1>3. \A c \in Bucket :
        /\ IsFiniteSet(granted[c])
        /\ hits[c] \subseteq granted[c]
        /\ Cardinality(hits[c]) <= Limit[c]
        /\ Cardinality(granted[c]) \in Nat
        /\ Limit[c] \in Nat
  BY FS_CardinalityType, LimitAssumption DEF IInv, Bounded
<1>4. hit \in Hit /\ hit.at = now /\ hit.n = Cardinality(granted[b])
  BY <1>1, <1>3 DEF Hit
<1> HIDE DEF live, hit
<1>5. hit \notin granted[b]
  BY <1>3, <1>4 DEF IInv, Ordered
<1>6. Cardinality(granted'[b]) = Cardinality(granted[b]) + 1
      /\ IsFiniteSet(granted'[b])
  BY <1>1, <1>3, <1>5, FS_AddElement
<1>7. Cardinality(live \cup {hit}) <= Limit[b] /\ IsFiniteSet(live \cup {hit})
      /\ Cardinality(live \cup {hit}) \in Nat
  <2>1. /\ IsFiniteSet(live \cup {hit})
        /\ Cardinality(live \cup {hit}) =
             IF hit \in live THEN Cardinality(live) ELSE Cardinality(live) + 1
    BY <1>2, FS_AddElement
  <2>2. Cardinality(live) \in Nat /\ Cardinality(live \cup {hit}) \in Nat
    BY <1>2, <2>1, FS_CardinalityType
  <2> QED BY <2>1, <2>2, <1>1, <1>3
<1>8. TypeOK'
  <2>1. reply' \in Reply
    BY <1>1 DEF Record, Reply
  <2> QED BY <1>1, <1>2, <1>4, <2>1 DEF TypeOK
<1>9. Bounded'
  BY <1>1, <1>2, <1>3, <1>6, <1>7 DEF Bounded
<1>10. Ordered'
  <2> SUFFICES ASSUME NEW c \in Bucket
               PROVE  /\ \A h \in granted'[c] :
                           h.at <= now /\ h.n < Cardinality(granted'[c])
                      /\ \A g, h \in granted'[c] : g.n <= h.n => g.at <= h.at
    BY <1>1 DEF Ordered
  <2>1. /\ \A h \in granted[c] : h.at <= now /\ h.n < Cardinality(granted[c])
        /\ \A g, h \in granted[c] : g.n <= h.n => g.at <= h.at
        /\ \A h \in granted[c] : h.n \in Nat /\ h.at \in Nat
    BY <1>1 DEF IInv, Ordered, Hit
  <2>2. CASE c # b
    BY <2>1, <2>2, <1>1
  <2>3. CASE c = b
    <3>1. granted'[c] = granted[b] \cup {hit}
      BY <2>3, <1>1
    <3> QED
      BY <2>1, <2>3, <3>1, <1>1, <1>3, <1>4, <1>6, SMT
  <2> QED BY <2>2, <2>3
<1>11. ForgottenIsOld'
  BY <1>1, <1>2 DEF IInv, ForgottenIsOld
<1>12. WindowBound'
  <2> SUFFICES ASSUME NEW c \in Bucket, NEW t \in 0..now
               PROVE  Cardinality(Admitted(c, t)') <= Limit[c]
    BY <1>1 DEF WindowBound
  <2>1. Cardinality(Admitted(c, t)) <= Limit[c]
    BY DEF IInv, WindowBound
  <2>2. CASE c # b \/ t < now
    <3>1. Admitted(c, t)' = Admitted(c, t)
      BY <2>2, <1>1, <1>4, SMT DEF Admitted
    <3> QED BY <2>1, <3>1
  <2>3. CASE c = b /\ t = now
    <3>1. Admitted(c, t)' \subseteq live \cup {hit}
      BY <2>3, <1>1, <1>2 DEF Admitted
    <3>2. IsFiniteSet(Admitted(c, t)')
          /\ Cardinality(Admitted(c, t)') <= Cardinality(live \cup {hit})
      BY <3>1, <1>7, FS_Subset
    <3> QED BY <3>2, <1>3, <1>7, <2>3, FS_CardinalityType
  <2> QED BY <2>2, <2>3, <1>1
<1> QED BY <1>8, <1>9, <1>10, <1>11, <1>12 DEF IInv

LEMMA NextIInv == IInv /\ [Next]_vars => IInv'
<1> SUFFICES ASSUME IInv, [Next]_vars PROVE IInv'
  OBVIOUS
<1>1. CASE Tick
  BY <1>1, TickIInv
<1>2. CASE \E b \in Bucket : Reject(b) \/ Record(b)
  BY <1>2, RejectIInv, RecordIInv
<1>3. CASE UNCHANGED vars
  BY <1>3 DEF vars, IInv, TypeOK, Bounded, Ordered, ForgottenIsOld,
              WindowBound, Admitted
<1> QED BY <1>1, <1>2, <1>3 DEF Next

\* The invariant that the theorems below rest on.
THEOREM Invariance == Spec => []IInv
<1> QED BY InitIInv, NextIInv, PTL DEF Spec

\* Every variable keeps its type, for any buckets, limits and window.
THEOREM TypeCorrect == Spec => []TypeOK
<1>1. IInv => TypeOK
  BY DEF IInv
<1> QED BY <1>1, Invariance, PTL

\* No window holds more admitted calls than the limit: the promise that
\* check() makes to the routes behind rate_limit_middleware.
THEOREM WindowBoundHolds == Spec => []WindowBound
<1>1. IInv => WindowBound
  BY DEF IInv
<1> QED BY <1>1, Invariance, PTL

-----------------------------------------------------------------------------
LEMMA SameCardinality ==
  ASSUME NEW S
  PROVE  Abstract!Cardinality(S) = Cardinality(S)
BY Zenon DEF Cardinality, Abstract!Cardinality

LEMMA InitRefines == Init => Abstract!Init
<1> SUFFICES ASSUME Init PROVE Abstract!Init
  OBVIOUS
<1>1. PICK k \in Bucket :
        reply = [bucket |-> k, at |-> 0, allowed |-> TRUE, retry |-> 0]
  BY DEF Init
<1> QED BY <1>1 DEF Init, Abstract!Init

LEMMA NextRefines == IInv /\ [Next]_vars => [Abstract!Next]_(Abstract!vars)
<1> SUFFICES ASSUME IInv, [Next]_vars PROVE [Abstract!Next]_(Abstract!vars)
  OBVIOUS
<1>1. CASE Tick
  <2>1. Abstract!Advance
    BY <1>1, SMT DEF Tick, Abstract!Advance, IInv, TypeOK
  <2> QED BY <2>1 DEF Abstract!Next
<1>2. ASSUME NEW b \in Bucket, Reject(b)
      PROVE  Abstract!Refuse(b)
  <2> DEFINE live == Prune(hits[b], now)
  <2>1. /\ hits[b] \in SUBSET Hit /\ granted[b] \in SUBSET Hit /\ now \in Nat
        /\ IsFiniteSet(granted[b]) /\ hits[b] \subseteq granted[b]
        /\ Limit[b] \in Nat
    BY LimitAssumption DEF IInv, TypeOK, Bounded
  <2>2. \A h \in live : h.at > now - Window
    <3>1. \A g, h \in hits[b] : g.n <= h.n => g.at <= h.at
      BY <2>1 DEF IInv, Ordered
    <3> QED BY <2>1, <3>1, PruneKeepsWindow
  <2>3. live \subseteq hits[b]
    BY WindowInList
  <2>4. live \subseteq Abstract!InWindow(b, now)
    BY <2>1, <2>2, <2>3 DEF Abstract!InWindow, IInv, Ordered
  <2>5. /\ IsFiniteSet(Abstract!InWindow(b, now))
        /\ Cardinality(live) <= Cardinality(Abstract!InWindow(b, now))
        /\ IsFiniteSet(live)
    <3>1. Abstract!InWindow(b, now) \subseteq granted[b]
      BY DEF Abstract!InWindow
    <3> QED BY <2>1, <2>4, <3>1, FS_Subset
  <2>6. Cardinality(live) >= Limit[b]
    BY <1>2 DEF Reject
  <2>7. Cardinality(Abstract!InWindow(b, now)) >= Limit[b]
    BY <2>1, <2>5, <2>6, FS_CardinalityType
  <2> QED BY <1>2, <2>7, SameCardinality DEF Reject, Abstract!Refuse
<1>3. ASSUME NEW b \in Bucket, Record(b)
      PROVE  Abstract!Admit(b)
  <2> DEFINE live == Prune(hits[b], now)
  <2>1. Abstract!InWindow(b, now) \subseteq live /\ IsFiniteSet(live)
    BY WindowInList DEF Abstract!InWindow, Admitted
  <2>2. /\ IsFiniteSet(Abstract!InWindow(b, now))
        /\ Cardinality(Abstract!InWindow(b, now)) <= Cardinality(live)
    BY <2>1, FS_Subset
  <2>3. Cardinality(live) < Limit[b] /\ Limit[b] \in Nat
    BY <1>3, LimitAssumption DEF Record
  <2>4. Cardinality(Abstract!InWindow(b, now)) < Limit[b]
    BY <2>1, <2>2, <2>3, FS_CardinalityType
  <2> QED BY <1>3, <2>4, SameCardinality DEF Record, Abstract!Admit
<1>4. CASE UNCHANGED vars
  BY <1>4 DEF vars, Abstract!vars
<1> QED BY <1>1, <1>2, <1>3, <1>4 DEF Next, Abstract!Next

\* The lazily pruned lists decide every call exactly like a limiter that
\* remembers all admissions.
THEOREM Refinement == Spec => ImplementsSlidingWindow
<1> QED
  BY InitRefines, NextRefines, Invariance, PTL
     DEF Spec, ImplementsSlidingWindow, Abstract!Spec

-----------------------------------------------------------------------------
(* Retry-After.  Nothing is granted between a refusal and the next call, so  *)
(* what the refusal saw stays true for as long as its reply is the latest.   *)

\* The wait that RetryAfter promises while h is the oldest hit that counts.
WaitFor(h) ==
  AtLeastOne((Window - (reply.at - h.at)) \div TicksPerSecond + 1)

\* At a refusal the window is full, and the wait is the one for its oldest hit.
RefusedWhenFull ==
  ~reply.allowed =>
    /\ reply.at <= now
    /\ Cardinality(StillCounting(0)) >= Limit[reply.bucket]
    /\ \E h \in StillCounting(0) :
         /\ \A g \in StillCounting(0) : h.at <= g.at
         /\ reply.retry = WaitFor(h)

\* On the list that a refusal sees, the pruned hits are those of the window.
LEMMA RejectSeesWindow ==
  ASSUME IInv, NEW b \in Bucket, Reject(b)
  PROVE  Prune(hits[b], now) = Admitted(b, now)
<1> DEFINE live == Prune(hits[b], now)
<1>1. /\ hits[b] \in SUBSET Hit /\ hits[b] \subseteq granted[b] /\ now \in Nat
      /\ \A g, h \in hits[b] : g.n <= h.n => g.at <= h.at
      /\ \A h \in granted[b] : h.at <= now
  BY DEF IInv, TypeOK, Bounded, Ordered
<1>2. \A h \in live : h.at > now - Window
  BY <1>1, PruneKeepsWindow
<1>3. live \subseteq hits[b] /\ Admitted(b, now) \subseteq live
  BY WindowInList
<1> QED
  BY <1>1, <1>2, <1>3 DEF Admitted

LEMMA RejectRefusesWhenFull ==
  ASSUME IInv, NEW b \in Bucket, Reject(b)
  PROVE  RefusedWhenFull'
<1> DEFINE live == Prune(hits[b], now)
<1>1. /\ now' = now /\ granted' = granted /\ now \in Nat
      /\ reply' = [bucket |-> b, at |-> now, allowed |-> FALSE,
                   retry |-> RetryAfter(live, now)]
      /\ Cardinality(live) >= Limit[b]
  BY DEF Reject, IInv, TypeOK
<1>2. live = Admitted(b, now)
  BY RejectSeesWindow
<1>3. live \subseteq granted[b] /\ live \in SUBSET Hit
  BY <1>2 DEF Admitted, IInv, TypeOK
<1>4. live # {}
  BY <1>1, FS_EmptySet, LimitAssumption
<1>5. Oldest(live) \in live /\ \A g \in live : Oldest(live).n <= g.n
  BY <1>3, <1>4, OldestIsFirst
<1>6. \A g \in live : Oldest(live).at <= g.at
  BY <1>3, <1>5 DEF IInv, Ordered
<1>7. StillCounting(0)' = live
  BY <1>1, <1>2, <1>3, WindowType, SMT DEF StillCounting, Admitted, Hit
<1>8. PICK o \in live : o = Oldest(live)
  BY <1>5
<1>9. WaitFor(o)' = RetryAfter(live, now)
  BY <1>1, <1>8 DEF RetryAfter, WaitFor, Window
<1>10. o \in StillCounting(0)' /\ \A g \in StillCounting(0)' : o.at <= g.at
  BY <1>6, <1>7, <1>8
<1>11. reply'.at <= now' /\ Cardinality(StillCounting(0)') >= Limit[reply'.bucket]
  BY <1>1, <1>7
<1>12. reply'.retry = WaitFor(o)'
  BY <1>1, <1>9
<1> HIDE DEF live
<1> QED
  BY <1>10, <1>11, <1>12 DEF RefusedWhenFull

LEMMA NextRefusesWhenFull ==
  IInv /\ RefusedWhenFull /\ [Next]_vars => RefusedWhenFull'
<1> SUFFICES ASSUME IInv, RefusedWhenFull, [Next]_vars PROVE RefusedWhenFull'
  OBVIOUS
<1>1. CASE Tick
  BY <1>1, SMT DEF Tick, RefusedWhenFull, StillCounting, WaitFor, Window,
                   IInv, TypeOK, Reply
<1>2. ASSUME NEW b \in Bucket, Reject(b) PROVE RefusedWhenFull'
  BY <1>2, RejectRefusesWhenFull
<1>3. ASSUME NEW b \in Bucket, Record(b) PROVE RefusedWhenFull'
  BY <1>3 DEF Record, RefusedWhenFull
<1>4. CASE UNCHANGED vars
  BY <1>4 DEF vars, RefusedWhenFull, StillCounting, WaitFor, Window
<1> QED BY <1>1, <1>2, <1>3, <1>4 DEF Next

\* What a refusal saw stays so until the next call is answered.
THEOREM RefusalsSeeAFullWindow == Spec => []RefusedWhenFull
<1>1. Init => RefusedWhenFull
  BY DEF Init, RefusedWhenFull
<1> QED
  BY <1>1, NextRefusesWhenFull, Invariance, PTL DEF Spec

\* A refused client that waits as long as Retry-After says finds room again.
THEOREM RetryAfterIsEnough == Spec => []RetryAfterSuffices
<1>1. IInv /\ RefusedWhenFull => RetryAfterSuffices
  <2> SUFFICES ASSUME IInv, RefusedWhenFull, ~reply.allowed
               PROVE  Cardinality(StillCounting(reply.retry * TicksPerSecond))
                        < Limit[reply.bucket]
    BY DEF RetryAfterSuffices
  <2> DEFINE b == reply.bucket
             full == StillCounting(0)
             rest == StillCounting(reply.retry * TicksPerSecond)
  <2>1. /\ b \in Bucket /\ reply.at \in 0..now /\ reply.retry \in Nat
        /\ granted[b] \in SUBSET Hit /\ IsFiniteSet(granted[b])
        /\ Limit[b] \in Nat
    BY LimitAssumption DEF IInv, TypeOK, Bounded, Reply, RefusedWhenFull
  <2>2. PICK h \in full :
          /\ \A g \in full : h.at <= g.at
          /\ reply.retry = WaitFor(h)
    BY DEF RefusedWhenFull
  <2>3. h \in granted[b] /\ h.at \in Nat /\ h.at <= reply.at
        /\ h.at > reply.at - Window
    BY <2>1, <2>2, WindowType, SMT DEF StillCounting, Hit
  <2> DEFINE x == Window - (reply.at - h.at)
             k == TicksPerSecond
  <2>4. x \in Nat /\ k \in Nat \ {0}
    BY <2>1, <2>3, WindowType, ClockAssumption
  <2>5. x \div k \in Nat /\ x < k * (x \div k + 1)
    BY <2>4, Quotient
  <2>6. reply.retry = x \div k + 1
    BY <2>2, <2>5 DEF WaitFor, AtLeastOne
  <2>7. reply.retry * k > x /\ reply.retry * k \in Nat
    <3> HIDE DEF x, k
    <3> QED BY <2>4, <2>5, <2>6
  <2>8. rest \subseteq full \ {h}
    <3> HIDE DEF k
    <3> SUFFICES ASSUME NEW g \in granted[b], g.at <= reply.at,
                        g.at > reply.at + reply.retry * TicksPerSecond - Window
                 PROVE  g.at > reply.at + 0 - Window /\ g # h
      BY DEF StillCounting
    <3>1. g.at \in Nat
      BY <2>1 DEF Hit
    <3> QED
      BY <3>1, <2>1, <2>3, <2>7, WindowType DEF k
  <2>9. full = Admitted(b, reply.at)
    BY <2>1, WindowType, SMT DEF StillCounting, Admitted, Hit
  <2>10. Cardinality(full) <= Limit[b] /\ IsFiniteSet(full)
    <3>1. full \subseteq granted[b]
      BY DEF StillCounting
    <3> QED BY <3>1, <2>1, <2>9, FS_Subset DEF IInv, WindowBound
  <2>11. /\ IsFiniteSet(full \ {h})
         /\ Cardinality(full \ {h}) = Cardinality(full) - 1
    BY <2>2, <2>10, FS_RemoveElement
  <2>12. IsFiniteSet(rest) /\ Cardinality(rest) <= Cardinality(full \ {h})
    BY <2>8, <2>11, FS_Subset
  <2> HIDE DEF full, rest, b
  <2> QED
    BY <2>1, <2>10, <2>11, <2>12, FS_CardinalityType DEF rest, b
<1> QED BY <1>1, Invariance, RefusalsSeeAFullWindow, PTL

\* Retry-After is never a whole second too long.
THEOREM RetryAfterIsShort == Spec => []RetryAfterTight
<1>1. IInv /\ RefusedWhenFull => RetryAfterTight
  <2> SUFFICES ASSUME IInv, RefusedWhenFull, ~reply.allowed,
                      NEW d \in 0..((reply.retry - 1) * TicksPerSecond - 1)
               PROVE  Cardinality(StillCounting(d)) >= Limit[reply.bucket]
    BY DEF RetryAfterTight
  <2> DEFINE b == reply.bucket
             full == StillCounting(0)
  <2>1. /\ b \in Bucket /\ reply.at \in 0..now /\ reply.retry \in Nat
        /\ granted[b] \in SUBSET Hit /\ now \in Nat
    BY DEF IInv, TypeOK, Reply, RefusedWhenFull
  <2>2. PICK h \in full :
          /\ \A g \in full : h.at <= g.at
          /\ reply.retry = WaitFor(h)
    BY DEF RefusedWhenFull
  <2>3. h.at \in Nat /\ h.at <= reply.at /\ h.at > reply.at - Window
    BY <2>1, <2>2, WindowType, SMT DEF StillCounting, Hit
  <2> DEFINE x == Window - (reply.at - h.at)
             k == TicksPerSecond
  <2>4. x \in Nat /\ k \in Nat \ {0}
    BY <2>1, <2>3, WindowType, ClockAssumption
  <2>5. x \div k \in Nat /\ k * (x \div k) <= x
    BY <2>4, Quotient
  <2>6. reply.retry - 1 = x \div k
    BY <2>2, <2>5 DEF WaitFor, AtLeastOne
  <2>7. d \in Nat /\ d < x
    <3>1. (reply.retry - 1) * TicksPerSecond = k * (x \div k)
      <4>1. \A i \in Nat, j \in Nat : i * j = j * i
        OBVIOUS
      <4> QED BY <4>1, <2>4, <2>5, <2>6
    <3> DEFINE m == (reply.retry - 1) * TicksPerSecond
    <3>2. m \in Nat /\ m <= x
      <4> HIDE DEF x, k
      <4> QED BY <3>1, <2>4, <2>5
    <3>3. d \in 0..(m - 1)
      OBVIOUS
    <3> HIDE DEF m, x
    <3> QED BY <3>2, <3>3, <2>4
  <2>8. \A g \in full : g \in StillCounting(d)
    <3> SUFFICES ASSUME NEW g \in granted[b], g.at <= reply.at, h.at <= g.at
                 PROVE  g.at > reply.at + d - Window
      BY <2>2 DEF StillCounting
    <3>1. g.at \in Nat
      BY <2>1 DEF Hit
    <3> QED
      BY <3>1, <2>1, <2>3, <2>7, WindowType
  <2>9. StillCounting(d) \subseteq full
    <3> SUFFICES ASSUME NEW g \in granted[b], g.at <= reply.at,
                        g.at > reply.at + d - Window
                 PROVE  g.at > reply.at + 0 - Window
      BY DEF StillCounting
    <3>1. g.at \in Nat
      BY <2>1 DEF Hit
    <3> QED
      BY <3>1, <2>1, <2>7, WindowType
  <2>10. StillCounting(d) = full
    BY <2>8, <2>9
  <2> QED
    BY <2>10 DEF RefusedWhenFull
<1> QED BY <1>1, Invariance, RefusalsSeeAFullWindow, PTL
=============================================================================
