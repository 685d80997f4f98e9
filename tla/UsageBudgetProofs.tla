------------------------- MODULE UsageBudgetProofs -------------------------
(***************************************************************************)
(* Theorems about UsageBudget for any users, keys, connections and workers *)
(* and for any plan.                                                       *)
(***************************************************************************)
EXTENDS UsageBudget, DataLemmas

Window == {"day", "week", "month"}

\* The budget and the length of each window.
Limit == [day |-> DailyLimit, week |-> Weekly, month |-> Monthly]
Span == [day |-> Day, week |-> Week, month |-> Month]

Usage(u, f) == SumSince(u, now - Span[f])

LEMMA Plan ==
  /\ Limit \in [Window -> Nat \ {0}]
  /\ Span \in [Window -> Nat \ {0}]
  /\ \A f \in Window : Span[f] < Retention
  /\ MaxTokens \in Nat \ {0}
<1>1. Weekly \in Nat \ {0} /\ Monthly \in Nat \ {0} /\ Day \in Nat \ {0}
      /\ Week \in Nat \ {0} /\ Month \in Nat \ {0} /\ Retention \in Nat \ {0}
      /\ MaxTokens \in Nat \ {0}
  BY BudgetAssumption
<1>2. DailyLimit \in Nat \ {0}
  BY <1>1, Quotient DEF DailyLimit
<1> QED BY <1>1, <1>2, RetentionAssumption DEF Limit, Span, Window

-----------------------------------------------------------------------------
\* Sums, for any log.

TokensOf(log, S) == UNION {{kt} \X (1..log[kt]) : kt \in S}

LEMMA SumIsOfTokens ==
  ASSUME NEW u, NEW since
  PROVE  SumSince(u, since) = Cardinality(TokensOf(logs, RowsSince(u, since)))
BY DEF SumSince, TokensOf

LEMMA RowsFinite ==
  ASSUME NEW u, NEW since
  PROVE  IsFiniteSet(RowsSince(u, since)) /\ RowsSince(u, since) \subseteq Key \X Time
<1>1. IsFiniteSet(Time)
  BY BoundAssumption, FS_Interval DEF Time
<1>2. IsFiniteSet(Key \X Time)
  BY <1>1, FiniteAssumption, FS_Product
<1>3. RowsSince(u, since) \in SUBSET (Key \X Time)
  BY DEF RowsSince
<1> QED BY <1>2, <1>3, FS_Subset

LEMMA TokensFinite ==
  ASSUME NEW S, IsFiniteSet(S), NEW log, \A kt \in S : log[kt] \in Nat
  PROVE  IsFiniteSet(TokensOf(log, S)) /\ Cardinality(TokensOf(log, S)) \in Nat
<1> DEFINE Pile(kt) == {kt} \X (1..log[kt])
           Piles == {Pile(kt) : kt \in S}
<1>1. IsFiniteSet(Piles)
  <2> DEFINE g == [kt \in S |-> Pile(kt)]
  <2>1. g \in Surjection(S, Piles)
    BY DEF Surjection
  <2> HIDE DEF g, Piles
  <2> QED BY <2>1, FS_Surjection
<1>2. ASSUME NEW kt \in S PROVE IsFiniteSet(Pile(kt))
  <2>1. IsFiniteSet({kt})
    BY FS_Singleton
  <2>2. IsFiniteSet(1..log[kt])
    BY FS_Interval
  <2> QED BY <2>1, <2>2, FS_Product
<1>3. \A T \in Piles : IsFiniteSet(T)
  BY <1>2
<1>4. IsFiniteSet(UNION Piles)
  <2> HIDE DEF Piles
  <2> QED BY <1>1, <1>3, FS_UNION
<1>5. TokensOf(log, S) = UNION Piles
  BY DEF TokensOf
<1> QED BY <1>4, <1>5, FS_CardinalityType

\* More rows, or more tokens in each, are more tokens.
LEMMA TokensGrow ==
  ASSUME NEW S, NEW T, S \subseteq T, IsFiniteSet(T), NEW lo, NEW hi,
         \A kt \in S : lo[kt] \in Nat, \A kt \in T : hi[kt] \in Nat,
         \A kt \in S : lo[kt] <= hi[kt]
  PROVE  Cardinality(TokensOf(lo, S)) <= Cardinality(TokensOf(hi, T))
<1>1. TokensOf(lo, S) \in SUBSET TokensOf(hi, T)
  <2> SUFFICES ASSUME NEW kt \in S, NEW x \in {kt} \X (1..lo[kt])
               PROVE  x \in TokensOf(hi, T)
    BY Zenon DEF TokensOf
  <2>1. x \in {kt} \X (1..hi[kt])
    OBVIOUS
  <2> QED BY <2>1, Zenon DEF TokensOf
<1>2. IsFiniteSet(TokensOf(hi, T))
  BY TokensFinite
<1> QED BY <1>1, <1>2, FS_Subset

\* n tokens more at one place are n more of all.
LEMMA TokensAdd ==
  ASSUME NEW S, IsFiniteSet(S), NEW old, NEW new, NEW at \in S, NEW n \in Nat,
         \A kt \in S : old[kt] \in Nat, new[at] = old[at] + n,
         \A kt \in S \ {at} : new[kt] = old[kt]
  PROVE  Cardinality(TokensOf(new, S)) = Cardinality(TokensOf(old, S)) + n
<1> DEFINE More == {at} \X ((old[at] + 1)..(old[at] + n))
<1>1. TokensOf(new, S) = TokensOf(old, S) \cup More
  <2>1. ASSUME NEW kt \in S \ {at} PROVE {kt} \X (1..new[kt]) = {kt} \X (1..old[kt])
    OBVIOUS
  <2>2. {at} \X (1..new[at]) = ({at} \X (1..old[at])) \cup More
    <3>1. 1..new[at] = (1..old[at]) \cup ((old[at] + 1)..(old[at] + n))
      OBVIOUS
    <3> QED BY <3>1
  <2> HIDE DEF More
  <2> QED BY <2>1, <2>2 DEF TokensOf
<1>2. TokensOf(old, S) \cap More = {}
  <2> SUFFICES ASSUME NEW kt \in S, NEW x \in {kt} \X (1..old[kt]), x \in More PROVE FALSE
    BY DEF TokensOf
  <2> QED OBVIOUS
<1>3. IsFiniteSet(More) /\ Cardinality(More) = n
  <2>1. IsFiniteSet({at}) /\ Cardinality({at}) = 1
    BY FS_Singleton
  <2> DEFINE I == (old[at] + 1)..(old[at] + n)
  <2>2. old[at] + 1 \in Int /\ old[at] + n \in Int
    OBVIOUS
  <2>3. IsFiniteSet(I) /\ Cardinality(I) = n
    <3>1. /\ IsFiniteSet(I)
          /\ Cardinality(I) = IF old[at] + 1 > old[at] + n THEN 0
                              ELSE (old[at] + n) - (old[at] + 1) + 1
      BY <2>2, FS_Interval
    <3> HIDE DEF I
    <3> QED BY <3>1
  <2> HIDE DEF I
  <2>4. IsFiniteSet({at} \X I) /\ Cardinality({at} \X I) = Cardinality({at}) * Cardinality(I)
    BY <2>1, <2>3, FS_Product
  <2> QED BY <2>1, <2>3, <2>4 DEF I
<1>4. IsFiniteSet(TokensOf(old, S))
  BY TokensFinite
<1> HIDE DEF More
<1> QED BY <1>1, <1>2, <1>3, <1>4, DisjointUnion

\* The same tokens in every row are the same tokens.
LEMMA TokensSame ==
  ASSUME NEW S, NEW old, NEW new, \A kt \in S : new[kt] = old[kt]
  PROVE  TokensOf(new, S) = TokensOf(old, S)
BY DEF TokensOf

-----------------------------------------------------------------------------
\* Types, for the proofs.

Entry == [day : Nat, week : Nat, month : Nat, at : Time]

\* A cached triple is one or none.
CachesTyped ==
  /\ cache \in [Worker -> [User -> SUBSET Entry]]
  /\ \A w \in Worker, u \in User : cache[w][u] = {} \/ \E e \in Entry : cache[w][u] = {e}

\* A request is served by one worker from its first query to its end.
RequestsPlaced ==
  /\ pc \in [Request -> Location]
  /\ worker \in [Request -> SUBSET Worker]
  /\ \A r \in Request :
       (pc[r] = "idle" /\ worker[r] = {}) \/ (pc[r] # "idle" /\ \E w \in Worker : worker[r] = {w})

\* A log goes to a key of the request's owner.
KeysPicked ==
  /\ picked \in [Request -> SUBSET Key]
  /\ \A r \in Request : \A k \in picked[r] : KeyOwner[k] = Owner[r]

Started == start \in [Request -> Time] /\ \A r \in Request : start[r] <= now

TypeInv ==
  /\ now \in Time
  /\ status \in [Key -> KeyStatus]
  /\ logs \in [Key \X Time -> Nat]
  /\ CachesTyped
  /\ RequestsPlaced
  /\ Started
  /\ sums \in [Request -> Sums]
  /\ KeysPicked
  /\ webCalls \in 0..MaxWebCalls
  /\ floor \in [Worker -> [User -> Nat]]

LEMMA TypeInvImplies == TypeInv => TypeOK
<1> SUFFICES ASSUME TypeInv PROVE TypeOK
  OBVIOUS
<1> USE DEF TypeInv, CachesTyped, RequestsPlaced, Started, KeysPicked
<1>1. ASSUME NEW w \in Worker, NEW u \in User
      PROVE  /\ Cardinality(cache[w][u]) <= 1
             /\ cache[w][u] \subseteq [day : Nat, week : Nat, month : Nat, at : Time]
  <2>1. CASE cache[w][u] = {}
    BY <2>1, FS_EmptySet
  <2>2. ASSUME NEW e \in Entry, cache[w][u] = {e}
        PROVE  /\ Cardinality(cache[w][u]) <= 1
               /\ cache[w][u] \subseteq [day : Nat, week : Nat, month : Nat, at : Time]
    <3>1. Cardinality({e}) = 1
      BY FS_Singleton
    <3> QED BY <2>2, <3>1 DEF Entry
  <2> QED BY <2>1, <2>2
<1>2. ASSUME NEW r \in Request
      PROVE  /\ worker[r] \subseteq Worker
             /\ (Cardinality(worker[r]) = IF pc[r] = "idle" THEN 0 ELSE 1)
  <2>1. CASE pc[r] = "idle"
    BY <2>1, FS_EmptySet
  <2>2. CASE pc[r] # "idle"
    <3>1. PICK w \in Worker : worker[r] = {w}
      BY <2>2
    <3>2. Cardinality({w}) = 1
      BY FS_Singleton
    <3> QED BY <2>2, <3>1, <3>2
  <2> QED BY <2>1, <2>2
<1> QED BY <1>1, <1>2 DEF TypeOK

LEMMA TypeInvInit == Init => TypeInv
<1> SUFFICES ASSUME Init PROVE TypeInv
  OBVIOUS
<1>1. 0 \in Time
  BY BoundAssumption DEF Time
<1>2. logs \in [Key \X Time -> Nat]
  BY DEF Init
<1>3. cache \in [Worker -> [User -> SUBSET Entry]]
      /\ \A w \in Worker, u \in User : cache[w][u] = {}
  BY DEF Init
<1>4. webCalls \in 0..MaxWebCalls
  BY BoundAssumption DEF Init
<1> QED
  BY <1>1, <1>2, <1>3, <1>4 DEF Init, TypeInv, KeyStatus, Location, Sums, NoSums, CachesTyped, RequestsPlaced,
     Started, KeysPicked

\* A request that is not idle is at one worker.
LEMMA AtOneWorker ==
  ASSUME TypeInv, NEW r \in Request, pc[r] # "idle"
  PROVE  WorkerOf(r) \in Worker /\ worker[r] = {WorkerOf(r)}
<1>1. PICK w \in Worker : worker[r] = {w}
  BY DEF TypeInv, RequestsPlaced
<1>2. WorkerOf(r) \in worker[r]
  BY <1>1, Zenon DEF WorkerOf
<1> QED BY <1>1, <1>2

LEMMA Served ==
  ASSUME TypeInv, NEW r \in Request, NEW w \in Worker, NEW l \in Location, Serve(w, r, l)
  PROVE  /\ RequestsPlaced'
         /\ pc'[r] = l /\ worker'[r] = IF l = "idle" THEN {} ELSE {w}
         /\ \A q \in Request \ {r} : pc'[q] = pc[q] /\ worker'[q] = worker[q]
BY DEF TypeInv, RequestsPlaced, Serve

LEMMA EntryOfSums ==
  ASSUME TypeInv, NEW w \in Worker, NEW u \in User, NEW s \in Sums, Store(w, u, s)
  PROVE  \E e \in Entry :
           /\ e.day = s.day /\ e.week = s.week /\ e.month = s.month
           /\ CachesTyped'
           /\ cache'[w][u] = {e}
           /\ \A v \in Worker, x \in User : v # w \/ x # u => cache'[v][x] = cache[v][x]
<1>1. PICK e : e = [day |-> s.day, week |-> s.week, month |-> s.month, at |-> now]
  OBVIOUS
<1>2. /\ e \in Entry
      /\ e.day = s.day /\ e.week = s.week /\ e.month = s.month
  BY <1>1 DEF TypeInv, Entry, Sums
<1>3. cache' = [cache EXCEPT ![w] = [@ EXCEPT ![u] = {e}]]
  BY <1>1 DEF Store
<1> QED BY <1>2, <1>3 DEF TypeInv, CachesTyped

LEMMA Dropped ==
  ASSUME TypeInv, NEW w \in Worker, NEW u \in User, DropCache(w, u)
  PROVE  /\ CachesTyped'
         /\ cache'[w][u] = {}
         /\ \A v \in Worker, x \in User : v # w \/ x # u => cache'[v][x] = cache[v][x]
<1>1. cache' = [cache EXCEPT ![w] = [@ EXCEPT ![u] = {}]]
  BY DEF DropCache
<1> QED BY <1>1 DEF TypeInv, CachesTyped

LEMMA SumIsNat ==
  ASSUME TypeInv, NEW u, NEW since
  PROVE  SumSince(u, since) \in Nat
<1>1. \A kt \in RowsSince(u, since) : logs[kt] \in Nat
  BY RowsFinite DEF TypeInv
<1> QED BY <1>1, SumIsOfTokens, RowsFinite, TokensFinite

LEMMA OwnersAreUsers ==
  ASSUME NEW r \in Request PROVE Owner[r] \in User
BY OwnerAssumption

\* A request moves on to l.
LEMMA Gone ==
  ASSUME TypeInv, NEW r \in Request, pc[r] # "idle", NEW l \in Location, Goto(r, l)
  PROVE  /\ RequestsPlaced'
         /\ pc'[r] = l /\ worker'[r] = IF l = "idle" THEN {} ELSE worker[r]
         /\ \A q \in Request \ {r} : pc'[q] = pc[q] /\ worker'[q] = worker[q]
<1>1. WorkerOf(r) \in Worker /\ worker[r] = {WorkerOf(r)}
  BY AtOneWorker
<1>2. Serve(WorkerOf(r), r, l)
  BY DEF Goto
<1>3. PICK w \in Worker : w = WorkerOf(r)
  BY <1>1
<1>4. Serve(w, r, l)
  BY <1>2, <1>3
<1> QED BY <1>1, <1>3, <1>4, Served

-----------------------------------------------------------------------------
\* Every step keeps the types.

LEMMA Kept ==
  ASSUME TypeInv
  PROVE  /\ cache' = cache => CachesTyped'
         /\ pc' = pc /\ worker' = worker => RequestsPlaced'
         /\ start' = start /\ now' = now => Started'
         /\ picked' = picked => KeysPicked'
<1>1. cache' = cache => CachesTyped'
  BY DEF TypeInv, CachesTyped
<1>2. pc' = pc /\ worker' = worker => RequestsPlaced'
  BY DEF TypeInv, RequestsPlaced
<1>3. start' = start /\ now' = now => Started'
  BY DEF TypeInv, Started
<1>4. picked' = picked => KeysPicked'
  BY DEF TypeInv, KeysPicked
<1> QED BY <1>1, <1>2, <1>3, <1>4

LEMMA TypeCheckCached ==
  ASSUME TypeInv, NEW r \in Request, CheckCached(r) PROVE TypeInv'
<1>1. PICK w \in Worker : \E e \in Cached(w, Owner[r]) : Decide(w, r, e)
  BY DEF CheckCached
<1>2. PICK l \in Location : Serve(w, r, l)
  BY <1>1 DEF Decide, Location
<1> QED BY <1>2, Served, Kept DEF CheckCached, TypeInv

LEMMA TypeStartFill ==
  ASSUME TypeInv, NEW r \in Request, StartFill(r) PROVE TypeInv'
<1>1. PICK w \in Worker : Serve(w, r, "daily")
  BY DEF StartFill
<1>2. "daily" \in Location
  BY DEF Location
<1>3. Started'
  BY DEF StartFill, TypeInv, Started, Time
<1> QED BY <1>1, <1>2, <1>3, Served, Kept DEF StartFill, TypeInv

LEMMA TypeReadSum ==
  ASSUME TypeInv, NEW r \in Request, NEW at, at # "idle", NEW next \in Location,
         NEW field \in Window, NEW span, ReadSum(r, at, next, field, span)
  PROVE  TypeInv'
<1>1. SumSince(Owner[r], start[r] - span) \in Nat
  BY SumIsNat
<1>2. sums' \in [Request -> Sums]
  <2>1. sums' = [sums EXCEPT ![r] = [@ EXCEPT ![field] = SumSince(Owner[r], start[r] - span)]]
    BY DEF ReadSum
  <2>2. ASSUME NEW s \in Sums, NEW n \in Nat PROVE [s EXCEPT ![field] = n] \in Sums
    BY DEF Sums, Window
  <2> QED BY <1>1, <2>1, <2>2 DEF TypeInv
<1>3. pc[r] # "idle" /\ Goto(r, next)
  BY DEF ReadSum
<1> QED BY <1>2, <1>3, Gone, Kept DEF ReadSum, TypeInv

LEMMA TypeStoreAndDecide ==
  ASSUME TypeInv, NEW r \in Request, StoreAndDecide(r) PROVE TypeInv'
<1>1. pc[r] # "idle" /\ WorkerOf(r) \in Worker
  BY AtOneWorker DEF StoreAndDecide
<1>2. PICK w \in Worker : w = WorkerOf(r)
  BY <1>1
<1>3. PICK l \in Location : Serve(w, r, l)
  BY <1>2 DEF StoreAndDecide, Decide, Location
<1>4. PICK u \in User, s \in Sums : u = Owner[r] /\ s = sums[r]
  BY OwnersAreUsers DEF TypeInv
<1>5. Store(w, u, s)
  BY <1>2, <1>4 DEF StoreAndDecide
<1>6. CachesTyped'
  BY <1>5, EntryOfSums
<1>7. 0 \in Time /\ NoSums \in Sums
  BY BoundAssumption DEF Time, NoSums, Sums
<1>8. Started' /\ sums' \in [Request -> Sums]
  BY <1>7 DEF StoreAndDecide, TypeInv, Started, Time
<1> QED BY <1>3, <1>6, <1>8, Served, Kept DEF StoreAndDecide, TypeInv

LEMMA TypeWebCall ==
  ASSUME TypeInv, NEW r \in Request, WebCall(r) PROVE TypeInv'
<1>1. PICK w \in Worker, l \in Location : Serve(w, r, l)
  BY DEF WebCall, Location
<1>2. webCalls' \in 0..MaxWebCalls
  BY BoundAssumption DEF WebCall, TypeInv
<1> QED BY <1>1, <1>2, Served, Kept DEF WebCall, TypeInv

LEMMA TypeFindKey ==
  ASSUME TypeInv, NEW r \in Request, FindKey(r) PROVE TypeInv'
<1>1. pc[r] # "idle"
  BY DEF FindKey
<1>2. PICK l \in Location : Goto(r, l)
  BY DEF FindKey, Location
<1>3. KeysPicked'
  <2>1. CASE UNCHANGED picked
    BY <2>1 DEF TypeInv, KeysPicked
  <2>2. ASSUME NEW k \in Key, KeyOwner[k] = Owner[r], picked' = [picked EXCEPT ![r] = {k}]
        PROVE  KeysPicked'
    BY <2>2 DEF TypeInv, KeysPicked
  <2> QED BY <2>1, <2>2 DEF FindKey
<1> QED BY <1>1, <1>2, <1>3, Gone, Kept DEF FindKey, TypeInv

LEMMA TypeEndUnlogged ==
  ASSUME TypeInv, NEW r \in Request, EndUnlogged(r) PROVE TypeInv'
<1>1. pc[r] # "idle" /\ Goto(r, "idle") /\ "idle" \in Location
  BY DEF EndUnlogged, Location
<1> QED BY <1>1, Gone, Kept DEF EndUnlogged, TypeInv

LEMMA TypeCommitLog ==
  ASSUME TypeInv, NEW r \in Request, CommitLog(r) PROVE TypeInv'
<1>1. pc[r] # "idle"
  BY DEF CommitLog
<1>2. PICK l \in Location : Goto(r, l)
  BY DEF CommitLog, Location
<1>3. logs' \in [Key \X Time -> Nat]
  <2>1. CASE UNCHANGED logs
    BY <2>1 DEF TypeInv
  <2>2. ASSUME NEW k, NEW n \in 1..MaxTokens, logs' = [logs EXCEPT ![<<k, now>>] = @ + n]
        PROVE  logs' \in [Key \X Time -> Nat]
    <3>1. n \in Nat
      BY Plan
    <3>2. \A kt \in Key \X Time : logs'[kt] = logs[kt] \/ logs'[kt] = logs[kt] + n
      BY <2>2 DEF TypeInv
    <3>3. \A kt \in Key \X Time : logs[kt] \in Nat
      BY DEF TypeInv
    <3>4. \A kt \in Key \X Time : logs'[kt] \in Nat
      BY <3>1, <3>2, <3>3
    <3>5. logs' = [kt \in Key \X Time |-> logs'[kt]]
      BY <2>2 DEF TypeInv
    <3> QED BY <3>4, <3>5
  <2> QED BY <2>1, <2>2 DEF CommitLog
<1>4. KeysPicked'
  BY DEF CommitLog, TypeInv, KeysPicked
<1> QED BY <1>1, <1>2, <1>3, <1>4, Gone, Kept DEF CommitLog, TypeInv

LEMMA TypeInvalidate ==
  ASSUME TypeInv, NEW r \in Request, Invalidate(r) PROVE TypeInv'
<1>1. pc[r] # "idle" /\ Goto(r, "idle") /\ "idle" \in Location
  BY DEF Invalidate, Location
<1>2. PICK w \in Worker, u \in User : w = WorkerOf(r) /\ u = Owner[r]
  BY <1>1, AtOneWorker, OwnersAreUsers
<1>3. DropCache(w, u)
  BY <1>2 DEF Invalidate
<1>4. CachesTyped'
  BY <1>3, Dropped, Zenon
<1>5. floor' \in [Worker -> [User -> Nat]]
  <2>1. SumSince(u, now - Day) \in Nat
    BY SumIsNat
  <2>2. floor' = floor \/ floor' = [floor EXCEPT ![w][u] = SumSince(u, now - Day)]
    BY <1>2 DEF Invalidate
  <2>3. floor \in [Worker -> [User -> Nat]]
    BY DEF TypeInv
  <2> QED BY <2>1, <2>2, <2>3
<1> QED BY <1>1, <1>4, <1>5, Gone, Kept DEF Invalidate, TypeInv

LEMMA TypeEvict ==
  ASSUME TypeInv, NEW w \in Worker, NEW u \in User, Evict(w, u) PROVE TypeInv'
<1>1. DropCache(w, u)
  BY DEF Evict, DropCache
<1>2. CachesTyped'
  BY <1>1, Dropped, Zenon
<1> QED BY <1>2, Kept DEF Evict, TypeInv

LEMMA TypeKeys ==
  ASSUME TypeInv, NEW k \in Key, CreateKey(k) \/ ExpireKey(k) \/ RevokeKey(k) PROVE TypeInv'
<1>1. status' \in [Key -> KeyStatus]
  <2>1. PICK x \in KeyStatus : status' = [status EXCEPT ![k] = x]
    BY DEF CreateKey, ExpireKey, RevokeKey, KeyStatus
  <2> QED BY <2>1 DEF TypeInv
<1>2. logs' \in [Key \X Time -> Nat]
  BY DEF CreateKey, ExpireKey, RevokeKey, TypeInv
<1>3. floor' \in [Worker -> [User -> Nat]]
  <2>1. floor \in [Worker -> [User -> Nat]]
    BY DEF TypeInv
  <2>2. \A w \in Worker : [floor[w] EXCEPT ![KeyOwner[k]] = 0] \in [User -> Nat]
    BY <2>1
  <2> QED BY <2>1, <2>2 DEF CreateKey, ExpireKey, RevokeKey
<1>4. UNCHANGED <<now, cache, pc, worker, start, sums, picked, webCalls>>
  BY DEF CreateKey, ExpireKey, RevokeKey
<1> QED BY <1>1, <1>2, <1>3, <1>4, Kept DEF TypeInv

LEMMA TypePurge ==
  ASSUME TypeInv, Purge PROVE TypeInv'
<1>1. logs' \in [Key \X Time -> Nat]
  BY DEF Purge, TypeInv
<1> QED BY <1>1, Kept DEF Purge, TypeInv

LEMMA TypeTick ==
  ASSUME TypeInv, Tick PROVE TypeInv'
<1>1. now' \in Time /\ Started'
  BY BoundAssumption DEF Tick, TypeInv, Time, Started
<1>2. floor' \in [Worker -> [User -> Nat]]
  BY DEF Tick
<1> QED BY <1>1, <1>2, Kept DEF Tick, TypeInv

\* The actions of Next, one by one.
LEMMA StepCases ==
  ASSUME [Next]_vars
  PROVE  \/ \E r \in Request :
              \/ CheckCached(r) \/ StartFill(r)
              \/ ReadSum(r, "daily", "weekly", "day", Day)
              \/ ReadSum(r, "weekly", "monthly", "week", Week)
              \/ ReadSum(r, "monthly", "decide", "month", Month)
              \/ StoreAndDecide(r) \/ WebCall(r) \/ FindKey(r) \/ EndUnlogged(r)
              \/ CommitLog(r) \/ Invalidate(r)
         \/ \E w \in Worker, u \in User : Evict(w, u)
         \/ \E k \in Key : CreateKey(k) \/ ExpireKey(k) \/ RevokeKey(k)
         \/ Purge \/ Tick
         \/ UNCHANGED vars
BY Zenon DEF Next, RequestStep, ReadDaily, ReadWeekly, ReadMonthly

LEMMA TypeInvStep == TypeInv /\ [Next]_vars => TypeInv'
<1> SUFFICES ASSUME TypeInv, [Next]_vars PROVE TypeInv'
  OBVIOUS
<1>1. /\ "weekly" \in Location /\ "monthly" \in Location /\ "decide" \in Location
      /\ "day" \in Window /\ "week" \in Window /\ "month" \in Window
  BY DEF Location, Window
<1>2. ASSUME NEW r \in Request,
             \/ ReadSum(r, "daily", "weekly", "day", Day)
             \/ ReadSum(r, "weekly", "monthly", "week", Week)
             \/ ReadSum(r, "monthly", "decide", "month", Month)
      PROVE  TypeInv'
  <2>1. "daily" # "idle" /\ "weekly" # "idle" /\ "monthly" # "idle"
    OBVIOUS
  <2> QED BY <1>1, <1>2, <2>1, TypeReadSum
<1>3. CASE UNCHANGED vars
  BY <1>3, Kept DEF vars, TypeInv
<1> QED
  BY <1>2, <1>3, StepCases, TypeCheckCached, TypeStartFill, TypeStoreAndDecide, TypeWebCall,
     TypeFindKey, TypeEndUnlogged, TypeCommitLog, TypeInvalidate, TypeEvict, TypeKeys,
     TypePurge, TypeTick, Zenon

\* The clock, the log, the caches and every request are well typed, for any
\* users, keys, connections and workers.
THEOREM TypeCorrect == Spec => []TypeOK
<1>1. Spec => []TypeInv
  BY TypeInvInit, TypeInvStep, PTL DEF Spec
<1> QED BY <1>1, TypeInvImplies, PTL

-----------------------------------------------------------------------------
\* How the steps change the sums of a user.

LEMMA UsageIsOfTokens ==
  ASSUME NEW u, NEW f
  PROVE  /\ Usage(u, f) = Cardinality(TokensOf(logs, RowsSince(u, now - Span[f])))
         /\ Usage(u, f)' = Cardinality(TokensOf(logs', RowsSince(u, now' - Span[f])))
BY DEF Usage, SumSince, TokensOf, RowsSince

LEMMA UsageIsNat ==
  ASSUME TypeInv, NEW u, NEW f PROVE Usage(u, f) \in Nat
BY SumIsNat DEF Usage

LEMMA NextUsageIsNat ==
  ASSUME TypeInv', NEW u, NEW f PROVE Usage(u, f)' \in Nat
<1>1. logs' \in [Key \X Time -> Nat]
  BY DEF TypeInv
<1>2. \A kt \in RowsSince(u, now' - Span[f]) : logs'[kt] \in Nat
  BY <1>1, RowsFinite
<1> QED BY <1>2, UsageIsOfTokens, RowsFinite, TokensFinite

LEMMA UsageKept ==
  ASSUME logs' = logs, now' = now, NEW u, NEW f
  PROVE  Usage(u, f)' = Usage(u, f)
BY UsageIsOfTokens

\* The earlier the window begins, the more is in it.
LEMMA SinceEarlier ==
  ASSUME TypeInv, NEW u, NEW s \in Int, NEW t \in Int, s <= t
  PROVE  SumSince(u, t) <= SumSince(u, s)
<1>1. RowsSince(u, t) \subseteq RowsSince(u, s)
  BY DEF RowsSince, Time
<1>2. \A kt \in RowsSince(u, s) : logs[kt] \in Nat
  BY RowsFinite DEF TypeInv
<1>3. \A kt \in RowsSince(u, t) : logs[kt] \in Nat /\ logs[kt] <= logs[kt]
  BY <1>1, <1>2
<1> QED BY <1>1, <1>2, <1>3, RowsFinite, SumIsOfTokens, TokensGrow

\* Nothing that Purge deletes is in a window.
LEMMA PurgeKeepsWindows ==
  ASSUME TypeInv, Purge, NEW u, NEW f \in Window
  PROVE  Usage(u, f)' = Usage(u, f)
<1>1. now \in Int /\ Span[f] \in Int /\ Retention \in Int /\ Span[f] < Retention
  BY Plan, BudgetAssumption DEF TypeInv, Time
<1>2. ASSUME NEW kt \in RowsSince(u, now - Span[f]) PROVE logs'[kt] = logs[kt]
  <2>1. kt \in Key \X Time /\ kt[2] >= now - Span[f] /\ kt[2] \in Int
    BY DEF RowsSince, Time
  <2>2. ~ (kt[2] < now - Retention)
    BY <1>1, <2>1
  <2> QED BY <2>1, <2>2 DEF Purge
<1>3. now' = now
  BY DEF Purge
<1> QED BY <1>2, <1>3, UsageIsOfTokens, TokensSame

LEMMA RevokeLowers ==
  ASSUME TypeInv, NEW k \in Key, RevokeKey(k), NEW u, NEW f \in Window
  PROVE  /\ Usage(u, f)' <= Usage(u, f)
         /\ KeyOwner[k] # u => Usage(u, f)' = Usage(u, f)
<1> DEFINE S == RowsSince(u, now - Span[f])
<1>1. now' = now /\ logs' = [kt \in Key \X Time |-> IF kt[1] = k THEN 0 ELSE logs[kt]]
  BY DEF RevokeKey
<1>2. IsFiniteSet(S) /\ S \subseteq Key \X Time
  BY RowsFinite
<1>3. \A kt \in S : logs'[kt] \in Nat /\ logs[kt] \in Nat /\ logs'[kt] <= logs[kt]
  BY <1>1, <1>2 DEF TypeInv
<1>4. ASSUME KeyOwner[k] # u, NEW kt \in S PROVE logs'[kt] = logs[kt]
  BY <1>1, <1>4 DEF RowsSince
<1> HIDE DEF S
<1>5. Cardinality(TokensOf(logs', S)) <= Cardinality(TokensOf(logs, S))
  BY <1>2, <1>3, TokensGrow
<1>6. KeyOwner[k] # u => TokensOf(logs', S) = TokensOf(logs, S)
  BY <1>4, TokensSame
<1> QED BY <1>1, <1>5, <1>6, UsageIsOfTokens DEF S

LEMMA TickLowers ==
  ASSUME TypeInv, Tick, NEW u, NEW f \in Window
  PROVE  Usage(u, f)' <= Usage(u, f)
<1>1. now \in Int /\ Span[f] \in Int
  BY Plan DEF TypeInv, Time
<1>2. now' = now + 1 /\ logs' = logs
  BY DEF Tick
<1>3. PICK s \in Int, t \in Int : s = now - Span[f] /\ t = now' - Span[f] /\ s <= t
  BY <1>1, <1>2
<1>4. SumSince(u, t) <= SumSince(u, s)
  BY <1>3, SinceEarlier
<1>5. Usage(u, f)' = SumSince(u, t)
  BY <1>2, <1>3, UsageIsOfTokens, SumIsOfTokens
<1>6. Usage(u, f) = SumSince(u, s)
  BY <1>3 DEF Usage
<1> QED BY <1>4, <1>5, <1>6

LEMMA CommitRaises ==
  ASSUME TypeInv, NEW k \in Key, NEW n \in 1..MaxTokens, now' = now,
         logs' = [logs EXCEPT ![<<k, now>>] = @ + n], NEW u, NEW f \in Window
  PROVE  /\ KeyOwner[k] = u => Usage(u, f)' = Usage(u, f) + n
         /\ KeyOwner[k] # u => Usage(u, f)' = Usage(u, f)
<1> DEFINE S == RowsSince(u, now - Span[f])
           place == <<k, now>>
<1>1. IsFiniteSet(S) /\ S \subseteq Key \X Time
  BY RowsFinite
<1>2. \A kt \in S : logs[kt] \in Nat
  BY <1>1 DEF TypeInv
<1>3. n \in Nat
  BY Plan
<1>4. place \in Key \X Time /\ \A kt \in Key \X Time : kt # place => logs'[kt] = logs[kt]
  BY DEF TypeInv
<1>5. logs'[place] = logs[place] + n
  BY <1>4 DEF TypeInv
<1>6. KeyOwner[k] = u => place \in S
  BY <1>4, Plan DEF RowsSince, TypeInv, Time
<1>7. KeyOwner[k] # u => place \notin S
  BY DEF RowsSince
<1> HIDE DEF S, place
<1>8. ASSUME KeyOwner[k] = u
      PROVE  Cardinality(TokensOf(logs', S)) = Cardinality(TokensOf(logs, S)) + n
  <2>1. PICK old, new : old = logs /\ new = logs'
    OBVIOUS
  <2>2. place \in S /\ \A kt \in S \ {place} : new[kt] = old[kt]
    BY <1>1, <1>4, <1>6, <1>8, <2>1
  <2>3. new[place] = old[place] + n /\ \A kt \in S : old[kt] \in Nat
    BY <1>2, <1>5, <2>1
  <2>4. Cardinality(TokensOf(new, S)) = Cardinality(TokensOf(old, S)) + n
    BY <1>1, <1>3, <2>2, <2>3, TokensAdd
  <2> QED BY <2>1, <2>4
<1>9. ASSUME KeyOwner[k] # u PROVE TokensOf(logs', S) = TokensOf(logs, S)
  BY <1>1, <1>4, <1>7, <1>9, TokensSame
<1> QED BY <1>8, <1>9, UsageIsOfTokens DEF S

\* "pruning never removes data a live enforcement query could still need",
\* for any retention longer than a month.
THEOREM PurgeAlwaysInvisible == Spec => PurgeInvisible
<1>1. TypeInv /\ [Next]_vars
        => [Purge => \A u \in User :
              SumSince(u, now - Month)' = SumSince(u, now - Month)]_vars
  <2> SUFFICES ASSUME TypeInv, Purge, NEW u \in User
               PROVE  SumSince(u, now - Month)' = SumSince(u, now - Month)
    OBVIOUS
  <2>1. Usage(u, "month")' = Usage(u, "month")
    BY PurgeKeepsWindows DEF Window
  <2> QED BY <2>1 DEF Usage, Span
<1>2. Spec => []TypeInv
  BY TypeInvInit, TypeInvStep, PTL DEF Spec
<1> QED BY <1>1, <1>2, PTL DEF Spec, PurgeInvisible

-----------------------------------------------------------------------------
\* What a new check must at least see, see floor: the present sum is not below
\* it, nor is what a fill under way has read, nor what the cache has.
FloorInv ==
  \A w \in Worker, u \in User :
    /\ floor[w][u] <= Usage(u, "day")
    /\ \A r \in Filling(w, u) : floor[w][u] <= sums[r].day
    /\ \A e \in cache[w][u] : floor[w][u] <= e.day

LEMMA FloorInvInit == Init => FloorInv
<1> SUFFICES ASSUME Init, NEW w \in Worker, NEW u \in User
             PROVE  /\ 0 <= Usage(u, "day") /\ floor[w][u] = 0
                    /\ Filling(w, u) = {} /\ cache[w][u] = {}
  BY DEF FloorInv
<1>1. Usage(u, "day") \in Nat
  BY TypeInvInit, UsageIsNat
<1> QED BY <1>1 DEF Init, Filling

LEMMA UsageOfDay == ASSUME NEW u PROVE Usage(u, "day") = SumSince(u, now - Day)
BY DEF Usage, Span

\* A step of r that leaves log, clock and floor alone.
LEMMA FloorOfStep ==
  ASSUME TypeInv, FloorInv, NEW r \in Request,
         now' = now, logs' = logs, floor' = floor,
         \A q \in Request \ {r} : pc'[q] = pc[q] /\ worker'[q] = worker[q] /\ sums'[q] = sums[q],
         pc'[r] \in {"weekly", "monthly", "decide"}
           => \A w \in Worker : worker'[r] = {w} => floor[w][Owner[r]] <= sums'[r].day,
         \A w \in Worker, u \in User : \A e \in cache'[w][u] : floor[w][u] <= e.day
  PROVE  FloorInv'
<1> SUFFICES ASSUME NEW w \in Worker, NEW u \in User
             PROVE  /\ floor'[w][u] <= Usage(u, "day")'
                    /\ \A q \in Filling(w, u)' : floor'[w][u] <= sums'[q].day
                    /\ \A e \in cache'[w][u] : floor'[w][u] <= e.day
  BY DEF FloorInv
<1>1. floor[w][u] <= Usage(u, "day")' /\ \A q \in Filling(w, u) : floor[w][u] <= sums[q].day
  BY UsageKept DEF FloorInv
<1>2. ASSUME NEW q \in Filling(w, u)' PROVE floor[w][u] <= sums'[q].day
  <2>1. q \in Request /\ Owner[q] = u /\ worker'[q] = {w}
        /\ pc'[q] \in {"weekly", "monthly", "decide"}
    BY DEF Filling
  <2>2. CASE q = r
    BY <2>1, <2>2
  <2>3. CASE q # r
    <3>1. q \in Filling(w, u)
      BY <2>1, <2>3 DEF Filling
    <3> QED BY <1>1, <2>1, <2>3, <3>1
  <2> QED BY <2>2, <2>3
<1> QED BY <1>1, <1>2

LEMMA FloorReadSum ==
  ASSUME TypeInv, FloorInv, NEW r \in Request, NEW at, NEW next \in Location, NEW field, NEW span,
         ReadSum(r, at, next, field, span), at # "idle",
         \/ field = "day" /\ span = Day
         \/ field \in {"week", "month"} /\ at \in {"weekly", "monthly"}
  PROVE  FloorInv'
<1>1. /\ now' = now /\ logs' = logs /\ floor' = floor /\ cache' = cache
      /\ sums' = [sums EXCEPT ![r][field] = SumSince(Owner[r], start[r] - span)]
      /\ pc[r] = at /\ Goto(r, next)
  BY DEF ReadSum
<1>2. worker'[r] = (IF next = "idle" THEN {} ELSE worker[r])
      /\ \A q \in Request \ {r} : pc'[q] = pc[q] /\ worker'[q] = worker[q]
  BY <1>1, Gone
<1>3. \A q \in Request \ {r} : sums'[q] = sums[q]
  BY <1>1 DEF TypeInv
<1>4. ASSUME NEW w \in Worker, worker'[r] = {w} PROVE floor[w][Owner[r]] <= sums'[r].day
  <2>1. worker[r] = {w}
    BY <1>2, <1>4
  <2>2. PICK u \in User : u = Owner[r]
    BY OwnersAreUsers
  <2>3. floor[w][u] \in Nat /\ floor[w][u] <= Usage(u, "day") /\ Usage(u, "day") \in Nat
    BY UsageIsNat DEF FloorInv, TypeInv
  <2>4. CASE field = "day" /\ span = Day
    <3>1. PICK s \in Int, t \in Int : s = start[r] - Day /\ t = now - Day /\ s <= t
      BY BudgetAssumption DEF TypeInv, Started, Time
    <3>2. SumSince(u, t) <= SumSince(u, s) /\ SumSince(u, s) \in Nat
      BY <3>1, SinceEarlier, SumIsNat
    <3>3. sums'[r].day = SumSince(u, s)
      BY <1>1, <2>2, <2>4, <3>1 DEF TypeInv, Sums
    <3>4. Usage(u, "day") = SumSince(u, t)
      BY <3>1, UsageOfDay
    <3> QED BY <2>2, <2>3, <3>2, <3>3, <3>4
  <2>5. CASE field \in {"week", "month"} /\ at \in {"weekly", "monthly"}
    <3>1. r \in Filling(w, u)
      BY <1>1, <2>1, <2>2, <2>5 DEF Filling
    <3>2. sums'[r].day = sums[r].day
      BY <1>1, <2>5 DEF TypeInv, Sums
    <3> QED BY <2>2, <3>1, <3>2 DEF FloorInv
  <2> QED BY <2>4, <2>5
<1>5. \A w \in Worker, u \in User : \A e \in cache'[w][u] : floor[w][u] <= e.day
  BY <1>1 DEF FloorInv
<1> QED BY <1>1, <1>2, <1>3, <1>4, <1>5, FloorOfStep

LEMMA FloorStoreAndDecide ==
  ASSUME TypeInv, FloorInv, NEW r \in Request, StoreAndDecide(r) PROVE FloorInv'
<1>1. pc[r] = "decide" /\ now' = now /\ logs' = logs /\ floor' = floor
  BY DEF StoreAndDecide
<1>2. PICK w \in Worker : w = WorkerOf(r) /\ worker[r] = {w}
  BY <1>1, AtOneWorker
<1>3. PICK u \in User, s \in Sums : u = Owner[r] /\ s = sums[r]
  BY OwnersAreUsers DEF TypeInv
<1>4. PICK l \in {"calling", "idle"} : Serve(w, r, l)
  BY <1>2 DEF StoreAndDecide, Decide
<1>5. /\ pc'[r] = l
      /\ \A q \in Request \ {r} : pc'[q] = pc[q] /\ worker'[q] = worker[q]
  BY <1>4, Served DEF Location
<1>6. \A q \in Request \ {r} : sums'[q] = sums[q]
  BY DEF StoreAndDecide, TypeInv
<1>7. Store(w, u, s)
  BY <1>2, <1>3 DEF StoreAndDecide
<1>8. PICK e \in Entry :
        /\ e.day = s.day /\ e.week = s.week /\ e.month = s.month
        /\ CachesTyped'
        /\ cache'[w][u] = {e}
        /\ \A v \in Worker, x \in User : v # w \/ x # u => cache'[v][x] = cache[v][x]
  BY <1>7, EntryOfSums, Zenon
<1>9. floor[w][u] <= e.day
  <2>1. r \in Filling(w, u)
    BY <1>1, <1>2, <1>3 DEF Filling
  <2> QED BY <1>3, <1>8, <2>1 DEF FloorInv
<1>10. \A v \in Worker, x \in User : \A d \in cache'[v][x] : floor[v][x] <= d.day
  BY <1>8, <1>9 DEF FloorInv
<1> QED BY <1>1, <1>5, <1>6, <1>10, FloorOfStep

\* The other steps of a request that touch neither log nor floor.
LEMMA FloorServe ==
  ASSUME TypeInv, FloorInv, NEW r \in Request,
         \/ CheckCached(r) \/ StartFill(r) \/ WebCall(r) \/ FindKey(r) \/ EndUnlogged(r)
  PROVE  FloorInv'
<1>1. now' = now /\ logs' = logs /\ floor' = floor /\ cache' = cache /\ sums' = sums
  BY DEF CheckCached, StartFill, WebCall, FindKey, EndUnlogged
<1>2. /\ pc'[r] \notin {"weekly", "monthly", "decide"}
      /\ \A q \in Request \ {r} : pc'[q] = pc[q] /\ worker'[q] = worker[q]
  <2> DEFINE Elsewhere == {"idle", "daily", "calling", "chatting", "logging", "chatLogging"}
  <2>1. CASE \E w \in Worker, l \in Elsewhere : Serve(w, r, l)
    <3>1. PICK w \in Worker, l \in Elsewhere : Serve(w, r, l)
      BY <2>1
    <3>2. l \in Location
      BY DEF Location
    <3> QED BY <3>1, <3>2, Served
  <2>2. CASE pc[r] # "idle" /\ \E l \in Elsewhere : Goto(r, l)
    <3>1. PICK l \in Elsewhere : Goto(r, l)
      BY <2>2
    <3>2. l \in Location
      BY DEF Location
    <3> QED BY <2>2, <3>1, <3>2, Gone
  <2>3. CASE CheckCached(r) \/ StartFill(r) \/ WebCall(r)
    <3>1. \E w \in Worker, l \in Elsewhere : Serve(w, r, l)
      BY <2>3 DEF CheckCached, Decide, StartFill, WebCall
    <3> QED BY <2>1, <3>1
  <2>4. CASE FindKey(r) \/ EndUnlogged(r)
    <3>1. pc[r] # "idle" /\ \E l \in Elsewhere : Goto(r, l)
      BY <2>4 DEF FindKey, EndUnlogged
    <3> QED BY <2>2, <3>1
  <2> QED BY <2>3, <2>4
<1>3. \A w \in Worker, u \in User : \A e \in cache'[w][u] : floor[w][u] <= e.day
  BY <1>1 DEF FloorInv
<1> QED BY <1>1, <1>2, <1>3, FloorOfStep

LEMMA FloorCommitLog ==
  ASSUME TypeInv, FloorInv, NEW r \in Request, CommitLog(r) PROVE FloorInv'
<1>1. pc[r] # "idle" /\ now' = now /\ floor' = floor /\ cache' = cache /\ sums' = sums
  BY DEF CommitLog
<1>2. PICK l \in {"invalidate", "idle"} : Goto(r, l)
  BY DEF CommitLog
<1>3. /\ pc'[r] = l
      /\ \A q \in Request \ {r} : pc'[q] = pc[q] /\ worker'[q] = worker[q]
  BY <1>1, <1>2, Gone DEF Location
<1>4. ASSUME NEW u \in User PROVE Usage(u, "day") <= Usage(u, "day")'
  <2>1. Usage(u, "day") \in Nat
    BY UsageIsNat
  <2>2. CASE UNCHANGED logs
    BY <1>1, <2>1, <2>2, UsageKept
  <2>3. ASSUME NEW k \in picked[r], NEW n \in 1..MaxTokens,
               logs' = [logs EXCEPT ![<<k, now>>] = @ + n]
        PROVE  Usage(u, "day") <= Usage(u, "day")'
    <3>1. k \in Key /\ n \in Nat /\ "day" \in Window
      BY Plan DEF TypeInv, KeysPicked, Window
    <3>2. Usage(u, "day")' = Usage(u, "day") + n \/ Usage(u, "day")' = Usage(u, "day")
      BY <1>1, <2>3, <3>1, CommitRaises
    <3> QED BY <2>1, <3>1, <3>2
  <2> QED BY <2>2, <2>3 DEF CommitLog
<1>5. ASSUME NEW w \in Worker, NEW u \in User
      PROVE  /\ floor[w][u] <= Usage(u, "day")'
             /\ Filling(w, u)' \subseteq Filling(w, u)
  <2>1. Filling(w, u)' \subseteq Filling(w, u)
    BY <1>3 DEF Filling
  <2>2. /\ floor[w][u] \in Nat /\ Usage(u, "day") \in Nat /\ Usage(u, "day")' \in Nat
        /\ floor[w][u] <= Usage(u, "day") /\ Usage(u, "day") <= Usage(u, "day")'
    BY <1>4, UsageIsNat, NextUsageIsNat, TypeCommitLog DEF FloorInv, TypeInv
  <2> QED BY <2>1, <2>2
<1> QED BY <1>1, <1>5 DEF FloorInv

LEMMA FloorInvalidate ==
  ASSUME TypeInv, FloorInv, NEW r \in Request, Invalidate(r) PROVE FloorInv'
<1>1. /\ pc[r] = "invalidate" /\ now' = now /\ logs' = logs /\ sums' = sums
      /\ Goto(r, "idle")
  BY DEF Invalidate
<1>2. PICK v \in Worker, x \in User : v = WorkerOf(r) /\ x = Owner[r]
  BY <1>1, AtOneWorker, OwnersAreUsers
<1>3. /\ pc'[r] = "idle"
      /\ \A q \in Request \ {r} : pc'[q] = pc[q] /\ worker'[q] = worker[q]
  BY <1>1, Gone DEF Location
<1>4. DropCache(v, x)
  BY <1>2 DEF Invalidate
<1>5. /\ cache'[v][x] = {}
      /\ \A w \in Worker, u \in User : w # v \/ u # x => cache'[w][u] = cache[w][u]
  BY <1>4, Dropped, Zenon
<1>6. ASSUME NEW w \in Worker, NEW u \in User
      PROVE  /\ floor'[w][u] <= Usage(u, "day")'
             /\ \A q \in Filling(w, u)' : floor'[w][u] <= sums'[q].day
             /\ \A e \in cache'[w][u] : floor'[w][u] <= e.day
  <2>1. Filling(w, u)' \subseteq Filling(w, u) /\ Usage(u, "day")' = Usage(u, "day")
    BY <1>1, <1>3, UsageKept DEF Filling
  <2>2. Usage(u, "day") \in Nat
    BY UsageIsNat
  <2>3. CASE floor'[w][u] = floor[w][u]
    <3>1. cache'[w][u] = {} \/ cache'[w][u] = cache[w][u]
      BY <1>5
    <3> QED BY <1>1, <2>1, <2>3, <3>1 DEF FloorInv
  <2>4. CASE floor'[w][u] # floor[w][u]
    <3>1. Filling(v, x) = {} /\ floor' = [floor EXCEPT ![v][x] = Usage(x, "day")]
      BY <1>2, <2>4, UsageOfDay DEF Invalidate
    <3>2. w = v /\ u = x /\ floor'[w][u] = Usage(u, "day")
      BY <2>4, <3>1 DEF TypeInv
    <3> QED BY <1>5, <2>1, <2>2, <3>1, <3>2
  <2> QED BY <2>3, <2>4
<1> QED BY <1>6 DEF FloorInv

LEMMA FloorOthers ==
  ASSUME TypeInv, FloorInv,
         \/ \E w \in Worker, u \in User : Evict(w, u)
         \/ \E k \in Key : CreateKey(k) \/ ExpireKey(k)
         \/ Purge \/ UNCHANGED vars
  PROVE  FloorInv'
<1>1. pc' = pc /\ worker' = worker /\ sums' = sums /\ floor' = floor
  BY DEF Evict, CreateKey, ExpireKey, Purge, vars
<1>2. \A w \in Worker, u \in User : Filling(w, u)' = Filling(w, u)
  BY <1>1 DEF Filling
<1>3. ASSUME NEW w \in Worker, NEW u \in User PROVE cache'[w][u] \subseteq cache[w][u]
  <2>1. ASSUME NEW v \in Worker, NEW o \in User, Evict(v, o)
        PROVE  cache'[w][u] \subseteq cache[w][u]
    BY <2>1 DEF Evict, TypeInv, CachesTyped
  <2>2. CASE cache' = cache
    BY <2>2
  <2>3. (\E v \in Worker, o \in User : Evict(v, o)) \/ cache' = cache
    BY DEF CreateKey, ExpireKey, Purge, vars
  <2> QED BY <2>1, <2>2, <2>3
<1>4. ASSUME NEW u \in User PROVE Usage(u, "day")' = Usage(u, "day")
  <2>1. CASE Purge
    BY <2>1, PurgeKeepsWindows DEF Window
  <2>2. CASE ~Purge
    <3>1. logs' = logs /\ now' = now
      BY <2>2 DEF Evict, CreateKey, ExpireKey, vars
    <3> QED BY <3>1, UsageKept
  <2> QED BY <2>1, <2>2
<1> QED BY <1>1, <1>2, <1>3, <1>4 DEF FloorInv

LEMMA FloorRevokeKey ==
  ASSUME TypeInv, FloorInv, NEW k \in Key, RevokeKey(k) PROVE FloorInv'
<1>1. pc' = pc /\ worker' = worker /\ sums' = sums /\ cache' = cache
  BY DEF RevokeKey
<1>2. ASSUME NEW w \in Worker, NEW u \in User
      PROVE  /\ floor'[w][u] <= Usage(u, "day")'
             /\ \A q \in Filling(w, u)' : floor'[w][u] <= sums'[q].day
             /\ \A e \in cache'[w][u] : floor'[w][u] <= e.day
  <2>1. Filling(w, u)' = Filling(w, u)
    BY <1>1 DEF Filling
  <2>2. CASE KeyOwner[k] = u
    <3>1. floor'[w][u] = 0
      BY <2>2 DEF RevokeKey, TypeInv
    <3>2. Usage(u, "day")' \in Nat
      BY NextUsageIsNat, TypeKeys
    <3>3. \A q \in Filling(w, u) : sums[q].day \in Nat
      BY DEF Filling, TypeInv, Sums
    <3>4. \A e \in cache[w][u] : e.day \in Nat
      BY DEF TypeInv, CachesTyped, Entry
    <3> QED BY <1>1, <2>1, <3>1, <3>2, <3>3, <3>4
  <2>3. CASE KeyOwner[k] # u
    <3>1. floor'[w][u] = floor[w][u]
      BY <2>3 DEF RevokeKey, TypeInv
    <3>2. Usage(u, "day")' = Usage(u, "day")
      BY <2>3, RevokeLowers DEF Window
    <3> QED BY <1>1, <2>1, <3>1, <3>2 DEF FloorInv
  <2> QED BY <2>2, <2>3
<1> QED BY <1>2 DEF FloorInv

LEMMA FloorTick ==
  ASSUME TypeInv, FloorInv, Tick PROVE FloorInv'
<1>1. pc' = pc /\ worker' = worker /\ sums' = sums /\ cache' = cache
      /\ floor' = [w \in Worker |-> [u \in User |-> 0]]
  BY DEF Tick
<1>2. ASSUME NEW w \in Worker, NEW u \in User
      PROVE  /\ floor'[w][u] <= Usage(u, "day")'
             /\ \A q \in Filling(w, u)' : floor'[w][u] <= sums'[q].day
             /\ \A e \in cache'[w][u] : floor'[w][u] <= e.day
  <2>1. Filling(w, u)' = Filling(w, u) /\ floor'[w][u] = 0
    BY <1>1 DEF Filling
  <2>2. Usage(u, "day")' \in Nat
    BY NextUsageIsNat, TypeTick
  <2>3. \A q \in Filling(w, u) : sums[q].day \in Nat
    BY DEF Filling, TypeInv, Sums
  <2>4. \A e \in cache[w][u] : e.day \in Nat
    BY DEF TypeInv, CachesTyped, Entry
  <2> QED BY <1>1, <2>1, <2>2, <2>3, <2>4
<1> QED BY <1>2 DEF FloorInv

LEMMA FloorInvStep == TypeInv /\ FloorInv /\ [Next]_vars => FloorInv'
<1> SUFFICES ASSUME TypeInv, FloorInv, [Next]_vars PROVE FloorInv'
  OBVIOUS
<1>1. ASSUME NEW r \in Request,
             \/ ReadSum(r, "daily", "weekly", "day", Day)
             \/ ReadSum(r, "weekly", "monthly", "week", Week)
             \/ ReadSum(r, "monthly", "decide", "month", Month)
      PROVE  FloorInv'
  <2>1. "weekly" \in Location /\ "monthly" \in Location /\ "decide" \in Location
    BY DEF Location
  <2>2. CASE ReadSum(r, "daily", "weekly", "day", Day)
    BY <2>1, <2>2, FloorReadSum
  <2>3. CASE ReadSum(r, "weekly", "monthly", "week", Week)
    BY <2>1, <2>3, FloorReadSum
  <2>4. CASE ReadSum(r, "monthly", "decide", "month", Month)
    BY <2>1, <2>4, FloorReadSum
  <2> QED BY <1>1, <2>2, <2>3, <2>4
<1> QED
  BY <1>1, StepCases, FloorServe, FloorStoreAndDecide, FloorCommitLog, FloorInvalidate,
     FloorOthers, FloorRevokeKey, FloorTick, Zenon

\* Commit before invalidate, for any number of workers and connections: no sum
\* in a worker's cache misses usage that was committed before that cache was
\* dropped, unless a fill was under way there.
THEOREM CacheAlwaysSeesUsage == Spec => []CacheSeesUsage
<1>1. FloorInv => CacheSeesUsage
  BY DEF FloorInv, CacheSeesUsage, Cached
<1>2. Init => TypeInv /\ FloorInv
  BY TypeInvInit, FloorInvInit
<1>3. TypeInv /\ FloorInv /\ [Next]_vars => (TypeInv /\ FloorInv)'
  BY TypeInvStep, FloorInvStep
<1> QED BY <1>1, <1>2, <1>3, PTL DEF Spec

-----------------------------------------------------------------------------
\* Arithmetic of the overshoot.

\* 1 + 2 + ... + x
Tri(x) == (x * (x + 1)) \div 2

LEMMA TriTwice ==
  ASSUME NEW x \in Int PROVE Tri(x) \in Int /\ 2 * Tri(x) = x * (x + 1)
<1>1. PICK j \in Int : x = 2 * j \/ x = 2 * j + 1
  <2>1. x \div 2 \in Int /\ (x = 2 * (x \div 2) \/ x = 2 * (x \div 2) + 1)
    OBVIOUS
  <2> QED BY <2>1
<1>2. PICK y \in Int : x * (x + 1) = 2 * y
  <2>1. CASE x = 2 * j
    <3>1. j * (x + 1) \in Int /\ x * (x + 1) = 2 * (j * (x + 1))
      BY <2>1
    <3> QED BY <3>1
  <2>2. CASE x = 2 * j + 1
    <3>1. x * (j + 1) \in Int /\ x * (x + 1) = 2 * (x * (j + 1))
      BY <2>2
    <3> QED BY <3>1
  <2> QED BY <1>1, <2>1, <2>2
<1>3. (2 * y) \div 2 = y
  OBVIOUS
<1>4. Tri(x) = y
  BY <1>2, <1>3 DEF Tri
<1> QED BY <1>2, <1>4

LEMMA TriStep ==
  ASSUME NEW x \in Int PROVE Tri(x) = Tri(x - 1) + x
<1>1. PICK p \in Int : p = x - 1
  OBVIOUS
<1>2. Tri(x) \in Int /\ 2 * Tri(x) = x * (x + 1)
  BY TriTwice
<1>3. Tri(p) \in Int /\ 2 * Tri(p) = p * (p + 1)
  BY TriTwice
<1>4. x * (x + 1) = p * (p + 1) + 2 * x
  BY <1>1
<1> QED BY <1>1, <1>2, <1>3, <1>4

LEMMA TriGrows ==
  ASSUME NEW x \in Int, NEW y \in Int, -1 <= y, y <= x
  PROVE  0 <= Tri(y) /\ y <= Tri(y) /\ Tri(y) <= Tri(x)
<1>1. /\ Tri(x) \in Int /\ 2 * Tri(x) = x * (x + 1)
      /\ Tri(y) \in Int /\ 2 * Tri(y) = y * (y + 1)
  BY TriTwice
<1>2. y * (y + 1) >= 0 /\ y * (y + 1) >= 2 * y
  <2>1. CASE y <= 1
    <3>1. y = -1 \/ y = 0 \/ y = 1
      BY <2>1
    <3> QED BY <3>1
  <2>2. CASE y > 1
    BY <2>2
  <2> QED BY <2>1, <2>2
<1>3. x * (x + 1) >= y * (y + 1)
  <2>1. CASE y = -1
    <3>1. CASE x = -1
      BY <2>1, <3>1
    <3>2. CASE x >= 0
      BY <2>1, <3>2
    <3> QED BY <2>1, <3>1, <3>2
  <2>2. CASE y >= 0
    BY <2>2
  <2> QED BY <2>1, <2>2
<1> QED BY <1>1, <1>2, <1>3

LEMMA TriIsNat ==
  ASSUME NEW y \in Int, -1 <= y PROVE Tri(y) \in Int /\ 0 <= Tri(y) /\ y <= Tri(y)
BY TriGrows, TriTwice

\* How many calls n connections of a user may have made past the limit when m
\* sums below it are left, in the caches of the k workers and with fills under
\* way.  A low sum that goes while m are left can have let through a call of
\* each connection, but for the m - k at least that were filling.
Spent(n, k, m) ==
  IF m >= k THEN Tri(n - 1 - (m - k)) ELSE Tri(n - 1) + (k - m) * n

LEMMA SpentIsNat ==
  ASSUME NEW n \in Nat, NEW k \in Nat, NEW m \in Nat, m <= k + n
  PROVE  Spent(n, k, m) \in Nat
<1>1. Tri(n - 1) \in Nat
  <2>1. PICK y \in Int : y = n - 1 /\ -1 <= y
    OBVIOUS
  <2>2. 0 <= Tri(y) /\ Tri(y) \in Int
    BY <2>1, TriIsNat
  <2> QED BY <2>1, <2>2
<1>2. CASE m >= k
  <2>1. PICK y \in Int : y = n - 1 - (m - k) /\ -1 <= y
    BY <1>2
  <2>2. 0 <= Tri(y) /\ Tri(y) \in Int
    BY <2>1, TriIsNat
  <2> QED BY <1>2, <2>1, <2>2 DEF Spent
<1>3. CASE m < k
  <2>1. (k - m) * n \in Nat
    BY <1>3
  <2> QED BY <1>1, <1>3, <2>1 DEF Spent
<1> QED BY <1>2, <1>3

LEMMA SpentStep ==
  ASSUME NEW n \in Nat, NEW k \in Nat, NEW m \in Nat, 1 <= m, m <= k + n
  PROVE  Spent(n, k, m - 1) = Spent(n, k, m) + (IF m <= k THEN n ELSE n - (m - k))
<1>1. CASE m < k
  <2>1. (k - (m - 1)) * n = (k - m) * n + n
    OBVIOUS
  <2>2. (k - m) * n \in Int /\ Tri(n - 1) \in Int
    BY TriTwice
  <2> QED BY <1>1, <2>1, <2>2 DEF Spent
<1>2. CASE m = k
  <2>1. (k - (m - 1)) * n = n /\ n - 1 - (m - k) = n - 1
    BY <1>2
  <2>2. Spent(n, k, m) = Tri(n - 1) /\ Spent(n, k, m - 1) = Tri(n - 1) + n
    BY <1>2, <2>1 DEF Spent
  <2> QED BY <1>2, <2>2
<1>3. CASE m > k
  <2>1. PICK y \in Int : y = n - 1 - ((m - 1) - k)
    BY <1>3
  <2>2. Tri(y) = Tri(y - 1) + y
    BY TriStep
  <2>3. Spent(n, k, m - 1) = Tri(y)
    BY <1>3, <2>1 DEF Spent
  <2>4. Spent(n, k, m) = Tri(y - 1)
    <3>1. n - 1 - (m - k) = y - 1
      BY <2>1
    <3> QED BY <1>3, <3>1 DEF Spent
  <2>5. y = n - (m - k)
    BY <2>1
  <2> QED BY <1>3, <2>2, <2>3, <2>4, <2>5
<1> QED BY <1>1, <1>2, <1>3

\* The most has been spent when no sum below the limit is about.
LEMMA SpentAtMost ==
  ASSUME NEW n \in Nat, NEW k \in Nat \ {0}, NEW m \in Nat, m <= k + n
  PROVE  Spent(n, k, m) <= Slack(n, k)
<1>1. PICK y \in Int : y = n - 1 /\ -1 <= y
  OBVIOUS
<1>2. Tri(y) \in Int /\ 0 <= Tri(y)
  BY <1>1, TriIsNat
<1>3. Slack(n, k) = Tri(y) + k * n
  <2>1. Tri(n) = Tri(y) + n
    BY <1>1, TriStep
  <2>2. (k - 1) * n + n = k * n
    OBVIOUS
  <2>3. Slack(n, k) = (k - 1) * n + Tri(n)
    BY DEF Slack, Tri
  <2>4. (k - 1) * n \in Int /\ k * n \in Int /\ Tri(n) \in Int
    BY TriTwice
  <2> QED BY <1>2, <2>1, <2>2, <2>3, <2>4
<1>4. CASE m < k
  <2>1. (k - m) * n <= k * n /\ (k - m) * n \in Int /\ k * n \in Int
    <3>1. (k - m) * n = k * n - m * n /\ m * n \in Nat
      OBVIOUS
    <3> QED BY <3>1
  <2>2. Spent(n, k, m) = Tri(y) + (k - m) * n
    BY <1>1, <1>4 DEF Spent
  <2> QED BY <1>2, <1>3, <2>1, <2>2
<1>5. CASE m >= k
  <2>1. PICK z \in Int : z = n - 1 - (m - k) /\ -1 <= z /\ z <= y
    BY <1>1, <1>5
  <2>2. Tri(z) <= Tri(y) /\ Tri(z) \in Int
    BY <1>1, <2>1, TriGrows, TriTwice
  <2>3. Spent(n, k, m) = Tri(z)
    BY <1>5, <2>1 DEF Spent
  <2>4. k * n \in Nat
    OBVIOUS
  <2> QED BY <1>2, <1>3, <2>2, <2>3, <2>4
<1> QED BY <1>4, <1>5

-----------------------------------------------------------------------------
\* The same in terms of sets: of R, the connections of a user, LF fill with a
\* sum below the limit, CH are calls at a worker without such a sum in its
\* cache, CL have committed and not yet dropped such a cache, CT are chats that
\* will log; LW are the workers with such a sum.

RoomOf(R, LW, LF, CL, CH, CT, web) ==
  Spent(Cardinality(R), Cardinality(Worker), Cardinality(LW) + Cardinality(LF))
    + Cardinality(CL) - Cardinality(CH) - Cardinality(CT) + web

Shape(R, LW, LF, CL, CH, CT) ==
  /\ IsFiniteSet(R)
  /\ LW \subseteq Worker
  /\ LF \subseteq R /\ CL \subseteq R /\ CH \subseteq R /\ CT \subseteq R
  /\ LF \cap CL = {} /\ LF \cap CH = {} /\ CL \cap CH = {}
  /\ LW = Worker => CH = {}
  /\ LW = {} => CL = {}

LEMMA CountPart ==
  ASSUME NEW R, IsFiniteSet(R), NEW A, A \subseteq R
  PROVE  IsFiniteSet(A) /\ Cardinality(A) \in Nat /\ Cardinality(R) \in Nat
         /\ Cardinality(A) <= Cardinality(R)
BY FS_Subset, FS_CardinalityType

LEMMA CountThree ==
  ASSUME NEW R, IsFiniteSet(R), NEW A, NEW B, NEW C,
         A \subseteq R, B \subseteq R, C \subseteq R,
         A \cap B = {}, A \cap C = {}, B \cap C = {}
  PROVE  Cardinality(A) + Cardinality(B) + Cardinality(C) <= Cardinality(R)
<1>1. /\ IsFiniteSet(A) /\ IsFiniteSet(B) /\ IsFiniteSet(C)
      /\ Cardinality(A) \in Nat /\ Cardinality(B) \in Nat /\ Cardinality(C) \in Nat
  BY CountPart
<1>2. IsFiniteSet(A \cup B) /\ Cardinality(A \cup B) = Cardinality(A) + Cardinality(B)
  BY <1>1, DisjointUnion
<1>3. PICK D : D = A \cup B
  OBVIOUS
<1>4. IsFiniteSet(D) /\ D \cap C = {} /\ D \cup C \subseteq R
  BY <1>2, <1>3
<1>5. Cardinality(D \cup C) = Cardinality(D) + Cardinality(C)
  BY <1>1, <1>4, DisjointUnion
<1>6. Cardinality(D \cup C) <= Cardinality(R)
  BY <1>4, CountPart
<1> QED BY <1>1, <1>2, <1>3, <1>5, <1>6

LEMMA Counts ==
  ASSUME NEW R, NEW LW, NEW LF, NEW CL, NEW CH, NEW CT, Shape(R, LW, LF, CL, CH, CT)
  PROVE  /\ Cardinality(R) \in Nat /\ Cardinality(Worker) \in Nat \ {0}
         /\ Cardinality(LW) \in Nat /\ Cardinality(LF) \in Nat
         /\ Cardinality(CL) \in Nat /\ Cardinality(CH) \in Nat /\ Cardinality(CT) \in Nat
         /\ Cardinality(LW) <= Cardinality(Worker)
         /\ Cardinality(LF) + Cardinality(CL) + Cardinality(CH) <= Cardinality(R)
         /\ LW # Worker => Cardinality(LW) < Cardinality(Worker)
         /\ Spent(Cardinality(R), Cardinality(Worker), Cardinality(LW) + Cardinality(LF)) \in Nat
<1>1. IsFiniteSet(R) /\ LF \subseteq R /\ CL \subseteq R /\ CH \subseteq R /\ CT \subseteq R
      /\ LF \cap CL = {} /\ LF \cap CH = {} /\ CL \cap CH = {} /\ LW \subseteq Worker
  BY DEF Shape
<1>2. /\ Cardinality(R) \in Nat /\ Cardinality(LF) \in Nat
      /\ Cardinality(CL) \in Nat /\ Cardinality(CH) \in Nat /\ Cardinality(CT) \in Nat
  BY <1>1, CountPart
<1>3. Cardinality(LF) + Cardinality(CL) + Cardinality(CH) <= Cardinality(R)
  BY <1>1, CountThree
<1>4. /\ Cardinality(LW) \in Nat /\ Cardinality(Worker) \in Nat
      /\ Cardinality(LW) <= Cardinality(Worker)
  BY <1>1, WorkerAssumption, CountPart
<1>5. Cardinality(Worker) # 0
  BY WorkerAssumption, FS_EmptySet
<1>6. LW # Worker => Cardinality(LW) # Cardinality(Worker)
  BY <1>1, WorkerAssumption, FS_Subset
<1>7. PICK n \in Nat, k \in Nat, c \in Nat, m \in Nat :
        n = Cardinality(R) /\ k = Cardinality(Worker)
        /\ c = Cardinality(LW) + Cardinality(LF) /\ m = c /\ m <= k + n
  BY <1>2, <1>3, <1>4
<1>8. Spent(n, k, m) \in Nat
  BY <1>7, SpentIsNat
<1>9. Spent(Cardinality(R), Cardinality(Worker), Cardinality(LW) + Cardinality(LF)) \in Nat
  BY <1>7, <1>8, Zenon
<1> QED BY <1>2, <1>3, <1>4, <1>5, <1>6, <1>9

LEMMA RoomIsNat ==
  ASSUME NEW R, NEW LW, NEW LF, NEW CL, NEW CH, NEW CT, Shape(R, LW, LF, CL, CH, CT),
         NEW web \in Nat, Cardinality(CT) <= web
  PROVE  RoomOf(R, LW, LF, CL, CH, CT, web) \in Nat
<1> DEFINE left == Spent(Cardinality(R), Cardinality(Worker), Cardinality(LW) + Cardinality(LF))
<1>1. PICK n \in Nat, k \in Nat, c \in Nat, f \in Nat, m \in Nat :
        /\ n = Cardinality(R) /\ k = Cardinality(Worker)
        /\ c = Cardinality(LW) /\ f = Cardinality(LF) /\ m = c + f
  BY Counts
<1>2. c <= k /\ f + Cardinality(CL) + Cardinality(CH) <= n /\ (LW # Worker => c < k)
      /\ Cardinality(CL) \in Nat /\ Cardinality(CH) \in Nat /\ Cardinality(CT) \in Nat
      /\ left \in Nat
  BY <1>1, Counts
<1>3. left = Spent(n, k, m)
  BY <1>1, Zenon
<1>4. Cardinality(CH) <= left
  <2>1. CASE LW = Worker
    <3>1. Cardinality(CH) = 0
      BY <2>1, FS_EmptySet DEF Shape
    <3> HIDE DEF left
    <3> QED BY <1>2, <3>1
  <2>2. CASE LW # Worker /\ m >= k
    <3>1. PICK y \in Int : y = n - 1 - (m - k) /\ -1 <= y /\ n - f <= y
      BY <1>1, <1>2, <2>2
    <3>2. y <= Tri(y) /\ Tri(y) \in Int
      BY <3>1, TriIsNat
    <3>3. left = Tri(y)
      BY <1>3, <2>2, <3>1 DEF Spent
    <3> HIDE DEF left
    <3> QED BY <1>2, <3>1, <3>2, <3>3
  <2>3. CASE LW # Worker /\ m < k
    <3>1. PICK y \in Int : y = n - 1 /\ -1 <= y
      BY <1>1
    <3>2. 0 <= Tri(y) /\ Tri(y) \in Int
      BY <3>1, TriIsNat
    <3>3. n <= (k - m) * n /\ (k - m) * n \in Int
      <4>1. (k - m) * n = n + (k - m - 1) * n /\ (k - m - 1) * n \in Nat
        BY <2>3
      <4> QED BY <4>1
    <3>4. left = Tri(y) + (k - m) * n
      BY <1>3, <2>3, <3>1 DEF Spent
    <3> HIDE DEF left
    <3> QED BY <1>2, <3>2, <3>3, <3>4
  <2> QED BY <2>1, <2>2, <2>3
<1>5. RoomOf(R, LW, LF, CL, CH, CT, web)
        = left + Cardinality(CL) - Cardinality(CH) - Cardinality(CT) + web
  BY DEF RoomOf
<1> HIDE DEF left
<1> QED BY <1>2, <1>4, <1>5

LEMMA RoomAtMost ==
  ASSUME NEW R, NEW LW, NEW LF, NEW CL, NEW CH, NEW CT, Shape(R, LW, LF, CL, CH, CT),
         NEW web \in Nat
  PROVE  RoomOf(R, LW, LF, CL, CH, CT, web)
           <= Slack(Cardinality(R), Cardinality(Worker)) + web
<1> DEFINE left == Spent(Cardinality(R), Cardinality(Worker), Cardinality(LW) + Cardinality(LF))
<1>1. PICK n \in Nat, k \in Nat \ {0}, c \in Nat, f \in Nat, m \in Nat :
        /\ n = Cardinality(R) /\ k = Cardinality(Worker)
        /\ c = Cardinality(LW) /\ f = Cardinality(LF) /\ m = c + f
  BY Counts
<1>2. c <= k /\ f + Cardinality(CL) + Cardinality(CH) <= n
      /\ Cardinality(CL) \in Nat /\ Cardinality(CH) \in Nat /\ Cardinality(CT) \in Nat
      /\ left \in Nat
  BY <1>1, Counts
<1>f. IsFiniteSet(LW)
  BY WorkerAssumption, CountPart DEF Shape
<1>3. left = Spent(n, k, m)
  BY <1>1, Zenon
<1>s. Slack(n, k) \in Int
  <2>1. Spent(n, k, 0) <= Slack(n, k) /\ Tri(n) \in Int /\ (k - 1) * n \in Int
    BY SpentAtMost, TriTwice
  <2> QED BY <2>1 DEF Slack, Tri
<1>4. left + Cardinality(CL) <= Slack(n, k)
  <2>1. CASE LW = {}
    <3>1. Cardinality(CL) = 0
      BY <2>1, FS_EmptySet DEF Shape
    <3>2. Spent(n, k, m) <= Slack(n, k)
      BY <1>1, <1>2, SpentAtMost
    <3> HIDE DEF left
    <3> QED BY <1>2, <1>3, <1>s, <3>1, <3>2
  <2>2. CASE LW # {}
    <3>1. c # 0
      BY <1>1, <1>f, <2>2, FS_EmptySet
    <3>2. PICK p \in Nat : p = m - 1 /\ 1 <= m /\ m <= k + n /\ p <= k + n
      BY <1>1, <1>2, <3>1
    <3>3. Spent(n, k, m - 1) = Spent(n, k, m) + (IF m <= k THEN n ELSE n - (m - k))
      BY <3>2, SpentStep
    <3>4. Spent(n, k, p) <= Slack(n, k) /\ Spent(n, k, p) = Spent(n, k, m - 1)
      BY <3>2, SpentAtMost
    <3>5. Cardinality(CL) <= (IF m <= k THEN n ELSE n - (m - k))
      BY <1>1, <1>2
    <3>6. Spent(n, k, m) \in Nat
      BY <1>2, <1>3
    <3> HIDE DEF left
    <3> QED BY <1>2, <1>3, <1>s, <3>3, <3>4, <3>5, <3>6
  <2> QED BY <2>1, <2>2
<1>5. RoomOf(R, LW, LF, CL, CH, CT, web)
        = left + Cardinality(CL) - Cardinality(CH) - Cardinality(CT) + web
  BY DEF RoomOf
<1>6. Slack(Cardinality(R), Cardinality(Worker)) = Slack(n, k)
  BY <1>1, Zenon
<1> HIDE DEF left
<1> QED BY <1>2, <1>4, <1>5, <1>6, <1>s

-----------------------------------------------------------------------------
\* How the room changes.

\* Nothing is taken from it.
LEMMA RoomKept ==
  ASSUME NEW R, NEW LW, NEW LF, NEW CL, NEW CH, NEW CT, Shape(R, LW, LF, CL, CH, CT),
         NEW CL2, NEW CH2, NEW CT2, Shape(R, LW, LF, CL2, CH2, CT2),
         NEW web \in Nat, NEW web2 \in Nat, web <= web2,
         CL \subseteq CL2, CH2 \subseteq CH, CT2 \subseteq CT
  PROVE  RoomOf(R, LW, LF, CL, CH, CT, web) <= RoomOf(R, LW, LF, CL2, CH2, CT2, web2)
<1> DEFINE left == Spent(Cardinality(R), Cardinality(Worker), Cardinality(LW) + Cardinality(LF))
<1>1. /\ Cardinality(CL) \in Nat /\ Cardinality(CH) \in Nat /\ Cardinality(CT) \in Nat
      /\ left \in Nat
  BY Counts
<1>2. Cardinality(CL2) \in Nat /\ Cardinality(CH2) \in Nat /\ Cardinality(CT2) \in Nat
  BY Counts
<1>3. /\ Cardinality(CL) <= Cardinality(CL2) /\ Cardinality(CH2) <= Cardinality(CH)
      /\ Cardinality(CT2) <= Cardinality(CT)
  <2>1. IsFiniteSet(CL2) /\ IsFiniteSet(CH) /\ IsFiniteSet(CT)
    BY CountPart DEF Shape
  <2> QED BY <2>1, CountPart
<1>4. /\ RoomOf(R, LW, LF, CL, CH, CT, web)
           = left + Cardinality(CL) - Cardinality(CH) - Cardinality(CT) + web
      /\ RoomOf(R, LW, LF, CL2, CH2, CT2, web2)
           = left + Cardinality(CL2) - Cardinality(CH2) - Cardinality(CT2) + web2
  BY DEF RoomOf
<1> HIDE DEF left
<1> QED BY <1>1, <1>2, <1>3, <1>4

\* A web call brings the room it takes.
LEMMA RoomOfWebCall ==
  ASSUME NEW R, NEW LW, NEW LF, NEW CL, NEW CH, NEW CT, Shape(R, LW, LF, CL, CH, CT),
         NEW CL2, NEW CH2, NEW CT2, Shape(R, LW, LF, CL2, CH2, CT2),
         NEW web \in Nat, NEW r, CL \subseteq CL2,
         \/ CH2 \subseteq CH \cup {r} /\ CT2 \subseteq CT
         \/ CH2 \subseteq CH /\ CT2 \subseteq CT \cup {r}
  PROVE  RoomOf(R, LW, LF, CL, CH, CT, web) <= RoomOf(R, LW, LF, CL2, CH2, CT2, web + 1)
<1> DEFINE left == Spent(Cardinality(R), Cardinality(Worker), Cardinality(LW) + Cardinality(LF))
<1>1. /\ Cardinality(CL) \in Nat /\ Cardinality(CH) \in Nat /\ Cardinality(CT) \in Nat
      /\ left \in Nat
  BY Counts
<1>2. Cardinality(CL2) \in Nat /\ Cardinality(CH2) \in Nat /\ Cardinality(CT2) \in Nat
  BY Counts
<1>f. IsFiniteSet(CL2) /\ IsFiniteSet(CH) /\ IsFiniteSet(CT)
  BY CountPart DEF Shape
<1>3. Cardinality(CL) <= Cardinality(CL2)
  BY <1>f, CountPart
<1>4. ASSUME NEW A, NEW A2, IsFiniteSet(A), A2 \subseteq A \cup {r}
      PROVE  Cardinality(A2) <= Cardinality(A) + 1
  <2>1. PICK B : B = A \cup {r}
    OBVIOUS
  <2>a. Cardinality(A) \in Nat
    BY <1>4, FS_CardinalityType
  <2>b. IsFiniteSet(B)
        /\ Cardinality(B) = IF r \in A THEN Cardinality(A) ELSE Cardinality(A) + 1
    BY <1>4, <2>1, FS_AddElement
  <2>2. IsFiniteSet(B) /\ Cardinality(B) <= Cardinality(A) + 1
    BY <2>a, <2>b
  <2>3. Cardinality(A2) \in Nat /\ Cardinality(B) \in Nat /\ Cardinality(A2) <= Cardinality(B)
    BY <1>4, <2>1, <2>2, CountPart
  <2> QED BY <2>a, <2>2, <2>3
<1>5. Cardinality(CH2) + Cardinality(CT2) <= Cardinality(CH) + Cardinality(CT) + 1
  <2>1. CASE CH2 \subseteq CH \cup {r} /\ CT2 \subseteq CT
    <3>1. Cardinality(CH2) <= Cardinality(CH) + 1
      BY <1>4, <1>f, <2>1
    <3>2. Cardinality(CT2) <= Cardinality(CT)
      BY <1>f, <2>1, CountPart
    <3> QED BY <1>1, <1>2, <3>1, <3>2
  <2>2. CASE CH2 \subseteq CH /\ CT2 \subseteq CT \cup {r}
    <3>1. Cardinality(CT2) <= Cardinality(CT) + 1
      BY <1>4, <1>f, <2>2
    <3>2. Cardinality(CH2) <= Cardinality(CH)
      BY <1>f, <2>2, CountPart
    <3> QED BY <1>1, <1>2, <3>1, <3>2
  <2> QED BY <2>1, <2>2
<1>6. /\ RoomOf(R, LW, LF, CL, CH, CT, web)
           = left + Cardinality(CL) - Cardinality(CH) - Cardinality(CT) + web
      /\ RoomOf(R, LW, LF, CL2, CH2, CT2, web + 1)
           = left + Cardinality(CL2) - Cardinality(CH2) - Cardinality(CT2) + (web + 1)
  BY DEF RoomOf
<1> HIDE DEF left
<1> QED BY <1>1, <1>2, <1>3, <1>5, <1>6

\* A call that commits has been counted, or was free: one more is left then.
LEMMA RoomOfCommit ==
  ASSUME NEW R, NEW LW, NEW LF, NEW CL, NEW CH, NEW CT, Shape(R, LW, LF, CL, CH, CT),
         NEW CL2, NEW CH2, NEW CT2, Shape(R, LW, LF, CL2, CH2, CT2),
         NEW web \in Nat, NEW r,
         \/ r \notin CL /\ CL2 = CL \cup {r} /\ CH2 = CH /\ CT2 = CT
         \/ r \in CH /\ CL2 = CL /\ CH2 = CH \ {r} /\ CT2 = CT
         \/ r \in CT /\ CL2 = CL /\ CH2 = CH /\ CT2 = CT \ {r}
  PROVE  RoomOf(R, LW, LF, CL, CH, CT, web) + 1 <= RoomOf(R, LW, LF, CL2, CH2, CT2, web)
<1> DEFINE left == Spent(Cardinality(R), Cardinality(Worker), Cardinality(LW) + Cardinality(LF))
<1>1. /\ Cardinality(CL) \in Nat /\ Cardinality(CH) \in Nat /\ Cardinality(CT) \in Nat
      /\ left \in Nat
  BY Counts
<1>f. IsFiniteSet(CL) /\ IsFiniteSet(CH) /\ IsFiniteSet(CT)
  BY CountPart DEF Shape
<1>2. \/ /\ Cardinality(CL2) = Cardinality(CL) + 1
         /\ Cardinality(CH2) = Cardinality(CH) /\ Cardinality(CT2) = Cardinality(CT)
      \/ /\ Cardinality(CH2) = Cardinality(CH) - 1
         /\ Cardinality(CL2) = Cardinality(CL) /\ Cardinality(CT2) = Cardinality(CT)
      \/ /\ Cardinality(CT2) = Cardinality(CT) - 1
         /\ Cardinality(CL2) = Cardinality(CL) /\ Cardinality(CH2) = Cardinality(CH)
  <2>1. CASE r \notin CL /\ CL2 = CL \cup {r} /\ CH2 = CH /\ CT2 = CT
    BY <1>f, <2>1, FS_AddElement
  <2>2. CASE r \in CH /\ CL2 = CL /\ CH2 = CH \ {r} /\ CT2 = CT
    BY <1>f, <2>2, FS_RemoveElement
  <2>3. CASE r \in CT /\ CL2 = CL /\ CH2 = CH /\ CT2 = CT \ {r}
    BY <1>f, <2>3, FS_RemoveElement
  <2> QED BY <2>1, <2>2, <2>3
<1>3. /\ RoomOf(R, LW, LF, CL, CH, CT, web)
           = left + Cardinality(CL) - Cardinality(CH) - Cardinality(CT) + web
      /\ RoomOf(R, LW, LF, CL2, CH2, CT2, web)
           = left + Cardinality(CL2) - Cardinality(CH2) - Cardinality(CT2) + web
  BY DEF RoomOf
<1> HIDE DEF left
<1> QED BY <1>1, <1>2, <1>3

\* A fill that stores a sum below the limit makes its worker one that has such
\* a sum, if it was not.
LEMMA RoomOfStore ==
  ASSUME NEW R, NEW LW, NEW LF, NEW CL, NEW CH, NEW CT, Shape(R, LW, LF, CL, CH, CT),
         NEW LW2, NEW LF2, NEW CL2, NEW CH2, NEW CT2, Shape(R, LW2, LF2, CL2, CH2, CT2),
         NEW web \in Nat, NEW r \in LF, NEW w \in Worker,
         LF2 = LF \ {r}, LW2 = LW \cup {w},
         CL \subseteq CL2, CH2 \subseteq CH, CT2 \subseteq CT
  PROVE  RoomOf(R, LW, LF, CL, CH, CT, web) <= RoomOf(R, LW2, LF2, CL2, CH2, CT2, web)
<1> DEFINE left == Spent(Cardinality(R), Cardinality(Worker), Cardinality(LW) + Cardinality(LF))
           left2 == Spent(Cardinality(R), Cardinality(Worker), Cardinality(LW2) + Cardinality(LF2))
<1>1. PICK n \in Nat, k \in Nat \ {0}, c \in Nat, f \in Nat, m \in Nat :
        /\ n = Cardinality(R) /\ k = Cardinality(Worker)
        /\ c = Cardinality(LW) /\ f = Cardinality(LF) /\ m = c + f
  BY Counts
<1>2. c <= k /\ f + Cardinality(CL) + Cardinality(CH) <= n
      /\ Cardinality(CL) \in Nat /\ Cardinality(CH) \in Nat /\ Cardinality(CT) \in Nat
      /\ left \in Nat
  BY <1>1, Counts
<1>3. Cardinality(CL2) \in Nat /\ Cardinality(CH2) \in Nat /\ Cardinality(CT2) \in Nat
      /\ left2 \in Nat
  BY Counts
<1>4. /\ Cardinality(CL) <= Cardinality(CL2) /\ Cardinality(CH2) <= Cardinality(CH)
      /\ Cardinality(CT2) <= Cardinality(CT)
  <2>1. IsFiniteSet(CL2) /\ IsFiniteSet(CH) /\ IsFiniteSet(CT)
    BY CountPart DEF Shape
  <2> QED BY <2>1, CountPart
<1>5. Cardinality(LF2) = f - 1 /\ f >= 1
  <2>1. IsFiniteSet(LF)
    BY CountPart DEF Shape
  <2>2. Cardinality(LF2) = f - 1
    BY <1>1, <2>1, FS_RemoveElement
  <2>3. f # 0
    BY <1>1, <2>1, FS_EmptySet
  <2> QED BY <2>2, <2>3
<1>6. Cardinality(LW2) = c \/ Cardinality(LW2) = c + 1
  <2>1. IsFiniteSet(LW)
    BY WorkerAssumption, CountPart DEF Shape
  <2> QED BY <1>1, <2>1, FS_AddElement
<1>7. left <= left2
  <2>1. left = Spent(n, k, m)
    BY <1>1, Zenon
  <2>2. CASE Cardinality(LW2) = c
    <3>1. PICK p \in Nat : p = m - 1 /\ p = Cardinality(LW2) + Cardinality(LF2)
                           /\ 1 <= m /\ m <= k + n
      BY <1>1, <1>2, <1>5, <2>2
    <3>2. left2 = Spent(n, k, p)
      BY <1>1, <3>1, Zenon
    <3>3. Spent(n, k, p) = Spent(n, k, m - 1)
      BY <3>1
    <3>4. Spent(n, k, m - 1) = Spent(n, k, m) + (IF m <= k THEN n ELSE n - (m - k))
      BY <3>1, SpentStep
    <3>5. (IF m <= k THEN n ELSE n - (m - k)) >= 0
      BY <1>1, <1>2
    <3> HIDE DEF left, left2
    <3> QED BY <1>2, <1>3, <2>1, <3>2, <3>3, <3>4, <3>5
  <2>3. CASE Cardinality(LW2) = c + 1
    <3>1. Cardinality(LW2) + Cardinality(LF2) = m
      BY <1>1, <1>5, <2>3
    <3>2. left2 = Spent(n, k, m)
      BY <1>1, <3>1, Zenon
    <3> HIDE DEF left, left2
    <3> QED BY <1>2, <2>1, <3>2
  <2> HIDE DEF left, left2
  <2> QED BY <1>6, <2>2, <2>3
<1>8. /\ RoomOf(R, LW, LF, CL, CH, CT, web)
           = left + Cardinality(CL) - Cardinality(CH) - Cardinality(CT) + web
      /\ RoomOf(R, LW2, LF2, CL2, CH2, CT2, web)
           = left2 + Cardinality(CL2) - Cardinality(CH2) - Cardinality(CT2) + web
  BY DEF RoomOf
<1> HIDE DEF left, left2
<1> QED BY <1>2, <1>3, <1>4, <1>7, <1>8

\* When a worker loses its sum below the limit, the calls admitted with it
\* count; the room this sum was good for is enough for them.
LEMMA RoomOfDrop ==
  ASSUME NEW R, NEW LW, NEW LF, NEW CL, NEW CH, NEW CT, Shape(R, LW, LF, CL, CH, CT),
         NEW LW2, NEW CL2, NEW CH2, NEW CT2, Shape(R, LW2, LF, CL2, CH2, CT2),
         NEW web \in Nat, NEW w \in LW, LW2 = LW \ {w},
         NEW B, NEW C, B \subseteq R, C \subseteq R,
         LF \cap B = {}, LF \cap C = {}, B \cap C = {},
         CL \subseteq CL2 \cup B, CH2 \subseteq CH \cup C, CT2 \subseteq CT
  PROVE  RoomOf(R, LW, LF, CL, CH, CT, web) <= RoomOf(R, LW2, LF, CL2, CH2, CT2, web)
<1> DEFINE left == Spent(Cardinality(R), Cardinality(Worker), Cardinality(LW) + Cardinality(LF))
           left2 == Spent(Cardinality(R), Cardinality(Worker), Cardinality(LW2) + Cardinality(LF))
<1>0. /\ Cardinality(R) \in Nat /\ Cardinality(Worker) \in Nat \ {0}
      /\ Cardinality(LW) \in Nat /\ Cardinality(LF) \in Nat
  BY Counts, Zenon
<1>1. PICK n \in Nat, k \in Nat \ {0}, c \in Nat, f \in Nat, m \in Nat :
        /\ n = Cardinality(R) /\ k = Cardinality(Worker)
        /\ c = Cardinality(LW) /\ f = Cardinality(LF) /\ m = c + f
  BY <1>0
<1>2. c <= k /\ f <= n
      /\ Cardinality(CL) \in Nat /\ Cardinality(CH) \in Nat /\ Cardinality(CT) \in Nat
      /\ left \in Nat
  BY <1>1, Counts
<1>3. Cardinality(CL2) \in Nat /\ Cardinality(CH2) \in Nat /\ Cardinality(CT2) \in Nat
  BY CountPart DEF Shape
<1>n. left2 \in Nat
  <2>1. Spent(Cardinality(R), Cardinality(Worker), Cardinality(LW2) + Cardinality(LF)) \in Nat
    BY Counts, Zenon
  <2> QED BY <2>1
<1>f. IsFiniteSet(R) /\ IsFiniteSet(CL2) /\ IsFiniteSet(CH) /\ IsFiniteSet(CT)
      /\ IsFiniteSet(B) /\ IsFiniteSet(C)
  BY CountPart DEF Shape
<1>4. Cardinality(B) + Cardinality(C) + f <= n
      /\ Cardinality(B) \in Nat /\ Cardinality(C) \in Nat
  <2>1. LF \subseteq R
    BY DEF Shape
  <2>2. Cardinality(LF) + Cardinality(B) + Cardinality(C) <= Cardinality(R)
    BY <1>f, <2>1, CountThree
  <2>3. Cardinality(B) \in Nat /\ Cardinality(C) \in Nat
    BY <1>f, FS_CardinalityType
  <2> QED BY <1>1, <2>2, <2>3
<1>5. ASSUME NEW A, NEW A2, NEW D, IsFiniteSet(A2), IsFiniteSet(D), A \subseteq A2 \cup D
      PROVE  Cardinality(A) <= Cardinality(A2) + Cardinality(D)
  <2>1. PICK E : E = A2 \cup D
    OBVIOUS
  <2>2. IsFiniteSet(E) /\ Cardinality(E) = Cardinality(A2) + Cardinality(D) - Cardinality(A2 \cap D)
    BY <1>5, <2>1, FS_Union
  <2>3. IsFiniteSet(A2 \cap D)
    BY <1>5, FS_Intersection
  <2>4. /\ Cardinality(A2 \cap D) \in Nat /\ Cardinality(A2) \in Nat /\ Cardinality(D) \in Nat
        /\ Cardinality(E) \in Nat
    BY <1>5, <2>2, <2>3, FS_CardinalityType
  <2>5. Cardinality(A) <= Cardinality(E) /\ Cardinality(A) \in Nat
    BY <1>5, <2>1, <2>2, CountPart
  <2> QED BY <2>2, <2>4, <2>5
<1>6. /\ Cardinality(CL) <= Cardinality(CL2) + Cardinality(B)
      /\ Cardinality(CH2) <= Cardinality(CH) + Cardinality(C)
      /\ Cardinality(CT2) <= Cardinality(CT)
  <2>1. Cardinality(CL) <= Cardinality(CL2) + Cardinality(B)
    BY <1>5, <1>f
  <2>2. Cardinality(CH2) <= Cardinality(CH) + Cardinality(C)
    BY <1>5, <1>f
  <2>3. Cardinality(CT2) <= Cardinality(CT)
    BY <1>f, CountPart
  <2> QED BY <2>1, <2>2, <2>3
<1>7. Cardinality(LW2) = c - 1 /\ c >= 1
  <2>1. IsFiniteSet(LW)
    BY WorkerAssumption, CountPart DEF Shape
  <2>2. Cardinality(LW2) = c - 1
    BY <1>1, <2>1, FS_RemoveElement
  <2>3. c # 0
    BY <1>1, <2>1, FS_EmptySet
  <2> QED BY <2>2, <2>3
<1>8. left + Cardinality(B) + Cardinality(C) <= left2
  <2>1. left = Spent(n, k, m)
    BY <1>1, Zenon
  <2>2. PICK p \in Nat : p = m - 1 /\ p = Cardinality(LW2) + Cardinality(LF)
                         /\ 1 <= m /\ m <= k + n
    BY <1>1, <1>2, <1>7
  <2>3. left2 = Spent(n, k, p)
    BY <1>1, <2>2, Zenon
  <2>4. Spent(n, k, p) = Spent(n, k, m - 1)
    BY <2>2
  <2>5. Spent(n, k, m - 1) = Spent(n, k, m) + (IF m <= k THEN n ELSE n - (m - k))
    BY <2>2, SpentStep
  <2>6. Cardinality(B) + Cardinality(C) <= (IF m <= k THEN n ELSE n - (m - k))
    BY <1>1, <1>2, <1>4
  <2> HIDE DEF left, left2
  <2> QED BY <1>2, <1>3, <1>n, <1>4, <2>1, <2>3, <2>4, <2>5, <2>6
<1>9. /\ RoomOf(R, LW, LF, CL, CH, CT, web)
           = left + Cardinality(CL) - Cardinality(CH) - Cardinality(CT) + web
      /\ RoomOf(R, LW2, LF, CL2, CH2, CT2, web)
           = left2 + Cardinality(CL2) - Cardinality(CH2) - Cardinality(CT2) + web
  BY DEF RoomOf
<1> HIDE DEF left, left2
<1> QED BY <1>2, <1>3, <1>n, <1>4, <1>6, <1>8, <1>9

-----------------------------------------------------------------------------
\* The sets of a user u and a window f.

\* Where a fill has read the sum of a window and not yet stored it.
Past == [day |-> {"weekly", "monthly", "decide"}, week |-> {"monthly", "decide"},
         month |-> {"decide"}]

\* Workers whose cache has a sum below the limit, of whatever age.
LowWorkers(u, f) == {w \in Worker : \E e \in cache[w][u] : e[f] < Limit[f]}

\* Fills that have read a sum below the limit.
LowFills(u, f) == {r \in UserRequests(u) : pc[r] \in Past[f] /\ sums[r][f] < Limit[f]}

\* Calls that have committed, at such a worker.
CommittedLow(u, f) ==
  {r \in UserRequests(u) : pc[r] = "invalidate" /\ worker[r] \cap LowWorkers(u, f) # {}}

\* Calls under way at the others.
CallsHigh(u, f) ==
  {r \in UserRequests(u) : pc[r] \in {"calling", "logging"}
                           /\ worker[r] \cap LowWorkers(u, f) = {}}

Chats(u) == {r \in UserRequests(u) : pc[r] \in {"chatting", "chatLogging"}}

\* How many calls usage may be past the limit by now: of those let through, the
\* ones under way, and the chats that have yet to log, are not in it.
Room(u, f) == RoomOf(UserRequests(u), LowWorkers(u, f), LowFills(u, f), CommittedLow(u, f),
                     CallsHigh(u, f), Chats(u), webCalls)

LEMMA RoomNow ==
  ASSUME NEW u, NEW f
  PROVE  Room(u, f) = RoomOf(UserRequests(u), LowWorkers(u, f), LowFills(u, f),
                             CommittedLow(u, f), CallsHigh(u, f), Chats(u), webCalls)
BY DEF Room

LEMMA RoomNext ==
  ASSUME NEW u, NEW f
  PROVE  Room(u, f)' = RoomOf(UserRequests(u), LowWorkers(u, f)', LowFills(u, f)',
                              CommittedLow(u, f)', CallsHigh(u, f)', Chats(u)', webCalls')
BY DEF Room, UserRequests

LEMMA PastPlaces ==
  ASSUME NEW f \in Window
  PROVE  Past[f] \subseteq {"weekly", "monthly", "decide"} /\ "decide" \in Past[f]
BY DEF Past, Window

LEMMA ShapeNow ==
  ASSUME TypeInv, NEW u \in User, NEW f \in Window
  PROVE  Shape(UserRequests(u), LowWorkers(u, f), LowFills(u, f), CommittedLow(u, f),
               CallsHigh(u, f), Chats(u))
<1>1. UserRequests(u) \subseteq Request /\ IsFiniteSet(UserRequests(u))
  BY FiniteAssumption, FS_Subset DEF UserRequests
<1>2. /\ LowWorkers(u, f) \subseteq Worker
      /\ LowFills(u, f) \subseteq UserRequests(u) /\ CommittedLow(u, f) \subseteq UserRequests(u)
      /\ CallsHigh(u, f) \subseteq UserRequests(u) /\ Chats(u) \subseteq UserRequests(u)
  BY DEF LowWorkers, LowFills, CommittedLow, CallsHigh, Chats
<1>3. /\ LowFills(u, f) \cap CommittedLow(u, f) = {} /\ LowFills(u, f) \cap CallsHigh(u, f) = {}
      /\ CommittedLow(u, f) \cap CallsHigh(u, f) = {}
  BY PastPlaces DEF LowFills, CommittedLow, CallsHigh
<1>4. ASSUME LowWorkers(u, f) = Worker PROVE CallsHigh(u, f) = {}
  <2> SUFFICES ASSUME NEW r \in CallsHigh(u, f) PROVE FALSE
    OBVIOUS
  <2>1. r \in Request /\ pc[r] # "idle" /\ worker[r] \cap Worker = {}
    BY <1>1, <1>4 DEF CallsHigh
  <2>2. \E w \in Worker : worker[r] = {w}
    BY <2>1 DEF TypeInv, RequestsPlaced
  <2> QED BY <2>1, <2>2
<1>5. LowWorkers(u, f) = {} => CommittedLow(u, f) = {}
  BY DEF CommittedLow
<1> QED BY <1>1, <1>2, <1>3, <1>4, <1>5 DEF Shape

LEMMA ShapeNext ==
  ASSUME TypeInv', NEW u \in User, NEW f \in Window
  PROVE  Shape(UserRequests(u), LowWorkers(u, f)', LowFills(u, f)', CommittedLow(u, f)',
               CallsHigh(u, f)', Chats(u)')
<1>1. UserRequests(u) \subseteq Request /\ IsFiniteSet(UserRequests(u))
  BY FiniteAssumption, FS_Subset DEF UserRequests
<1>2. /\ LowWorkers(u, f)' \subseteq Worker
      /\ LowFills(u, f)' \subseteq UserRequests(u) /\ CommittedLow(u, f)' \subseteq UserRequests(u)
      /\ CallsHigh(u, f)' \subseteq UserRequests(u) /\ Chats(u)' \subseteq UserRequests(u)
  BY DEF LowWorkers, LowFills, CommittedLow, CallsHigh, Chats, UserRequests
<1>3. /\ LowFills(u, f)' \cap CommittedLow(u, f)' = {} /\ LowFills(u, f)' \cap CallsHigh(u, f)' = {}
      /\ CommittedLow(u, f)' \cap CallsHigh(u, f)' = {}
  BY PastPlaces DEF LowFills, CommittedLow, CallsHigh
<1>4. ASSUME LowWorkers(u, f)' = Worker PROVE CallsHigh(u, f)' = {}
  <2> SUFFICES ASSUME NEW r \in CallsHigh(u, f)' PROVE FALSE
    OBVIOUS
  <2>1. r \in Request /\ pc'[r] # "idle" /\ worker'[r] \cap Worker = {}
    BY <1>1, <1>4 DEF CallsHigh, UserRequests
  <2>2. \E w \in Worker : worker'[r] = {w}
    BY <2>1 DEF TypeInv, RequestsPlaced
  <2> QED BY <2>1, <2>2
<1>5. LowWorkers(u, f)' = {} => CommittedLow(u, f)' = {}
  BY DEF CommittedLow
<1> QED BY <1>1, <1>2, <1>3, <1>4, <1>5 DEF Shape

\* A web chat under way has been counted.
ChatsCounted == \A u \in User : Cardinality(Chats(u)) <= webCalls

\* The budget may be passed by what the calls that are left cost.
RoomLeft ==
  \A u \in User : \A f \in Window : Usage(u, f) <= Limit[f] - 1 + Room(u, f) * MaxTokens

BudgetInv == ChatsCounted /\ RoomLeft

LEMMA RoomIsNatNow ==
  ASSUME TypeInv, ChatsCounted, NEW u \in User, NEW f \in Window
  PROVE  Room(u, f) \in Nat
BY ShapeNow, RoomIsNat, RoomNow DEF ChatsCounted, TypeInv

LEMMA RoomIsNatNext ==
  ASSUME TypeInv', ChatsCounted', NEW u \in User, NEW f \in Window
  PROVE  Room(u, f)' \in Nat
<1>1. webCalls' \in Nat /\ Cardinality(Chats(u)') <= webCalls'
  BY DEF ChatsCounted, TypeInv
<1> QED BY <1>1, ShapeNext, RoomIsNat, RoomNext

\* What each step but a commit does to a user's usage and room.
Pays(u, f) ==
  /\ Usage(u, f)' <= Usage(u, f)
  /\ Usage(u, f) >= Limit[f] => Room(u, f) <= Room(u, f)'

\* The request q keeps its place among the sets of u and f, or leaves those
\* that take room.
Stays(q, u, f) ==
  \/ pc'[q] = pc[q] /\ worker'[q] = worker[q] /\ sums'[q] = sums[q]
  \/ /\ q \in LowFills(u, f)' <=> q \in LowFills(u, f)
     /\ q \in CommittedLow(u, f) => q \in CommittedLow(u, f)'
     /\ q \in CallsHigh(u, f)' => q \in CallsHigh(u, f)
     /\ q \in Chats(u)' => q \in Chats(u)

LEMMA StaysInSets ==
  ASSUME NEW u \in User, NEW f \in Window, LowWorkers(u, f)' = LowWorkers(u, f),
         NEW q \in Request, Stays(q, u, f)
  PROVE  /\ q \in LowFills(u, f)' <=> q \in LowFills(u, f)
         /\ q \in CommittedLow(u, f) => q \in CommittedLow(u, f)'
         /\ q \in CallsHigh(u, f)' => q \in CallsHigh(u, f)
         /\ q \in Chats(u)' => q \in Chats(u)
<1>1. CASE pc'[q] = pc[q] /\ worker'[q] = worker[q] /\ sums'[q] = sums[q]
  BY <1>1 DEF LowFills, CommittedLow, CallsHigh, Chats, UserRequests
<1> QED BY <1>1 DEF Stays

LEMMA OfRequests ==
  ASSUME NEW u, NEW f
  PROVE  /\ LowFills(u, f) \subseteq Request /\ LowFills(u, f)' \subseteq Request
         /\ CommittedLow(u, f) \subseteq Request /\ CommittedLow(u, f)' \subseteq Request
         /\ CallsHigh(u, f) \subseteq Request /\ CallsHigh(u, f)' \subseteq Request
         /\ Chats(u) \subseteq Request /\ Chats(u)' \subseteq Request
BY DEF LowFills, CommittedLow, CallsHigh, Chats, UserRequests

LEMMA RoomOfStep ==
  ASSUME TypeInv, TypeInv', NEW u \in User, NEW f \in Window,
         LowWorkers(u, f)' = LowWorkers(u, f), \A q \in Request : Stays(q, u, f),
         webCalls <= webCalls'
  PROVE  Room(u, f) <= Room(u, f)'
<1>1. LowFills(u, f)' = LowFills(u, f)
  BY StaysInSets, OfRequests, Zenon
<1>2. CommittedLow(u, f) \subseteq CommittedLow(u, f)'
  BY StaysInSets, OfRequests, Zenon
<1>3. CallsHigh(u, f)' \subseteq CallsHigh(u, f)
  BY StaysInSets, OfRequests, Zenon
<1>4. Chats(u)' \subseteq Chats(u)
  BY StaysInSets, OfRequests, Zenon
<1>5. webCalls \in Nat /\ webCalls' \in Nat
  BY DEF TypeInv
<1>6. PICK R, LW, LF, CL, CH, CT, CL2, CH2, CT2 :
        /\ R = UserRequests(u) /\ LW = LowWorkers(u, f) /\ LF = LowFills(u, f)
        /\ CL = CommittedLow(u, f) /\ CH = CallsHigh(u, f) /\ CT = Chats(u)
        /\ CL2 = CommittedLow(u, f)' /\ CH2 = CallsHigh(u, f)' /\ CT2 = Chats(u)'
  OBVIOUS
<1>7. Shape(R, LW, LF, CL, CH, CT)
  BY <1>6, ShapeNow, Zenon
<1>8. Shape(R, LW, LF, CL2, CH2, CT2)
  <2>1. Shape(UserRequests(u), LowWorkers(u, f)', LowFills(u, f)', CommittedLow(u, f)',
              CallsHigh(u, f)', Chats(u)')
    BY ShapeNext
  <2> QED BY <1>1, <1>6, <2>1, Zenon
<1>9. RoomOf(R, LW, LF, CL, CH, CT, webCalls) <= RoomOf(R, LW, LF, CL2, CH2, CT2, webCalls')
  <2>1. CL \subseteq CL2 /\ CH2 \subseteq CH /\ CT2 \subseteq CT
    BY <1>2, <1>3, <1>4, <1>6, Zenon
  <2> QED BY <1>5, <1>7, <1>8, <2>1, RoomKept
<1>10. Room(u, f) = RoomOf(R, LW, LF, CL, CH, CT, webCalls)
  BY <1>6, RoomNow, Zenon
<1>11. Room(u, f)' = RoomOf(R, LW, LF, CL2, CH2, CT2, webCalls')
  <2>1. Room(u, f)' = RoomOf(UserRequests(u), LowWorkers(u, f)', LowFills(u, f)',
                              CommittedLow(u, f)', CallsHigh(u, f)', Chats(u)', webCalls')
    BY RoomNext
  <2> QED BY <1>1, <1>6, <2>1, Zenon
<1> QED BY <1>9, <1>10, <1>11, Zenon

-----------------------------------------------------------------------------
\* The room of a user, step by step.

LEMMA BudgetOfWindows ==
  ASSUME NEW s PROVE WithinBudget(s) <=> \A f \in Window : s[f] < Limit[f]
BY DEF WithinBudget, Limit, Window

LEMMA SameLowWorkers ==
  ASSUME NEW u, NEW f, \A w \in Worker : cache'[w][u] = cache[w][u]
  PROVE  LowWorkers(u, f)' = LowWorkers(u, f)
BY DEF LowWorkers

LEMMA Out ==
  ASSUME NEW u, NEW f \in Window, NEW r, pc[r] \in {"idle", "daily"} \/ Owner[r] # u
  PROVE  /\ r \notin LowFills(u, f) /\ r \notin CommittedLow(u, f)
         /\ r \notin CallsHigh(u, f) /\ r \notin Chats(u)
BY PastPlaces DEF LowFills, CommittedLow, CallsHigh, Chats, UserRequests

LEMMA OutNext ==
  ASSUME NEW u, NEW f \in Window, NEW r, pc'[r] \in {"idle", "daily"} \/ Owner[r] # u
  PROVE  /\ r \notin LowFills(u, f)' /\ r \notin CommittedLow(u, f)'
         /\ r \notin CallsHigh(u, f)' /\ r \notin Chats(u)'
BY PastPlaces DEF LowFills, CommittedLow, CallsHigh, Chats, UserRequests

\* A step of r alone that keeps log, clock and caches.
LEMMA PaysAlone ==
  ASSUME TypeInv, TypeInv', NEW u \in User, NEW f \in Window, NEW r \in Request,
         now' = now, logs' = logs, cache' = cache, webCalls' = webCalls,
         \A q \in Request \ {r} : pc'[q] = pc[q] /\ worker'[q] = worker[q] /\ sums'[q] = sums[q],
         Owner[r] = u /\ Usage(u, f) >= Limit[f] => Stays(r, u, f)
  PROVE  Pays(u, f)
<1>1. Usage(u, f)' = Usage(u, f) /\ Usage(u, f) \in Nat
  BY UsageKept, UsageIsNat
<1>2. ASSUME Usage(u, f) >= Limit[f] PROVE Room(u, f) <= Room(u, f)'
  <2>1. LowWorkers(u, f)' = LowWorkers(u, f)
    BY SameLowWorkers
  <2>2. Stays(r, u, f)
    <3>1. CASE Owner[r] = u
      BY <1>2, <3>1
    <3>2. CASE Owner[r] # u
      BY <3>2, Out, OutNext DEF Stays
    <3> QED BY <3>1, <3>2
  <2>3. \A q \in Request : Stays(q, u, f)
    BY <2>2 DEF Stays
  <2>4. webCalls <= webCalls'
    BY DEF TypeInv
  <2> QED BY <2>1, <2>3, <2>4, RoomOfStep
<1> QED BY <1>1, <1>2 DEF Pays

LEMMA PaysCheckCached ==
  ASSUME TypeInv, TypeInv', NEW r \in Request, CheckCached(r), NEW u \in User, NEW f \in Window
  PROVE  Pays(u, f)
<1>1. /\ pc[r] = "idle" /\ now' = now /\ logs' = logs /\ cache' = cache
      /\ webCalls' = webCalls /\ sums' = sums
  BY DEF CheckCached
<1>2. PICK w \in Worker : \E e \in Cached(w, Owner[r]) : Decide(w, r, e)
  BY DEF CheckCached
<1>3. PICK e \in cache[w][Owner[r]] : Decide(w, r, e)
  BY <1>2 DEF Cached
<1>4. PICK l \in {"calling", "idle"} : Serve(w, r, l) /\ (l = "calling" => WithinBudget(e))
  BY <1>3 DEF Decide
<1>5. /\ pc'[r] = l /\ worker'[r] = (IF l = "idle" THEN {} ELSE {w})
      /\ \A q \in Request \ {r} : pc'[q] = pc[q] /\ worker'[q] = worker[q]
  <2>1. l \in Location
    BY DEF Location
  <2> QED BY <1>4, <2>1, Served
<1>6. ASSUME Owner[r] = u PROVE Stays(r, u, f)
  <2>1. CASE l = "idle"
    BY <1>1, <1>5, <2>1, Out, OutNext DEF Stays
  <2>2. CASE l = "calling"
    <3>1. e[f] < Limit[f]
      BY <1>4, <2>2, BudgetOfWindows
    <3>2. w \in LowWorkers(u, f)'
      BY <1>1, <1>3, <1>6, <3>1 DEF LowWorkers
    <3>3. r \notin CallsHigh(u, f)'
      BY <1>5, <2>2, <3>2 DEF CallsHigh
    <3>4. r \notin LowFills(u, f)' /\ r \notin Chats(u)'
      BY <1>5, <2>2, PastPlaces DEF LowFills, Chats
    <3>5. r \notin LowFills(u, f) /\ r \notin CommittedLow(u, f)
      BY <1>1, Out
    <3> QED BY <3>3, <3>4, <3>5 DEF Stays
  <2> QED BY <2>1, <2>2
<1> QED BY <1>1, <1>5, <1>6, PaysAlone

LEMMA PaysStartFill ==
  ASSUME TypeInv, TypeInv', NEW r \in Request, StartFill(r), NEW u \in User, NEW f \in Window
  PROVE  Pays(u, f)
<1>1. /\ pc[r] = "idle" /\ now' = now /\ logs' = logs /\ cache' = cache
      /\ webCalls' = webCalls /\ sums' = sums
  BY DEF StartFill
<1>2. PICK w \in Worker : Serve(w, r, "daily")
  BY DEF StartFill
<1>3. pc'[r] = "daily" /\ \A q \in Request \ {r} : pc'[q] = pc[q] /\ worker'[q] = worker[q]
  BY <1>2, Served DEF Location
<1>4. Stays(r, u, f)
  BY <1>1, <1>3, Out, OutNext DEF Stays
<1> QED BY <1>1, <1>3, <1>4, PaysAlone

\* A sum that is read when the limit has been reached is not below it.
LEMMA PaysReadSum ==
  ASSUME TypeInv, TypeInv', NEW r \in Request, NEW at, NEW next \in Location,
         NEW g \in Window, ReadSum(r, at, next, g, Span[g]),
         \/ g = "day" /\ at = "daily" /\ next = "weekly"
         \/ g = "week" /\ at = "weekly" /\ next = "monthly"
         \/ g = "month" /\ at = "monthly" /\ next = "decide",
         NEW u \in User, NEW f \in Window
  PROVE  Pays(u, f)
<1>1. /\ pc[r] = at /\ now' = now /\ logs' = logs /\ cache' = cache /\ webCalls' = webCalls
      /\ sums' = [sums EXCEPT ![r][g] = SumSince(Owner[r], start[r] - Span[g])]
      /\ Goto(r, next) /\ at # "idle"
  BY DEF ReadSum
<1>2. pc'[r] = next /\ \A q \in Request \ {r} : pc'[q] = pc[q] /\ worker'[q] = worker[q]
  BY <1>1, Gone
<1>3. \A q \in Request \ {r} : sums'[q] = sums[q]
  BY <1>1 DEF TypeInv
<1>4. ASSUME Owner[r] = u, Usage(u, f) >= Limit[f] PROVE Stays(r, u, f)
  <2>1. /\ r \notin CommittedLow(u, f) /\ r \notin CallsHigh(u, f)' /\ r \notin Chats(u)'
    BY <1>1, <1>2 DEF CommittedLow, CallsHigh, Chats
  <2>2. CASE f # g
    <3>1. pc'[r] \in Past[f] <=> pc[r] \in Past[f]
      BY <1>1, <1>2, <2>2 DEF Past, Window
    <3>2. sums'[r][f] = sums[r][f]
      BY <1>1, <2>2 DEF TypeInv, Sums, Window
    <3>3. r \in LowFills(u, f)' <=> r \in LowFills(u, f)
      BY <3>1, <3>2 DEF LowFills, UserRequests
    <3> QED BY <2>1, <3>3 DEF Stays
  <2>3. CASE f = g
    <3>1. r \notin LowFills(u, f)
      BY <1>1, <2>3 DEF LowFills, Past, Window
    <3>2. PICK s \in Int, t \in Int : s = start[r] - Span[f] /\ t = now - Span[f] /\ s <= t
      BY Plan DEF TypeInv, Started, Time
    <3>3. SumSince(u, t) <= SumSince(u, s) /\ SumSince(u, s) \in Nat /\ SumSince(u, t) \in Nat
      BY <3>2, SinceEarlier, SumIsNat
    <3>4. sums'[r][f] = SumSince(u, s)
      BY <1>1, <1>4, <2>3, <3>2 DEF TypeInv, Sums, Window
    <3>5. Usage(u, f) = SumSince(u, t)
      BY <3>2 DEF Usage
    <3>6. ~ (sums'[r][f] < Limit[f])
      <4>1. Limit[f] \in Nat
        BY Plan
      <4> QED BY <1>4, <3>3, <3>4, <3>5, <4>1
    <3>7. r \notin LowFills(u, f)'
      BY <3>6 DEF LowFills
    <3> QED BY <2>1, <3>1, <3>7 DEF Stays
  <2> QED BY <2>2, <2>3
<1> QED BY <1>1, <1>2, <1>3, <1>4, PaysAlone

\* The provider has answered, or the call ends without a log.
LEMMA PaysAnswered ==
  ASSUME TypeInv, TypeInv', NEW r \in Request, FindKey(r) \/ EndUnlogged(r),
         NEW u \in User, NEW f \in Window
  PROVE  Pays(u, f)
<1>1. /\ pc[r] \in {"calling", "chatting"} /\ now' = now /\ logs' = logs /\ cache' = cache
      /\ webCalls' = webCalls /\ sums' = sums
  BY DEF FindKey, EndUnlogged
<1>2. PICK l \in {"idle", "logging", "chatLogging"} :
        /\ Goto(r, l)
        /\ l = "logging" => pc[r] = "calling"
        /\ l = "chatLogging" => pc[r] = "chatting"
  BY <1>1 DEF FindKey, EndUnlogged
<1>3. /\ pc'[r] = l /\ worker'[r] = (IF l = "idle" THEN {} ELSE worker[r])
      /\ \A q \in Request \ {r} : pc'[q] = pc[q] /\ worker'[q] = worker[q]
  BY <1>1, <1>2, Gone DEF Location
<1>4. LowWorkers(u, f)' = LowWorkers(u, f)
  BY <1>1, SameLowWorkers
<1>5. Stays(r, u, f)
  <2>1. r \notin LowFills(u, f) /\ r \notin CommittedLow(u, f)
    BY <1>1, PastPlaces DEF LowFills, CommittedLow
  <2>2. r \notin LowFills(u, f)'
    BY <1>3, PastPlaces DEF LowFills
  <2>3. r \in CallsHigh(u, f)' => r \in CallsHigh(u, f)
    BY <1>2, <1>3, <1>4 DEF CallsHigh, UserRequests
  <2>4. r \in Chats(u)' => r \in Chats(u)
    BY <1>2, <1>3 DEF Chats, UserRequests
  <2> QED BY <2>1, <2>2, <2>3, <2>4 DEF Stays
<1> QED BY <1>1, <1>3, <1>5, PaysAlone

LEMMA PaysWebCall ==
  ASSUME TypeInv, TypeInv', NEW r \in Request, WebCall(r), NEW u \in User, NEW f \in Window
  PROVE  Pays(u, f) /\ Chats(u)' \subseteq Chats(u) \cup {r}
<1>1. /\ pc[r] = "idle" /\ now' = now /\ logs' = logs /\ cache' = cache
      /\ webCalls' = webCalls + 1 /\ webCalls \in Nat /\ sums' = sums
  BY DEF WebCall, TypeInv
<1>2. PICK w \in Worker, l \in {"calling", "chatting"} : Serve(w, r, l)
  BY DEF WebCall
<1>3. pc'[r] = l /\ \A q \in Request \ {r} : pc'[q] = pc[q] /\ worker'[q] = worker[q]
  <2>1. l \in Location
    BY DEF Location
  <2> QED BY <1>2, <2>1, Served
<1>4. LowWorkers(u, f)' = LowWorkers(u, f)
  BY <1>1, SameLowWorkers
<1>5. \A q \in Request \ {r} : Stays(q, u, f)
  BY <1>1, <1>3 DEF Stays
<1>6. r \notin LowFills(u, f) /\ r \notin LowFills(u, f)' /\ r \notin CommittedLow(u, f)
  <2>1. r \notin LowFills(u, f) /\ r \notin CommittedLow(u, f)
    BY <1>1, Out
  <2> QED BY <1>3, <2>1, PastPlaces DEF LowFills
<1>7. \A q \in Request \ {r} :
        /\ q \in LowFills(u, f)' <=> q \in LowFills(u, f)
        /\ q \in CommittedLow(u, f) => q \in CommittedLow(u, f)'
        /\ q \in CallsHigh(u, f)' => q \in CallsHigh(u, f)
        /\ q \in Chats(u)' => q \in Chats(u)
  BY <1>4, <1>5, StaysInSets, Zenon
<1>8. LowFills(u, f)' = LowFills(u, f)
  <2>1. PICK A, B : A = LowFills(u, f) /\ B = LowFills(u, f)'
    OBVIOUS
  <2>2. A \subseteq Request /\ B \subseteq Request /\ r \notin A /\ r \notin B
    BY <1>6, <2>1, OfRequests, Zenon
  <2>3. \A q \in Request \ {r} : q \in B <=> q \in A
    BY <1>7, <2>1, Zenon
  <2>4. A = B
    BY <2>2, <2>3
  <2> QED BY <2>1, <2>4, Zenon
<1>9. CommittedLow(u, f) \subseteq CommittedLow(u, f)'
  BY <1>6, <1>7, OfRequests, Zenon
<1>10. /\ CallsHigh(u, f)' \subseteq CallsHigh(u, f) \cup {r}
       /\ Chats(u)' \subseteq Chats(u) \cup {r}
  BY <1>7, OfRequests, Zenon
<1>11. r \notin CallsHigh(u, f)' \/ r \notin Chats(u)'
  BY DEF CallsHigh, Chats
<1>12. \/ CallsHigh(u, f)' \subseteq CallsHigh(u, f) \cup {r} /\ Chats(u)' \subseteq Chats(u)
       \/ CallsHigh(u, f)' \subseteq CallsHigh(u, f) /\ Chats(u)' \subseteq Chats(u) \cup {r}
  BY <1>7, <1>10, <1>11, OfRequests, Zenon
<1>13. PICK R, LW, LF, CL, CH, CT, CL2, CH2, CT2 :
        /\ R = UserRequests(u) /\ LW = LowWorkers(u, f) /\ LF = LowFills(u, f)
        /\ CL = CommittedLow(u, f) /\ CH = CallsHigh(u, f) /\ CT = Chats(u)
        /\ CL2 = CommittedLow(u, f)' /\ CH2 = CallsHigh(u, f)' /\ CT2 = Chats(u)'
  OBVIOUS
<1>14. Shape(R, LW, LF, CL, CH, CT)
  BY <1>13, ShapeNow, Zenon
<1>15. Shape(R, LW, LF, CL2, CH2, CT2)
  <2>1. Shape(UserRequests(u), LowWorkers(u, f)', LowFills(u, f)', CommittedLow(u, f)',
              CallsHigh(u, f)', Chats(u)')
    BY ShapeNext
  <2> QED BY <1>4, <1>8, <1>13, <2>1, Zenon
<1>16. RoomOf(R, LW, LF, CL, CH, CT, webCalls) <= RoomOf(R, LW, LF, CL2, CH2, CT2, webCalls + 1)
  <2>1. \/ CH2 \subseteq CH \cup {r} /\ CT2 \subseteq CT
        \/ CH2 \subseteq CH /\ CT2 \subseteq CT \cup {r}
    BY <1>12, <1>13, Zenon
  <2>2. CL \subseteq CL2
    BY <1>9, <1>13, Zenon
  <2> QED BY <1>1, <1>14, <1>15, <2>1, <2>2, RoomOfWebCall
<1>17. Room(u, f) = RoomOf(R, LW, LF, CL, CH, CT, webCalls)
  BY <1>13, RoomNow, Zenon
<1>18. Room(u, f)' = RoomOf(R, LW, LF, CL2, CH2, CT2, webCalls + 1)
  <2>1. Room(u, f)' = RoomOf(UserRequests(u), LowWorkers(u, f)', LowFills(u, f)',
                              CommittedLow(u, f)', CallsHigh(u, f)', Chats(u)', webCalls')
    BY RoomNext
  <2> QED BY <1>1, <1>4, <1>8, <1>13, <2>1, Zenon
<1>19. Room(u, f) <= Room(u, f)'
  BY <1>16, <1>17, <1>18, Zenon
<1>20. Usage(u, f)' <= Usage(u, f)
  BY <1>1, UsageKept, UsageIsNat
<1> QED BY <1>10, <1>19, <1>20 DEF Pays

\* A commit raises usage by one call and makes room for one.
LEMMA CommitMakesRoom ==
  ASSUME TypeInv, TypeInv', NEW r \in Request, CommitLog(r), NEW u \in User, NEW f \in Window
  PROVE  \/ Pays(u, f)
         \/ Usage(u, f)' <= Usage(u, f) + MaxTokens /\ Room(u, f) + 1 <= Room(u, f)'
<1>1. /\ pc[r] \in {"logging", "chatLogging"} /\ now' = now /\ cache' = cache
      /\ webCalls' = webCalls /\ webCalls \in Nat /\ sums' = sums
  BY DEF CommitLog, TypeInv
<1>2. PICK k \in picked[r] :
        IF status[k] = "revoked"
        THEN Goto(r, "idle") /\ UNCHANGED logs
        ELSE /\ \E n \in 1..MaxTokens : logs' = [logs EXCEPT ![<<k, now>>] = @ + n]
             /\ Goto(r, IF pc[r] = "logging" THEN "invalidate" ELSE "idle")
  BY DEF CommitLog
<1>3. k \in Key /\ KeyOwner[k] = Owner[r]
  BY DEF TypeInv, KeysPicked
<1>4. PICK l \in {"idle", "invalidate"} :
        /\ Goto(r, l)
        /\ l = "invalidate" => pc[r] = "logging" /\ status[k] # "revoked"
        /\ l = "idle" => status[k] = "revoked" \/ pc[r] = "chatLogging"
  BY <1>1, <1>2
<1>5. /\ pc'[r] = l /\ worker'[r] = (IF l = "idle" THEN {} ELSE worker[r])
      /\ \A q \in Request \ {r} : pc'[q] = pc[q] /\ worker'[q] = worker[q]
  <2>1. l \in Location /\ pc[r] # "idle"
    BY <1>1 DEF Location
  <2> QED BY <1>4, <2>1, Gone
<1>6. LowWorkers(u, f)' = LowWorkers(u, f)
  BY <1>1, SameLowWorkers
<1>7. r \notin LowFills(u, f) /\ r \notin LowFills(u, f)' /\ r \notin CommittedLow(u, f)
  BY <1>1, <1>5, PastPlaces DEF LowFills, CommittedLow
<1>8. r \notin CallsHigh(u, f)' /\ r \notin Chats(u)'
  BY <1>5 DEF CallsHigh, Chats
<1>9. CASE status[k] = "revoked"
  <2>1. Stays(r, u, f)
    BY <1>7, <1>8 DEF Stays
  <2> QED BY <1>1, <1>2, <1>5, <1>9, <2>1, PaysAlone
<1>10. CASE status[k] # "revoked" /\ Owner[r] # u
  <2>1. PICK n \in 1..MaxTokens : logs' = [logs EXCEPT ![<<k, now>>] = @ + n]
    BY <1>2, <1>10
  <2>2. Usage(u, f)' = Usage(u, f) /\ Usage(u, f) \in Nat
    BY <1>1, <1>3, <1>10, <2>1, CommitRaises, UsageIsNat
  <2>3. Stays(r, u, f)
    BY <1>10, Out, OutNext DEF Stays
  <2>4. \A q \in Request : Stays(q, u, f)
    BY <1>1, <1>5, <2>3 DEF Stays
  <2>5. webCalls <= webCalls'
    BY <1>1
  <2>6. Room(u, f) <= Room(u, f)'
    BY <1>6, <2>4, <2>5, RoomOfStep
  <2> QED BY <2>2, <2>6 DEF Pays
<1>11. CASE status[k] # "revoked" /\ Owner[r] = u
  <2>1. PICK n \in 1..MaxTokens : logs' = [logs EXCEPT ![<<k, now>>] = @ + n]
    BY <1>2, <1>11
  <2>2. Usage(u, f)' <= Usage(u, f) + MaxTokens
    <3>1. Usage(u, f)' = Usage(u, f) + n /\ Usage(u, f) \in Nat
      BY <1>1, <1>3, <1>11, <2>1, CommitRaises, UsageIsNat
    <3> QED BY <3>1, Plan
  <2>3. r \in UserRequests(u)
    BY <1>11 DEF UserRequests
  <2>4. \A q \in Request \ {r} :
          /\ q \in LowFills(u, f)' <=> q \in LowFills(u, f)
          /\ q \in CommittedLow(u, f)' <=> q \in CommittedLow(u, f)
          /\ q \in CallsHigh(u, f)' <=> q \in CallsHigh(u, f)
          /\ q \in Chats(u)' <=> q \in Chats(u)
    <3> SUFFICES ASSUME NEW q \in Request \ {r}
                 PROVE  /\ q \in LowFills(u, f)' <=> q \in LowFills(u, f)
                        /\ q \in CommittedLow(u, f)' <=> q \in CommittedLow(u, f)
                        /\ q \in CallsHigh(u, f)' <=> q \in CallsHigh(u, f)
                        /\ q \in Chats(u)' <=> q \in Chats(u)
      OBVIOUS
    <3>1. pc'[q] = pc[q] /\ worker'[q] = worker[q] /\ sums'[q] = sums[q]
      BY <1>1, <1>5
    <3> QED BY <1>6, <3>1 DEF LowFills, CommittedLow, CallsHigh, Chats, UserRequests
  <2>5. LowFills(u, f)' = LowFills(u, f)
    <3>1. PICK A, B : A = LowFills(u, f) /\ B = LowFills(u, f)'
      OBVIOUS
    <3>2. A \subseteq Request /\ B \subseteq Request /\ r \notin A /\ r \notin B
      BY <1>7, <3>1, OfRequests, Zenon
    <3>3. \A q \in Request \ {r} : q \in B <=> q \in A
      BY <2>4, <3>1, Zenon
    <3>4. A = B
      BY <3>2, <3>3
    <3> QED BY <3>1, <3>4, Zenon
  <2>6. PICK R, LW, LF, CL, CH, CT, CL2, CH2, CT2 :
        /\ R = UserRequests(u) /\ LW = LowWorkers(u, f) /\ LF = LowFills(u, f)
        /\ CL = CommittedLow(u, f) /\ CH = CallsHigh(u, f) /\ CT = Chats(u)
        /\ CL2 = CommittedLow(u, f)' /\ CH2 = CallsHigh(u, f)' /\ CT2 = Chats(u)'
    OBVIOUS
  <2>7. \/ r \notin CL /\ CL2 = CL \cup {r} /\ CH2 = CH /\ CT2 = CT
        \/ r \in CH /\ CL2 = CL /\ CH2 = CH \ {r} /\ CT2 = CT
        \/ r \in CT /\ CL2 = CL /\ CH2 = CH /\ CT2 = CT \ {r}
    <3>1. /\ CL \subseteq Request /\ CL2 \subseteq Request /\ CH \subseteq Request
          /\ CH2 \subseteq Request /\ CT \subseteq Request /\ CT2 \subseteq Request
      BY <2>6, OfRequests, Zenon
    <3>2. \A q \in Request \ {r} : (q \in CL2 <=> q \in CL) /\ (q \in CH2 <=> q \in CH)
                                   /\ (q \in CT2 <=> q \in CT)
      BY <2>4, <2>6, Zenon
    <3>3. r \notin CL /\ r \notin CH2 /\ r \notin CT2
      BY <1>7, <1>8, <2>6, Zenon
    <3>4. \/ r \in CL2 /\ r \notin CH /\ r \notin CT
          \/ r \notin CL2 /\ r \in CH /\ r \notin CT
          \/ r \notin CL2 /\ r \notin CH /\ r \in CT
      <4>1. CASE pc[r] = "logging"
        <5>1. l = "invalidate" /\ worker'[r] = worker[r]
          BY <1>4, <1>5, <1>11, <4>1
        <5>2. r \notin Chats(u)
          BY <4>1 DEF Chats
        <5>3. r \in CommittedLow(u, f)' <=> ~ (r \in CallsHigh(u, f))
          BY <1>5, <1>6, <2>3, <4>1, <5>1 DEF CommittedLow, CallsHigh, UserRequests
        <5> QED BY <2>6, <5>2, <5>3
      <4>2. CASE pc[r] = "chatLogging"
        <5>1. l = "idle"
          BY <1>4, <4>2
        <5>2. r \in Chats(u) /\ r \notin CallsHigh(u, f) /\ r \notin CommittedLow(u, f)'
          BY <1>5, <2>3, <4>2, <5>1 DEF Chats, CallsHigh, CommittedLow
        <5> QED BY <2>6, <5>2
      <4> QED BY <1>1, <4>1, <4>2
    <3> QED BY <3>1, <3>2, <3>3, <3>4
  <2>8. Shape(R, LW, LF, CL, CH, CT)
    BY <2>6, ShapeNow, Zenon
  <2>9. Shape(R, LW, LF, CL2, CH2, CT2)
    <3>1. Shape(UserRequests(u), LowWorkers(u, f)', LowFills(u, f)', CommittedLow(u, f)',
                CallsHigh(u, f)', Chats(u)')
      BY ShapeNext
    <3> QED BY <1>6, <2>5, <2>6, <3>1, Zenon
  <2>10. RoomOf(R, LW, LF, CL, CH, CT, webCalls) + 1
           <= RoomOf(R, LW, LF, CL2, CH2, CT2, webCalls)
    BY <1>1, <2>7, <2>8, <2>9, RoomOfCommit
  <2>11. Room(u, f) = RoomOf(R, LW, LF, CL, CH, CT, webCalls)
    BY <2>6, RoomNow, Zenon
  <2>12. Room(u, f)' = RoomOf(R, LW, LF, CL2, CH2, CT2, webCalls)
    <3>1. Room(u, f)' = RoomOf(UserRequests(u), LowWorkers(u, f)', LowFills(u, f)',
                                CommittedLow(u, f)', CallsHigh(u, f)', Chats(u)', webCalls')
      BY RoomNext
    <3> QED BY <1>1, <1>6, <2>5, <2>6, <3>1, Zenon
  <2>13. Room(u, f) + 1 <= Room(u, f)'
    BY <2>10, <2>11, <2>12, Zenon
  <2> QED BY <2>2, <2>13
<1> QED BY <1>9, <1>10, <1>11

\* A worker loses its sums: what it has cached is dropped, evicted, or replaced
\* by a sum that is not below the limit.
LEMMA RoomOfLoss ==
  ASSUME TypeInv, TypeInv', NEW u \in User, NEW f \in Window, NEW w \in LowWorkers(u, f),
         LowWorkers(u, f)' = LowWorkers(u, f) \ {w}, webCalls' = webCalls,
         \A q \in Request :
           \/ pc'[q] = pc[q] /\ worker'[q] = worker[q] /\ sums'[q] = sums[q]
           \/ /\ pc'[q] = "idle" /\ q \notin LowFills(u, f)
              /\ q \in CommittedLow(u, f) => worker[q] = {w}
  PROVE  Room(u, f) <= Room(u, f)'
<1> DEFINE Rests(q) == pc'[q] = pc[q] /\ worker'[q] = worker[q] /\ sums'[q] = sums[q]
<1>1. PICK B : B = {q \in UserRequests(u) : pc[q] = "invalidate" /\ worker[q] = {w}}
  OBVIOUS
<1>2. PICK C : C = {q \in UserRequests(u) : pc[q] \in {"calling", "logging"} /\ worker[q] = {w}}
  OBVIOUS
<1>3. LowFills(u, f)' = LowFills(u, f)
  <2>1. ASSUME NEW q \in Request PROVE q \in LowFills(u, f)' <=> q \in LowFills(u, f)
    <3>1. CASE Rests(q)
      BY <3>1 DEF LowFills, UserRequests
    <3>2. CASE ~Rests(q)
      <4>1. pc'[q] = "idle" /\ q \notin LowFills(u, f)
        BY <3>2
      <4> QED BY <4>1, OutNext
    <3> QED BY <3>1, <3>2
  <2>2. PICK A, D : A = LowFills(u, f) /\ D = LowFills(u, f)'
    OBVIOUS
  <2>3. A \subseteq Request /\ D \subseteq Request
    BY <2>2, OfRequests, Zenon
  <2>4. \A q \in Request : q \in D <=> q \in A
    BY <2>1, <2>2, Zenon
  <2>5. D = A
    BY <2>3, <2>4
  <2> QED BY <2>2, <2>5, Zenon
<1>4. ASSUME NEW q \in Request, pc[q] # "idle" PROVE \E v \in Worker : worker[q] = {v}
  BY <1>4 DEF TypeInv, RequestsPlaced
<1>5. CommittedLow(u, f) \subseteq CommittedLow(u, f)' \cup B
  <2> SUFFICES ASSUME NEW q \in CommittedLow(u, f), q \notin B PROVE q \in CommittedLow(u, f)'
    OBVIOUS
  <2>1. q \in Request /\ q \in UserRequests(u) /\ pc[q] = "invalidate"
        /\ worker[q] \cap LowWorkers(u, f) # {}
    BY DEF CommittedLow, UserRequests
  <2>2. PICK v \in Worker : worker[q] = {v}
    BY <1>4, <2>1
  <2>3. v # w /\ v \in LowWorkers(u, f)
    BY <1>1, <2>1, <2>2
  <2>4. Rests(q)
    BY <2>1, <2>2, <2>3
  <2>5. worker'[q] \cap LowWorkers(u, f)' # {}
    BY <2>2, <2>3, <2>4
  <2> QED BY <2>1, <2>4, <2>5 DEF CommittedLow, UserRequests
<1>6. CallsHigh(u, f)' \subseteq CallsHigh(u, f) \cup C
  <2> SUFFICES ASSUME NEW q \in CallsHigh(u, f)', q \notin C PROVE q \in CallsHigh(u, f)
    OBVIOUS
  <2>1. q \in Request /\ q \in UserRequests(u) /\ pc'[q] \in {"calling", "logging"}
        /\ worker'[q] \cap LowWorkers(u, f)' = {}
    BY DEF CallsHigh, UserRequests
  <2>2. Rests(q)
    BY <2>1
  <2>3. PICK v \in Worker : worker[q] = {v}
    BY <1>4, <2>1, <2>2
  <2>4. v # w /\ v \notin LowWorkers(u, f)
    BY <1>2, <2>1, <2>2, <2>3
  <2> QED BY <2>1, <2>2, <2>3, <2>4 DEF CallsHigh
<1>7. Chats(u)' \subseteq Chats(u)
  <2> SUFFICES ASSUME NEW q \in Chats(u)' PROVE q \in Chats(u)
    OBVIOUS
  <2>1. q \in Request /\ q \in UserRequests(u) /\ pc'[q] \in {"chatting", "chatLogging"}
    BY DEF Chats, UserRequests
  <2> QED BY <2>1 DEF Chats
<1> HIDE DEF Rests
<1>8. /\ B \subseteq UserRequests(u) /\ C \subseteq UserRequests(u)
      /\ LowFills(u, f) \cap B = {} /\ LowFills(u, f) \cap C = {} /\ B \cap C = {}
  BY <1>1, <1>2, PastPlaces DEF LowFills
<1>9. PICK R, LW, LF, CL, CH, CT, LW2, CL2, CH2, CT2 :
        /\ R = UserRequests(u) /\ LW = LowWorkers(u, f) /\ LF = LowFills(u, f)
        /\ CL = CommittedLow(u, f) /\ CH = CallsHigh(u, f) /\ CT = Chats(u)
        /\ LW2 = LowWorkers(u, f)'
        /\ CL2 = CommittedLow(u, f)' /\ CH2 = CallsHigh(u, f)' /\ CT2 = Chats(u)'
  OBVIOUS
<1>10. Shape(R, LW, LF, CL, CH, CT)
  BY <1>9, ShapeNow, Zenon
<1>11. Shape(R, LW2, LF, CL2, CH2, CT2)
  <2>1. Shape(UserRequests(u), LowWorkers(u, f)', LowFills(u, f)', CommittedLow(u, f)',
              CallsHigh(u, f)', Chats(u)')
    BY ShapeNext
  <2> QED BY <1>3, <1>9, <2>1, Zenon
<1>12. RoomOf(R, LW, LF, CL, CH, CT, webCalls) <= RoomOf(R, LW2, LF, CL2, CH2, CT2, webCalls)
  <2>1. webCalls \in Nat /\ w \in LW /\ LW2 = LW \ {w}
    BY <1>9 DEF TypeInv
  <2>2. B \subseteq R /\ C \subseteq R /\ LF \cap B = {} /\ LF \cap C = {} /\ B \cap C = {}
    BY <1>8, <1>9, Zenon
  <2>3. CL \subseteq CL2 \cup B /\ CH2 \subseteq CH \cup C /\ CT2 \subseteq CT
    BY <1>5, <1>6, <1>7, <1>9, Zenon
  <2> QED BY <1>10, <1>11, <2>1, <2>2, <2>3, RoomOfDrop
<1>13. Room(u, f) = RoomOf(R, LW, LF, CL, CH, CT, webCalls)
  BY <1>9, RoomNow, Zenon
<1>14. Room(u, f)' = RoomOf(R, LW2, LF, CL2, CH2, CT2, webCalls)
  <2>1. Room(u, f)' = RoomOf(UserRequests(u), LowWorkers(u, f)', LowFills(u, f)',
                              CommittedLow(u, f)', CallsHigh(u, f)', Chats(u)', webCalls')
    BY RoomNext
  <2> QED BY <1>3, <1>9, <2>1, Zenon
<1> QED BY <1>12, <1>13, <1>14, Zenon

LEMMA DroppedLowWorkers ==
  ASSUME NEW w \in Worker, NEW x \in User, cache'[w][x] = {},
         \A v \in Worker, y \in User : v # w \/ y # x => cache'[v][y] = cache[v][y],
         NEW u \in User, NEW f
  PROVE  LowWorkers(u, f)' = IF u = x THEN LowWorkers(u, f) \ {w} ELSE LowWorkers(u, f)
BY DEF LowWorkers

LEMMA PaysInvalidate ==
  ASSUME TypeInv, TypeInv', NEW r \in Request, Invalidate(r), NEW u \in User, NEW f \in Window
  PROVE  Pays(u, f)
<1>1. /\ pc[r] = "invalidate" /\ now' = now /\ logs' = logs /\ sums' = sums
      /\ webCalls' = webCalls /\ webCalls \in Nat /\ Goto(r, "idle")
  BY DEF Invalidate, TypeInv
<1>2. PICK w \in Worker, x \in User : w = WorkerOf(r) /\ x = Owner[r] /\ worker[r] = {w}
  BY <1>1, AtOneWorker, OwnersAreUsers
<1>3. /\ pc'[r] = "idle"
      /\ \A q \in Request \ {r} : pc'[q] = pc[q] /\ worker'[q] = worker[q]
  BY <1>1, Gone DEF Location
<1>4. DropCache(w, x)
  BY <1>2 DEF Invalidate
<1>5. LowWorkers(u, f)' = IF u = x THEN LowWorkers(u, f) \ {w} ELSE LowWorkers(u, f)
  <2>1. /\ CachesTyped'
        /\ cache'[w][x] = {}
        /\ \A v \in Worker, y \in User : v # w \/ y # x => cache'[v][y] = cache[v][y]
    BY <1>4, Dropped, Zenon
  <2> QED BY <2>1, DroppedLowWorkers
<1>6. r \notin LowFills(u, f) /\ r \notin LowFills(u, f)'
  BY <1>1, <1>3, PastPlaces DEF LowFills
<1>7. Usage(u, f)' <= Usage(u, f)
  BY <1>1, UsageKept, UsageIsNat
<1>8. CASE u = x /\ w \in LowWorkers(u, f)
  <2>1. LowWorkers(u, f)' = LowWorkers(u, f) \ {w}
    BY <1>5, <1>8
  <2>2. \A q \in Request :
           \/ pc'[q] = pc[q] /\ worker'[q] = worker[q] /\ sums'[q] = sums[q]
           \/ /\ pc'[q] = "idle" /\ q \notin LowFills(u, f)
              /\ q \in CommittedLow(u, f) => worker[q] = {w}
    BY <1>1, <1>2, <1>3, <1>6
  <2>3. Room(u, f) <= Room(u, f)'
    BY <1>1, <1>8, <2>1, <2>2, RoomOfLoss
  <2> QED BY <1>7, <2>3 DEF Pays
<1>9. CASE ~ (u = x /\ w \in LowWorkers(u, f))
  <2>1. LowWorkers(u, f)' = LowWorkers(u, f)
    BY <1>5, <1>9
  <2>2. r \notin CommittedLow(u, f)
    BY <1>2, <1>9 DEF CommittedLow, UserRequests
  <2>3. Stays(r, u, f)
    BY <1>3, <1>6, <2>2, OutNext DEF Stays
  <2>4. \A q \in Request : Stays(q, u, f)
    BY <1>1, <1>3, <2>3 DEF Stays
  <2>5. webCalls <= webCalls'
    BY <1>1
  <2>6. Room(u, f) <= Room(u, f)'
    BY <2>1, <2>4, <2>5, RoomOfStep
  <2> QED BY <1>7, <2>6 DEF Pays
<1> QED BY <1>8, <1>9

LEMMA PaysEvict ==
  ASSUME TypeInv, TypeInv', NEW w \in Worker, NEW x \in User, Evict(w, x),
         NEW u \in User, NEW f \in Window
  PROVE  Pays(u, f)
<1>1. /\ now' = now /\ logs' = logs /\ sums' = sums /\ pc' = pc /\ worker' = worker
      /\ webCalls' = webCalls /\ webCalls \in Nat
  BY DEF Evict, TypeInv
<1>2. DropCache(w, x)
  BY DEF Evict, DropCache
<1>3. LowWorkers(u, f)' = IF u = x THEN LowWorkers(u, f) \ {w} ELSE LowWorkers(u, f)
  <2>1. /\ CachesTyped'
        /\ cache'[w][x] = {}
        /\ \A v \in Worker, y \in User : v # w \/ y # x => cache'[v][y] = cache[v][y]
    BY <1>2, Dropped, Zenon
  <2> QED BY <2>1, DroppedLowWorkers
<1>4. Usage(u, f)' <= Usage(u, f)
  BY <1>1, UsageKept, UsageIsNat
<1>5. CASE u = x /\ w \in LowWorkers(u, f)
  <2>1. LowWorkers(u, f)' = LowWorkers(u, f) \ {w}
    BY <1>3, <1>5
  <2>2. Room(u, f) <= Room(u, f)'
    BY <1>1, <1>5, <2>1, RoomOfLoss
  <2> QED BY <1>4, <2>2 DEF Pays
<1>6. CASE ~ (u = x /\ w \in LowWorkers(u, f))
  <2>1. LowWorkers(u, f)' = LowWorkers(u, f)
    BY <1>3, <1>6
  <2>2. \A q \in Request : Stays(q, u, f)
    BY <1>1 DEF Stays
  <2>3. webCalls <= webCalls'
    BY <1>1
  <2>4. Room(u, f) <= Room(u, f)'
    BY <2>1, <2>2, <2>3, RoomOfStep
  <2> QED BY <1>4, <2>4 DEF Pays
<1> QED BY <1>5, <1>6

\* A fill ends: its sum goes from the fill into the cache.
LEMMA PaysStoreAndDecide ==
  ASSUME TypeInv, TypeInv', NEW r \in Request, StoreAndDecide(r), NEW u \in User,
         NEW f \in Window
  PROVE  Pays(u, f)
<1>1. /\ pc[r] = "decide" /\ now' = now /\ logs' = logs
      /\ webCalls' = webCalls /\ webCalls \in Nat
  BY DEF StoreAndDecide, TypeInv
<1>2. PICK w \in Worker : w = WorkerOf(r) /\ worker[r] = {w}
  BY <1>1, AtOneWorker
<1>3. PICK x \in User, s \in Sums : x = Owner[r] /\ s = sums[r]
  BY OwnersAreUsers DEF TypeInv
<1>4. PICK l \in {"calling", "idle"} :
        /\ Serve(w, r, l)
        /\ l = "calling" <=> WithinBudget(s)
  BY <1>2, <1>3 DEF StoreAndDecide, Decide
<1>5. /\ pc'[r] = l /\ worker'[r] = (IF l = "idle" THEN {} ELSE {w})
      /\ \A q \in Request \ {r} : pc'[q] = pc[q] /\ worker'[q] = worker[q]
  <2>1. l \in Location
    BY DEF Location
  <2> QED BY <1>4, <2>1, Served
<1>6. \A q \in Request \ {r} : sums'[q] = sums[q]
  BY DEF StoreAndDecide, TypeInv
<1>7. Store(w, x, s)
  BY <1>2, <1>3 DEF StoreAndDecide
<1>8. PICK e \in Entry :
        /\ e.day = s.day /\ e.week = s.week /\ e.month = s.month
        /\ CachesTyped'
        /\ cache'[w][x] = {e}
        /\ \A v \in Worker, y \in User : v # w \/ y # x => cache'[v][y] = cache[v][y]
  BY <1>7, EntryOfSums, Zenon
<1>9. e[f] = s[f] /\ s[f] \in Nat /\ Limit[f] \in Nat
  BY <1>8, Plan DEF Window, Sums
<1>10. Usage(u, f)' <= Usage(u, f)
  BY <1>1, UsageKept, UsageIsNat
<1>11. r \notin LowFills(u, f)' /\ r \notin CommittedLow(u, f) /\ r \notin Chats(u)'
  BY <1>1, <1>5, PastPlaces DEF LowFills, CommittedLow, Chats
<1>12. CASE x # u
  <2>1. LowWorkers(u, f)' = LowWorkers(u, f)
    BY <1>8, <1>12 DEF LowWorkers
  <2>2. Stays(r, u, f)
    BY <1>3, <1>12, Out, OutNext DEF Stays
  <2>3. \A q \in Request : Stays(q, u, f)
    BY <1>5, <1>6, <2>2 DEF Stays
  <2>4. webCalls <= webCalls'
    BY <1>1
  <2>5. Room(u, f) <= Room(u, f)'
    BY <2>1, <2>3, <2>4, RoomOfStep
  <2> QED BY <1>10, <2>5 DEF Pays
<1>13. CASE x = u /\ ~ (s[f] < Limit[f])
  <2>1. LowWorkers(u, f)' = LowWorkers(u, f) \ {w}
    BY <1>8, <1>9, <1>13 DEF LowWorkers
  <2>2. l = "idle"
    BY <1>4, <1>13, BudgetOfWindows
  <2>3. r \notin LowFills(u, f)
    BY <1>3, <1>13 DEF LowFills
  <2>4. CASE w \in LowWorkers(u, f)
    <3>1. \A q \in Request :
             \/ pc'[q] = pc[q] /\ worker'[q] = worker[q] /\ sums'[q] = sums[q]
             \/ /\ pc'[q] = "idle" /\ q \notin LowFills(u, f)
                /\ q \in CommittedLow(u, f) => worker[q] = {w}
      BY <1>5, <1>6, <1>11, <2>2, <2>3
    <3>2. Room(u, f) <= Room(u, f)'
      BY <1>1, <2>1, <2>4, <3>1, RoomOfLoss
    <3> QED BY <1>10, <3>2 DEF Pays
  <2>5. CASE w \notin LowWorkers(u, f)
    <3>1. LowWorkers(u, f)' = LowWorkers(u, f)
      BY <2>1, <2>5
    <3>2. r \notin CallsHigh(u, f)'
      BY <1>5, <2>2 DEF CallsHigh
    <3>3. Stays(r, u, f)
      BY <1>11, <2>3, <3>2 DEF Stays
    <3>4. \A q \in Request : Stays(q, u, f)
      BY <1>5, <1>6, <3>3 DEF Stays
    <3>5. webCalls <= webCalls'
      BY <1>1
    <3>6. Room(u, f) <= Room(u, f)'
      BY <3>1, <3>4, <3>5, RoomOfStep
    <3> QED BY <1>10, <3>6 DEF Pays
  <2> QED BY <2>4, <2>5
<1>14. CASE x = u /\ s[f] < Limit[f]
  <2>1. LowWorkers(u, f)' = LowWorkers(u, f) \cup {w}
    BY <1>8, <1>9, <1>14 DEF LowWorkers
  <2>2. r \in LowFills(u, f)
    BY <1>1, <1>3, <1>14, PastPlaces DEF LowFills, UserRequests
  <2>3. r \notin CallsHigh(u, f)'
    BY <1>5, <2>1 DEF CallsHigh
  <2>4. \A q \in Request \ {r} : pc'[q] = pc[q] /\ worker'[q] = worker[q] /\ sums'[q] = sums[q]
    BY <1>5, <1>6
  <2>5. LowFills(u, f)' = LowFills(u, f) \ {r}
    <3>1. ASSUME NEW q \in Request \ {r} PROVE q \in LowFills(u, f)' <=> q \in LowFills(u, f)
      BY <2>4 DEF LowFills, UserRequests
    <3>2. PICK A, D : A = LowFills(u, f) /\ D = LowFills(u, f)'
      OBVIOUS
    <3>3. A \subseteq Request /\ D \subseteq Request /\ r \notin D
      BY <1>11, <3>2, OfRequests, Zenon
    <3>4. \A q \in Request \ {r} : q \in D <=> q \in A
      BY <3>1, <3>2, Zenon
    <3>5. D = A \ {r}
      BY <3>3, <3>4
    <3> QED BY <3>2, <3>5, Zenon
  <2>6. CommittedLow(u, f) \subseteq CommittedLow(u, f)'
    <3> SUFFICES ASSUME NEW q \in CommittedLow(u, f) PROVE q \in CommittedLow(u, f)'
      OBVIOUS
    <3>1. q \in Request \ {r}
      BY <1>11, OfRequests
    <3> QED BY <2>1, <2>4, <3>1 DEF CommittedLow, UserRequests
  <2>7. CallsHigh(u, f)' \subseteq CallsHigh(u, f)
    <3> SUFFICES ASSUME NEW q \in CallsHigh(u, f)' PROVE q \in CallsHigh(u, f)
      OBVIOUS
    <3>1. q \in Request \ {r}
      BY <2>3, OfRequests
    <3> QED BY <2>1, <2>4, <3>1 DEF CallsHigh, UserRequests
  <2>8. Chats(u)' \subseteq Chats(u)
    <3> SUFFICES ASSUME NEW q \in Chats(u)' PROVE q \in Chats(u)
      OBVIOUS
    <3>1. q \in Request \ {r}
      BY <1>11, OfRequests
    <3> QED BY <2>4, <3>1 DEF Chats, UserRequests
  <2>9. PICK R, LW, LF, CL, CH, CT, LW2, LF2, CL2, CH2, CT2 :
          /\ R = UserRequests(u) /\ LW = LowWorkers(u, f) /\ LF = LowFills(u, f)
          /\ CL = CommittedLow(u, f) /\ CH = CallsHigh(u, f) /\ CT = Chats(u)
          /\ LW2 = LowWorkers(u, f)' /\ LF2 = LowFills(u, f)'
          /\ CL2 = CommittedLow(u, f)' /\ CH2 = CallsHigh(u, f)' /\ CT2 = Chats(u)'
    OBVIOUS
  <2>10. Shape(R, LW, LF, CL, CH, CT)
    BY <2>9, ShapeNow, Zenon
  <2>11. Shape(R, LW2, LF2, CL2, CH2, CT2)
    <3>1. Shape(UserRequests(u), LowWorkers(u, f)', LowFills(u, f)', CommittedLow(u, f)',
                CallsHigh(u, f)', Chats(u)')
      BY ShapeNext
    <3> QED BY <2>9, <3>1, Zenon
  <2>12. RoomOf(R, LW, LF, CL, CH, CT, webCalls) <= RoomOf(R, LW2, LF2, CL2, CH2, CT2, webCalls)
    <3>1. r \in LF /\ LF2 = LF \ {r} /\ LW2 = LW \cup {w}
      BY <2>1, <2>2, <2>5, <2>9, Zenon
    <3>2. CL \subseteq CL2 /\ CH2 \subseteq CH /\ CT2 \subseteq CT
      BY <2>6, <2>7, <2>8, <2>9, Zenon
    <3> QED BY <1>1, <2>10, <2>11, <3>1, <3>2, RoomOfStore
  <2>13. Room(u, f) = RoomOf(R, LW, LF, CL, CH, CT, webCalls)
    BY <2>9, RoomNow, Zenon
  <2>14. Room(u, f)' = RoomOf(R, LW2, LF2, CL2, CH2, CT2, webCalls)
    <3>1. Room(u, f)' = RoomOf(UserRequests(u), LowWorkers(u, f)', LowFills(u, f)',
                                CommittedLow(u, f)', CallsHigh(u, f)', Chats(u)', webCalls')
      BY RoomNext
    <3> QED BY <1>1, <2>9, <3>1, Zenon
  <2>15. Room(u, f) <= Room(u, f)'
    BY <2>12, <2>13, <2>14, Zenon
  <2> QED BY <1>10, <2>15 DEF Pays
<1> QED BY <1>12, <1>13, <1>14

\* Keys, the purge and the clock.
LEMMA PaysOthers ==
  ASSUME TypeInv, TypeInv',
         \/ \E k \in Key : CreateKey(k) \/ ExpireKey(k) \/ RevokeKey(k)
         \/ Purge \/ Tick \/ UNCHANGED vars,
         NEW u \in User, NEW f \in Window
  PROVE  Pays(u, f)
<1>1. /\ pc' = pc /\ worker' = worker /\ sums' = sums /\ cache' = cache
      /\ webCalls' = webCalls /\ webCalls \in Nat
  BY DEF CreateKey, ExpireKey, RevokeKey, Purge, Tick, vars, TypeInv
<1>2. LowWorkers(u, f)' = LowWorkers(u, f)
  BY <1>1, SameLowWorkers
<1>3. \A q \in Request : Stays(q, u, f)
  BY <1>1 DEF Stays
<1>4. webCalls <= webCalls'
  BY <1>1
<1>5. Room(u, f) <= Room(u, f)'
  BY <1>2, <1>3, <1>4, RoomOfStep
<1>6. Usage(u, f)' <= Usage(u, f)
  <2>1. CASE Purge
    BY <2>1, PurgeKeepsWindows, UsageIsNat
  <2>2. CASE Tick
    BY <2>2, TickLowers
  <2>3. ASSUME NEW k \in Key, RevokeKey(k) PROVE Usage(u, f)' <= Usage(u, f)
    BY <2>3, RevokeLowers
  <2>4. CASE UNCHANGED vars \/ \E k \in Key : CreateKey(k) \/ ExpireKey(k)
    <3>1. logs' = logs /\ now' = now
      BY <2>4 DEF CreateKey, ExpireKey, vars
    <3> QED BY <3>1, UsageKept, UsageIsNat
  <2> QED BY <2>1, <2>2, <2>3, <2>4
<1> QED BY <1>5, <1>6 DEF Pays

-----------------------------------------------------------------------------
\* The bound.

LEMMA StepPays ==
  ASSUME TypeInv, TypeInv', [Next]_vars, NEW u \in User, NEW f \in Window
  PROVE  \/ Pays(u, f)
         \/ Usage(u, f)' <= Usage(u, f) + MaxTokens /\ Room(u, f) + 1 <= Room(u, f)'
<1>1. ASSUME NEW r \in Request,
             \/ ReadSum(r, "daily", "weekly", "day", Day)
             \/ ReadSum(r, "weekly", "monthly", "week", Week)
             \/ ReadSum(r, "monthly", "decide", "month", Month)
      PROVE  Pays(u, f)
  <2>1. /\ "weekly" \in Location /\ "monthly" \in Location /\ "decide" \in Location
        /\ "day" \in Window /\ "week" \in Window /\ "month" \in Window
        /\ Span["day"] = Day /\ Span["week"] = Week /\ Span["month"] = Month
    BY DEF Location, Window, Span
  <2>2. CASE ReadSum(r, "daily", "weekly", "day", Day)
    BY <2>1, <2>2, PaysReadSum
  <2>3. CASE ReadSum(r, "weekly", "monthly", "week", Week)
    BY <2>1, <2>3, PaysReadSum
  <2>4. CASE ReadSum(r, "monthly", "decide", "month", Month)
    BY <2>1, <2>4, PaysReadSum
  <2> QED BY <1>1, <2>2, <2>3, <2>4
<1> QED
  BY <1>1, StepCases, PaysCheckCached, PaysStartFill, PaysStoreAndDecide, PaysWebCall,
     PaysAnswered, CommitMakesRoom, PaysInvalidate, PaysEvict, PaysOthers, Zenon

\* Only a web chat call brings a chat.
LEMMA ChatsOfStep ==
  ASSUME TypeInv, TypeInv', [Next]_vars, NEW u \in User
  PROVE  \/ Chats(u)' \subseteq Chats(u) /\ webCalls' = webCalls
         \/ webCalls' = webCalls + 1 /\ \E r \in Request : Chats(u)' \subseteq Chats(u) \cup {r}
<1>1. ASSUME NEW r \in Request, webCalls' = webCalls, NEW l \in Location,
             \/ \E w \in Worker : Serve(w, r, l)
             \/ pc[r] # "idle" /\ Goto(r, l),
             l \in {"chatting", "chatLogging"} => pc[r] \in {"chatting", "chatLogging"}
      PROVE  Chats(u)' \subseteq Chats(u) /\ webCalls' = webCalls
  <2>1. pc'[r] = l /\ \A q \in Request \ {r} : pc'[q] = pc[q]
    <3>1. CASE pc[r] # "idle" /\ Goto(r, l)
      BY <3>1, Gone
    <3>2. CASE \E w \in Worker : Serve(w, r, l)
      BY <3>2, Served
    <3> QED BY <1>1, <3>1, <3>2
  <2> QED BY <1>1, <2>1 DEF Chats, UserRequests
<1>2. ASSUME NEW r \in Request,
             \/ CheckCached(r) \/ StartFill(r) \/ StoreAndDecide(r)
             \/ ReadSum(r, "daily", "weekly", "day", Day)
             \/ ReadSum(r, "weekly", "monthly", "week", Week)
             \/ ReadSum(r, "monthly", "decide", "month", Month)
             \/ FindKey(r) \/ EndUnlogged(r) \/ CommitLog(r) \/ Invalidate(r)
      PROVE  Chats(u)' \subseteq Chats(u) /\ webCalls' = webCalls
  <2>1. webCalls' = webCalls
    BY <1>2 DEF CheckCached, StartFill, StoreAndDecide, ReadSum, FindKey, EndUnlogged, CommitLog,
                Invalidate
  <2>2. CASE CheckCached(r) \/ StartFill(r) \/ StoreAndDecide(r)
    <3>1. CASE StoreAndDecide(r)
      <4>1. pc[r] # "idle" /\ WorkerOf(r) \in Worker
        BY <3>1, AtOneWorker DEF StoreAndDecide
      <4>2. \E w \in Worker, l \in {"calling", "idle"} : Serve(w, r, l)
        BY <3>1, <4>1 DEF StoreAndDecide, Decide
      <4> QED BY <1>1, <2>1, <4>2 DEF Location
    <3>2. CASE CheckCached(r) \/ StartFill(r)
      <4>1. \E w \in Worker, l \in {"calling", "idle", "daily"} : Serve(w, r, l)
        BY <3>2 DEF CheckCached, StartFill, Decide
      <4> QED BY <1>1, <2>1, <4>1 DEF Location
    <3> QED BY <2>2, <3>1, <3>2
  <2>3. CASE \/ ReadSum(r, "daily", "weekly", "day", Day)
             \/ ReadSum(r, "weekly", "monthly", "week", Week)
             \/ ReadSum(r, "monthly", "decide", "month", Month)
    <3>1. pc[r] # "idle" /\ \E l \in {"weekly", "monthly", "decide"} : Goto(r, l)
      BY <2>3 DEF ReadSum
    <3> QED BY <1>1, <2>1, <3>1 DEF Location
  <2>4. CASE FindKey(r) \/ EndUnlogged(r)
    <3>1. /\ pc[r] # "idle"
          /\ \E l \in {"idle", "logging", "chatLogging"} :
               Goto(r, l) /\ (l = "chatLogging" => pc[r] = "chatting")
      BY <2>4 DEF FindKey, EndUnlogged
    <3> QED BY <1>1, <2>1, <3>1 DEF Location
  <2>5. CASE CommitLog(r) \/ Invalidate(r)
    <3>1. pc[r] # "idle" /\ \E l \in {"idle", "invalidate"} : Goto(r, l)
      BY <2>5 DEF CommitLog, Invalidate
    <3> QED BY <1>1, <2>1, <3>1 DEF Location
  <2> QED BY <1>2, <2>2, <2>3, <2>4, <2>5
<1>3. ASSUME NEW r \in Request, WebCall(r)
      PROVE  webCalls' = webCalls + 1 /\ \E q \in Request : Chats(u)' \subseteq Chats(u) \cup {q}
  <2>1. "day" \in Window
    BY DEF Window
  <2>2. Chats(u)' \subseteq Chats(u) \cup {r}
    BY <1>3, <2>1, PaysWebCall
  <2> QED BY <1>3, <2>2 DEF WebCall
<1>4. ASSUME pc' = pc /\ webCalls' = webCalls
      PROVE  Chats(u)' \subseteq Chats(u) /\ webCalls' = webCalls
  BY <1>4 DEF Chats, UserRequests
<1>5. ASSUME \/ \E w \in Worker, x \in User : Evict(w, x)
             \/ \E k \in Key : CreateKey(k) \/ ExpireKey(k) \/ RevokeKey(k)
             \/ Purge \/ Tick \/ UNCHANGED vars
      PROVE  pc' = pc /\ webCalls' = webCalls
  BY <1>5 DEF Evict, CreateKey, ExpireKey, RevokeKey, Purge, Tick, vars
<1> QED BY <1>2, <1>3, <1>4, <1>5, StepCases, Zenon

LEMMA ChatsCountedStep ==
  ASSUME TypeInv, TypeInv', ChatsCounted, [Next]_vars PROVE ChatsCounted'
<1> SUFFICES ASSUME NEW u \in User PROVE Cardinality(Chats(u)') <= webCalls'
  BY DEF ChatsCounted
<1>1. IsFiniteSet(Chats(u)) /\ Cardinality(Chats(u)) \in Nat /\ Cardinality(Chats(u)) <= webCalls
      /\ webCalls \in Nat
  <2>1. Chats(u) \subseteq Request
    BY DEF Chats, UserRequests
  <2>2. IsFiniteSet(Chats(u)) /\ Cardinality(Chats(u)) \in Nat
    BY <2>1, FiniteAssumption, CountPart
  <2> QED BY <2>2 DEF ChatsCounted, TypeInv
<1>2. PICK A, B : A = Chats(u) /\ B = Chats(u)'
  OBVIOUS
<1>3. \/ B \subseteq A /\ webCalls' = webCalls
      \/ webCalls' = webCalls + 1 /\ \E r \in Request : B \subseteq A \cup {r}
  <2>1. \/ Chats(u)' \subseteq Chats(u) /\ webCalls' = webCalls
        \/ webCalls' = webCalls + 1 /\ \E r \in Request : Chats(u)' \subseteq Chats(u) \cup {r}
    BY ChatsOfStep
  <2> QED BY <1>2, <2>1, Zenon
<1>4. IsFiniteSet(A) /\ Cardinality(A) \in Nat /\ Cardinality(A) <= webCalls /\ webCalls \in Nat
  BY <1>1, <1>2, Zenon
<1>5. Cardinality(B) <= webCalls'
  <2>1. CASE B \subseteq A /\ webCalls' = webCalls
    <3>1. Cardinality(B) <= Cardinality(A) /\ Cardinality(B) \in Nat
      BY <1>4, <2>1, CountPart
    <3> QED BY <1>4, <2>1, <3>1
  <2>2. ASSUME webCalls' = webCalls + 1, NEW r \in Request, B \subseteq A \cup {r}
        PROVE  Cardinality(B) <= webCalls'
    <3>1. PICK D : D = A \cup {r}
      OBVIOUS
    <3>2. IsFiniteSet(D) /\ Cardinality(D) = IF r \in A THEN Cardinality(A) ELSE Cardinality(A) + 1
      BY <1>4, <3>1, FS_AddElement
    <3>3. Cardinality(B) <= Cardinality(D) /\ Cardinality(B) \in Nat
      BY <2>2, <3>1, <3>2, CountPart
    <3> QED BY <1>4, <2>2, <3>2, <3>3
  <2> QED BY <1>3, <2>1, <2>2
<1> QED BY <1>2, <1>5, Zenon

LEMMA RoomLeftStep ==
  ASSUME TypeInv, TypeInv', ChatsCounted, ChatsCounted', RoomLeft, [Next]_vars PROVE RoomLeft'
<1> SUFFICES ASSUME NEW u \in User, NEW f \in Window
             PROVE  Usage(u, f)' <= Limit[f] - 1 + Room(u, f)' * MaxTokens
  BY DEF RoomLeft
<1>1. Usage(u, f) \in Nat /\ Usage(u, f)' \in Nat
  BY UsageIsNat, NextUsageIsNat
<1>2. Room(u, f) \in Nat /\ Room(u, f)' \in Nat
  BY RoomIsNatNow, RoomIsNatNext
<1>3. PICK s \in Nat, t \in Nat, d \in Nat, e \in Nat, l \in Nat \ {0}, m \in Nat \ {0} :
        /\ s = Usage(u, f) /\ t = Usage(u, f)' /\ d = Room(u, f) /\ e = Room(u, f)'
        /\ l = Limit[f] /\ m = MaxTokens
  BY <1>1, <1>2, Plan
<1>4. s <= l - 1 + d * m
  <2>1. Usage(u, f) <= Limit[f] - 1 + Room(u, f) * MaxTokens
    BY DEF RoomLeft
  <2> QED BY <1>3, <2>1, Zenon
<1>5. (t <= s /\ (s >= l => d <= e)) \/ (t <= s + m /\ d + 1 <= e)
  <2>1. \/ Pays(u, f)
        \/ Usage(u, f)' <= Usage(u, f) + MaxTokens /\ Room(u, f) + 1 <= Room(u, f)'
    BY StepPays
  <2>2. CASE Pays(u, f)
    <3>1. Usage(u, f)' <= Usage(u, f) /\ (Usage(u, f) >= Limit[f] => Room(u, f) <= Room(u, f)')
      BY <2>2 DEF Pays
    <3> QED BY <1>3, <3>1, Zenon
  <2>3. CASE Usage(u, f)' <= Usage(u, f) + MaxTokens /\ Room(u, f) + 1 <= Room(u, f)'
    BY <1>3, <2>3, Zenon
  <2> QED BY <2>1, <2>2, <2>3
<1>6. d * m \in Nat /\ e * m \in Nat /\ (d <= e => d * m <= e * m)
      /\ (d + 1 <= e => d * m + m <= e * m)
  <2>1. d <= e => (e - d) * m \in Nat /\ e * m = d * m + (e - d) * m
    OBVIOUS
  <2>2. d + 1 <= e => (e - d - 1) * m \in Nat /\ e * m = d * m + m + (e - d - 1) * m
    OBVIOUS
  <2>3. d * m \in Nat /\ e * m \in Nat
    OBVIOUS
  <2> QED BY <2>1, <2>2, <2>3
<1>7. t <= l - 1 + e * m
  <2>1. CASE s < l /\ t <= s
    BY <1>6, <2>1
  <2>2. CASE s >= l /\ t <= s /\ d <= e
    BY <1>4, <1>6, <2>2
  <2>3. CASE t <= s + m /\ d + 1 <= e
    BY <1>4, <1>6, <2>3
  <2> QED BY <1>5, <2>1, <2>2, <2>3
<1> QED BY <1>3, <1>7, Zenon

LEMMA BudgetInvInit == Init => BudgetInv
<1> SUFFICES ASSUME Init PROVE BudgetInv
  OBVIOUS
<1>1. TypeInv
  BY TypeInvInit
<1>2. ChatsCounted
  <2> SUFFICES ASSUME NEW u \in User PROVE Cardinality(Chats(u)) <= webCalls
    BY DEF ChatsCounted
  <2>1. Chats(u) = {} /\ webCalls = 0
    BY DEF Chats, UserRequests, Init
  <2> QED BY <2>1, FS_EmptySet
<1>3. ASSUME NEW u \in User, NEW f \in Window
      PROVE  Usage(u, f) <= Limit[f] - 1 + Room(u, f) * MaxTokens
  <2>1. Usage(u, f) = 0
    <3> DEFINE S == RowsSince(u, now - Span[f])
    <3>1. S \subseteq Key \X Time
      BY RowsFinite
    <3>2. TokensOf(logs, S) = {}
      <4>1. \A kt \in S : logs[kt] = 0
        BY <3>1 DEF Init
      <4>2. \A kt \in S : {kt} \X (1..logs[kt]) = {}
        BY <4>1
      <4> HIDE DEF S
      <4> QED BY <4>2 DEF TokensOf
    <3> HIDE DEF S
    <3>3. Cardinality(TokensOf(logs, S)) = 0
      BY <3>2, FS_EmptySet
    <3> QED BY <3>3, UsageIsOfTokens DEF S
  <2>2. PICK l \in Nat \ {0}, d \in Nat, m \in Nat :
          l = Limit[f] /\ d = Room(u, f) /\ m = MaxTokens
    BY <1>1, <1>2, Plan, RoomIsNatNow
  <2>3. 0 <= l - 1 + d * m
    <3>1. d * m \in Nat
      OBVIOUS
    <3> QED BY <3>1
  <2> QED BY <2>1, <2>2, <2>3, Zenon
<1> QED BY <1>2, <1>3 DEF BudgetInv, RoomLeft

LEMMA BudgetInvStep == TypeInv /\ BudgetInv /\ [Next]_vars => BudgetInv'
<1> SUFFICES ASSUME TypeInv, BudgetInv, [Next]_vars PROVE BudgetInv'
  OBVIOUS
<1>1. TypeInv'
  BY TypeInvStep
<1>2. ChatsCounted'
  BY <1>1, ChatsCountedStep DEF BudgetInv
<1>3. RoomLeft'
  BY <1>1, <1>2, RoomLeftStep DEF BudgetInv
<1> QED BY <1>2, <1>3 DEF BudgetInv

LEMMA BudgetInvImplies == TypeInv /\ BudgetInv => OvershootBounded
<1> SUFFICES ASSUME TypeInv, BudgetInv, NEW u \in User
             PROVE  LET slack == Slack(Cardinality(UserRequests(u)), Cardinality(Worker))
                        extra == (slack + webCalls) * MaxTokens
                    IN
                    /\ SumSince(u, now - Day)   <= DailyLimit - 1 + extra
                    /\ SumSince(u, now - Week)  <= Weekly - 1 + extra
                    /\ SumSince(u, now - Month) <= Monthly - 1 + extra
  BY DEF OvershootBounded
<1> DEFINE slack == Slack(Cardinality(UserRequests(u)), Cardinality(Worker))
           extra == (slack + webCalls) * MaxTokens
<1>1. ASSUME NEW f \in Window PROVE Usage(u, f) <= Limit[f] - 1 + extra
  <2>1. Room(u, f) <= slack + webCalls /\ slack \in Int
    <3>1. webCalls \in Nat
      BY DEF TypeInv
    <3>2. Room(u, f) <= Slack(Cardinality(UserRequests(u)), Cardinality(Worker)) + webCalls
      BY <3>1, ShapeNow, RoomAtMost, RoomNow
    <3>3. Cardinality(UserRequests(u)) \in Nat /\ Cardinality(Worker) \in Nat
      BY ShapeNow, Counts
    <3>4. PICK n \in Nat, k \in Nat : n = Cardinality(UserRequests(u)) /\ k = Cardinality(Worker)
      BY <3>3
    <3>5. Slack(n, k) \in Int
      <4>1. Tri(n) \in Int /\ (k - 1) * n \in Int
        BY TriTwice
      <4> QED BY <4>1 DEF Slack, Tri
    <3> QED BY <3>2, <3>4, <3>5, Zenon
  <2>2. Usage(u, f) \in Nat /\ Room(u, f) \in Nat
    BY UsageIsNat, RoomIsNatNow DEF BudgetInv
  <2>3. PICK s \in Nat, d \in Nat, b \in Int, m \in Nat, l \in Nat :
          /\ s = Usage(u, f) /\ d = Room(u, f) /\ b = slack + webCalls /\ m = MaxTokens
          /\ l = Limit[f]
    <3>1. slack + webCalls \in Int
      BY <2>1 DEF TypeInv
    <3> HIDE DEF slack
    <3> QED BY <2>2, <3>1, Plan
  <2>4. s <= l - 1 + d * m
    <3>1. Usage(u, f) <= Limit[f] - 1 + Room(u, f) * MaxTokens
      BY DEF BudgetInv, RoomLeft
    <3> QED BY <2>3, <3>1, Zenon
  <2>5. d <= b
    BY <2>1, <2>3, Zenon
  <2>6. d * m <= b * m
    <3>1. (b - d) * m \in Nat /\ b * m = d * m + (b - d) * m /\ d * m \in Int
      BY <2>5
    <3> QED BY <3>1
  <2>7. s <= l - 1 + b * m
    BY <2>4, <2>6
  <2> QED BY <2>3, <2>7, Zenon
<1> HIDE DEF slack
<1>2. "day" \in Window /\ "week" \in Window /\ "month" \in Window
  BY DEF Window
<1>3. /\ Usage(u, "day") <= Limit["day"] - 1 + extra
      /\ Usage(u, "week") <= Limit["week"] - 1 + extra
      /\ Usage(u, "month") <= Limit["month"] - 1 + extra
  BY <1>1, <1>2
<1> QED BY <1>3, Zenon DEF Usage, Limit, Span, slack

\* n connections to k workers pass a limit by at most Slack(n, k) calls, apart
\* from web calls, whatever the order of checks, commits and evictions.
THEOREM OvershootAlwaysBounded == Spec => []OvershootBounded
<1>1. Init => TypeInv /\ BudgetInv
  BY TypeInvInit, BudgetInvInit
<1>2. TypeInv /\ BudgetInv /\ [Next]_vars => (TypeInv /\ BudgetInv)'
  BY TypeInvStep, BudgetInvStep
<1> QED BY <1>1, <1>2, BudgetInvImplies, PTL DEF Spec
=============================================================================
