---------------------------- MODULE UsageBudget ----------------------------
(***************************************************************************)
(* The token budget of backend/proxy/router.py for users whose plan is     *)
(* metered: require_access compares three sliding sums of UsageLog rows    *)
(* with the plan, through _usage_cache; _log_usage adds a row when a call  *)
(* ends and drops the cached sums.  Every await of a query is a point      *)
(* where other requests run, so a fill of the cache is a read step per     *)
(* sum and a store step, and a log is a lookup, a commit and an            *)
(* invalidation.  Rows belong to API keys and go when their key is         *)
(* revoked; a daily job purges old rows.  chat/router.py has a _log_usage   *)
(* of its own, which does not know the cache.                              *)
(*                                                                         *)
(* deploy/backend.Dockerfile starts two worker processes.  Each has a      *)
(* _usage_cache of its own; they share the database.  A call is served by  *)
(* one of them.                                                            *)
(*                                                                         *)
(* A tick of the clock stands for a day.                                   *)
(***************************************************************************)
EXTENDS Integers, FiniteSets

CONSTANTS User, Key, Request,
          Worker,        \* the uvicorn worker processes
          KeyOwner,      \* KeyOwner[k]: the user k belongs to
          Owner,         \* Owner[r]: the user who calls on connection r
          Weekly,        \* tier["weekly"] or free_weekly_tokens
          Monthly,       \* tier["monthly"] or free_monthly_tokens
          Day, Week, Month,  \* the windows, in ticks
          Retention,     \* DEFAULT_RETENTION_DAYS, in ticks
          MaxTokens,     \* bound: tokens of one call
          MaxTime,       \* bound: the clock stops here
          MaxWebCalls    \* bound: web chat calls

ASSUME OwnerAssumption ==
  KeyOwner \in [Key -> User] /\ Owner \in [Request -> User]
ASSUME WorkerAssumption == IsFiniteSet(Worker) /\ Worker # {}
ASSUME FiniteAssumption == IsFiniteSet(Key) /\ IsFiniteSet(Request)
ASSUME BudgetAssumption ==
  {Weekly, Monthly, Day, Week, Month, Retention, MaxTokens} \subseteq Nat \ {0}
ASSUME RetentionAssumption ==
  Day <= Week /\ Week <= Month /\ Month < Retention
ASSUME BoundAssumption == MaxTime \in Nat /\ MaxWebCalls \in Nat

VARIABLES now,
          status,  \* status[k], see KeyStatus
          logs,    \* logs[<<k, t>>]: tokens of the UsageLog rows of k made at t
          cache,   \* _usage_cache: cache[w][u] is empty or holds one entry
          pc,      \* where each request is
          worker,  \* worker[r]: who serves the call of r, {} or {w}
          start,   \* start[r]: the `now` captured by _tier_usage
          sums,    \* sums[r]: the sums read so far
          picked,  \* picked[r]: what _find_api_key returned, {} or {k}
          webCalls,  \* count for the bound
          floor    \* history: what a new check must at least see, see below

vars == <<now, status, logs, cache, pc, worker, start, sums, picked,
          webCalls, floor>>

\* "none": not created yet; "inactive": expired; "revoked": deleted for good.
KeyStatus == {"none", "active", "inactive", "revoked"}
Time == 0..MaxTime
\* "calling" and "logging" in proxy/router.py; "chatting" and "chatLogging"
\* in chat/router.py.
Location == {"idle", "daily", "weekly", "monthly", "decide", "calling",
             "logging", "invalidate", "chatting", "chatLogging"}
NoSums == [day |-> 0, week |-> 0, month |-> 0]

\* Where rows of u with created_at >= since are.
RowsSince(u, since) ==
  {kt \in Key \X Time : KeyOwner[kt[1]] = u /\ kt[2] >= since}

\* sum_since: the tokens of these rows, counted one by one.
SumSince(u, since) ==
  Cardinality(UNION {{kt} \X (1..logs[kt]) : kt \in RowsSince(u, since)})

\* (weekly + 6) // 7
DailyLimit == (Weekly + 6) \div 7

\* Mutant of WithinBudget: > for >= in the refusals.
WithinBudgetInclusive(s) ==
  s.week <= Weekly /\ s.day <= DailyLimit /\ s.month <= Monthly

\* The three comparisons of require_access.
WithinBudget(s) ==
  s.week < Weekly /\ s.day < DailyLimit /\ s.month < Monthly

\* _usage_cache.get: an entry lives 45 s, so it may be seen in the tick in
\* which it was stored and, for a while, in the next (Evict ends it earlier).
Cached(w, u) == {e \in cache[w][u] : now <= e.at + 1}

Init ==
  /\ now = 0
  /\ status \in [Key -> {"none", "active"}]
  /\ logs = [kt \in Key \X Time |-> 0]
  /\ cache = [w \in Worker |-> [u \in User |-> {}]]
  /\ pc = [r \in Request |-> "idle"]
  /\ worker = [r \in Request |-> {}]
  /\ start = [r \in Request |-> 0]
  /\ sums = [r \in Request |-> NoSums]
  /\ picked = [r \in Request |-> {}]
  /\ webCalls = 0
  /\ floor = [w \in Worker |-> [u \in User |-> 0]]

\* Mutant of Store: the entry is put beside an older one.
StoreBeside(w, u, s) ==
  cache' = [cache EXCEPT ![w][u] = @ \cup
              {[day |-> s.day, week |-> s.week, month |-> s.month, at |-> now]}]

\* _usage_cache[user_id] = (daily, weekly, monthly)
Store(w, u, s) ==
  cache' = [cache EXCEPT ![w][u] =
              {[day |-> s.day, week |-> s.week, month |-> s.month, at |-> now]}]

\* Mutant of DropCache: pop is forgotten.
DropNothing(w, u) == cache' = cache

\* _usage_cache.pop(user_id, None)
DropCache(w, u) == cache' = [cache EXCEPT ![w][u] = {}]

\* The worker that serves r's call.
WorkerOf(r) == CHOOSE w \in worker[r] : TRUE

\* r's call, served by w, goes on at l.
Serve(w, r, l) ==
  /\ pc' = [pc EXCEPT ![r] = l]
  /\ worker' = [worker EXCEPT ![r] = IF l = "idle" THEN {} ELSE {w}]

Goto(r, l) == Serve(WorkerOf(r), r, l)

\* What require_access does with a triple of sums: admit or answer 403.
Decide(w, r, s) == Serve(w, r, IF WithinBudget(s) THEN "calling" ELSE "idle")

-----------------------------------------------------------------------------
\* require_access on a cache hit: no await before the decision.
CheckCached(r) ==
  /\ pc[r] = "idle"
  /\ \E w \in Worker : \E e \in Cached(w, Owner[r]) : Decide(w, r, e)
  /\ UNCHANGED <<now, status, logs, cache, start, sums, picked, webCalls,
                 floor>>

\* On a miss _tier_usage takes the time and starts to query.
StartFill(r) ==
  /\ pc[r] = "idle"
  /\ \E w \in Worker : Cached(w, Owner[r]) = {} /\ Serve(w, r, "daily")
  /\ start' = [start EXCEPT ![r] = now]
  /\ UNCHANGED <<now, status, logs, cache, sums, picked, webCalls, floor>>

ReadSum(r, at, next, field, window) ==
  /\ pc[r] = at
  /\ sums' = [sums EXCEPT ![r][field] = SumSince(Owner[r], start[r] - window)]
  /\ Goto(r, next)
  /\ UNCHANGED <<now, status, logs, cache, start, picked, webCalls, floor>>

ReadDaily(r)   == ReadSum(r, "daily", "weekly", "day", Day)
ReadWeekly(r)  == ReadSum(r, "weekly", "monthly", "week", Week)
ReadMonthly(r) == ReadSum(r, "monthly", "decide", "month", Month)

\* The last query has returned: store the triple and decide.
StoreAndDecide(r) ==
  /\ pc[r] = "decide"
  /\ Store(WorkerOf(r), Owner[r], sums[r])
  /\ Decide(WorkerOf(r), r, sums[r])
  /\ start' = [start EXCEPT ![r] = 0]
  /\ sums' = [sums EXCEPT ![r] = NoSums]
  /\ UNCHANGED <<now, status, logs, picked, webCalls, floor>>

\* web_chat_completions asks for a session only: no budget check.  Nor does
\* chat_stream.
WebCall(r) ==
  /\ pc[r] = "idle"
  /\ webCalls < MaxWebCalls
  /\ webCalls' = webCalls + 1
  /\ \E w \in Worker, l \in {"calling", "chatting"} : Serve(w, r, l)
  /\ UNCHANGED <<now, status, logs, cache, start, sums, picked, floor>>

-----------------------------------------------------------------------------
\* The provider has answered; _log_usage looks for any active key of the
\* user.  Without one nothing is logged.
FindKey(r) ==
  /\ pc[r] \in {"calling", "chatting"}
  /\ LET ks == {k \in Key : KeyOwner[k] = Owner[r] /\ status[k] = "active"} IN
     IF ks = {}
     THEN Goto(r, "idle") /\ UNCHANGED picked
     ELSE /\ \E k \in ks : picked' = [picked EXCEPT ![r] = {k}]
          /\ Goto(r, IF pc[r] = "calling" THEN "logging" ELSE "chatLogging")
  /\ UNCHANGED <<now, status, logs, cache, start, sums, webCalls, floor>>

\* The call failed upstream, or its client left and the cancelled stream
\* could not run _log_usage.
EndUnlogged(r) ==
  /\ pc[r] \in {"calling", "chatting"}
  /\ Goto(r, "idle")
  /\ UNCHANGED <<now, status, logs, cache, start, sums, picked, webCalls,
                 floor>>

\* The row is committed.  If the key has been revoked meanwhile the insert
\* breaks the foreign key and _log_usage ends in an exception.  The one of
\* chat/router.py stops here; the other goes on to drop the cached sums.
CommitLog(r) ==
  /\ pc[r] \in {"logging", "chatLogging"}
  /\ \E k \in picked[r] :
       IF status[k] = "revoked"
       THEN Goto(r, "idle") /\ UNCHANGED logs
       ELSE /\ \E n \in 1..MaxTokens :
                 logs' = [logs EXCEPT ![<<k, now>>] = @ + n]
            /\ Goto(r, IF pc[r] = "logging" THEN "invalidate" ELSE "idle")
  /\ picked' = [picked EXCEPT ![r] = {}]
  /\ UNCHANGED <<now, status, cache, start, sums, webCalls, floor>>

\* Requests of u at w that may hold sums older than the database.
Filling(w, u) ==
  {r \in Request : /\ Owner[r] = u /\ worker[r] = {w}
                   /\ pc[r] \in {"weekly", "monthly", "decide"}}

\* _invalidate_usage_cache.  If no fill is under way at this worker, nothing
\* older than the present rows is left there: later checks at it must see at
\* least these.
Invalidate(r) ==
  LET u == Owner[r]
      w == WorkerOf(r)
  IN
  /\ pc[r] = "invalidate"
  /\ DropCache(w, u)
  /\ Goto(r, "idle")
  /\ floor' = IF Filling(w, u) = {}
              THEN [floor EXCEPT ![w][u] = SumSince(u, now - Day)]
              ELSE floor
  /\ UNCHANGED <<now, status, logs, start, sums, picked, webCalls>>

-----------------------------------------------------------------------------
\* TTLCache(maxsize=2048, ttl=45): the entry's time is up, or the cache is full.
Evict(w, u) ==
  /\ cache[w][u] # {}
  /\ cache' = [cache EXCEPT ![w][u] = {}]
  /\ UNCHANGED <<now, status, logs, pc, worker, start, sums, picked, webCalls,
                 floor>>

CreateKey(k) ==
  /\ status[k] = "none"
  /\ status' = [status EXCEPT ![k] = "active"]
  /\ UNCHANGED <<now, logs, cache, pc, worker, start, sums, picked, webCalls, floor>>

\* get_api_key_by_prefix deactivates a key past its expiry date.
ExpireKey(k) ==
  /\ status[k] = "active"
  /\ status' = [status EXCEPT ![k] = "inactive"]
  /\ UNCHANGED <<now, logs, cache, pc, worker, start, sums, picked, webCalls, floor>>

\* revoke_api_key deletes the key, and UsageLog.api_key_id cascades.
RevokeKey(k) ==
  /\ status[k] \in {"active", "inactive"}
  /\ status' = [status EXCEPT ![k] = "revoked"]
  /\ logs' = [kt \in Key \X Time |-> IF kt[1] = k THEN 0 ELSE logs[kt]]
  /\ floor' = [w \in Worker |-> [floor[w] EXCEPT ![KeyOwner[k]] = 0]]
  /\ UNCHANGED <<now, cache, pc, worker, start, sums, picked, webCalls>>

\* Mutant of Purge: a retention of one week.
PurgeWeek ==
  /\ logs' = [kt \in Key \X Time |->
                IF kt[2] < now - Week THEN 0 ELSE logs[kt]]
  /\ UNCHANGED <<now, status, cache, pc, worker, start, sums, picked, webCalls,
                 floor>>

\* purge_older_than
Purge ==
  /\ logs' = [kt \in Key \X Time |->
                IF kt[2] < now - Retention THEN 0 ELSE logs[kt]]
  /\ UNCHANGED <<now, status, cache, pc, worker, start, sums, picked, webCalls,
                 floor>>

\* Time passes; old rows leave the windows.
Tick ==
  /\ now < MaxTime
  /\ now' = now + 1
  /\ floor' = [w \in Worker |-> [u \in User |-> 0]]
  /\ UNCHANGED <<status, logs, cache, pc, worker, start, sums, picked, webCalls>>

RequestStep(r) ==
  \/ CheckCached(r) \/ StartFill(r)
  \/ ReadDaily(r) \/ ReadWeekly(r) \/ ReadMonthly(r) \/ StoreAndDecide(r)
  \/ WebCall(r) \/ FindKey(r) \/ EndUnlogged(r) \/ CommitLog(r) \/ Invalidate(r)

Next ==
  \/ \E r \in Request : RequestStep(r)
  \/ \E w \in Worker, u \in User : Evict(w, u)
  \/ \E k \in Key : CreateKey(k) \/ ExpireKey(k) \/ RevokeKey(k)
  \/ Purge \/ Tick

Spec == Init /\ [][Next]_vars

-----------------------------------------------------------------------------
Sums == [day : Nat, week : Nat, month : Nat]

TypeOK ==
  /\ now \in Time
  /\ status \in [Key -> KeyStatus]
  /\ logs \in [Key \X Time -> Nat]
  /\ \A w \in Worker, u \in User :
       /\ Cardinality(cache[w][u]) <= 1
       /\ cache[w][u] \subseteq [day : Nat, week : Nat, month : Nat, at : Time]
  /\ pc \in [Request -> Location]
  /\ \A r \in Request : worker[r] \subseteq Worker
                        /\ (Cardinality(worker[r]) = IF pc[r] = "idle" THEN 0 ELSE 1)
  /\ start \in [Request -> Time]
  /\ sums \in [Request -> Sums]
  /\ picked \in [Request -> SUBSET Key]
  /\ webCalls \in 0..MaxWebCalls
  /\ floor \in [Worker -> [User -> Nat]]

\* Commit before invalidate: once a call's usage is committed and its
\* worker's cache dropped while no fill is under way there, no sum cached by
\* that worker misses the usage, until rows age out or are deleted with their
\* key.  (Usage logged by another worker or by chat/router.py is seen when the
\* cached sums expire.)
CacheSeesUsage ==
  \A w \in Worker, u \in User : \A e \in Cached(w, u) : e.day >= floor[w][u]

\* Checks precede the calls they admit and logs follow them, so concurrent
\* requests overshoot the budget.  Sums that miss the latest usage are left in
\* the caches of the other workers, each good for one more call of all n
\* connections; and fills that race with a log put such sums back, one by one.
\* All the same n connections to k workers overshoot by at most Slack calls,
\* apart from web calls.
Slack(n, k) == (k - 1) * n + (n * (n + 1)) \div 2

UserRequests(u) == {r \in Request : Owner[r] = u}

OvershootBounded ==
  \A u \in User :
    LET slack == Slack(Cardinality(UserRequests(u)), Cardinality(Worker))
        extra == (slack + webCalls) * MaxTokens
    IN
    /\ SumSince(u, now - Day)   <= DailyLimit - 1 + extra
    /\ SumSince(u, now - Week)  <= Weekly - 1 + extra
    /\ SumSince(u, now - Month) <= Monthly - 1 + extra

\* "pruning never removes data a live enforcement query could still need".
PurgeInvisible ==
  [][Purge => \A u \in User :
       SumSince(u, now - Month)' = SumSince(u, now - Month)]_vars

\* "The windows are sliding (last 7 / 30 days), so users unblock
\* automatically as old usage ages out": at one time usage never shrinks.
UsageOnlyAgesOut ==
  [][now' = now => \A u \in User :
       SumSince(u, now - Week)' >= SumSince(u, now - Week)]_vars
=============================================================================
