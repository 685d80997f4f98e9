---------------------------- MODULE RateLimiter ----------------------------
(***************************************************************************)
(* backend/ratelimit.py: SlidingWindowRateLimiter, one list of recent hit  *)
(* times per bucket, pruned lazily.  main.py keeps three instances (/v1/,  *)
(* health+admin+api, auth+stripe) and keys each by token hash or client    *)
(* address; a pair <<instance, client>> is one Bucket here (MCRateLimiter  *)
(* adds the worker process).  check() has no await, so a call is one step  *)
(* of the event loop.                                                      *)
(*                                                                         *)
(* A bucket's list is a set of hits stamped with their position n in the   *)
(* order of appends, so that hits[0] is the hit of least n whatever the    *)
(* clock says.  The clock has TicksPerSecond ticks to the second: enough   *)
(* for int() in retry_after to cut something off.                          *)
(***************************************************************************)
EXTENDS Integers, FiniteSets

CONSTANTS Bucket,          \* <<limiter instance, client>> pairs
          Limit,           \* Limit[b]: the limit of b's limiter instance
          WindowSeconds,   \* window_seconds
          TicksPerSecond,  \* resolution of the modelled clock
          MaxTime          \* bound: the clock stops here

\* limit = 0 would make check() read hits[0] of an empty list.
ASSUME LimitAssumption == Limit \in [Bucket -> Nat \ {0}]
ASSUME ClockAssumption ==
  /\ WindowSeconds \in Nat \ {0}
  /\ TicksPerSecond \in Nat \ {0}
  /\ MaxTime \in Nat

VARIABLES now,      \* self._clock(), in ticks
          hits,     \* self._hits
          reply,    \* what the latest check() returned, to whom and when
          granted   \* history: every hit ever recorded, pruned or not

vars == <<now, hits, reply, granted>>

Window == WindowSeconds * TicksPerSecond

Hit == [n : Nat, at : Nat]

Reply == [bucket : Bucket, at : Nat, allowed : BOOLEAN, retry : Nat]

Oldest(S) == CHOOSE h \in S : \A g \in S : h.n <= g.n

\* Mutants of Prune: a hit that is exactly Window old is kept; the hits are
\* dropped one tick early.
PruneLate(S, t) ==
  IF S # {} /\ Oldest(S).at < t - Window
  THEN {h \in S : h.at > t - Window}
  ELSE S

PruneEarly(S, t) == {h \in S : h.at > t - Window + 1}

\* _prune: filter only when the first hit has left the window.
Prune(S, t) ==
  IF S # {} /\ Oldest(S).at <= t - Window
  THEN {h \in S : h.at > t - Window}
  ELSE S

AtLeastOne(i) == IF i < 1 THEN 1 ELSE i

\* Mutants of RetryAfter: the subtraction swapped and no max; the final "+ 1"
\* forgotten; one second too many.
RetryAfterSwapped(S, t) ==
  ((t - Oldest(S).at) - Window) \div TicksPerSecond + 1

RetryAfterRoundedDown(S, t) ==
  AtLeastOne((Window - (t - Oldest(S).at)) \div TicksPerSecond)

RetryAfterPadded(S, t) ==
  AtLeastOne((Window - (t - Oldest(S).at)) \div TicksPerSecond + 2)

\* max(1, int(window - (now - hits[0])) + 1), in seconds.
RetryAfter(S, t) ==
  AtLeastOne((Window - (t - Oldest(S).at)) \div TicksPerSecond + 1)

Init ==
  /\ now = 0
  /\ hits = [b \in Bucket |-> {}]
  /\ reply \in [bucket : Bucket, at : {0}, allowed : {TRUE}, retry : {0}]
  /\ granted = [b \in Bucket |-> {}]

Tick ==
  /\ now < MaxTime
  /\ now' = now + 1
  /\ UNCHANGED <<hits, reply, granted>>

\* check(b) when the pruned list is full: the hit is not recorded.
Reject(b) ==
  LET live == Prune(hits[b], now) IN
  /\ Cardinality(live) >= Limit[b]
  /\ hits' = [hits EXCEPT ![b] = live]
  /\ reply' = [bucket |-> b, at |-> now, allowed |-> FALSE,
               retry |-> RetryAfter(live, now)]
  /\ UNCHANGED <<now, granted>>

\* check(b) when there is room.
Record(b) ==
  LET live == Prune(hits[b], now)
      hit  == [n |-> Cardinality(granted[b]), at |-> now]
  IN
  /\ Cardinality(live) < Limit[b]
  /\ hits' = [hits EXCEPT ![b] = live \cup {hit}]
  /\ granted' = [granted EXCEPT ![b] = @ \cup {hit}]
  /\ reply' = [bucket |-> b, at |-> now, allowed |-> TRUE, retry |-> 0]
  /\ UNCHANGED now

Next == Tick \/ \E b \in Bucket : Reject(b) \/ Record(b)

Spec == Init /\ [][Next]_vars

-----------------------------------------------------------------------------
TypeOK ==
  /\ now \in Nat
  /\ hits \in [Bucket -> SUBSET Hit]
  /\ granted \in [Bucket -> SUBSET Hit]
  /\ reply \in Reply

\* Admissions on b in the half-open window of length Window ending at t.
Admitted(b, t) == {h \in granted[b] : h.at > t - Window /\ h.at <= t}

\* However calls and pruning interleave, no window of the configured length,
\* wherever it ends, contains more admitted calls than the limit.
WindowBound ==
  \A b \in Bucket, t \in 0..now : Cardinality(Admitted(b, t)) <= Limit[b]

\* Calls already admitted on the replied-to bucket that still count d ticks
\* after the reply.
StillCounting(d) ==
  {h \in granted[reply.bucket] :
     h.at <= reply.at /\ h.at > reply.at + d - Window}

\* A refused client that waits the advertised Retry-After finds room again
\* (as far as calls admitted before the refusal are concerned).
RetryAfterSuffices ==
  ~reply.allowed =>
    Cardinality(StillCounting(reply.retry * TicksPerSecond))
      < Limit[reply.bucket]

\* Retry-After is never a whole second too long: up to one second before it
\* expires the bucket is still full.
RetryAfterTight ==
  ~reply.allowed =>
    \A d \in 0..((reply.retry - 1) * TicksPerSecond - 1) :
      Cardinality(StillCounting(d)) >= Limit[reply.bucket]

\* The lazily pruned list decides exactly like a limiter that remembers
\* every admission.
Abstract == INSTANCE SlidingWindow WITH
  verdict <- [bucket |-> reply.bucket, allowed |-> reply.allowed]

ImplementsSlidingWindow == Abstract!Spec
=============================================================================
