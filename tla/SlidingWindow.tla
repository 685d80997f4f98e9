--------------------------- MODULE SlidingWindow ---------------------------
(***************************************************************************)
(* What a sliding-window limiter promises its callers, with no mention of  *)
(* how it remembers hits: a call on a bucket is admitted exactly when      *)
(* fewer than Limit calls were admitted on that bucket during the last     *)
(* Window ticks.  RateLimiter, which forgets old hits lazily, is shown to  *)
(* implement this module.                                                  *)
(***************************************************************************)
EXTENDS Integers, FiniteSets

CONSTANTS Bucket,   \* the independent buckets
          Limit,    \* Limit[b]: admissions allowed per window
          Window    \* length of the window, in clock ticks

VARIABLES now,      \* the monotonic clock
          granted,  \* granted[b]: every admission so far, [n |-> ordinal, at |-> time]
          verdict   \* the answer to the latest call, [bucket, allowed]

vars == <<now, granted, verdict>>

\* The admissions on b inside the window that ends at time t.
InWindow(b, t) == {h \in granted[b] : h.at > t - Window /\ h.at <= t}

Init ==
  /\ now = 0
  /\ granted = [b \in Bucket |-> {}]
  /\ verdict \in [bucket : Bucket, allowed : {TRUE}]

Advance ==
  /\ now' > now
  /\ UNCHANGED <<granted, verdict>>

Admit(b) ==
  /\ Cardinality(InWindow(b, now)) < Limit[b]
  /\ granted' = [granted EXCEPT
                   ![b] = @ \cup {[n |-> Cardinality(@), at |-> now]}]
  /\ verdict' = [bucket |-> b, allowed |-> TRUE]
  /\ UNCHANGED now

Refuse(b) ==
  /\ Cardinality(InWindow(b, now)) >= Limit[b]
  /\ verdict' = [bucket |-> b, allowed |-> FALSE]
  /\ UNCHANGED <<now, granted>>

Next == Advance \/ \E b \in Bucket : Admit(b) \/ Refuse(b)

Spec == Init /\ [][Next]_vars
=============================================================================
