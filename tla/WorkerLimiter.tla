--------------------------- MODULE WorkerLimiter ---------------------------
(***************************************************************************)
(* The rate limit of the Cloudflare Worker, go-gateway/src/cloudflare.js:  *)
(* one Map from a client (token or address) to the times of its calls,     *)
(* which all routes share although each has a limit of its own.  Unlike    *)
(* backend/ratelimit.py (RateLimiter) it keeps a call that is exactly a    *)
(* minute old, may answer Retry-After: 0, and forgets the oldest bucket    *)
(* when there are too many.                                                *)
(***************************************************************************)
EXTENDS Integers, Sequences, FiniteSets

CONSTANTS Client, Routes,
          LimitTo,      \* LimitTo[r]: the limit of route r
          Minute,       \* 60000 ms, in ticks
          Second,       \* ticks in a second
          MaxBuckets,   \* 5000
          Horizon       \* bound: the clock stops here

\* Assumed where this module is instantiated, in DashboardPages.
BucketAssumption ==
  /\ LimitTo \in [Routes -> Nat \ {0}]
  /\ {Minute, MaxBuckets, Horizon} \subseteq Nat /\ Second \in Nat \ {0}

VARIABLES clock,
          buckets,  \* the keys of the Map, in the order they came
          calls,    \* calls[c]: c's array, <<>> without a bucket
          told,     \* told[c]: what the last refusal of c said
          served,   \* history, served[c]: c's calls of the last minute
          forgot    \* history, forgot[c]: c's bucket was deleted

vars == <<clock, buckets, calls, told, served, forgot>>

\* over: the bucket held more than the route allows.
Nothing == [route |-> "none", until |-> 0, over |-> FALSE]

TypeOK ==
  /\ clock \in 0..Horizon
  /\ {buckets[i] : i \in DOMAIN buckets} \subseteq Client
  /\ Len(buckets) <= MaxBuckets
  /\ \A c \in Client :
       calls[c] # <<>> => \E i \in DOMAIN buckets : buckets[i] = c
  /\ told \in [Client -> [route : Routes \cup {"none"}, until : Nat,
                          over : BOOLEAN]]
  /\ forgot \in [Client -> BOOLEAN]

Init ==
  /\ clock = 0 /\ buckets = <<>>
  /\ calls = [c \in Client |-> <<>>]
  /\ told = [c \in Client |-> Nothing]
  /\ served = [c \in Client |-> <<>>]
  /\ forgot = [c \in Client |-> FALSE]

\* The loop of shift(): how many times it runs on s at now, and what it leaves.
Old(s, now) ==
  CHOOSE n \in 0..Len(s) : /\ \A i \in 1..n : now - s[i] > Minute
                           /\ n < Len(s) => now - s[n + 1] <= Minute
From(s, n) == SubSeq(s, n + 1, Len(s))
Recent(s) == From(s, Old(s, clock))

\* Math.ceil of the milliseconds left, in seconds.
Retry(s) == (s[1] + Minute - clock + Second - 1) \div Second

\* Mutant of Full: one call more.
FullAfterOne(s, r) == Len(s) > LimitTo[r]

Full(s, r) == Len(s) >= LimitTo[r]

Known(c) == IF \E i \in DOMAIN buckets : buckets[i] = c
            THEN buckets ELSE Append(buckets, c)

\* allowed, for a call of c on route r.
Refuse(c, r) ==
  LET s == Recent(calls[c])
  IN /\ Full(s, r)
     /\ calls' = [calls EXCEPT ![c] = s]
     /\ told' = [told EXCEPT ![c] =
                   [route |-> r, until |-> clock + Retry(s) * Second,
                    over |-> Len(s) > LimitTo[r]]]
     /\ UNCHANGED <<clock, buckets, served, forgot>>

Allow(c, r) ==
  LET s    == Recent(calls[c])
      full == Len(Known(c)) > MaxBuckets
      gone == Known(c)[1]
      kept == [calls EXCEPT ![c] = Append(s, clock)]
  IN /\ ~Full(s, r)
     /\ calls' = IF full THEN [kept EXCEPT ![gone] = <<>>] ELSE kept
     /\ buckets' = IF full THEN Tail(Known(c)) ELSE Known(c)
     /\ forgot' = IF full THEN [forgot EXCEPT ![gone] = TRUE] ELSE forgot
     /\ told' = [told EXCEPT ![c] = Nothing]
     /\ served' = [d \in Client |-> IF forgot'[d] THEN <<>>
                     ELSE IF d # c THEN served[d]
                     ELSE Append(served[d], [at |-> clock, on |-> r])]
     /\ UNCHANGED clock

Times(s) == [i \in DOMAIN s |-> s[i].at]

Later ==
  /\ clock < Horizon /\ clock' = clock + 1
  /\ served' = [c \in Client |->
                 From(served[c], Old(Times(served[c]), clock'))]
  /\ UNCHANGED <<buckets, calls, told, forgot>>

Next ==
  \/ Later
  \/ \E c \in Client, r \in Routes : Allow(c, r) \/ Refuse(c, r)

Spec == Init /\ [][Next]_vars
-----------------------------------------------------------------------------
(* A call is let through only when, of the calls let through in the minute  *)
(* before it on any route, there are fewer than its route's limit; unless   *)
(* the bucket was deleted meanwhile.  And a client that was refused and has *)
(* waited longer than Retry-After is let through.  Not always after just    *)
(* that long, because line 100 keeps a call that is a minute old; and not   *)
(* when calls of a route with a higher limit had filled the bucket, because *)
(* line 101 looks at the first of them only.                                *)
BucketsLimit ==
  \A c \in Client :
    /\ \A i \in DOMAIN served[c] :
         Cardinality({j \in 1..i - 1 :
                        served[c][i].at - served[c][j].at <= Minute})
           < LimitTo[served[c][i].on]
    /\ told[c] # Nothing /\ ~told[c].over /\ clock > told[c].until
         => ~Full(Recent(calls[c]), told[c].route)
=============================================================================
