--------------------------- MODULE MCRateLimiter ---------------------------
(***************************************************************************)
(* Two ways to use RateLimiter.  MCBucket has two limiter instances of one *)
(* process, with different limits and one client each.                     *)
(*                                                                         *)
(* WorkerBucket is the limiter as it is deployed: the command of           *)
(* deploy/backend.Dockerfile starts uvicorn with two workers, each a       *)
(* process with limiters of its own, and the two accept from one socket,   *)
(* so that any of them may serve a call.  There is one bucket for each     *)
(* worker and client; the workers share the machine's monotonic clock.     *)
(***************************************************************************)
EXTENDS RateLimiter

MCBucket == {<<"v1", "key">>, <<"auth", "ip">>}
MCLimit == [b \in MCBucket |-> IF b[1] = "v1" THEN 2 ELSE 1]

Worker == {"w1", "w2"}
Client == {"key"}
ClientLimit == 2    \* RATE_LIMIT_PER_MINUTE, scaled down

WorkerBucket == Worker \X Client
WorkerLimit == [b \in WorkerBucket |-> ClientLimit]

\* Admissions of client c by any worker in the window that ends at t.
AdmittedToClient(c, t) ==
  UNION {{w} \X Admitted(<<w, c>>, t) : w \in Worker}

\* The limiter is "single-process / in-memory, which is correct for the
\* current single-uvicorn deployment": as deployed, no window has more calls
\* of a client admitted than the limit configured for it.
ClientWindowBound ==
  \A c \in Client, t \in 0..now :
    Cardinality(AdmittedToClient(c, t)) <= ClientLimit
=============================================================================
