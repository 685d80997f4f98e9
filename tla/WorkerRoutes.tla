---------------------------- MODULE WorkerRoutes ----------------------------
(***************************************************************************)
(* The routes of the Cloudflare Worker, go-gateway/src/cloudflare.js.      *)
(* Whether a caller is let through is in WorkerLimiter, what the stream of *)
(* an answer becomes in WorkerMeter, what a browser makes of a 502 in      *)
(* EdgeCall.                                                               *)
(*                                                                         *)
(* First POST /v1/chat/completions up to the call of the provider: which   *)
(* calls the Worker serves itself, and for whom, beside the gates of the   *)
(* backend it mirrors (require_access and _free_model_gate of              *)
(* backend/proxy/router.py).                                               *)
(*                                                                         *)
(* Then the others: /health answers for the Worker, /v1/models is kept for *)
(* MODELS_TTL, /auth/* and /stripe/* go to the backend, and so does all    *)
(* else.  The list of models is kept under the address and the first 32    *)
(* characters of the Authorization header, which follow a #.  These tell   *)
(* API keys apart, but not sessions, whose tokens begin alike.  Whether    *)
(* the platform's cache looks behind a # at all is left open.              *)
(***************************************************************************)
EXTENDS Integers

CONSTANTS Budgets,             \* TIER_BUDGETS: plan to <<weekly, monthly>>
          Used,                \* sums of usage_logs: [daily, weekly, monthly]
          Sessions, ApiKeys,   \* callers
          Nowhere,             \* no caller
          ModelsTtl            \* MODELS_TTL

\* Assumed where this module is instantiated, in DashboardPages.
CallerAssumption ==
  /\ ModelsTtl \in Nat \ {0}
  /\ Sessions \cap ApiKeys = {} /\ Nowhere \notin Sessions \cup ApiKeys
  /\ "session" \notin ApiKeys

VARIABLES handler,    \* of a chat call: idle, query (of the user), upstream
          asks,       \* the request
          row,        \* the user's row and sums
          outcome,    \* of the last request
          forwarded   \* its token limits, as the provider gets them

gatesVars == <<handler, asks, row, outcome, forwarded>>

VARIABLES behindHash,   \* the cache looks behind the #
          backend,      \* up, slow, down, failing, or unset: no BACKEND_URL
          keptLists,    \* the cache
          reply         \* history: the last answer

routesVars == <<behindHash, backend, keptLists, reply>>
-----------------------------------------------------------------------------
(* The chat.                                                                *)

ModelNames == {"flash", "vision", "pro", "nano", "other"}
\* A token limit: none, one the backend lets through, or one it cuts; or the cap
\* it puts there.
Limit == {"none", "fits", "over", "cap"}
Limits == [max_tokens : Limit, max_completion_tokens : Limit]
Asked == {l \in Limits : "cap" \notin {l.max_tokens, l.max_completion_tokens}}
NoLimits == [max_tokens |-> "none", max_completion_tokens |-> "none"]
Request == [model : ModelNames, body : {"ok", "large", "broken"},
            token : {"session", "expired", "key"}, limits : Asked]
\* listed: on the freshest list of members.
Users == [known : {TRUE}, owner : BOOLEAN, member : BOOLEAN, paid : BOOLEAN,
          listed : BOOLEAN, tier : DOMAIN Budgets \cup {"none"}, used : Used]
Stranger == [known |-> FALSE, listed |-> FALSE]
Outcome == {"none", "proxy", "direct", "tooLarge", "invalid", "noMember",
            "vision", "model", "weekly", "daily", "monthly"}
NoRow == [known |-> FALSE, listed |-> TRUE]

GatesTypeOK ==
  /\ handler \in {"idle", "query", "upstream"}
  /\ asks \in Request /\ outcome \in Outcome
  /\ row \in Users \cup {NoRow, Stranger}
  /\ forwarded \in Limits

NoCall == [model |-> "flash", body |-> "ok", token |-> "session",
           limits |-> NoLimits]

GatesInit ==
  /\ handler = "idle" /\ row = NoRow /\ outcome = "none"
  /\ asks = NoCall /\ forwarded = NoLimits

\* match of DIRECT_PROVIDERS.
Direct(m) == m # "other"

\* deepseekGate; the other provider has none.
DeepseekGate(m, free) ==
  IF m = "vision" /\ free THEN "vision"
  ELSE IF m = "pro" /\ free THEN "model" ELSE "none"

\* The three comparisons of a plan, weekly first.
Exceeds(plan, used) ==
  IF used.weekly >= Budgets[plan][1] THEN "weekly"
  ELSE IF used.daily >= (Budgets[plan][1] + 6) \div 7 THEN "daily"
  ELSE IF used.monthly >= Budgets[plan][2] THEN "monthly" ELSE "none"

Exempt(u) == u.member \/ u.owner \/ u.paid
HasPlan(u) == u.tier \in DOMAIN Budgets \ {"free"}

\* Mutant of Budget: a member's plan is not looked at.
BudgetMembersFree(u) ==
  IF HasPlan(u) /\ ~Exempt(u) THEN Exceeds(u.tier, u.used)
  ELSE IF Exempt(u) THEN "none" ELSE Exceeds("free", u.used)

\* A plan counts for everyone, the free budgets for those without a flag.
Budget(u) ==
  IF HasPlan(u) THEN Exceeds(u.tier, u.used)
  ELSE IF Exempt(u) THEN "none" ELSE Exceeds("free", u.used)

\* The handler up to verifySessionJWT; the rest goes to the backend.
Receive(q) ==
  /\ handler = "idle" /\ outcome = "none"
  /\ asks' = q /\ UNCHANGED <<row, forwarded>>
  /\ LET early == CASE q.body = "large"  -> "tooLarge"
                    [] q.body = "broken" -> "invalid"
                    [] OTHER -> IF Direct(q.model) /\ q.token = "session"
                                THEN "none" ELSE "proxy"
     IN /\ outcome' = early
        /\ handler' = IF early = "none" THEN "query" ELSE "idle"

\* The one query, and the gates behind it.
Query(u) ==
  /\ handler = "query" /\ row' = u
  /\ outcome' = IF ~u.known THEN "noMember"
                ELSE IF DeepseekGate(asks.model, ~Exempt(u)) # "none"
                     THEN DeepseekGate(asks.model, ~Exempt(u))
                ELSE IF Budget(u) # "none" THEN Budget(u) ELSE "direct"
  /\ handler' = IF outcome' = "direct" THEN "upstream" ELSE "idle"
  /\ UNCHANGED <<asks, forwarded>>

\* The database does not answer.
QueryFails ==
  /\ handler = "query" /\ handler' = "idle" /\ outcome' = "proxy"
  /\ UNCHANGED <<asks, row, forwarded>>

\* openaiCompatBody, for the provider of nano: max_tokens is renamed, unless
\* the other is there too.
OpenaiCompatBody(l) ==
  IF l.max_tokens # "none" /\ l.max_completion_tokens = "none"
  THEN [max_tokens |-> "none", max_completion_tokens |-> l.max_tokens] ELSE l

Upstream ==
  /\ handler = "upstream" /\ handler' = "idle"
  /\ forwarded' = IF asks.model = "nano" THEN OpenaiCompatBody(asks.limits)
                  ELSE asks.limits
  /\ UNCHANGED <<asks, row, outcome>>

\* The call is answered and nothing of it is kept.
Answered ==
  /\ handler = "idle" /\ outcome # "none" /\ UNCHANGED handler
  /\ row' = NoRow /\ outcome' = "none" /\ asks' = NoCall
  /\ forwarded' = NoLimits

GatesNext ==
  \/ \E q \in Request : Receive(q)
  \/ \E u \in Users \cup {Stranger} : Query(u)
  \/ QueryFails \/ Upstream \/ Answered
-----------------------------------------------------------------------------
(* The backend.                                                             *)

Live(u) == Exempt(u) \/ u.listed

\* _apply_max_tokens and what follows it put a limit there in any case, of 8192
\* at most.
ApplyMaxTokens(l) == [l EXCEPT !.max_tokens = IF @ = "fits" THEN "fits" ELSE "cap"]

\* _openai_body, which comes later, pops max_tokens in any case.
OpenaiBody(l) ==
  [max_tokens |-> "none",
   max_completion_tokens |-> IF l.max_completion_tokens = "none" THEN l.max_tokens
                             ELSE l.max_completion_tokens]

BackendSends(m, l) == IF m = "nano" THEN OpenaiBody(ApplyMaxTokens(l))
                      ELSE ApplyMaxTokens(l)

\* require_access: the plan, the flags, the live list, the free budgets.
RequireAccess(u) ==
  IF ~u.known THEN "noMember"
  ELSE IF HasPlan(u) THEN Exceeds(u.tier, u.used)
  ELSE IF Live(u) THEN "none" ELSE Exceeds("free", u.used)

\* _free_model_gate, which comes second.
FreeModelGate(m, u) ==
  IF Live(u) \/ m \in {"flash", "nano"} THEN "none"
  ELSE IF m = "vision" THEN "vision" ELSE "model"

Backend(m, u) ==
  IF RequireAccess(u) # "none" THEN RequireAccess(u)
  ELSE IF FreeModelGate(m, u) # "none" THEN FreeModelGate(m, u) ELSE "direct"

LimitsMirror ==
  forwarded # NoLimits =>
    LET backends == BackendSends(asks.model, asks.limits)
    IN IF asks.model = "nano"
       THEN /\ forwarded.max_tokens # "none" => asks.limits.max_completion_tokens # "none"
            /\ \/ asks.limits.max_completion_tokens # "none"
               \/ asks.limits.max_tokens = "fits"
                 => forwarded.max_completion_tokens = backends.max_completion_tokens
       ELSE asks.limits.max_tokens = "fits" => forwarded = backends

(* A call the Worker serves is one the backend would have served, and one   *)
(* it refuses is refused there too, in the same words unless a gate and a   *)
(* budget are against it, which the Worker asks in the other order; except  *)
(* for users whose membership only the live list knows (line 12).           *)
(*                                                                          *)
(* The provider of nano gets max_tokens only if the caller gave both names  *)
(* (line 46), and a limit given as max_completion_tokens, or one that fits, *)
(* is the one the backend would have sent.  But the Worker sends none where *)
(* the backend sends its own, and does not cut one that is over it.         *)
GatesMirror ==
  /\ row # NoRow /\ outcome # "proxy" /\ (row.listed => Exempt(row)) =>
       /\ (outcome = "direct") = (Backend(asks.model, row) = "direct")
       /\ row.known /\ FreeModelGate(asks.model, row) # "none"
            => outcome = FreeModelGate(asks.model, row)
       /\ row.known /\ FreeModelGate(asks.model, row) = "none"
            => outcome = Backend(asks.model, row)
  /\ LimitsMirror
-----------------------------------------------------------------------------
(* The other routes.                                                        *)

Callers == Sessions \cup ApiKeys
CacheKeys == {"any", "session"} \cup ApiKeys
NoList == [of |-> Nowhere, age |-> 0]
NoReply == [route |-> "none", status |-> 0, by |-> Nowhere, of |-> Nowhere,
            age |-> 0, backend |-> FALSE]

RoutesTypeOK ==
  /\ behindHash \in BOOLEAN
  /\ backend \in {"up", "slow", "down", "failing", "unset"}
  /\ keptLists \in [CacheKeys -> [of : Callers, age : 0..(ModelsTtl - 1)]
                                    \cup {NoList}]
  /\ reply.status \in {0, 200, 500, 502, 503}

RoutesInit ==
  /\ behindHash \in BOOLEAN /\ backend = "up"
  /\ keptLists = [k \in CacheKeys |-> NoList] /\ reply = NoReply

\* cacheKey
CacheKey(c) == IF ~behindHash THEN "any" ELSE IF c \in Sessions THEN "session"
               ELSE c

\* proxyTo: an exception becomes a 502, anything else is passed on.  It sets no
\* deadline: a slow backend is waited for.
ProxyTo == CASE backend = "unset"   -> 500
             [] backend = "down"    -> 502
             [] backend = "failing" -> 503
             [] OTHER               -> 200

\* GET /v1/models
Models(c) ==
  LET kept == keptLists[CacheKey(c)]
  IN /\ reply = NoReply
     /\ IF kept # NoList
        THEN /\ reply' = [NoReply EXCEPT !.route = "models", !.status = 200,
                                         !.by = c, !.of = kept.of, !.age = kept.age]
             /\ UNCHANGED keptLists
        ELSE /\ reply' = [NoReply EXCEPT !.route = "models", !.status = ProxyTo,
                                         !.by = c, !.of = c]
             /\ keptLists' = IF ProxyTo = 200
                             THEN [keptLists EXCEPT ![CacheKey(c)] =
                                     [of |-> c, age |-> 0]]
                             ELSE keptLists
  /\ UNCHANGED <<behindHash, backend>>

\* GET /health waits two seconds for the backend.
Health ==
  /\ reply = NoReply
  /\ reply' = [NoReply EXCEPT !.route = "health", !.status = 200,
                              !.backend = backend = "up"]
  /\ UNCHANGED <<behindHash, backend, keptLists>>

\* /auth/*, /stripe/*
Fallback ==
  /\ reply = NoReply
  /\ reply' = [NoReply EXCEPT !.route = "fallback", !.status = ProxyTo]
  /\ UNCHANGED <<behindHash, backend, keptLists>>

Replied ==
  /\ reply # NoReply /\ reply' = NoReply
  /\ UNCHANGED <<behindHash, backend, keptLists>>

BackendTurns(b) ==
  /\ reply = NoReply /\ b # backend /\ backend' = b
  /\ UNCHANGED <<behindHash, keptLists, reply>>

\* Time passes; the cache drops what is too old.
Ages ==
  /\ reply = NoReply
  /\ keptLists' = [k \in CacheKeys |->
       IF keptLists[k] # NoList /\ keptLists[k].age < ModelsTtl - 1
       THEN [keptLists[k] EXCEPT !.age = @ + 1] ELSE NoList]
  /\ UNCHANGED <<behindHash, backend, reply>>

RoutesNext ==
  \/ \E c \in Callers : Models(c)
  \/ \E b \in {"up", "slow", "down", "failing", "unset"} : BackendTurns(b)
  \/ Health \/ Fallback \/ Replied \/ Ages

Spec ==
  /\ GatesInit /\ RoutesInit
  /\ [][\/ GatesNext /\ UNCHANGED routesVars
        \/ RoutesNext /\ UNCHANGED gatesVars]_<<gatesVars, routesVars>>
-----------------------------------------------------------------------------
(* /health answers whatever the backend does, and says what it did.  A list *)
(* of models is never MODELS_TTL old, no error is kept, and if the cache    *)
(* looks behind the # an API key gets the list made for it; a session may   *)
(* get another session's (lines 218-243, 276-326).                          *)
RoutesHold ==
  /\ reply.route = "health" =>
       reply.status = 200 /\ (reply.backend <=> backend = "up")
  /\ reply.route = "models" /\ reply.status = 200 =>
       /\ reply.age < ModelsTtl
       /\ behindHash => IF reply.by \in ApiKeys THEN reply.of = reply.by
                        ELSE reply.of \in Sessions
  /\ reply.status \in {500, 502, 503} => backend \in {"unset", "down", "failing"}
=============================================================================
