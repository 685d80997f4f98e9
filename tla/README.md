# Detroit LLM gateway: TLA+ models and proofs

This directory holds formal models of the program in `src/`: an OpenAI- and
Anthropic-compatible API in front of several model providers, with API keys,
token budgets per plan, YouTube membership, Stripe subscriptions, image quotas
and stored conversations; a Cloudflare Worker and a Go gateway in front of it;
and a React dashboard that chats through it and administers it. The modules are
checked with TLC on small instances; the theorems are checked with TLAPS for
every value of the constants. `PROJECT.json` is the index: components, runs,
mutants, the source lines of every definition, findings, hazards and theorems.

How to read it: `RateLimiter.tla` with its abstract specification
`SlidingWindow.tla` is small and complete; then `ChatSlots.tla` and
`UsageBudget.tla` for the backend, `EdgeCall.tla` for a call on its way from the
page to the providers, `ChatPage.tla` for the chat page, and `DashboardPages.tla`
with its part modules for everything else a user sees.

## 1. Inventory

The backend is one FastAPI application. `deploy/backend.Dockerfile:25` starts
it as two uvicorn worker processes on Python 3.10; each runs one event loop and
keeps its own limiters, semaphores, counters and caches, and they share only the
database. Caddy sends `/v1`, `/admin`, `/health` and `/api` to a Go gateway that
answers some of it and proxies the rest. A dashboard built with
`VITE_API_MODE=cloudflare` calls a Worker at the edge first, which serves some
chat calls itself, and falls back to the origin.

| Component | State | Operations | Interacts with | What makes it correct |
|---|---|---|---|---|
| Request rate limiter (`ratelimit.py`, `main.py`) | hit times per bucket, three instances per worker | `check` | every request | no window admits more than the limit; Retry-After is honest |
| LLM and Claude slots (`proxy/router.py`) | global and per-user semaphore, Claude counter per user | acquire and release around provider calls, stream wrapper | chat handler, `/v1/messages` | no slot lost or released twice, no starvation, the counter comes back |
| Token budget (`proxy/router.py`, `chat/router.py`, `auth/api_keys.py`, `scripts/cleanup_usage.py`) | `usage_logs` rows, `_usage_cache` | `require_access`, `_log_usage`, key creation, expiry and revocation, purge | database, all LLM endpoints | bounded overshoot, no forgotten usage, purge harmless |
| Access gate | `_user_cache`, user row | `require_access`, model gates | billing, membership, budget | the decision follows the user's plan, up to a known delay |
| Image quota, API-key authentication, sessions, plain chat stream | rows and caches | check, generate, log; verify, revoke; callback; stream | provider, database | quota, revocation and slots hold under concurrency |
| Billing, channel membership | plan columns, member list in memory, table and file | webhooks, checkout; sync loop, admin edits | Stripe, YouTube, access gate | standing follows the subscription and the last full list |
| Conversations (`chat/conversations.py`) | conversations, messages with positions, reactions | create, append, replace, delete, page, react | dashboard | positions unique and dense, pages complete |
| Stream relay, provider proxies, Go gateway | generator and connection state, caches | deadlines, translation, proxy with fallback | providers, Caddy | every stream is ended; the same promises as the Python side |
| Edge access (`dashboard/src/lib/edge.ts`) | per call: attempt, timer, signal, response; a cooldown | `apiFetch`, `fetchEdge`, abort, fallback | Worker, origin, chat page | a call is not fired after its abort, nor twice without reason; it ends |
| Cloudflare Worker (`go-gateway/src/cloudflare.js`) | buckets and a model list per isolate; usage rows | limiter, gates, direct chat, metering, logging, proxying | providers, origin, database | decides like the backend, meters what it delivers |
| Chat page (`Chat3.tsx`, `chat-history.tsx`, `chat-adapter.ts`) | messages, five work flags, compacted context, pending files, composer | open, page, send, stop, save, compact, delete, attach, react | edge access, conversations | what is shown, stored and sent is of the conversation open |
| Other pages and dialogs | lists, reports, dialogs, notices, marks | load, poll, create, revoke, save, cancel | `api.ts` | what is shown belongs to what was asked for; spinners and marks tell the truth |
| Session (`auth.tsx`, sign-in pages) | token, user, consent | me, log in, log out, callback | every page | the user shown is the one whose token is sent |
| Token counting, HTTP clients, storage, migrations, effects, vendored UI, `detroit-voice`, deployment | none, or plain rows | - | - | outside the models (section 8) |

Hard behaviours. In the backend every `await` is a point where others run, so
check-then-act sequences interleave; caches are filled over several awaits and
invalidated in between; counters are given back by generators that may never
start; webhooks come twice and out of order; two processes do not see each other's
state. At the edge an attempt may have been executed although its answer never
came, and an abort may meet a call at any stage. In the dashboard answers arrive in
any order, after the user has moved on, with state captured before the `await`.
`PROJECT.json` lists these hazards at their lines, with the properties that would
catch each one.

## 2. Plan

Done: `RateLimiter` implementing `SlidingWindow`, `ChatSlots` and
`UsageBudget` (backend); `EdgeCall` (page, Worker, origin); `ChatPage`; and
`DashboardPages` with 26 part modules (dashboard and the rest of the Worker).

Left, in this order:

1. `AccessGate`: plan, membership and `_user_cache` in `require_access`, composed
   with `UsageBudget`; `ApiKeyAuth`, whose cache accepts a key for minutes after it
   was revoked.
2. `Billing` (abstract: the standing as a function of the subscription's history;
   detailed: the webhook handler with duplicates, reordering and a crash between its
   three commits) and `Membership` (abstract: one current full list; detailed: a cache
   per process, a table and a file).
3. `PlainChatSlots`, reusing the semaphore of `DataLemmas`; `ImageQuota`, counted before the
   generation and written after it.
4. `Conversations` (positions and pages under concurrent appends, at both servers),
   to put under `ChatPage` in place of its sequences; `StreamRelay`; `GoEdge`.

Theorems worth proving next: a semaphore as the abstract specification of `ChatSlots`.

## 3. Modules of the backend

### RateLimiter, SlidingWindow

`hits[b]` is `self._hits[key]`. A hit is a record of its position in the order of
appends and its time, so that "the first of the list" means what it means in
Python even for equal times. `Prune` is `_prune`, with its test of the first hit
only. `check` has no `await`: its two outcomes are the actions `Reject` and
`Record`, both starting with the prune. The clock ticks several times a second so
that `int()` in the Retry-After computation cuts something off. `granted` is a
history variable: every hit ever recorded.

`SlidingWindow` has no pruning and decides from the history alone.
`RateLimiter!Abstract` maps to it by forgetting `hits` and the Retry-After value.
`MCRateLimiter` also gives each worker process and client a bucket: it is the
composition of two limiters that share the clock and nothing else.

### ChatSlots

One worker process. A request is a client connection with one handler location:

| Location | Code |
|---|---|
| `waitGlobal`, `wokenGlobal` | `await _LLM_SEMAPHORE.acquire()` (`router.py:45`): asleep, handed a slot but not resumed |
| `waitUser`, `wokenUser` | `await sem.acquire()` (`router.py:51`) |
| `running` | awaiting `_handle_chat_completions_inner` |
| `messages` | `/v1/messages`, awaiting its provider |
| `ready`, `streaming` | `StreamingResponse` returned; its body iterator begun |

`asyncio.Semaphore` is external and modelled from the version in the image
(Python 3.10): a count and a queue; `release()` adds a slot and passes it to the
first waiter that is still asleep; a woken waiter leaves the queue only when it
resumes, and then passes a further free slot on; newcomers wait whenever the queue
is not empty. `_USER_LLM_LOCK` guards no suspension and is not a state of its own.

The exits follow the code: the chat handler releases its slots in `finally`, also
when it returns a stream (the stream itself holds none); the Claude count is given
back by `_wrap_claude_response` or the `except` branch; `/v1/messages` has no such
branch (`MessagesRaise`); a stream dropped before its generator starts runs no
`finally` (`StreamDropped`). Cancellation of a handler at shutdown is left out: the
process and its semaphores go with it.

### UsageBudget

`logs` holds the `UsageLog` rows as tokens per key and time, `cache[w]` the
`_usage_cache` of worker `w`. A check is a cache hit decided in one step
(`CheckCached`) or a fill: `StartFill` takes the time, `ReadDaily`,
`ReadWeekly`, `ReadMonthly` are the three queries, `StoreAndDecide` stores the
triple and decides. A call that ends looks for any active key (`FindKey`), commits
its row (`CommitLog`), and drops the cached sums of its worker (`Invalidate`);
`chat/router.py` stops after the commit. Keys are created, expire and are revoked
for good, together with their rows; `Purge` is the daily job. A tick stands for a
day: the TTL of 45 s becomes "may be seen in the tick of the fill or the next", an
over-approximation, with `Evict` ending it at any earlier point.

A key verified once is served from `_api_key_cache` for minutes, so a check does
not require a key that still exists. Users of this module are the metered ones (a
tier, or the free plan). `floor[w][u]` is a history variable: what a check at worker
`w` must at least see. `OvershootBounded` is a closed formula for the worst case,
`(k - 1) * n + n * (n + 1) / 2` calls for `n` connections and `k` workers. It is
tight for the instances tried: with one call less TLC finds a counterexample.
`SumSince`, which is SQL in the code, counts the tokens of the rows it asks for
instead of folding over them, so that the proofs can use what is known of finite sets.

## 4. Modules of the edge and the dashboard

### EdgeCall

One record of locations per call: `at` is where `apiFetch` and its caller are,
`worker` where the Worker's handler of it is, `origin[c][p]` the request of it that
the page or the Worker has at the origin. `Start`, `EdgeAttemptFails` (the timer, a
broken connection, the abort), `HandleRejection` (the `catch` block with its look at
the signal), `EdgeHeaders`, `OriginHeaders`, `BodyEnds`, `StopsAtDone` and `Abort` are
the caller; `Handle`, `Upstream`, `Flush`, `StreamBreaks`, `Cancelled`, `LogUsage`,
`ProxyReply` and `PipeEnds` the Worker; `Serve` the origin.

There are two kinds of callers. The pages call through `apiFetch`, and none of their
paths is one the Worker serves itself: the turns of the chat page
(`/api/web/chat/completions`, `/api/chat/stream`) and everything else go through the
catch-all route (`cloudflare.js:549`), which hands the call to the origin and pipes the
body of the answer through (`piping`), for as long as the origin sends. An API client
addresses the Worker; with a session as its token its chat call takes the direct path,
with the gates, the budgets and the provider. The budgets are compared in `Handle` with
`used` as it is then and charged in `LogUsage`, after the answer. The reader of a stream
stops at `[DONE]` and cancels what is left of the body (`StopsAtDone`; `Chat3.tsx` 294,
344-348), so that `flush`, and with it the row of usage, may never come. `Linked` says
when the caller's signal reaches the fetch: until the headers, at the edge. Status codes
are classes. A call is a turn (`stream`), a compaction (`json`), an upload whose
`FormData` cannot be sent again, or any `other` call of a page; or `apistream` or
`apijson` of an API client.

### ChatPage

One page in one tab. `store` is the server, as a sequence of messages per conversation,
or a mark for an id not given yet or deleted (none is given twice); `msgs`, `loaded`,
`hasMore`, `oldest` the view; `sending`, `paging`, `busy`, `compacting` the flags; every
asynchronous operation is a record with what its closure captured and `cur`, what its
`current()` answers: operationRef is only compared, so every change of it makes the
operations under way stale. An event handler, or a continuation, is one step with the
render and the effects it causes. `raced` and `lost` are history variables that name the
steps after which the page is known to lose track (a late `createConversation` that
opens its conversation over another, an answer of a create that never came); the
properties hold without them.

### DashboardPages

The parts share no state, so a behaviour mounts one part and the others stay as they
begin: the state space is the sum of theirs, not the product, and nothing is lost. It
owns the variables, instantiates the part modules, and states each claim of the parts
under the question it answers (section 5).

| Module | Code |
|---|---|
| `KeysPage`, `KeyRows` | `Keys.tsx`: create, revoke, list, backup tick; status and expiry in the browser's zone, the mask, the clipboard |
| `Session`, `WelcomePage` | `auth.tsx`, `LoginConsentModal.tsx`, `Login.tsx`, `Callback.tsx`, `App.tsx`; `Welcome.tsx` |
| `Reports`, `ChartZoom` | `Usage.tsx`, `Dashboard.tsx`, `Models.tsx`: reports by days, poll, refresh; totals, punchcard and quota; `useChartZoom.ts` |
| `ModelsList`, `LimitsCache` | the catalogue and its copy mark; the cache of `api.ts` for the limits |
| `AdminPage`, `ConsolePage` | `AdminSystem.tsx`, `Console.tsx` |
| `Composer`, `Reactions`, `TurnContent`, `PlainChat` | the composer of `Chat3.tsx` with tools and confirmation; likes; what a turn sends and shows; `Chat.tsx` with `chat-adapter.ts` |
| `SidebarList`, `Navigation` | the list of conversations; `Layout.tsx` with the count of items that fit |
| `UpgradeDialog`, `MembersDialog`, `PaymentsDialog` | the dialogs of the same names |
| `CookieConsent`, `CardStack` | `CookieConsent.tsx`, `WhatsNew.tsx` |
| `LegalPage`, `SampleCode` | `Legal.tsx`; the samples of `Docs.tsx` and `Landing.tsx` |
| `WorkerLimiter`, `WorkerMeter`, `WorkerRoutes` | `cloudflare.js`: `limitTo`, the metering of a stream in chunks, the gates and budgets beside those of the backend, the other routes and the cached model lists |

The parts that need a word:

- `LimitsCache`: one page at a time shows limits. `Chat3` and the plain chat ask when
  they open and every five minutes, `Chat3` after each turn as well; `Usage` asks once
  and has a Refresh; the upgrade dialog asks from any page. The page's cache, its shared
  request and the server's own cache of a minute (`admin/router.py:186`, `ServerTtl`)
  are kept apart, and the bound of `LimitsFresh` has a term for each.
- `UpgradeDialog`: only the dialog that cancelled marks the subscription as canceled
  (`UpgradeDialog.tsx:101`); `GET /stripe/subscription` has no such field.
  `CancelHolds` claims the mark until the next load, not after it.
- `WorkerRoutes`: what the Worker does to a token limit and what the backend does
  (`_apply_max_tokens`, the clamp to 8192, `_openai_body`) stand side by side;
  `LimitsMirror` says where the provider gets the same from both.
- `Reactions`: the server takes a mark back that is asked for twice
  (`conversations.py:403`); the page asks for that only when requests have crossed or an
  answer was lost.

A part that is about requests keeps them as a set of records with what each will
answer, so that any order of answers, and failures, are behaviours. A history
variable of a part (`crossed`, `missed`, `unheard`, `apart`, `denied`, `foreign`,
`changed`) names what the code knowingly lets happen, such as two answers in the
other order; the claim is what holds otherwise, and the comment of the property says
what is seen when it does happen.

## 5. Runs

| Run | Instance | What it shows |
|---|---|---|
| `rate_limiter` | 2 buckets with limits 2 and 1, window 2 s, 2 ticks/s, 9 ticks | `WindowBound`, `RetryAfterSuffices`, `RetryAfterTight`, refinement of `SlidingWindow` |
| `limiter_workers` | 2 workers, 1 client | violated: the limit holds per worker, not per client |
| `chat_slots` | 3 connections of one user and 1 of another, 3 global, 2 user and 2 Claude slots | `SlotAccounting`, `NoLostWakeup`, `ClaudeCap`, and the liveness `EveryWaiterServed` |
| `claude_leak` | the same, every stream begun (`BegunSpec`) | violated: a failed `/v1/messages` call keeps its Claude count |
| `usage_budget` | 1 worker, 2 connections, 1 key that may expire or be revoked, 3 days, a web call | `CacheSeesUsage`, `OvershootBounded` |
| `usage_overshoot` | 2 workers, 2 connections, 1 key, 2 days | the same two where caches of two workers disagree |
| `usage_purge` | 1 connection, 2 keys, 6 days, retention 4 | the purge changes no sum that enforcement asks for |
| `usage_reset` | the same | violated: revoking a key resets the budget |
| `edge_call` | 2 calls: a turn, a compaction, an upload or a streamed API call beside an upload or an API call; budgets 1 a week, 4 a month; charge 0 or 1 | `AbortedNeverRefires`, `DoubleRunExplained`, `UnchargedExplained`, `OvershootByOverlap`, and the liveness `GoSettles` |
| `edge_stall` | 1 turn of the chat page | violated: through the edge a body that stalls on its way from the origin is waited for without end |
| `chat_page` | a conversation of 4 messages and an unused id, 2 turns, pages of 2, 2 further requests | `FlagsMatchWork`, `ViewFollowsArchive`, `StoredOnce`, `SavedOrTold`, `ContextBelongs`, `FilesBelong`, and the liveness `PageComesToRest` |
| `pages` | two of everything that can be mixed up, see `MCDashboardPages.cfg` | `UserHoldsToken`, `ConsentFirst`, `TickIsForThisKey`, `ListsAgree`, `AnswersMatch`, `SpinnerMeansWork`, `StaysInBounds`, `QuestionFirst`, and the liveness `UsageFollowsDays` |

Why the bounds are enough. In `rate_limiter` the clock passes two full windows, so
that a bucket fills, drains and fills again, at every offset. In `chat_slots` both
queues occur, a global slot can be held by a request that waits for its user's
slot, and a queue of two lets a woken waiter pass a slot on; there are more Claude
requests of one user than the limit and the semaphore allow. In the usage runs the
budget is two calls a week and one a day, so that it is reached at once and the race
of a fill with a log, a stale cache and a revocation all happen beyond it; the purge
run goes on until rows are older than the retention. In `edge_call` the budget is one
charge a day, so that two direct calls under way together pass it, and one of the
calls can be aborted, doubled or lost at every stage of the other. The pairs of kinds
left out are two calls of pages of which none is an upload, which share the cooldown
only, and two JSON calls of API clients. In `chat_page` the
archive takes two pages, a turn can end in another conversation than it began in,
and two requests beside the turns can cross; more turns repeat what two can do. In
`pages` each part has two values of everything whose mix-up a property is about
(users, keys, days, ranges, conversations, languages), and two requests of a kind,
the least that can cross; timers and charts go past their longest interval.

`CHECK_DEADLOCK FALSE` stands where the system really may stop: clocks and requests
are bounded, calls end, and a page may be left with nothing to do. The runs of
`UsageBudget` use the symmetry of requests, keys and workers; no run that checks
liveness uses symmetry.

Fairness. `ChatSlots!Fairness`: weak fairness of the two resume steps, since the
event loop runs every woken coroutine, and of the end of a running provider call,
since every call carries a timeout. Nothing is assumed of clients or of streams.
`EdgeCall!Fairness`: per call, weak fairness of what the page does by itself (the
`catch` block, reading a body that the Worker has ended, the timers of
`streamDeadline`); nothing of provider, origin or user. `ChatPage!Fairness`: the
server answers or the connection fails, and a stream is ended by its deadline, which
by `GoSettles` is so in the build where the abort reaches the stream. `Reports`: the
interval fires, requests end, and not all of them fail for ever (strong fairness of
success; a server that is down for good shows no report). The other modules assume
none.

Every property of a passing run has a mutant in `PROJECT.json`, defined beside the
operator it replaces (`PruneEarly`, `ReleaseClaudePop`, `FallsBackAborted`, ...),
which TLC finds to violate it.

## 6. Findings

- `claude_leak`: `anthropic_messages` gives the Claude count back only when it
  returns a response. After two failed calls the user is told to "wait for current
  request to finish" (`router.py:654`) although none is under way. A count is lost in
  another way too: the wrapper of a stream that is dropped before its first chunk never
  runs (`StreamDropped`). The run leaves that one out, so that what it shows is the
  missing branch.
- `limiter_workers`: `ratelimit.py:9` calls the deployment single-process; the
  image starts two workers, and a client gets the limit from each.
- `usage_reset`: the README says usage ages out of sliding windows; revoking a key
  deletes its rows, and the budget starts again.
- `edge_stall`: `Chat3.tsx:256` and `318` promise anti-hang timers that also run
  while a body is read. `edge.ts:57-60` removes the abort listener once the headers
  are there, so that in the edge build neither the timers nor Stop reach the body: a
  turn that the Worker has forwarded and whose answer stalls at the origin is waited
  for without end.

Smaller observations stand in the comments of the modules: a reply to a reaction finds
its message by an index that an older page shifts (`Reactions`); two tools on, one of
them asked about (`Composer`); a cancelled subscription that the dialog, opened again,
offers to cancel once more, since what the server answers has no such mark
(`UpgradeDialog`); limits on a chat page that grow to nearly twice its interval, and on
`Usage`, which asks once, to any age until Refresh (`LimitsCache`); a token limit that
the backend clamps and the Worker sends on as it came (`WorkerRoutes`); an answer read
to `[DONE]` whose row is never written (`EdgeCall`); expiry read in the browser's zone
(`KeyRows`); a legal text of the other language left by a late answer (`LegalPage`); the
PHP sample without a host and the Python and TypeScript samples that send the name of
the variable until a key is there (`SampleCode`).

## 7. Proofs

Seven modules hold theorems; each result is for every value of the constants that the
named ASSUMEs of the modules allow, and TLC evaluates those in the passing runs.
`DataLemmas` holds what several of them need: numbers, finite sets, sequences, sums
over piles, and one semaphore. Every invariant of a passing run is the subject of a theorem.

`RateLimiterProofs`, for every set of buckets, limits and window: `TypeCorrect`,
`WindowBoundHolds` and `Refinement`. `WindowBound` speaks of the history and is not
inductive. The strengthening `IInv` says that a bucket's list holds at most `Limit`
hits, is part of the history, and contains every hit of the history that is still
inside the window at `now`; that hits are numbered in the order of their times; and
that every window, not only the present one, has been within the limit. A record step
adds a hit at `now`, the only windows it can overfill end at `now`, and their hits are
in the pruned list, whose size the guard has checked. The refinement uses the same
fact: pruned list and window of the history are the same set, so both limiters compare
the same number. Retry-After (`RefusalsSeeAFullWindow`, `RetryAfterIsEnough`,
`RetryAfterIsShort`): as long as a refusal is the latest reply, the window is full and
the wait was worked out from its oldest hit; after `int(wait) + 1` seconds that hit has
left, so fewer than the limit count, and a second earlier all of them still do.

`ChatSlotsProofs`: `TypeCorrect`, `SlotsAddUp`, `WakeupsNotLost` and `ClaudeCapHolds`
for any number of requests, users and slots. The argument about one semaphore is
independent of the gateway: `DataLemmas` states a predicate `SemOK` (free slots plus
holders is the size; the queue has no repetition and all in it are waiting or woken; a
free slot beside a queue means that its head is woken) and proves that it survives the
five things that can happen to a semaphore: a step of somebody else, an immediate
acquisition, joining the queue, a release, and the resumption of the head. `IInv` says
`SemOK` of the global semaphore and of each user's, and each action of `ChatSlots` is
one of the five kinds for each of them.

`UsageBudgetProofs`: `TypeCorrect`, `PurgeAlwaysInvisible`, `CacheAlwaysSeesUsage` and
`OvershootAlwaysBounded` for any users, connections, keys, workers and plan; keys and
connections are finitely many, and the retention is longer than a month. What a step
does to a sum comes first: a commit adds the tokens of one row (`CommitRaises`), a tick
or a revocation only lowers it, and the purge takes no row of the last month. `FloorInv`
says of every worker that each sum in its cache, and each sum that a fill under way
there has read, is at least `floor`, and that `floor` never exceeds the usage;
`CacheSeesUsage` is a part of it. The overshoot needs an account of the calls let
through by sums that miss the latest usage. `LowWorkers` have a sum below the limit in
their cache, `LowFills` are fills that have read one, `CommittedLow` are calls that
have committed and not yet dropped such a cache, `CallsHigh` are calls under way at a
worker without one. `Spent(n, k, m)` is how many calls may be past the limit when `m`
low sums are left on `k` workers. `Room` is that, corrected by the calls under way, and
`RoomLeft` says that the usage is at most the limit, less one, plus `Room` times the
largest call. Every action but a commit leaves the usage where it is or lowers it, and
once the limit is reached it does not make the room smaller (`StepPays`); a commit
raises the usage by one call and the room by one (`CommitMakesRoom`). The work is in
dropping and replacing sums: a low sum that goes for good moves the calls it had let
through into `Spent` (`RoomOfLoss`). `Spent` is largest when no low sum is about, and
there it is `Slack(n, k)`. TLC has checked `FloorInv` and `BudgetInv` on the instances of
`usage_budget` and `usage_overshoot`.

`EdgeCallProofs`: `TypeCorrect`, `DoubleRunsExplained`, `UnchargedIsExplained`,
`OvershootBounded` and `NoFireAfterAbort` for any set of calls, any plan and any charge.
What the properties say of the end of a call follows from where page, Worker and origin
can be at the same time: `Placed(c)` says that a call is nowhere before it starts, that
the Worker forwards it or runs it but never both, that the page sends to the origin only
what it has given up at the edge, that headers from the edge mean a handler past its
upstream call, that a handler that is done with what the provider ran has written its
row, given up, or lost its reader or its stream, and how long the abort listener is
linked. `Budgeted` is about all calls together: what is used, plus the largest charge
for each direct call still under way, stays within the budget plus one charge for each
of the most calls there were at once. The step that admits a call enlarges the set of
those under way by one, and the guard has just compared the sum; the step that logs one
removes it and adds at most its charge.

`ChatPageProofs`: all seven invariants of `ChatPage`, for any conversations, archives,
turns, page sizes and bounds on the requests at once: `TypeCorrect`,
`FlagsAlwaysMatch`, `ViewAlwaysFollows`, `AlwaysStoredOnce`, `AlwaysSavedOrTold`,
`ContextAlwaysBelongs`, `FilesAlwaysBelong`. None but the last is inductive, and each
needs some of the others. `Inv` is the conjunction of

- `TypeInv`, which is finer than `TypeOK`, and `Room`: no position lies behind the end
  of its archive;
- `Work`: one turn and one page at most are current, both of the conversation that is
  open, and never both at once; the flags say which (`FlagsMatchWork` follows);
- `Displayed`: the turn that is shown is at the end of the list;
- `Placed`: by the phase of its turn, where a message can be: in an archive, in what
  the first save of a new chat will store, in the list;
- `Apart`: no message is twice in an archive, in two of them, or both stored and to be
  stored (`StoredOnce` follows);
- `OverNowhere` and `KnownHere`: what the list, the context and the history of a
  compaction hold belongs to the conversation that is open (`SavedOrTold` and
  `ContextBelongs` follow);
- `View`: a monotone map `g` finds the archive from `oldest` to its end in the list,
  in its order, and whatever of the list is archived is in its range
  (`ViewFollowsArchive` follows, by counting from the end).

`ChatPage` has 22 actions and eight such parts. To keep the proofs apart, one lemma
per piece of state says all that a step can do to it (`TurnMoves` to the turns,
`StoreMoves` to the archives, `ListMoves` to the list, `Left \/ Stays` to the
conversation and its context), and `Placed`, `Apart`, `OverNowhere` and `KnownHere` are
shown from these alone. `ArchiveAssumption` says that what is stored when the page
opens is a list of pairwise different messages, none of a turn of this page. TLC has
checked the parts of `Inv` up to `KnownHere` on the instance of the run before they
were proved; `View` speaks of a function and is not enumerable.

`PagesProofs` (`UserAlwaysHoldsToken`, `ConsentAlwaysFirst`, `TickAlwaysForThisKey`,
`QuestionAlwaysFirst`, `ListsAlwaysAgree`) and `DisplayProofs`, which extends it
(`SpinnerAlwaysMeansWork`, `AlwaysStaysInBounds`, `AnswersAlwaysMatch`, `AlwaysTyped`),
are about `DashboardPages`. That the
parts share no state is used once per part, as `[Next]_vars => [X!Next]_xVars`: what
holds in every behaviour of a part alone holds in every behaviour of the whole, so each
part is proved by itself, with an inductive invariant of its own (`KeysInv`,
`ConsentInv`, `MembersInv`, ...). The pattern of most is the same: each request under
way carries what its answer will be, or a history variable says that it has been
overtaken. `TickIsForThisKey` and `QuestionFirst` need what the open dialog was opened
for. `BucketsLimit` is the argument of `RateLimiterProofs` again, for a list that is
filtered at every call and swept in between; `WheelStaysInData` and `StackHolds` are
arithmetic with clamps, for any length of chart and deck.

`AnswersMatch` has ten parts with an invariant each. For the meter (`MeterInv`): of some
number `c` of lines everything has been parsed, `buf` holds the symbols that came since,
and `tokens` and `letters` are what these `c` lines say, but for the characters that
were cut. `Latest` and `Characters` speak of a prefix of the lines, so that each line
more changes them in one of two ways. For the turns (`TurnsInv`): every turn of the
dialogue is well formed and only the last may still be without its answer. For the gates
(`GatesInv`): once there is a row, the outcome is the decision for that row and that
model; nothing is forwarded before. For the routes (`RoutesInv`): a kept list is one the
backend has given, with an age. For the figures, `SumOf` is stated as the number of
elements of a union of disjoint piles, one per day, and not as a fold: that the totals,
the columns of the punchcard and its cells have one sum is then a bijection between two
such unions (`SumByGroups`), which needs no induction. What is rounded is bounded by
`RoundBounds` and `RoundGrows`; a bar or a colour says as much as its figure.
`MeterAssumption` says that a stream is a list of lines with natural numbers in them,
and `FiguresAssumption` that a report is a list of days with natural numbers, in which a
day without requests has no tokens, as the server fills the gaps (`admin/router.py`
285-315).

`AlwaysTyped` says of the whole that each part holds what its module's `TypeOK` says:
numbered requests, rows the server has given, figures that are numbers, and the bounds.
`PagesTypes` and `DisplayTypes` hold, part by part, what makes that inductive. A set of
requests under way is finite, so that a guard that compares their count leaves a number
free for the next one (`FreeIs`); a window of the zoom has two rows at least
(`ZoomTypes`); every client with calls has a bucket, so that the list of buckets stays
within its limit (`BucketTypes`); a kept list is younger than its lifetime
(`RoutesTypes`); the symbols cut from a stream come from a prefix of its lines
(`MeterTypes`). Some types follow only from the invariants of the other theorems, which
are therefore conjuncts: `ConsentInv`, `KeysInv`, `ComposerInv`, `LimitsInv`, `MeterInv`,
`TurnsInv`, `FrameInv`, `NewsInv`, `BucketInv` and `SampleInv` among them.
`BoundsAssumption` says that each bound of the model is a number, those on requests at
least one, that two calls of me() may overlap, that the clock of the keys reaches the
longest expiry, that the settings a chat begins with can be chosen, and that members are
finitely many; `LinkAssumption` of `Navigation` that every page has one link, and the chat
and the usage do (`Layout.tsx` 67-69).

Only model-checked, and why:

- liveness (`EveryWaiterServed`, `GoSettles`, `PageComesToRest`, `UsageFollowsDays`):
  outside the prover's reach;
- `UsageOnlyAgesOut` of `UsageBudget` and `EveryStreamSettles` of `EdgeCall`, and the
  other statements of the runs that expect a violation: they do not hold.

## 8. Not modelled

Of the backend, the components left by the plan (section 2): the access gate's cache,
image quota, key cache, webhooks, membership sync, the tables of the conversations,
the second pair of semaphores, the stream relay and the Go gateway. The hazards of
these that no property covers yet are in `PROJECT.json` as far as they are listed
there: webhooks out of order (`stripe/router.py:384`), the status check that saves one
member as the whole list (`auth/members.py:211`), two appends with one position
(`chat/conversations.py:279`). A hazard of a modelled part without a property is one
that the code meets: its note says which exception of which property it is.

Not planned: token counting and format translation (pure functions on text),
administration and balances (single-row queries), object storage and HTTP clients
(I/O), migration scripts and the prerender script (run once), token verification,
headers and CORS of the Worker (no state), texts and layout, the visual effects, the
vendored components of shadcn and assistant-ui (their states are taken as the pages
see them), `ChatV2`, `PhoneVerifyDialog`, `lib/ai` and `lib/firebase` (nothing reaches
them), and `detroit-voice` (a separate training project).

Of the modelled pages: scrolling, menus, previews, the drag highlight and the meter
of the context in the chat page, the download of the console's log, the highlighting
of code, the open question of the landing page.
