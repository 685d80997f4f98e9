------------------------------ MODULE EdgeCall ------------------------------
(***************************************************************************)
(* One user's calls to the API when the dashboard may be built in          *)
(* edge-first mode: dashboard/src/lib/edge.ts on the page, the Cloudflare  *)
(* Worker of go-gateway/src/cloudflare.js at the edge, and the origin.     *)
(*                                                                         *)
(* A page's call is handed to the Worker first and, when that attempt      *)
(* fails, to the origin; the Worker forwards it to the origin as well, so  *)
(* one call may be executed twice.  The Worker also serves some calls to   *)
(* /v1/chat/completions itself, its direct path.  No page sends one; the   *)
(* callers there are API clients that hold a session token and address the *)
(* Worker by its URL, in whatever mode the dashboard is built.             *)
(* An answer has headers and a body; the page's AbortController (the Stop  *)
(* button, leaving the chat, the stream deadlines) may fire at any time.   *)
(*                                                                         *)
(* Time is abstract: a timer is an action that may happen while it is      *)
(* armed.  Status codes are classes: "ok", "gateway" (502, 503 and 504)    *)
(* and "refused" (the other errors, which nobody retries).                 *)
(***************************************************************************)
EXTENDS Integers, FiniteSets

CONSTANTS Call,
          Leading,   \* the calls that may be of any of LeadingKinds ...
          LeadingKinds,
          OtherKinds, \* ... and what the others may be
          Metered,   \* the user has a tier, or is no member, owner or payer
          Weekly, Monthly,  \* the pair of TIER_BUDGETS for the user's plan
          MaxTokens  \* bound: tokens charged for one execution

ASSUME CallAssumption ==
  /\ IsFiniteSet(Call) /\ Leading \subseteq Call
  /\ LeadingKinds \cup OtherKinds
       \subseteq {"stream", "json", "other", "upload", "apistream", "apijson"}
ASSUME MeteredAssumption == Metered \in BOOLEAN
ASSUME BudgetAssumption == {Weekly, Monthly, MaxTokens} \subseteq Nat \ {0}

VARIABLES mode,      \* API_MODE, fixed when the dashboard is built
          down,      \* Date.now() < edgeDownUntil
          kind,      \* kind[c]: of the chat page, a turn ("stream") or a
                     \* compaction ("json"); an "upload", whose FormData
                     \* cannot be re-sent, or any "other" call of a page;
                     \* "apistream" or "apijson", a call of an API client
          at,        \* at[c]: where apiFetch and its caller are
          via,       \* via[c]: whose response the caller reads
          answer,    \* answer[c]: status class of the edge's response
          aborted,   \* aborted[c]: init.signal.aborted
          worker,    \* worker[c]: where the Worker's handler of c is
          reply,     \* reply[c]: status class the Worker has sent, or "none"
          used,      \* sum of the user's usage_logs rows
          rows,      \* rows[c]: rows the Worker wrote for c
          lostRow,   \* lostRow[c]: logUsage gave up
          origin,    \* origin[c][p]: the request of c that p has sent to
                     \* the origin, or the answer p is about to receive
          ran,       \* history, ran[c]: places that executed c
          peak       \* history: most direct calls under way at once

client == <<down, kind, at, via, answer, aborted>>
edge == <<worker, reply, used, rows, lostRow>>
vars == <<mode, client, edge, origin, ran, peak>>

Status == {"ok", "refused", "gateway"}
Path == {"page", "worker"}
\* "complete": the whole answer was read; "stopped": it was read up to
\* [DONE] and the rest cancelled; "settled": the call ended otherwise.
At == {"idle", "edge", "rejected", "origin", "body",
       "settled", "stopped", "complete"}
Handler == {"none", "arrived", "proxy", "piping", "upstream", "stream",
            "logging", "done"}
Kind == {"stream", "json", "other", "upload", "apistream", "apijson"}
Api(c) == kind[c] \in {"apistream", "apijson"}
Chat(c) == kind[c] \in {"stream", "json"}
retryable(c) == kind[c] # "upload"

TypeOK ==
  /\ mode \in {"go", "cloudflare"}
  /\ down \in BOOLEAN
  /\ kind \in [Call -> Kind]
  /\ aborted \in [Call -> BOOLEAN]
  /\ at \in [Call -> At]
  /\ via \in [Call -> {"none"} \cup {"edge", "origin"}]
  /\ answer \in [Call -> {"none"} \cup Status]
  /\ reply \in [Call -> {"none"} \cup Status]
  /\ worker \in [Call -> Handler]
  /\ lostRow \in [Call -> BOOLEAN]
  /\ used \in Nat /\ rows \in [Call -> 0..1]
  /\ origin \in [Call -> [Path -> {"none", "sent", "answered"} \cup Status]]
  /\ ran \in [Call -> SUBSET {"edge", "page", "worker"}]
  /\ peak \in Nat

Init ==
  /\ mode \in {"go", "cloudflare"}
  /\ down = FALSE
  /\ kind \in [Call -> Kind]
  /\ \A c \in Leading : kind[c] \in LeadingKinds
  /\ \A c \in Call \ Leading : kind[c] \in OtherKinds
  /\ at = [c \in Call |-> "idle"]
  /\ via = [c \in Call |-> "none"]
  /\ answer = [c \in Call |-> "none"]
  /\ aborted = [c \in Call |-> FALSE]
  /\ worker = [c \in Call |-> "none"]
  /\ reply = [c \in Call |-> "none"]
  /\ used = 0
  /\ rows = [c \in Call |-> 0]
  /\ lostRow = [c \in Call |-> FALSE]
  /\ origin = [c \in Call |-> [p \in Path |-> "none"]]
  /\ ran = [c \in Call |-> {}]
  /\ peak = 0
-----------------------------------------------------------------------------
(* The callers: apiFetch and fetchEdge of a page, fetch of an API client.   *)

\* fetch(path, init) at the end of apiFetch, or at its head in go mode.
FetchOrigin(c) ==
  /\ at' = [at EXCEPT ![c] = "origin"]
  /\ origin' = [origin EXCEPT ![c]["page"] = "sent"]

Settle(c) == at' = [at EXCEPT ![c] = "settled"]
Ended(c) == at[c] \in {"settled", "stopped", "complete"}

\* apiFetch is called; without an edge or during the cooldown it goes to the
\* origin at once.  An API client addresses the Worker.
Start(c) ==
  /\ at[c] = "idle" /\ ~aborted[c]
  /\ IF ~Api(c) /\ (mode = "go" \/ down)
     THEN FetchOrigin(c) /\ UNCHANGED worker
     ELSE /\ at' = [at EXCEPT ![c] = "edge"]
          /\ worker' = [worker EXCEPT ![c] = "arrived"]
          /\ UNCHANGED origin
  /\ UNCHANGED <<mode, down, kind, via, answer,
                 aborted, reply, used, rows, lostRow, ran, peak>>

\* Where a caller is when its fetch of the edge has been rejected: a page in
\* apiFetch's catch block, an API client at its end.
Rejected(c) == IF Api(c) THEN "settled" ELSE "rejected"

\* The TTFB timer fires, or the connection to the edge breaks, before any
\* headers: the fetch is rejected.  The request may never have arrived.
EdgeAttemptFails(c) ==
  /\ at[c] = "edge"
  /\ at' = [at EXCEPT ![c] = Rejected(c)]
  /\ reply' = [reply EXCEPT ![c] = "none"]
  /\ \/ UNCHANGED worker
     \/ worker[c] = "arrived" /\ worker' = [worker EXCEPT ![c] = "none"]
  /\ UNCHANGED <<mode, down, kind, via, answer,
                 aborted, used, rows, lostRow, origin, ran, peak>>

\* Mutant of FallsBack: the abort test is dropped.
FallsBackAborted(c) == retryable(c)

\* Mutant of FallsBack: the body is not looked at.
FallsBackAnyBody(c) == ~aborted[c]

\* The catch block: the caller's abort propagates, a one-shot body cannot be
\* sent again.
FallsBack(c) == ~aborted[c] /\ retryable(c)

HandleRejection(c) ==
  /\ at[c] = "rejected"
  /\ IF FallsBack(c)
     THEN down' = TRUE /\ FetchOrigin(c)
     ELSE Settle(c) /\ UNCHANGED <<down, origin>>
  /\ UNCHANGED <<mode, kind, via, answer, aborted,
                 edge, ran, peak>>

\* res.status is 502, 503 or 504.
RetryStatus(s) == s = "gateway"

\* Headers from the edge.  The finally block of fetchEdge removes the abort
\* listener before the page reads the body.
EdgeHeaders(c) ==
  /\ at[c] = "edge" /\ reply[c] # "none"
  /\ IF RetryStatus(reply[c]) /\ retryable(c) /\ ~Api(c)
     THEN FetchOrigin(c) /\ UNCHANGED <<via, answer>>
     ELSE /\ at' = [at EXCEPT ![c] = "body"]
          /\ via' = [via EXCEPT ![c] = "edge"]
          /\ answer' = [answer EXCEPT ![c] = reply[c]]
          /\ UNCHANGED origin
  /\ UNCHANGED <<mode, down, kind, aborted, edge, ran, peak>>

\* Headers from the origin, whatever they say.
OriginHeaders(c) ==
  /\ at[c] = "origin" /\ origin[c]["page"] = "answered"
  /\ at' = [at EXCEPT ![c] = "body"]
  /\ via' = [via EXCEPT ![c] = "origin"]
  /\ origin' = [origin EXCEPT ![c]["page"] = "none"]
  /\ UNCHANGED <<mode, down, kind, answer, aborted, edge, ran, peak>>

\* A connection breaks while the caller waits for the origin or reads a body,
\* or a chunk is not what parseSse expects.
ConnectionLost(c) ==
  /\ at[c] \in {"origin", "body"}
  /\ Settle(c)
  /\ UNCHANGED <<mode, down, kind, via, answer,
                 aborted, edge, origin, ran, peak>>

\* Mutant of Linked: the origin's fetch does not get the caller's signal.
LinkedEdgeOnly(c) == at[c] = "edge"

\* Whether an abort of the caller's controller still reaches the network.
Linked(c) ==
  \/ at[c] \in {"edge", "origin"}
  \/ at[c] = "body" /\ (via[c] = "origin" \/ Api(c))

\* The user stops the call or leaves, or streamDeadline's timer expires.
Abort(c) ==
  /\ at[c] \in {"edge", "rejected", "origin", "body"} /\ ~aborted[c]
  /\ aborted' = [aborted EXCEPT ![c] = TRUE]
  /\ at' = [at EXCEPT ![c] = IF ~Linked(c) THEN @
                             ELSE IF @ = "edge" THEN Rejected(c)
                             ELSE "settled"]
  /\ reply' = [reply EXCEPT ![c] = IF at[c] = "edge" THEN "none" ELSE @]
  /\ UNCHANGED <<mode, down, kind, via, answer, worker, used, rows, lostRow,
                 origin, ran, peak>>

\* The body the caller reads at the edge is not at its end: the Worker still
\* transforms the provider's stream, or pipes the origin's answer through.
Flowing(c) == via[c] = "edge" /\ worker[c] \in {"stream", "piping"}

\* The reader is told that the body is done.
BodyEnds(c) ==
  /\ at[c] = "body" /\ ~Flowing(c)
  /\ at' = [at EXCEPT ![c] = "complete"]
  /\ UNCHANGED <<mode, down, kind, via, answer,
                 aborted, edge, origin, ran, peak>>

\* The reader of a stream meets [DONE], stops, and cancels the body, which
\* may not be at its end.
StopsAtDone(c) ==
  /\ at[c] = "body" /\ kind[c] \in {"stream", "apistream"}
  /\ at' = [at EXCEPT ![c] = "stopped"]
  /\ UNCHANGED <<mode, down, kind, via, answer,
                 aborted, edge, origin, ran, peak>>

\* consumeStream reads a chunk, then finds that it has been aborted.
ChunkAfterAbort(c) ==
  /\ at[c] = "body" /\ via[c] = "edge" /\ kind[c] = "stream" /\ aborted[c]
  /\ Settle(c)
  /\ UNCHANGED <<mode, down, kind, via, answer,
                 aborted, edge, origin, ran, peak>>

\* EDGE_COOLDOWN_MS has passed.
CooldownOver ==
  /\ down /\ \E c \in Call : at[c] = "idle"  \* only Start looks
  /\ down' = FALSE
  /\ UNCHANGED <<mode, kind, at, via, answer,
                 aborted, edge, origin, ran, peak>>
-----------------------------------------------------------------------------
(* The Worker.                                                              *)

\* The handler of c sends the headers of s; nobody waits for them once the
\* page has given this attempt up.
Send(c, s) == reply' = [reply EXCEPT ![c] = IF at[c] = "edge" THEN s ELSE @]

\* It answers with s and has nothing more to do.
Answer(c, s) == Send(c, s) /\ worker' = [worker EXCEPT ![c] = "done"]

GoTo(c, h) == worker' = [worker EXCEPT ![c] = h] /\ UNCHANGED reply

\* proxyTo and proxyRaw hand the call to the origin.
ProxyTo(c) ==
  /\ GoTo(c, "proxy")
  /\ origin' = [origin EXCEPT ![c]["worker"] = "sent"]

Daily == (Weekly + 6) \div 7

\* Mutant of WithinBudget: the refusals compare with > instead of >=.
WithinBudgetInclusive(u) == u <= Weekly /\ u <= Daily /\ u <= Monthly

\* No time passes here, so the three windows hold the same rows.
WithinBudget(u) == u < Weekly /\ u < Daily /\ u < Monthly

\* Direct calls that have passed the quota and are not charged yet.
UnderWay == {c \in Call : worker[c] \in {"upstream", "stream", "logging"}}

Larger(m, n) == IF m < n THEN n ELSE m

\* limitTo, then the catch-all route, which forwards, or on the direct path
\* the checks of body and token and the query, with the gates and budgets
\* behind it.  Refused: a full bucket (other pages of the user fill it too), a
\* body too large or no JSON, no such user, the model's gate, a budget.  Left to
\* the origin: a path or model the Worker does not serve, a token that is no
\* session, a database that does not answer.
Handle(c) ==
  /\ worker[c] = "arrived"
  /\ \/ Answer(c, "refused") /\ UNCHANGED <<peak, origin>>
     \/ ProxyTo(c) /\ UNCHANGED peak
     \/ /\ Api(c) /\ (Metered => WithinBudget(used))
        /\ GoTo(c, "upstream") /\ UNCHANGED origin
        /\ peak' = Larger(peak, Cardinality(UnderWay) + 1)
  /\ UNCHANGED <<mode, client, used, rows, lostRow, ran>>

\* The provider answers a direct call, or cannot be reached.  An error of a
\* streamed call is sent as text with status 200, one of the others with its
\* own status, and a body that is no JSON as 502.
Upstream(c) ==
  /\ worker[c] = "upstream"
  /\ \/ Answer(c, "gateway") /\ UNCHANGED ran
     \/ kind[c] = "apistream" /\ Answer(c, "ok") /\ UNCHANGED ran
     \/ kind[c] = "apijson" /\ Answer(c, "refused") /\ UNCHANGED ran
     \/ /\ kind[c] = "apijson" /\ Answer(c, "gateway")
        /\ ran' = [ran EXCEPT ![c] = @ \cup {"edge"}]
     \/ /\ ran' = [ran EXCEPT ![c] = @ \cup {"edge"}]
        /\ Send(c, "ok")
        /\ worker' = [worker EXCEPT ![c] =
                        IF kind[c] = "apistream" THEN "stream" ELSE "logging"]
  /\ UNCHANGED <<mode, client, used, rows,
                 lostRow, origin, peak>>

\* Mutant of AfterStream: flush does not log.
AfterStreamUnlogged == "done"

AfterStream == "logging"

\* The provider has ended the stream: flush hands its usage to logUsage.
Flush(c) ==
  /\ worker[c] = "stream"
  /\ GoTo(c, AfterStream)
  /\ UNCHANGED <<mode, client, used, rows,
                 lostRow, origin, ran, peak>>

\* The provider's stream breaks: the transform is errored, flush does not run,
\* and so does the body that the caller reads.
StreamBreaks(c) ==
  /\ worker[c] = "stream"
  /\ GoTo(c, "done")
  /\ at' = [at EXCEPT ![c] = IF @ \in {"edge", "body"} THEN "settled" ELSE @]
  /\ UNCHANGED <<mode, down, kind, via, answer, aborted,
                 used, rows, lostRow, origin, ran, peak>>

\* The caller no longer wants the answer: the stream is cancelled, and the
\* runtime may end a handler whose client has gone.
Gone(c) == at[c] \in {"rejected", "origin"} \/ Ended(c) \/ via[c] = "origin"

Cancelled(c) ==
  /\ worker[c] \in {"arrived", "proxy", "piping", "upstream", "stream"}
  /\ Gone(c)
  /\ GoTo(c, "done")
  /\ UNCHANGED <<mode, client, used, rows,
                 lostRow, origin, ran, peak>>

\* Mutant of AfterLog: usage that has been logged is logged again.
AfterLogAgain == "logging"

AfterLog == "done"

\* logUsage under waitUntil: no row for a user without an active key, or when
\* the insert fails, for one because the key has gone meanwhile.
LogUsage(c) ==
  /\ worker[c] = "logging"
  /\ GoTo(c, AfterLog)
  /\ \/ /\ \E t \in 1..MaxTokens : used' = used + t
        /\ rows' = [rows EXCEPT ![c] = @ + 1]
        /\ UNCHANGED lostRow
     \/ /\ lostRow' = [lostRow EXCEPT ![c] = TRUE]
        /\ UNCHANGED <<used, rows>>
  /\ UNCHANGED <<mode, client, origin, ran, peak>>

\* The origin's headers are passed on, and its body will be piped through.  A
\* connection to the origin that fails, before or after the origin has run the
\* call, becomes a 502.
ProxyReply(c) ==
  /\ worker[c] = "proxy"
  /\ \/ /\ origin[c]["worker"] \in Status /\ Send(c, origin[c]["worker"])
        /\ worker' = [worker EXCEPT ![c] = "piping"]
        /\ origin' = [origin EXCEPT ![c]["worker"] = "none"]
     \/ /\ origin[c]["worker"] = "sent" /\ Answer(c, "gateway")
        /\ UNCHANGED origin
  /\ UNCHANGED <<mode, client, used, rows, lostRow, ran, peak>>

\* The origin's body ends or breaks.
PipeEnds(c) ==
  /\ worker[c] = "piping"
  /\ GoTo(c, "done")
  /\ UNCHANGED <<mode, client, used, rows, lostRow, origin, ran, peak>>
-----------------------------------------------------------------------------
(* The origin and the database.                                             *)

\* Somebody still waits for the origin's answer.
Awaited(c, p) == IF p = "page" THEN at[c] = "origin" ELSE worker[c] = "proxy"

\* What p is told by an answer of class s; apiFetch returns the origin's
\* response whatever it is.
Told(c, p, s) ==
  CASE ~Awaited(c, p) -> "none"
    [] Awaited(c, p) /\ p = "page" -> "answered"
    [] Awaited(c, p) /\ p = "worker" -> s

\* The origin handles c, handed over by p: it refuses it, runs it, or
\* answers with a gateway status whether it has run it or not.
Serve(c, p) ==
  /\ origin[c][p] = "sent"
  /\ \E s \in Status :
       /\ origin' = [origin EXCEPT ![c][p] = Told(c, p, s)]
       /\ \/ s # "refused" /\ ran' = [ran EXCEPT ![c] = @ \cup {p}]
          \/ s # "ok" /\ UNCHANGED ran
  /\ UNCHANGED <<mode, client, edge, peak>>
-----------------------------------------------------------------------------
Next ==
  \/ CooldownOver
  \/ \E c \in Call :
       \/ Start(c) \/ EdgeAttemptFails(c) \/ HandleRejection(c)
       \/ EdgeHeaders(c) \/ OriginHeaders(c) \/ ConnectionLost(c)
       \/ Abort(c) \/ BodyEnds(c) \/ StopsAtDone(c) \/ ChunkAfterAbort(c)
       \/ Handle(c) \/ Upstream(c)
       \/ Flush(c) \/ StreamBreaks(c) \/ Cancelled(c) \/ LogUsage(c)
       \/ ProxyReply(c) \/ PipeEnds(c)
       \/ \E p \in Path : Serve(c, p)

\* What the page does by itself: its continuations, the reading of a body that
\* the Worker has ended, and the timers of streamDeadline, which every chat call
\* of the chat page has.
PageGoesOn(c) ==
  \/ HandleRejection(c)
  \/ via[c] = "edge" /\ BodyEnds(c)
  \/ Chat(c) /\ Abort(c)

\* Nothing is assumed of the provider, of the origin or of the user.
Fairness == \A c \in Call : WF_vars(PageGoesOn(c))

Spec == Init /\ [][Next]_vars
FairSpec == Spec /\ Fairness
-----------------------------------------------------------------------------
(* Properties.                                                              *)

\* A call its owner has aborted is not handed to the origin afterwards, even
\* when the TTFB timer fired first: a fallback would fire it twice.
AbortedNeverRefires ==
  [][\A c \in Call : aborted[c] /\ origin[c]["page"] = "none"
                        => origin'[c]["page"] = "none"]_vars

\* A call that was executed twice is one of a page whose body can be sent
\* again: the origin ran it for the Worker and for the page's fallback.  What
\* the Worker serves itself is run once, and nothing is doubled without it.
DoubleRunExplained ==
  \A c \in Call :
    Cardinality(ran[c]) > 1 =>
      /\ mode = "cloudflare" /\ retryable(c)
      /\ ran[c] = {"page", "worker"} /\ via[c] # "edge"

\* A call that the provider has run for the Worker, which is done with it, is
\* in usage_logs.  The exceptions: logUsage gave up; the answer was no JSON; the
\* caller left before the body's end, or read it no further than [DONE]; or the
\* provider's stream broke.  So what was read to the end of its body is charged.
UnchargedExplained ==
  \A c \in Call :
    "edge" \in ran[c] /\ worker[c] = "done" /\ rows[c] = 0 /\ ~lostRow[c]
      => \/ at[c] \in {"settled", "stopped"}
         \/ kind[c] = "apijson" /\ "gateway" \in {reply[c], answer[c]}

\* The budget is checked against a snapshot, so calls under way together can
\* pass it together: it is exceeded by less than one charge for each.
OvershootByOverlap ==
  Metered => used <= Daily - 1 + MaxTokens * peak

\* Same origin: a chat call ends, for its deadline aborts it at the latest.
GoSettles ==
  \A c \in Call : (mode = "go" /\ Chat(c) /\ at[c] # "idle") ~> Ended(c)

\* Chat3.tsx:256 "Anti-hang protection for streaming responses." promises it
\* for every build: a streamed answer, once its headers are there, ends.  Through
\* the edge the abort does not reach the body that the Worker pipes from the
\* origin.
EveryStreamSettles ==
  \A c \in Call :
    (kind[c] = "stream" /\ at[c] = "body" /\ answer[c] \in {"none", "ok"})
      ~> Ended(c)
=============================================================================
