--------------------------- MODULE EdgeCallProofs ---------------------------
(***************************************************************************)
(* Proofs about EdgeCall, for any set of calls, any plan and any charge.   *)
(*                                                                         *)
(* What the properties say of the end of a call follows from where the     *)
(* caller, the Worker and the origin can be at the same time.  Placed(c)   *)
(* says that of one call: only an API client's call is run by the Worker   *)
(* itself, only a page sends to the origin, when it has given the call up  *)
(* at the edge, and headers from the edge mean that the Worker's handler   *)
(* is past its upstream call.  Budgeted says that every direct call under  *)
(* way has its charge reserved below the most that peak allows.            *)
(***************************************************************************)
EXTENDS EdgeCall, FiniteSetTheorems, TLAPS

\* Before Start nothing exists of a call, and without an edge no handler.
Fresh(c) ==
  /\ at[c] = "idle" => /\ worker[c] = "none" /\ origin[c]["page"] = "none"
                       /\ answer[c] = "none"
  /\ worker[c] # "none" => mode = "cloudflare" \/ Api(c)

\* The Worker forwards a call or runs it, never both, and runs only calls of
\* API clients.
OneHandler(c) ==
  /\ "worker" \in ran[c] \/ origin[c]["worker"] # "none"
       => worker[c] \in {"proxy", "piping", "done"} /\ "edge" \notin ran[c]
  /\ "edge" \in ran[c] => worker[c] \in {"stream", "logging", "done"}
  /\ "edge" \in ran[c] \/ worker[c] \in {"upstream", "stream", "logging"}
       => Api(c)

\* A call is sent to the origin by the page when the edge's answer is not
\* read, and after the edge has had it only when its body can be re-sent.
SentByPage(c) ==
  "page" \in ran[c] \/ origin[c]["page"] # "none"
    => /\ at[c] \in {"origin", "body", "settled", "stopped", "complete"}
       /\ via[c] # "edge" /\ ~Api(c)
       /\ worker[c] # "none" => retryable(c)

\* The caller reads an edge answer that the Worker has sent, after headers.  An
\* API client reads nothing else, and is never in apiFetch's catch block.
EdgeAnswer(c) ==
  /\ at[c] \in {"idle", "edge", "rejected", "origin"} => via[c] = "none"
  /\ at[c] \in {"body", "complete"} => via[c] # "none"
  /\ at[c] = "edge" => answer[c] = "none"
  /\ via[c] = "edge" \/ reply[c] # "none"
       => worker[c] \in {"piping", "stream", "logging", "done"}
  /\ at[c] = "complete" /\ via[c] = "edge" => worker[c] # "stream"
  /\ Api(c) => at[c] \notin {"rejected", "origin"} /\ via[c] # "origin"

\* An API client was told that the provider's answer is no JSON.
NoJson(c) == kind[c] = "apijson" /\ "gateway" \in {reply[c], answer[c]}

\* A handler charges once, as its last step, and leaves without a charge only
\* a call whose answer was no JSON or is not read to its end.
ChargedOnce(c) ==
  /\ rows[c] # 0 => worker[c] = "done"
  /\ "edge" \in ran[c] /\ worker[c] = "done" /\ rows[c] = 0 /\ ~lostRow[c]
       => at[c] \in {"settled", "stopped"} \/ NoJson(c)

\* An aborted call has left the fetches that its signal reaches.
Unlinked(c) == aborted[c] => at[c] \notin {"idle", "edge", "origin"}

Placed(c) ==
  /\ Fresh(c) /\ OneHandler(c) /\ SentByPage(c)
  /\ EdgeAnswer(c) /\ ChargedOnce(c) /\ Unlinked(c)

\* Each direct call under way may still be charged MaxTokens.
Budgeted ==
  /\ Cardinality(UnderWay) <= peak
  /\ Metered =>
       used + MaxTokens * Cardinality(UnderWay) <= Daily - 1 + MaxTokens * peak

IInv == TypeOK /\ (\A c \in Call : Placed(c)) /\ Budgeted
-----------------------------------------------------------------------------
(* Type correctness.                                                        *)

\* The calls under way are finitely many: a part of the calls.
LEMMA UnderWayFinite ==
  IsFiniteSet(UnderWay) /\ Cardinality(UnderWay) \in Nat
<1>1. UnderWay \subseteq Call
  BY DEF UnderWay
<1>2. IsFiniteSet(UnderWay)
  BY <1>1, CallAssumption, FS_Subset
<1> QED
  BY <1>2, FS_CardinalityType

\* The types of what requests to the origin and answers of the Worker write.
LEMMA OriginType ==
  ASSUME TypeOK, NEW c \in Call, NEW p \in Path,
         NEW s \in {"none", "sent", "answered"} \cup Status,
         origin' = [origin EXCEPT ![c][p] = s]
  PROVE  origin' \in
           [Call -> [Path -> {"none", "sent", "answered"} \cup Status]]
BY DEF TypeOK

LEMMA FetchType ==
  ASSUME TypeOK, NEW c \in Call, FetchOrigin(c)
  PROVE  /\ at' \in [Call -> At]
         /\ origin' \in
              [Call -> [Path -> {"none", "sent", "answered"} \cup Status]]
BY DEF FetchOrigin, TypeOK, At, Path

\* An answer of the Worker is a status class.
LEMMA SendType ==
  ASSUME TypeOK, NEW c \in Call, NEW s \in Status, Send(c, s)
  PROVE  reply' \in [Call -> {"none"} \cup Status]
BY DEF Send, TypeOK, Status

\* The handler stays in its places.
LEMMA GoToType ==
  ASSUME TypeOK, NEW c \in Call, NEW h \in Handler, GoTo(c, h)
  PROVE  /\ worker' \in [Call -> Handler]
         /\ reply' \in [Call -> {"none"} \cup Status]
BY DEF GoTo, TypeOK, Handler

\* A last answer does both.
LEMMA AnswerType ==
  ASSUME TypeOK, NEW c \in Call, NEW s \in Status, Answer(c, s)
  PROVE  /\ worker' \in [Call -> Handler]
         /\ reply' \in [Call -> {"none"} \cup Status]
BY SendType DEF Answer, TypeOK, Handler

\* Every step keeps the variables in their types, once the rows of a call are
\* known to be written by its last step only.
LEMMA TypeStep ==
  ASSUME TypeOK, \A c \in Call : ChargedOnce(c), [Next]_vars
  PROVE  TypeOK'
<1> USE DEF TypeOK, client, edge
<1>1. CASE CooldownOver
  BY <1>1 DEF CooldownOver
<1>2. ASSUME NEW c \in Call, Start(c) PROVE TypeOK'
  BY <1>2, FetchType DEF Start, At, Handler
<1>3. ASSUME NEW c \in Call, EdgeAttemptFails(c) PROVE TypeOK'
  BY <1>3 DEF EdgeAttemptFails, Rejected, At, Handler
<1>4. ASSUME NEW c \in Call, HandleRejection(c) PROVE TypeOK'
  BY <1>4, FetchType DEF HandleRejection, Settle, At
<1>5. ASSUME NEW c \in Call, EdgeHeaders(c) PROVE TypeOK'
  <2>1. CASE FetchOrigin(c) /\ UNCHANGED <<via, answer>>
    BY <1>5, <2>1, FetchType DEF EdgeHeaders
  <2>2. CASE /\ at' = [at EXCEPT ![c] = "body"]
             /\ via' = [via EXCEPT ![c] = "edge"]
             /\ answer' = [answer EXCEPT ![c] = reply[c]]
             /\ UNCHANGED origin
    BY <1>5, <2>2 DEF EdgeHeaders, At
  <2> QED
    BY <1>5, <2>1, <2>2 DEF EdgeHeaders
<1>6. ASSUME NEW c \in Call, OriginHeaders(c) PROVE TypeOK'
  BY <1>6 DEF OriginHeaders, At, Path
<1>7. ASSUME NEW c \in Call, ConnectionLost(c) PROVE TypeOK'
  BY <1>7 DEF ConnectionLost, Settle, At
<1>8. ASSUME NEW c \in Call, Abort(c) PROVE TypeOK'
  BY <1>8 DEF Abort, Rejected, At
<1>9. ASSUME NEW c \in Call, BodyEnds(c) PROVE TypeOK'
  BY <1>9 DEF BodyEnds, At
<1>10. ASSUME NEW c \in Call, ChunkAfterAbort(c) PROVE TypeOK'
  BY <1>10 DEF ChunkAfterAbort, Settle, At
<1>11. ASSUME NEW c \in Call, Handle(c) PROVE TypeOK'
  <2>1. CASE Answer(c, "refused") /\ UNCHANGED <<peak, origin>>
    BY <1>11, <2>1, AnswerType DEF Handle, Status
  <2>2. CASE ProxyTo(c) /\ UNCHANGED peak
    <3>1. GoTo(c, "proxy") /\ "proxy" \in Handler
      BY <2>2 DEF ProxyTo, Handler
    <3>2. origin' \in
            [Call -> [Path -> {"none", "sent", "answered"} \cup Status]]
      BY <2>2 DEF ProxyTo, Path
    <3> QED
      BY <1>11, <2>2, <3>1, <3>2, GoToType DEF Handle
  <2>3. CASE /\ GoTo(c, "upstream") /\ UNCHANGED origin
             /\ peak' = Larger(peak, Cardinality(UnderWay) + 1)
    <3>1. "upstream" \in Handler
      BY DEF Handler
    <3>2. peak' \in Nat
      BY <2>3, UnderWayFinite DEF Larger
    <3> QED
      BY <1>11, <2>3, <3>1, <3>2, GoToType DEF Handle
  <2> QED
    BY <1>11, <2>1, <2>2, <2>3 DEF Handle
<1>12. ASSUME NEW c \in Call, Upstream(c) PROVE TypeOK'
  <2>1. ran' \in [Call -> SUBSET {"edge", "page", "worker"}]
    BY <1>12 DEF Upstream
  <2>2. /\ worker' \in [Call -> Handler]
        /\ reply' \in [Call -> {"none"} \cup Status]
    <3>1. CASE \E s \in Status : Answer(c, s)
      BY <3>1, AnswerType
    <3>2. CASE /\ Send(c, "ok")
               /\ worker' = [worker EXCEPT ![c] =
                    IF kind[c] = "apistream" THEN "stream" ELSE "logging"]
      BY <3>2, SendType DEF Status, Handler
    <3> QED
      BY <1>12, <3>1, <3>2 DEF Upstream, Status
  <2> QED
    BY <1>12, <2>1, <2>2 DEF Upstream
<1>13. ASSUME NEW c \in Call, Flush(c) PROVE TypeOK'
  BY <1>13, GoToType DEF Flush, AfterStream, Handler
<1>14. ASSUME NEW c \in Call, Cancelled(c) PROVE TypeOK'
  BY <1>14, GoToType DEF Cancelled, Handler
<1>15. ASSUME NEW c \in Call, LogUsage(c) PROVE TypeOK'
  <2>1. rows[c] = 0
    BY <1>15 DEF LogUsage, ChargedOnce
  <2>2. GoTo(c, "done") /\ "done" \in Handler
    BY <1>15 DEF LogUsage, AfterLog, Handler
  <2>3. CASE /\ \E t \in 1..MaxTokens : used' = used + t
             /\ rows' = [rows EXCEPT ![c] = @ + 1]
             /\ UNCHANGED lostRow
    <3>1. used' \in Nat
      BY <2>3, BudgetAssumption
    <3>2. rows' = [rows EXCEPT ![c] = 1]
      BY <2>1, <2>3
    <3> QED
      BY <1>15, <2>2, <2>3, <3>1, <3>2, GoToType DEF LogUsage
  <2>4. CASE lostRow' = [lostRow EXCEPT ![c] = TRUE] /\ UNCHANGED <<used, rows>>
    BY <1>15, <2>2, <2>4, GoToType DEF LogUsage
  <2> QED
    BY <1>15, <2>3, <2>4 DEF LogUsage
<1>16. ASSUME NEW c \in Call, ProxyReply(c) PROVE TypeOK'
  <2>1. /\ worker' \in [Call -> Handler]
        /\ reply' \in [Call -> {"none"} \cup Status]
    <3>1. CASE \E s \in Status :
                 Send(c, s) /\ worker' = [worker EXCEPT ![c] = "piping"]
      BY <3>1, SendType DEF Handler
    <3>2. CASE Answer(c, "gateway")
      BY <3>2, AnswerType DEF Status
    <3> QED
      BY <1>16, <3>1, <3>2 DEF ProxyReply
  <2>2. origin' \in [Call -> [Path -> {"none", "sent", "answered"} \cup Status]]
    <3>1. CASE origin' = [origin EXCEPT ![c]["worker"] = "none"]
      BY <3>1, OriginType DEF Path
    <3>2. CASE UNCHANGED origin
      BY <3>2
    <3> QED
      BY <1>16, <3>1, <3>2 DEF ProxyReply
  <2> QED
    BY <1>16, <2>1, <2>2 DEF ProxyReply
<1>17. ASSUME NEW c \in Call, NEW p \in Path, Serve(c, p)
       PROVE  TypeOK'
  <2>1. PICK s \in Status : origin' = [origin EXCEPT ![c][p] = Told(c, p, s)]
    BY <1>17 DEF Serve
  <2>2. Told(c, p, s) \in {"none", "sent", "answered"} \cup Status
    BY DEF Told, Path
  <2>3. origin' \in [Call -> [Path -> {"none", "sent", "answered"} \cup Status]]
    BY <2>1, <2>2, OriginType
  <2>4. ran' \in [Call -> SUBSET {"edge", "page", "worker"}]
    BY <1>17 DEF Serve, Path
  <2> QED
    BY <1>17, <2>3, <2>4 DEF Serve
<1>18. CASE UNCHANGED vars
  BY <1>18 DEF vars
<1>19. ASSUME NEW c \in Call, StopsAtDone(c) PROVE TypeOK'
  BY <1>19 DEF StopsAtDone, At
<1>20. ASSUME NEW c \in Call, StreamBreaks(c) PROVE TypeOK'
  BY <1>20, GoToType DEF StreamBreaks, At, Handler
<1>21. ASSUME NEW c \in Call, PipeEnds(c) PROVE TypeOK'
  BY <1>21, GoToType DEF PipeEnds, Handler
<1> QED
  BY <1>1, <1>2, <1>3, <1>4, <1>5, <1>6, <1>7, <1>8, <1>9, <1>10,
     <1>11, <1>12, <1>13, <1>14, <1>15, <1>16, <1>17, <1>18,
     <1>19, <1>20, <1>21 DEF Next
-----------------------------------------------------------------------------
(* Where one call can be.                                                   *)

\* What a new fetch of the page changes of a call.
LEMMA FetchEffect ==
  ASSUME TypeOK, NEW c \in Call, NEW d \in Call, FetchOrigin(c)
  PROVE  /\ at'[d] = IF d = c THEN "origin" ELSE at[d]
         /\ origin'[d]["page"] = IF d = c THEN "sent" ELSE origin[d]["page"]
         /\ origin'[d]["worker"] = origin[d]["worker"]
BY DEF FetchOrigin, TypeOK, Path

\* What forwarding, and the answer to it, changes of a call.
LEMMA WorkerFetchEffect ==
  ASSUME TypeOK, NEW c \in Call, NEW d \in Call, NEW s,
         origin' = [origin EXCEPT ![c]["worker"] = s]
  PROVE  /\ origin'[d]["page"] = origin[d]["page"]
         /\ origin'[d]["worker"] = IF d = c THEN s ELSE origin[d]["worker"]
BY DEF TypeOK, Path

\* Every step keeps Placed: the call it is about moves from one allowed place
\* to another, and the others do not move.
LEMMA PlacedStep ==
  ASSUME TypeOK, \A c \in Call : Placed(c), [Next]_vars, NEW d \in Call
  PROVE  Placed(d)'
<1> USE DEF Placed, Fresh, OneHandler, SentByPage, EdgeAnswer, NoJson,
            ChargedOnce, Api, Unlinked, retryable, TypeOK, client, edge
<1>1. CASE CooldownOver
  BY <1>1 DEF CooldownOver
<1>2. ASSUME NEW c \in Call, Start(c) PROVE Placed(d)'
  <2>1. CASE FetchOrigin(c) /\ UNCHANGED worker /\ ~Api(c)
    <3>1. /\ at'[d] = IF d = c THEN "origin" ELSE at[d]
          /\ origin'[d]["page"] = IF d = c THEN "sent" ELSE origin[d]["page"]
          /\ origin'[d]["worker"] = origin[d]["worker"]
      BY <2>1, FetchEffect
    <3>2. CASE d = c
      BY <1>2, <2>1, <3>1, <3>2 DEF Start
    <3>3. CASE d # c
      BY <1>2, <2>1, <3>1, <3>3 DEF Start
    <3> QED
      BY <3>2, <3>3
  <2>2. CASE /\ at' = [at EXCEPT ![c] = "edge"]
             /\ worker' = [worker EXCEPT ![c] = "arrived"]
             /\ UNCHANGED origin /\ (Api(c) \/ mode # "go")
    BY <1>2, <2>2 DEF Start
  <2> QED
    BY <1>2, <2>1, <2>2 DEF Start
<1>3. ASSUME NEW c \in Call, EdgeAttemptFails(c) PROVE Placed(d)'
  BY <1>3 DEF EdgeAttemptFails, Rejected
<1>4. ASSUME NEW c \in Call, HandleRejection(c) PROVE Placed(d)'
  <2>1. CASE FallsBack(c) /\ FetchOrigin(c)
    <3>1. /\ at'[d] = IF d = c THEN "origin" ELSE at[d]
          /\ origin'[d]["page"] = IF d = c THEN "sent" ELSE origin[d]["page"]
          /\ origin'[d]["worker"] = origin[d]["worker"]
      BY <2>1, FetchEffect
    <3>2. CASE d = c
      BY <1>4, <2>1, <3>1, <3>2 DEF HandleRejection, FallsBack
    <3>3. CASE d # c
      BY <1>4, <2>1, <3>1, <3>3 DEF HandleRejection, FallsBack
    <3> QED
      BY <3>2, <3>3
  <2>2. CASE Settle(c) /\ UNCHANGED <<down, origin>>
    BY <1>4, <2>2 DEF HandleRejection, Settle
  <2> QED
    BY <1>4, <2>1, <2>2 DEF HandleRejection
<1>5. ASSUME NEW c \in Call, EdgeHeaders(c) PROVE Placed(d)'
  <2>1. CASE retryable(c) /\ ~Api(c) /\ FetchOrigin(c) /\ UNCHANGED <<via, answer>>
    <3>1. /\ at'[d] = IF d = c THEN "origin" ELSE at[d]
          /\ origin'[d]["page"] = IF d = c THEN "sent" ELSE origin[d]["page"]
          /\ origin'[d]["worker"] = origin[d]["worker"]
      BY <2>1, FetchEffect
    <3>2. CASE d = c
      BY <1>5, <2>1, <3>1, <3>2 DEF EdgeHeaders
    <3>3. CASE d # c
      BY <1>5, <2>1, <3>1, <3>3 DEF EdgeHeaders
    <3> QED
      BY <3>2, <3>3
  <2>2. CASE /\ at' = [at EXCEPT ![c] = "body"]
             /\ via' = [via EXCEPT ![c] = "edge"]
             /\ answer' = [answer EXCEPT ![c] = reply[c]]
             /\ UNCHANGED origin
    <3>1. CASE d = c
      BY <1>5, <2>2, <3>1 DEF EdgeHeaders
    <3>2. CASE d # c
      BY <1>5, <2>2, <3>2 DEF EdgeHeaders
    <3> QED
      BY <3>1, <3>2
  <2> QED
    BY <1>5, <2>1, <2>2 DEF EdgeHeaders
<1>6. ASSUME NEW c \in Call, OriginHeaders(c) PROVE Placed(d)'
  BY <1>6 DEF OriginHeaders
<1>7. ASSUME NEW c \in Call, ConnectionLost(c) PROVE Placed(d)'
  BY <1>7 DEF ConnectionLost, Settle
<1>8. ASSUME NEW c \in Call, Abort(c) PROVE Placed(d)'
  BY <1>8 DEF Abort, Linked, Rejected
<1>9. ASSUME NEW c \in Call, BodyEnds(c) PROVE Placed(d)'
  BY <1>9 DEF BodyEnds, Flowing
<1>10. ASSUME NEW c \in Call, ChunkAfterAbort(c) PROVE Placed(d)'
  BY <1>10 DEF ChunkAfterAbort, Settle
<1>11. ASSUME NEW c \in Call, Handle(c) PROVE Placed(d)'
  <2>1. CASE Answer(c, "refused") /\ UNCHANGED <<peak, origin>>
    BY <1>11, <2>1 DEF Handle, Answer, Send
  <2>2. CASE ProxyTo(c)
    BY <1>11, <2>2, WorkerFetchEffect DEF Handle, ProxyTo, GoTo
  <2>3. CASE Api(c) /\ GoTo(c, "upstream") /\ UNCHANGED origin
    BY <1>11, <2>3 DEF Handle, GoTo
  <2> QED
    BY <1>11, <2>1, <2>2, <2>3 DEF Handle
<1>12. ASSUME NEW c \in Call, Upstream(c) PROVE Placed(d)'
  <2>1. CASE d # c
    BY <1>12, <2>1 DEF Upstream, Answer, Send
  <2>2. CASE d = c /\ UNCHANGED ran /\ \E s \in Status : Answer(c, s)
    BY <1>12, <2>2 DEF Upstream, Answer, Send
  <2>3. CASE /\ d = c /\ kind[c] = "apijson" /\ Answer(c, "gateway")
             /\ ran' = [ran EXCEPT ![c] = @ \cup {"edge"}]
    <3>1. at[c] \in {"edge", "settled", "stopped"}
      BY <1>12, <2>3 DEF Upstream, At
    <3>2. /\ worker'[c] = "done" /\ (at[c] = "edge" => reply'[c] = "gateway")
          /\ ran'[c] = ran[c] \cup {"edge"}
      BY <2>3 DEF Answer, Send
    <3> QED
      BY <1>12, <2>3, <3>1, <3>2 DEF Upstream
  <2>4. CASE /\ d = c /\ Send(c, "ok")
             /\ ran' = [ran EXCEPT ![c] = @ \cup {"edge"}]
             /\ worker' = [worker EXCEPT ![c] =
                  IF kind[c] = "apistream" THEN "stream" ELSE "logging"]
    BY <1>12, <2>4 DEF Upstream, Send
  <2> QED
    BY <1>12, <2>1, <2>2, <2>3, <2>4 DEF Upstream, Status
<1>13. ASSUME NEW c \in Call, Flush(c) PROVE Placed(d)'
  BY <1>13 DEF Flush, GoTo, AfterStream
<1>14. ASSUME NEW c \in Call, Cancelled(c) PROVE Placed(d)'
  BY <1>14 DEF Cancelled, Gone, Ended, GoTo
<1>15. ASSUME NEW c \in Call, LogUsage(c) PROVE Placed(d)'
  BY <1>15 DEF LogUsage, GoTo, AfterLog
<1>16. ASSUME NEW c \in Call, ProxyReply(c) PROVE Placed(d)'
  <2>1. PICK s \in Status, h \in {"piping", "done"} :
          Send(c, s) /\ worker' = [worker EXCEPT ![c] = h]
    BY <1>16 DEF ProxyReply, Answer, Status
  <2>2. /\ origin'[d]["page"] = origin[d]["page"]
        /\ origin'[d]["worker"] \in {"none", origin[d]["worker"]}
    <3>1. CASE origin' = [origin EXCEPT ![c]["worker"] = "none"]
      BY <3>1, WorkerFetchEffect
    <3>2. CASE UNCHANGED origin
      BY <3>2
    <3> QED
      BY <1>16, <3>1, <3>2 DEF ProxyReply
  <2> QED
    BY <1>16, <2>1, <2>2 DEF ProxyReply, Send
<1>17. ASSUME NEW c \in Call, NEW p \in Path, Serve(c, p)
       PROVE  Placed(d)'
  BY <1>17 DEF Serve, Told, Awaited, Path
<1>18. CASE UNCHANGED vars
  BY <1>18 DEF vars
<1>19. ASSUME NEW c \in Call, StopsAtDone(c) PROVE Placed(d)'
  BY <1>19 DEF StopsAtDone
<1>20. ASSUME NEW c \in Call, StreamBreaks(c) PROVE Placed(d)'
  <2>1. at[c] \in {"edge", "body", "settled", "stopped"}
    BY <1>20 DEF StreamBreaks, At
  <2>2. at'[c] \in {"settled", "stopped"} /\ worker'[c] = "done"
    BY <1>20, <2>1 DEF StreamBreaks, GoTo
  <2>3. CASE d = c
    BY <1>20, <2>2, <2>3 DEF StreamBreaks, GoTo
  <2>4. CASE d # c
    BY <1>20, <2>4 DEF StreamBreaks, GoTo
  <2> QED
    BY <2>3, <2>4
<1>21. ASSUME NEW c \in Call, PipeEnds(c) PROVE Placed(d)'
  BY <1>21 DEF PipeEnds, GoTo
<1> QED
  BY <1>1, <1>2, <1>3, <1>4, <1>5, <1>6, <1>7, <1>8, <1>9, <1>10,
     <1>11, <1>12, <1>13, <1>14, <1>15, <1>16, <1>17, <1>18,
     <1>19, <1>20, <1>21 DEF Next
-----------------------------------------------------------------------------
(* The charges of the calls under way.                                      *)

\* Stated once, for the prover multiplies only where it is told to.
LEMMA TimesMonotone ==
  ASSUME NEW m \in Nat, NEW a \in Nat, NEW b \in Nat, a <= b
  PROVE  m * a \in Nat /\ m * b \in Nat /\ m * a <= m * b
OBVIOUS

\* Fewer calls under way and nothing charged: what is reserved shrinks.
LEMMA FewerUnderWay ==
  ASSUME TypeOK, Budgeted, UnderWay' \subseteq UnderWay,
         UNCHANGED <<used, peak>>
  PROVE  Budgeted'
<1> DEFINE n == Cardinality(UnderWay)
           n1 == Cardinality(UnderWay')
<1>1. n \in Nat /\ n1 \in Nat /\ n1 <= n
  BY UnderWayFinite, FS_Subset, FS_CardinalityType
<1>2. /\ MaxTokens * n1 <= MaxTokens * n /\ MaxTokens * peak \in Nat
      /\ MaxTokens * n \in Nat /\ MaxTokens * n1 \in Nat
  <2>1. MaxTokens \in Nat /\ peak \in Nat
    BY BudgetAssumption DEF TypeOK
  <2> HIDE DEF n, n1
  <2> QED
    BY <1>1, <2>1, TimesMonotone
<1>3. Daily \in Int
  BY BudgetAssumption DEF Daily
<1>4. Budgeted' <=>
        /\ n1 <= peak
        /\ Metered => used + MaxTokens * n1 <= Daily - 1 + MaxTokens * peak
  BY DEF Budgeted
<1>5. /\ n <= peak
      /\ Metered => used + MaxTokens * n <= Daily - 1 + MaxTokens * peak
  BY DEF Budgeted
<1> HIDE DEF n, n1
<1> QED
  BY <1>1, <1>2, <1>3, <1>4, <1>5 DEF TypeOK

\* A direct call begins: it has been compared with the budget, so that even
\* the charges of all calls under way start from less than a day's share.
LEMMA OneMoreUnderWay ==
  ASSUME TypeOK, Budgeted, NEW c \in Call, c \notin UnderWay,
         UnderWay' = UnderWay \cup {c}, used' = used,
         Metered => WithinBudget(used),
         peak' = Larger(peak, Cardinality(UnderWay) + 1)
  PROVE  Budgeted'
<1> DEFINE n == Cardinality(UnderWay)
<1>1. n \in Nat /\ Cardinality(UnderWay') = n + 1
  BY UnderWayFinite, FS_AddElement
<1>2. peak' \in Nat /\ n + 1 <= peak'
  BY <1>1 DEF Larger, TypeOK
<1>3. /\ MaxTokens * (n + 1) <= MaxTokens * peak'
      /\ MaxTokens * (n + 1) \in Nat /\ MaxTokens * peak' \in Nat
  <2>1. MaxTokens \in Nat /\ n + 1 \in Nat
    BY <1>1, BudgetAssumption
  <2> HIDE DEF n
  <2> QED
    BY <1>2, <2>1, TimesMonotone
<1>4. Daily \in Int /\ (Metered => used <= Daily - 1)
  BY BudgetAssumption DEF Daily, WithinBudget, TypeOK
<1>5. Budgeted' <=>
        /\ n + 1 <= peak'
        /\ Metered =>
             used + MaxTokens * (n + 1) <= Daily - 1 + MaxTokens * peak'
  BY <1>1 DEF Budgeted
<1> HIDE DEF n
<1> QED
  BY <1>1, <1>2, <1>3, <1>4, <1>5 DEF TypeOK

\* A direct call is charged, or its charge is lost: it reserves no more.
LEMMA OneLessUnderWay ==
  ASSUME TypeOK, Budgeted, NEW c \in UnderWay, UnderWay' = UnderWay \ {c},
         NEW t \in 0..MaxTokens, used' = used + t, UNCHANGED peak
  PROVE  Budgeted'
<1> DEFINE n == Cardinality(UnderWay)
<1>1. n \in Nat /\ n - 1 \in Nat /\ Cardinality(UnderWay') = n - 1
  BY UnderWayFinite, FS_RemoveElement, FS_CardinalityType, FS_Subset
<1>2. /\ MaxTokens * (n - 1) = MaxTokens * n - MaxTokens
      /\ MaxTokens * n \in Nat /\ MaxTokens * peak \in Nat
  BY <1>1, BudgetAssumption DEF TypeOK
<1>3. Daily \in Int
  BY BudgetAssumption DEF Daily
<1>4. Budgeted' <=>
        /\ n - 1 <= peak
        /\ Metered =>
             used + t + MaxTokens * (n - 1) <= Daily - 1 + MaxTokens * peak
  BY <1>1 DEF Budgeted
<1>5. /\ n <= peak
      /\ Metered => used + MaxTokens * n <= Daily - 1 + MaxTokens * peak
  BY DEF Budgeted
<1> HIDE DEF n
<1> QED
  BY <1>1, <1>2, <1>3, <1>4, <1>5, BudgetAssumption DEF TypeOK

\* Every step keeps Budgeted: Handle reserves, LogUsage charges, and no other
\* step adds to the calls under way.
LEMMA BudgetedStep ==
  ASSUME TypeOK, Budgeted, [Next]_vars
  PROVE  Budgeted'
<1> USE DEF client, edge
<1>1. CASE CooldownOver
  BY <1>1, FewerUnderWay DEF CooldownOver, UnderWay
<1>2. ASSUME NEW c \in Call, Start(c) PROVE Budgeted'
  <2>1. UnderWay' \subseteq UnderWay
    BY <1>2 DEF Start, UnderWay, TypeOK
  <2> QED
    BY <1>2, <2>1, FewerUnderWay DEF Start
<1>3. ASSUME NEW c \in Call, EdgeAttemptFails(c) PROVE Budgeted'
  <2>1. UnderWay' \subseteq UnderWay
    BY <1>3 DEF EdgeAttemptFails, UnderWay, TypeOK
  <2> QED
    BY <1>3, <2>1, FewerUnderWay DEF EdgeAttemptFails
<1>4. ASSUME NEW c \in Call, HandleRejection(c) PROVE Budgeted'
  BY <1>4, FewerUnderWay DEF HandleRejection, UnderWay
<1>5. ASSUME NEW c \in Call, EdgeHeaders(c) PROVE Budgeted'
  BY <1>5, FewerUnderWay DEF EdgeHeaders, UnderWay
<1>6. ASSUME NEW c \in Call, OriginHeaders(c) PROVE Budgeted'
  BY <1>6, FewerUnderWay DEF OriginHeaders, UnderWay
<1>7. ASSUME NEW c \in Call, ConnectionLost(c) PROVE Budgeted'
  BY <1>7, FewerUnderWay DEF ConnectionLost, UnderWay
<1>8. ASSUME NEW c \in Call, Abort(c) PROVE Budgeted'
  BY <1>8, FewerUnderWay DEF Abort, UnderWay
<1>9. ASSUME NEW c \in Call, BodyEnds(c) PROVE Budgeted'
  BY <1>9, FewerUnderWay DEF BodyEnds, UnderWay
<1>10. ASSUME NEW c \in Call, ChunkAfterAbort(c) PROVE Budgeted'
  BY <1>10, FewerUnderWay DEF ChunkAfterAbort, UnderWay
<1>11. ASSUME NEW c \in Call, Handle(c) PROVE Budgeted'
  <2>1. CASE Answer(c, "refused") /\ UNCHANGED <<peak, origin>>
    <3>1. UnderWay' \subseteq UnderWay
      BY <1>11, <2>1 DEF Handle, Answer, UnderWay, TypeOK
    <3> QED
      BY <1>11, <2>1, <3>1, FewerUnderWay DEF Handle
  <2>2. CASE ProxyTo(c) /\ UNCHANGED peak
    <3>1. UnderWay' \subseteq UnderWay
      BY <1>11, <2>2 DEF Handle, ProxyTo, GoTo, UnderWay, TypeOK
    <3> QED
      BY <1>11, <2>2, <3>1, FewerUnderWay DEF Handle
  <2>3. CASE /\ Metered => WithinBudget(used)
             /\ GoTo(c, "upstream")
             /\ peak' = Larger(peak, Cardinality(UnderWay) + 1)
    <3>1. c \notin UnderWay /\ UnderWay' = UnderWay \cup {c}
      BY <1>11, <2>3 DEF Handle, GoTo, UnderWay, TypeOK
    <3> QED
      BY <1>11, <2>3, <3>1, OneMoreUnderWay DEF Handle
  <2> QED
    BY <1>11, <2>1, <2>2, <2>3 DEF Handle
<1>12. ASSUME NEW c \in Call, Upstream(c) PROVE Budgeted'
  <2>1. UnderWay' \subseteq UnderWay
    BY <1>12 DEF Upstream, Answer, Send, UnderWay, TypeOK
  <2> QED
    BY <1>12, <2>1, FewerUnderWay DEF Upstream
<1>13. ASSUME NEW c \in Call, Flush(c) PROVE Budgeted'
  <2>1. UnderWay' \subseteq UnderWay
    BY <1>13 DEF Flush, GoTo, AfterStream, UnderWay, TypeOK
  <2> QED
    BY <1>13, <2>1, FewerUnderWay DEF Flush
<1>14. ASSUME NEW c \in Call, Cancelled(c) PROVE Budgeted'
  <2>1. UnderWay' \subseteq UnderWay
    BY <1>14 DEF Cancelled, GoTo, UnderWay, TypeOK
  <2> QED
    BY <1>14, <2>1, FewerUnderWay DEF Cancelled
<1>15. ASSUME NEW c \in Call, LogUsage(c) PROVE Budgeted'
  <2>1. c \in UnderWay /\ UnderWay' = UnderWay \ {c}
    BY <1>15 DEF LogUsage, GoTo, AfterLog, UnderWay, TypeOK
  <2>2. PICK t \in 0..MaxTokens : used' = used + t
    BY <1>15, BudgetAssumption DEF LogUsage, TypeOK
  <2> QED
    BY <1>15, <2>1, <2>2, OneLessUnderWay DEF LogUsage
<1>16. ASSUME NEW c \in Call, ProxyReply(c) PROVE Budgeted'
  <2>1. UnderWay' \subseteq UnderWay
    BY <1>16 DEF ProxyReply, Answer, Send, UnderWay, TypeOK
  <2> QED
    BY <1>16, <2>1, FewerUnderWay DEF ProxyReply
<1>17. ASSUME NEW c \in Call, NEW p \in Path, Serve(c, p)
       PROVE  Budgeted'
  BY <1>17, FewerUnderWay DEF Serve, UnderWay
<1>18. CASE UNCHANGED vars
  BY <1>18, FewerUnderWay DEF vars, UnderWay
<1>19. ASSUME NEW c \in Call, StopsAtDone(c) PROVE Budgeted'
  BY <1>19, FewerUnderWay DEF StopsAtDone, UnderWay
<1>20. ASSUME NEW c \in Call, StreamBreaks(c) PROVE Budgeted'
  <2>1. UnderWay' \subseteq UnderWay
    BY <1>20 DEF StreamBreaks, GoTo, UnderWay, TypeOK
  <2> QED
    BY <1>20, <2>1, FewerUnderWay DEF StreamBreaks
<1>21. ASSUME NEW c \in Call, PipeEnds(c) PROVE Budgeted'
  <2>1. UnderWay' \subseteq UnderWay
    BY <1>21 DEF PipeEnds, GoTo, UnderWay, TypeOK
  <2> QED
    BY <1>21, <2>1, FewerUnderWay DEF PipeEnds
<1> QED
  BY <1>1, <1>2, <1>3, <1>4, <1>5, <1>6, <1>7, <1>8, <1>9, <1>10,
     <1>11, <1>12, <1>13, <1>14, <1>15, <1>16, <1>17, <1>18,
     <1>19, <1>20, <1>21 DEF Next
-----------------------------------------------------------------------------
(* The theorems.                                                            *)

\* The invariant holds at the start and is kept.
LEMMA InvInit == Init => IInv
<1> SUFFICES ASSUME Init PROVE IInv
  OBVIOUS
<1>1. TypeOK
  <2>1. /\ kind \in [Call -> Kind]
        /\ mode \in {"go", "cloudflare"} /\ down \in BOOLEAN
    BY CallAssumption DEF Init
  <2>2. origin \in [Call -> [Path -> {"none", "sent", "answered"} \cup Status]]
    BY DEF Init
  <2>3. /\ at \in [Call -> At] /\ worker \in [Call -> Handler]
        /\ via \in [Call -> {"none"} \cup {"edge", "origin"}]
        /\ answer \in [Call -> {"none"} \cup Status]
        /\ reply \in [Call -> {"none"} \cup Status]
    BY DEF Init, At, Handler
  <2> QED
    BY <2>1, <2>2, <2>3 DEF Init, TypeOK
<1>2. \A c \in Call : Placed(c)
  BY DEF Init, Placed, Fresh, OneHandler, SentByPage, EdgeAnswer, NoJson,
         ChargedOnce, Unlinked, Path
<1>3. UnderWay = {}
  BY DEF Init, UnderWay
<1>4. Budgeted
  BY <1>1, <1>3, FS_EmptySet, BudgetAssumption DEF Init, Budgeted, Daily
<1> QED
  BY <1>1, <1>2, <1>4 DEF IInv

LEMMA InvHolds == Spec => []IInv
<1>1. ASSUME IInv, [Next]_vars PROVE IInv'
  <2>1. TypeOK'
    BY <1>1, TypeStep DEF IInv, Placed
  <2>2. (\A c \in Call : Placed(c))'
    BY <1>1, PlacedStep DEF IInv
  <2> QED
    BY <1>1, <2>1, <2>2, BudgetedStep DEF IInv
<1> QED
  BY InvInit, <1>1, PTL DEF Spec

\* Every variable of every call keeps its type; no call writes two rows.
THEOREM TypeCorrect == Spec => []TypeOK
BY InvHolds, PTL DEF IInv

\* A call that was executed twice was run by the origin for the Worker and for
\* the page, which could send it again (edge.ts, cloudflare.js).
THEOREM DoubleRunsExplained == Spec => []DoubleRunExplained
<1>1. ASSUME IInv PROVE DoubleRunExplained
  <2> SUFFICES ASSUME NEW c \in Call, Cardinality(ran[c]) > 1
               PROVE  /\ mode = "cloudflare" /\ retryable(c)
                      /\ ran[c] = {"page", "worker"} /\ via[c] # "edge"
    BY DEF DoubleRunExplained
  <2>1. Placed(c) /\ ran[c] \subseteq {"edge", "page", "worker"}
    BY <1>1 DEF IInv, TypeOK
  <2>2. /\ ~("edge" \in ran[c] /\ "worker" \in ran[c])
        /\ ~("edge" \in ran[c] /\ "page" \in ran[c])
    BY <2>1 DEF Placed, OneHandler, SentByPage
  <2>3. \A x : ran[c] # {x}
    BY FS_Singleton
  <2>4. ran[c] # {}
    BY FS_EmptySet
  <2>5. ran[c] = {"page", "worker"}
    BY <2>1, <2>2, <2>3, <2>4
  <2> QED
    BY <2>1, <2>5 DEF Placed, Fresh, OneHandler, SentByPage
<1> QED
  BY <1>1, InvHolds, PTL

\* Whoever reads a direct answer to the end of its body is charged, unless
\* logUsage gave up: a call run by the Worker without a row was stopped or left
\* earlier, broke, or was answered with no JSON (cloudflare.js).
THEOREM UnchargedIsExplained == Spec => []UnchargedExplained
<1>1. IInv => UnchargedExplained
  BY DEF IInv, Placed, ChargedOnce, NoJson, UnchargedExplained
<1> QED
  BY <1>1, InvHolds, PTL

\* The daily budget is exceeded by less than one charge for each call that
\* has been under way at the same time (cloudflare.js).
THEOREM OvershootBounded == Spec => []OvershootByOverlap
<1>1. ASSUME IInv PROVE OvershootByOverlap
  <2>1. used \in Nat /\ peak \in Nat /\ Cardinality(UnderWay) \in Nat
    BY <1>1, UnderWayFinite DEF IInv, TypeOK
  <2>2. MaxTokens * Cardinality(UnderWay) \in Nat /\ MaxTokens * peak \in Nat
    BY <2>1, BudgetAssumption
  <2>3. Daily \in Int
    BY BudgetAssumption DEF Daily
  <2>4. Metered =>
          used + MaxTokens * Cardinality(UnderWay)
            <= Daily - 1 + MaxTokens * peak
    BY <1>1 DEF IInv, Budgeted
  <2> QED
    BY <2>1, <2>2, <2>3, <2>4 DEF OvershootByOverlap
<1> QED
  BY <1>1, InvHolds, PTL

\* A call that its owner has aborted is not sent to the origin by the page
\* afterwards, whatever the timer of the edge attempt does (edge.ts).
THEOREM NoFireAfterAbort == Spec => AbortedNeverRefires
<1> DEFINE Quiet == \A c \in Call : aborted[c] /\ origin[c]["page"] = "none"
                                      => origin'[c]["page"] = "none"
<1>1. ASSUME IInv, [Next]_vars PROVE Quiet
  <2> SUFFICES ASSUME NEW c \in Call, aborted[c], origin[c]["page"] = "none"
               PROVE  origin'[c]["page"] = "none"
    OBVIOUS
  <2>1. TypeOK /\ at[c] \notin {"idle", "edge", "origin"}
    BY <1>1 DEF IInv, Placed, Unlinked
  <2>2. ASSUME NEW d \in Call, FetchOrigin(d), d # c
        PROVE  origin'[c]["page"] = "none"
    BY <2>1, <2>2, FetchEffect
  <2>3. ASSUME NEW d \in Call, NEW s,
               origin' = [origin EXCEPT ![d]["worker"] = s]
        PROVE  origin'[c]["page"] = "none"
    BY <2>1, <2>3, WorkerFetchEffect
  <2>4. ASSUME UNCHANGED origin PROVE origin'[c]["page"] = "none"
    BY <2>4
  <2>5. ASSUME NEW d \in Call, Start(d) PROVE origin'[c]["page"] = "none"
    BY <2>1, <2>2, <2>4, <2>5 DEF Start
  <2>6. ASSUME NEW d \in Call, HandleRejection(d)
        PROVE  origin'[c]["page"] = "none"
    BY <2>2, <2>4, <2>6 DEF HandleRejection, FallsBack
  <2>7. ASSUME NEW d \in Call, EdgeHeaders(d) PROVE origin'[c]["page"] = "none"
    BY <2>1, <2>2, <2>4, <2>7 DEF EdgeHeaders
  <2>8. ASSUME NEW d \in Call, OriginHeaders(d)
        PROVE  origin'[c]["page"] = "none"
    BY <2>1, <2>8 DEF OriginHeaders, TypeOK, Path
  <2>9. ASSUME NEW d \in Call, Handle(d) \/ ProxyReply(d)
        PROVE  origin'[c]["page"] = "none"
    BY <2>3, <2>4, <2>9 DEF Handle, ProxyTo, ProxyReply
  <2>10. ASSUME NEW d \in Call, NEW p \in Path, Serve(d, p)
         PROVE  origin'[c]["page"] = "none"
    BY <2>1, <2>10 DEF Serve, TypeOK, Path
  <2>11. ASSUME NEW d \in Call,
                \/ EdgeAttemptFails(d) \/ ConnectionLost(d) \/ Abort(d)
                \/ BodyEnds(d) \/ StopsAtDone(d) \/ ChunkAfterAbort(d)
                \/ Upstream(d) \/ Flush(d) \/ StreamBreaks(d)
                \/ Cancelled(d) \/ LogUsage(d) \/ PipeEnds(d)
         PROVE  origin'[c]["page"] = "none"
    BY <2>4, <2>11 DEF EdgeAttemptFails, ConnectionLost, Abort, BodyEnds,
         StopsAtDone, ChunkAfterAbort, Upstream, Flush, StreamBreaks,
         Cancelled, LogUsage, PipeEnds, edge
  <2>12. CASE CooldownOver \/ UNCHANGED vars
    BY <2>4, <2>12 DEF CooldownOver, vars
  <2> QED
    BY <1>1, <2>5, <2>6, <2>7, <2>8, <2>9, <2>10, <2>11, <2>12 DEF Next
<1> QED
  BY <1>1, InvHolds, PTL DEF Spec, AbortedNeverRefires
=============================================================================
