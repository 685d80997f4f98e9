----------------------------- MODULE ChatSlots -----------------------------
(***************************************************************************)
(* The concurrency limits of backend/proxy/router.py: the global and the   *)
(* per-user LLM semaphores taken by chat completions, and the counter of   *)
(* concurrent Claude requests kept for chat completions and /v1/messages.  *)
(*                                                                         *)
(* A Request is a client connection that makes one call after another for  *)
(* one user.  All handlers run on one event loop: an action is the code    *)
(* between two awaits that suspend.  Everything here is the state of one   *)
(* worker process; the deployment runs two, which share none of it.        *)
(*                                                                         *)
(* asyncio.Semaphore is a library, of which the image of                   *)
(* deploy/backend.Dockerfile has the version of Python 3.10: a count of    *)
(* free slots and a queue of waiters.  release() adds a slot and passes it *)
(* to the first waiter not yet woken.  A woken waiter stays in the queue   *)
(* until the loop resumes it, in the order of the wake-ups; meanwhile      *)
(* acquire() makes newcomers wait even if a slot is free, and the waiter   *)
(* that resumes passes a free slot on.                                     *)
(***************************************************************************)
EXTENDS Integers, FiniteSets, Sequences

CONSTANTS Request, User,
          Owner,        \* Owner[r]: the user behind r
          Claude,       \* the requests for a model of CLAUDE_EXTRA_MODELS
          GlobalSlots,  \* _LLM_SEMAPHORE, 30
          UserSlots,    \* each semaphore of _USER_LLM_SEMAPHORES, 3
          ClaudeLimit   \* _CLAUDE_CONCURRENT_LIMIT, 2

ASSUME RequestAssumption ==
  /\ IsFiniteSet(Request)
  /\ Owner \in [Request -> User]
  /\ Claude \subseteq Request
ASSUME SlotAssumption ==
  /\ GlobalSlots \in Nat \ {0}
  /\ UserSlots \in Nat \ {0}
  /\ ClaudeLimit \in Nat \ {0}

VARIABLES pc,             \* where each request's handler is
          globalFree,     \* _LLM_SEMAPHORE: free slots ...
          globalWaiting,  \* ... and waiters
          userFree,       \* _USER_LLM_SEMAPHORES[u]: free slots ...
          userWaiting,    \* ... and waiters
          claudeActive    \* _CLAUDE_CONCURRENT

slotVars == <<globalFree, globalWaiting, userFree, userWaiting>>
vars == <<pc, slotVars, claudeActive>>

\* "wokenGlobal", "wokenUser": handed a slot, not yet resumed.  "running":
\* chat handler awaiting its provider.  "messages": /v1/messages handler
\* awaiting its provider.  "ready": StreamingResponse returned, body iterator
\* not begun.
Location == {"idle", "waitGlobal", "wokenGlobal", "waitUser", "wokenUser",
             "running", "messages", "ready", "streaming"}

Init ==
  /\ pc = [r \in Request |-> "idle"]
  /\ globalFree = GlobalSlots
  /\ globalWaiting = <<>>
  /\ userFree = [u \in User |-> UserSlots]
  /\ userWaiting = [u \in User |-> <<>>]
  /\ claudeActive = [u \in User |-> 0]

-----------------------------------------------------------------------------
\* Mutant of AcquireClaude: the limit is not checked.
AcquireClaudeUnchecked(r) ==
  claudeActive' = [claudeActive EXCEPT ![Owner[r]] = @ + 1]

\* _acquire_claude_concurrent; the guard is the branch that answers 429.
AcquireClaude(r) ==
  /\ claudeActive[Owner[r]] < ClaudeLimit
  /\ claudeActive' = [claudeActive EXCEPT ![Owner[r]] = @ + 1]

\* Mutant of ReleaseClaude: the user's entry is popped from the dictionary.
ReleaseClaudePop(r) ==
  claudeActive' = IF r \in Claude
                  THEN [claudeActive EXCEPT ![Owner[r]] = 0]
                  ELSE claudeActive

\* _release_claude_concurrent, for the requests that hold a count.
ReleaseClaude(r) ==
  claudeActive' = IF r \in Claude
                  THEN [claudeActive EXCEPT ![Owner[r]] =
                          IF @ > 0 THEN @ - 1 ELSE 0]
                  ELSE claudeActive

\* _wake_up_next: the first waiter of queue s still asleep at l, if any.
FirstAsleep(s, l) ==
  {s[i] : i \in {k \in 1..Len(s) :
                   pc[s[k]] = l /\ \A j \in 1..(k - 1) : pc[s[j]] # l}}

\* A semaphore with `free` slots has woken the waiters in W (at most one).
AfterWaking(free, W) == IF W = {} THEN free ELSE free - 1

\* pc when r goes to l and the waiters in G and U are woken.
Move(r, l, G, U) ==
  pc' = [q \in Request |-> IF q = r THEN l
                           ELSE IF q \in G THEN "wokenGlobal"
                           ELSE IF q \in U THEN "wokenUser"
                           ELSE pc[q]]

\* The rest of _acquire_llm_slot once r holds the global slot; in the same
\* step the waiters in G are handed a global slot.
EnterUser(r, G) ==
  LET u == Owner[r] IN
  IF userFree[u] > 0 /\ userWaiting[u] = <<>>
  THEN /\ userFree' = [userFree EXCEPT ![u] = @ - 1]
       /\ Move(r, "running", G, {})
       /\ UNCHANGED userWaiting
  ELSE /\ userWaiting' = [userWaiting EXCEPT ![u] = Append(@, r)]
       /\ Move(r, "waitUser", G, {})
       /\ UNCHANGED userFree

\* Mutants of LeaveSlots: the first release() raises and the second is not
\* tried; release() wakes nobody.
LeaveSlotsUserOnly(r, l) ==
  LET u == Owner[r]
      U == FirstAsleep(userWaiting[u], "waitUser")
  IN
  /\ Move(r, l, {}, U)
  /\ userFree' = [userFree EXCEPT ![u] = AfterWaking(@ + 1, U)]
  /\ UNCHANGED <<globalFree, globalWaiting, userWaiting>>

LeaveSlotsSilently(r, l) ==
  /\ Move(r, l, {}, {})
  /\ userFree' = [userFree EXCEPT ![Owner[r]] = @ + 1]
  /\ globalFree' = globalFree + 1
  /\ UNCHANGED <<globalWaiting, userWaiting>>

\* _release_llm_slot: r leaves for location l; both semaphores are released.
LeaveSlots(r, l) ==
  LET u == Owner[r]
      U == FirstAsleep(userWaiting[u], "waitUser")
      G == FirstAsleep(globalWaiting, "waitGlobal")
  IN
  /\ Move(r, l, G, U)
  /\ userFree' = [userFree EXCEPT ![u] = AfterWaking(@ + 1, U)]
  /\ globalFree' = AfterWaking(globalFree + 1, G)
  /\ UNCHANGED <<globalWaiting, userWaiting>>

-----------------------------------------------------------------------------
\* _handle_chat_completions up to the first await that suspends.
ChatEnter(r) ==
  /\ pc[r] = "idle"
  /\ IF r \in Claude THEN AcquireClaude(r) ELSE UNCHANGED claudeActive
  /\ IF globalFree > 0 /\ globalWaiting = <<>>
     THEN /\ globalFree' = globalFree - 1
          /\ EnterUser(r, {})
          /\ UNCHANGED globalWaiting
     ELSE /\ globalWaiting' = Append(globalWaiting, r)
          /\ Move(r, "waitGlobal", {}, {})
          /\ UNCHANGED <<globalFree, userFree, userWaiting>>

\* The waiter that was handed the global slot resumes, passes another free
\* slot on, and goes for its user's semaphore.
ResumeGlobal(r) ==
  /\ pc[r] = "wokenGlobal"
  /\ globalWaiting # <<>> /\ r = Head(globalWaiting)
  /\ LET G == IF globalFree > 0 THEN FirstAsleep(globalWaiting, "waitGlobal") ELSE {} IN
     /\ globalFree' = AfterWaking(globalFree, G)
     /\ EnterUser(r, G)
  /\ globalWaiting' = Tail(globalWaiting)
  /\ UNCHANGED claudeActive

\* The same for the user's semaphore; the handler starts its provider call.
ResumeUser(r) ==
  LET u == Owner[r]
      U == IF userFree[u] > 0 THEN FirstAsleep(userWaiting[u], "waitUser") ELSE {}
  IN
  /\ pc[r] = "wokenUser"
  /\ userWaiting[u] # <<>> /\ r = Head(userWaiting[u])
  /\ Move(r, "running", {}, U)
  /\ userFree' = [userFree EXCEPT ![u] = AfterWaking(@, U)]
  /\ userWaiting' = [userWaiting EXCEPT ![u] = Tail(@)]
  /\ UNCHANGED <<globalFree, globalWaiting, claudeActive>>

\* The provider call ends in a JSON response (_wrap_claude_response) or in
\* an exception (the except branch): both release the Claude count once, and
\* the finally branch the slots.
ChatAnswer(r) ==
  /\ pc[r] = "running"
  /\ LeaveSlots(r, "idle")
  /\ ReleaseClaude(r)

\* The provider proxy returns a StreamingResponse: the slots are given back
\* before any of the stream is sent, the Claude count is not.
ChatStream(r) ==
  /\ pc[r] = "running"
  /\ LeaveSlots(r, "ready")
  /\ UNCHANGED claudeActive

\* anthropic_messages takes no LLM slot; it counts Claude requests.
MessagesEnter(r) ==
  /\ pc[r] = "idle"
  /\ r \in Claude
  /\ AcquireClaude(r)
  /\ pc' = [pc EXCEPT ![r] = "messages"]
  /\ UNCHANGED slotVars

MessagesAnswer(r) ==
  /\ pc[r] = "messages"
  /\ ReleaseClaude(r)
  /\ pc' = [pc EXCEPT ![r] = "idle"]
  /\ UNCHANGED slotVars

MessagesStream(r) ==
  /\ pc[r] = "messages"
  /\ pc' = [pc EXCEPT ![r] = "ready"]
  /\ UNCHANGED <<slotVars, claudeActive>>

\* A rejected body or a failed provider call: unlike the chat handler this
\* one has no except branch, and the count is not given back.
MessagesRaise(r) ==
  /\ pc[r] = "messages"
  /\ pc' = [pc EXCEPT ![r] = "idle"]
  /\ UNCHANGED <<slotVars, claudeActive>>

StreamBegin(r) ==
  /\ pc[r] = "ready"
  /\ pc' = [pc EXCEPT ![r] = "streaming"]
  /\ UNCHANGED <<slotVars, claudeActive>>

\* The stream ends, fails or is closed: the finally branch of _wrapped runs.
StreamEnd(r) ==
  /\ pc[r] = "streaming"
  /\ ReleaseClaude(r)
  /\ pc' = [pc EXCEPT ![r] = "idle"]
  /\ UNCHANGED slotVars

\* The client left while the provider was being awaited: the server drops
\* the response without starting its iterator, and a generator that never
\* started has no finally branch to run.
StreamDropped(r) ==
  /\ pc[r] = "ready"
  /\ pc' = [pc EXCEPT ![r] = "idle"]
  /\ UNCHANGED <<slotVars, claudeActive>>

Next ==
  \E r \in Request :
    \/ ChatEnter(r) \/ ResumeGlobal(r) \/ ResumeUser(r)
    \/ ChatAnswer(r) \/ ChatStream(r)
    \/ MessagesEnter(r) \/ MessagesAnswer(r) \/ MessagesStream(r)
    \/ MessagesRaise(r)
    \/ StreamBegin(r) \/ StreamEnd(r) \/ StreamDropped(r)

\* A woken coroutine is run by the loop, and every provider call carries a
\* timeout (DEEPSEEK_TIMEOUT and the like), so a running request returns.
Fairness ==
  \A r \in Request : /\ WF_vars(ResumeGlobal(r)) /\ WF_vars(ResumeUser(r))
                     /\ WF_vars(ChatAnswer(r) \/ ChatStream(r))

Spec == Init /\ [][Next]_vars
FairSpec == Spec /\ Fairness

-----------------------------------------------------------------------------
TypeOK ==
  /\ pc \in [Request -> Location]
  /\ globalFree \in 0..GlobalSlots
  /\ globalWaiting \in Seq(Request)
  /\ userFree \in [User -> 0..UserSlots]
  /\ userWaiting \in [User -> Seq(Request)]
  /\ claudeActive \in [User -> 0..ClaudeLimit]

GlobalHolders ==
  {r \in Request : pc[r] \in {"wokenGlobal", "waitUser", "wokenUser", "running"}}

UserHolders(u) ==
  {r \in Request : Owner[r] = u /\ pc[r] \in {"wokenUser", "running"}}

\* Through every mix of hand-overs, waits and early exits, no slot is lost or
\* released twice: free slots and holders add up to the semaphore's size.
SlotAccounting ==
  /\ globalFree + Cardinality(GlobalHolders) = GlobalSlots
  /\ \A u \in User : userFree[u] + Cardinality(UserHolders(u)) = UserSlots

\* No wake-up is lost: a slot is free while requests queue for it only if the
\* first of the queue has been woken and will pass the slot on.
NoLostWakeup ==
  /\ globalFree > 0 /\ globalWaiting # <<>> =>
       pc[Head(globalWaiting)] = "wokenGlobal"
  /\ \A u \in User : userFree[u] > 0 /\ userWaiting[u] # <<>> =>
       pc[Head(userWaiting[u])] = "wokenUser"

\* The Claude requests of u that are counted and still under way.
LiveClaude(u) ==
  {r \in Claude : Owner[r] = u /\ pc[r] # "idle"}

\* The counter never underestimates: the Claude requests of a user that are
\* under way, on either endpoint, never exceed it, nor therefore the limit.
ClaudeCap ==
  \A u \in User : Cardinality(LiveClaude(u)) <= claudeActive[u]

\* The 429 answer tells the client to "wait for current request to finish":
\* once none of a user's Claude requests is under way the counter is back
\* at zero.  Two actions break it, MessagesRaise and StreamDropped.
ClaudeCountReturns ==
  \A u \in User : LiveClaude(u) = {} => claudeActive[u] = 0

\* Every request that has been queued for a slot is served, although waiters
\* for a user slot keep their global slot meanwhile.
EveryWaiterServed ==
  \A r \in Request :
    pc[r] \in {"waitGlobal", "wokenGlobal", "waitUser", "wokenUser"}
      ~> pc[r] = "running"
=============================================================================
