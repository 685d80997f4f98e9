-------------------------- MODULE ChatSlotsProofs --------------------------
(***************************************************************************)
(* Theorems about ChatSlots for any finite set of requests, any users and  *)
(* any semaphore sizes.  Each semaphore is handled by the lemmas of        *)
(* DataLemmas; a step is shown to do one of five things to each: not  *)
(* concern it, take, join, release or resume.                              *)
(***************************************************************************)
EXTENDS ChatSlots, DataLemmas

OfUser(u) == {r \in Request : Owner[r] = u}

GlobalLoc == {"wokenGlobal", "waitUser", "wokenUser", "running"}
UserLoc == {"wokenUser", "running"}

GlobalOK(p, free, q) ==
  SemOK(p, free, GlobalSlots, q, Request, GlobalLoc, "waitGlobal", "wokenGlobal")

UserOK(p, u, free, q) ==
  SemOK(p, free, UserSlots, q, OfUser(u), UserLoc, "waitUser", "wokenUser")

GlobalOthers(p, p2, X) ==
  Unconcerned(p, p2, Request, GlobalLoc, "waitGlobal", "wokenGlobal", X)

UserOthers(p, p2, u, X) ==
  Unconcerned(p, p2, OfUser(u), UserLoc, "waitUser", "wokenUser", X)

\* Every semaphore is consistent with the locations of the handlers.
SlotInv ==
  /\ pc \in [Request -> Location]
  /\ DOMAIN userFree = User /\ userFree = [u \in User |-> userFree[u]]
  /\ userWaiting \in [User -> Seq(Request)]
  /\ GlobalOK(pc, globalFree, globalWaiting)
  /\ \A u \in User : UserOK(pc, u, userFree[u], userWaiting[u])

ClaudeInv ==
  /\ claudeActive \in [User -> 0..ClaudeLimit]
  /\ ClaudeCap

IInv == SlotInv /\ ClaudeInv

-----------------------------------------------------------------------------
LEMMA FiniteRequests ==
  ASSUME NEW S \in SUBSET Request
  PROVE  IsFiniteSet(S) /\ Cardinality(S) \in Nat
BY RequestAssumption, FS_Subset, FS_CardinalityType

LEMMA LiveAreRequests == \A u : LiveClaude(u) \in SUBSET Request
BY RequestAssumption DEF LiveClaude

LEMMA OfUserFinite ==
  ASSUME NEW u
  PROVE  IsFiniteSet(OfUser(u)) /\ OfUser(u) \subseteq Request
<1>1. OfUser(u) \in SUBSET Request
  BY DEF OfUser
<1> QED BY <1>1, FiniteRequests

LEMMA SlotLocations ==
  /\ Locations(GlobalLoc, "waitGlobal", "wokenGlobal")
  /\ Locations(UserLoc, "waitUser", "wokenUser")
BY DEF Locations, GlobalLoc, UserLoc

LEMMA FirstAsleepIs ==
  ASSUME NEW s, NEW l
  PROVE  FirstAsleep(s, l) = FirstAt(pc, s, l)
BY DEF FirstAsleep, FirstAt

\* A released slot goes to the sleeper found, or becomes free.
LEMMA ReleasedCount ==
  ASSUME NEW n \in Nat, NEW W
  PROVE  AfterWaking(n + 1, W) = IF W = {} THEN n + 1 ELSE n
<1>1. CASE W = {}
  BY <1>1 DEF AfterWaking
<1>2. CASE W # {}
  BY <1>2 DEF AfterWaking
<1> QED BY <1>1, <1>2

\* What the invariant says of the properties of ChatSlots.
LEMMA SlotInvGives ==
  ASSUME SlotInv
  PROVE  /\ globalFree \in 0..GlobalSlots
         /\ globalWaiting \in Seq(Request)
         /\ userFree \in [User -> 0..UserSlots]
         /\ SlotAccounting /\ NoLostWakeup
<1>1. GlobalHolders = Holders(pc, Request, GlobalLoc)
  BY DEF GlobalHolders, Holders, GlobalLoc
<1>2. Cardinality(GlobalHolders) \in Nat
  BY <1>1, FiniteHolders, RequestAssumption
<1>3. /\ globalFree \in 0..GlobalSlots /\ globalWaiting \in Seq(Request)
      /\ globalFree + Cardinality(GlobalHolders) = GlobalSlots
      /\ globalFree > 0 /\ globalWaiting # <<>> => pc[Head(globalWaiting)] = "wokenGlobal"
  BY <1>1, <1>2, SlotAssumption DEF SlotInv, GlobalOK, SemOK
<1>4. ASSUME NEW u \in User
      PROVE  /\ userFree[u] \in 0..UserSlots
             /\ userFree[u] + Cardinality(UserHolders(u)) = UserSlots
             /\ userFree[u] > 0 /\ userWaiting[u] # <<>> =>
                  pc[Head(userWaiting[u])] = "wokenUser"
  <2>1. UserHolders(u) = Holders(pc, OfUser(u), UserLoc)
    BY DEF UserHolders, Holders, OfUser, UserLoc
  <2>2. Cardinality(UserHolders(u)) \in Nat
    BY <2>1, FiniteHolders, OfUserFinite
  <2> QED BY <2>1, <2>2, SlotAssumption DEF SlotInv, UserOK, SemOK
<1>5. userFree \in [User -> 0..UserSlots]
  BY <1>4 DEF SlotInv
<1> QED BY <1>3, <1>4, <1>5 DEF SlotAccounting, NoLostWakeup

LEMMA InitIInv == Init => IInv
<1> SUFFICES ASSUME Init PROVE IInv
  OBVIOUS
<1>1. pc = [r \in Request |-> "idle"]
  BY DEF Init
<1>2. Holders(pc, Request, GlobalLoc) = {} /\ \A u : Holders(pc, OfUser(u), UserLoc) = {}
  BY <1>1 DEF Holders, GlobalLoc, UserLoc, OfUser
<1>3. GlobalOK(pc, globalFree, globalWaiting)
  <2>1. globalFree = GlobalSlots /\ globalWaiting = <<>>
    BY DEF Init
  <2>2. <<>> \in Seq(Request)
    OBVIOUS
  <2> QED BY <1>2, <2>1, <2>2, FS_EmptySet, SlotAssumption DEF GlobalOK, SemOK, Distinct
<1>4. ASSUME NEW u \in User PROVE UserOK(pc, u, userFree[u], userWaiting[u])
  <2>1. userFree[u] = UserSlots /\ userWaiting[u] = <<>>
    BY DEF Init
  <2>2. <<>> \in Seq(OfUser(u))
    OBVIOUS
  <2> QED BY <1>2, <2>1, <2>2, FS_EmptySet, SlotAssumption DEF UserOK, SemOK, Distinct
<1>5. SlotInv
  BY <1>1, <1>3, <1>4 DEF Init, SlotInv, Location
<1>6. \A u \in User : LiveClaude(u) = {}
  BY <1>1, RequestAssumption DEF LiveClaude
<1>7. ClaudeInv
  BY <1>6, FS_EmptySet, SlotAssumption DEF Init, ClaudeInv, ClaudeCap
<1> QED BY <1>5, <1>7 DEF IInv

-----------------------------------------------------------------------------
(* The Claude counter. *)

\* Counting a request that was not under way.
LEMMA AcquireClaudeCounts ==
  ASSUME ClaudeInv, NEW r \in Claude, pc[r] = "idle", AcquireClaude(r),
         pc' \in [Request -> Location], pc'[r] # "idle",
         \A q \in Request : q # r => (pc'[q] = "idle" <=> pc[q] = "idle")
  PROVE  ClaudeInv'
<1> DEFINE u == Owner[r]
<1>1. r \in Request /\ u \in User
  BY RequestAssumption
<1>2. /\ claudeActive \in [User -> 0..ClaudeLimit]
      /\ claudeActive[u] < ClaudeLimit
      /\ claudeActive' = [claudeActive EXCEPT ![u] = @ + 1]
      /\ ClaudeLimit \in Nat
  BY SlotAssumption DEF ClaudeInv, AcquireClaude
<1>3. claudeActive' \in [User -> 0..ClaudeLimit]
  BY <1>1, <1>2
<1>4. ASSUME NEW v \in User
      PROVE  Cardinality(LiveClaude(v)') <= claudeActive'[v]
  <2>1. Cardinality(LiveClaude(v)) <= claudeActive[v]
        /\ claudeActive[v] \in Nat
    BY <1>2 DEF ClaudeInv, ClaudeCap
  <2>2. IsFiniteSet(LiveClaude(v)) /\ Cardinality(LiveClaude(v)) \in Nat
    BY LiveAreRequests, FiniteRequests
  <2>3. CASE v = u
    <3>1. LiveClaude(v)' = LiveClaude(v) \cup {r} /\ r \notin LiveClaude(v)
      BY <1>1, <2>3, RequestAssumption DEF LiveClaude
    <3>2. Cardinality(LiveClaude(v) \cup {r}) = Cardinality(LiveClaude(v)) + 1
      BY <2>2, <3>1, FS_AddElement
    <3>3. claudeActive'[v] = claudeActive[v] + 1
      BY <1>1, <1>2, <2>3
    <3> QED BY <2>1, <2>2, <3>1, <3>2, <3>3
  <2>4. CASE v # u
    <3>1. LiveClaude(v)' = LiveClaude(v)
      BY <1>1, <2>4, RequestAssumption DEF LiveClaude
    <3> QED BY <1>2, <2>1, <2>4, <3>1
  <2> QED BY <2>3, <2>4
<1> QED BY <1>3, <1>4 DEF ClaudeInv, ClaudeCap

\* Giving the count back together with the end of the request.
LEMMA ReleaseClaudeCounts ==
  ASSUME ClaudeInv, NEW r \in Request, pc[r] # "idle", ReleaseClaude(r),
         pc' \in [Request -> Location], pc'[r] = "idle",
         \A q \in Request : q # r => (pc'[q] = "idle" <=> pc[q] = "idle")
  PROVE  ClaudeInv'
<1> DEFINE u == Owner[r]
<1>1. u \in User
  BY RequestAssumption
<1>2. /\ claudeActive \in [User -> 0..ClaudeLimit]
      /\ ClaudeLimit \in Nat
  BY SlotAssumption DEF ClaudeInv
<1>3. claudeActive' \in [User -> 0..ClaudeLimit]
  BY <1>1, <1>2 DEF ReleaseClaude
<1>4. ASSUME NEW v \in User
      PROVE  Cardinality(LiveClaude(v)') <= claudeActive'[v]
  <2>1. Cardinality(LiveClaude(v)) <= claudeActive[v]
        /\ claudeActive[v] \in Nat
    BY <1>2 DEF ClaudeInv, ClaudeCap
  <2>2. IsFiniteSet(LiveClaude(v)) /\ Cardinality(LiveClaude(v)) \in Nat
    BY LiveAreRequests, FiniteRequests
  <2>3. CASE v = u /\ r \in Claude
    <3>1. LiveClaude(v)' = LiveClaude(v) \ {r} /\ r \in LiveClaude(v)
      BY <2>3, RequestAssumption DEF LiveClaude
    <3>2. Cardinality(LiveClaude(v) \ {r}) = Cardinality(LiveClaude(v)) - 1
      BY <2>2, <3>1, FS_RemoveElement
    <3>3. Cardinality(LiveClaude(v)) # 0
      BY <2>2, <3>1, FS_EmptySet
    <3>4. claudeActive'[v] = claudeActive[v] - 1
      BY <1>1, <1>2, <2>1, <2>2, <2>3, <3>3 DEF ReleaseClaude
    <3> QED BY <2>1, <2>2, <3>1, <3>2, <3>4
  <2>4. CASE ~(v = u /\ r \in Claude)
    <3>1. LiveClaude(v)' = LiveClaude(v)
      BY <2>4, RequestAssumption DEF LiveClaude
    <3>2. claudeActive'[v] = claudeActive[v]
      BY <1>1, <1>2, <2>4 DEF ReleaseClaude
    <3> QED BY <2>1, <3>1, <3>2
  <2> QED BY <2>3, <2>4
<1> QED BY <1>3, <1>4 DEF ClaudeInv, ClaudeCap

\* Steps that leave the counter alone.
LEMMA KeepClaudeCounts ==
  ASSUME ClaudeInv, UNCHANGED claudeActive, pc' \in [Request -> Location],
         \A q \in Request : pc[q] = "idle" /\ q \in Claude => pc'[q] = "idle"
  PROVE  ClaudeInv'
<1>1. claudeActive \in [User -> 0..ClaudeLimit] /\ ClaudeLimit \in Nat
  BY SlotAssumption DEF ClaudeInv
<1>2. ASSUME NEW v \in User
      PROVE  Cardinality(LiveClaude(v)') <= claudeActive'[v]
  <2>1. Cardinality(LiveClaude(v)) <= claudeActive[v]
    BY DEF ClaudeInv, ClaudeCap
  <2>2. LiveClaude(v)' \subseteq LiveClaude(v)
    BY RequestAssumption DEF LiveClaude
  <2>3. IsFiniteSet(LiveClaude(v)) /\ Cardinality(LiveClaude(v)) \in Nat
    BY LiveAreRequests, FiniteRequests
  <2>4. Cardinality(LiveClaude(v)') <= Cardinality(LiveClaude(v))
        /\ IsFiniteSet(LiveClaude(v)')
    BY <2>2, <2>3, FS_Subset
  <2>5. Cardinality(LiveClaude(v)') \in Nat
    BY <2>4, FS_CardinalityType
  <2> QED BY <1>1, <2>1, <2>3, <2>4, <2>5
<1> QED BY <1>1, <1>2 DEF ClaudeInv, ClaudeCap

-----------------------------------------------------------------------------
(* The semaphores. *)

\* SlotInv' from its parts, for a step that changes the semaphore of u only.
LEMMA SlotInvPrimed ==
  ASSUME SlotInv, NEW u \in User, NEW f, NEW q,
         pc' \in [Request -> Location],
         userFree' = [userFree EXCEPT ![u] = f],
         userWaiting' = [userWaiting EXCEPT ![u] = q],
         GlobalOK(pc', globalFree', globalWaiting'),
         UserOK(pc', u, f, q),
         \A v \in User \ {u} : UserOthers(pc, pc', v, {})
  PROVE  SlotInv'
<1>1. \A v \in User : UserOK(pc', v, userFree'[v], userWaiting'[v])
  <2> SUFFICES ASSUME NEW v \in User
               PROVE  UserOK(pc', v, userFree'[v], userWaiting'[v])
    OBVIOUS
  <2>1. CASE v = u
    BY <2>1 DEF SlotInv
  <2>2. CASE v # u
    <3>1. userFree'[v] = userFree[v] /\ userWaiting'[v] = userWaiting[v]
      BY <2>2 DEF SlotInv
    <3>2. UserOK(pc, v, userFree[v], userWaiting[v]) /\ UserOthers(pc, pc', v, {})
      BY <2>2 DEF SlotInv
    <3> QED BY <3>1, <3>2, SemUnrelated DEF UserOK, UserOthers
  <2> QED BY <2>1, <2>2
<1>2. userWaiting' \in [User -> Seq(Request)]
  <2>1. q \in Seq(Request)
    <3>1. q \in Seq(OfUser(u))
      BY DEF UserOK, SemOK
    <3> QED BY <3>1, OfUserFinite, SeqOfSubset
  <2> QED BY <2>1 DEF SlotInv
<1>3. DOMAIN userFree' = User /\ userFree' = [v \in User |-> userFree'[v]]
  BY DEF SlotInv
<1> QED BY <1>1, <1>2, <1>3 DEF SlotInv, GlobalOK, UserOK

\* A handler that moves between locations that hold no slot and wait for
\* none leaves the semaphores as they are.
LEMMA OutsideSlots ==
  ASSUME SlotInv, NEW r \in Request, NEW l \in {"idle", "messages", "ready", "streaming"},
         pc[r] \in {"idle", "messages", "ready", "streaming"},
         pc' = [pc EXCEPT ![r] = l], UNCHANGED slotVars
  PROVE  SlotInv'
<1> DEFINE u == Owner[r]
<1>1. u \in User
  BY RequestAssumption
<1>2. pc \in [Request -> Location] /\ pc' \in [Request -> Location]
  BY DEF SlotInv, Location
<1>3. GlobalOthers(pc, pc', {})
  BY <1>2 DEF GlobalOthers, Unconcerned, Same, GlobalLoc
<1>4. \A v \in User : UserOthers(pc, pc', v, {})
  BY <1>2 DEF UserOthers, Unconcerned, Same, UserLoc, OfUser
<1>5. GlobalOK(pc', globalFree', globalWaiting')
  <2>1. GlobalOK(pc', globalFree, globalWaiting)
    BY <1>3, SemUnrelated DEF SlotInv, GlobalOK, GlobalOthers
  <2> QED BY <2>1 DEF slotVars
<1>6. UserOK(pc', u, userFree[u], userWaiting[u])
  BY <1>1, <1>4, SemUnrelated DEF SlotInv, UserOK, UserOthers
<1>7. /\ userFree' = [userFree EXCEPT ![u] = userFree[u]]
      /\ userWaiting' = [userWaiting EXCEPT ![u] = userWaiting[u]]
  BY <1>1 DEF SlotInv, slotVars
<1> QED BY <1>1, <1>2, <1>4, <1>5, <1>6, <1>7, SlotInvPrimed

\* The waiters that a wake-up finds on the global queue, and on u's.
LEMMA SleepersOf ==
  ASSUME SlotInv, NEW u \in User
  PROVE  /\ \A x \in FirstAsleep(globalWaiting, "waitGlobal") :
              x \in Request /\ pc[x] = "waitGlobal"
         /\ \A x \in FirstAsleep(userWaiting[u], "waitUser") :
              x \in OfUser(u) /\ x \in Request /\ pc[x] = "waitUser"
<1>1. globalWaiting \in Seq(Request) /\ userWaiting[u] \in Seq(OfUser(u))
  BY DEF SlotInv, GlobalOK, UserOK, SemOK
<1>2. /\ \A i \in 1..Len(globalWaiting) : globalWaiting[i] \in Request
      /\ \A i \in 1..Len(userWaiting[u]) : userWaiting[u][i] \in OfUser(u)
  BY <1>1, ElementsOf
<1> QED BY <1>2, OfUserFinite DEF FirstAsleep

\* A request that holds a global slot goes for its user's semaphore: the
\* user's part of ChatEnter and ResumeGlobal.
LEMMA EnterUserKeeps ==
  ASSUME SlotInv, NEW r \in Request, NEW G, EnterUser(r, G),
         \A x \in G : x \in Request /\ x # r /\ pc[x] = "waitGlobal",
         pc[r] \in {"idle", "wokenGlobal"},
         GlobalOK(pc', globalFree', globalWaiting')
  PROVE  SlotInv'
<1> DEFINE u == Owner[r]
<1>1. u \in User /\ r \in OfUser(u) /\ \A v \in User \ {u} : r \notin OfUser(v)
  BY RequestAssumption DEF OfUser
<1>2. /\ pc \in [Request -> Location]
      /\ UserOK(pc, u, userFree[u], userWaiting[u])
      /\ IsFiniteSet(OfUser(u))
  BY <1>1, OfUserFinite DEF SlotInv
<1>3. PICK l \in {"running", "waitUser"} :
        pc' = [q \in Request |-> IF q = r THEN l
                                 ELSE IF q \in G THEN "wokenGlobal" ELSE pc[q]]
  BY DEF EnterUser, Move
<1>4. pc' \in [Request -> Location]
  BY <1>2, <1>3 DEF Location
<1>5. \A x \in Request \ {r} : Same(pc, pc', x, UserLoc, "waitUser", "wokenUser")
  BY <1>2, <1>3 DEF Same, UserLoc
<1>6. UserOthers(pc, pc', u, {r}) /\ \A v \in User \ {u} : UserOthers(pc, pc', v, {})
  BY <1>1, <1>5 DEF UserOthers, Unconcerned, OfUser
<1>7. pc[r] \notin UserLoc /\ pc[r] # "waitUser"
  BY DEF UserLoc
<1>8. CASE userFree[u] > 0 /\ userWaiting[u] = <<>>
  <2>1. /\ userFree' = [userFree EXCEPT ![u] = userFree[u] - 1]
        /\ userWaiting' = [userWaiting EXCEPT ![u] = userWaiting[u]]
        /\ pc'[r] = "running"
    BY <1>1, <1>8 DEF EnterUser, Move, SlotInv
  <2>2. UserOK(pc', u, userFree[u] - 1, userWaiting[u])
    <3>1. pc'[r] \in UserLoc
      BY <2>1 DEF UserLoc
    <3> QED BY <1>1, <1>2, <1>6, <1>7, <1>8, <3>1, SemTake DEF UserOK, UserOthers
  <2> QED BY <1>1, <1>4, <1>6, <2>1, <2>2, SlotInvPrimed
<1>9. CASE ~(userFree[u] > 0 /\ userWaiting[u] = <<>>)
  <2>1. /\ userFree' = [userFree EXCEPT ![u] = userFree[u]]
        /\ userWaiting' = [userWaiting EXCEPT ![u] = Append(userWaiting[u], r)]
        /\ pc'[r] = "waitUser"
    BY <1>1, <1>9 DEF EnterUser, Move, SlotInv
  <2>2. UserOK(pc', u, userFree[u], Append(userWaiting[u], r))
    BY <1>1, <1>2, <1>6, <1>7, <1>9, <2>1, SlotLocations, SemJoin DEF UserOK, UserOthers
  <2> QED BY <1>1, <1>4, <1>6, <2>1, <2>2, SlotInvPrimed
<1> QED BY <1>8, <1>9

\* _release_llm_slot releases both semaphores.
LEMMA LeaveSlotsKeeps ==
  ASSUME SlotInv, NEW r \in Request, NEW l \in {"idle", "ready"},
         pc[r] = "running", LeaveSlots(r, l)
  PROVE  /\ SlotInv'
         /\ pc' \in [Request -> Location] /\ pc'[r] = l
         /\ \A q \in Request : q # r => (pc'[q] = "idle" <=> pc[q] = "idle")
<1> DEFINE u == Owner[r]
           U == FirstAsleep(userWaiting[u], "waitUser")
           G == FirstAsleep(globalWaiting, "waitGlobal")
<1>1. u \in User /\ r \in OfUser(u) /\ \A v \in User \ {u} : r \notin OfUser(v)
  BY RequestAssumption DEF OfUser
<1>2. /\ pc \in [Request -> Location]
      /\ UserOK(pc, u, userFree[u], userWaiting[u])
      /\ GlobalOK(pc, globalFree, globalWaiting)
      /\ IsFiniteSet(OfUser(u)) /\ IsFiniteSet(Request)
  BY <1>1, OfUserFinite, RequestAssumption DEF SlotInv
<1>3. /\ \A x \in G : x \in Request /\ pc[x] = "waitGlobal"
      /\ \A x \in U : x \in OfUser(u) /\ x \in Request /\ pc[x] = "waitUser"
  BY <1>1, SleepersOf
<1>4. /\ G = FirstAt(pc, globalWaiting, "waitGlobal")
      /\ U = FirstAt(pc, userWaiting[u], "waitUser")
  BY FirstAsleepIs
<1>5. /\ pc' = [q \in Request |-> IF q = r THEN l
                                  ELSE IF q \in G THEN "wokenGlobal"
                                  ELSE IF q \in U THEN "wokenUser" ELSE pc[q]]
      /\ userFree' = [userFree EXCEPT ![u] = IF U = {} THEN userFree[u] + 1
                                             ELSE userFree[u]]
      /\ globalFree' = IF G = {} THEN globalFree + 1 ELSE globalFree
      /\ globalWaiting' = globalWaiting /\ userWaiting' = userWaiting
  <2>1. /\ Move(r, l, G, U)
        /\ userFree' = [userFree EXCEPT ![u] = AfterWaking(userFree[u] + 1, U)]
        /\ globalFree' = AfterWaking(globalFree + 1, G)
        /\ globalWaiting' = globalWaiting /\ userWaiting' = userWaiting
    BY Zenon DEF LeaveSlots
  <2> HIDE DEF U, G
  <2>2. userFree[u] \in Nat /\ globalFree \in Nat
    BY <1>2 DEF UserOK, GlobalOK, SemOK
  <2>3. /\ AfterWaking(userFree[u] + 1, U) = IF U = {} THEN userFree[u] + 1 ELSE userFree[u]
        /\ AfterWaking(globalFree + 1, G) = IF G = {} THEN globalFree + 1 ELSE globalFree
    BY <2>2, ReleasedCount
  <2>4. pc' = [q \in Request |-> IF q = r THEN l
                                  ELSE IF q \in G THEN "wokenGlobal"
                                  ELSE IF q \in U THEN "wokenUser" ELSE pc[q]]
    BY <2>1, Zenon DEF Move
  <2> QED BY <2>1, <2>3, <2>4, Zenon
<1> HIDE DEF U, G
<1>6. pc' \in [Request -> Location] /\ pc'[r] = l
      /\ \A q \in Request : q # r => (pc'[q] = "idle" <=> pc[q] = "idle")
  BY <1>2, <1>3, <1>5 DEF Location
<1>7. GlobalOthers(pc, pc', {r} \cup G) /\ \A y \in G : pc'[y] = "wokenGlobal"
  BY <1>2, <1>3, <1>5 DEF GlobalOthers, Unconcerned, Same, GlobalLoc
<1>8. UserOthers(pc, pc', u, {r} \cup U) /\ \A y \in U : pc'[y] = "wokenUser"
  BY <1>2, <1>3, <1>5 DEF UserOthers, Unconcerned, Same, UserLoc, OfUser
<1>9. \A v \in User \ {u} : UserOthers(pc, pc', v, {})
  BY <1>1, <1>2, <1>3, <1>5 DEF UserOthers, Unconcerned, Same, UserLoc, OfUser
<1>10. GlobalOK(pc', globalFree', globalWaiting')
  <2>1. /\ pc[r] \in GlobalLoc /\ pc[r] # "wokenGlobal"
        /\ pc'[r] \notin GlobalLoc /\ pc'[r] # "waitGlobal"
    BY <1>6 DEF GlobalLoc
  <2>2. GlobalOK(pc', IF G = {} THEN globalFree + 1 ELSE globalFree, globalWaiting)
    BY <1>2, <1>4, <1>7, <2>1, SlotLocations, SemRelease DEF GlobalOK, GlobalOthers
  <2> QED BY <1>5, <2>2
<1>11. PICK f : f = IF U = {} THEN userFree[u] + 1 ELSE userFree[u]
  OBVIOUS
<1>12. UserOK(pc', u, f, userWaiting[u])
  <2>1. /\ pc[r] \in UserLoc /\ pc[r] # "wokenUser"
        /\ pc'[r] \notin UserLoc /\ pc'[r] # "waitUser"
    BY <1>6 DEF UserLoc
  <2>2. UserOK(pc', u, IF U = {} THEN userFree[u] + 1 ELSE userFree[u], userWaiting[u])
    BY <1>1, <1>2, <1>4, <1>8, <2>1, SlotLocations, SemRelease DEF UserOK, UserOthers
  <2> QED BY <1>11, <2>2
<1>13. /\ userFree' = [userFree EXCEPT ![u] = f]
       /\ userWaiting' = [userWaiting EXCEPT ![u] = userWaiting[u]]
  BY <1>1, <1>5, <1>11 DEF SlotInv
<1>14. SlotInv'
  BY <1>1, <1>6, <1>9, <1>10, <1>12, <1>13, SlotInvPrimed
<1> QED BY <1>6, <1>14

-----------------------------------------------------------------------------
(* The steps. *)

LEMMA ChatEnterKeeps ==
  ASSUME IInv, NEW r \in Request, ChatEnter(r)
  PROVE  IInv'
<1>1. /\ SlotInv /\ ClaudeInv /\ pc[r] = "idle"
      /\ pc \in [Request -> Location]
      /\ GlobalOK(pc, globalFree, globalWaiting)
  BY DEF IInv, SlotInv, ChatEnter
<1>2. PICK l \in {"running", "waitUser", "waitGlobal"} :
        pc' = [q \in Request |-> IF q = r THEN l ELSE pc[q]]
  BY DEF ChatEnter, EnterUser, Move
<1>3. /\ pc' \in [Request -> Location] /\ pc'[r] = l /\ pc'[r] # "idle"
      /\ \A q \in Request : q # r => pc'[q] = pc[q]
  BY <1>1, <1>2 DEF Location
<1>4. ClaudeInv'
  <2>1. CASE r \in Claude
    BY <1>1, <1>3, <2>1, AcquireClaudeCounts DEF ChatEnter
  <2>2. CASE r \notin Claude
    BY <1>1, <1>3, <2>2, KeepClaudeCounts DEF ChatEnter
  <2> QED BY <2>1, <2>2
<1>5. GlobalOthers(pc, pc', {r}) /\ pc[r] \notin GlobalLoc /\ pc[r] # "waitGlobal"
  BY <1>1, <1>3 DEF GlobalOthers, Unconcerned, Same, GlobalLoc
<1>6. CASE globalFree > 0 /\ globalWaiting = <<>>
  <2>1. /\ globalFree' = globalFree - 1 /\ EnterUser(r, {})
        /\ globalWaiting' = globalWaiting
    BY <1>6 DEF ChatEnter
  <2>2. pc'[r] \in {"running", "waitUser"}
    BY <2>1 DEF EnterUser, Move
  <2>3. GlobalOK(pc', globalFree', globalWaiting')
    <3>1. pc'[r] \in GlobalLoc
      BY <2>2 DEF GlobalLoc
    <3>2. GlobalOK(pc', globalFree - 1, globalWaiting)
      BY <1>1, <1>5, <1>6, <3>1, RequestAssumption, SemTake DEF GlobalOK, GlobalOthers
    <3> QED BY <2>1, <3>2
  <2>4. SlotInv'
    BY <1>1, <2>1, <2>3, EnterUserKeeps
  <2> QED BY <1>4, <2>4 DEF IInv
<1>7. CASE ~(globalFree > 0 /\ globalWaiting = <<>>)
  <2>1. /\ globalWaiting' = Append(globalWaiting, r)
        /\ globalFree' = globalFree /\ userFree' = userFree
        /\ userWaiting' = userWaiting
        /\ pc'[r] = "waitGlobal"
    BY <1>7 DEF ChatEnter, Move
  <2>2. GlobalOK(pc', globalFree', globalWaiting')
    <3>1. GlobalOK(pc', globalFree, Append(globalWaiting, r))
      BY <1>1, <1>5, <1>7, <2>1, SlotLocations, SemJoin DEF GlobalOK, GlobalOthers
    <3> QED BY <2>1, <3>1
  <2>3. \A v \in User : UserOthers(pc, pc', v, {})
    BY <1>1, <1>3, <2>1 DEF UserOthers, Unconcerned, Same, UserLoc, OfUser
  <2> DEFINE u == Owner[r]
  <2>4. u \in User
    BY RequestAssumption
  <2>5. UserOK(pc', u, userFree[u], userWaiting[u])
    BY <1>1, <2>3, <2>4, SemUnrelated DEF SlotInv, UserOK, UserOthers
  <2>6. /\ userFree' = [userFree EXCEPT ![u] = userFree[u]]
        /\ userWaiting' = [userWaiting EXCEPT ![u] = userWaiting[u]]
    BY <1>1, <2>1, <2>4 DEF SlotInv
  <2>7. SlotInv'
    BY <1>1, <1>3, <2>2, <2>3, <2>4, <2>5, <2>6, SlotInvPrimed
  <2> QED BY <1>4, <2>7 DEF IInv
<1> QED BY <1>6, <1>7

LEMMA ResumeGlobalKeeps ==
  ASSUME IInv, NEW r \in Request, ResumeGlobal(r)
  PROVE  IInv'
<1> DEFINE G == IF globalFree > 0 THEN FirstAsleep(globalWaiting, "waitGlobal") ELSE {}
<1>1. /\ SlotInv /\ ClaudeInv /\ pc[r] = "wokenGlobal"
      /\ pc \in [Request -> Location]
      /\ GlobalOK(pc, globalFree, globalWaiting)
      /\ globalWaiting # <<>> /\ r = Head(globalWaiting)
      /\ claudeActive' = claudeActive
  BY DEF IInv, SlotInv, ResumeGlobal
<1>2. G = IF globalFree > 0 THEN FirstAt(pc, globalWaiting, "waitGlobal") ELSE {}
  BY FirstAsleepIs
<1>3. \A x \in G : x \in Request /\ x # r /\ pc[x] = "waitGlobal"
  BY <1>1, RequestAssumption, SleepersOf
<1>4. /\ globalFree' = IF G = {} THEN globalFree ELSE globalFree - 1
      /\ EnterUser(r, G)
      /\ globalWaiting' = Tail(globalWaiting)
  <2>1. /\ globalFree' = AfterWaking(globalFree, G) /\ EnterUser(r, G)
        /\ globalWaiting' = Tail(globalWaiting)
    BY Zenon DEF ResumeGlobal
  <2> QED BY <2>1 DEF AfterWaking
<1> HIDE DEF G
<1>5. PICK l \in {"running", "waitUser"} :
        pc' = [q \in Request |-> IF q = r THEN l
                                 ELSE IF q \in G THEN "wokenGlobal" ELSE pc[q]]
  BY <1>4 DEF EnterUser, Move
<1>6. /\ pc' \in [Request -> Location] /\ pc'[r] = l
      /\ \A q \in Request : pc[q] = "idle" => pc'[q] = "idle"
  BY <1>1, <1>3, <1>5 DEF Location
<1>7. GlobalOthers(pc, pc', {r} \cup G) /\ \A y \in G : pc'[y] = "wokenGlobal"
  BY <1>1, <1>3, <1>5 DEF GlobalOthers, Unconcerned, Same, GlobalLoc
<1>8. pc'[r] \in GlobalLoc
  BY <1>6 DEF GlobalLoc
<1>9. GlobalOK(pc', globalFree', globalWaiting')
  <2>1. GlobalOK(pc', IF G = {} THEN globalFree ELSE globalFree - 1, Tail(globalWaiting))
    BY <1>1, <1>2, <1>7, <1>8, RequestAssumption, SlotLocations, SemResume
       DEF GlobalOK, GlobalOthers
  <2> QED BY <1>4, <2>1
<1>10. SlotInv'
  BY <1>1, <1>3, <1>4, <1>9, EnterUserKeeps
<1>11. ClaudeInv'
  BY <1>1, <1>6, KeepClaudeCounts
<1> QED BY <1>10, <1>11 DEF IInv

LEMMA ResumeUserKeeps ==
  ASSUME IInv, NEW r \in Request, ResumeUser(r)
  PROVE  IInv'
<1> DEFINE u == Owner[r]
           U == IF userFree[u] > 0 THEN FirstAsleep(userWaiting[u], "waitUser") ELSE {}
<1>1. u \in User /\ r \in OfUser(u) /\ \A v \in User \ {u} : r \notin OfUser(v)
  BY RequestAssumption DEF OfUser
<1>2. /\ SlotInv /\ ClaudeInv /\ pc[r] = "wokenUser"
      /\ pc \in [Request -> Location]
      /\ GlobalOK(pc, globalFree, globalWaiting)
      /\ UserOK(pc, u, userFree[u], userWaiting[u])
      /\ IsFiniteSet(OfUser(u))
      /\ userWaiting[u] # <<>> /\ r = Head(userWaiting[u])
      /\ globalFree' = globalFree /\ globalWaiting' = globalWaiting
      /\ claudeActive' = claudeActive
  BY <1>1, OfUserFinite DEF IInv, SlotInv, ResumeUser
<1>3. U = IF userFree[u] > 0 THEN FirstAt(pc, userWaiting[u], "waitUser") ELSE {}
  BY FirstAsleepIs
<1>4. \A x \in U : x \in OfUser(u) /\ x \in Request /\ x # r /\ pc[x] = "waitUser"
  BY <1>1, <1>2, SleepersOf
<1>5. /\ Move(r, "running", {}, U)
      /\ userFree' = [userFree EXCEPT ![u] = IF U = {} THEN userFree[u] ELSE userFree[u] - 1]
      /\ userWaiting' = [userWaiting EXCEPT ![u] = Tail(userWaiting[u])]
  <2>1. /\ Move(r, "running", {}, U)
        /\ userFree' = [userFree EXCEPT ![u] = AfterWaking(userFree[u], U)]
        /\ userWaiting' = [userWaiting EXCEPT ![u] = Tail(userWaiting[u])]
    BY Zenon DEF ResumeUser
  <2> QED BY <2>1 DEF AfterWaking
<1> HIDE DEF U
<1>6. pc' = [q \in Request |-> IF q = r THEN "running"
                               ELSE IF q \in U THEN "wokenUser" ELSE pc[q]]
  BY <1>5 DEF Move
<1>7. /\ pc' \in [Request -> Location] /\ pc'[r] = "running"
      /\ \A q \in Request : pc[q] = "idle" => pc'[q] = "idle"
  BY <1>2, <1>4, <1>6 DEF Location
<1>8. GlobalOthers(pc, pc', {})
  BY <1>2, <1>4, <1>6 DEF GlobalOthers, Unconcerned, Same, GlobalLoc
<1>9. UserOthers(pc, pc', u, {r} \cup U) /\ \A y \in U : pc'[y] = "wokenUser"
  BY <1>2, <1>4, <1>6 DEF UserOthers, Unconcerned, Same, UserLoc, OfUser
<1>10. \A v \in User \ {u} : UserOthers(pc, pc', v, {})
  BY <1>1, <1>2, <1>4, <1>6 DEF UserOthers, Unconcerned, Same, UserLoc, OfUser
<1>11. GlobalOK(pc', globalFree', globalWaiting')
  <2>1. GlobalOK(pc', globalFree, globalWaiting)
    BY <1>2, <1>8, SemUnrelated DEF GlobalOK, GlobalOthers
  <2> QED BY <1>2, <2>1
<1>12. PICK f : f = IF U = {} THEN userFree[u] ELSE userFree[u] - 1
  OBVIOUS
<1>13. UserOK(pc', u, f, Tail(userWaiting[u]))
  <2>1. pc'[r] \in UserLoc
    BY <1>7 DEF UserLoc
  <2> DEFINE k == userFree[u]
             s == userWaiting[u]
  <2>2. /\ UserOK(pc, u, k, s) /\ s # <<>> /\ r = Head(s)
        /\ U = IF k > 0 THEN FirstAt(pc, s, "waitUser") ELSE {}
    BY <1>2, <1>3
  <2> HIDE DEF k, s
  <2>3. UserOK(pc', u, IF U = {} THEN k ELSE k - 1, Tail(s))
    BY <1>1, <1>2, <1>9, <2>1, <2>2, SlotLocations, SemResume DEF UserOK, UserOthers
  <2>4. UserOK(pc', u, IF U = {} THEN userFree[u] ELSE userFree[u] - 1, Tail(userWaiting[u]))
    BY <2>3 DEF k, s
  <2> QED BY <1>12, <2>4
<1>14. SlotInv'
  BY <1>1, <1>2, <1>5, <1>7, <1>10, <1>11, <1>12, <1>13, SlotInvPrimed
<1>15. ClaudeInv'
  BY <1>2, <1>7, KeepClaudeCounts
<1> QED BY <1>14, <1>15 DEF IInv

LEMMA ChatLeaveKeeps ==
  ASSUME IInv, NEW r \in Request, ChatAnswer(r) \/ ChatStream(r)
  PROVE  IInv'
<1>1. SlotInv /\ ClaudeInv /\ pc[r] = "running"
  BY DEF IInv, ChatAnswer, ChatStream
<1>2. CASE ChatAnswer(r)
  <2>1. /\ SlotInv'
        /\ pc' \in [Request -> Location] /\ pc'[r] = "idle"
        /\ \A q \in Request : q # r => (pc'[q] = "idle" <=> pc[q] = "idle")
    BY <1>1, <1>2, LeaveSlotsKeeps DEF ChatAnswer
  <2>2. ClaudeInv'
    BY <1>1, <1>2, <2>1, ReleaseClaudeCounts DEF ChatAnswer
  <2> QED BY <2>1, <2>2 DEF IInv
<1>3. CASE ChatStream(r)
  <2>1. /\ SlotInv'
        /\ pc' \in [Request -> Location] /\ pc'[r] = "ready"
        /\ \A q \in Request : q # r => (pc'[q] = "idle" <=> pc[q] = "idle")
    BY <1>1, <1>3, LeaveSlotsKeeps DEF ChatStream
  <2>2. ClaudeInv'
    BY <1>1, <1>3, <2>1, KeepClaudeCounts DEF ChatStream
  <2> QED BY <2>1, <2>2 DEF IInv
<1> QED BY <1>2, <1>3

\* /v1/messages and the life of a stream touch no semaphore.
OutsideStep(r) ==
  \/ MessagesEnter(r) \/ MessagesAnswer(r) \/ MessagesStream(r)
  \/ MessagesRaise(r) \/ StreamBegin(r) \/ StreamEnd(r) \/ StreamDropped(r)

LEMMA OutsideKeeps ==
  ASSUME IInv, NEW r \in Request, OutsideStep(r)
  PROVE  IInv'
<1>1. PICK l \in {"idle", "messages", "ready", "streaming"} :
        /\ pc[r] \in {"idle", "messages", "ready", "streaming"}
        /\ pc' = [pc EXCEPT ![r] = l]
        /\ UNCHANGED slotVars
  BY DEF OutsideStep, MessagesEnter, MessagesAnswer, MessagesStream,
         MessagesRaise, StreamBegin, StreamEnd, StreamDropped
<1>2. SlotInv'
  BY <1>1, OutsideSlots DEF IInv
<1>3. /\ ClaudeInv /\ pc \in [Request -> Location]
      /\ pc' \in [Request -> Location] /\ pc'[r] = l
      /\ \A q \in Request : q # r => pc'[q] = pc[q]
  BY <1>1 DEF IInv, SlotInv, Location
<1>4. ClaudeInv'
  <2>1. CASE MessagesEnter(r)
    <3>1. pc' = [pc EXCEPT ![r] = "messages"] /\ pc[r] = "idle"
      BY <2>1 DEF MessagesEnter
    <3>2. pc'[r] # "idle"
      BY <1>3, <3>1
    <3> QED BY <1>3, <2>1, <3>1, <3>2, AcquireClaudeCounts DEF MessagesEnter
  <2>2. CASE MessagesAnswer(r) \/ StreamEnd(r)
    <3>1. pc' = [pc EXCEPT ![r] = "idle"] /\ pc[r] # "idle" /\ ReleaseClaude(r)
      BY <2>2 DEF MessagesAnswer, StreamEnd
    <3>2. pc'[r] = "idle"
      BY <1>3, <3>1
    <3> QED BY <1>3, <3>1, <3>2, ReleaseClaudeCounts
  <2>3. CASE MessagesStream(r) \/ MessagesRaise(r) \/ StreamBegin(r) \/ StreamDropped(r)
    <3>1. UNCHANGED claudeActive /\ pc[r] # "idle"
      BY <2>3 DEF MessagesStream, MessagesRaise, StreamBegin, StreamDropped
    <3> QED BY <1>3, <3>1, KeepClaudeCounts
  <2> QED BY <2>1, <2>2, <2>3 DEF OutsideStep
<1> QED BY <1>2, <1>4 DEF IInv

LEMMA NextIInv == IInv /\ [Next]_vars => IInv'
<1> SUFFICES ASSUME IInv, [Next]_vars PROVE IInv'
  OBVIOUS
<1>1. CASE UNCHANGED vars
  BY <1>1 DEF vars, slotVars, IInv, SlotInv, GlobalOK, UserOK, ClaudeInv, ClaudeCap, LiveClaude
<1>2. ASSUME NEW r \in Request,
             \/ ChatEnter(r) \/ ResumeGlobal(r) \/ ResumeUser(r)
             \/ ChatAnswer(r) \/ ChatStream(r) \/ OutsideStep(r)
      PROVE  IInv'
  BY <1>2, ChatEnterKeeps, ResumeGlobalKeeps, ResumeUserKeeps, ChatLeaveKeeps, OutsideKeeps
<1> QED BY <1>1, <1>2 DEF Next, OutsideStep

\* The invariant that the theorems below rest on.
THEOREM Invariance == Spec => []IInv
<1> QED BY InitIInv, NextIInv, PTL DEF Spec

\* Every variable keeps its type: no semaphore goes negative or above its
\* size, and the Claude counter stays within its limit.
THEOREM TypeCorrect == Spec => []TypeOK
<1>1. IInv => TypeOK
  BY SlotInvGives DEF IInv, SlotInv, ClaudeInv, TypeOK
<1> QED BY <1>1, Invariance, PTL

\* Free slots and holders always add up: _acquire_llm_slot and
\* _release_llm_slot lose no slot and give none back twice.
THEOREM SlotsAddUp == Spec => []SlotAccounting
<1>1. IInv => SlotAccounting
  BY SlotInvGives DEF IInv
<1> QED BY <1>1, Invariance, PTL

\* A slot is free in front of a queue only while the first of the queue has
\* been woken and is about to pass it on.
THEOREM WakeupsNotLost == Spec => []NoLostWakeup
<1>1. IInv => NoLostWakeup
  BY SlotInvGives DEF IInv
<1> QED BY <1>1, Invariance, PTL

\* The Claude requests of a user under way never outnumber the counter.
THEOREM ClaudeCapHolds == Spec => []ClaudeCap
<1>1. IInv => ClaudeCap
  BY DEF IInv, ClaudeInv
<1> QED BY <1>1, Invariance, PTL
=============================================================================
