---------------------------- MODULE LimitsCache ----------------------------
(***************************************************************************)
(* The usage limits a page shows: getCachedUsageLimits of lib/api.ts with  *)
(* its callers.  A chat page asks when it opens and every five minutes,    *)
(* and Chat3 after each turn; pages/Usage asks once when it opens and has  *)
(* a Refresh button, which forces a request; the upgrade dialog asks and   *)
(* shows no limits.  The cache belongs to the module: it outlives the      *)
(* pages.                                                                  *)
(*                                                                         *)
(* Time passes in Tick.  An answer is known by its age, the time since the *)
(* server summed the numbers up.                                           *)
(***************************************************************************)
EXTENDS Integers

CONSTANTS Ttl,       \* LIMITS_TTL_MS, and the interval of the chat pages
          Latency,   \* assumption: the longest a request takes
          ServerTtl  \* the ttl of the server's own _limits_cache

\* Assumed where this module is instantiated, in DashboardPages.
TimeAssumption == {Ttl, Latency} \subseteq Nat \ {0} /\ ServerTtl \in Nat

VARIABLES cache,          \* _limitsCache: its age, and the time it has been kept
          shared, forced, \* _limitsInflight, and the request of reloadLimits
          viewer,         \* the page that shows limits: chat, usage or none
          heard,          \* that page waits for shared
          shownLimits,    \* the age of what it shows
          countdown,      \* until its interval fires
          newest,         \* history: the age of the newest answer received
          overlapped,     \* history: the last answer shared its time with
                          \* another request
          lost            \* history: the page's last request failed

vars == <<cache, shared, forced, viewer, heard, shownLimits, countdown, newest,
          overlapped, lost>>

Cap == 2 * (Ttl + Latency) + ServerTtl + 1  \* ages beyond it are not told apart
Age == 0..Cap
Never == Cap + 1
None == [kept |-> -1, age |-> Never]
NoRequest == [out |-> -1, age |-> Never, alone |-> FALSE]
Request == [out : 0..Latency, age : Age \cup {Never}, alone : BOOLEAN]

TypeOK ==
  /\ cache \in [kept : 0..(Ttl + 1), age : Age] \cup {None}
  /\ {shared, forced} \subseteq Request \cup {NoRequest}
  /\ viewer \in {"chat", "usage", "none"}
  /\ {shownLimits, newest} \subseteq Age \cup {Never}
  /\ countdown \in 0..Ttl
  /\ {heard, overlapped, lost} \subseteq BOOLEAN

Init ==
  /\ cache = None /\ shared = NoRequest /\ forced = NoRequest
  /\ viewer = "none" /\ heard = FALSE
  /\ shownLimits = Never /\ countdown = 0 /\ newest = Never
  /\ overlapped = FALSE /\ lost = FALSE

Lesser(a, b) == IF a < b THEN a ELSE b
Older(age) == IF age = Never THEN Never ELSE Lesser(age + 1, Cap)
Sent(other) == [out |-> 0, age |-> Never, alone |-> other = NoRequest]
Joined(r) == IF r = NoRequest THEN r ELSE [r EXCEPT !.alone = FALSE]

IsFresh == cache # None /\ cache.kept < Ttl

\* The request under way, or one of its own.
AskShared ==
  IF shared # NoRequest THEN UNCHANGED <<shared, forced>>
  ELSE shared' = Sent(forced) /\ forced' = Joined(forced)

\* getUsageLimits() without force, by a page that shows old, waits for shared
\* or not, and whose last request failed or not (fails).
GetLimits(old, waits, fails) ==
  /\ IF IsFresh
     THEN /\ shownLimits' = cache.age /\ heard' = waits /\ lost' = FALSE
          /\ UNCHANGED <<shared, forced>>
     ELSE /\ shownLimits' = old /\ heard' = TRUE /\ lost' = fails
          /\ AskShared
  /\ UNCHANGED <<cache, newest, overlapped>>

\* Chat3, the banner of the plain chat, or Usage comes up and asks; only Usage
\* starts no interval.  Bound: Usage is not left while Refresh is under way.
OpenPage(page) ==
  /\ forced = NoRequest
  /\ viewer' = page
  /\ countdown' = IF page = "chat" THEN Ttl ELSE 0
  /\ GetLimits(Never, FALSE, FALSE)

\* To a page without limits; what comes after is not heard.
LeavePage ==
  /\ viewer # "none" /\ forced = NoRequest
  /\ viewer' = "none" /\ heard' = FALSE /\ shownLimits' = Never /\ lost' = FALSE
  /\ UNCHANGED <<cache, shared, forced, countdown, newest, overlapped>>

\* The interval of a chat page.
PollLimits ==
  /\ viewer = "chat" /\ countdown = 0 /\ countdown' = Ttl
  /\ GetLimits(shownLimits, heard, lost)
  /\ UNCHANGED viewer

\* The effect of Chat3 that follows the end of a turn.
TurnEnded ==
  /\ viewer = "chat" /\ GetLimits(shownLimits, heard, lost)
  /\ UNCHANGED <<viewer, countdown>>

\* The upgrade dialog opens over any page; nothing happens if it finds the
\* cache fresh or a request under way.
OpenUpgrade ==
  /\ ~IsFresh /\ shared = NoRequest /\ AskShared
  /\ UNCHANGED <<cache, viewer, heard, shownLimits, countdown, newest, overlapped,
                 lost>>

\* reloadLimits.
ForceRefresh ==
  /\ viewer = "usage" /\ forced = NoRequest
  /\ forced' = Sent(shared) /\ shared' = Joined(shared)
  /\ UNCHANGED <<cache, viewer, heard, shownLimits, countdown, newest, overlapped,
                 lost>>

\* get_usage_limits: sums made now or, out of the cache of either worker
\* process, up to ServerTtl ago; a forced request finds that cache too.
ServeLimits ==
  /\ \E age \in 0..ServerTtl :
       \/ /\ shared # NoRequest /\ shared.age = Never
          /\ shared' = [shared EXCEPT !.age = age] /\ UNCHANGED forced
       \/ /\ forced # NoRequest /\ forced.age = Never
          /\ forced' = [forced EXCEPT !.age = age] /\ UNCHANGED shared
  /\ UNCHANGED <<cache, viewer, heard, shownLimits, countdown, newest, overlapped,
                 lost>>

\* Every answer goes into the cache, whichever request it belongs to; the page
\* shows it if it waits for it.
Answer(r, awaited) ==
  /\ r # NoRequest /\ r.age # Never
  /\ cache' = [kept |-> 0, age |-> r.age]
  /\ shownLimits' = IF awaited THEN r.age ELSE shownLimits
  /\ lost' = (lost /\ ~awaited)
  /\ newest' = Lesser(newest, r.age)
  /\ overlapped' = ~r.alone

\* Nothing is cached; Usage shows skeletons, the chat pages what they showed.
Failure(r, awaited) ==
  /\ r # NoRequest
  /\ shownLimits' = IF awaited /\ viewer = "usage" THEN Never ELSE shownLimits
  /\ lost' = (lost \/ awaited)
  /\ UNCHANGED <<cache, newest, overlapped>>

LimitsEnd ==
  /\ \/ /\ Answer(shared, heard) \/ Failure(shared, heard)
        /\ shared' = NoRequest /\ heard' = FALSE /\ UNCHANGED forced
     \/ /\ Answer(forced, TRUE) \/ Failure(forced, TRUE)
        /\ forced' = NoRequest /\ UNCHANGED <<shared, heard>>
  /\ UNCHANGED <<viewer, countdown>>

\* Only a chat page has an interval that must fire in time.
Tick ==
  /\ viewer = "chat" => countdown > 0
  /\ countdown' = IF viewer = "chat" THEN countdown - 1 ELSE countdown
  /\ \A r \in {shared, forced} : r.out < Latency
  /\ cache' = IF cache = None THEN None
              ELSE [kept |-> Lesser(cache.kept + 1, Ttl + 1), age |-> Older(cache.age)]
  /\ shared' = IF shared = NoRequest THEN NoRequest
               ELSE [shared EXCEPT !.out = @ + 1, !.age = Older(@)]
  /\ forced' = IF forced = NoRequest THEN NoRequest
               ELSE [forced EXCEPT !.out = @ + 1, !.age = Older(@)]
  /\ shownLimits' = Older(shownLimits) /\ newest' = Older(newest)
  /\ UNCHANGED <<viewer, heard, overlapped, lost>>

Next ==
  \/ \E page \in {"chat", "usage"} : OpenPage(page)
  \/ LeavePage \/ PollLimits \/ TurnEnded \/ OpenUpgrade \/ ForceRefresh
  \/ ServeLimits \/ LimitsEnd \/ Tick

Spec == Init /\ [][Next]_vars
-----------------------------------------------------------------------------
(* The limits on a chat page are younger than two periods, two requests and *)
(* what the server keeps: the one period that the interval suggests is not  *)
(* kept to, since what one poll brought is still fresh at the next (api.ts  *)
(* 45-47).  Usage, which asks once, may show older ones until Refresh.  And *)
(* the cache holds no answer that was older than another by more than the   *)
(* server keeps one, unless an older request was answered after a forced    *)
(* one.                                                                     *)
LimitsFresh ==
  /\ viewer = "chat" /\ ~lost /\ shownLimits # Never
       => shownLimits < 2 * (Ttl + Latency) + ServerTtl
  /\ ~overlapped /\ cache # None => cache.age <= newest + ServerTtl
=============================================================================
