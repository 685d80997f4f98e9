----------------------------- MODULE AdminPage -----------------------------
(***************************************************************************)
(* The owner's system page, pages/AdminSystem.tsx: a status polled every   *)
(* 15 seconds, and a dialog with the usage of one user over some days.     *)
(* The answers to loadUserUsage are applied to whichever user the dialog   *)
(* shows by then.  What a status says is left out.                         *)
(***************************************************************************)
EXTENDS Integers, FiniteSets

CONSTANTS Person, Nobody,
          Range, FirstRange,   \* 7, 30 and 90 days; 30
          MaxQueries           \* bound: calls under way at once, of either load

\* Assumed where this module is instantiated, in DashboardPages.
AdminAssumption == Nobody \notin Person /\ FirstRange \in Range

VARIABLES status,       \* a status has been received
          pageLoading, pageRefreshing, pageErr,
          polls,        \* calls of load, and the pauses after a Refresh
          selectedUser, usageDays,
          userUsage, usageLoading, usageErr,
          queries,      \* calls of loadUserUsage
          mixed         \* history: a call was under way when the dialog opened

page == <<status, pageLoading, pageRefreshing, pageErr, polls>>
dialog == <<selectedUser, usageDays, userUsage, usageLoading, usageErr, queries,
            mixed>>
vars == <<page, dialog>>

NoUsage == [of |-> Nobody, days |-> FirstRange]
Usage == {NoUsage} \cup [of : Person, days : Range]
Slot == 1..MaxQueries

\* bare: the status that the closure of load saw was null; the interval keeps
\* the closure of the first render, which saw none.
Poll == [n : Slot, bare : BOOLEAN, manual : BOOLEAN, answered : BOOLEAN]
Query == [n : Slot, of : Person, days : Range]

TypeOK ==
  /\ {status, pageLoading, pageRefreshing, pageErr, usageLoading, usageErr,
      mixed} \subseteq BOOLEAN
  /\ polls \subseteq Poll /\ queries \subseteq Query
  /\ selectedUser \in Person \cup {Nobody} /\ usageDays \in Range
  /\ userUsage \in Usage

Free(calls) == CHOOSE n \in Slot : \A c \in calls : c.n # n
Room(calls) == Cardinality(calls) < MaxQueries

AskStatus(calls, bare, manual) ==
  calls \cup {[n |-> Free(calls), bare |-> bare, manual |-> manual,
               answered |-> FALSE]}
AskUsage(calls, u, d) ==
  calls \cup {[n |-> Free(calls), of |-> u, days |-> d]}
-----------------------------------------------------------------------------
(* What is shown.                                                           *)

Screen == IF pageLoading /\ ~status THEN "skeleton"
          ELSE IF pageErr /\ ~status THEN "error"
          ELSE "system"
MayRefresh == \/ Screen = "error"                     \* Retry
              \/ Screen = "system" /\ ~pageRefreshing
UserTable == Screen = "system" /\ selectedUser = Nobody

DialogBody == IF usageLoading /\ userUsage = NoUsage THEN "skeleton"
              ELSE IF usageErr /\ userUsage = NoUsage THEN "error"
              ELSE IF userUsage # NoUsage THEN "usage" ELSE "nothing"
-----------------------------------------------------------------------------
Init ==
  /\ status = FALSE /\ pageLoading = TRUE /\ pageRefreshing = FALSE
  /\ pageErr = FALSE
  /\ polls = AskStatus({}, TRUE, FALSE)
  /\ selectedUser = Nobody /\ usageDays = FirstRange /\ userUsage = NoUsage
  /\ usageLoading = FALSE /\ usageErr = FALSE /\ queries = {} /\ mixed = FALSE

\* The interval: its closure takes the page for one without a status.
Tick ==
  /\ Room(polls)
  /\ pageLoading' = TRUE
  /\ polls' = AskStatus(polls, TRUE, FALSE)
  /\ UNCHANGED <<status, pageRefreshing, pageErr, dialog>>

Refresh ==
  /\ MayRefresh /\ selectedUser = Nobody /\ Room(polls)
  /\ pageRefreshing' = (pageRefreshing \/ status)
  /\ polls' = AskStatus(polls, ~status, TRUE)
  /\ UNCHANGED <<status, pageLoading, pageErr, dialog>>

\* A failure is shown when the closure saw no status.
StatusReply(p, ok) ==
  /\ ~p.answered
  /\ status' = (status \/ ok)
  /\ pageErr' = (~ok /\ (p.bare \/ pageErr))
  /\ IF p.manual
     THEN /\ polls' = (polls \ {p}) \cup {[p EXCEPT !.answered = TRUE]}
          /\ UNCHANGED <<pageLoading, pageRefreshing>>
     ELSE /\ polls' = polls \ {p}
          /\ pageLoading' = FALSE /\ pageRefreshing' = FALSE
  /\ UNCHANGED dialog

PauseEnds(p) ==
  /\ p.answered /\ polls' = polls \ {p}
  /\ pageLoading' = FALSE /\ pageRefreshing' = FALSE
  /\ UNCHANGED <<status, pageErr, dialog>>
-----------------------------------------------------------------------------
(* The dialog.                                                              *)

\* loadUserUsage up to its await.
Load(u, d) ==
  /\ Room(queries)
  /\ usageLoading' = TRUE /\ usageErr' = FALSE
  /\ queries' = AskUsage(queries, u, d)

Emptied == NoUsage

OpenUser(u) ==
  /\ UserTable
  /\ selectedUser' = u /\ userUsage' = Emptied
  /\ Load(u, usageDays)
  /\ mixed' = (queries # {})
  /\ UNCHANGED <<page, usageDays>>

\* The effect of [usageDays] keeps what is on the screen meanwhile.
ChooseDays(d) ==
  /\ selectedUser # Nobody /\ d # usageDays
  /\ usageDays' = d
  /\ Load(selectedUser, d)
  /\ UNCHANGED <<page, selectedUser, userUsage, mixed>>

RefreshUsage ==
  /\ selectedUser # Nobody /\ ~usageLoading
  /\ Load(selectedUser, usageDays)
  /\ UNCHANGED <<page, selectedUser, usageDays, userUsage, mixed>>

\* Closing does not cancel the call under way.
CloseUser ==
  /\ selectedUser # Nobody
  /\ selectedUser' = Nobody /\ userUsage' = NoUsage /\ usageErr' = FALSE
  /\ UNCHANGED <<page, usageDays, usageLoading, queries, mixed>>

UsageReply(q) ==
  /\ userUsage' = [of |-> q.of, days |-> q.days]
  /\ usageLoading' = FALSE
  /\ queries' = queries \ {q}
  /\ UNCHANGED <<page, selectedUser, usageDays, usageErr, mixed>>

UsageFails(q) ==
  /\ userUsage' = NoUsage /\ usageErr' = TRUE
  /\ usageLoading' = FALSE
  /\ queries' = queries \ {q}
  /\ UNCHANGED <<page, selectedUser, usageDays, mixed>>

Next ==
  \/ Tick \/ Refresh \/ CloseUser \/ RefreshUsage
  \/ \E p \in polls : PauseEnds(p) \/ \E ok \in BOOLEAN : StatusReply(p, ok)
  \/ \E u \in Person : OpenUser(u)
  \/ \E d \in Range : ChooseDays(d)
  \/ \E q \in queries : UsageReply(q) \/ UsageFails(q)

Spec == Init /\ [][Next]_vars
-----------------------------------------------------------------------------
(* The dialog carries a user's name over the usage of that user: only a call *)
(* still under way when the dialog opens can mix two users (96-119, 319).   *)
(* Once the calls are answered it shows a usage or an error, never a        *)
(* skeleton for which nothing will come, and so does the page behind it.    *)
UsageIsOfSelected ==
  /\ selectedUser # Nobody /\ userUsage # NoUsage /\ ~mixed
       => userUsage.of = selectedUser
  /\ selectedUser # Nobody /\ queries = {} => DialogBody \in {"usage", "error"}
  /\ polls = {} => Screen \in {"system", "error"}
=============================================================================
