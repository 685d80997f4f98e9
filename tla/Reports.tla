------------------------------ MODULE Reports ------------------------------
(***************************************************************************)
(* The three pages that show a report for a number of days the user        *)
(* selects: pages/Usage, pages/Dashboard and the ranking of pages/Models.  *)
(* A page asks for the report when it mounts and when the selection        *)
(* changes, and applies every answer, whatever is selected by then.  Usage *)
(* asks again every 30 seconds and when its tab regains focus; Models has  *)
(* a button for it.  The report of a selection is named by its days.       *)
(* What Usage and Dashboard work out of a report and of the limits, totals, *)
(* the colours of the punchcard and the quota bars, is at the end, of       *)
(* figures that come in any order.                                          *)
(***************************************************************************)
EXTENDS Integers, Sequences, FiniteSetsExt

CONSTANTS Days,       \* what can be selected
          Empty,      \* the selections whose report has no rows
          FirstDays,  \* selected when the page mounts
          NoReport,
          MaxCalls,   \* bound: requests under way at once
          DataRows,   \* sequences of rows: [date, requests, tokens]
          Cells,      \* <<weekday, hour>>: the others stay empty
          Counts,     \* the numbers of requests a cell can have
          Quotas      \* <<used, limit>>

\* Assumed where this module is instantiated, in DashboardPages.
DaysAssumption ==
  FirstDays \in Days /\ Empty \subseteq Days /\ NoReport \notin Days

\* A day without requests has no tokens.
FiguresAssumption ==
  /\ DataRows \subseteq Seq({r \in [date : Int, requests : Nat, tokens : Nat] :
                              r.requests = 0 => r.tokens = 0})
  /\ IsFiniteSet(Cells) /\ Cells # {}
  /\ Counts \subseteq Nat /\ Quotas \subseteq Nat \X Nat

VARIABLES screen,     \* the page mounted
          days,
          rows,       \* the report on the screen
          loading,    \* loading, rankLoading
          refreshing, \* rankRefreshing
          problem,    \* rankErr
          calls,      \* requests, and the pauses that follow a Refresh
          crossed,    \* history: two requests were under way at once
          missed      \* history: the last request failed

VARIABLES usage, punchcard, quota   \* the figures

vars == <<screen, days, rows, loading, refreshing, problem, calls, crossed,
          missed>>

Screen == {"usage", "dashboard", "models"}

\* bare: the rows that the closure of loadRanking saw were empty.
Call == [n : 1..MaxCalls, days : Days, bare : BOOLEAN, manual : BOOLEAN,
         answered : BOOLEAN]

TypeOK ==
  /\ screen \in Screen /\ days \in Days /\ rows \in Days \cup {NoReport}
  /\ calls \subseteq Call
  /\ {loading, refreshing, problem, crossed, missed} \subseteq BOOLEAN

HasRows == rows # NoReport /\ rows \notin Empty
-----------------------------------------------------------------------------
(* What the pages show.                                                     *)

Panel(what) == IF loading THEN "skeleton" ELSE what

\* The panels of Usage.  The punchcard of any report has seven rows.
Cards == Panel("totals")
Chart == Panel(IF HasRows THEN "chart" ELSE "empty")
DailyTable == Panel("table")
Punchcard == Panel(IF rows = NoReport THEN "empty" ELSE "grid")

\* Those of Dashboard: three charts under one roof, a table and a punchcard.
Totals == Panel("totals")
Activity == Panel(IF HasRows THEN "chart" ELSE "empty")
Breakdown == {Panel("table"), Panel(IF rows = NoReport THEN "empty" ELSE "grid")}

\* The ranking of Models.
Ranking == IF loading THEN "skeleton"
           ELSE IF problem /\ ~HasRows THEN "error"
           ELSE IF HasRows THEN "table" ELSE "empty"

Panels == CASE screen = "usage" -> {Cards, Chart, DailyTable, Punchcard}
            [] screen = "dashboard" -> {Totals, Activity} \cup Breakdown
            [] screen = "models" -> {Ranking}

MayRefresh == \/ ~refreshing               \* the Refresh button
              \/ Ranking = "error"         \* the Retry button
-----------------------------------------------------------------------------
MayCall == Cardinality(calls) < MaxCalls

Ask(d, manual) ==
  /\ MayCall
  /\ calls' = calls \cup {[n |-> CHOOSE n \in 1..MaxCalls : \A c \in calls : c.n # n,
                           days |-> d, bare |-> ~HasRows, manual |-> manual,
                           answered |-> FALSE]}
  /\ crossed' = (crossed \/ \E c \in calls : ~c.answered)

\* loadRanking shows a spinner instead of the skeletons when it has rows.
Spins == IF screen = "models" /\ HasRows
         THEN refreshing' = TRUE /\ UNCHANGED loading
         ELSE loading' = TRUE /\ UNCHANGED refreshing

Init ==
  /\ screen \in Screen
  /\ days = FirstDays /\ rows = NoReport /\ loading = TRUE
  /\ refreshing = FALSE /\ problem = FALSE
  /\ calls = {[n |-> 1, days |-> FirstDays, bare |-> TRUE, manual |-> FALSE,
               answered |-> FALSE]}
  /\ crossed = FALSE /\ missed = FALSE

\* The selection changes: the effect of [days].
Choose(d) ==
  /\ d # days /\ days' = d
  /\ Spins /\ Ask(d, FALSE)
  /\ UNCHANGED <<screen, rows, problem, missed>>

\* Mutant of PollDays: the interval keeps the closure of the first render.
PollDaysFirst == FirstDays

\* The effect renews the interval with every selection.
PollDays == days

\* loadUsage: by the interval, the focus or the visibility of the tab.
Poll ==
  /\ screen = "usage"
  /\ Ask(PollDays, FALSE)
  /\ UNCHANGED <<screen, days, rows, loading, refreshing, problem, missed>>

Refresh ==
  /\ screen = "models" /\ MayRefresh
  /\ Spins /\ Ask(days, TRUE)
  /\ UNCHANGED <<screen, days, rows, problem, missed>>
-----------------------------------------------------------------------------
(* Answers.                                                                 *)

\* Mutant of Ends: a failed request leaves the page as it is.
EndsOnSuccess(c) ==
  /\ calls' = calls \ {c}
  /\ IF missed' THEN UNCHANGED <<loading, refreshing>>
     ELSE loading' = FALSE /\ refreshing' = FALSE

\* The finally of both loads: a Refresh first waits until 700 ms have passed.
Ends(c) ==
  IF c.manual
  THEN /\ calls' = (calls \ {c}) \cup {[c EXCEPT !.answered = TRUE]}
       /\ UNCHANGED <<loading, refreshing>>
  ELSE /\ calls' = calls \ {c}
       /\ loading' = FALSE /\ refreshing' = FALSE

Reply(c) ==
  /\ ~c.answered
  /\ rows' = c.days /\ problem' = FALSE /\ missed' = FALSE
  /\ Ends(c)
  /\ UNCHANGED <<screen, days, crossed>>

Fails(c) ==
  /\ ~c.answered
  /\ problem' = (problem \/ (screen = "models" /\ c.bare))
  /\ missed' = TRUE
  /\ Ends(c)
  /\ UNCHANGED <<screen, days, rows, crossed>>

PauseEnds(c) ==
  /\ c.answered
  /\ calls' = calls \ {c}
  /\ loading' = FALSE /\ refreshing' = FALSE
  /\ UNCHANGED <<screen, days, rows, problem, crossed, missed>>

\* What may happen to the request in slot n.
Succeeds == \E c \in calls : Reply(c)
Proceeds == \E c \in calls : Reply(c) \/ Fails(c) \/ PauseEnds(c)

Next ==
  \/ \E d \in Days : Choose(d)
  \/ Poll \/ Refresh
  \/ Proceeds

Spec == Init /\ [][Next]_vars

\* Requests end while there are any, the interval of Usage ticks, and the
\* requests do not all fail for ever.
Fairness == WF_vars(Poll) /\ WF_vars(Proceeds) /\ SF_vars(Succeeds)

FairSpec == Spec /\ Fairness
-----------------------------------------------------------------------------
(* When nothing is under way, the report on the screen is the one of the    *)
(* days selected, unless requests crossed or the last one failed: then the  *)
(* heading says `days` over the rows of another selection (Dashboard 77-88, *)
(* Models 83-103 and 148).  Then "no data" is said exactly of a selection   *)
(* whose report is empty.                                                   *)
RowsMatchDays ==
  calls = {} /\ ~crossed /\ ~missed
    => rows = days /\ ("empty" \in Panels <=> days \in Empty)

(* A skeleton or a spinner stands for a request under way, also when one    *)
(* fails or several overlap.                                                *)
SpinnerMeansWork == "skeleton" \in Panels \/ refreshing => calls # {}

(* Usage corrects itself: once the selection stays, its report comes to the *)
(* screen and stays there, whatever crossed before (lines 165-179).          *)
UsageFollowsDays ==
  \A d \in Days :
    <>[](screen = "usage" /\ days = d) => <>[](rows = d)
-----------------------------------------------------------------------------
(* The figures.  Each page has them once.                                   *)

NoPunchcard == [c \in Cells |-> 0]

FiguresTypeOK ==
  /\ usage \in DataRows \cup {<<>>}
  /\ punchcard \in [Cells -> Counts \cup {0}]
  /\ quota \in Quotas \cup {<<0, 0>>}

FiguresInit == usage = <<>> /\ punchcard = NoPunchcard /\ quota = <<0, 0>>

\* Math.round(a / b)
Round(a, b) == (2 * a + b) \div (2 * b)
-----------------------------------------------------------------------------
\* The sum of a function's values, as a number of things.
SumOf(f) == Cardinality(UNION {{x} \X (1..f[x]) : x \in DOMAIN f})

Sum(what) == SumOf([i \in DOMAIN usage |-> usage[i][what]])

UsageTotals == [requests |-> Sum("requests"), tokens |-> Sum("tokens")]

Average == IF UsageTotals.requests > 0
           THEN Round(UsageTotals.tokens, UsageTotals.requests) ELSE 0

PeakDay == IF usage = <<>> THEN 0
           ELSE Max({usage[i].requests : i \in DOMAIN usage})

\* A date is counted in days; it is read as midnight where the browser is, so
\* its weekday is its own.
GetDay(date) == date % 7

\* weekdayTotals, of the weekdays that have a row.
WeekdayTotals ==
  [wd \in {GetDay(usage[i].date) : i \in DOMAIN usage} |->
     SumOf([i \in {j \in DOMAIN usage : GetDay(usage[j].date) = wd} |->
              usage[i].requests])]

\* The largest cell, found by the server.
PunchMax == Max({punchcard[c] : c \in Cells})

\* The share of the primary colour; none for an empty cell.
CellColor(n) ==
  IF n = 0 THEN 0
  ELSE 20 + Round(80 * n, IF PunchMax = 0 THEN 1 ELSE PunchMax)

\* The five samples below the punchcard, from Less to More.
Legend == [t \in 0..4 |-> CellColor(Round(t * PunchMax, 4))]

\* Dashboard has the same figures, and the busiest day.
DashboardFigures ==
  [totals |-> UsageTotals, weekdays |-> WeekdayTotals, average |-> Average,
   peak |-> PeakDay, colors |-> [c \in Cells |-> CellColor(punchcard[c])]]

\* QuotaBar: the number beside the bar, and whether it is red.
QuotaBar(used, limit) ==
  [percent |-> IF limit = 0 THEN 0
               ELSE IF used > limit THEN 100 ELSE Round(100 * used, limit),
   over |-> limit > 0 /\ used >= limit]
-----------------------------------------------------------------------------
Arrives ==
  \/ usage = <<>> /\ usage' \in DataRows /\ UNCHANGED <<punchcard, quota>>
  \/ /\ punchcard = NoPunchcard /\ punchcard' \in [Cells -> Counts]
     /\ UNCHANGED <<usage, quota>>
  \/ quota = <<0, 0>> /\ quota' \in Quotas /\ UNCHANGED <<usage, punchcard>>

(* The tooltips of the punchcard add up to the card above it, and no day is *)
(* busier than all; the average is the nearest whole one; a cell with       *)
(* requests never looks empty, more requests never look paler, and the      *)
(* busiest cell and the end of the legend have the full colour; the bar is  *)
(* red from the limit on, when it says 100, which it may say half a percent *)
(* early (Usage 74-97, 207-237, 484-559, Dashboard 90-116).                 *)
FiguresAgree ==
  LET f == DashboardFigures
      bar == QuotaBar(quota[1], quota[2])
  IN /\ SumOf(f.weekdays) = f.totals.requests
     /\ f.peak <= f.totals.requests
     /\ 2 * (f.average * f.totals.requests - f.totals.tokens)
          \in -f.totals.requests..f.totals.requests \/ usage = <<>>
     /\ \A c \in Cells :
          /\ f.colors[c] \in {0} \cup 20..100
          /\ (f.colors[c] = 0) = (punchcard[c] = 0)
          /\ punchcard[c] = PunchMax /\ PunchMax > 0
               => f.colors[c] = 100 /\ Legend[4] = 100
          /\ \A d \in Cells :
               punchcard[c] <= punchcard[d] => f.colors[c] <= f.colors[d]
     /\ bar.over = (quota[2] > 0 /\ quota[1] >= quota[2])
     /\ bar.over => bar.percent = 100
     /\ bar.percent = 100 => 200 * quota[1] >= 199 * quota[2]
=============================================================================
