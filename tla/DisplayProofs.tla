---------------------------- MODULE DisplayProofs ---------------------------
(***************************************************************************)
(* Theorems about what DashboardPages shows as work under way, and about   *)
(* what stays in bounds, for every choice of the constants: reports, keys, *)
(* windows, links, cards, clients, limits and times.                       *)
(***************************************************************************)
EXTENDS PagesProofs

(***************************************************************************)
(* A step of the pages is for each part a step of that part, or it leaves  *)
(* the part as it is: the one fact that carries what a part does alone to  *)
(* the behaviours of DashboardPages.                                       *)
(***************************************************************************)
LEMMA ReportAlone == [Next]_vars => [Report!Next]_reportVars
BY Zenon DEF Next, Alone, TheRestStays, vars

LEMMA ModelsAlone == [Next]_vars => [Catalogue!Next]_modelsVars
BY Zenon DEF Next, Alone, TheRestStays, vars

LEMMA WelcomeAlone == [Next]_vars => [Arrival!Next]_welcomeVars
BY Zenon DEF Next, Alone, TheRestStays, vars

LEMMA SampleAlone == [Next]_vars => [Sample!Next]_sampleVars
BY Zenon DEF Next, Alone, TheRestStays, vars

LEMMA ConsoleAlone == [Next]_vars => [Console!Next]_consoleVars
BY Zenon DEF Next, Alone, TheRestStays, vars

LEMMA ZoomAlone == [Next]_vars => [Zoom!Next]_zoomVars
BY Zenon DEF Next, Alone, TheRestStays, vars

LEMMA FrameAlone == [Next]_vars => [Frame!Next]_frameVars
BY Zenon DEF Next, Alone, TheRestStays, vars

LEMMA NewsAlone == [Next]_vars => [News!Next]_newsVars
BY Zenon DEF Next, Alone, TheRestStays, vars

LEMMA BucketAlone == [Next]_vars => [Bucket!Next]_bucketVars
BY Zenon DEF Next, Alone, TheRestStays, vars

LEMMA TurnsAlone == [Next]_vars => [Turns!Next]_turnsVars
BY Zenon DEF Next, Alone, TheRestStays, vars

LEMMA GatesAlone == [Next]_vars => [Route!GatesNext]_gatesVars
BY Zenon DEF Next, Alone, TheRestStays, vars

LEMMA FiguresAlone == [Next]_vars => [Report!Arrives]_figuresVars
BY Zenon DEF Next, Alone, TheRestStays, vars

LEMMA RoutesAlone == [Next]_vars => [Route!RoutesNext]_routesVars
BY Zenon DEF Next, Alone, TheRestStays, vars

-----------------------------------------------------------------------------
\* The report of usage, and what follows it: the list of models, the welcome
\* page, the samples of code and the console of probes.

\* Without a crossing one request at most is unanswered, for the days selected;
\* without any, and without a failure, their report is on the screen.
ReportInv ==
  /\ days \in Days /\ screen \in Report!Screen
  /\ \A c \in reportCalls :
       c = [n |-> c.n, days |-> c.days, bare |-> c.bare, manual |-> c.manual,
            answered |-> c.answered]
  /\ reportLoading \/ refreshing => reportCalls # {}
  /\ problem => missed
  /\ ~reportsCrossed =>
       /\ \A c, e \in reportCalls : ~c.answered /\ ~e.answered => c = e
       /\ \A c \in reportCalls : ~c.answered => c.days = days
       /\ ~missed /\ (\A c \in reportCalls : c.answered) => reportRows = days

\* It holds at the start, every step keeps it, and it says what is claimed.
LEMMA ReportStart == Report!Init => ReportInv
BY PartsAssumption DEF Report!DaysAssumption, Report!Init, ReportInv

\* A new request.
LEMMA AskIsNew ==
  ASSUME NEW d, NEW manual, Report!Ask(d, manual)
  PROVE  \E c : /\ reportCalls' = reportCalls \cup {c}
                /\ c = [n |-> c.n, days |-> c.days, bare |-> c.bare, manual |-> c.manual,
                        answered |-> c.answered]
                /\ c.days = d /\ c.answered = FALSE
                /\ reportsCrossed' = (reportsCrossed \/ \E e \in reportCalls : ~e.answered)
<1> DEFINE c == [n |-> CHOOSE n \in 1..MaxReports : \A e \in reportCalls : e.n # n,
                 days |-> d, bare |-> ~Report!HasRows, manual |-> manual, answered |-> FALSE]
<1>1. reportCalls' = reportCalls \cup {c}
  BY Zenon DEF Report!Ask
<1>2. /\ c = [n |-> c.n, days |-> c.days, bare |-> c.bare, manual |-> c.manual,
              answered |-> c.answered]
      /\ c.days = d /\ c.answered = FALSE
  OBVIOUS
<1>3. reportsCrossed' = (reportsCrossed \/ \E e \in reportCalls : ~e.answered)
  BY DEF Report!Ask
<1> HIDE DEF c
<1> QED BY <1>1, <1>2, <1>3

\* A request for the days selected keeps the invariant.
LEMMA AskKeeps ==
  ASSUME ReportInv, NEW d \in Days, NEW manual, Report!Ask(d, manual), days' = d,
         UNCHANGED <<screen, problem, missed, reportRows>>
  PROVE  ReportInv'
<1>1. PICK c : /\ reportCalls' = reportCalls \cup {c}
               /\ c = [n |-> c.n, days |-> c.days, bare |-> c.bare, manual |-> c.manual,
                       answered |-> c.answered]
               /\ c.days = d /\ c.answered = FALSE
               /\ reportsCrossed' = (reportsCrossed \/ \E e \in reportCalls : ~e.answered)
  BY AskIsNew
<1> QED BY <1>1 DEF ReportInv

LEMMA ReportStep == ReportInv /\ [Report!Next]_reportVars => ReportInv'
<1> SUFFICES ASSUME ReportInv, [Report!Next]_reportVars PROVE ReportInv'
  OBVIOUS
<1>1. ASSUME NEW d \in Days, Report!Choose(d) PROVE ReportInv'
  BY <1>1, AskKeeps DEF Report!Choose
<1>2. CASE Report!Poll
  BY <1>2, AskKeeps DEF Report!Poll, Report!PollDays, ReportInv
<1>3. CASE Report!Refresh
  BY <1>3, AskKeeps DEF Report!Refresh, ReportInv
<1>4. ASSUME NEW c \in reportCalls, Report!Ends(c), ~c.answered,
             UNCHANGED <<screen, days, reportsCrossed>>,
             \/ reportRows' = c.days /\ problem' = FALSE /\ missed' = FALSE
             \/ missed' = TRUE
      PROVE  ReportInv'
  <2>1. CASE c.manual
    <3>1. PICK e : e = [c EXCEPT !.answered = TRUE]
      OBVIOUS
    <3>2. c = [n |-> c.n, days |-> c.days, bare |-> c.bare, manual |-> c.manual,
               answered |-> c.answered]
      BY DEF ReportInv
    <3>3. /\ e = [n |-> e.n, days |-> e.days, bare |-> e.bare, manual |-> e.manual,
                  answered |-> e.answered]
          /\ e.answered = TRUE
      BY <3>1, <3>2
    <3>4. reportCalls' = (reportCalls \ {c}) \cup {e} /\ UNCHANGED <<reportLoading, refreshing>>
      BY <1>4, <2>1, <3>1 DEF Report!Ends
    <3> QED BY <1>4, <3>3, <3>4 DEF ReportInv
  <2>2. CASE ~c.manual
    <3>1. reportCalls' = reportCalls \ {c} /\ reportLoading' = FALSE /\ refreshing' = FALSE
      BY <1>4, <2>2 DEF Report!Ends
    <3> QED BY <1>4, <3>1 DEF ReportInv
  <2> QED BY <2>1, <2>2
<1>5. ASSUME NEW c \in reportCalls, Report!Reply(c) \/ Report!Fails(c) PROVE ReportInv'
  BY <1>4, <1>5 DEF Report!Reply, Report!Fails
<1>6. ASSUME NEW c \in reportCalls, Report!PauseEnds(c) PROVE ReportInv'
  BY <1>6 DEF Report!PauseEnds, ReportInv
<1>7. CASE UNCHANGED reportVars
  BY <1>7 DEF reportVars, ReportInv
<1> QED
  BY <1>1, <1>2, <1>3, <1>5, <1>6, <1>7, Zenon DEF Report!Next, Report!Proceeds

LEMMA ReportHolds == ReportInv => Report!SpinnerMeansWork /\ Report!RowsMatchDays
<1> SUFFICES ASSUME ReportInv PROVE Report!SpinnerMeansWork /\ Report!RowsMatchDays
  OBVIOUS
<1>0. screen \in {"usage", "dashboard", "models"}
  BY DEF ReportInv, Report!Screen
<1>1. "skeleton" \in Report!Panels => reportLoading
  <2> USE DEF Report!Panel, Report!Cards, Report!Chart, Report!DailyTable, Report!Punchcard,
              Report!Totals, Report!Activity, Report!Breakdown, Report!Ranking
  <2> QED BY <1>0 DEF Report!Panels
<1>2. ASSUME ~reportLoading, reportRows \in Days, ~problem
      PROVE  "empty" \in Report!Panels <=> reportRows \in Empty
  <2>1. Report!HasRows <=> reportRows \notin Empty
    BY <1>2, PartsAssumption DEF Report!HasRows, Report!DaysAssumption
  <2>2. reportRows # NoReport
    BY <1>2, PartsAssumption DEF Report!DaysAssumption
  <2> USE DEF Report!Panel, Report!Cards, Report!Chart, Report!DailyTable, Report!Punchcard,
              Report!Totals, Report!Activity, Report!Breakdown, Report!Ranking
  <2> QED BY <1>0, <1>2, <2>1, <2>2 DEF Report!Panels
<1> QED BY <1>1, <1>2 DEF ReportInv, Report!SpinnerMeansWork, Report!RowsMatchDays

-----------------------------------------------------------------------------
\* That the tick is for the clipboard holds at the start, and every step keeps it.
LEMMA CatalogueStart == Catalogue!Init => Catalogue!TickIsForClipboard
BY DEF Catalogue!Init, Catalogue!TickIsForClipboard

LEMMA CatalogueStep ==
  Catalogue!TickIsForClipboard /\ [Catalogue!Next]_modelsVars => Catalogue!TickIsForClipboard'
<1> SUFFICES ASSUME Catalogue!TickIsForClipboard, [Catalogue!Next]_modelsVars
             PROVE  Catalogue!TickIsForClipboard'
  OBVIOUS
<1> USE DEF Catalogue!TickIsForClipboard
<1>1. ASSUME NEW f, Catalogue!SetFilter(f) PROVE Catalogue!TickIsForClipboard'
  BY <1>1 DEF Catalogue!SetFilter
<1>2. ASSUME NEW m, NEW ok \in BOOLEAN, Catalogue!Copy(m, ok) PROVE Catalogue!TickIsForClipboard'
  <2> DEFINE tick == [n |-> CHOOSE n \in 1..MaxMarks : \A k \in marks : k.n # n, of |-> m]
  <2>1. marks' = marks \cup {tick}
    BY <1>2, Zenon DEF Catalogue!Copy
  <2>2. tick.of = m
    OBVIOUS
  <2>3. copied' = m /\ pasted' = (IF ok THEN m ELSE pasted) /\ kept' = (kept /\ ok)
    BY <1>2 DEF Catalogue!Copy
  <2> HIDE DEF tick
  <2> QED BY <2>1, <2>2, <2>3
<1>3. ASSUME NEW k, Catalogue!MarkEnds(k) PROVE Catalogue!TickIsForClipboard'
  BY <1>3 DEF Catalogue!MarkEnds
<1>4. CASE UNCHANGED modelsVars
  BY <1>4 DEF modelsVars
<1> QED BY <1>1, <1>2, <1>3, <1>4, Zenon DEF Catalogue!Next

-----------------------------------------------------------------------------
\* The dialog of the plans is over the account it was opened for.
WelcomeInv ==
  /\ visitor \in Arrival!Visitor
  /\ membersUrl => health = "answered"
  /\ at = "welcome" => visitor.is # "nobody"
  /\ planDialog => /\ at = "welcome" /\ visitor.is = "user" /\ membersUrl
                   /\ ~visitor.owner /\ ~visitor.member /\ ~visitor.paid

\* It holds at the start, every step keeps it, and it says what is claimed.
LEMMA WelcomeStart == Arrival!Init => WelcomeInv
BY DEF Arrival!Init, Arrival!Fresh, Arrival!Blank, Arrival!Visitor, WelcomeInv

LEMMA WelcomeStep == WelcomeInv /\ [Arrival!Next]_welcomeVars => WelcomeInv'
<1> SUFFICES ASSUME WelcomeInv, [Arrival!Next]_welcomeVars PROVE WelcomeInv'
  OBVIOUS
<1> USE DEF WelcomeInv
<1>1. ASSUME NEW who \in Arrival!Visitor, who.is = "user" \/ who = Arrival!Blank("nobody"),
             Arrival!MeAnswers(who)
      PROVE  WelcomeInv'
  <2>1. who.is \in {"user", "nobody"}
    BY <1>1 DEF Arrival!Blank
  <2> QED BY <1>1, <2>1 DEF Arrival!MeAnswers
<1>2. ASSUME NEW how, NEW url \in BOOLEAN, Arrival!HealthEnds(how, url) PROVE WelcomeInv'
  BY <1>2 DEF Arrival!HealthEnds
<1>3. CASE Arrival!Leave
  BY <1>3 DEF Arrival!Leave, Arrival!Known
<1>4. CASE Arrival!SwitchPlanDialog
  BY <1>4 DEF Arrival!SwitchPlanDialog, Arrival!Known, Arrival!Offers
<1>5. CASE Arrival!Revisit
  BY <1>5 DEF Arrival!Revisit, Arrival!Blank, Arrival!Visitor
<1>6. CASE UNCHANGED welcomeVars
  BY <1>6 DEF welcomeVars
<1> QED BY <1>1, <1>2, <1>3, <1>4, <1>5, <1>6, Zenon DEF Arrival!Next

LEMMA WelcomeHolds == WelcomeInv => Arrival!WelcomeLeads
BY DEF WelcomeInv, Arrival!WelcomeLeads, Arrival!Known, Arrival!Offers, Arrival!Badge,
   Arrival!Visitor

-----------------------------------------------------------------------------
\* The key of the samples is the one that the list gave, if it is there.
KeyOfSamples ==
  /\ site \in {"docs", "landing"} /\ ownKeys \in Sample!VisitorLists(site)
  /\ apiKey # Sample!NoText =>
       ownKeys # <<>> /\ apiKey = ownKeys[Sample!Found(ownKeys)].text
  /\ site = "docs" /\ listing = "answered" /\ ownKeys # <<>> =>
       apiKey = ownKeys[Sample!Found(ownKeys)].text

\* A mark has a timer, and stands for the sample shown.
MarksOfSamples ==
  /\ tab \in Sample!Embeds \cup ServerTabs
  /\ tickTimers \in Nat /\ modelTimers \in Nat /\ changed \in BOOLEAN
  /\ sampleTicked => tickTimers > 0 /\ (changed \/ pastebin = Sample!DisplayCode)
  /\ tickedModel # Sample!NoText => modelTimers > 0

SampleInv == KeyOfSamples /\ MarksOfSamples

\* The first key found is in the list, and active if there is any.
LEMMA FoundIsActive ==
  ASSUME NEW l \in Seq([active : BOOLEAN, text : STRING]), l # <<>>
  PROVE  /\ Sample!Found(l) \in DOMAIN l
         /\ l[Sample!Found(l)].active \/ \A j \in DOMAIN l : ~l[j].active
<1> DEFINE on == {i \in DOMAIN l : l[i].active}
<1>1. CASE on = {}
  <2>1. Sample!Found(l) = 1
    BY <1>1 DEF Sample!Found
  <2>2. 1 \in DOMAIN l
    OBVIOUS
  <2> QED BY <1>1, <2>1, <2>2
<1>2. CASE on # {}
  <2>0. on \in SUBSET Nat
    OBVIOUS
  <2>1. \E m \in on : \A k \in on : m <= k
    <3> HIDE DEF on
    <3> QED BY <1>2, <2>0, LeastNatural
  <2>2. Sample!Found(l) = CHOOSE i \in on : \A j \in on : i <= j
    BY <1>2 DEF Sample!Found
  <2>3. Sample!Found(l) \in on
    BY <2>1, <2>2
  <2> QED BY <2>3
<1> QED BY <1>1, <1>2

\* The lists of keys a visitor may have are lists of keys.
LEMMA VisitorListTypes ==
  ASSUME NEW s \in {"docs", "landing"}
  PROVE  Sample!VisitorLists(s) \subseteq Seq([active : BOOLEAN, text : STRING])
BY PartsAssumption DEF Sample!SampleAssumption, Sample!VisitorLists

\* It holds at the start, every step keeps it, and it says what is claimed.
LEMMA SampleStart == Sample!Init => SampleInv
<1> SUFFICES ASSUME Sample!Init PROVE KeyOfSamples /\ MarksOfSamples
  BY DEF SampleInv
<1>1. KeyOfSamples
  BY DEF Sample!Init, KeyOfSamples, Sample!FirstListing
<1>2. MarksOfSamples
  BY DEF Sample!Init, MarksOfSamples, Sample!Embeds
<1> QED BY <1>1, <1>2

\* What is copied is what is displayed.
LEMMA CopiesDisplay ==
  ASSUME SampleInv PROVE Sample!CopyText = Sample!DisplayCode
<1>1. CASE site = "docs" /\ tab = "cURL"
  <2>1. "cURL" \notin ServerTabs
    BY PartsAssumption DEF Sample!SampleAssumption, Sample!Embeds
  <2>2. Sample!Bearer = IF apiKey = Sample!NoText THEN "environment" ELSE apiKey
    BY <1>1, <2>1 DEF Sample!Bearer
  <2> QED BY <1>1, <2>2 DEF Sample!CopyText, Sample!DisplayCode
<1>2. CASE ~(site = "docs" /\ tab = "cURL")
  BY <1>2 DEF Sample!CopyText
<1> QED BY <1>1, <1>2

\* Every step keeps the key of the samples.
LEMMA KeyOfSamplesStays ==
  ASSUME KeyOfSamples, [Sample!Next]_sampleVars
  PROVE  KeyOfSamples'
<1> USE DEF KeyOfSamples
<1>1. ASSUME UNCHANGED <<site, ownKeys, listing, apiKey>> PROVE KeyOfSamples'
  BY <1>1
<1>2. ASSUME NEW x, NEW ok,
             \/ Sample!SetActiveTab(x) \/ Sample!SetSelectedModel(x) \/ Sample!HandleCopy(ok)
             \/ Sample!HandleCopyModel(x, ok) \/ Sample!CopyFixed(x) \/ Sample!TickEnds
             \/ Sample!ModelTickEnds
      PROVE  KeyOfSamples'
  <2> HIDE DEF KeyOfSamples
  <2> QED
    BY <1>1, <1>2 DEF Sample!SetActiveTab, Sample!SetSelectedModel, Sample!HandleCopy,
       Sample!HandleCopyModel, Sample!CopyFixed, Sample!TickEnds, Sample!ModelTickEnds
<1>3. ASSUME NEW how, Sample!ListKeys(how) PROVE KeyOfSamples'
  BY <1>3 DEF Sample!ListKeys
<1>4. CASE Sample!Remount
  BY <1>4 DEF Sample!Remount, Sample!FirstListing
<1>5. CASE UNCHANGED sampleVars
  BY <1>5 DEF sampleVars
<1> QED
  BY <1>2, <1>3, <1>4, <1>5, Zenon DEF Sample!Next, Sample!CopyResponses, Sample!CopyImage

\* Every step keeps the marks of the samples.
LEMMA MarksOfSamplesStay ==
  ASSUME SampleInv, [Sample!Next]_sampleVars
  PROVE  MarksOfSamples'
<1> USE DEF SampleInv, MarksOfSamples
<1>0. ASSUME UNCHANGED <<site, tab, chosen, apiKey>>
      PROVE  Sample!DisplayCode' = Sample!DisplayCode
  BY <1>0 DEF Sample!DisplayCode, Sample!Bearer
<1>1. ASSUME NEW t \in Sample!Tabs, Sample!SetActiveTab(t) PROVE MarksOfSamples'
  <2>1. t \in Sample!Embeds \cup ServerTabs
    BY DEF Sample!Tabs
  <2>2. ~changed' => UNCHANGED <<site, tab, chosen, apiKey, changed>>
    BY <1>1 DEF Sample!SetActiveTab
  <2> QED BY <1>0, <1>1, <2>1, <2>2 DEF Sample!SetActiveTab
<1>2. ASSUME NEW how, Sample!ListKeys(how) PROVE MarksOfSamples'
  <2>1. ~changed' => UNCHANGED <<site, tab, chosen, apiKey, changed>>
    BY <1>2 DEF Sample!ListKeys
  <2> QED BY <1>0, <1>2, <2>1 DEF Sample!ListKeys
<1>3. ASSUME NEW m, Sample!SetSelectedModel(m) PROVE MarksOfSamples'
  <2>1. ~changed' => UNCHANGED <<site, tab, chosen, apiKey, changed>>
    BY <1>3 DEF Sample!SetSelectedModel
  <2> QED BY <1>0, <1>3, <2>1 DEF Sample!SetSelectedModel
<1>4. ASSUME NEW ok \in BOOLEAN, Sample!HandleCopy(ok) PROVE MarksOfSamples'
  <2>1. ok => pastebin' = Sample!DisplayCode
    BY <1>4, CopiesDisplay DEF Sample!HandleCopy
  <2>2. Sample!DisplayCode' = Sample!DisplayCode
    BY <1>0, <1>4 DEF Sample!HandleCopy
  <2>3. changed' \in BOOLEAN /\ (~changed' => ok)
    BY <1>4 DEF Sample!HandleCopy
  <2>4. tickTimers' \in Nat /\ tickTimers' > 0 /\ UNCHANGED <<tab, tickedModel, modelTimers>>
    BY <1>4 DEF Sample!HandleCopy
  <2> QED BY <2>1, <2>2, <2>3, <2>4
<1>5. ASSUME NEW ok \in BOOLEAN, NEW m, Sample!HandleCopyModel(m, ok) PROVE MarksOfSamples'
  BY <1>5 DEF Sample!HandleCopyModel
<1>6. CASE Sample!CopyResponses \/ Sample!CopyImage
  <2>1. changed' = TRUE
        /\ UNCHANGED <<tab, sampleTicked, tickTimers, tickedModel, modelTimers>>
    BY <1>6 DEF Sample!CopyResponses, Sample!CopyImage, Sample!CopyFixed
  <2> QED BY <2>1
<1>7. CASE Sample!TickEnds
  BY <1>7 DEF Sample!TickEnds
<1>8. CASE Sample!ModelTickEnds
  BY <1>0, <1>8 DEF Sample!ModelTickEnds
<1>9. CASE Sample!Remount
  BY <1>9 DEF Sample!Remount, Sample!Embeds
<1>10. CASE UNCHANGED sampleVars
  BY <1>0, <1>10 DEF sampleVars
<1> QED
  BY <1>1, <1>2, <1>3, <1>4, <1>5, <1>6, <1>7, <1>8, <1>9, <1>10, Zenon DEF Sample!Next

\* Every step keeps both.
LEMMA SampleStep == SampleInv /\ [Sample!Next]_sampleVars => SampleInv'
BY KeyOfSamplesStays, MarksOfSamplesStay DEF SampleInv

LEMMA SampleHolds == SampleInv => Sample!SampleTells
<1> SUFFICES ASSUME SampleInv PROVE Sample!SampleTells
  OBVIOUS
<1>1. ownKeys \in Seq([active : BOOLEAN, text : STRING])
  BY VisitorListTypes DEF SampleInv, KeyOfSamples
<1>2. ASSUME apiKey # Sample!NoText
      PROVE  \E i \in DOMAIN ownKeys :
                /\ ownKeys[i].text = apiKey
                /\ ownKeys[i].active \/ \A j \in DOMAIN ownKeys : ~ownKeys[j].active
  BY <1>1, <1>2, FoundIsActive DEF SampleInv, KeyOfSamples
<1>3. ASSUME site = "docs", listing = "answered", \E i \in DOMAIN ownKeys : ownKeys[i].active,
             \A i \in DOMAIN ownKeys : ownKeys[i].text # Sample!NoText
      PROVE  Sample!CopyText.key \notin {"unexpanded", "placeholder"}
  <2>1. apiKey # Sample!NoText
    BY <1>1, <1>3, FoundIsActive DEF SampleInv, KeyOfSamples
  <2>2. PICK i \in DOMAIN ownKeys : apiKey = ownKeys[i].text
    BY <1>2, <2>1
  <2>3. ownKeys \in KeyLists
    BY <1>3 DEF SampleInv, KeyOfSamples, Sample!VisitorLists
  <2>4. apiKey \in Sample!Texts
    BY <2>2, <2>3 DEF Sample!Texts
  <2>5. apiKey \notin {"unexpanded", "placeholder"}
    BY <2>4, PartsAssumption DEF Sample!SampleAssumption
  <2>6. Sample!CopyText.key = Sample!Bearer
    BY CopiesDisplay DEF Sample!DisplayCode
  <2> QED BY <1>3, <2>1, <2>5, <2>6 DEF Sample!Bearer
<1> QED BY <1>2, <1>3 DEF SampleInv, MarksOfSamples, Sample!SampleTells

-----------------------------------------------------------------------------
\* One interval for Auto, and others only where the page was left with it on.
ConsoleInv ==
  /\ logs \in Seq(Console!Gateway) /\ Len(logs) <= LogLimit
  /\ timers \in Nat
  /\ busy => sweeps # {}
  /\ auto => timers > 0
  /\ ~deserted => timers = IF auto THEN 1 ELSE 0

\* It holds at the start, every step keeps it, and it says what is claimed.
LEMMA ConsoleStart == Console!Init => ConsoleInv
BY PartsAssumption DEF Console!LogAssumption, Console!Init, ConsoleInv

\* A new entry keeps the log within its limit.
LEMMA LoggedKeeps ==
  ASSUME ConsoleInv, NEW g \in Console!Gateway
  PROVE  Console!Logged(g) \in Seq(Console!Gateway) /\ Len(Console!Logged(g)) <= LogLimit
<1> DEFINE s == <<g>> \o logs
           m == IF Len(logs) < LogLimit THEN Len(logs) + 1 ELSE LogLimit
<1>1. s \in Seq(Console!Gateway) /\ Len(s) = Len(logs) + 1 /\ Len(logs) \in Nat
  BY DEF ConsoleInv
<1>2. m \in 0..Len(s) /\ m <= LogLimit /\ LogLimit \in Nat
  BY <1>1, PartsAssumption DEF Console!LogAssumption, ConsoleInv
<1>3. SubSeq(s, 1, m) \in Seq(Console!Gateway) /\ Len(SubSeq(s, 1, m)) = m
  <2> HIDE DEF s, m
  <2> QED BY <1>1, <1>2
<1>4. Console!Logged(g) = SubSeq(s, 1, m)
  BY Zenon DEF Console!Logged
<1> QED BY <1>2, <1>3, <1>4

LEMMA ConsoleStep == ConsoleInv /\ [Console!Next]_consoleVars => ConsoleInv'
<1> SUFFICES ASSUME ConsoleInv, [Console!Next]_consoleVars PROVE ConsoleInv'
  OBVIOUS
<1> USE DEF ConsoleInv
<1>1. Console!StartSweep => busy' = TRUE /\ sweeps' # {}
  BY Zenon DEF Console!StartSweep
<1>2. CASE Console!RunAll
  BY <1>1, <1>2 DEF Console!RunAll
<1>3. CASE Console!RunSingle \/ Console!AutoProbe \/ Console!EdgeSwitches \/ Console!EnterConsole
  BY <1>3 DEF Console!RunSingle, Console!AutoProbe, Console!EdgeSwitches, Console!EnterConsole
<1>4. CASE Console!ToggleAuto
  BY <1>1, <1>4 DEF Console!ToggleAuto, Console!Silenced
<1>5. CASE Console!ClearLog
  BY <1>5, PartsAssumption DEF Console!LogAssumption, Console!ClearLog
<1>6. ASSUME NEW g \in Console!Gateway, Console!ProbeEnds(g) PROVE ConsoleInv'
  BY <1>6, LoggedKeeps DEF Console!ProbeEnds, Console!Probed
<1>7. ASSUME NEW g \in Console!Gateway, NEW s \in sweeps, Console!SweepProceeds(s, g)
      PROVE  ConsoleInv'
  <2>1. busy' => sweeps' # {}
    BY <1>7 DEF Console!SweepProceeds
  <2>2. logs' = Console!Logged(g) /\ UNCHANGED <<auto, timers, deserted>>
    BY <1>7 DEF Console!SweepProceeds, Console!Probed
  <2> QED BY <2>1, <2>2, LoggedKeeps
<1>8. CASE Console!LeaveConsole
  <2>1. /\ logs' = <<>> /\ busy' = FALSE /\ auto' = FALSE /\ timers' = timers
        /\ ~deserted' => ~deserted /\ ~auto
    BY <1>8, Zenon DEF Console!LeaveConsole, Console!Mount
  <2> QED BY <2>1, PartsAssumption DEF Console!LogAssumption
<1>9. CASE UNCHANGED consoleVars
  BY <1>9 DEF consoleVars
<1> QED
  BY <1>2, <1>3, <1>4, <1>5, <1>6, <1>7, <1>8, <1>9, Zenon DEF Console!Next

\* The cardinality of the instance is that of the library.
LEMMA ConsoleCardinality == ASSUME NEW S PROVE Console!Cardinality(S) = Cardinality(S)
BY Zenon DEF Console!Cardinality, Cardinality

\* The entries of the four gateways are all the entries there are.
LEMMA ConsoleHolds == ConsoleInv => Console!ConsoleTellsWork
<1> SUFFICES ASSUME ConsoleInv PROVE Console!ConsoleTellsWork
  OBVIOUS
<1> DEFINE By(g) == {i \in DOMAIN logs : logs[i] = g}
           all == 1..Len(logs)
           browser == By("cf-worker") \cup By("go-edge")
           rest == By("fastapi") \cup By("unknown")
<1>1. IsFiniteSet(all) /\ Cardinality(all) = Len(logs) /\ Len(logs) \in Nat /\ DOMAIN logs = all
  <2>1. Len(logs) \in Nat /\ DOMAIN logs = all
    BY DEF ConsoleInv
  <2>2. IsFiniteSet(1..Len(logs))
        /\ Cardinality(1..Len(logs)) = IF 1 > Len(logs) THEN 0 ELSE Len(logs) - 1 + 1
    BY <2>1, FS_Interval
  <2> QED BY <2>1, <2>2
<1>2. \A g : IsFiniteSet(By(g)) /\ Cardinality(By(g)) \in Nat
  <2> TAKE g
  <2>1. By(g) \subseteq all
    BY <1>1
  <2> HIDE DEF By, all
  <2> QED BY <1>1, <2>1, FS_Subset, FS_CardinalityType
<1>3. /\ browser \cap rest = {} /\ browser \cup rest = all
      /\ By("cf-worker") \cap By("go-edge") = {} /\ By("fastapi") \cap By("unknown") = {}
  BY <1>1 DEF ConsoleInv, Console!Gateway
<1>4. /\ Cardinality(browser) = Cardinality(By("cf-worker")) + Cardinality(By("go-edge"))
      /\ Cardinality(rest) = Cardinality(By("fastapi")) + Cardinality(By("unknown"))
      /\ IsFiniteSet(browser) /\ IsFiniteSet(rest)
  <2> HIDE DEF By
  <2>2. /\ IsFiniteSet(By("cf-worker")) /\ IsFiniteSet(By("go-edge"))
        /\ IsFiniteSet(By("fastapi")) /\ IsFiniteSet(By("unknown"))
    BY <1>2
  <2>3. Cardinality(browser) = Cardinality(By("cf-worker")) + Cardinality(By("go-edge"))
        /\ IsFiniteSet(browser)
    BY <1>3, <2>2, DisjointUnion
  <2>4. Cardinality(rest) = Cardinality(By("fastapi")) + Cardinality(By("unknown"))
        /\ IsFiniteSet(rest)
    BY <1>3, <2>2, DisjointUnion
  <2> QED BY <2>3, <2>4
<1>5. Cardinality(all) = Cardinality(browser) + Cardinality(rest)
  <2> HIDE DEF browser, rest, all
  <2>1. Cardinality(browser \cup rest) = Cardinality(browser) + Cardinality(rest)
    BY <1>3, <1>4, DisjointUnion
  <2> QED BY <1>3, <2>1
<1>6. \A g : Console!Answered(g) = Cardinality(By(g))
  BY ConsoleCardinality, Zenon DEF Console!Answered
<1>7. /\ Console!Stats.cf = Console!Answered("cf-worker")
      /\ Console!Stats.go = Console!Answered("go-edge")
      /\ Console!Stats.py = Console!Answered("fastapi")
      /\ Console!Stats.total = Len(logs)
  BY DEF Console!Stats
<1>8. Console!Stats.cf + Console!Stats.go + Console!Stats.py + Console!Answered("unknown")
        = Console!Stats.total
  <2>1. /\ Cardinality(By("cf-worker")) \in Nat /\ Cardinality(By("go-edge")) \in Nat
        /\ Cardinality(By("fastapi")) \in Nat /\ Cardinality(By("unknown")) \in Nat
    BY <1>2
  <2>2. Len(logs) = (Cardinality(By("cf-worker")) + Cardinality(By("go-edge")))
                      + (Cardinality(By("fastapi")) + Cardinality(By("unknown")))
    <3> HIDE DEF By, browser, rest, all
    <3> QED BY <1>1, <1>4, <1>5
  <2> HIDE DEF By, browser, rest, all
  <2> QED BY <1>6, <1>7, <2>1, <2>2
<1>9. Len(Console!LogTable) <= LogLimit /\ (Console!Stats.total > 0 => Console!LogTable = logs)
  BY <1>7, PartsAssumption DEF Console!LogAssumption, Console!LogTable, ConsoleInv
<1> QED BY <1>8, <1>9 DEF ConsoleInv, Console!ConsoleTellsWork

(* In every behaviour a spinner, a skeleton or "Probing..." stands for work *)
(* under way, "Copied" for something copied, and who has no plan is offered *)
(* one (Usage, Dashboard, Models, Testing, Welcome, Docs and the landing    *)
(* page).                                                                   *)
THEOREM SpinnerAlwaysMeansWork == Spec => []SpinnerMeansWork
<1> DEFINE Inv == /\ ReportInv /\ ConsoleInv /\ Catalogue!TickIsForClipboard
                  /\ WelcomeInv /\ SampleInv
<1>1. Init => Inv
  BY ReportStart, ConsoleStart, CatalogueStart, WelcomeStart, SampleStart DEF Init
<1>2. Inv /\ [Next]_vars => Inv'
  BY ReportAlone, ReportStep, ConsoleAlone, ConsoleStep, ModelsAlone, CatalogueStep,
     WelcomeAlone, WelcomeStep, SampleAlone, SampleStep, Zenon
<1>3. Inv => SpinnerMeansWork
  BY ReportHolds, ConsoleHolds, WelcomeHolds, SampleHolds DEF SpinnerMeansWork, Of
<1> HIDE DEF Inv
<1> QED BY <1>1, <1>2, <1>3, PTL DEF Spec

-----------------------------------------------------------------------------
\* The zoom of a chart.

ZoomInv ==
  /\ total \in Nat
  /\ zoomRange \in {Zoom!NoWindow} \cup (Int \X Int)
  /\ drag \in [start : Int, span : Int]

\* A turn of the wheel gives a window in the data, wider if it zooms out.
LEMMA ZoomedIsInside ==
  ASSUME NEW w \in {Zoom!NoWindow} \cup (Int \X Int), NEW n \in Nat, n >= 2,
         NEW out \in BOOLEAN, NEW cursor \in 0..Notches
  PROVE  /\ Zoom!Zoomed(w, n, out, cursor) \in Int \X Int
         /\ Zoom!Inside(Zoom!Zoomed(w, n, out, cursor), n)
         /\ Zoom!Width(Zoom!Zoomed(w, n, out, cursor)) >= 2
         /\ out /\ w # Zoom!NoWindow /\ Zoom!Width(w) < n
              => Zoom!Width(Zoom!Zoomed(w, n, out, cursor)) > Zoom!Width(w)
<1> DEFINE here == IF w = Zoom!NoWindow THEN <<0, n - 1>> ELSE w
           old == here[2] - here[1] + 1
           scaled == Zoom!Scaled(old, out)
           span == Zoom!AtLeast(2, Zoom!AtMost(n, scaled))
           moved0 == (2 * cursor * (old - span) + Notches) \div (2 * Notches)
           first == Zoom!AtLeast(0, Zoom!AtMost(here[1] + moved0, n - span))
<1>1. here[1] \in Int /\ old \in Int
  BY DEF Zoom!NoWindow
<1>2. /\ scaled \in Int
      /\ out /\ old >= 2 => scaled > old
  BY <1>1 DEF Zoom!Scaled
<1>3. /\ span \in Int /\ span >= 2 /\ span <= n
      /\ out /\ old < n => span > old
  <2> HIDE DEF old, scaled
  <2> QED BY <1>1, <1>2 DEF Zoom!AtLeast, Zoom!AtMost
<1>4. moved0 \in Int
  <2>1. Notches \in Nat /\ Notches > 0 /\ cursor \in Int
    BY PartsAssumption DEF Zoom!ZoomAssumption
  <2> HIDE DEF old, span
  <2>2. PICK a : a = 2 * cursor * (old - span) + Notches
    OBVIOUS
  <2>3. a \in Int
    BY <1>1, <1>3, <2>1, <2>2
  <2>4. \A d \in Nat : d > 0 => a \div d \in Int
    BY <2>3
  <2> QED BY <2>1, <2>2, <2>4
<1>5. first \in Int /\ first >= 0 /\ first + span <= n
  <2> HIDE DEF span, moved0, here
  <2> QED BY <1>1, <1>3, <1>4 DEF Zoom!AtLeast, Zoom!AtMost
<1>6. Zoom!Zoomed(w, n, out, cursor) = <<first, first + span - 1>>
  BY DEF Zoom!Zoomed, Zoom!Start, Zoom!Width
<1>7. w # Zoom!NoWindow => Zoom!Width(w) = old
  BY DEF Zoom!Width
<1> HIDE DEF first, span, old
<1> QED BY <1>1, <1>3, <1>5, <1>6, <1>7 DEF Zoom!Inside, Zoom!Width

\* It holds at the start, every step keeps it, and it says what is claimed.
LEMMA ZoomStart == Zoom!Init => ZoomInv
BY DEF Zoom!Init, ZoomInv, Zoom!NoDrag

LEMMA ZoomStep == ZoomInv /\ [Zoom!Next]_zoomVars => ZoomInv'
<1> SUFFICES ASSUME ZoomInv, [Zoom!Next]_zoomVars PROVE ZoomInv'
  OBVIOUS
<1> USE DEF ZoomInv
<1>0. MaxRows \in Nat
  BY PartsAssumption DEF Zoom!ZoomAssumption
<1>1. ASSUME NEW n \in 0..MaxRows, Zoom!Rows(n) PROVE ZoomInv'
  BY <1>0, <1>1 DEF Zoom!Rows
<1>2. ASSUME NEW out \in BOOLEAN, NEW cursor \in 0..Notches, Zoom!Wheel(out, cursor)
      PROVE  ZoomInv'
  BY <1>2, ZoomedIsInside DEF Zoom!Wheel
<1>3. CASE Zoom!SelectDays
  BY <1>3 DEF Zoom!SelectDays
<1>4. CASE Zoom!MouseDown
  <2>1. zoomRange # Zoom!NoWindow
    BY <1>4 DEF Zoom!MouseDown, Zoom!ValidRange
  <2> QED BY <1>4, <2>1 DEF Zoom!MouseDown, Zoom!Width
<1>5. CASE Zoom!StopDrag
  BY <1>5 DEF Zoom!StopDrag, Zoom!NoDrag
<1>6. CASE Zoom!DoubleClick
  BY <1>6 DEF Zoom!DoubleClick
<1>7. ASSUME NEW delta \in -MaxRows..MaxRows, Zoom!MouseMove(delta) PROVE ZoomInv'
  <2>1. drag.start \in Int /\ drag.span \in Int /\ delta \in Int
    BY <1>0
  <2>2. PICK first : first = Zoom!AtLeast(0, Zoom!AtMost(drag.start - delta,
                                    Zoom!AtLeast(0, total - drag.span)))
    OBVIOUS
  <2>3. first \in Int
    BY <2>1, <2>2 DEF Zoom!AtLeast, Zoom!AtMost
  <2>4. zoomRange' = <<first, first + drag.span - 1>> /\ UNCHANGED <<total, drag>>
    BY <1>7, <2>2 DEF Zoom!MouseMove
  <2> QED BY <2>1, <2>3, <2>4
<1>8. CASE UNCHANGED zoomVars
  BY <1>8 DEF zoomVars
<1> QED
  BY <1>1, <1>2, <1>3, <1>4, <1>5, <1>6, <1>7, <1>8, Zenon DEF Zoom!Next

LEMMA ZoomHolds == ZoomInv => Zoom!WheelStaysInData
<1> SUFFICES ASSUME ZoomInv, total >= 2, NEW cursor \in 0..Notches, NEW out \in BOOLEAN
             PROVE  LET w == Zoom!Zoomed(zoomRange, total, out, cursor)
                    IN /\ Zoom!Inside(w, total) /\ Zoom!Width(w) >= 2
                       /\ out /\ Zoom!ValidRange # Zoom!NoWindow /\ Zoom!Width(zoomRange) < total
                            => Zoom!Width(w) > Zoom!Width(zoomRange)
  BY Zenon DEF Zoom!WheelStaysInData
<1>1. Zoom!ValidRange # Zoom!NoWindow => zoomRange # Zoom!NoWindow
  BY DEF Zoom!ValidRange
<1> QED BY <1>1, ZoomedIsInside DEF ZoomInv

-----------------------------------------------------------------------------
\* The bottom bar and the menus of the frame.

FrameInv ==
  /\ maxFit \in Widths /\ account \in Frame!AccountKind
  /\ \A d, e \in opened : d = e
  /\ visibleCount = Frame!Counted(maxFit, account)

\* It holds at the start, every step keeps it, and it says what is claimed.
LEMMA FrameStart == Frame!Init => FrameInv
BY DEF Frame!Init, FrameInv

LEMMA FrameStep == FrameInv /\ [Frame!Next]_frameVars => FrameInv'
<1> SUFFICES ASSUME FrameInv, [Frame!Next]_frameVars PROVE FrameInv'
  OBVIOUS
<1> USE DEF FrameInv
<1>1. ASSUME NEW fit \in Widths, Frame!Resize(fit) PROVE FrameInv'
  BY <1>1 DEF Frame!Resize
<1>2. ASSUME NEW a \in Frame!AccountKind, Frame!AccountArrives(a) \/ Frame!SignIn(a)
      PROVE  FrameInv'
  BY <1>2 DEF Frame!AccountArrives, Frame!SignIn
<1>3. ASSUME NEW item, Frame!Tap(item) \/ Frame!DrawerTap(item) PROVE FrameInv'
  BY <1>3 DEF Frame!Tap, Frame!DrawerTap, Frame!Does
<1>4. CASE Frame!OpenDrawer \/ Frame!SidebarChat \/ Frame!OpenMenu \/ Frame!MenuLeaves
  BY <1>4 DEF Frame!OpenDrawer, Frame!SidebarChat, Frame!OpenMenu, Frame!MenuLeaves
<1>5. CASE Frame!UpgradeFromProfile \/ Frame!SignOut \/ Frame!SignOutFromProfile
  BY <1>5 DEF Frame!UpgradeFromProfile, Frame!SignOut, Frame!SignOutFromProfile
<1>6. ASSUME NEW p, Frame!SidebarLink(p) PROVE FrameInv'
  BY <1>6 DEF Frame!SidebarLink
<1>7. ASSUME NEW d, Frame!MenuItem(d) \/ Frame!CloseOverlay(d) PROVE FrameInv'
  BY <1>7 DEF Frame!MenuItem, Frame!CloseOverlay, Frame!Picked
<1>8. CASE UNCHANGED frameVars
  BY <1>8 DEF frameVars, Frame!Counted
<1> QED
  BY <1>1, <1>2, <1>3, <1>4, <1>5, <1>6, <1>7, <1>8, Zenon DEF Frame!Next

\* The names of the items: paths and the two actions.
ItemName == STRING \cup {"new", "profile"}

\* No page is twice among the items, and the chat is one of them.
LEMMA ItemsOnce ==
  /\ \A a \in Frame!AccountKind :
       /\ Frame!NavItems(a) \in Seq(ItemName) /\ Len(Frame!NavItems(a)) >= 3
       /\ \A i, j \in 1..Len(Frame!NavItems(a)) :
            Frame!NavItems(a)[i] = Frame!NavItems(a)[j] => i = j
       /\ \E i \in 1..Len(Frame!NavItems(a)) : Frame!NavItems(a)[i] = "/chat"
       /\ \A i \in 1..Len(Frame!NavItems(a)) : Frame!NavItems(a)[i] # Frame!Conversation
<1> SUFFICES ASSUME NEW a \in Frame!AccountKind
             PROVE  /\ Frame!NavItems(a) \in Seq(ItemName) /\ Len(Frame!NavItems(a)) >= 3
                    /\ \A i, j \in 1..Len(Frame!NavItems(a)) :
                         Frame!NavItems(a)[i] = Frame!NavItems(a)[j] => i = j
                    /\ \E i \in 1..Len(Frame!NavItems(a)) : Frame!NavItems(a)[i] = "/chat"
                    /\ \A i \in 1..Len(Frame!NavItems(a)) :
                         Frame!NavItems(a)[i] # Frame!Conversation
  BY Zenon
<1> DEFINE all == Links \o AdminLinks
           extra == IF a.owner THEN AdminLinks ELSE <<>>
           L == Links \o extra
           s == Frame!NavItems(a)
<1>1. Links \in Seq(ItemName) /\ AdminLinks \in Seq(ItemName)
  <2>1. Links \in Seq(STRING) /\ AdminLinks \in Seq(STRING) /\ STRING \subseteq ItemName
    BY PartsAssumption DEF Frame!LinkAssumption, ItemName
  <2> QED BY <2>1, SeqMonotonic
<1>2. \A i, j \in 1..Len(all) : all[i] = all[j] => i = j
  <2>1. \A i, j \in DOMAIN all : all[i] = all[j] => i = j
    BY PartsAssumption DEF Frame!LinkAssumption, Frame!IsInjective
  <2> QED BY <1>1, <2>1
<1>3. PICK c \in 1..Len(Links) : Links[c] = "/chat"
  <2>1. \E c \in DOMAIN Links : Links[c] = "/chat"
    BY PartsAssumption DEF Frame!LinkAssumption, Frame!Range
  <2> QED BY <1>1, <2>1
<1>4. \A i \in 1..Len(all) : all[i] # "new" /\ all[i] # "profile" /\ all[i] # Frame!Conversation
  <2>1. \A i \in DOMAIN all : all[i] \notin {"new", "profile", Frame!Conversation}
    BY PartsAssumption DEF Frame!LinkAssumption, Frame!Range
  <2> QED BY <1>1, <2>1
<1>5. /\ L \in Seq(ItemName) /\ Len(L) <= Len(all) /\ Len(L) >= Len(Links)
      /\ \A i \in 1..Len(L) : L[i] = all[i]
      /\ all \in Seq(ItemName) /\ \A i \in 1..Len(Links) : L[i] = Links[i]
  <2>1. /\ all \in Seq(ItemName) /\ Len(all) = Len(Links) + Len(AdminLinks)
        /\ \A i \in 1..Len(Links) + Len(AdminLinks) :
             all[i] = IF i <= Len(Links) THEN Links[i] ELSE AdminLinks[i - Len(Links)]
    BY <1>1, ConcatProperties
  <2>2. CASE a.owner
    <3>1. L = all
      BY <2>2
    <3> HIDE DEF L, all
    <3> QED BY <1>1, <2>1, <3>1
  <2>3. CASE ~a.owner
    <3>1. L = Links
      BY <1>1, <2>3, ConcatEmptySeq
    <3> HIDE DEF L, all
    <3> QED BY <1>1, <2>1, <3>1
  <2> QED BY <2>2, <2>3
<1>6. s = (<<"new">> \o L) \o <<"profile">>
  <2>1. extra \in Seq(ItemName)
    <3>1. CASE a.owner
      BY <1>1, <3>1
    <3>2. CASE ~a.owner
      BY <3>2
    <3> QED BY <3>1, <3>2
  <2>2. (<<"new">> \o Links) \o extra = <<"new">> \o L
    <3>1. "new" \in ItemName /\ Links \in Seq(ItemName)
      BY <1>1 DEF ItemName
    <3> HIDE DEF extra
    <3> QED BY <2>1, <3>1, HeadOfTwo
  <2> QED BY <2>2 DEF Frame!NavItems
<1> HIDE DEF all, L, extra, s
<1>7. /\ all \in Seq(ItemName) /\ Len(L) \in Nat /\ Len(all) \in Nat
      /\ L[c] = "/chat" /\ c \in 1..Len(L)
  <2>1. Len(Links) \in Nat /\ Len(L) \in Nat /\ Len(all) \in Nat
    BY <1>1, <1>5
  <2> QED BY <1>3, <1>5, <2>1
<1>8. /\ s \in Seq(ItemName) /\ Len(s) = Len(L) + 2
      /\ s[1] = "new" /\ s[Len(L) + 2] = "profile"
      /\ \A i \in 1..Len(L) : s[i + 1] = L[i]
  <2>1. L \in Seq(ItemName) /\ "new" \in ItemName /\ "profile" \in ItemName
    BY <1>5 DEF ItemName
  <2> QED BY <1>6, <2>1, Framed
<1>14. ASSUME NEW k \in 1..Len(s)
      PROVE  \/ k = 1 /\ s[k] = "new"
             \/ k = Len(s) /\ s[k] = "profile"
             \/ k - 1 \in 1..Len(L) /\ k - 1 \in 1..Len(all) /\ s[k] = all[k - 1]
  <2>1. k \in Nat /\ Len(s) \in Nat
    BY <1>7, <1>8
  <2>2. CASE k = 1
    BY <1>8, <2>2
  <2>3. CASE k = Len(s)
    BY <1>8, <2>3
  <2>4. CASE k > 1 /\ k < Len(s)
    <3>1. k - 1 \in 1..Len(L) /\ (k - 1) + 1 = k
      BY <1>7, <1>8, <2>1, <2>4
    <3>2. s[k] = L[k - 1]
      BY <1>8, <3>1
    <3>3. k - 1 \in 1..Len(all)
      BY <1>5, <1>7, <3>1
    <3> QED BY <1>5, <3>1, <3>2, <3>3
  <2>5. k = 1 \/ k = Len(s) \/ (k > 1 /\ k < Len(s))
    BY <2>1
  <2> QED BY <2>2, <2>3, <2>4, <2>5
<1>9. \A i, j \in 1..Len(s) : s[i] = s[j] => i = j
  <2> SUFFICES ASSUME NEW i \in 1..Len(s), NEW j \in 1..Len(s), s[i] = s[j], i # j
               PROVE  FALSE
    OBVIOUS
  <2>1. s[i] # "new" /\ s[i] # "profile"
    BY <1>4, <1>14
  <2>2. i - 1 \in 1..Len(all) /\ j - 1 \in 1..Len(all) /\ s[i] = all[i - 1] /\ s[j] = all[j - 1]
    BY <1>14, <2>1
  <2>3. i - 1 = j - 1
    BY <1>2, <2>2
  <2> QED BY <2>3
<1>10. c + 1 \in 1..Len(s) /\ s[c + 1] = "/chat"
  BY <1>5, <1>7, <1>8
<1>11. \A i \in 1..Len(s) : s[i] # Frame!Conversation
  BY <1>4, <1>14 DEF Frame!Conversation
<1>12. Len(s) >= 3
  BY <1>5, <1>7, <1>8
<1>13. /\ s \in Seq(ItemName) /\ Len(s) >= 3
       /\ \A i, j \in 1..Len(s) : s[i] = s[j] => i = j
       /\ \E i \in 1..Len(s) : s[i] = "/chat"
       /\ \A i \in 1..Len(s) : s[i] # Frame!Conversation
  BY <1>8, <1>9, <1>10, <1>11, <1>12
<1> QED BY <1>13 DEF s

LEMMA FrameHolds == FrameInv => Frame!FrameHolds
<1> SUFFICES ASSUME FrameInv PROVE Frame!FrameHolds
  OBVIOUS
<1> DEFINE s == Frame!Items
           n == Len(s)
           v == visibleCount
<1>1. /\ s \in Seq(ItemName) /\ n >= 3
      /\ \A i, j \in 1..n : s[i] = s[j] => i = j
      /\ \E i \in 1..n : s[i] = "/chat"
      /\ \A i \in 1..n : s[i] # Frame!Conversation
  BY ItemsOnce, Zenon DEF FrameInv, Frame!Items
<1>2. v = Frame!VisibleCount(maxFit, n)
  BY DEF FrameInv, Frame!Counted, Frame!Items
<1>3. maxFit \in Nat
  BY PartsAssumption DEF FrameInv, Frame!WidthAssumption
<1> HIDE DEF s
<1>4. n \in Nat /\ v \in 0..n /\ (v > 3 => v + (IF v < n THEN 1 ELSE 0) <= maxFit)
  <2>1. n \in Nat /\ n >= 3
    BY <1>1
  <2> HIDE DEF n
  <2> QED BY <1>2, <1>3, <2>1 DEF Frame!VisibleCount
<1>5. /\ Frame!Shown = SubSeq(s, 1, v)
      /\ Frame!Overflow = SubSeq(s, v + 1, n)
  BY DEF Frame!Shown, Frame!Overflow, s
<1>6. /\ Frame!Shown \o Frame!Overflow = s
      /\ Len(Frame!Overflow) = n - v
      /\ DOMAIN Frame!Shown = 1..v /\ DOMAIN Frame!Overflow = 1..(n - v)
      /\ \A i \in 1..v : Frame!Shown[i] = s[i]
      /\ \A i \in 1..(n - v) : Frame!Overflow[i] = s[v + i]
  BY <1>1, <1>4, <1>5, CutInTwo
<1>7. v > 3 => v + (IF Frame!HasOverflow THEN 1 ELSE 0) <= maxFit
  <2>1. Frame!HasOverflow => v < n
    BY <1>4, <1>5, <1>6 DEF Frame!HasOverflow
  <2> QED BY <1>3, <1>4, <2>1
<1>8. ASSUME path \in Frame!Range(s) \cup {Frame!Conversation}
      PROVE  Frame!OverflowActive <=> ~\E item \in Frame!Range(Frame!Shown) : Frame!IsActive(item)
  <2>1. PICK k \in 1..n : /\ Frame!IsActive(s[k])
                          /\ \A j \in 1..n : Frame!IsActive(s[j]) => j = k
    <3>1. CASE path = Frame!Conversation
      BY <1>1, <3>1 DEF Frame!IsActive
    <3>2. CASE path # Frame!Conversation
      <4>1. \E i \in 1..n : path = s[i]
        BY <1>1, <1>8, <3>2 DEF Frame!Range
      <4> QED BY <1>1, <3>2, <4>1 DEF Frame!IsActive
    <3> QED BY <3>1, <3>2
  <2>2. Frame!OverflowActive <=> k > v
    <3>1. Frame!OverflowActive <=> \E i \in 1..(n - v) : Frame!IsActive(s[v + i])
      BY <1>6 DEF Frame!OverflowActive, Frame!Range
    <3>2. ASSUME k > v PROVE \E i \in 1..(n - v) : Frame!IsActive(s[v + i])
      <4>1. k - v \in 1..(n - v) /\ v + (k - v) = k
        BY <1>4, <3>2
      <4> QED BY <2>1, <4>1
    <3>3. ASSUME NEW i \in 1..(n - v), Frame!IsActive(s[v + i]) PROVE k > v
      <4>1. v + i \in 1..n /\ v + i > v
        BY <1>4, <3>3
      <4> QED BY <2>1, <3>3, <4>1
    <3> QED BY <3>1, <3>2, <3>3
  <2>3. (\E item \in Frame!Range(Frame!Shown) : Frame!IsActive(item)) <=> k <= v
    <3>1. (\E item \in Frame!Range(Frame!Shown) : Frame!IsActive(item))
            <=> \E i \in 1..v : Frame!IsActive(s[i])
      BY <1>6 DEF Frame!Range
    <3>2. \A i \in 1..v : i \in 1..n
      BY <1>4
    <3>3. (\E i \in 1..v : Frame!IsActive(s[i])) <=> k \in 1..v
      BY <2>1, <3>2
    <3>4. k \in 1..v <=> k <= v
      BY <1>4
    <3> QED BY <3>1, <3>3, <3>4
  <2> QED BY <1>4, <2>2, <2>3
<1>9. /\ Frame!TierLabel = Frame!ProfilePlan /\ Frame!TierLabel = Frame!DashboardBadge
      /\ "upgrade" \in Frame!ProfileOffers <=> Frame!TierLabel = <<"free">>
  <2>1. /\ account.owner \in BOOLEAN /\ account.member \in BOOLEAN
        /\ account.paid \in BOOLEAN /\ account.tier \in {"none", "nomad"}
    BY DEF FrameInv, Frame!AccountKind
  <2> USE DEF Frame!TierLabel, Frame!ProfilePlan, Frame!DashboardBadge, Frame!ProfileOffers,
              Frame!Named
  <2>2. CASE account.owner
    BY <2>1, <2>2
  <2>3. CASE ~account.owner /\ account.member
    <3>1. CASE account.tier = "none"
      BY <2>1, <2>3, <3>1
    <3>2. CASE account.tier = "nomad"
      BY <2>1, <2>3, <3>2
    <3> QED BY <2>1, <3>1, <3>2
  <2>4. CASE ~account.owner /\ ~account.member /\ account.paid
    BY <2>1, <2>4
  <2>5. CASE ~account.owner /\ ~account.member /\ ~account.paid
    BY <2>1, <2>5
  <2> QED BY <2>1, <2>2, <2>3, <2>4, <2>5
<1> QED BY <1>6, <1>7, <1>8, <1>9 DEF FrameInv, Frame!FrameHolds, s

-----------------------------------------------------------------------------
\* The stack of news.

\* What is true of the stack, with the types its sums need.
NewsInv ==
  /\ popup \in Int /\ settling \in Nat /\ progress \in Nat
  /\ currentIndex \in 0..(CardCount - 1)
  /\ settling > 0 => progress + settling <= SettleTime
  /\ seen \in BOOLEAN /\ hasNew \in BOOLEAN /\ (hasNew => ~seen)
  /\ ~seen => popup >= 0 /\ ~newsOpen

\* What the proofs use of the assumptions on the constants.
LEMMA NewsConstants ==
  /\ CardCount \in Nat \ {0} /\ SettleTime \in Nat \ {0} /\ OpeningTime \in Nat \ {0}
  /\ Autoplay \in Nat \ {0}
  /\ SettleTime < Interval /\ Interval < Autoplay /\ Interval \in Nat
BY PartsAssumption DEF News!CardAssumption

\* It holds at the start, every step keeps it, and it says what is claimed.
LEMMA NewsStart == News!Init => NewsInv
<1> SUFFICES ASSUME News!Init PROVE NewsInv
  OBVIOUS
<1>1. /\ popup \in Int /\ settling \in Nat /\ progress \in Nat
      /\ currentIndex \in 0..(CardCount - 1)
      /\ ~(settling > 0) /\ (~seen => popup >= 0)
  BY NewsConstants DEF News!Init
<1>2. /\ seen \in BOOLEAN /\ hasNew \in BOOLEAN /\ (hasNew => ~seen) /\ ~newsOpen
  BY Zenon DEF News!Init
<1> QED BY <1>1, <1>2 DEF NewsInv

LEMMA NewsStep == NewsInv /\ [News!Next]_newsVars => NewsInv'
<1> SUFFICES ASSUME NewsInv, [News!Next]_newsVars PROVE NewsInv'
  OBVIOUS
<1> USE NewsConstants DEF NewsInv
<1>1. CASE News!OpenNews
  <2>1. popup' \in Int /\ progress' = 0 /\ settling' = 0 /\ currentIndex' = 0
    BY <1>1 DEF News!OpenNews, News!Stacked
  <2>2. seen' \in BOOLEAN /\ hasNew' \in BOOLEAN /\ ~hasNew' /\ seen'
    BY <1>1, Zenon DEF News!OpenNews
  <2> QED BY <2>1, <2>2
<1>2. CASE News!PopupOnOpen
  <2>1. popup' \in Int /\ UNCHANGED <<currentIndex, settling, progress>>
    BY <1>2 DEF News!PopupOnOpen, News!stack
  <2>2. seen' \in BOOLEAN /\ hasNew' \in BOOLEAN /\ ~hasNew' /\ seen'
    BY <1>2, Zenon DEF News!PopupOnOpen
  <2> QED BY <2>1, <2>2
<1>3. CASE News!CloseNews
  BY <1>3 DEF News!CloseNews, News!Stacked
<1>4. CASE News!Remount
  BY <1>4 DEF News!Remount, News!Stacked
<1>5. ASSUME NEW i \in Int, News!Shows(News!Clamped(i)), settling' = SettleTime,
             News!Elsewhere
      PROVE  NewsInv'
  BY <1>5 DEF News!Shows, News!Clamped, News!Elsewhere
<1>6. ASSUME NEW d \in Int, News!ScrollToCard(d), News!Elsewhere PROVE NewsInv'
  BY <1>5, <1>6 DEF News!ScrollToCard
<1>7. ASSUME NEW i \in 0..(CardCount - 1), News!JumpTo(i), News!Elsewhere PROVE NewsInv'
  BY <1>7 DEF News!JumpTo, News!Shows, News!Elsewhere
<1>8. ASSUME NEW k \in {"up", "down", "home", "end"}, News!Key(k) PROVE NewsInv'
  <2>1. News!Elsewhere
    BY <1>8 DEF News!Key
  <2>2. CASE k = "up"
    BY <1>6, <1>8, <2>1, <2>2 DEF News!Key
  <2>3. CASE k = "down"
    BY <1>6, <1>8, <2>1, <2>3 DEF News!Key
  <2>4. CASE k = "home"
    BY <1>7, <1>8, <2>1, <2>4 DEF News!Key
  <2>5. CASE k = "end"
    BY <1>7, <1>8, <2>1, <2>5 DEF News!Key
  <2> QED BY <2>2, <2>3, <2>4, <2>5
<1>9. ASSUME NEW deltaY, News!Wheel(deltaY) PROVE NewsInv'
  BY <1>6, <1>9 DEF News!Wheel
<1>10. ASSUME NEW dx, NEW dy, News!Swipe(dx, dy) PROVE NewsInv'
  <2>1. News!Swiped(dx, dy) \in Int
    BY DEF News!Swiped
  <2> QED BY <1>6, <1>10, <2>1 DEF News!Swipe
<1>11. ASSUME NEW d \in {-1, 1}, News!Arrow(d) PROVE NewsInv'
  BY <1>6, <1>11 DEF News!Arrow
<1>12. ASSUME NEW i \in 0..(CardCount - 1), News!Dot(i) PROVE NewsInv'
  BY <1>7, <1>12 DEF News!Dot
<1>13. ASSUME NEW on, News!Pause(on) PROVE NewsInv'
  BY <1>13 DEF News!Pause
<1>14. CASE News!Tick
  <2>1. popup' \in Int /\ (popup >= 0 => popup' >= 0)
    BY <1>14 DEF News!Tick
  <2>2. settling' = (IF settling > 0 THEN settling - 1 ELSE 0)
        /\ UNCHANGED <<seen, hasNew, newsOpen>>
    BY <1>14 DEF News!Tick, News!IsScrolling
  <2>3. \/ UNCHANGED <<currentIndex, progress>>
        \/ progress' = progress + 1 /\ UNCHANGED currentIndex
        \/ progress' = 0 /\ currentIndex' = (currentIndex + 1) % CardCount
    BY <1>14 DEF News!Tick, News!Shows
  <2>4. currentIndex' \in 0..(CardCount - 1)
    BY <2>3
  <2> QED BY <2>1, <2>2, <2>3, <2>4
<1>15. CASE UNCHANGED newsVars
  BY <1>15 DEF newsVars
<1> QED
  BY <1>1, <1>2, <1>3, <1>4, <1>8, <1>9, <1>10, <1>11, <1>12, <1>13, <1>14, <1>15,
     Zenon DEF News!Next

LEMMA NewsHolds == NewsInv => News!StackHolds
<1> SUFFICES ASSUME NewsInv PROVE News!StackHolds
  OBVIOUS
<1>1. News!IsScrolling => progress + settling <= SettleTime
  BY DEF NewsInv, News!IsScrolling
<1>2. ASSUME NEW i \in 0..(CardCount - 1), NEW j \in 0..(CardCount - 1),
             News!TakesClicks(i), i # j, News!Transform(j).opacity = 1
      PROVE  /\ News!Transform(i).opacity = 1
             /\ News!Transform(i).zIndex > News!Transform(j).zIndex
  BY <1>2, NewsConstants DEF NewsInv, News!TakesClicks, News!Transform
<1> QED BY <1>1, <1>2 DEF NewsInv, News!StackHolds

-----------------------------------------------------------------------------
\* The buckets of the Worker: what is shifted out, and what is served.

\* What the proofs use of the assumptions on the constants.
LEMMA BucketConstants ==
  /\ LimitTo \in [Routes -> Nat \ {0}] /\ Minute \in Nat /\ MaxBuckets \in Nat
  /\ Horizon \in Nat /\ Second \in Nat \ {0}
BY PartsAssumption DEF Bucket!BucketAssumption

OldCount(s, now, n) ==
  /\ n \in 0..Len(s)
  /\ \A i \in 1..n : now - s[i] > Minute
  /\ n < Len(s) => now - s[n + 1] <= Minute

\* The number of calls that the loop shifts out is such a number.
LEMMA OldExists ==
  ASSUME NEW s \in Seq(Int), NEW now \in Int
  PROVE  OldCount(s, now, Bucket!Old(s, now))
<1> DEFINE T == {n \in 0..Len(s) : n < Len(s) => now - s[n + 1] <= Minute}
<1>0. Len(s) \in Nat
  OBVIOUS
<1>1. Len(s) \in T /\ T \in SUBSET Nat
  BY <1>0
<1>2. PICK m \in T : \A k \in T : m <= k
  BY <1>1, LeastNatural
<1>3. ASSUME NEW i \in 1..m PROVE now - s[i] > Minute
  <2>1. i - 1 \in 0..Len(s) /\ i - 1 < Len(s) /\ ~(m <= i - 1) /\ (i - 1) + 1 = i
    BY <1>0, <1>2
  <2>2. i - 1 \notin T
    BY <1>2, <2>1
  <2>3. ~(now - s[i] <= Minute)
    BY <2>1, <2>2
  <2>4. now - s[i] \in Int
    BY <1>0, <1>2
  <2> QED BY <2>3, <2>4, BucketConstants
<1>4. OldCount(s, now, m)
  BY <1>2, <1>3 DEF OldCount
<1>5. \E n \in 0..Len(s) : /\ \A i \in 1..n : now - s[i] > Minute
                           /\ n < Len(s) => now - s[n + 1] <= Minute
  BY <1>4 DEF OldCount
<1> HIDE DEF T
<1> QED BY <1>5 DEF OldCount, Bucket!Old

\* There is only one.
LEMMA OldUnique ==
  ASSUME NEW s \in Seq(Int), NEW now \in Int, NEW m, NEW n,
         OldCount(s, now, m), OldCount(s, now, n)
  PROVE  m = n
<1>0. Len(s) \in Nat /\ m \in 0..Len(s) /\ n \in 0..Len(s)
  BY DEF OldCount
<1>1. ASSUME NEW a \in 0..Len(s), NEW b \in 0..Len(s), OldCount(s, now, a),
             OldCount(s, now, b), a < b
      PROVE  FALSE
  <2>1. a + 1 \in 1..b /\ a < Len(s) /\ a + 1 \in 1..Len(s)
    BY <1>0, <1>1
  <2>2. now - s[a + 1] > Minute /\ now - s[a + 1] <= Minute
    BY <1>1, <2>1 DEF OldCount
  <2>3. now - s[a + 1] \in Int
    BY <2>1
  <2> QED BY <2>2, <2>3, BucketConstants
<1>2. m < n \/ n < m \/ m = n
  BY <1>0
<1> QED BY <1>0, <1>1, <1>2

\* What is left of a list without its first n elements.
LEMMA FromFacts ==
  ASSUME NEW S, NEW s \in Seq(S), NEW n \in 0..Len(s)
  PROVE  /\ Bucket!From(s, n) \in Seq(S)
         /\ Len(Bucket!From(s, n)) = Len(s) - n
         /\ \A i \in 1..(Len(s) - n) : Bucket!From(s, n)[i] = s[n + i]
BY CutInTwo DEF Bucket!From

\* Shifting out at a later moment what an earlier one left.
LEMMA FromLater ==
  ASSUME NEW s \in Seq(Int), NEW now \in Int, NEW then \in Int, now <= then
  PROVE  Bucket!From(Bucket!From(s, Bucket!Old(s, now)),
                     Bucket!Old(Bucket!From(s, Bucket!Old(s, now)), then))
           = Bucket!From(s, Bucket!Old(s, then))
<1> DEFINE a == Bucket!Old(s, now)
           b == Bucket!Old(s, then)
           t == Bucket!From(s, a)
<1>1. OldCount(s, now, a) /\ OldCount(s, then, b)
  BY OldExists
<1> HIDE DEF a, b
<1>2. Len(s) \in Nat /\ a \in 0..Len(s) /\ b \in 0..Len(s)
  BY <1>1 DEF OldCount
<1>3. /\ t \in Seq(Int) /\ Len(t) = Len(s) - a
      /\ \A i \in 1..(Len(s) - a) : t[i] = s[a + i]
  BY <1>2, FromFacts
<1> HIDE DEF t
<1>4. a <= b
  <2> SUFFICES ASSUME b < a PROVE FALSE
    BY <1>2
  <2>1. b + 1 \in 1..a /\ b < Len(s) /\ b + 1 \in 1..Len(s)
    BY <1>2
  <2>2. now - s[b + 1] > Minute /\ then - s[b + 1] <= Minute /\ s[b + 1] \in Int
    BY <1>1, <2>1 DEF OldCount
  <2> QED BY <2>2, BucketConstants
<1>5. OldCount(t, then, b - a)
  <2>1. b - a \in 0..Len(t)
    BY <1>2, <1>3, <1>4
  <2>2. ASSUME NEW i \in 1..(b - a) PROVE then - t[i] > Minute
    <3>1. i \in 1..(Len(s) - a) /\ a + i \in 1..b
      BY <1>2, <1>4
    <3> QED BY <1>1, <1>3, <3>1 DEF OldCount
  <2>3. ASSUME b - a < Len(t) PROVE then - t[(b - a) + 1] <= Minute
    <3>1. PICK j \in 1..(Len(s) - a) : j = (b - a) + 1 /\ a + j = b + 1 /\ b < Len(s)
      BY <1>2, <1>3, <1>4, <2>3
    <3>2. t[j] = s[b + 1] /\ then - s[b + 1] <= Minute
      BY <1>1, <1>3, <3>1 DEF OldCount
    <3> QED BY <3>1, <3>2
  <2> QED BY <2>1, <2>2, <2>3 DEF OldCount
<1>6. Bucket!Old(t, then) = b - a
  BY <1>3, <1>5, OldExists, OldUnique
<1>7. Bucket!From(t, b - a) = Bucket!From(s, b)
  <2>1. b - a \in 0..Len(t)
    BY <1>2, <1>3, <1>4
  <2>2. /\ Bucket!From(t, b - a) \in Seq(Int)
        /\ Len(Bucket!From(t, b - a)) = Len(t) - (b - a)
        /\ \A i \in 1..(Len(t) - (b - a)) : Bucket!From(t, b - a)[i] = t[(b - a) + i]
    BY <1>3, <2>1, FromFacts, Zenon
  <2>3. /\ Bucket!From(s, b) \in Seq(Int)
        /\ Len(Bucket!From(s, b)) = Len(s) - b
        /\ \A i \in 1..(Len(s) - b) : Bucket!From(s, b)[i] = s[b + i]
    BY <1>2, FromFacts
  <2>4. ASSUME NEW i \in 1..(Len(s) - b) PROVE Bucket!From(t, b - a)[i] = Bucket!From(s, b)[i]
    <3>1. i \in 1..(Len(t) - (b - a)) /\ (b - a) + i \in 1..(Len(s) - a)
          /\ a + ((b - a) + i) = b + i
      BY <1>2, <1>3, <1>4
    <3> QED BY <1>3, <2>2, <2>3, <3>1
  <2>5. Len(t) - (b - a) = Len(s) - b
    BY <1>2, <1>3
  <2> QED BY <2>2, <2>3, <2>4, <2>5, SeqEqual
<1> QED BY <1>6, <1>7 DEF t, a, b

\* A call counted now stays when the list is pruned now.
LEMMA YoungStays ==
  ASSUME NEW s \in Seq(Int), NEW now \in Int
  PROVE  LET r == Bucket!From(s, Bucket!Old(s, now))
         IN /\ r \in Seq(Int) /\ Append(r, now) \in Seq(Int)
            /\ Bucket!From(Append(r, now), Bucket!Old(Append(r, now), now)) = Append(r, now)
<1> DEFINE a == Bucket!Old(s, now)
           r == Bucket!From(s, a)
           u == Append(r, now)
<1>1. OldCount(s, now, a)
  BY OldExists
<1> HIDE DEF a
<1>2. Len(s) \in Nat /\ a \in 0..Len(s)
  BY <1>1 DEF OldCount
<1>3. /\ r \in Seq(Int) /\ Len(r) = Len(s) - a
      /\ \A i \in 1..(Len(s) - a) : r[i] = s[a + i]
  BY <1>2, FromFacts
<1> HIDE DEF r
<1>4. /\ u \in Seq(Int) /\ Len(u) = Len(r) + 1 /\ u[Len(r) + 1] = now
      /\ \A i \in 1..Len(r) : u[i] = r[i]
  BY <1>3, AppendProperties
<1> HIDE DEF u
<1>5. OldCount(u, now, 0)
  <2>1. now - u[1] <= Minute
    <3>1. CASE Len(r) = 0
      BY <1>4, <3>1, BucketConstants
    <3>2. CASE Len(r) > 0
      <4>1. 1 \in 1..Len(r) /\ 1 \in 1..(Len(s) - a) /\ a < Len(s)
        BY <1>2, <1>3, <3>2
      <4> QED BY <1>1, <1>3, <1>4, <4>1 DEF OldCount
    <3> QED BY <1>2, <1>3, <3>1, <3>2
  <2>2. 0 \in 0..Len(u)
    BY <1>4
  <2> QED BY <2>1, <2>2 DEF OldCount
<1>6. Bucket!Old(u, now) = 0
  BY <1>4, <1>5, OldExists, OldUnique
<1>7. Bucket!From(u, 0) = u
  <2>1. Bucket!From(u, 0) = SubSeq(u, 1, Len(u))
    BY DEF Bucket!From
  <2> QED BY <1>4, <2>1, SubSeqFull
<1> QED BY <1>3, <1>4, <1>6, <1>7 DEF u, r, a

-----------------------------------------------------------------------------
\* As long as c's bucket was not deleted, it holds the calls of the last minute.
BucketInv ==
  /\ clock \in Nat
  /\ calls \in [Client -> Seq(Int)]
  /\ served \in [Client -> Seq([at : Int, on : Routes])]
  /\ forgot \in [Client -> BOOLEAN]
  /\ \A c \in Client :
       /\ forgot[c] => served[c] = <<>>
       /\ ~forgot[c] => Bucket!Times(served[c]) = Bucket!Recent(calls[c])
       /\ \A i \in 1..Len(served[c]) : i <= LimitTo[served[c][i].on]

\* A refusal that told how long to wait was about a bucket that its route fills.
ToldInv ==
  /\ DOMAIN told = Client
  /\ \A c \in Client :
       told[c] # Bucket!Nothing =>
         /\ told[c].route \in Routes
         /\ ~told[c].over /\ calls[c] # <<>> =>
              Len(calls[c]) <= LimitTo[told[c].route]
                /\ told[c].until \in Int /\ calls[c][1] + Minute <= told[c].until

Served == [at : Int, on : Routes]

\* The times of a list of calls.
LEMMA TimesFacts ==
  ASSUME NEW s \in Seq(Served)
  PROVE  /\ Bucket!Times(s) \in Seq(Int) /\ Len(Bucket!Times(s)) = Len(s)
         /\ \A i \in 1..Len(s) : Bucket!Times(s)[i] = s[i].at
<1>1. Len(s) \in Nat /\ DOMAIN s = 1..Len(s) /\ \A i \in 1..Len(s) : s[i] \in Served
  BY LenProperties, ElementOfSeq
<1>2. \A i \in 1..Len(s) : s[i].at \in Int
  BY <1>1 DEF Served
<1>3. Bucket!Times(s) = [i \in 1..Len(s) |-> s[i].at]
  BY <1>1 DEF Bucket!Times
<1>4. Bucket!Times(s) \in [1..Len(s) -> Int]
  BY <1>2, <1>3
<1>5. Bucket!Times(s) \in Seq(Int) /\ Len(Bucket!Times(s)) = Len(s)
  BY <1>1, <1>4
<1> QED BY <1>3, <1>5

\* The times of what is left are what is left of the times.
LEMMA TimesFrom ==
  ASSUME NEW s \in Seq(Served), NEW n \in 0..Len(s)
  PROVE  Bucket!Times(Bucket!From(s, n)) = Bucket!From(Bucket!Times(s), n)
<1> DEFINE f == Bucket!From(s, n)
           t == Bucket!Times(s)
<1>1. /\ f \in Seq(Served) /\ Len(f) = Len(s) - n
      /\ \A i \in 1..(Len(s) - n) : f[i] = s[n + i]
  BY FromFacts
<1>2. t \in Seq(Int) /\ Len(t) = Len(s) /\ \A i \in 1..Len(s) : t[i] = s[i].at
  BY TimesFacts
<1> HIDE DEF f, t
<1>3. /\ Bucket!From(t, n) \in Seq(Int) /\ Len(Bucket!From(t, n)) = Len(t) - n
      /\ \A i \in 1..(Len(t) - n) : Bucket!From(t, n)[i] = t[n + i]
  BY <1>2, FromFacts
<1>4. /\ Bucket!Times(f) \in Seq(Int) /\ Len(Bucket!Times(f)) = Len(f)
      /\ \A i \in 1..Len(f) : Bucket!Times(f)[i] = f[i].at
  BY <1>1, TimesFacts
<1>5. Len(s) \in Nat
  OBVIOUS
<1>6. ASSUME NEW i \in 1..(Len(s) - n) PROVE Bucket!Times(f)[i] = Bucket!From(t, n)[i]
  <2>1. n + i \in 1..Len(s)
    BY <1>5
  <2> QED BY <1>1, <1>2, <1>3, <1>4, <2>1
<1>7. Bucket!Times(f) = Bucket!From(t, n)
  BY <1>1, <1>2, <1>3, <1>4, <1>6, SeqEqual
<1> QED BY <1>7 DEF f, t

\* The times with a call more are the times and its own.
LEMMA TimesAppend ==
  ASSUME NEW s \in Seq(Served), NEW x \in Served
  PROVE  Bucket!Times(Append(s, x)) = Append(Bucket!Times(s), x.at)
<1> DEFINE f == Append(s, x)
           t == Bucket!Times(s)
           u == Append(t, x.at)
<1>1. /\ f \in Seq(Served) /\ Len(f) = Len(s) + 1 /\ f[Len(s) + 1] = x
      /\ \A i \in 1..Len(s) : f[i] = s[i]
  BY AppendProperties
<1>2. t \in Seq(Int) /\ Len(t) = Len(s) /\ \A i \in 1..Len(s) : t[i] = s[i].at
  BY TimesFacts
<1>3. x.at \in Int
  BY DEF Served
<1> HIDE DEF f, t
<1>4. /\ u \in Seq(Int) /\ Len(u) = Len(t) + 1 /\ u[Len(t) + 1] = x.at
      /\ \A i \in 1..Len(t) : u[i] = t[i]
  BY <1>2, <1>3, AppendProperties
<1>5. /\ Bucket!Times(f) \in Seq(Int) /\ Len(Bucket!Times(f)) = Len(f)
      /\ \A i \in 1..Len(f) : Bucket!Times(f)[i] = f[i].at
  BY <1>1, TimesFacts
<1> HIDE DEF u
<1>6. ASSUME NEW i \in 1..Len(f) PROVE Bucket!Times(f)[i] = u[i]
  <2>1. Len(s) \in Nat /\ (i \in 1..Len(s) \/ i = Len(s) + 1)
    BY <1>1
  <2> QED BY <1>1, <1>2, <1>4, <1>5, <2>1
<1>7. Bucket!Times(f) = u
  BY <1>1, <1>2, <1>4, <1>5, <1>6, SeqEqual
<1> QED BY <1>7 DEF f, t, u

\* It holds at the start, every step keeps it, and it says what is claimed.
LEMMA BucketStart == Bucket!Init => BucketInv /\ ToldInv
<1> SUFFICES ASSUME Bucket!Init PROVE BucketInv /\ ToldInv
  OBVIOUS
<1>1. /\ clock = 0 /\ calls = [c \in Client |-> <<>>] /\ served = [c \in Client |-> <<>>]
      /\ forgot = [c \in Client |-> FALSE] /\ told = [c \in Client |-> Bucket!Nothing]
  BY DEF Bucket!Init
<1>2. Bucket!Times(<<>>) = Bucket!Recent(<<>>)
  <2> DEFINE e == <<>>
             n == Bucket!Old(e, clock)
  <2>0. e \in Seq(Int) /\ e \in Seq(Served) /\ Len(e) = 0 /\ clock \in Int
    BY <1>1
  <2> HIDE DEF e
  <2>1. OldCount(e, clock, n)
    BY <2>0, OldExists
  <2> HIDE DEF n
  <2>2. n \in 0..Len(e) /\ n = 0
    BY <2>0, <2>1 DEF OldCount
  <2>3. Bucket!From(e, n) \in Seq(Int) /\ Len(Bucket!From(e, n)) = 0
    <3>1. e \in Seq(Int) /\ n \in 0..Len(e)
      BY <2>0, <2>2
    <3>2. Bucket!From(e, n) \in Seq(Int) /\ Len(Bucket!From(e, n)) = Len(e) - n
      BY <3>1, FromFacts
    <3> QED BY <2>0, <2>2, <3>2
  <2>4. Bucket!Times(e) \in Seq(Int) /\ Len(Bucket!Times(e)) = 0
    BY <2>0, TimesFacts
  <2>5. Bucket!Times(e) = Bucket!From(e, n)
    BY <2>3, <2>4, SeqEqual
  <2> QED BY <2>5 DEF e, n, Bucket!Recent
<1>3. ToldInv
  BY <1>1 DEF ToldInv
<1>4. BucketInv
  BY <1>1, <1>2 DEF BucketInv
<1> QED BY <1>3, <1>4

\* The passing of time keeps what is served equal to the pruned bucket.
LEMMA LaterKeeps == BucketInv /\ ToldInv /\ Bucket!Later => BucketInv' /\ ToldInv'
<1> SUFFICES ASSUME BucketInv, ToldInv, Bucket!Later PROVE BucketInv' /\ ToldInv'
  OBVIOUS
<1>1. clock \in Nat /\ clock' = clock + 1 /\ UNCHANGED <<calls, told, forgot>>
  BY DEF BucketInv, Bucket!Later
<1>2. ASSUME NEW c \in Client
      PROVE  /\ served'[c] \in Seq(Served)
             /\ forgot[c] => served'[c] = <<>>
             /\ ~forgot[c] => Bucket!Times(served'[c]) = Bucket!Recent(calls[c])'
             /\ \A i \in 1..Len(served'[c]) : i <= LimitTo[served'[c][i].on]
  <2> DEFINE s == served[c]
             t == Bucket!Times(s)
             k == Bucket!Old(t, clock')
  <2>1. s \in Seq(Served) /\ calls[c] \in Seq(Int)
    BY DEF BucketInv, Served
  <2>2. t \in Seq(Int) /\ Len(t) = Len(s)
    BY <2>1, TimesFacts
  <2>3. OldCount(t, clock', k)
    BY <1>1, <2>2, OldExists
  <2>4. served'[c] = Bucket!From(s, k)
    BY DEF Bucket!Later
  <2>5. Len(s) \in Nat /\ k \in 0..Len(s)
    BY <2>1, <2>2, <2>3 DEF OldCount
  <2>6. \A i \in 1..Len(s) : s[i] \in Served /\ i <= LimitTo[s[i].on]
    BY <2>1, ElementOfSeq DEF BucketInv
  <2>7. Bucket!Times(Bucket!From(s, k)) = Bucket!From(t, k)
    BY <2>1, <2>5, TimesFrom
  <2>8. ASSUME ~forgot[c] PROVE Bucket!From(t, k) = Bucket!Recent(calls[c])'
    <3>1. t = Bucket!From(calls[c], Bucket!Old(calls[c], clock))
      BY <2>8 DEF BucketInv, Bucket!Recent
    <3>2. Bucket!From(t, k) = Bucket!From(calls[c], Bucket!Old(calls[c], clock'))
      BY <1>1, <2>1, <3>1, FromLater
    <3> QED BY <1>1, <3>2 DEF Bucket!Recent
  <2> HIDE DEF t, k, s
  <2>9. /\ served'[c] \in Seq(Served) /\ Len(served'[c]) = Len(s) - k
        /\ \A i \in 1..(Len(s) - k) : served'[c][i] = s[k + i]
    BY <2>1, <2>4, <2>5, FromFacts
  <2>10. ASSUME NEW i \in 1..Len(served'[c]) PROVE i <= LimitTo[served'[c][i].on]
    <3>1. k + i \in 1..Len(s) /\ i \in 1..(Len(s) - k)
      BY <2>5, <2>9
    <3>2. k + i <= LimitTo[s[k + i].on] /\ s[k + i].on \in Routes
      BY <2>6, <3>1 DEF Served
    <3>3. LimitTo[s[k + i].on] \in Nat
      BY <3>2, BucketConstants
    <3> QED BY <2>5, <2>9, <3>1, <3>2, <3>3
  <2>11. ASSUME forgot[c] PROVE served'[c] = <<>>
    <3>1. Len(s) = 0
      BY <2>11 DEF BucketInv, s
    <3>2. Len(served'[c]) = 0
      BY <2>5, <2>9, <3>1
    <3> QED BY <2>9, <3>2, EmptySeq
  <2> QED BY <2>4, <2>7, <2>8, <2>9, <2>10, <2>11
<1>3. served' = [c \in Client |-> served'[c]]
  BY DEF Bucket!Later
<1>4. served' \in [Client -> Seq(Served)]
  BY <1>2, <1>3
<1>5. BucketInv'
  <2>1. clock' \in Nat /\ calls' \in [Client -> Seq(Int)] /\ forgot' \in [Client -> BOOLEAN]
    BY <1>1 DEF BucketInv
  <2>2. served' \in [Client -> Seq([at : Int, on : Routes])]
    BY <1>4 DEF Served
  <2>3. forgot' = forgot
    BY <1>1
  <2> QED BY <1>2, <2>1, <2>2, <2>3, Zenon DEF BucketInv
<1>6. ToldInv'
  BY <1>1 DEF ToldInv
<1> QED BY <1>5, <1>6

\* What pruning leaves of a bucket.
LEMMA RecentFacts ==
  ASSUME BucketInv, NEW c \in Client
  PROVE  /\ Bucket!Recent(calls[c]) \in Seq(Int)
         /\ Len(Bucket!Recent(calls[c])) \in Nat
         /\ Len(Bucket!Recent(calls[c])) <= Len(calls[c])
         /\ Bucket!Recent(Bucket!Recent(calls[c])) = Bucket!Recent(calls[c])
         /\ Bucket!Recent(calls[c]) # <<>> => clock - Bucket!Recent(calls[c])[1] <= Minute
         /\ calls[c] # <<>> /\ clock - calls[c][1] > Minute
              => Len(Bucket!Recent(calls[c])) < Len(calls[c])
<1> DEFINE s == calls[c]
           a == Bucket!Old(s, clock)
           r == Bucket!From(s, a)
<1>1. s \in Seq(Int) /\ clock \in Int
  BY DEF BucketInv
<1>2. OldCount(s, clock, a)
  BY <1>1, OldExists
<1>3. Bucket!From(r, Bucket!Old(r, clock)) = r
  BY <1>1, FromLater
<1> HIDE DEF a, s
<1>4. Len(s) \in Nat /\ a \in 0..Len(s)
  BY <1>1, <1>2 DEF OldCount
<1>5. r \in Seq(Int) /\ Len(r) = Len(s) - a /\ (\A i \in 1..(Len(s) - a) : r[i] = s[a + i])
  BY <1>1, <1>4, FromFacts
<1>6. Bucket!Recent(s) = r /\ Bucket!Recent(r) = r
  BY <1>3 DEF Bucket!Recent, a, s
<1> HIDE DEF r
<1>7. ASSUME r # <<>> PROVE clock - r[1] <= Minute
  <2>1. Len(r) # 0
    BY <1>5, <1>7, EmptySeq
  <2>2. 1 \in 1..(Len(s) - a) /\ a < Len(s)
    BY <1>4, <1>5, <2>1
  <2> QED BY <1>2, <1>5, <2>2 DEF OldCount
<1>8. ASSUME s # <<>>, clock - s[1] > Minute PROVE Len(r) < Len(s)
  <2>1. Len(s) # 0
    BY <1>1, <1>8, EmptySeq
  <2>2. a # 0
    <3> SUFFICES ASSUME a = 0 PROVE FALSE
      OBVIOUS
    <3>1. clock - s[1] <= Minute /\ s[1] \in Int
      BY <1>1, <1>2, <1>4, <2>1 DEF OldCount
    <3> QED BY <1>1, <1>8, <3>1, BucketConstants
  <2> QED BY <1>4, <1>5, <2>1, <2>2
<1>9. Len(r) \in Nat /\ Len(r) <= Len(s)
  BY <1>4, <1>5
<1> QED BY <1>5, <1>6, <1>7, <1>8, <1>9 DEF s

\* Retry-After lasts until the oldest call is a minute old.
LEMMA RetryReaches ==
  ASSUME NEW s \in Seq(Int), s # <<>>, clock \in Nat, clock - s[1] <= Minute
  PROVE  /\ clock + Bucket!Retry(s) * Second \in Int
         /\ s[1] + Minute <= clock + Bucket!Retry(s) * Second
<1>1. s[1] \in Int /\ Second \in Nat \ {0} /\ Minute \in Nat
  BY BucketConstants, EmptySeq, ElementOfSeq
<1>2. PICK x : x = s[1] + Minute - clock + Second - 1
  OBVIOUS
<1>3. x \in Nat
  BY <1>1, <1>2
<1>4. PICK q : q = x \div Second
  OBVIOUS
<1>5. q \in Nat /\ x < Second * (q + 1)
  BY <1>1, <1>3, <1>4, Quotient
<1>6. Second * (q + 1) = q * Second + Second /\ q * Second \in Int
  BY <1>1, <1>5
<1>7. Bucket!Retry(s) = q
  BY <1>2, <1>4 DEF Bucket!Retry
<1> QED BY <1>1, <1>2, <1>5, <1>6, <1>7

\* A refusal keeps both invariants.
LEMMA RefuseKeeps ==
  ASSUME BucketInv, ToldInv, NEW c \in Client, NEW r \in Routes, Bucket!Refuse(c, r)
  PROVE  BucketInv' /\ ToldInv'
<1> DEFINE s == Bucket!Recent(calls[c])
           answer == [route |-> r, until |-> clock + Bucket!Retry(s) * Second,
                      over |-> Len(s) > LimitTo[r]]
<1>1. /\ s \in Seq(Int) /\ Len(s) \in Nat /\ Bucket!Recent(s) = s
      /\ s # <<>> => clock - s[1] <= Minute
  BY RecentFacts
<1>2. /\ calls' = [calls EXCEPT ![c] = s] /\ told' = [told EXCEPT ![c] = answer]
      /\ UNCHANGED <<clock, served, forgot>>
  BY DEF Bucket!Refuse
<1>3. answer.route = r /\ answer.until = clock + Bucket!Retry(s) * Second
      /\ (answer.over <=> Len(s) > LimitTo[r])
  OBVIOUS
<1>4. Bucket!Recent(calls[c]) = s
  OBVIOUS
<1> HIDE DEF answer, s
<1>5. clock \in Nat /\ calls \in [Client -> Seq(Int)] /\ DOMAIN told = Client
  BY DEF BucketInv, ToldInv
<1>6. \A d \in Client : Bucket!Recent(calls'[d]) = Bucket!Recent(calls[d])
  BY <1>1, <1>2, <1>4, <1>5
<1>7. \A d \in Client : Bucket!Recent(calls[d])' = Bucket!Recent(calls'[d])
  BY <1>2 DEF Bucket!Recent
<1>8. BucketInv'
  <2>1. calls' \in [Client -> Seq(Int)]
    BY <1>1, <1>2, <1>5
  <2>2. clock' = clock /\ served' = served /\ forgot' = forgot
    BY <1>2
  <2>3. \A d \in Client : Bucket!Recent(calls[d])' = Bucket!Recent(calls[d])
    BY <1>6, <1>7, Zenon
  <2> QED BY <2>1, <2>2, <2>3, Zenon DEF BucketInv
<1>9. ToldInv'
  <2>1. ASSUME NEW d \in Client, told'[d] # Bucket!Nothing
        PROVE  /\ told'[d].route \in Routes
               /\ ~told'[d].over /\ calls'[d] # <<>> =>
                    Len(calls'[d]) <= LimitTo[told'[d].route]
                      /\ told'[d].until \in Int /\ calls'[d][1] + Minute <= told'[d].until
    <3>1. CASE d # c
      <4>1. told'[d] = told[d] /\ calls'[d] = calls[d]
        BY <1>2, <1>5, <3>1
      <4> QED BY <2>1, <4>1 DEF ToldInv
    <3>2. CASE d = c
      <4>1. told'[d] = answer /\ calls'[d] = s
        BY <1>2, <1>5, <3>2
      <4>2. ASSUME ~answer.over, s # <<>>
            PROVE  /\ Len(s) <= LimitTo[r]
                   /\ answer.until \in Int /\ s[1] + Minute <= answer.until
        <5>1. LimitTo[r] \in Nat
          BY BucketConstants
        <5>2. Len(s) <= LimitTo[r]
          BY <1>1, <1>3, <4>2, <5>1
        <5>3. /\ clock + Bucket!Retry(s) * Second \in Int
              /\ s[1] + Minute <= clock + Bucket!Retry(s) * Second
          BY <1>1, <1>5, <4>2, RetryReaches
        <5> QED BY <1>3, <5>2, <5>3
      <4> QED BY <1>3, <4>1, <4>2
    <3> QED BY <3>1, <3>2
  <2>2. DOMAIN told' = Client
    BY <1>2, <1>5
  <2> QED BY <2>1, <2>2, Zenon DEF ToldInv
<1> QED BY <1>8, <1>9

\* So does a call allowed, also when it evicts a bucket.
LEMMA AllowKeeps ==
  ASSUME BucketInv, ToldInv, NEW c \in Client, NEW r \in Routes, Bucket!Allow(c, r)
  PROVE  BucketInv' /\ ToldInv'
<1> DEFINE s == Bucket!Recent(calls[c])
           more == Append(s, clock)
           x == [at |-> clock, on |-> r]
           full == Len(Bucket!Known(c)) > MaxBuckets
           gone == Bucket!Known(c)[1]
           grown == [calls EXCEPT ![c] = more]
<1>1. s \in Seq(Int) /\ Len(s) \in Nat
  BY RecentFacts
<1>2. clock \in Nat /\ calls \in [Client -> Seq(Int)] /\ DOMAIN told = Client
      /\ forgot \in [Client -> BOOLEAN] /\ served \in [Client -> Seq(Served)]
  BY DEF BucketInv, ToldInv, Served
<1>3. more \in Seq(Int) /\ Bucket!Recent(more) = more
  <2>1. calls[c] \in Seq(Int) /\ clock \in Int
    BY <1>2
  <2> QED BY <2>1, YoungStays DEF Bucket!Recent
<1>4. x \in Served /\ x.at = clock /\ x.on = r
  BY <1>2 DEF Served
<1>5. /\ ~Bucket!Full(s, r)
      /\ calls' = (IF full THEN [grown EXCEPT ![gone] = <<>>] ELSE grown)
      /\ forgot' = (IF full THEN [forgot EXCEPT ![gone] = TRUE] ELSE forgot)
      /\ told' = [told EXCEPT ![c] = Bucket!Nothing]
      /\ served' = [d \in Client |-> IF forgot'[d] THEN <<>>
                      ELSE IF d # c THEN served[d] ELSE Append(served[d], x)]
      /\ clock' = clock
  BY DEF Bucket!Allow
<1>6. Bucket!Recent(calls[c]) = s
  OBVIOUS
<1> HIDE DEF s, x, full, gone
<1>7. Len(s) < LimitTo[r] /\ LimitTo[r] \in Nat
  <2>1. LimitTo[r] \in Nat
    BY BucketConstants
  <2> QED BY <1>1, <1>5, <2>1 DEF Bucket!Full
<1> HIDE DEF more
<1>8. grown \in [Client -> Seq(Int)]
      /\ \A d \in Client : grown[d] = IF d = c THEN more ELSE calls[d]
  BY <1>2, <1>3
<1> HIDE DEF grown
<1>9. calls' \in [Client -> Seq(Int)] /\ forgot' \in [Client -> BOOLEAN]
  <2>1. CASE full
    <3> DEFINE none == <<>>
    <3>1. none \in Seq(Int)
      OBVIOUS
    <3>2. calls' = [grown EXCEPT ![gone] = none] /\ forgot' = [forgot EXCEPT ![gone] = TRUE]
      BY <1>5, <2>1
    <3> HIDE DEF none
    <3>3. calls' \in [Client -> Seq(Int)]
      BY <1>8, <3>1, <3>2
    <3>4. forgot' \in [Client -> BOOLEAN]
      BY <1>2, <3>2
    <3> QED BY <3>3, <3>4
  <2>2. CASE ~full
    BY <1>2, <1>5, <1>8, <2>2
  <2> QED BY <2>1, <2>2
<1>10. ASSUME NEW d \in Client
       PROVE  \/ calls'[d] = <<>> /\ forgot'[d] = TRUE
              \/ calls'[d] = grown[d] /\ forgot'[d] = forgot[d]
  <2>1. CASE full /\ d = gone
    <3>1. calls' = [grown EXCEPT ![d] = <<>>] /\ forgot' = [forgot EXCEPT ![d] = TRUE]
      BY <1>5, <2>1
    <3>2. calls'[d] = <<>>
      BY <1>8, <3>1
    <3>3. forgot'[d] = TRUE
      BY <1>2, <3>1
    <3> QED BY <3>2, <3>3
  <2>2. CASE full /\ d # gone
    BY <1>2, <1>5, <1>8, <2>2
  <2>3. CASE ~full
    BY <1>5, <2>3
  <2> QED BY <2>1, <2>2, <2>3
<1>11. ASSUME NEW d \in Client, ~forgot'[d], d = c
       PROVE  /\ served'[d] = Append(served[d], x) /\ served'[d] \in Seq(Served)
              /\ Bucket!Times(served'[d]) = more
              /\ \A i \in 1..Len(served'[d]) : i <= LimitTo[served'[d][i].on]
  <2>1. forgot'[d] \in BOOLEAN /\ calls'[d] = grown[d] /\ ~forgot[d]
    BY <1>9, <1>10, <1>11
  <2>2. served'[d] = Append(served[d], x) /\ served[d] \in Seq(Served)
    BY <1>2, <1>5, <1>11
  <2>3. Bucket!Times(served[d]) = s
    BY <1>6, <1>11, <2>1 DEF BucketInv
  <2>4. Bucket!Times(Append(served[d], x)) = more
    BY <1>4, <2>2, <2>3, TimesAppend DEF more
  <2>5. Len(served[d]) = Len(s) /\ Len(served[d]) \in Nat
    BY <2>2, <2>3, TimesFacts
  <2>6. /\ Append(served[d], x) \in Seq(Served)
        /\ Len(Append(served[d], x)) = Len(served[d]) + 1
        /\ Append(served[d], x)[Len(served[d]) + 1] = x
        /\ \A i \in 1..Len(served[d]) : Append(served[d], x)[i] = served[d][i]
    BY <1>4, <2>2, AppendProperties
  <2>7. ASSUME NEW i \in 1..Len(served'[d]) PROVE i <= LimitTo[served'[d][i].on]
    <3>1. CASE i \in 1..Len(served[d])
      <4>1. i <= LimitTo[served[d][i].on]
        BY <3>1 DEF BucketInv
      <4> QED BY <2>2, <2>6, <3>1, <4>1
    <3>2. CASE i = Len(served[d]) + 1
      <4>1. served'[d][i].on = r
        BY <1>4, <2>2, <2>6, <3>2
      <4>2. i <= LimitTo[r]
        BY <1>1, <1>7, <2>5, <3>2
      <4> QED BY <4>1, <4>2
    <3>3. i \in 1..Len(served[d]) \/ i = Len(served[d]) + 1
      BY <2>2, <2>5, <2>6
    <3> QED BY <3>1, <3>2, <3>3
  <2> QED BY <2>2, <2>4, <2>6, <2>7
<1>12. ASSUME NEW d \in Client
       PROVE  /\ served'[d] \in Seq(Served)
              /\ forgot'[d] => served'[d] = <<>>
              /\ ~forgot'[d] => Bucket!Times(served'[d]) = Bucket!Recent(calls'[d])
              /\ \A i \in 1..Len(served'[d]) : i <= LimitTo[served'[d][i].on]
  <2>1. CASE forgot'[d]
    <3>1. served'[d] = <<>>
      BY <1>5, <2>1
    <3>2. <<>> \in Seq(Served) /\ Len(<<>>) = 0
      BY EmptySeq
    <3> QED BY <2>1, <3>1, <3>2
  <2>2. CASE ~forgot'[d] /\ d = c
    <3>1. calls'[d] = more
      BY <1>8, <1>9, <1>10, <2>2
    <3> QED BY <1>3, <1>11, <2>2, <3>1
  <2>3. CASE ~forgot'[d] /\ d # c
    <3>1. calls'[d] = calls[d] /\ ~forgot[d]
      BY <1>8, <1>9, <1>10, <2>3
    <3>2. served'[d] = served[d]
      BY <1>5, <2>3
    <3> QED BY <1>2, <2>3, <3>1, <3>2 DEF BucketInv
  <2> QED BY <2>1, <2>2, <2>3
<1>13. BucketInv'
  <2>1. served' \in [Client -> Seq([at : Int, on : Routes])]
    <3>1. served' = [d \in Client |-> served'[d]]
      BY <1>5
    <3> QED BY <1>12, <3>1 DEF Served
  <2>2. \A d \in Client : Bucket!Recent(calls[d])' = Bucket!Recent(calls'[d])
    BY <1>5 DEF Bucket!Recent
  <2>3. clock' \in Nat
    BY <1>2, <1>5
  <2> QED BY <1>9, <1>12, <2>1, <2>2, <2>3, Zenon DEF BucketInv
<1>14. ToldInv'
  <2>1. ASSUME NEW d \in Client, told'[d] # Bucket!Nothing
        PROVE  /\ told'[d].route \in Routes
               /\ ~told'[d].over /\ calls'[d] # <<>> =>
                    Len(calls'[d]) <= LimitTo[told'[d].route]
                      /\ told'[d].until \in Int /\ calls'[d][1] + Minute <= told'[d].until
    <3>1. d # c /\ told'[d] = told[d]
      BY <1>2, <1>5, <2>1
    <3>2. calls'[d] = <<>> \/ calls'[d] = calls[d]
      BY <1>8, <1>10, <3>1
    <3> QED BY <2>1, <3>1, <3>2 DEF ToldInv
  <2>2. DOMAIN told' = Client
    BY <1>2, <1>5
  <2> QED BY <2>1, <2>2, Zenon DEF ToldInv
<1> QED BY <1>13, <1>14

\* So does every step.
LEMMA BucketStep ==
  BucketInv /\ ToldInv /\ [Bucket!Next]_bucketVars => BucketInv' /\ ToldInv'
<1> SUFFICES ASSUME BucketInv, ToldInv, [Bucket!Next]_bucketVars
             PROVE  BucketInv' /\ ToldInv'
  OBVIOUS
<1>1. CASE Bucket!Later
  BY <1>1, LaterKeeps
<1>2. ASSUME NEW c \in Client, NEW r \in Routes, Bucket!Allow(c, r)
      PROVE  BucketInv' /\ ToldInv'
  BY <1>2, AllowKeeps
<1>3. ASSUME NEW c \in Client, NEW r \in Routes, Bucket!Refuse(c, r)
      PROVE  BucketInv' /\ ToldInv'
  BY <1>3, RefuseKeeps
<1>4. CASE UNCHANGED bucketVars
  <2>1. UNCHANGED <<clock, calls, told, served, forgot>>
    BY <1>4 DEF bucketVars
  <2>2. \A d \in Client : Bucket!Recent(calls[d])' = Bucket!Recent(calls[d])
    BY <2>1 DEF Bucket!Recent
  <2> QED BY <2>1, <2>2, Zenon DEF BucketInv, ToldInv
<1> QED BY <1>1, <1>2, <1>3, <1>4, Zenon DEF Bucket!Next

\* Together they say that no client is past its limit, or told too early a time.
LEMMA BucketHolds == BucketInv /\ ToldInv => Bucket!BucketsLimit
<1> SUFFICES ASSUME BucketInv, ToldInv, NEW c \in Client
             PROVE  /\ \A i \in DOMAIN served[c] :
                         Bucket!Cardinality({j \in 1..i - 1 :
                              served[c][i].at - served[c][j].at <= Minute})
                           < LimitTo[served[c][i].on]
                    /\ told[c] # Bucket!Nothing /\ ~told[c].over /\ clock > told[c].until
                         => ~Bucket!Full(Bucket!Recent(calls[c]), told[c].route)
  BY Zenon DEF Bucket!BucketsLimit
<1>1. ASSUME NEW i \in DOMAIN served[c]
      PROVE  Bucket!Cardinality({j \in 1..i - 1 :
                served[c][i].at - served[c][j].at <= Minute}) < LimitTo[served[c][i].on]
  <2> DEFINE J == {j \in 1..i - 1 : served[c][i].at - served[c][j].at <= Minute}
  <2>1. served[c] \in Seq(Served)
    BY DEF BucketInv, Served
  <2>2. i \in 1..Len(served[c]) /\ i \in Nat /\ i > 0 /\ served[c][i] \in Served
    BY <2>1, LenProperties, ElementOfSeq
  <2>3. i <= LimitTo[served[c][i].on] /\ LimitTo[served[c][i].on] \in Nat
    BY <2>2, BucketConstants DEF BucketInv, Served
  <2>4. J \subseteq 1..(i - 1)
    OBVIOUS
  <2> HIDE DEF J
  <2>5. IsFiniteSet(1..(i - 1)) /\ Cardinality(1..(i - 1)) = i - 1
    <3>1. i - 1 \in Int /\ 1 \in Int
      BY <2>2
    <3>2. /\ IsFiniteSet(1..(i - 1))
          /\ Cardinality(1..(i - 1)) = IF 1 > i - 1 THEN 0 ELSE (i - 1) - 1 + 1
      BY <3>1, FS_Interval
    <3> QED BY <2>2, <3>2
  <2>6. Cardinality(J) <= Cardinality(1..(i - 1)) /\ Cardinality(J) \in Nat
    BY <2>4, <2>5, FS_Subset, FS_CardinalityType
  <2>7. Bucket!Cardinality(J) = Cardinality(J)
    BY Zenon DEF Bucket!Cardinality, Cardinality
  <2>8. Cardinality(J) < LimitTo[served[c][i].on]
    BY <2>2, <2>3, <2>5, <2>6
  <2> QED BY <2>7, <2>8 DEF J
<1>2. ASSUME told[c] # Bucket!Nothing, ~told[c].over, clock > told[c].until
      PROVE  ~Bucket!Full(Bucket!Recent(calls[c]), told[c].route)
  <2> DEFINE n == LimitTo[told[c].route]
             s == Bucket!Recent(calls[c])
  <2>1. told[c].route \in Routes /\ n \in Nat /\ n > 0
    BY <1>2, BucketConstants DEF ToldInv
  <2>2. Len(s) \in Nat /\ Len(s) <= Len(calls[c]) /\ calls[c] \in Seq(Int)
    BY RecentFacts DEF BucketInv
  <2>3. CASE calls[c] = <<>>
    <3>1. Len(calls[c]) = 0
      BY <2>3
    <3> QED BY <2>1, <2>2, <3>1 DEF Bucket!Full
  <2>4. CASE calls[c] # <<>>
    <3>1. /\ Len(calls[c]) <= n
          /\ told[c].until \in Int /\ calls[c][1] + Minute <= told[c].until
      BY <1>2, <2>4 DEF ToldInv
    <3>2. calls[c][1] \in Int /\ clock \in Nat /\ Minute \in Nat
      BY <2>2, <2>4, EmptySeq, ElementOfSeq, BucketConstants DEF BucketInv
    <3>3. clock - calls[c][1] > Minute
      BY <1>2, <3>1, <3>2
    <3>4. Len(s) < Len(calls[c]) /\ Len(calls[c]) \in Nat
      BY <2>2, <2>4, <3>3, RecentFacts
    <3>5. Len(s) < n
      BY <2>1, <2>2, <3>1, <3>4
    <3> HIDE DEF s
    <3>6. ~(Len(s) >= n)
      BY <2>1, <2>2, <3>5
    <3> QED BY <3>6 DEF s, Bucket!Full
  <2> QED BY <2>3, <2>4
<1> QED BY <1>1, <1>2

(* In every behaviour a chart never zooms out of its data, the bottom bar   *)
(* never out of the window, the news never past a card still moving, and a  *)
(* client never past the Worker's limit (MiniChart, AppBottomBar, the card  *)
(* stack, cloudflare.js 85-118).                                            *)
THEOREM AlwaysStaysInBounds == Spec => []StaysInBounds
<1> DEFINE Inv == ZoomInv /\ FrameInv /\ NewsInv /\ BucketInv /\ ToldInv
<1>1. Init => Inv
  BY ZoomStart, FrameStart, NewsStart, BucketStart DEF Init
<1>2. Inv /\ [Next]_vars => Inv'
  BY ZoomAlone, ZoomStep, FrameAlone, FrameStep, NewsAlone, NewsStep, BucketAlone,
     BucketStep, Zenon
<1>3. Inv => StaysInBounds
  BY ZoomHolds, FrameHolds, NewsHolds, BucketHolds DEF StaysInBounds, Of
<1> HIDE DEF Inv
<1> QED BY <1>1, <1>2, <1>3, PTL DEF Spec

-----------------------------------------------------------------------------
(****************************************************************************)
(* The Worker's gates and lists, and the turns of the chat page.            *)
(****************************************************************************)
\* What the Worker decides about a call for model m by user u.
Decision(m, u) ==
  IF ~u.known THEN "noMember"
  ELSE IF Route!DeepseekGate(m, ~Route!Exempt(u)) # "none"
       THEN Route!DeepseekGate(m, ~Route!Exempt(u))
  ELSE IF Route!Budget(u) # "none" THEN Route!Budget(u) ELSE "direct"

\* The outcome of a call that was looked up is the decision about it, until it is
\* answered; nothing is forwarded before that.
GatesInv ==
  /\ asks.limits \in Route!Limits
  /\ row # Route!NoRow =>
       /\ asks.model \in Route!ModelNames \ {"other"}
       /\ outcome = Decision(asks.model, row) /\ outcome # "none"
  /\ handler = "query" =>
       /\ asks.model \in Route!ModelNames \ {"other"}
       /\ row = Route!NoRow /\ forwarded = Route!NoLimits
  /\ outcome = "none" => row = Route!NoRow /\ forwarded = Route!NoLimits
  /\ handler = "upstream" => forwarded = Route!NoLimits /\ outcome # "none"
  /\ Route!LimitsMirror

\* It holds at the start, every step keeps it, and it says what is claimed.
LEMMA GatesStart == Route!GatesInit => GatesInv
BY DEF Route!GatesInit, Route!NoCall, Route!NoLimits, Route!Limits, Route!Limit, GatesInv,
   Route!LimitsMirror

\* A decision is none of the marks of a call that is not decided.
LEMMA Decides ==
  ASSUME NEW m, NEW u PROVE Decision(m, u) # "none"
<1>1. Route!DeepseekGate(m, ~Route!Exempt(u)) # "none" \/ Route!DeepseekGate(m, ~Route!Exempt(u)) = "none"
  OBVIOUS
<1> QED BY DEF Decision

LEMMA GatesStep == GatesInv /\ [Route!GatesNext]_gatesVars => GatesInv'
<1> SUFFICES ASSUME GatesInv, [Route!GatesNext]_gatesVars PROVE GatesInv'
  OBVIOUS
<1>1. ASSUME NEW q \in Route!Request, Route!Receive(q) PROVE GatesInv'
  <2>1. /\ outcome = "none" /\ asks' = q /\ UNCHANGED <<row, forwarded>>
        /\ row = Route!NoRow /\ forwarded = Route!NoLimits
    BY <1>1 DEF Route!Receive, GatesInv
  <2>2. handler' = "query" => asks'.model \in Route!ModelNames \ {"other"}
    <3>1. q.model \in Route!ModelNames
      BY DEF Route!Request
    <3>2. handler' = "query" => Route!Direct(q.model)
      BY <1>1 DEF Route!Receive
    <3> QED BY <2>1, <3>1, <3>2 DEF Route!Direct
  <2>3. handler' # "upstream"
    BY <1>1 DEF Route!Receive
  <2>4. asks'.limits \in Route!Limits
    BY <2>1 DEF Route!Request, Route!Asked
  <2> QED BY <2>1, <2>2, <2>3, <2>4 DEF GatesInv, Route!LimitsMirror
<1>2. ASSUME NEW u \in Route!Users \cup {Route!Stranger}, Route!Query(u) PROVE GatesInv'
  <2>1. /\ handler = "query" /\ row' = u /\ UNCHANGED <<asks, forwarded>>
        /\ outcome' = Decision(asks.model, u)
        /\ handler' = IF outcome' = "direct" THEN "upstream" ELSE "idle"
    BY <1>2 DEF Route!Query, Decision
  <2>2. outcome' # "none"
    BY <2>1, Decides
  <2>3. /\ forwarded' = Route!NoLimits /\ asks'.limits \in Route!Limits /\ handler' # "query"
        /\ asks'.model \in Route!ModelNames \ {"other"}
    BY <2>1 DEF GatesInv
  <2> QED BY <2>1, <2>2, <2>3 DEF GatesInv, Route!LimitsMirror
<1>3. CASE Route!QueryFails
  BY <1>3 DEF Route!QueryFails, GatesInv, Route!LimitsMirror
<1>4. CASE Route!Upstream
  <2>1. /\ handler = "upstream" /\ handler' = "idle" /\ UNCHANGED <<asks, row, outcome>>
        /\ forwarded' = IF asks.model = "nano" THEN Route!OpenaiCompatBody(asks.limits)
                        ELSE asks.limits
    BY <1>4 DEF Route!Upstream
  <2>2. PICK l \in Route!Limits : l = asks.limits
    BY DEF GatesInv
  <2>3. CASE asks.model = "nano"
    <3>1. /\ forwarded' = Route!OpenaiCompatBody(l)
          /\ Route!BackendSends(asks.model, l) = Route!OpenaiBody(Route!ApplyMaxTokens(l))
      BY <2>1, <2>2, <2>3 DEF Route!BackendSends
    <3>2. Route!LimitsMirror'
      BY <2>1, <2>2, <2>3, <3>1 DEF Route!LimitsMirror, Route!OpenaiCompatBody,
         Route!OpenaiBody, Route!ApplyMaxTokens, Route!Limits, Route!Limit
    <3> QED BY <2>1, <3>2 DEF GatesInv
  <2>4. CASE asks.model # "nano"
    <3>1. l.max_tokens = "fits" => Route!ApplyMaxTokens(l) = l
      BY DEF Route!ApplyMaxTokens, Route!Limits
    <3>2. Route!LimitsMirror'
      BY <2>1, <2>2, <2>4, <3>1 DEF Route!LimitsMirror, Route!BackendSends
    <3> QED BY <2>1, <3>2 DEF GatesInv
  <2> QED BY <2>3, <2>4
<1>5. CASE Route!Answered
  BY <1>5 DEF Route!Answered, Route!NoCall, Route!NoLimits, Route!Limits, Route!Limit,
     GatesInv, Route!LimitsMirror
<1>6. CASE UNCHANGED gatesVars
  BY <1>6 DEF gatesVars, GatesInv, Route!LimitsMirror
<1> QED BY <1>1, <1>2, <1>3, <1>4, <1>5, <1>6, Zenon DEF Route!GatesNext

LEMMA GatesHold == GatesInv => Route!GatesMirror
<1> SUFFICES ASSUME GatesInv PROVE Route!GatesMirror
  OBVIOUS
<1>1. ASSUME row # Route!NoRow, row.listed => Route!Exempt(row)
      PROVE  /\ (outcome = "direct") = (Route!Backend(asks.model, row) = "direct")
             /\ row.known /\ Route!FreeModelGate(asks.model, row) # "none"
                  => outcome = Route!FreeModelGate(asks.model, row)
             /\ row.known /\ Route!FreeModelGate(asks.model, row) = "none"
                  => outcome = Route!Backend(asks.model, row)
  <2>1. /\ asks.model \in {"flash", "vision", "pro", "nano"}
        /\ outcome = Decision(asks.model, row)
    BY <1>1 DEF GatesInv, Route!ModelNames
  <2>2. Route!Live(row) <=> Route!Exempt(row)
    BY <1>1 DEF Route!Live
  <2>3. CASE ~row.known
    BY <2>1, <2>3 DEF Decision, Route!Backend, Route!RequireAccess
  <2>4. CASE row.known
    <3>1. Route!FreeModelGate(asks.model, row)
            = Route!DeepseekGate(asks.model, ~Route!Exempt(row))
      BY <2>1, <2>2 DEF Route!FreeModelGate, Route!DeepseekGate
    <3>2. Route!RequireAccess(row) = Route!Budget(row)
      BY <2>2, <2>4 DEF Route!RequireAccess, Route!Budget
    <3>3. Route!FreeModelGate(asks.model, row) # "direct"
      BY DEF Route!FreeModelGate
    <3>4. Route!Budget(row) # "direct"
      BY DEF Route!Budget, Route!Exceeds
    <3> QED BY <2>1, <2>4, <3>1, <3>2, <3>3, <3>4 DEF Decision, Route!Backend
  <2> QED BY <2>3, <2>4
<1> QED BY <1>1 DEF GatesInv, Route!GatesMirror

-----------------------------------------------------------------------------
\* What is kept is young, and made for who asks, as far as the cache tells them
\* apart; an error stands for a backend in trouble.
ListsKept ==
  /\ DOMAIN keptLists = Route!CacheKeys
  /\ \A k \in Route!CacheKeys :
       keptLists[k] # Route!NoList =>
         /\ keptLists[k] = [of |-> keptLists[k].of, age |-> keptLists[k].age]
         /\ keptLists[k].age \in Nat /\ keptLists[k].age < ModelsTtl
         /\ behindHash => /\ k \in ApiKeys => keptLists[k].of = k
                          /\ k = "session" => keptLists[k].of \in Sessions

RoutesInv ==
  /\ ListsKept
  /\ reply = Route!NoReply \/ Route!RoutesHold

\* It holds at the start, every step keeps it, and it says what is claimed.
LEMMA RoutesStart == Route!RoutesInit => RoutesInv
BY DEF Route!RoutesInit, RoutesInv, ListsKept

LEMMA RouteConstants ==
  /\ ModelsTtl \in Nat \ {0} /\ Sessions \cap ApiKeys = {} /\ "session" \notin ApiKeys
BY PartsAssumption DEF Route!CallerAssumption

\* A list is asked for.
LEMMA ModelsKeeps ==
  ASSUME RoutesInv, NEW c \in Route!Callers, Route!Models(c)
  PROVE  RoutesInv'
<1> DEFINE k == Route!CacheKey(c)
<1>1. k \in Route!CacheKeys
  BY DEF Route!CacheKey, Route!CacheKeys, Route!Callers
<1>2. behindHash => \/ c \in ApiKeys /\ c \notin Sessions /\ k = c
                    \/ c \in Sessions /\ c \notin ApiKeys /\ k = "session"
  BY RouteConstants DEF Route!CacheKey, Route!Callers
<1>3. UNCHANGED <<behindHash, backend>>
  BY DEF Route!Models
<1> HIDE DEF k
<1>4. CASE keptLists[k] # Route!NoList
  <2>1. /\ reply'.route = "models" /\ reply'.status = 200 /\ reply'.by = c
        /\ reply'.of = keptLists[k].of /\ reply'.age = keptLists[k].age
        /\ UNCHANGED keptLists
    BY <1>4 DEF Route!Models, Route!NoReply, k
  <2>3. /\ keptLists[k].age < ModelsTtl
        /\ behindHash => /\ k \in ApiKeys => keptLists[k].of = k
                         /\ k = "session" => keptLists[k].of \in Sessions
    BY <1>1, <1>4 DEF RoutesInv, ListsKept
  <2>2. Route!RoutesHold'
    BY <1>2, <1>3, <2>1, <2>3 DEF Route!RoutesHold
  <2> QED BY <1>3, <2>1, <2>2 DEF RoutesInv, ListsKept, Route!CacheKeys
<1>5. CASE keptLists[k] = Route!NoList
  <2>1. /\ reply'.route = "models" /\ reply'.status = Route!ProxyTo /\ reply'.by = c
        /\ reply'.of = c /\ reply'.age = 0
    BY <1>5 DEF Route!Models, Route!NoReply, k
  <2>2. Route!RoutesHold'
    BY <1>2, <1>3, <2>1, RouteConstants DEF Route!RoutesHold, Route!ProxyTo, Route!Callers
  <2>3. ListsKept'
    <3>1. PICK l : l = [of |-> c, age |-> 0]
      OBVIOUS
    <3>2. keptLists' = [keptLists EXCEPT ![k] = l] \/ UNCHANGED keptLists
      BY <1>5, <3>1, Zenon DEF Route!Models, k
    <3>3. /\ l = [of |-> l.of, age |-> l.age] /\ l.of = c /\ l.age = 0
      BY <3>1
    <3>4. /\ DOMAIN keptLists' = Route!CacheKeys
          /\ \A j \in Route!CacheKeys :
               keptLists'[j] = keptLists[j] \/ (j = k /\ keptLists'[j] = l)
      <4>1. DOMAIN keptLists = Route!CacheKeys
        BY DEF RoutesInv, ListsKept
      <4> QED BY <3>2, <4>1
    <3> QED BY <1>2, <1>3, <3>3, <3>4, RouteConstants DEF RoutesInv, ListsKept, Route!CacheKeys
  <2> QED BY <2>2, <2>3 DEF RoutesInv
<1> QED BY <1>4, <1>5

LEMMA RoutesStep == RoutesInv /\ [Route!RoutesNext]_routesVars => RoutesInv'
<1> SUFFICES ASSUME RoutesInv, [Route!RoutesNext]_routesVars PROVE RoutesInv'
  OBVIOUS
<1>0. ASSUME UNCHANGED <<behindHash, keptLists>> PROVE ListsKept'
  BY <1>0 DEF RoutesInv, ListsKept, Route!CacheKeys
<1>1. ASSUME NEW c \in Route!Callers, Route!Models(c) PROVE RoutesInv'
  BY <1>1, ModelsKeeps
<1>2. ASSUME NEW b, Route!BackendTurns(b) PROVE RoutesInv'
  BY <1>0, <1>2 DEF Route!BackendTurns, RoutesInv
<1>3. CASE Route!Health
  <2>1. /\ reply'.route = "health" /\ reply'.status = 200
        /\ (reply'.backend <=> backend = "up")
        /\ UNCHANGED <<behindHash, backend, keptLists>>
    BY <1>3 DEF Route!Health, Route!NoReply
  <2>2. Route!RoutesHold'
    BY <2>1 DEF Route!RoutesHold
  <2> QED BY <1>0, <2>1, <2>2 DEF RoutesInv
<1>4. CASE Route!Fallback
  <2>1. /\ reply'.route = "fallback" /\ reply'.status = Route!ProxyTo
        /\ UNCHANGED <<behindHash, backend, keptLists>>
    BY <1>4 DEF Route!Fallback, Route!NoReply
  <2>2. Route!RoutesHold'
    BY <2>1 DEF Route!RoutesHold, Route!ProxyTo
  <2> QED BY <1>0, <2>1, <2>2 DEF RoutesInv
<1>5. CASE Route!Replied
  BY <1>0, <1>5 DEF Route!Replied, RoutesInv
<1>6. CASE Route!Ages
  <2>1. /\ reply = Route!NoReply /\ UNCHANGED <<behindHash, backend, reply>>
        /\ keptLists' = [k \in Route!CacheKeys |->
             IF keptLists[k] # Route!NoList /\ keptLists[k].age < ModelsTtl - 1
             THEN [keptLists[k] EXCEPT !.age = @ + 1] ELSE Route!NoList]
    BY <1>6 DEF Route!Ages
  <2>2. Route!CacheKeys' = Route!CacheKeys
    BY DEF Route!CacheKeys
  <2>3. ASSUME NEW k \in Route!CacheKeys, keptLists'[k] # Route!NoList
        PROVE  /\ keptLists[k] # Route!NoList /\ keptLists[k].age < ModelsTtl - 1
               /\ keptLists'[k] = [of |-> keptLists[k].of, age |-> keptLists[k].age + 1]
    <3>1. keptLists'[k] = IF keptLists[k] # Route!NoList /\ keptLists[k].age < ModelsTtl - 1
                          THEN [keptLists[k] EXCEPT !.age = @ + 1] ELSE Route!NoList
      BY <2>1
    <3>2. keptLists[k] # Route!NoList /\ keptLists[k].age < ModelsTtl - 1
      BY <2>3, <3>1
    <3>3. keptLists[k] = [of |-> keptLists[k].of, age |-> keptLists[k].age]
      BY <3>2 DEF RoutesInv, ListsKept
    <3> QED BY <3>1, <3>2, <3>3
  <2>5. DOMAIN keptLists' = Route!CacheKeys
    BY <2>1
  <2>6. ASSUME NEW k \in Route!CacheKeys, keptLists'[k] # Route!NoList
        PROVE  /\ keptLists'[k] = [of |-> keptLists'[k].of, age |-> keptLists'[k].age]
               /\ keptLists'[k].age \in Nat /\ keptLists'[k].age < ModelsTtl
               /\ behindHash' => /\ k \in ApiKeys => keptLists'[k].of = k
                                 /\ k = "session" => keptLists'[k].of \in Sessions
    <3>1. /\ keptLists[k] # Route!NoList /\ keptLists[k].age < ModelsTtl - 1
          /\ keptLists'[k] = [of |-> keptLists[k].of, age |-> keptLists[k].age + 1]
      BY <2>3, <2>6
    <3>2. /\ keptLists[k].age \in Nat
          /\ behindHash => /\ k \in ApiKeys => keptLists[k].of = k
                           /\ k = "session" => keptLists[k].of \in Sessions
      BY <3>1 DEF RoutesInv, ListsKept
    <3>3. keptLists'[k].of = keptLists[k].of /\ keptLists'[k].age = keptLists[k].age + 1
      BY <3>1
    <3> QED BY <2>1, <3>1, <3>2, <3>3, RouteConstants
  <2>4. ListsKept'
    BY <2>2, <2>5, <2>6, Zenon DEF ListsKept
  <2> QED BY <2>1, <2>4 DEF RoutesInv
<1>7. CASE UNCHANGED routesVars
  BY <1>0, <1>7 DEF routesVars, RoutesInv, Route!RoutesHold
<1> QED
  BY <1>1, <1>2, <1>3, <1>4, <1>5, <1>6, <1>7, Zenon DEF Route!RoutesNext

LEMMA RoutesAlwaysHold == RoutesInv => Route!RoutesHold
BY DEF RoutesInv, Route!RoutesHold, Route!NoReply

-----------------------------------------------------------------------------
\* A message of the chat: who knows of an error says so, and there is something to
\* show of it, unless its answer is under way.
TurnOK(m, waits) ==
  /\ m \in Turns!Msg
  /\ m.failed /\ ~m.read => m.error
  /\ m.role = "user" => m.text # "none" \/ m.files # {}
  /\ m.role = "assistant" => m.text # "none" \/ m.reasoning \/ waits

TurnsInv ==
  /\ dialogue \in Seq(Turns!Msg)
  /\ \A i \in 1..Len(dialogue) :
       TurnOK(dialogue[i], i = Len(dialogue) /\ phase \in {"asked", "streaming"})
  /\ attached \subseteq Kinds
  /\ phase # "idle" => dialogue # <<>>
  /\ \A m \in request.sent : m.failed => m.read

\* It holds at the start, every step keeps it, and it says what is claimed.
LEMMA TurnsStart == Turns!Init => TurnsInv
BY DEF Turns!Init, Turns!NoRequest, TurnsInv

\* What is sent with the messages that are carried.
LEMMA TurnSent ==
  ASSUME TurnsInv, NEW typed \in BOOLEAN, NEW image \in BOOLEAN, Turns!Send(typed, image)
  PROVE  TurnsInv'
<1> DEFINE m == [Turns!Plain EXCEPT !.text = IF typed THEN "whole" ELSE "none",
                                    !.files = attached]
           a == [Turns!Plain EXCEPT !.role = "assistant"]
<1>1. /\ (typed \/ attached # {}) /\ attached \subseteq Kinds
      /\ request'.sent = Turns!History(image) \cup {m}
      /\ dialogue' = dialogue \o <<m, a>>
      /\ attached' = {} /\ phase' = "asked" /\ phase = "idle"
  BY DEF Turns!Send, Turns!Busy, TurnsInv
<1>p. PICK p : p = Turns!Plain
  OBVIOUS
<1>q. p = [role |-> "user", text |-> "none", files |-> {}, reasoning |-> FALSE,
           error |-> FALSE, cta |-> "none", failed |-> FALSE, read |-> FALSE]
  BY <1>p DEF Turns!Plain
<1>2. m = [role |-> "user", text |-> IF typed THEN "whole" ELSE "none", files |-> attached,
           reasoning |-> FALSE, error |-> FALSE, cta |-> "none", failed |-> FALSE,
           read |-> FALSE]
  <2>1. PICK n : n = [p EXCEPT !.text = IF typed THEN "whole" ELSE "none"]
    OBVIOUS
  <2>2. n = [role |-> "user", text |-> IF typed THEN "whole" ELSE "none", files |-> {},
             reasoning |-> FALSE, error |-> FALSE, cta |-> "none", failed |-> FALSE,
             read |-> FALSE]
    BY <1>q, <2>1
  <2>3. m = [n EXCEPT !.files = attached]
    BY <1>p, <2>1, Zenon
  <2> HIDE DEF m
  <2> QED BY <2>2, <2>3
<1>3. a = [role |-> "assistant", text |-> "none", files |-> {}, reasoning |-> FALSE,
           error |-> FALSE, cta |-> "none", failed |-> FALSE, read |-> FALSE]
  <2>1. a = [p EXCEPT !.role = "assistant"]
    BY <1>p, Zenon
  <2> HIDE DEF a, m
  <2> QED BY <1>q, <2>1
<1> HIDE DEF m, a
<1>4. TurnOK(m, FALSE) /\ TurnOK(a, TRUE) /\ ~m.failed
  BY <1>1, <1>2, <1>3 DEF TurnOK, Turns!Msg
<1>5. m \in Turns!Msg /\ a \in Turns!Msg /\ dialogue \in Seq(Turns!Msg)
  BY <1>4 DEF TurnOK, TurnsInv
<1>6. /\ dialogue' \in Seq(Turns!Msg) /\ Len(dialogue') = Len(dialogue) + 2
      /\ Len(dialogue) \in Nat
      /\ \A i \in 1..Len(dialogue) : dialogue'[i] = dialogue[i]
      /\ dialogue'[Len(dialogue) + 1] = m /\ dialogue'[Len(dialogue) + 2] = a
  BY <1>1, <1>5
<1>7. ASSUME NEW i \in 1..Len(dialogue')
      PROVE  TurnOK(dialogue'[i], i = Len(dialogue') /\ phase' \in {"asked", "streaming"})
  <2>1. CASE i \in 1..Len(dialogue)
    <3>1. TurnOK(dialogue[i], FALSE)
      BY <1>1, <2>1 DEF TurnsInv, TurnOK
    <3> QED BY <1>6, <2>1, <3>1 DEF TurnOK
  <2>2. CASE i = Len(dialogue) + 1
    BY <1>4, <1>6, <2>2 DEF TurnOK
  <2>3. CASE i = Len(dialogue) + 2
    BY <1>1, <1>4, <1>6, <2>3
  <2>4. i \in 1..Len(dialogue) \/ i = Len(dialogue) + 1 \/ i = Len(dialogue) + 2
    BY <1>6
  <2> QED BY <2>1, <2>2, <2>3, <2>4
<1>8. ASSUME NEW x \in request'.sent PROVE x.failed => x.read
  <2>1. CASE x = m
    BY <1>4, <2>1
  <2>2. CASE x \in Turns!History(image)
    <3>1. PICK i \in 1..Len(dialogue) : x = dialogue[i] /\ ~x.error
      <4>1. /\ x \in {y \in {dialogue[i] : i \in DOMAIN dialogue} : Turns!Carried(y)}
        BY <2>2 DEF Turns!History
      <4>2. DOMAIN dialogue = 1..Len(dialogue)
        BY <1>5
      <4> QED BY <4>1, <4>2 DEF Turns!Carried
    <3>2. x.failed /\ ~x.read => x.error
      BY <3>1 DEF TurnsInv, TurnOK
    <3>3. x \in Turns!Msg
      BY <3>1, <1>5
    <3> QED BY <3>1, <3>2, <3>3 DEF Turns!Msg
  <2> QED BY <1>1, <2>1, <2>2
<1>9. dialogue' # <<>>
  BY <1>6
<1> QED BY <1>1, <1>6, <1>7, <1>8, <1>9 DEF TurnsInv

\* The answer becomes another, or stays.
LEMMA BecomesKeeps ==
  ASSUME TurnsInv, NEW a, Turns!Becomes(a), phase # "idle",
         TurnOK(a, phase' \in {"asked", "streaming"}), UNCHANGED <<attached, request>>
  PROVE  TurnsInv'
<1>1. dialogue \in Seq(Turns!Msg) /\ dialogue # <<>> /\ a \in Turns!Msg /\ Len(dialogue) \in Nat
  BY DEF TurnsInv, TurnOK
<1>2. /\ dialogue' \in Seq(Turns!Msg) /\ Len(dialogue') = Len(dialogue) /\ dialogue' # <<>>
      /\ \A i \in 1..Len(dialogue) :
           dialogue'[i] = IF i = Len(dialogue) THEN a ELSE dialogue[i]
  BY <1>1 DEF Turns!Becomes
<1>3. ASSUME NEW i \in 1..Len(dialogue)
      PROVE  TurnOK(dialogue'[i], i = Len(dialogue) /\ phase' \in {"asked", "streaming"})
  <2>1. CASE i = Len(dialogue)
    BY <1>2, <2>1 DEF TurnOK
  <2>2. CASE i # Len(dialogue)
    BY <1>2, <2>2 DEF TurnsInv, TurnOK
  <2> QED BY <2>1, <2>2
<1> QED BY <1>2, <1>3 DEF TurnsInv

\* The last message, while a turn is under way.
LEMMA AnswerOK ==
  ASSUME TurnsInv, phase # "idle"
  PROVE  TurnOK(Turns!Answer, phase \in {"asked", "streaming"})
<1>1. Len(dialogue) \in 1..Len(dialogue)
  BY DEF TurnsInv
<1> QED BY <1>1 DEF TurnsInv, Turns!Answer, TurnOK

\* All messages read back, once there is no turn under way.
LEMMA ReadBackKeeps ==
  ASSUME TurnsInv, phase \notin {"asked", "streaming"}, phase' = "idle",
         dialogue' = [i \in DOMAIN dialogue |-> Turns!ReadBack(dialogue[i])],
         attached' \subseteq Kinds, \A m \in request'.sent : m.failed => m.read
  PROVE  TurnsInv'
<1>1. dialogue \in Seq(Turns!Msg) /\ DOMAIN dialogue = 1..Len(dialogue) /\ Len(dialogue) \in Nat
  BY DEF TurnsInv
<1>2. ASSUME NEW i \in 1..Len(dialogue)
      PROVE  Turns!ReadBack(dialogue[i]) \in Turns!Msg /\ TurnOK(Turns!ReadBack(dialogue[i]), FALSE)
  <2>1. PICK m \in Turns!Msg : m = dialogue[i] /\ TurnOK(m, FALSE)
    BY <1>1 DEF TurnsInv, TurnOK
  <2>2. m = [role |-> m.role, text |-> m.text, files |-> m.files, reasoning |-> m.reasoning,
             error |-> m.error, cta |-> m.cta, failed |-> m.failed, read |-> m.read]
    BY DEF Turns!Msg
  <2>3. PICK n : n = [m EXCEPT !.error = FALSE]
    OBVIOUS
  <2>4. n = [role |-> m.role, text |-> m.text, files |-> m.files, reasoning |-> m.reasoning,
             error |-> FALSE, cta |-> m.cta, failed |-> m.failed, read |-> m.read]
    BY <2>2, <2>3
  <2>5. PICK o : o = [n EXCEPT !.cta = "none"]
    OBVIOUS
  <2>6. o = [role |-> m.role, text |-> m.text, files |-> m.files, reasoning |-> m.reasoning,
             error |-> FALSE, cta |-> "none", failed |-> m.failed, read |-> m.read]
    BY <2>4, <2>5
  <2>7. Turns!ReadBack(dialogue[i]) = [o EXCEPT !.read = TRUE]
    BY <2>1, <2>3, <2>5, Zenon DEF Turns!ReadBack
  <2>8. Turns!ReadBack(dialogue[i])
          = [role |-> m.role, text |-> m.text, files |-> m.files, reasoning |-> m.reasoning,
             error |-> FALSE, cta |-> "none", failed |-> m.failed, read |-> TRUE]
    BY <2>6, <2>7
  <2> QED BY <2>1, <2>8 DEF TurnOK, Turns!Msg
<1>3. /\ dialogue' \in Seq(Turns!Msg) /\ Len(dialogue') = Len(dialogue)
      /\ \A i \in 1..Len(dialogue) : dialogue'[i] = Turns!ReadBack(dialogue[i])
  <2>1. PICK n \in Nat : n = Len(dialogue)
    BY <1>1
  <2>2. /\ dialogue' \in [1..n -> Turns!Msg]
        /\ \A i \in 1..n : dialogue'[i] = Turns!ReadBack(dialogue[i])
    BY <1>1, <1>2, <2>1
  <2> QED BY <2>1, <2>2
<1>4. ASSUME NEW i \in 1..Len(dialogue')
      PROVE  TurnOK(dialogue'[i], i = Len(dialogue') /\ phase' \in {"asked", "streaming"})
  <2>1. TurnOK(dialogue'[i], FALSE)
    BY <1>2, <1>3
  <2> QED BY <2>1 DEF TurnOK
<1> QED BY <1>3, <1>4, Zenon DEF TurnsInv

\* The answers that a turn ends or goes on with.
LEMMA TurnForms ==
  ASSUME NEW m, NEW waits \in BOOLEAN, TurnOK(m, waits)
  PROVE  /\ \A t \in {"whole", "cut"} :
              TurnOK([m EXCEPT !.text = t], FALSE) /\ TurnOK([m EXCEPT !.text = t], waits)
         /\ \A t \in {"whole", "cut"} :
              TurnOK([m EXCEPT !.text = t, !.error = TRUE, !.failed = TRUE], FALSE)
         /\ \A c \in {"none", "keys", "upgrade"} :
              TurnOK([m EXCEPT !.text = "whole", !.error = TRUE, !.failed = TRUE,
                               !.cta = c], FALSE)
         /\ \A r \in BOOLEAN : r \/ waits =>
              TurnOK([m EXCEPT !.reasoning = @ \/ r], waits)
<1>1. /\ m \in Turns!Msg
      /\ m = [role |-> m.role, text |-> m.text, files |-> m.files, reasoning |-> m.reasoning,
              error |-> m.error, cta |-> m.cta, failed |-> m.failed, read |-> m.read]
  BY DEF Turns!Msg, TurnOK
<1>2. ASSUME NEW t \in {"whole", "cut"}
      PROVE  /\ TurnOK([m EXCEPT !.text = t], FALSE) /\ TurnOK([m EXCEPT !.text = t], waits)
             /\ TurnOK([m EXCEPT !.text = t, !.error = TRUE, !.failed = TRUE], FALSE)
             /\ \A c \in {"none", "keys", "upgrade"} :
                  TurnOK([m EXCEPT !.text = t, !.error = TRUE, !.failed = TRUE, !.cta = c], FALSE)
  <2>1. PICK n : n = [m EXCEPT !.text = t]
    OBVIOUS
  <2>2. n = [role |-> m.role, text |-> t, files |-> m.files, reasoning |-> m.reasoning,
             error |-> m.error, cta |-> m.cta, failed |-> m.failed, read |-> m.read]
    BY <1>1, <2>1
  <2>3. TurnOK(n, FALSE) /\ TurnOK(n, waits)
    BY <1>1, <2>2 DEF TurnOK, Turns!Msg
  <2>4. PICK o : o = [n EXCEPT !.error = TRUE]
    OBVIOUS
  <2>5. o = [role |-> m.role, text |-> t, files |-> m.files, reasoning |-> m.reasoning,
             error |-> TRUE, cta |-> m.cta, failed |-> m.failed, read |-> m.read]
    BY <2>2, <2>4
  <2>6. PICK p : p = [o EXCEPT !.failed = TRUE]
    OBVIOUS
  <2>7. p = [role |-> m.role, text |-> t, files |-> m.files, reasoning |-> m.reasoning,
             error |-> TRUE, cta |-> m.cta, failed |-> TRUE, read |-> m.read]
    BY <2>5, <2>6
  <2>8. TurnOK(p, FALSE)
    BY <1>1, <2>7 DEF TurnOK, Turns!Msg
  <2>9. ASSUME NEW c \in {"none", "keys", "upgrade"} PROVE TurnOK([p EXCEPT !.cta = c], FALSE)
    <3>1. PICK q : q = [p EXCEPT !.cta = c]
      OBVIOUS
    <3>2. q = [role |-> m.role, text |-> t, files |-> m.files, reasoning |-> m.reasoning,
               error |-> TRUE, cta |-> c, failed |-> TRUE, read |-> m.read]
      BY <2>7, <3>1
    <3>3. TurnOK(q, FALSE)
      BY <1>1, <3>2 DEF TurnOK, Turns!Msg
    <3> QED BY <3>1, <3>3, Zenon
  <2>10. p = [m EXCEPT !.text = t, !.error = TRUE, !.failed = TRUE]
    BY <2>1, <2>4, <2>6, Zenon
  <2>11. ASSUME NEW c \in {"none", "keys", "upgrade"}
         PROVE  TurnOK([m EXCEPT !.text = t, !.error = TRUE, !.failed = TRUE, !.cta = c], FALSE)
    <3>1. [p EXCEPT !.cta = c] = [m EXCEPT !.text = t, !.error = TRUE, !.failed = TRUE, !.cta = c]
      BY <2>1, <2>4, <2>6, Zenon
    <3>2. TurnOK([p EXCEPT !.cta = c], FALSE)
      BY <2>9
    <3> QED BY <3>1, <3>2, Zenon
  <2> QED BY <2>1, <2>3, <2>8, <2>10, <2>11, Zenon
<1>3. ASSUME NEW r \in BOOLEAN, r \/ waits PROVE TurnOK([m EXCEPT !.reasoning = @ \/ r], waits)
  <2>1. m.reasoning \in BOOLEAN
    BY <1>1 DEF Turns!Msg
  <2>2. PICK b \in BOOLEAN : b = (m.reasoning \/ r)
    BY <2>1
  <2>3. [m EXCEPT !.reasoning = @ \/ r]
          = [role |-> m.role, text |-> m.text, files |-> m.files, reasoning |-> b,
             error |-> m.error, cta |-> m.cta, failed |-> m.failed, read |-> m.read]
    BY <1>1, <2>2
  <2> QED BY <1>1, <1>3, <2>2, <2>3 DEF TurnOK, Turns!Msg
<1> QED BY <1>2, <1>3

LEMMA TurnsStep == TurnsInv /\ [Turns!Next]_turnsVars => TurnsInv'
<1> SUFFICES ASSUME TurnsInv, [Turns!Next]_turnsVars PROVE TurnsInv'
  OBVIOUS
<1> USE DEF Turns!TheRest, Turns!settings
<1>a. ASSUME UNCHANGED <<dialogue, phase, request>>, attached' \subseteq Kinds PROVE TurnsInv'
  BY <1>a DEF TurnsInv
<1>b. attached \subseteq Kinds
  BY DEF TurnsInv
<1>1. ASSUME NEW typed \in BOOLEAN, NEW image \in BOOLEAN, Turns!Send(typed, image)
      PROVE  TurnsInv'
  BY <1>1, TurnSent
<1>2. CASE Turns!Continue
  <2>1. CASE attached = {}
    BY <1>2, <2>1, TurnSent DEF Turns!Continue
  <2>2. CASE attached # {}
    BY <1>2, <2>2, <1>a, <1>b DEF Turns!Continue
  <2> QED BY <2>1, <2>2
<1>3. CASE Turns!ToggleThinking
  BY <1>3, <1>a, <1>b DEF Turns!ToggleThinking
<1>4. ASSUME NEW k \in Kinds, Turns!Attach(k) \/ Turns!RemoveAttachment(k) PROVE TurnsInv'
  <2>1. UNCHANGED <<dialogue, phase, request>> /\ attached' \subseteq Kinds
    BY <1>4, <1>b DEF Turns!Attach, Turns!RemoveAttachment
  <2> QED BY <2>1, <1>a
<1>5. ASSUME NEW e, Turns!SetEffort(e) \/ Turns!SetMaxTokens(e) PROVE TurnsInv'
  BY <1>5, <1>a, <1>b DEF Turns!SetEffort, Turns!SetMaxTokens
<1>6. ASSUME NEW code \in {401, 403, 500}, Turns!Refused(code) PROVE TurnsInv'
  <2>1. phase = "asked" /\ phase' = "saving" /\ UNCHANGED <<attached, request>>
    BY <1>6 DEF Turns!Refused
  <2>2. Turns!FriendlyError(code) \in {"none", "keys", "upgrade"}
    BY DEF Turns!FriendlyError
  <2>3. TurnOK(Turns!Answer, TRUE)
    BY <2>1, AnswerOK, Zenon
  <2> DEFINE a == [Turns!Answer EXCEPT !.text = "whole", !.error = TRUE, !.failed = TRUE,
                                       !.cta = Turns!FriendlyError(code)]
  <2>4. TurnOK(a, FALSE)
    BY <2>2, <2>3, TurnForms, Zenon
  <2>5. Turns!Becomes(a)
    BY <1>6, Zenon DEF Turns!Refused
  <2> HIDE DEF a
  <2> QED BY <2>1, <2>4, <2>5, BecomesKeeps DEF TurnOK
<1>7. CASE Turns!StreamOpens
  BY <1>7 DEF Turns!StreamOpens, TurnsInv
<1>8. ASSUME NEW t \in {"none", "whole", "cut"}, Turns!Event(t) PROVE TurnsInv'
  <2>1. phase = "streaming" /\ phase' = "streaming" /\ UNCHANGED <<attached, request>>
    BY <1>8 DEF Turns!Event
  <2>2. TurnOK(Turns!Answer, TRUE)
    BY <2>1, AnswerOK, Zenon
  <2>3. CASE t = "none"
    <3> DEFINE r == request.effort # "none"
               a == [Turns!Answer EXCEPT !.reasoning = @ \/ r]
    <3>1. TurnOK(a, TRUE)
      <4>1. r \in BOOLEAN
        OBVIOUS
      <4> HIDE DEF r
      <4> QED BY <2>2, <4>1, TurnForms, Zenon
    <3>2. Turns!Becomes(a)
      BY <1>8, <2>3, Zenon DEF Turns!Event
    <3> HIDE DEF a
    <3> QED BY <2>1, <3>1, <3>2, BecomesKeeps DEF TurnOK
  <2>4. CASE t # "none"
    <3> DEFINE a == [Turns!Answer EXCEPT !.text = t]
    <3>1. TurnOK(a, TRUE)
      BY <2>2, <2>4, TurnForms, Zenon
    <3>2. Turns!Becomes(a)
      BY <1>8, <2>4, Zenon DEF Turns!Event
    <3> HIDE DEF a
    <3> QED BY <2>1, <3>1, <3>2, BecomesKeeps DEF TurnOK
  <2> QED BY <2>3, <2>4
<1>9. CASE Turns!StreamEnds
  <2>1. phase = "streaming" /\ phase' = "saving" /\ UNCHANGED <<attached, request>>
    BY <1>9 DEF Turns!StreamEnds
  <2>2. TurnOK(Turns!Answer, TRUE)
    BY <2>1, AnswerOK, Zenon
  <2>3. CASE Turns!Answer.text = "none" /\ ~Turns!Answer.reasoning
    <3> DEFINE a == [Turns!Answer EXCEPT !.text = "whole", !.error = TRUE, !.failed = TRUE]
    <3>1. TurnOK(a, FALSE)
      BY <2>2, TurnForms, Zenon
    <3>2. Turns!Becomes(a)
      BY <1>9, <2>3, Zenon DEF Turns!StreamEnds
    <3> HIDE DEF a
    <3> QED BY <2>1, <3>1, <3>2, BecomesKeeps DEF TurnOK
  <2>4. CASE ~(Turns!Answer.text = "none" /\ ~Turns!Answer.reasoning)
    <3>1. UNCHANGED dialogue
      BY <1>9, <2>4 DEF Turns!StreamEnds
    <3>2. ASSUME NEW i \in 1..Len(dialogue) PROVE TurnOK(dialogue[i], FALSE)
      BY <2>4 DEF TurnsInv, TurnOK, Turns!Answer
    <3> QED BY <2>1, <3>1, <3>2 DEF TurnsInv, TurnOK
  <2> QED BY <2>3, <2>4
<1>10. ASSUME NEW t \in {"whole", "cut"}, Turns!Breaks(t) PROVE TurnsInv'
  <2>1. /\ phase \in {"asked", "streaming"} /\ phase' = "saving"
        /\ UNCHANGED <<attached, request>>
    BY <1>10 DEF Turns!Breaks
  <2>2. TurnOK(Turns!Answer, TRUE)
    BY <2>1, AnswerOK DEF TurnOK
  <2> DEFINE a == [Turns!Answer EXCEPT !.text = t, !.error = TRUE, !.failed = TRUE]
  <2>3. TurnOK(a, FALSE)
    BY <2>2, TurnForms, Zenon
  <2>4. Turns!Becomes(a)
    BY <1>10, Zenon DEF Turns!Breaks
  <2> HIDE DEF a
  <2> QED BY <2>1, <2>3, <2>4, BecomesKeeps DEF TurnOK
<1>11. ASSUME NEW t \in {"whole", "cut"}, Turns!Stop(t) PROVE TurnsInv'
  <2>1. /\ phase \in {"asked", "streaming"} /\ phase' = "saving"
        /\ UNCHANGED <<attached, request>>
    BY <1>11 DEF Turns!Stop
  <2>2. TurnOK(Turns!Answer, TRUE)
    BY <2>1, AnswerOK DEF TurnOK
  <2> DEFINE a == [Turns!Answer EXCEPT !.text = t]
  <2>3. TurnOK(a, FALSE)
    BY <2>2, TurnForms, Zenon
  <2>4. Turns!Becomes(a)
    BY <1>11, Zenon DEF Turns!Stop
  <2> HIDE DEF a
  <2> QED BY <2>1, <2>3, <2>4, BecomesKeeps DEF TurnOK
<1>12. ASSUME request' = Turns!NoRequest PROVE \A m \in request'.sent : m.failed => m.read
  BY <1>12 DEF Turns!NoRequest
<1>13. ASSUME phase = "saving", phase' = "idle", request' = Turns!NoRequest,
              UNCHANGED <<dialogue, attached>>
       PROVE  TurnsInv'
  BY <1>12, <1>13 DEF TurnsInv, TurnOK
<1>14. CASE Turns!Saved
  <2>1. /\ phase = "saving" /\ phase' = "idle" /\ request' = Turns!NoRequest
        /\ UNCHANGED attached
        /\ \/ dialogue' = [i \in DOMAIN dialogue |-> Turns!ReadBack(dialogue[i])]
           \/ UNCHANGED dialogue
    BY <1>14 DEF Turns!Saved
  <2> QED BY <1>b, <1>12, <1>13, <2>1, ReadBackKeeps
<1>15. CASE Turns!SaveFails
  BY <1>13, <1>15 DEF Turns!SaveFails
<1>16. CASE Turns!Reopen
  <2>1. /\ phase = "idle" /\ phase' = "idle" /\ UNCHANGED request /\ attached' = {}
        /\ dialogue' = [i \in DOMAIN dialogue |-> Turns!ReadBack(dialogue[i])]
    BY <1>16 DEF Turns!Reopen, Turns!Busy
  <2>2. \A m \in request'.sent : m.failed => m.read
    BY <2>1 DEF TurnsInv
  <2>3. attached' \subseteq Kinds
    BY <2>1
  <2> QED BY <2>1, <2>2, <2>3, ReadBackKeeps
<1>17. CASE UNCHANGED turnsVars
  BY <1>a, <1>b, <1>17 DEF turnsVars
<1>18. CASE \/ \E typed, image \in BOOLEAN : Turns!Send(typed, image)
            \/ \E k \in Kinds : Turns!Attach(k) \/ Turns!RemoveAttachment(k)
            \/ \E e \in Efforts : Turns!SetEffort(e)
            \/ \E n \in Presets : Turns!SetMaxTokens(n)
  BY <1>1, <1>4, <1>5, <1>18, Zenon
<1>19. CASE \/ \E code \in {401, 403, 500} : Turns!Refused(code)
            \/ \E t \in {"none", "whole", "cut"} : Turns!Event(t)
            \/ \E t \in {"whole", "cut"} : Turns!Breaks(t) \/ Turns!Stop(t)
  BY <1>6, <1>8, <1>10, <1>11, <1>19, Zenon
<1> QED
  BY <1>2, <1>3, <1>7, <1>9, <1>14, <1>15, <1>16, <1>17, <1>18, <1>19, Zenon
     DEF Turns!Next

LEMMA TurnsAlwaysHold == TurnsInv => Turns!TurnsHold
<1> SUFFICES ASSUME TurnsInv PROVE Turns!TurnsHold
  OBVIOUS
<1>1. ASSUME NEW m \in request.sent
      PROVE  (m.failed => m.read) /\ Turns!BuildContent(m) # {}
  <2>1. Turns!BuildContent(m) # {}
    BY DEF Turns!BuildContent
  <2> QED BY <2>1 DEF TurnsInv
<1>2. ASSUME NEW i \in DOMAIN dialogue
      PROVE  /\ Turns!OffersContinue(i) => Turns!Carried(dialogue[i])
             /\ Turns!Shown(i) = {} => \/ dialogue[i].files = {"video"}
                                       \/ dialogue[i].reasoning /\ ~thinking
             /\ dialogue[i].failed /\ ~dialogue[i].read =>
                  "error" \in Turns!Shown(i) /\ Turns!Buttons(i) = {}
  <2> DEFINE m == dialogue[i]
             waits == i = Len(dialogue) /\ phase \in {"asked", "streaming"}
  <2>1. TurnOK(m, waits)
    BY DEF TurnsInv
  <2>2. Turns!OffersContinue(i) => Turns!Carried(m)
    BY DEF Turns!OffersContinue, Turns!IsTruncated, Turns!Carried
  <2>3. ASSUME Turns!Shown(i) = {}
        PROVE  m.files = {"video"} \/ (m.reasoning /\ ~thinking)
    <3>1. /\ Turns!Files(m) = {} /\ ~Turns!Reasoning(m) /\ ~m.error /\ m.text = "none"
          /\ ~Turns!Loader(i)
      BY <2>3 DEF Turns!Shown, Turns!ErrorBox
    <3>2. CASE m.role = "user"
      BY <2>1, <3>1, <3>2 DEF TurnOK, Turns!Files
    <3>3. CASE m.role = "assistant"
      <4>1. m.reasoning \/ waits
        BY <2>1, <3>1, <3>3 DEF TurnOK
      <4>2. waits => Turns!Loader(i)
        BY <3>1, <3>3 DEF Turns!Loader, Turns!Busy
      <4> QED BY <3>1, <3>3, <4>1, <4>2 DEF Turns!Reasoning
    <3>4. m.role \in {"user", "assistant"}
      BY <2>1 DEF TurnOK, Turns!Msg
    <3> QED BY <3>2, <3>3, <3>4
  <2>4. ASSUME m.failed, ~m.read PROVE "error" \in Turns!Shown(i) /\ Turns!Buttons(i) = {}
    <3>1. m.error
      BY <2>1, <2>4 DEF TurnOK
    <3> QED BY <3>1 DEF Turns!Shown, Turns!ErrorBox, Turns!Buttons, Turns!OffersContinue
  <2> QED BY <2>2, <2>3, <2>4
<1> QED BY <1>1, <1>2 DEF Turns!TurnsHold

-----------------------------------------------------------------------------
(****************************************************************************)
(* The figures of a report: sums over days, grouped by weekday, and         *)
(* roundings, for any rows.                                                 *)
(****************************************************************************)
\* Sums.
LEMMA SumIsOfThings == \A f : Report!SumOf(f) = Cardinality(Things(f))
<1>1. \A S : Report!Cardinality(S) = Cardinality(S)
  BY Zenon DEF Report!Cardinality, Cardinality
<1>2. ASSUME NEW f PROVE Report!SumOf(f) = Report!Cardinality(Things(f))
  BY Zenon DEF Report!SumOf, Things
<1> QED BY <1>1, <1>2

-----------------------------------------------------------------------------
\* Rounding.
LEMMA RoundBounds ==
  ASSUME NEW a \in Nat, NEW b \in Nat \ {0}
  PROVE  /\ Report!Round(a, b) \in Nat /\ b * Report!Round(a, b) \in Nat
         /\ 2 * (b * Report!Round(a, b)) <= 2 * a + b
         /\ 2 * a + b < 2 * (b * Report!Round(a, b)) + 2 * b
<1>1. 2 * a + b \in Nat /\ 2 * b \in Nat \ {0}
  OBVIOUS
<1>2. PICK q : q = (2 * a + b) \div (2 * b)
  OBVIOUS
<1>3. q \in Nat /\ (2 * b) * q <= 2 * a + b /\ 2 * a + b < (2 * b) * (q + 1)
  BY <1>1, <1>2, Quotient
<1>4. (2 * b) * q = 2 * (b * q) /\ (2 * b) * (q + 1) = 2 * (b * q) + 2 * b /\ b * q \in Nat
  BY <1>3
<1>5. Report!Round(a, b) = q
  BY <1>2 DEF Report!Round
<1> QED BY <1>3, <1>4, <1>5

LEMMA RoundOfMultiple ==
  ASSUME NEW b \in Nat \ {0}, NEW k \in Nat
  PROVE  Report!Round(k * b, b) = k
<1>1. k * b \in Nat /\ b * k = k * b
  OBVIOUS
<1>2. PICK q : q = Report!Round(k * b, b)
  OBVIOUS
<1>3. q \in Nat /\ 2 * (b * q) <= 2 * (k * b) + b /\ 2 * (k * b) + b < 2 * (b * q) + 2 * b
      /\ b * q \in Nat
  BY <1>1, <1>2, RoundBounds
<1>4. ASSUME q >= k + 1 PROVE FALSE
  <2>1. b * (k + 1) <= b * q
    BY <1>3, <1>4, TimesGrows
  <2>2. b * (k + 1) = b * k + b
    OBVIOUS
  <2> QED BY <1>1, <1>3, <2>1, <2>2
<1>5. ASSUME q + 1 <= k PROVE FALSE
  <2>1. b * (q + 1) <= b * k
    BY <1>3, <1>5, TimesGrows
  <2>2. b * (q + 1) = b * q + b
    BY <1>3
  <2> QED BY <1>1, <1>3, <2>1, <2>2
<1> QED BY <1>2, <1>3, <1>4, <1>5

LEMMA RoundGrows ==
  ASSUME NEW a \in Nat, NEW c \in Nat, a <= c, NEW b \in Nat \ {0}
  PROVE  Report!Round(a, b) <= Report!Round(c, b)
<1>1. PICK q, r : q = Report!Round(a, b) /\ r = Report!Round(c, b)
  OBVIOUS
<1>2. /\ q \in Nat /\ b * q \in Nat /\ 2 * (b * q) <= 2 * a + b
      /\ r \in Nat /\ b * r \in Nat /\ 2 * c + b < 2 * (b * r) + 2 * b
  BY <1>1, RoundBounds
<1>3. ASSUME r + 1 <= q PROVE FALSE
  <2>1. b * (r + 1) <= b * q
    BY <1>2, <1>3, TimesGrows
  <2>2. b * (r + 1) = b * r + b
    BY <1>2
  <2> QED BY <1>2, <2>1, <2>2
<1> QED BY <1>1, <1>2, <1>3

-----------------------------------------------------------------------------
\* The figures are of rows the server sends.
Day == {r \in [date : Int, requests : Nat, tokens : Nat] : r.requests = 0 => r.tokens = 0}

FiguresInv ==
  /\ usage \in Seq(Day)
  /\ punchcard \in [Cells -> Nat]
  /\ quota \in Nat \X Nat

LEMMA FiguresConstants ==
  /\ DataRows \subseteq Seq(Day) /\ IsFiniteSet(Cells) /\ Cells # {}
  /\ DayCounts \subseteq Nat /\ Quotas \subseteq Nat \X Nat
<1>1. \A S : Report!IsFiniteSet(S) = IsFiniteSet(S)
  BY Zenon DEF Report!IsFiniteSet, IsFiniteSet
<1> QED BY <1>1, PartsAssumption DEF Report!FiguresAssumption, Day

LEMMA FiguresStart == Report!FiguresInit => FiguresInv
BY DEF Report!FiguresInit, FiguresInv, Report!NoPunchcard

LEMMA FiguresStep == FiguresInv /\ [Report!Arrives]_figuresVars => FiguresInv'
<1> SUFFICES ASSUME FiguresInv, [Report!Arrives]_figuresVars PROVE FiguresInv'
  OBVIOUS
<1>1. usage' = usage \/ usage' \in DataRows
  BY DEF Report!Arrives, figuresVars
<1>2. punchcard' = punchcard \/ punchcard' \in [Cells -> DayCounts]
  BY DEF Report!Arrives, figuresVars
<1>3. quota' = quota \/ quota' \in Quotas
  BY DEF Report!Arrives, figuresVars
<1> QED BY <1>1, <1>2, <1>3, FiguresConstants DEF FiguresInv

LEMMA LargestIs ==
  ASSUME NEW T \in SUBSET Nat, T # {}, NEW m \in Nat, \A x \in T : x <= m
  PROVE  Report!Max(T) \in T /\ \A x \in T : x <= Report!Max(T)
<1> DEFINE G == {m - x : x \in T}
<1>1. G \in SUBSET Nat /\ G # {}
  <2>1. ASSUME NEW x \in T PROVE m - x \in Nat
    BY <2>1
  <2> QED BY <2>1
<1>2. PICK g \in G : \A k \in G : g <= k
  <2> HIDE DEF G
  <2> QED BY <1>1, LeastNatural
<1>3. PICK l \in T : g = m - l
  BY <1>2
<1>4. \A x \in T : m - x \in G
  OBVIOUS
<1>5. \A x \in T : l >= x
  <2> HIDE DEF G
  <2> QED BY <1>2, <1>3, <1>4
<1>6. Report!Max(T) \in T /\ \A x \in T : Report!Max(T) >= x
  BY <1>5 DEF Report!Max
<1> QED BY <1>6

\* A column of the report, and its sum.
Column(what) == [i \in DOMAIN usage |-> usage[i][what]]
Requests == Cardinality(Things(Column("requests")))
Tokens == Cardinality(Things(Column("tokens")))

LEMMA ColumnFacts ==
  ASSUME FiguresInv
  PROVE  /\ \A i \in DOMAIN usage :
              /\ usage[i].requests \in Nat /\ usage[i].tokens \in Nat
              /\ usage[i].requests = 0 => usage[i].tokens = 0
         /\ Countable(Column("requests")) /\ Countable(Column("tokens"))
<1>1. usage \in Seq(Day) /\ DOMAIN usage = 1..Len(usage) /\ Len(usage) \in Nat
  BY DEF FiguresInv
<1>2. ASSUME NEW i \in DOMAIN usage
      PROVE  /\ usage[i].requests \in Nat /\ usage[i].tokens \in Nat
             /\ usage[i].requests = 0 => usage[i].tokens = 0
  <2>1. usage[i] \in Day
    BY <1>1, ElementsOf
  <2> QED BY <2>1 DEF Day
<1>3. IsFiniteSet(DOMAIN usage)
  BY <1>1, FS_Interval
<1> QED BY <1>2, <1>3 DEF Countable, Column

LEMMA TotalsAre ==
  ASSUME FiguresInv
  PROVE  /\ Report!UsageTotals.requests = Requests /\ Report!UsageTotals.tokens = Tokens
         /\ Requests \in Nat /\ Tokens \in Nat
<1>1. Report!Sum("requests") = Requests /\ Report!Sum("tokens") = Tokens
  BY SumIsOfThings, Zenon DEF Report!Sum, Column, Requests, Tokens
<1>2. Report!UsageTotals = [requests |-> Requests, tokens |-> Tokens]
  BY <1>1, Zenon DEF Report!UsageTotals
<1>3. Requests \in Nat /\ Tokens \in Nat
  BY ColumnFacts, ThingsFinite DEF Requests, Tokens
<1> QED BY <1>2, <1>3

LEMMA WeekdaysAddUp ==
  ASSUME FiguresInv
  PROVE  Report!SumOf(Report!WeekdayTotals) = Requests
<1> DEFINE f == Column("requests")
           h == [i \in DOMAIN usage |-> Report!GetDay(usage[i].date)]
           w == Report!WeekdayTotals
<1>1. DOMAIN f = DOMAIN usage /\ \A i \in DOMAIN usage : f[i] = usage[i].requests
  BY DEF Column
<1>2. DOMAIN w = {h[x] : x \in DOMAIN f}
  BY <1>1 DEF Report!WeekdayTotals
<1>3. ASSUME NEW d \in DOMAIN w
      PROVE  w[d] = Cardinality(Things(Group(f, h, d)))
  <2>1. w[d] = Report!SumOf([i \in {j \in DOMAIN usage : Report!GetDay(usage[j].date) = d} |->
                               usage[i].requests])
    BY <1>3 DEF Report!WeekdayTotals
  <2>2. [i \in {j \in DOMAIN usage : Report!GetDay(usage[j].date) = d} |-> usage[i].requests]
          = Group(f, h, d)
    BY <1>1 DEF Group
  <2> QED BY <2>1, <2>2, SumIsOfThings, Zenon
<1>4. Countable(f)
  BY ColumnFacts
<1>5. Cardinality(Things(w)) = Cardinality(Things(f))
  <2>1. PICK ff, hh, ww : ff = f /\ hh = h /\ ww = w
    OBVIOUS
  <2> HIDE DEF f, h, w
  <2>2. Countable(ff) /\ DOMAIN ww = {hh[x] : x \in DOMAIN ff}
    BY <1>2, <1>4, <2>1
  <2>3. \A d \in DOMAIN ww : ww[d] = Cardinality(Things(Group(ff, hh, d)))
    BY <1>3, <2>1, Zenon
  <2>4. Cardinality(Things(ww)) = Cardinality(Things(ff))
    BY <2>2, <2>3, SumByGroups
  <2> QED BY <2>1, <2>4
<1> QED BY <1>5, SumIsOfThings, Zenon DEF Requests

LEMMA PeakAtMostTotal ==
  ASSUME FiguresInv
  PROVE  Report!PeakDay <= Requests
<1>1. Requests \in Nat
  BY TotalsAre
<1>2. CASE usage = <<>>
  BY <1>1, <1>2 DEF Report!PeakDay
<1>3. CASE usage # <<>>
  <2> DEFINE T == {usage[i].requests : i \in DOMAIN usage}
  <2>1. usage \in Seq(Day) /\ DOMAIN usage = 1..Len(usage) /\ Len(usage) \in Nat
        /\ Len(usage) > 0
    BY <1>3 DEF FiguresInv
  <2>2. 1 \in DOMAIN usage
    BY <2>1
  <2>3. T # {} /\ T \in SUBSET Nat
    BY <2>2, ColumnFacts
  <2>4. ASSUME NEW i \in DOMAIN usage PROVE usage[i].requests <= Requests
    <3> DEFINE f == Column("requests")
    <3>1. i \in DOMAIN f /\ f[i] = usage[i].requests
      BY DEF Column
    <3>2. Countable(f)
      BY ColumnFacts
    <3> HIDE DEF f
    <3>3. f[i] <= Cardinality(Things(f))
      <4>1. PICK ff : ff = f
        OBVIOUS
      <4>2. ff[i] <= Cardinality(Things(ff))
        BY <3>1, <3>2, <4>1, TermAtMostSum
      <4> QED BY <4>1, <4>2
    <3> QED BY <3>1, <3>3 DEF f, Requests
  <2>5. \A x \in T : x <= Requests
    BY <2>4
  <2>6. Report!PeakDay = Report!Max(T)
    BY <1>3, Zenon DEF Report!PeakDay
  <2>7. PICK TT : TT = T
    OBVIOUS
  <2> HIDE DEF T
  <2>8. Report!Max(TT) \in TT
    <3>1. PICK m \in Nat : m = Requests
      BY <1>1
    <3>2. TT \in SUBSET Nat /\ TT # {} /\ \A x \in TT : x <= m
      BY <2>3, <2>5, <2>7, <3>1
    <3> QED BY <3>2, LargestIs
  <2> QED BY <2>5, <2>6, <2>7, <2>8
<1> QED BY <1>2, <1>3

LEMMA NoTokensWithoutRequests ==
  ASSUME FiguresInv, Requests = 0
  PROVE  Tokens = 0
<1> DEFINE f == Column("requests")
           g == Column("tokens")
<1>1. ASSUME NEW i \in DOMAIN usage PROVE usage[i].tokens = 0
  <2>1. i \in DOMAIN f /\ f[i] = usage[i].requests
    BY DEF Column
  <2>2. PICK ff : ff = f
    OBVIOUS
  <2> HIDE DEF f
  <2>3. ff[i] <= Cardinality(Things(ff))
    BY <2>1, <2>2, ColumnFacts, TermAtMostSum DEF f
  <2>4. usage[i].requests <= 0
    BY <2>1, <2>2, <2>3 DEF f, Requests
  <2> QED BY <2>4, ColumnFacts
<1>2. Things(g) = {}
  BY <1>1 DEF Things, Column
<1> QED BY <1>2, FS_EmptySet DEF Tokens

LEMMA AverageIsNearest ==
  ASSUME FiguresInv
  PROVE  2 * (Report!Average * Requests - Tokens) \in -Requests..Requests
<1>1. PICK r, k : r = Requests /\ k = Tokens
  OBVIOUS
<1>2. r \in Nat /\ k \in Nat /\ Report!UsageTotals.requests = r /\ Report!UsageTotals.tokens = k
      /\ (r = 0 => k = 0)
  BY <1>1, TotalsAre, NoTokensWithoutRequests
<1>3. Report!Average = IF r > 0 THEN Report!Round(k, r) ELSE 0
  BY <1>2, Zenon DEF Report!Average
<1>4. 2 * (Report!Average * r - k) \in -r..r
  <2>1. CASE r = 0
    BY <1>2, <1>3, <2>1
  <2>2. CASE r > 0
    <3>1. PICK q : q = Report!Round(k, r)
      OBVIOUS
    <3>2. q \in Nat /\ r * q \in Nat /\ 2 * (r * q) <= 2 * k + r
          /\ 2 * k + r < 2 * (r * q) + 2 * r
      BY <1>2, <2>2, <3>1, RoundBounds
    <3>3. q * r = r * q
      BY <1>2, <3>2
    <3>4. PICK p \in Nat : p = q * r
      BY <3>2, <3>3
    <3>5. 2 * (p - k) \in -r..r
      BY <1>2, <3>2, <3>3, <3>4
    <3> QED BY <1>3, <2>2, <3>1, <3>4, <3>5
  <2> QED BY <1>2, <2>1, <2>2
<1> QED BY <1>1, <1>4

\* The largest cell of the punchcard.
LEMMA PunchMaxIs ==
  ASSUME FiguresInv
  PROVE  /\ Report!PunchMax \in Nat
         /\ \A c \in Cells : punchcard[c] \in Nat /\ punchcard[c] <= Report!PunchMax
<1> DEFINE T == {punchcard[c] : c \in Cells}
<1>1. punchcard \in [Cells -> Nat] /\ IsFiniteSet(Cells) /\ Cells # {}
  BY FiguresConstants DEF FiguresInv
<1>2. PICK f : f = punchcard
  OBVIOUS
<1>3. Countable(f)
  BY <1>1, <1>2 DEF Countable
<1>4. \A c \in Cells : f[c] <= Cardinality(Things(f))
  BY <1>1, <1>2, <1>3, TermAtMostSum
<1>5. PICK m \in Nat : m = Cardinality(Things(f))
  BY <1>3, ThingsFinite
<1>6. T \in SUBSET Nat /\ T # {} /\ \A x \in T : x <= m
  BY <1>1, <1>2, <1>4, <1>5
<1>7. PICK TT : TT = T
  OBVIOUS
<1>8. Report!PunchMax = Report!Max(TT)
  BY <1>7, Zenon DEF Report!PunchMax
<1>9. \A c \in Cells : punchcard[c] \in TT
  BY <1>7
<1> HIDE DEF T
<1>10. Report!Max(TT) \in TT /\ \A x \in TT : x <= Report!Max(TT)
  BY <1>6, <1>7, LargestIs
<1> QED BY <1>6, <1>7, <1>8, <1>9, <1>10

LEMMA CellColors ==
  ASSUME FiguresInv, NEW n \in Nat, n <= Report!PunchMax
  PROVE  /\ n = 0 => Report!CellColor(n) = 0
         /\ n > 0 => Report!CellColor(n) \in 20..100
         /\ n > 0 /\ n = Report!PunchMax => Report!CellColor(n) = 100
         /\ \A l \in Nat : n <= l /\ l <= Report!PunchMax
                          => Report!CellColor(n) <= Report!CellColor(l)
<1>1. PICK m \in Nat : m = Report!PunchMax
  BY PunchMaxIs
<1>2. Report!CellColor(0) = 0
  BY DEF Report!CellColor
<1>3. ASSUME NEW l \in Nat, l > 0, l <= m
      PROVE  /\ Report!CellColor(l) = 20 + Report!Round(80 * l, m)
             /\ Report!Round(80 * l, m) \in 0..80
             /\ l = m => Report!Round(80 * l, m) = 80
  <2>1. Report!CellColor(l) = 20 + Report!Round(80 * l, m)
    BY <1>1, <1>3 DEF Report!CellColor
  <2>2. 80 * l \in Nat /\ 80 * m \in Nat /\ 80 * l <= 80 * m /\ m \in Nat \ {0}
    BY <1>3
  <2>3. Report!Round(80 * m, m) = 80
    BY <2>2, RoundOfMultiple
  <2>4. Report!Round(80 * l, m) <= Report!Round(80 * m, m)
    BY <2>2, RoundGrows
  <2>5. Report!Round(80 * l, m) \in Nat
    BY <2>2, RoundBounds
  <2> QED BY <2>1, <2>3, <2>4, <2>5
<1>4. ASSUME NEW l \in Nat, n <= l, l <= m
      PROVE  Report!CellColor(n) <= Report!CellColor(l)
  <2>1. CASE l = 0
    <3>1. n = 0
      BY <1>4, <2>1
    <3> QED BY <1>2, <2>1, <3>1
  <2>2. CASE l > 0 /\ n = 0
    BY <1>2, <1>3, <1>4, <2>2
  <2>3. CASE l > 0 /\ n > 0
    <3>1. 80 * n \in Nat /\ 80 * l \in Nat /\ 80 * n <= 80 * l /\ m \in Nat \ {0}
      BY <1>4, <2>3
    <3>2. Report!Round(80 * n, m) <= Report!Round(80 * l, m)
      BY <3>1, RoundGrows
    <3>3. /\ Report!CellColor(l) = 20 + Report!Round(80 * l, m)
          /\ Report!Round(80 * l, m) \in 0..80
      BY <1>3, <1>4, <2>3
    <3>4. /\ Report!CellColor(n) = 20 + Report!Round(80 * n, m)
          /\ Report!Round(80 * n, m) \in 0..80
      BY <1>1, <1>3, <2>3
    <3> QED BY <3>2, <3>3, <3>4
  <2> QED BY <1>4, <2>1, <2>2, <2>3
<1>5. n > 0 => /\ Report!CellColor(n) \in 20..100
               /\ n = m => Report!CellColor(n) = 100
  BY <1>1, <1>3
<1> QED BY <1>1, <1>2, <1>4, <1>5

\* The last sample of the legend is of the busiest cell.
LEMMA LegendEnds ==
  ASSUME FiguresInv
  PROVE  Report!Legend[4] = Report!CellColor(Report!PunchMax)
<1>1. PICK m \in Nat : m = Report!PunchMax
  BY PunchMaxIs
<1>2. Report!Legend[4] = Report!CellColor(Report!Round(4 * m, 4))
  BY <1>1 DEF Report!Legend
<1>3. Report!Round(m * 4, 4) = m /\ m * 4 = 4 * m
  BY RoundOfMultiple
<1> QED BY <1>1, <1>2, <1>3

LEMMA BarsTell ==
  ASSUME NEW u \in Nat, NEW l \in Nat
  PROVE  LET bar == Report!QuotaBar(u, l)
         IN  /\ bar.over = (l > 0 /\ u >= l)
             /\ bar.over => bar.percent = 100
             /\ bar.percent = 100 => 200 * u >= 199 * l
<1> DEFINE p == IF l = 0 THEN 0 ELSE IF u > l THEN 100 ELSE Report!Round(100 * u, l)
<1>1. Report!QuotaBar(u, l) = [percent |-> p, over |-> l > 0 /\ u >= l]
  BY Zenon DEF Report!QuotaBar
<1>2. ASSUME l > 0, u = l PROVE p = 100
  <2>1. Report!Round(100 * l, l) = 100
    BY <1>2, RoundOfMultiple
  <2> QED BY <1>2, <2>1
<1>3. ASSUME l > 0, u <= l, p = 100 PROVE 200 * u >= 199 * l
  <2>1. Report!Round(100 * u, l) = 100
    BY <1>3
  <2>2. 2 * (l * 100) <= 2 * (100 * u) + l
    BY <1>3, <2>1, RoundBounds
  <2> QED BY <2>2
<1>4. (l > 0 /\ u >= l) => p = 100
  BY <1>2
<1>5. p = 100 => 200 * u >= 199 * l
  BY <1>3
<1> HIDE DEF p
<1>6. Report!QuotaBar(u, l).percent = p
  BY <1>1
<1>7. Report!QuotaBar(u, l).over = (l > 0 /\ u >= l)
  <2>1. PICK o : o = (l > 0 /\ u >= l)
    BY Zenon
  <2>2. Report!QuotaBar(u, l) = [percent |-> p, over |-> o]
    BY <1>1, <2>1, Zenon
  <2>3. Report!QuotaBar(u, l).over = o
    BY <2>2
  <2> QED BY <2>1, <2>3, Zenon
<1> QED BY <1>4, <1>5, <1>6, <1>7, Zenon

LEMMA FiguresHold == FiguresInv => Report!FiguresAgree
<1> SUFFICES ASSUME FiguresInv PROVE Report!FiguresAgree
  OBVIOUS
<1> DEFINE f == Report!DashboardFigures
           bar == Report!QuotaBar(quota[1], quota[2])
<1>1. /\ f.totals = Report!UsageTotals /\ f.weekdays = Report!WeekdayTotals
      /\ f.average = Report!Average /\ f.peak = Report!PeakDay
      /\ f.colors = [c \in Cells |-> Report!CellColor(punchcard[c])]
  BY Zenon DEF Report!DashboardFigures
<1>2. f.totals.requests = Requests /\ f.totals.tokens = Tokens
  BY <1>1, TotalsAre
<1>3. \A c \in Cells : f.colors[c] = Report!CellColor(punchcard[c])
  BY <1>1
<1> HIDE DEF f
<1>4. Report!SumOf(f.weekdays) = f.totals.requests
  BY <1>1, <1>2, WeekdaysAddUp, Zenon
<1>5. f.peak <= f.totals.requests
  BY <1>1, <1>2, PeakAtMostTotal
<1>6. 2 * (f.average * f.totals.requests - f.totals.tokens)
        \in -f.totals.requests..f.totals.requests \/ usage = <<>>
  BY <1>1, <1>2, AverageIsNearest, Zenon
<1>7. ASSUME NEW c \in Cells
      PROVE  /\ f.colors[c] \in {0} \cup 20..100
             /\ (f.colors[c] = 0) = (punchcard[c] = 0)
             /\ punchcard[c] = Report!PunchMax /\ Report!PunchMax > 0
                  => f.colors[c] = 100 /\ Report!Legend[4] = 100
             /\ \A d \in Cells :
                  punchcard[c] <= punchcard[d] => f.colors[c] <= f.colors[d]
  <2>1. PICK n \in Nat : n = punchcard[c] /\ n <= Report!PunchMax
    BY PunchMaxIs
  <2>2. f.colors[c] = Report!CellColor(n)
    BY <1>3, <2>1
  <2>3. /\ n = 0 => Report!CellColor(n) = 0
        /\ n > 0 => Report!CellColor(n) \in 20..100
        /\ n > 0 /\ n = Report!PunchMax => Report!CellColor(n) = 100
    BY <2>1, CellColors
  <2>4. f.colors[c] \in {0} \cup 20..100 /\ (f.colors[c] = 0 <=> n = 0)
    BY <2>2, <2>3
  <2>5. ASSUME n = Report!PunchMax, Report!PunchMax > 0
        PROVE  f.colors[c] = 100 /\ Report!Legend[4] = 100
    BY <2>2, <2>3, <2>5, LegendEnds
  <2>6. ASSUME NEW d \in Cells, punchcard[c] <= punchcard[d]
        PROVE  f.colors[c] <= f.colors[d]
    <3>1. PICK l \in Nat : l = punchcard[d] /\ l <= Report!PunchMax
      BY PunchMaxIs
    <3>2. Report!CellColor(n) <= Report!CellColor(l)
      BY <2>1, <2>6, <3>1, CellColors
    <3> QED BY <1>3, <2>2, <3>1, <3>2
  <2>7. (f.colors[c] = 0) = (punchcard[c] = 0)
    BY <2>1, <2>4
  <2> QED BY <2>1, <2>4, <2>5, <2>6, <2>7, Zenon
<1>8. /\ bar.over = (quota[2] > 0 /\ quota[1] >= quota[2])
      /\ bar.over => bar.percent = 100
      /\ bar.percent = 100 => 200 * quota[1] >= 199 * quota[2]
  <2>1. quota[1] \in Nat /\ quota[2] \in Nat
    BY DEF FiguresInv
  <2>2. PICK u \in Nat, l \in Nat : u = quota[1] /\ l = quota[2]
    BY <2>1
  <2> QED BY <2>2, BarsTell, Zenon
<1> QED BY <1>4, <1>5, <1>6, <1>7, <1>8, Zenon DEF Report!FiguresAgree, f

-----------------------------------------------------------------------------
(* In every behaviour an answer is shown under the heading it belongs to    *)
(* and whole; the limits on a chat page are younger than two periods, two   *)
(* requests and what the server keeps; what the chat page sends and shows   *)
(* of its turns is what they hold; the figures of a report agree with each  *)
(* other; the Worker meters all of a stream, lets through what the backend  *)
(* would, up to the differences GatesMirror lists, and hands out no old     *)
(* list of models (Usage, Dashboard, Models, AdminSystem, chat-adapter,     *)
(* Legal, api.ts, cloudflare.js).                                           *)
THEOREM AnswersAlwaysMatch == Spec => []AnswersMatch
<1> DEFINE Inv == /\ ReportInv /\ AdminInv /\ PlainInv /\ LimitsInv /\ TurnsInv
                  /\ MeterInv /\ GatesInv /\ RoutesInv /\ FiguresInv /\ LegalInv
<1>1. Init => Inv
  BY ReportStart, AdminStart, PlainStart, LimitsStart, TurnsStart, MeterStart, GatesStart,
     RoutesStart, FiguresStart, LegalStart DEF Init
<1>2. Inv /\ [Next]_vars => Inv'
  BY ReportAlone, ReportStep, AdminAlone, AdminStep, PlainAlone, PlainStep, LimitsAlone,
     LimitsStep, TurnsAlone, TurnsStep, MeterAlone, MeterStep, GatesAlone, GatesStep,
     RoutesAlone, RoutesStep, FiguresAlone, FiguresStep, LegalAlone, LegalStep, Zenon
<1>3. Inv => AnswersMatch
  BY ReportHolds, AdminHolds, PlainHolds, LimitsHold, TurnsAlwaysHold, MeterHolds, GatesHold,
     RoutesAlwaysHold, FiguresHold, LegalHolds DEF AnswersMatch, Of
<1> HIDE DEF Inv
<1> QED BY <1>1, <1>2, <1>3, PTL DEF Spec

-----------------------------------------------------------------------------
(***************************************************************************)
(* The types of the state: what a part holds is of the kind its module says,*)
(* and within its bounds (those of PagesProofs are proved there).          *)
(***************************************************************************)
\* Numbers for the requests of a report.
ReportTypes == Report!TypeOK /\ IsFiniteSet(reportCalls)

LEMMA ReportCardinality == ASSUME NEW S PROVE Report!Cardinality(S) = Cardinality(S)
BY Zenon DEF Report!Cardinality, Cardinality

LEMMA ReportAsked ==
  ASSUME ReportTypes, NEW d \in Days, NEW manual \in BOOLEAN, Report!Ask(d, manual)
  PROVE  /\ reportCalls' \subseteq Report!Call /\ IsFiniteSet(reportCalls')
         /\ reportsCrossed' \in BOOLEAN
<1>1. PICK n \in 1..MaxReports : n = Free(reportCalls, MaxReports)
  BY FreeIs, ReportCardinality, BoundsFacts DEF Report!Ask, Report!MayCall, ReportTypes
<1>2. PICK bare \in BOOLEAN : bare = ~Report!HasRows
  BY DEF Report!HasRows
<1>3. PICK new : new = [n |-> n, days |-> d, bare |-> bare, manual |-> manual,
     answered |-> FALSE]
  OBVIOUS
<1>4. reportCalls' = reportCalls \cup {new}
  BY <1>1, <1>2, <1>3, Zenon DEF Report!Ask, Free
<1>5. new \in Report!Call
  BY <1>3 DEF Report!Call
<1>6. IsFiniteSet(reportCalls')
  BY <1>4, FiniteStays DEF ReportTypes
<1>7. reportsCrossed' \in BOOLEAN
  BY DEF Report!Ask
<1> QED BY <1>4, <1>5, <1>6, <1>7 DEF ReportTypes, Report!TypeOK

LEMMA ReportTypeStart == Report!Init => ReportTypes
<1> SUFFICES ASSUME Report!Init PROVE ReportTypes
  OBVIOUS
<1>1. IsFiniteSet(reportCalls)
  BY FS_Singleton DEF Report!Init
<1>2. reportCalls \subseteq Report!Call /\ FirstDays \in Days
  BY BoundsFacts, PartsAssumption DEF Report!DaysAssumption, Report!Init, Report!Call
<1> QED BY <1>1, <1>2 DEF Report!Init, ReportTypes, Report!TypeOK

LEMMA ReportTypeStep ==
  ASSUME ReportTypes, [Report!Next]_reportVars
  PROVE  ReportTypes'
<1>1. ASSUME NEW d \in Days, Report!Choose(d) PROVE ReportTypes'
  <2>1. /\ reportCalls' \subseteq Report!Call /\ IsFiniteSet(reportCalls')
        /\ reportsCrossed' \in BOOLEAN
    BY <1>1, ReportAsked DEF Report!Choose, ReportTypes, Report!TypeOK
  <2> QED BY <1>1, <2>1 DEF Report!Choose, Report!Spins, ReportTypes, Report!TypeOK
<1>2. CASE Report!Poll
  <2>1. /\ reportCalls' \subseteq Report!Call /\ IsFiniteSet(reportCalls')
        /\ reportsCrossed' \in BOOLEAN
    BY <1>2, ReportAsked DEF Report!Poll, Report!PollDays, ReportTypes, Report!TypeOK
  <2> QED BY <1>2, <2>1 DEF Report!Poll, Report!Spins, ReportTypes, Report!TypeOK
<1>3. CASE Report!Refresh
  <2>1. /\ reportCalls' \subseteq Report!Call /\ IsFiniteSet(reportCalls')
        /\ reportsCrossed' \in BOOLEAN
    BY <1>3, ReportAsked DEF Report!Refresh, ReportTypes, Report!TypeOK
  <2> QED BY <1>3, <2>1 DEF Report!Refresh, Report!Spins, ReportTypes, Report!TypeOK
<1>4. ASSUME NEW c \in reportCalls, Report!Reply(c) PROVE ReportTypes'
  <2>1. c \in Report!Call /\ c.days \in Days /\ [c EXCEPT !.answered = TRUE] \in Report!Call
    BY DEF ReportTypes, Report!TypeOK, Report!Call
  <2>2. reportCalls' \subseteq Report!Call /\ IsFiniteSet(reportCalls')
    <3>1. PICK e \in Report!Call : e = [c EXCEPT !.answered = TRUE]
      BY <2>1
    <3>2. IsFiniteSet(reportCalls \ {c}) /\ IsFiniteSet((reportCalls \ {c}) \cup {e})
      BY FiniteStays DEF ReportTypes
    <3>3. reportCalls' \in {reportCalls \ {c}, (reportCalls \ {c}) \cup {e}}
      BY <1>4, <3>1 DEF Report!Reply, Report!Ends
    <3> QED BY <3>2, <3>3 DEF ReportTypes, Report!TypeOK
  <2>3. {reportLoading', refreshing'} \subseteq BOOLEAN
    BY <1>4 DEF Report!Reply, Report!Ends, ReportTypes, Report!TypeOK
  <2> QED BY <1>4, <2>1, <2>2, <2>3 DEF Report!Reply, ReportTypes, Report!TypeOK
<1>5. ASSUME NEW c \in reportCalls, Report!Fails(c) PROVE ReportTypes'
  <2>1. c \in Report!Call /\ c.days \in Days /\ [c EXCEPT !.answered = TRUE] \in Report!Call
    BY DEF ReportTypes, Report!TypeOK, Report!Call
  <2>2. reportCalls' \subseteq Report!Call /\ IsFiniteSet(reportCalls')
    <3>1. PICK e \in Report!Call : e = [c EXCEPT !.answered = TRUE]
      BY <2>1
    <3>2. IsFiniteSet(reportCalls \ {c}) /\ IsFiniteSet((reportCalls \ {c}) \cup {e})
      BY FiniteStays DEF ReportTypes
    <3>3. reportCalls' \in {reportCalls \ {c}, (reportCalls \ {c}) \cup {e}}
      BY <1>5, <3>1 DEF Report!Fails, Report!Ends
    <3> QED BY <3>2, <3>3 DEF ReportTypes, Report!TypeOK
  <2>3. {reportLoading', refreshing'} \subseteq BOOLEAN
    BY <1>5 DEF Report!Fails, Report!Ends, ReportTypes, Report!TypeOK
  <2> QED BY <1>5, <2>1, <2>2, <2>3 DEF Report!Fails, ReportTypes, Report!TypeOK
<1>6. ASSUME NEW c \in reportCalls, Report!PauseEnds(c) PROVE ReportTypes'
  <2>1. IsFiniteSet(reportCalls')
    BY <1>6, FiniteStays DEF Report!PauseEnds, ReportTypes
  <2> QED BY <1>6, <2>1 DEF Report!PauseEnds, ReportTypes, Report!TypeOK
<1>7. CASE UNCHANGED reportVars
  BY <1>7 DEF ReportTypes, Report!TypeOK, reportVars
<1> QED BY <1>1, <1>2, <1>3, <1>4, <1>5, <1>6, <1>7, Zenon DEF Report!Next, Report!Proceeds

\* A window has two rows at least, and so has the one that is dragged.
ZoomTypes ==
  /\ Zoom!TypeOK
  /\ zoomRange # Zoom!NoWindow => zoomRange[1] < zoomRange[2]
  /\ drag # Zoom!NoDrag => drag.start >= 0 /\ drag.span > 1

LEMMA ZoomBound == MaxRows \in Nat
BY PartsAssumption DEF Zoom!ZoomAssumption

LEMMA ZoomTypeStart == Zoom!Init => ZoomTypes
<1> SUFFICES ASSUME Zoom!Init PROVE ZoomTypes
  OBVIOUS
<1>1. drag \in [start : -1..MaxRows, span : 0..MaxRows] /\ total \in 0..MaxRows
  BY ZoomBound DEF Zoom!Init, Zoom!NoDrag
<1>2. zoomRange \in Zoom!Window /\ {hook, drawn, listening} \subseteq BOOLEAN
  BY DEF Zoom!Init, Zoom!Window
<1> QED BY <1>1, <1>2 DEF Zoom!Init, ZoomTypes, Zoom!TypeOK

LEMMA ZoomTypeStep ==
  ASSUME ZoomTypes, [Zoom!Next]_zoomVars
  PROVE  ZoomTypes'
<1>1. ASSUME NEW n \in 0..MaxRows, Zoom!Rows(n) PROVE ZoomTypes'
  <2>1. {drawn', listening'} \subseteq BOOLEAN
    BY <1>1 DEF Zoom!Rows
  <2> QED BY <1>1, <2>1 DEF Zoom!Rows, ZoomTypes, Zoom!TypeOK
<1>2. ASSUME NEW out \in BOOLEAN, NEW cursor \in 0..Notches, Zoom!Wheel(out, cursor)
      PROVE ZoomTypes'
  <2>1. zoomRange \in {Zoom!NoWindow} \cup (Int \X Int) /\ total \in Nat /\ total >= 2
    BY <1>2, ZoomBound DEF Zoom!Wheel, ZoomTypes, Zoom!TypeOK, Zoom!Window
  <2>2. PICK w : w = Zoom!Zoomed(zoomRange, total, out, cursor)
    OBVIOUS
  <2>3. w \in Int \X Int /\ Zoom!Inside(w, total) /\ Zoom!Width(w) >= 2
    BY <2>1, <2>2, ZoomedIsInside
  <2>4. total <= MaxRows
    BY ZoomBound DEF ZoomTypes, Zoom!TypeOK
  <2>5. w \in (0..MaxRows) \X (0..(2 * MaxRows)) /\ w[1] < w[2]
    <3>1. PICK x \in Int, y \in Int : w = <<x, y>>
      BY <2>3
    <3>2. x >= 0 /\ y < total /\ y - x + 1 >= 2
      BY <2>3, <3>1 DEF Zoom!Inside, Zoom!Width
    <3> QED BY <2>1, <2>4, <3>1, <3>2, ZoomBound
  <2>6. zoomRange' = w /\ UNCHANGED <<hook, total, drawn, listening, drag>>
    BY <1>2, <2>2 DEF Zoom!Wheel
  <2> QED BY <2>5, <2>6 DEF ZoomTypes, Zoom!TypeOK, Zoom!Window
<1>3. CASE Zoom!SelectDays
  BY <1>3 DEF ZoomTypes, Zoom!TypeOK, Zoom!SelectDays, Zoom!Window
<1>4. CASE Zoom!MouseDown
  <2>1. zoomRange # Zoom!NoWindow /\ Zoom!Inside(zoomRange, total)
    BY <1>4 DEF Zoom!MouseDown, Zoom!ValidRange
  <2>2. PICK x \in 0..MaxRows, y \in 0..(2 * MaxRows) : zoomRange = <<x, y>>
    BY <2>1 DEF ZoomTypes, Zoom!TypeOK, Zoom!Window
  <2>3. x < y /\ y < total /\ total \in 0..MaxRows
    BY <2>1, <2>2 DEF ZoomTypes, Zoom!TypeOK, Zoom!Inside
  <2>4. drag' = [start |-> x, span |-> y - x + 1]
    BY <1>4, <2>2 DEF Zoom!MouseDown, Zoom!Width
  <2>5. x \in -1..MaxRows /\ y - x + 1 \in 0..MaxRows /\ y - x + 1 > 1 /\ x >= 0
    BY <2>2, <2>3, ZoomBound
  <2> QED BY <1>4, <2>4, <2>5 DEF Zoom!MouseDown, ZoomTypes, Zoom!TypeOK
<1>5. CASE Zoom!StopDrag
  <2>1. Zoom!NoDrag \in [start : -1..MaxRows, span : 0..MaxRows]
    BY ZoomBound DEF Zoom!NoDrag
  <2> QED BY <1>5, <2>1 DEF Zoom!StopDrag, ZoomTypes, Zoom!TypeOK
<1>6. CASE Zoom!DoubleClick
  BY <1>6 DEF ZoomTypes, Zoom!TypeOK, Zoom!DoubleClick, Zoom!Window
<1>7. ASSUME NEW delta \in -MaxRows..MaxRows, Zoom!MouseMove(delta) PROVE ZoomTypes'
  <2>1. /\ drag.start \in 0..MaxRows /\ drag.span \in 0..MaxRows /\ drag.span > 1
        /\ total \in 0..MaxRows /\ delta \in Int
    BY <1>7, ZoomBound DEF Zoom!MouseMove, ZoomTypes, Zoom!TypeOK
  <2>2. PICK first : first = Zoom!AtLeast(0, Zoom!AtMost(drag.start - delta,
                                    Zoom!AtLeast(0, total - drag.span)))
    OBVIOUS
  <2>3. first \in 0..MaxRows /\ first + drag.span - 1 \in 0..(2 * MaxRows)
    BY <2>1, <2>2, ZoomBound DEF Zoom!AtLeast, Zoom!AtMost
  <2>4. zoomRange' = <<first, first + drag.span - 1>>
        /\ UNCHANGED <<hook, total, drawn, listening, drag>>
    BY <1>7, <2>2 DEF Zoom!MouseMove
  <2>5. first < first + drag.span - 1
    BY <2>1, <2>3, ZoomBound
  <2> QED BY <2>3, <2>4, <2>5 DEF ZoomTypes, Zoom!TypeOK, Zoom!Window
<1>8. CASE UNCHANGED zoomVars
  BY <1>8 DEF ZoomTypes, Zoom!TypeOK, zoomVars
<1> QED BY <1>1, <1>2, <1>3, <1>4, <1>5, <1>6, <1>7, <1>8, Zenon DEF Zoom!Next

\* The runs, the intervals and the probes of the console.
ConsoleTypes ==
  /\ sweeps \subseteq [n : 1..MaxSweeps, at : 1..Endpoints] /\ IsFiniteSet(sweeps)
  /\ timers \in 0..MaxTimers /\ probes \in 0..MaxProbes
  /\ {onConsole, busy, auto, down, edgeDown, deserted} \subseteq BOOLEAN

LEMMA SweepTypes ==
  ASSUME ConsoleTypes, Console!StartSweep
  PROVE  /\ sweeps' \subseteq [n : 1..MaxSweeps, at : 1..Endpoints] /\ IsFiniteSet(sweeps')
         /\ busy' = TRUE
<1>1. Cardinality(sweeps) < MaxSweeps /\ MaxSweeps \in Nat /\ busy' = TRUE
  BY ConsoleCardinality, BoundsFacts DEF Console!StartSweep
<1>2. PICK n \in 1..MaxSweeps : n = Free(sweeps, MaxSweeps)
  BY <1>1, FreeIs DEF ConsoleTypes
<1>3. PICK new : new = [n |-> n, at |-> 1]
  OBVIOUS
<1>4. sweeps' = sweeps \cup {new}
  BY <1>2, <1>3, Zenon DEF Console!StartSweep, Free
<1>5. 1 \in 1..Endpoints
  BY BoundsFacts
<1>6. new \in [n : 1..MaxSweeps, at : 1..Endpoints]
  BY <1>3, <1>5
<1>7. IsFiniteSet(sweeps')
  BY <1>4, FiniteStays DEF ConsoleTypes
<1> QED BY <1>1, <1>4, <1>6, <1>7 DEF ConsoleTypes

LEMMA ConsoleTypeStart == Console!Init => ConsoleTypes
<1> SUFFICES ASSUME Console!Init PROVE ConsoleTypes
  OBVIOUS
<1>1. IsFiniteSet({})
  BY FS_EmptySet
<1>2. sweeps = {} /\ timers = 0 /\ probes = 0
  BY DEF Console!Init
<1>3. timers \in 0..MaxTimers /\ probes \in 0..MaxProbes
  BY <1>2, BoundsFacts
<1>4. {onConsole, busy, auto, down, edgeDown, deserted} \subseteq BOOLEAN
  BY DEF Console!Init
<1> QED BY <1>1, <1>2, <1>3, <1>4 DEF ConsoleTypes

LEMMA ConsoleTypeStep ==
  ASSUME ConsoleTypes, ConsoleInv, [Console!Next]_consoleVars
  PROVE  ConsoleTypes'
<1>1. CASE Console!RunAll
  <2>1. /\ Console!StartSweep
        /\ UNCHANGED <<onConsole, logs, auto, down, edgeDown, timers, probes, deserted>>
    BY <1>1 DEF Console!RunAll
  <2> QED BY <2>1, SweepTypes DEF ConsoleTypes
<1>2. CASE Console!RunSingle
  BY <1>2, BoundsFacts DEF ConsoleTypes, Console!RunSingle
<1>3. CASE Console!ToggleAuto
  <2>1. UNCHANGED <<onConsole, logs, down, edgeDown, probes, deserted>> /\ auto' = ~auto
    BY <1>3 DEF Console!ToggleAuto, ConsoleTypes
  <2>2. timers' \in 0..MaxTimers
    BY <1>3, BoundsFacts DEF Console!ToggleAuto, Console!Silenced, ConsoleTypes, ConsoleInv
  <2>3. UNCHANGED <<busy, sweeps>> \/ Console!StartSweep
    BY <1>3, Zenon DEF Console!ToggleAuto
  <2> QED BY <2>1, <2>2, <2>3, SweepTypes DEF ConsoleTypes
<1>4. CASE Console!AutoProbe
  BY <1>4, BoundsFacts DEF ConsoleTypes, Console!AutoProbe
<1>5. CASE Console!ClearLog
  BY <1>5 DEF ConsoleTypes, Console!ClearLog
<1>6. CASE Console!EdgeSwitches
  BY <1>6 DEF ConsoleTypes, Console!EdgeSwitches
<1>7. CASE Console!LeaveConsole
  <2>1. /\ sweeps' = {} /\ probes' = 0 /\ timers' = timers /\ down' = down
        /\ {onConsole', busy', auto', edgeDown', deserted'} \subseteq BOOLEAN
    BY <1>7 DEF Console!LeaveConsole, Console!Mount
  <2>2. IsFiniteSet({}) /\ 0 \in 0..MaxProbes
    BY FS_EmptySet, BoundsFacts
  <2> QED BY <2>1, <2>2 DEF ConsoleTypes
<1>8. CASE Console!EnterConsole
  BY <1>8 DEF ConsoleTypes, Console!EnterConsole
<1>9. ASSUME NEW g \in Console!Gateway, Console!ProbeEnds(g) PROVE ConsoleTypes'
  BY <1>9, BoundsFacts DEF ConsoleTypes, Console!ProbeEnds, Console!Probed
<1>10. ASSUME NEW g \in Console!Gateway, NEW s \in sweeps, Console!SweepProceeds(s, g)
       PROVE ConsoleTypes'
  <2>1. /\ edgeDown' = down /\ UNCHANGED <<onConsole, auto, down, timers, probes, deserted>>
        /\ busy' \in {busy, FALSE}
    BY <1>10 DEF Console!SweepProceeds, Console!Probed
  <2>2. CASE s.at < Endpoints
    <3>1. PICK k : k = s.at + 1
      OBVIOUS
    <3>2. k \in 1..Endpoints
      BY <2>2, <3>1, BoundsFacts DEF ConsoleTypes
    <3>3. PICK t : t = [s EXCEPT !.at = k]
      OBVIOUS
    <3>4. t \in [n : 1..MaxSweeps, at : 1..Endpoints]
      BY <3>2, <3>3 DEF ConsoleTypes
    <3>5. sweeps' = (sweeps \ {s}) \cup {t}
      BY <1>10, <2>2, <3>1, <3>3 DEF Console!SweepProceeds
    <3>6. IsFiniteSet(sweeps')
      BY <3>5, FiniteStays DEF ConsoleTypes
    <3> QED BY <2>1, <3>4, <3>5, <3>6 DEF ConsoleTypes
  <2>3. CASE ~(s.at < Endpoints)
    <3>1. sweeps' = sweeps \ {s}
      BY <1>10, <2>3 DEF Console!SweepProceeds
    <3>2. IsFiniteSet(sweeps')
      BY <3>1, FiniteStays DEF ConsoleTypes
    <3> QED BY <2>1, <3>1, <3>2 DEF ConsoleTypes
  <2> QED BY <2>2, <2>3
<1>11. CASE UNCHANGED consoleVars
  BY <1>11 DEF ConsoleTypes, consoleVars
<1> QED BY <1>1, <1>2, <1>3, <1>4, <1>5, <1>6, <1>7, <1>8, <1>9, <1>10, <1>11,
     Zenon DEF Console!Next

LEMMA ConsoleIsTyped == ConsoleInv /\ ConsoleTypes => Console!TypeOK
<1> SUFFICES ASSUME ConsoleInv, ConsoleTypes PROVE Console!TypeOK
  OBVIOUS
<1>1. PICK m \in 0..LogLimit : m = Len(logs)
  BY DEF ConsoleInv
<1>2. logs \in [1..m -> Console!Gateway]
  BY <1>1 DEF ConsoleInv
<1>3. logs \in UNION {[1..n -> Console!Gateway] : n \in 0..LogLimit}
  BY <1>2, Zenon
<1> QED BY <1>3 DEF ConsoleTypes, Console!TypeOK

\* The items are the pages and two actions, two more than the pages at most.
LEMMA NavNames ==
  ASSUME NEW a \in Frame!AccountKind
  PROVE  /\ Frame!Range(Frame!NavItems(a))
              \subseteq {"new", "profile"} \cup Frame!Range(Links \o AdminLinks)
         /\ Len(Frame!NavItems(a)) \in 3..(Len(Links \o AdminLinks) + 2)
         /\ Frame!Range(Links) \cup Frame!Range(AdminLinks)
              \subseteq Frame!Range(Links \o AdminLinks)
         /\ Links[1] \in Frame!Range(Links)
<1> DEFINE all == Links \o AdminLinks
           R == Frame!Range(all)
           X == {"new", "profile"} \cup R
           extra == IF a.owner THEN AdminLinks ELSE <<>>
<1>1. Links \in Seq(STRING) /\ AdminLinks \in Seq(STRING)
  BY PartsAssumption DEF Frame!LinkAssumption
<1>2. /\ Len(all) = Len(Links) + Len(AdminLinks) /\ all \in Seq(STRING)
      /\ \A i \in 1..Len(Links) + Len(AdminLinks) :
           all[i] = IF i <= Len(Links) THEN Links[i] ELSE AdminLinks[i - Len(Links)]
  BY <1>1, ConcatProperties
<1>3. Len(Links) \in Nat /\ Len(AdminLinks) \in Nat /\ DOMAIN all = 1..Len(all)
      /\ DOMAIN Links = 1..Len(Links) /\ DOMAIN AdminLinks = 1..Len(AdminLinks)
  BY <1>1, <1>2
<1>4. \A i \in 1..Len(Links) : Links[i] \in R
  <2> SUFFICES ASSUME NEW i \in 1..Len(Links) PROVE Links[i] \in R
    OBVIOUS
  <2>1. i \in DOMAIN all /\ all[i] = Links[i]
    <3> HIDE DEF all
    <3> QED BY <1>2, <1>3
  <2> QED BY <2>1, Zenon DEF Frame!Range
<1>5. \A i \in 1..Len(AdminLinks) : AdminLinks[i] \in R
  <2> SUFFICES ASSUME NEW i \in 1..Len(AdminLinks) PROVE AdminLinks[i] \in R
    OBVIOUS
  <2>1. i + Len(Links) \in DOMAIN all /\ all[i + Len(Links)] = AdminLinks[i]
    <3>1. /\ i + Len(Links) \in 1..(Len(Links) + Len(AdminLinks)) /\ ~(i + Len(Links) <= Len(Links))
          /\ i + Len(Links) - Len(Links) = i
      BY <1>3
    <3> HIDE DEF all
    <3> QED BY <1>2, <1>3, <3>1
  <2> QED BY <2>1, Zenon DEF Frame!Range
<1>6. Frame!Range(Links) \subseteq R /\ Frame!Range(AdminLinks) \subseteq R
  BY <1>3, <1>4, <1>5, Zenon DEF Frame!Range
<1>7. Links \in Seq(X) /\ AdminLinks \in Seq(X) /\ extra \in Seq(X)
  <2> HIDE DEF R
  <2> QED BY <1>1, <1>4, <1>5
<1>8. Len(extra) \in 0..Len(AdminLinks)
  BY <1>3
<1>9. Len(Links) >= 1 /\ Links[1] \in Frame!Range(Links)
  <2>1. \E c \in DOMAIN Links : Links[c] = "/chat"
    BY PartsAssumption DEF Frame!LinkAssumption, Frame!Range
  <2>2. Len(Links) >= 1 /\ 1 \in DOMAIN Links
    BY <1>3, <2>1
  <2> QED BY <2>2, Zenon DEF Frame!Range
<1>10. Frame!NavItems(a) = ((<<"new">> \o Links) \o extra) \o <<"profile">>
  BY Zenon DEF Frame!NavItems
<1> HIDE DEF X, extra
<1>11. <<"new">> \in Seq(X) /\ <<"profile">> \in Seq(X) /\ Len(<<"new">>) = 1
       /\ Len(<<"profile">>) = 1
  BY DEF X
<1>12. <<"new">> \o Links \in Seq(X) /\ Len(<<"new">> \o Links) = 1 + Len(Links)
  BY <1>7, <1>11, ConcatProperties
<1>13. /\ (<<"new">> \o Links) \o extra \in Seq(X)
       /\ Len((<<"new">> \o Links) \o extra) = 1 + Len(Links) + Len(extra)
  BY <1>7, <1>12, ConcatProperties
<1>14. Frame!NavItems(a) \in Seq(X) /\ Len(Frame!NavItems(a)) = 1 + Len(Links) + Len(extra) + 1
  BY <1>10, <1>11, <1>13, ConcatProperties
<1>15. Frame!Range(Frame!NavItems(a)) \subseteq X
  BY <1>14 DEF Frame!Range
<1>16. Len(Frame!NavItems(a)) \in 3..(Len(all) + 2)
  <2> HIDE DEF all
  <2> QED BY <1>2, <1>3, <1>8, <1>9, <1>14
<1> QED BY <1>6, <1>9, <1>15, <1>16 DEF X

\* The page and what lies over it.
FrameTypes == path \in Frame!Paths /\ opened \subseteq Frame!Overlay

LEMMA PathFacts ==
  /\ {Frame!Conversation, "/login", "/chat", "/usage", Links[1]} \subseteq Frame!Paths
  /\ Frame!Range(Links) \cup Frame!Range(AdminLinks) \subseteq Frame!Paths
  /\ \A a \in Frame!AccountKind : Frame!Range(Frame!NavItems(a))
                                    \subseteq {"new", "profile"} \cup Frame!Paths
<1>1. PICK a : a = [owner |-> FALSE, member |-> FALSE, paid |-> FALSE, tier |-> "none"]
  OBVIOUS
<1>2. a \in Frame!AccountKind
  BY <1>1 DEF Frame!AccountKind
<1>3. {"/chat", "/usage"} \subseteq Frame!Range(Links)
  BY PartsAssumption DEF Frame!LinkAssumption
<1>4. Frame!Range(Links \o AdminLinks) \cup {Frame!Conversation, "/login"} = Frame!Paths
  BY Zenon DEF Frame!Paths
<1> QED BY <1>2, <1>3, <1>4, NavNames

LEMMA FrameTypeStart == Frame!Init => FrameTypes
BY PathFacts DEF Frame!Init, FrameTypes

LEMMA FrameTypeStep ==
  ASSUME FrameTypes, FrameInv, [Frame!Next]_frameVars
  PROVE  FrameTypes'
<1>1. ASSUME NEW fit \in Widths, Frame!Resize(fit) PROVE FrameTypes'
  BY <1>1 DEF FrameTypes, Frame!Resize
<1>2. ASSUME NEW a \in Frame!AccountKind, Frame!AccountArrives(a) PROVE FrameTypes'
  BY <1>2 DEF FrameTypes, Frame!AccountArrives
<1>3. ASSUME NEW a \in Frame!AccountKind, Frame!SignIn(a) PROVE FrameTypes'
  BY <1>3, PathFacts DEF FrameTypes, Frame!SignIn
<1>4. ASSUME NEW item \in Frame!Range(Frame!Items), Frame!Does(item) PROVE FrameTypes'
  <2>1. item \in {"new", "profile"} \cup Frame!Paths
    BY PathFacts DEF FrameInv, Frame!Items
  <2> QED BY <1>4, <2>1, PathFacts DEF Frame!Does, FrameTypes, Frame!Overlay
<1>5. ASSUME NEW item \in Frame!Range(Frame!Items), Frame!Tap(item) PROVE FrameTypes'
  BY <1>4, <1>5 DEF Frame!Tap
<1>6. ASSUME NEW item \in Frame!Range(Frame!Items), Frame!DrawerTap(item) PROVE FrameTypes'
  BY <1>4, <1>6 DEF Frame!DrawerTap
<1>7. CASE Frame!OpenDrawer
  BY <1>7 DEF FrameTypes, Frame!OpenDrawer, Frame!Overlay
<1>8. CASE Frame!SidebarChat
  BY <1>8, PathFacts DEF FrameTypes, Frame!SidebarChat
<1>9. CASE Frame!OpenMenu
  BY <1>9 DEF FrameTypes, Frame!OpenMenu, Frame!Overlay
<1>10. CASE Frame!MenuLeaves
  BY <1>10, PathFacts DEF FrameTypes, Frame!MenuLeaves
<1>11. CASE Frame!UpgradeFromProfile
  BY <1>11 DEF FrameTypes, Frame!UpgradeFromProfile, Frame!Overlay
<1>12. CASE Frame!SignOut
  BY <1>12, PathFacts DEF FrameTypes, Frame!SignOut
<1>13. CASE Frame!SignOutFromProfile
  BY <1>13, PathFacts DEF FrameTypes, Frame!SignOutFromProfile
<1>14. ASSUME NEW p \in Frame!Paths, Frame!SidebarLink(p) PROVE FrameTypes'
  BY <1>14 DEF FrameTypes, Frame!SidebarLink
<1>15. ASSUME NEW d \in Frame!Overlay, Frame!MenuItem(d) PROVE FrameTypes'
  BY <1>15 DEF FrameTypes, Frame!MenuItem, Frame!Picked
<1>16. ASSUME NEW d \in Frame!Overlay, Frame!CloseOverlay(d) PROVE FrameTypes'
  BY <1>16 DEF FrameTypes, Frame!CloseOverlay
<1>17. CASE UNCHANGED frameVars
  BY <1>17 DEF FrameTypes, frameVars
<1> QED BY <1>1, <1>2, <1>3, <1>4, <1>5, <1>6, <1>7, <1>8, <1>9, <1>10, <1>11, <1>12,
     <1>13, <1>14, <1>15, <1>16, <1>17, Zenon DEF Frame!Next

LEMMA FrameIsTyped == FrameInv /\ FrameTypes => Frame!TypeOK
<1> SUFFICES ASSUME FrameInv, FrameTypes PROVE Frame!TypeOK
  OBVIOUS
<1>1. PICK n : n = Len(Frame!NavItems(account))
  OBVIOUS
<1>2. n \in 3..(Len(Links \o AdminLinks) + 2)
  BY <1>1, NavNames DEF FrameInv
<1>3. Len(Links \o AdminLinks) \in Nat
  <2>1. Links \in Seq(STRING) /\ AdminLinks \in Seq(STRING)
    BY PartsAssumption DEF Frame!LinkAssumption
  <2> QED BY <2>1, ConcatProperties, LenProperties
<1>4. maxFit \in Nat
  BY PartsAssumption DEF Frame!WidthAssumption, FrameInv
<1>5. Frame!VisibleCount(maxFit, n) \in 0..(Len(Links \o AdminLinks) + 2)
  BY <1>2, <1>3, <1>4 DEF Frame!VisibleCount
<1> QED BY <1>1, <1>5 DEF FrameInv, FrameTypes, Frame!TypeOK, Frame!Counted

\* The times of the stack.
NewsTypes ==
  /\ {newsOpen, paused, reduced} \subseteq BOOLEAN
  /\ popup \in -1..OpeningTime /\ settling \in 0..SettleTime
  /\ sinceScroll \in 0..Interval /\ progress \in 0..Autoplay

LEMMA NewsTypeStart == News!Init => NewsTypes
<1> SUFFICES ASSUME News!Init PROVE NewsTypes
  OBVIOUS
<1>1. {newsOpen, paused, reduced} \subseteq BOOLEAN
  BY DEF News!Init
<1>2. popup \in {-1, OpeningTime} /\ settling = 0 /\ sinceScroll = Interval /\ progress = 0
  BY DEF News!Init
<1>3. /\ popup \in -1..OpeningTime /\ settling \in 0..SettleTime
      /\ sinceScroll \in 0..Interval /\ progress \in 0..Autoplay
  BY <1>2, NewsConstants
<1> QED BY <1>1, <1>3 DEF NewsTypes

LEMMA NewsTypeStep ==
  ASSUME NewsTypes, [News!Next]_newsVars
  PROVE  NewsTypes'
<1>1. CASE News!OpenNews
  <2>1. popup' \in -1..OpeningTime
    BY <1>1, NewsConstants DEF News!OpenNews, NewsTypes
  <2>2. {newsOpen', paused', reduced'} \subseteq BOOLEAN
    BY <1>1 DEF News!OpenNews, News!Stacked, News!stack, NewsTypes
  <2>3. settling' \in 0..SettleTime /\ sinceScroll' \in 0..Interval /\ progress' \in 0..Autoplay
    BY <1>1, NewsConstants DEF News!OpenNews, News!Stacked, News!stack, NewsTypes
  <2> QED BY <2>1, <2>2, <2>3 DEF NewsTypes
<1>2. CASE News!PopupOnOpen
  <2>1. popup' \in -1..OpeningTime
    BY <1>2, NewsConstants DEF News!PopupOnOpen, NewsTypes
  <2>2. {newsOpen', paused', reduced'} \subseteq BOOLEAN
    BY <1>2 DEF News!PopupOnOpen, News!Stacked, News!stack, NewsTypes
  <2>3. settling' \in 0..SettleTime /\ sinceScroll' \in 0..Interval /\ progress' \in 0..Autoplay
    BY <1>2, NewsConstants DEF News!PopupOnOpen, News!Stacked, News!stack, NewsTypes
  <2> QED BY <2>1, <2>2, <2>3 DEF NewsTypes
<1>3. CASE News!CloseNews
  <2>1. popup' \in -1..OpeningTime
    BY <1>3, NewsConstants DEF News!CloseNews, NewsTypes
  <2>2. {newsOpen', paused', reduced'} \subseteq BOOLEAN
    BY <1>3 DEF News!CloseNews, News!Stacked, News!stack, NewsTypes
  <2>3. settling' \in 0..SettleTime /\ sinceScroll' \in 0..Interval /\ progress' \in 0..Autoplay
    BY <1>3, NewsConstants DEF News!CloseNews, News!Stacked, News!stack, NewsTypes
  <2> QED BY <2>1, <2>2, <2>3 DEF NewsTypes
<1>4. CASE News!Remount
  <2>1. popup' \in -1..OpeningTime
    BY <1>4, NewsConstants DEF News!Remount, NewsTypes
  <2>2. {newsOpen', paused', reduced'} \subseteq BOOLEAN
    BY <1>4 DEF News!Remount, News!Stacked, News!stack, NewsTypes
  <2>3. settling' \in 0..SettleTime /\ sinceScroll' \in 0..Interval /\ progress' \in 0..Autoplay
    BY <1>4, NewsConstants DEF News!Remount, News!Stacked, News!stack, NewsTypes
  <2> QED BY <2>1, <2>2, <2>3 DEF NewsTypes
<1>5. ASSUME NEW d, News!ScrollToCard(d) /\ News!Elsewhere PROVE NewsTypes'
  BY <1>5, NewsConstants DEF News!ScrollToCard, News!Shows, News!Elsewhere, NewsTypes
<1>6. ASSUME NEW i, News!JumpTo(i) /\ News!Elsewhere PROVE NewsTypes'
  BY <1>6, NewsConstants DEF News!JumpTo, News!Shows, News!Elsewhere, NewsTypes
<1>7. ASSUME NEW k \in {"up", "down", "home", "end"}, News!Key(k) PROVE NewsTypes'
  BY <1>5, <1>6, <1>7 DEF News!Key
<1>8. ASSUME NEW deltaY \in {-20, 5, 20}, News!Wheel(deltaY) PROVE NewsTypes'
  BY <1>5, <1>8 DEF News!Wheel
<1>9. ASSUME NEW dx \in {-40, 0, 35}, NEW dy \in {-40, 0, 35}, News!Swipe(dx, dy)
      PROVE NewsTypes'
  BY <1>5, <1>9 DEF News!Swipe
<1>10. ASSUME NEW d \in {-1, 1}, News!Arrow(d) PROVE NewsTypes'
  BY <1>5, <1>10 DEF News!Arrow
<1>11. ASSUME NEW i \in 0..(CardCount - 1), News!Dot(i) PROVE NewsTypes'
  BY <1>6, <1>11 DEF News!Dot
<1>12. ASSUME NEW on \in BOOLEAN, News!Pause(on) PROVE NewsTypes'
  BY <1>12 DEF NewsTypes, News!Pause
<1>13. CASE News!Tick
  <2>1. popup' \in -1..OpeningTime
    BY <1>13, NewsConstants DEF News!Tick, NewsTypes
  <2>2. settling' \in 0..SettleTime
    BY <1>13, NewsConstants DEF News!Tick, News!IsScrolling, NewsTypes
  <2>3. sinceScroll' \in 0..Interval
    <3>1. \/ sinceScroll' = 0 \/ sinceScroll' = Interval
          \/ sinceScroll' = sinceScroll + 1 /\ sinceScroll < Interval
      BY <1>13, Zenon DEF News!Tick
    <3> QED BY <3>1, NewsConstants DEF NewsTypes
  <2>4. progress' \in 0..Autoplay
    <3>1. \/ progress' = progress \/ progress' = 0
          \/ progress' = progress + 1 /\ progress + 1 < Autoplay
      BY <1>13, Zenon DEF News!Tick, News!Shows
    <3> QED BY <3>1, NewsConstants DEF NewsTypes
  <2>5. UNCHANGED <<newsOpen, paused, reduced>>
    BY <1>13 DEF News!Tick
  <2> QED BY <2>1, <2>2, <2>3, <2>4, <2>5 DEF NewsTypes
<1>14. CASE UNCHANGED newsVars
  BY <1>14 DEF NewsTypes, newsVars, News!stack
<1> QED BY <1>1, <1>2, <1>3, <1>4, <1>5, <1>6, <1>7, <1>8, <1>9, <1>10, <1>11, <1>12,
     <1>13, <1>14, Zenon DEF News!Next

LEMMA NewsIsTyped == NewsInv /\ NewsTypes => News!TypeOK
BY DEF NewsInv, NewsTypes, News!TypeOK

\* The chat's bound and choices.
TurnsTypes ==
  /\ Len(dialogue) <= MaxTurnMessages
  /\ effort \in Efforts /\ maxTokens \in Presets
  /\ phase \in {"idle", "asked", "streaming", "saving"}
  /\ {thinking, refused} \subseteq BOOLEAN
  /\ archive \in {"none", "whole", "gap"}

\* A turn gives a message another form, in its place.
LEMMA TurnsKeep ==
  ASSUME TurnsInv, TurnsTypes, Turns!TheRest,
         phase' \in {"idle", "asked", "streaming", "saving"},
         NEW a, Turns!Becomes(a) \/ UNCHANGED dialogue
  PROVE  TurnsTypes'
<1>1. Len(dialogue') = Len(dialogue)
  BY DEF TurnsInv, Turns!Becomes
<1>2. UNCHANGED <<thinking, effort, maxTokens, refused, archive>>
  BY DEF Turns!TheRest, Turns!settings
<1> QED BY <1>1, <1>2 DEF TurnsTypes

\* The messages that come back are as many.
LEMMA TurnsReadBack ==
  ASSUME TurnsInv, dialogue' = [i \in DOMAIN dialogue |-> Turns!ReadBack(dialogue[i])]
  PROVE  Len(dialogue') = Len(dialogue)
<1>1. PICK n \in Nat : n = Len(dialogue)
  BY DEF TurnsInv
<1>2. DOMAIN dialogue = 1..n
  BY <1>1 DEF TurnsInv
<1>3. DOMAIN dialogue' = 1..n
  BY <1>2
<1> QED BY <1>1, <1>3

LEMMA TurnSends ==
  ASSUME TurnsInv, TurnsTypes, NEW typed \in BOOLEAN, NEW image \in BOOLEAN,
         Turns!Send(typed, image)
  PROVE  TurnsTypes'
<1>1. /\ Len(dialogue) + 2 <= MaxTurnMessages /\ phase' = "asked"
      /\ UNCHANGED <<thinking, effort, maxTokens, refused, archive>>
  BY DEF Turns!Send, Turns!settings
<1>2. PICK m, a : dialogue' = dialogue \o <<m, a>>
  BY Zenon DEF Turns!Send
<1>3. Len(dialogue') = Len(dialogue) + 2
  BY <1>2 DEF TurnsInv
<1> QED BY <1>1, <1>3 DEF TurnsTypes

LEMMA TurnsTypeStart == Turns!Init => TurnsTypes
<1> SUFFICES ASSUME Turns!Init PROVE TurnsTypes
  OBVIOUS
<1>1. dialogue = <<>> /\ thinking = FALSE /\ refused = FALSE
  BY DEF Turns!Init
<1>2. Len(<<>>) <= MaxTurnMessages
  BY BoundsFacts
<1>3. {thinking, refused} \subseteq BOOLEAN
  BY <1>1
<1>4. /\ effort \in Efforts /\ maxTokens \in Presets /\ phase = "idle" /\ archive = "none"
  BY BoundsFacts DEF Turns!Init
<1> QED BY <1>1, <1>2, <1>3, <1>4 DEF TurnsTypes

LEMMA TurnsTypeStep ==
  ASSUME TurnsTypes, TurnsInv, [Turns!Next]_turnsVars
  PROVE  TurnsTypes'
<1>1. ASSUME NEW typed \in BOOLEAN, NEW image \in BOOLEAN, Turns!Send(typed, image)
      PROVE TurnsTypes'
  BY <1>1, TurnSends
<1>2. CASE Turns!Continue
  <2>1. CASE attached = {}
    BY <1>2, <2>1, TurnSends DEF Turns!Continue
  <2>2. CASE attached # {}
    BY <1>2, <2>2 DEF Turns!Continue, Turns!settings, TurnsTypes
  <2> QED BY <2>1, <2>2
<1>3. CASE Turns!ToggleThinking
  BY <1>3 DEF TurnsTypes, Turns!ToggleThinking
<1>4. ASSUME NEW k \in Kinds, Turns!Attach(k) \/ Turns!RemoveAttachment(k) PROVE TurnsTypes'
  BY <1>4 DEF TurnsTypes, Turns!Attach, Turns!RemoveAttachment, Turns!settings
<1>5. ASSUME NEW e \in Efforts, Turns!SetEffort(e) PROVE TurnsTypes'
  BY <1>5 DEF TurnsTypes, Turns!SetEffort
<1>6. ASSUME NEW n \in Presets, Turns!SetMaxTokens(n) PROVE TurnsTypes'
  BY <1>6 DEF TurnsTypes, Turns!SetMaxTokens
<1>7. ASSUME NEW code \in {401, 403, 500}, Turns!Refused(code) PROVE TurnsTypes'
  <2>1. /\ phase' \in {"idle", "asked", "streaming", "saving"} /\ Turns!TheRest
    BY <1>7 DEF Turns!Refused
  <2>2. \E a : Turns!Becomes(a) \/ UNCHANGED dialogue
    BY <1>7, Zenon DEF Turns!Refused
  <2> QED BY <2>1, <2>2, TurnsKeep
<1>8. CASE Turns!StreamOpens
  <2>1. /\ phase' \in {"idle", "asked", "streaming", "saving"} /\ Turns!TheRest
    BY <1>8 DEF Turns!StreamOpens
  <2>2. \E a : Turns!Becomes(a) \/ UNCHANGED dialogue
    BY <1>8, Zenon DEF Turns!StreamOpens
  <2> QED BY <2>1, <2>2, TurnsKeep
<1>9. CASE Turns!StreamEnds
  <2>1. /\ phase' \in {"idle", "asked", "streaming", "saving"} /\ Turns!TheRest
    BY <1>9 DEF Turns!StreamEnds
  <2>2. \E a : Turns!Becomes(a) \/ UNCHANGED dialogue
    BY <1>9, Zenon DEF Turns!StreamEnds
  <2> QED BY <2>1, <2>2, TurnsKeep
<1>10. CASE Turns!Saved
  <2>1. Len(dialogue') = Len(dialogue)
    BY <1>10, TurnsReadBack DEF Turns!Saved
  <2>2. /\ phase' = "idle" /\ UNCHANGED <<thinking, effort, maxTokens, refused>>
        /\ archive' \in {archive, "whole"}
    BY <1>10 DEF Turns!Saved, Turns!settings
  <2> QED BY <2>1, <2>2 DEF TurnsTypes
<1>11. CASE Turns!SaveFails
  BY <1>11 DEF TurnsTypes, Turns!SaveFails, Turns!settings
<1>12. CASE Turns!Reopen
  <2>1. Len(dialogue') = Len(dialogue)
    BY <1>12, TurnsReadBack DEF Turns!Reopen
  <2>2. UNCHANGED <<thinking, effort, maxTokens, phase, refused, archive>>
    BY <1>12 DEF Turns!Reopen, Turns!settings
  <2> QED BY <2>1, <2>2 DEF TurnsTypes
<1>13. ASSUME NEW t \in {"none", "whole", "cut"}, Turns!Event(t) PROVE TurnsTypes'
  <2>1. phase' \in {"idle", "asked", "streaming", "saving"} /\ Turns!TheRest
    BY <1>13 DEF Turns!Event, TurnsTypes
  <2>2. \E a : Turns!Becomes(a) \/ UNCHANGED dialogue
    BY <1>13, Zenon DEF Turns!Event
  <2> QED BY <2>1, <2>2, TurnsKeep
<1>14. ASSUME NEW t \in {"whole", "cut"}, Turns!Breaks(t) \/ Turns!Stop(t) PROVE TurnsTypes'
  <2>1. /\ phase' \in {"idle", "asked", "streaming", "saving"} /\ Turns!TheRest
    BY <1>14 DEF Turns!Breaks, Turns!Stop
  <2>2. \E a : Turns!Becomes(a) \/ UNCHANGED dialogue
    BY <1>14, Zenon DEF Turns!Breaks, Turns!Stop
  <2> QED BY <2>1, <2>2, TurnsKeep
<1>15. CASE UNCHANGED turnsVars
  BY <1>15 DEF TurnsTypes, turnsVars, Turns!settings
<1>16. CASE \/ \E typed, image \in BOOLEAN : Turns!Send(typed, image)
            \/ \E k \in Kinds : Turns!Attach(k) \/ Turns!RemoveAttachment(k)
            \/ \E e \in Efforts : Turns!SetEffort(e)
            \/ \E n \in Presets : Turns!SetMaxTokens(n)
  BY <1>1, <1>4, <1>5, <1>6, <1>16, Zenon
<1>17. CASE \/ \E code \in {401, 403, 500} : Turns!Refused(code)
            \/ \E t \in {"none", "whole", "cut"} : Turns!Event(t)
            \/ \E t \in {"whole", "cut"} : Turns!Breaks(t) \/ Turns!Stop(t)
  BY <1>7, <1>13, <1>14, <1>17, Zenon
<1> QED
  BY <1>2, <1>3, <1>8, <1>9, <1>10, <1>11, <1>12, <1>15, <1>16, <1>17, Zenon
     DEF Turns!Next

LEMMA TurnsAreTyped == TurnsInv /\ TurnsTypes => Turns!TypeOK
<1> SUFFICES ASSUME TurnsInv, TurnsTypes PROVE Turns!TypeOK
  OBVIOUS
<1>1. \A i \in DOMAIN dialogue : dialogue[i] \in Turns!Msg
  BY DEF TurnsInv
<1> QED BY <1>1 DEF TurnsInv, TurnsTypes, Turns!TypeOK

\* The clients with a bucket, and what a refusal says.
Telling == [route : Routes \cup {"none"}, until : Nat, over : BOOLEAN]

BucketTypes ==
  /\ clock \in 0..Horizon
  /\ buckets \in Seq(Client) /\ Len(buckets) <= MaxBuckets
  /\ \A c \in Client : calls[c] # <<>> => \E i \in 1..Len(buckets) : buckets[i] = c
  /\ told \in [Client -> Telling]

LEMMA NothingTold == Bucket!Nothing \in Telling
<1>1. 0 \in Nat
  OBVIOUS
<1> QED BY <1>1, Zenon DEF Bucket!Nothing, Telling

\* A client with a bucket, in its place or as the newest.
LEMMA KnownTypes ==
  ASSUME BucketTypes, NEW c \in Client
  PROVE  /\ Bucket!Known(c) \in Seq(Client) /\ Len(Bucket!Known(c)) >= 1
         /\ Len(Bucket!Known(c)) \in Nat /\ Len(Bucket!Known(c)) <= MaxBuckets + 1
         /\ \E i \in 1..Len(Bucket!Known(c)) : Bucket!Known(c)[i] = c
         /\ \A i \in 1..Len(buckets) :
              i \in 1..Len(Bucket!Known(c)) /\ Bucket!Known(c)[i] = buckets[i]
<1>1. /\ buckets \in Seq(Client) /\ Len(buckets) \in Nat /\ Len(buckets) <= MaxBuckets
      /\ MaxBuckets \in Nat /\ DOMAIN buckets = 1..Len(buckets)
  BY BucketConstants DEF BucketTypes
<1>2. CASE \E i \in DOMAIN buckets : buckets[i] = c
  <2>1. Bucket!Known(c) = buckets
    BY <1>2 DEF Bucket!Known
  <2> QED BY <1>1, <1>2, <2>1
<1>3. CASE ~\E i \in DOMAIN buckets : buckets[i] = c
  <2>1. Bucket!Known(c) = Append(buckets, c)
    BY <1>3, Zenon DEF Bucket!Known
  <2>2. /\ Append(buckets, c) \in Seq(Client) /\ Len(Append(buckets, c)) = Len(buckets) + 1
        /\ Append(buckets, c)[Len(buckets) + 1] = c
        /\ \A i \in 1..Len(buckets) : Append(buckets, c)[i] = buckets[i]
    BY <1>1, AppendProperties
  <2> QED BY <1>1, <2>1, <2>2
<1> QED BY <1>2, <1>3

\* A time to wait is none, or some seconds.
LEMMA RetryIsTime ==
  ASSUME NEW s \in Seq(Int), s # <<>>, clock \in Nat, clock - s[1] <= Minute
  PROVE  clock + Bucket!Retry(s) * Second \in Nat
<1>1. s[1] \in Int /\ Second \in Nat \ {0} /\ Minute \in Nat
  BY BucketConstants, EmptySeq, ElementOfSeq
<1>2. PICK x : x = s[1] + Minute - clock + Second - 1
  OBVIOUS
<1>3. x \in Nat
  BY <1>1, <1>2
<1>4. PICK q : q = x \div Second
  OBVIOUS
<1>5. q \in Nat
  BY <1>1, <1>3, <1>4, Quotient
<1>6. Bucket!Retry(s) = q
  BY <1>2, <1>4 DEF Bucket!Retry
<1>7. q * Second \in Nat
  BY <1>1, <1>5
<1> QED BY <1>6, <1>7

LEMMA RefuseTypes ==
  ASSUME BucketInv, BucketTypes, NEW c \in Client, NEW r \in Routes, Bucket!Refuse(c, r)
  PROVE  BucketTypes'
<1> DEFINE s == Bucket!Recent(calls[c])
           answer == [route |-> r, until |-> clock + Bucket!Retry(s) * Second,
                      over |-> Len(s) > LimitTo[r]]
<1>1. /\ s \in Seq(Int) /\ Len(s) \in Nat /\ Len(s) <= Len(calls[c])
      /\ s # <<>> => clock - s[1] <= Minute
  BY RecentFacts
<1>2. /\ calls' = [calls EXCEPT ![c] = s] /\ told' = [told EXCEPT ![c] = answer]
      /\ UNCHANGED <<clock, buckets>> /\ Bucket!Full(s, r)
  BY DEF Bucket!Refuse
<1>3. clock \in Nat /\ calls \in [Client -> Seq(Int)] /\ calls[c] \in Seq(Int)
  BY DEF BucketInv
<1> HIDE DEF s
<1>4. s # <<>> /\ calls[c] # <<>>
  <2>1. Len(s) >= LimitTo[r] /\ LimitTo[r] \in Nat /\ LimitTo[r] >= 1
    BY <1>2, BucketConstants DEF Bucket!Full
  <2>2. Len(s) >= 1 /\ Len(calls[c]) >= 1
    BY <1>1, <1>3, <2>1
  <2> QED BY <2>2
<1>5. answer \in Telling
  <2>1. clock + Bucket!Retry(s) * Second \in Nat
    BY <1>1, <1>3, <1>4, RetryIsTime
  <2>2. (Len(s) > LimitTo[r]) \in BOOLEAN /\ r \in Routes \cup {"none"}
    OBVIOUS
  <2> QED BY <2>1, <2>2, Zenon DEF Telling
<1> HIDE DEF answer
<1>6. told' \in [Client -> Telling]
  BY <1>2, <1>5 DEF BucketTypes
<1>7. \A d \in Client : calls'[d] # <<>> => calls[d] # <<>>
  BY <1>2, <1>3, <1>4
<1> QED BY <1>2, <1>6, <1>7, Zenon DEF BucketTypes

LEMMA AllowTypes ==
  ASSUME BucketInv, BucketTypes, NEW c \in Client, NEW r \in Routes, Bucket!Allow(c, r)
  PROVE  BucketTypes'
<1> DEFINE more == Append(Bucket!Recent(calls[c]), clock)
<1>1. PICK k : k = Bucket!Known(c)
  OBVIOUS
<1>2. /\ k \in Seq(Client) /\ Len(k) >= 1 /\ Len(k) \in Nat /\ Len(k) <= MaxBuckets + 1
      /\ \E i \in 1..Len(k) : k[i] = c
      /\ \A i \in 1..Len(buckets) : i \in 1..Len(k) /\ k[i] = buckets[i]
  BY <1>1, KnownTypes
<1>3. PICK grown : grown = [calls EXCEPT ![c] = more]
  OBVIOUS
<1>4. /\ calls' = (IF Len(k) > MaxBuckets THEN [grown EXCEPT ![k[1]] = <<>>] ELSE grown)
      /\ buckets' = (IF Len(k) > MaxBuckets THEN Tail(k) ELSE k)
      /\ told' = [told EXCEPT ![c] = Bucket!Nothing] /\ clock' = clock
  BY <1>1, <1>3 DEF Bucket!Allow
<1> HIDE DEF more
<1>5. DOMAIN calls = Client /\ DOMAIN grown = Client
      /\ \A d \in Client : d # c => grown[d] = calls[d]
  BY <1>3 DEF BucketInv
<1>6. told' \in [Client -> Telling]
  BY <1>4, NothingTold DEF BucketTypes
<1>7. \A d \in Client : grown[d] # <<>> => \E i \in 1..Len(k) : k[i] = d
  <2> SUFFICES ASSUME NEW d \in Client, grown[d] # <<>> PROVE \E i \in 1..Len(k) : k[i] = d
    OBVIOUS
  <2>1. CASE d = c
    BY <1>2, <2>1
  <2>2. CASE d # c
    <3>1. calls[d] # <<>>
      BY <1>5, <2>2
    <3>2. PICK i \in 1..Len(buckets) : buckets[i] = d
      BY <3>1 DEF BucketTypes
    <3> QED BY <1>2, <3>2
  <2> QED BY <2>1, <2>2
<1>8. MaxBuckets \in Nat
  BY BucketConstants
<1>9. CASE Len(k) > MaxBuckets
  <2>1. /\ Tail(k) \in Seq(Client) /\ Len(Tail(k)) = Len(k) - 1
        /\ \A i \in 1..(Len(k) - 1) : Tail(k)[i] = k[i + 1]
    BY <1>2
  <2>2. \A d \in Client : calls'[d] # <<>> => grown[d] # <<>> /\ d # k[1]
    BY <1>4, <1>5, <1>9
  <2>3. ASSUME NEW d \in Client, calls'[d] # <<>>
        PROVE  \E i \in 1..Len(buckets') : buckets'[i] = d
    <3>1. PICK i \in 1..Len(k) : k[i] = d
      BY <1>7, <2>2, <2>3
    <3>2. i # 1
      BY <2>2, <2>3, <3>1
    <3>3. i - 1 \in 1..(Len(k) - 1) /\ (i - 1) + 1 = i
      BY <1>2, <3>2
    <3>4. Tail(k)[i - 1] = d
      BY <2>1, <3>1, <3>3
    <3> QED BY <1>4, <1>9, <2>1, <3>3, <3>4
  <2>4. buckets' \in Seq(Client) /\ Len(buckets') <= MaxBuckets
    BY <1>2, <1>4, <1>8, <1>9, <2>1
  <2> QED BY <1>4, <1>6, <2>3, <2>4 DEF BucketTypes
<1>10. CASE ~(Len(k) > MaxBuckets)
  <2>1. calls' = grown /\ buckets' = k
    BY <1>4, <1>10
  <2>2. Len(buckets') <= MaxBuckets
    BY <1>2, <1>8, <1>10, <2>1
  <2> QED BY <1>2, <1>4, <1>6, <1>7, <2>1, <2>2 DEF BucketTypes
<1> QED BY <1>9, <1>10

LEMMA BucketTypeStart == Bucket!Init => BucketTypes
<1> SUFFICES ASSUME Bucket!Init PROVE BucketTypes
  OBVIOUS
<1>1. clock = 0 /\ buckets = <<>> /\ calls = [c \in Client |-> <<>>]
      /\ told = [c \in Client |-> Bucket!Nothing]
  BY DEF Bucket!Init
<1>2. clock \in 0..Horizon /\ Len(<<>>) <= MaxBuckets
  BY <1>1, BucketConstants
<1>3. told \in [Client -> Telling]
  BY <1>1, NothingTold
<1>4. \A c \in Client : calls[c] = <<>>
  BY <1>1
<1> QED BY <1>1, <1>2, <1>3, <1>4 DEF BucketTypes

LEMMA BucketTypeStep ==
  ASSUME BucketTypes, BucketInv, [Bucket!Next]_bucketVars
  PROVE  BucketTypes'
<1>1. CASE Bucket!Later
  <2>1. clock' \in 0..Horizon
    BY <1>1, BucketConstants DEF Bucket!Later, BucketTypes
  <2>2. UNCHANGED <<buckets, calls, told>>
    BY <1>1 DEF Bucket!Later
  <2> QED BY <2>1, <2>2 DEF BucketTypes
<1>2. ASSUME NEW c \in Client, NEW r \in Routes, Bucket!Allow(c, r) PROVE BucketTypes'
  BY <1>2, AllowTypes
<1>3. ASSUME NEW c \in Client, NEW r \in Routes, Bucket!Refuse(c, r) PROVE BucketTypes'
  BY <1>3, RefuseTypes
<1>4. CASE UNCHANGED bucketVars
  BY <1>4 DEF BucketTypes, bucketVars
<1> QED BY <1>1, <1>2, <1>3, <1>4, Zenon DEF Bucket!Next

LEMMA BucketIsTyped == BucketInv /\ BucketTypes => Bucket!TypeOK
<1> SUFFICES ASSUME BucketInv, BucketTypes PROVE Bucket!TypeOK
  OBVIOUS
<1>1. {buckets[i] : i \in DOMAIN buckets} \subseteq Client
  BY DEF BucketTypes
<1>2. DOMAIN buckets = 1..Len(buckets)
  BY DEF BucketTypes
<1> QED BY <1>1, <1>2, Zenon DEF BucketInv, BucketTypes, Bucket!TypeOK, Telling

\* No call, and no limits, are a request and limits.
LEMMA NoCallTyped == Route!NoCall \in Route!Request /\ Route!NoLimits \in Route!Limits
<1>1. Route!NoLimits \in Route!Limits
  BY DEF Route!NoLimits, Route!Limits, Route!Limit
<1>2. Route!NoLimits \in Route!Asked
  BY <1>1 DEF Route!NoLimits, Route!Asked
<1> QED BY <1>1, <1>2 DEF Route!NoCall, Route!Request, Route!ModelNames

LEMMA GatesTypeStart == Route!GatesInit => Route!GatesTypeOK
<1> SUFFICES ASSUME Route!GatesInit PROVE Route!GatesTypeOK
  OBVIOUS
<1>1. Route!NoCall \in Route!Request /\ Route!NoLimits \in Route!Limits
  BY NoCallTyped
<1> QED BY <1>1 DEF Route!GatesInit, Route!GatesTypeOK, Route!Outcome

LEMMA GatesTypeStep ==
  ASSUME Route!GatesTypeOK, [Route!GatesNext]_gatesVars
  PROVE  Route!GatesTypeOK'
<1>1. ASSUME NEW q \in Route!Request, Route!Receive(q) PROVE Route!GatesTypeOK'
  BY <1>1 DEF Route!GatesTypeOK, Route!Receive, Route!Outcome
<1>2. ASSUME NEW u \in Route!Users \cup {Route!Stranger}, Route!Query(u)
      PROVE Route!GatesTypeOK'
  <2>1. \A m, free : Route!DeepseekGate(m, free) \in {"vision", "model", "none"}
    BY DEF Route!DeepseekGate
  <2>2. \A p, v : Route!Exceeds(p, v) \in {"weekly", "daily", "monthly", "none"}
    BY DEF Route!Exceeds
  <2>3. Route!Budget(u) \in {"weekly", "daily", "monthly", "none"}
    BY <2>2 DEF Route!Budget
  <2>4. outcome' \in Route!Outcome /\ row' = u /\ UNCHANGED <<asks, forwarded>>
    BY <1>2, <2>1, <2>3 DEF Route!Query, Route!Outcome
  <2>5. handler' \in {"idle", "query", "upstream"}
    BY <1>2 DEF Route!Query
  <2> QED BY <2>4, <2>5 DEF Route!GatesTypeOK
<1>3. CASE Route!QueryFails
  BY <1>3 DEF Route!GatesTypeOK, Route!QueryFails, Route!Outcome
<1>4. CASE Route!Upstream
  <2>1. PICK l \in Route!Limits : l = asks.limits
    BY DEF Route!GatesTypeOK, Route!Request, Route!Asked
  <2>2. Route!OpenaiCompatBody(l) \in Route!Limits
    BY DEF Route!OpenaiCompatBody, Route!Limits, Route!Limit
  <2> QED BY <1>4, <2>1, <2>2 DEF Route!GatesTypeOK, Route!Upstream
<1>5. CASE Route!Answered
  <2>1. Route!NoCall \in Route!Request /\ Route!NoLimits \in Route!Limits
    BY NoCallTyped
  <2> QED BY <1>5, <2>1 DEF Route!Answered, Route!GatesTypeOK, Route!Outcome
<1>6. CASE UNCHANGED gatesVars
  BY <1>6 DEF Route!GatesTypeOK, gatesVars
<1> QED BY <1>1, <1>2, <1>3, <1>4, <1>5, <1>6, Zenon DEF Route!GatesNext

\* The lists kept, and the answers.
KeptList == [of : Route!Callers, age : 0..(ModelsTtl - 1)] \cup {Route!NoList}

RoutesTypes ==
  /\ behindHash \in BOOLEAN
  /\ backend \in {"up", "slow", "down", "failing", "unset"}
  /\ keptLists \in [Route!CacheKeys -> KeptList]
  /\ reply.status \in {0, 200, 500, 502, 503}

LEMMA RoutesTypeStart == Route!RoutesInit => RoutesTypes
<1> SUFFICES ASSUME Route!RoutesInit PROVE RoutesTypes
  OBVIOUS
<1>1. keptLists = [k \in Route!CacheKeys |-> Route!NoList]
  BY DEF Route!RoutesInit, Route!CacheKeys
<1>2. keptLists \in [Route!CacheKeys -> KeptList]
  BY <1>1 DEF KeptList
<1>3. reply.status = 0
  BY DEF Route!RoutesInit, Route!NoReply
<1> QED BY <1>2, <1>3 DEF Route!RoutesInit, RoutesTypes

LEMMA RoutesTypeStep ==
  ASSUME RoutesTypes, [Route!RoutesNext]_routesVars
  PROVE  RoutesTypes'
<1>0. ASSUME UNCHANGED <<behindHash, backend>>,
     keptLists' \in [Route!CacheKeys -> KeptList],
             reply'.status \in {0, 200, 500, 502, 503}
      PROVE  RoutesTypes'
  BY <1>0 DEF RoutesTypes, Route!CacheKeys, KeptList, Route!Callers, Route!NoList
<1>p. Route!ProxyTo \in {200, 500, 502, 503}
  BY DEF Route!ProxyTo
<1>1. ASSUME NEW c \in Route!Callers, Route!Models(c) PROVE RoutesTypes'
  <2>1. UNCHANGED <<behindHash, backend>>
    BY <1>1 DEF Route!Models
  <2>2. reply'.status \in {0, 200, 500, 502, 503}
    <3>1. CASE keptLists[Route!CacheKey(c)] # Route!NoList
      <4>1. reply'.status = 200
        BY <1>1, <3>1 DEF Route!Models, Route!NoReply
      <4> QED BY <4>1
    <3>2. CASE keptLists[Route!CacheKey(c)] = Route!NoList
      <4>1. reply'.status = Route!ProxyTo
        BY <1>1, <3>2 DEF Route!Models, Route!NoReply
      <4> QED BY <1>p, <4>1
    <3> QED BY <3>1, <3>2
  <2>3. PICK l : l = [of |-> c, age |-> 0]
    OBVIOUS
  <2>4. l \in KeptList
    <3>1. 0 \in 0..(ModelsTtl - 1)
      BY RouteConstants
    <3> QED BY <2>3, <3>1, Zenon DEF KeptList
  <2>5. keptLists' \in {keptLists, [keptLists EXCEPT ![Route!CacheKey(c)] = l]}
    BY <1>1, <2>3, Zenon DEF Route!Models
  <2>6. keptLists' \in [Route!CacheKeys -> KeptList]
    BY <2>4, <2>5 DEF RoutesTypes
  <2> QED BY <1>0, <2>1, <2>2, <2>6
<1>2. ASSUME NEW b \in {"up", "slow", "down", "failing", "unset"}, Route!BackendTurns(b)
      PROVE  RoutesTypes'
  BY <1>2 DEF Route!BackendTurns, RoutesTypes, Route!CacheKeys, KeptList, Route!Callers,
              Route!NoList
<1>3. CASE Route!Health
  <2>1. UNCHANGED <<behindHash, backend, keptLists>> /\ reply'.status = 200
    BY <1>3 DEF Route!Health, Route!NoReply
  <2> QED BY <1>0, <2>1 DEF RoutesTypes
<1>4. CASE Route!Fallback
  <2>1. UNCHANGED <<behindHash, backend, keptLists>> /\ reply'.status = Route!ProxyTo
    BY <1>4 DEF Route!Fallback, Route!NoReply
  <2> QED BY <1>0, <1>p, <2>1 DEF RoutesTypes
<1>5. CASE Route!Replied
  <2>1. UNCHANGED <<behindHash, backend, keptLists>> /\ reply'.status = 0
    BY <1>5 DEF Route!Replied, Route!NoReply
  <2> QED BY <1>0, <2>1 DEF RoutesTypes
<1>6. CASE Route!Ages
  <2>1. UNCHANGED <<behindHash, backend, reply>>
        /\ keptLists' = [k \in Route!CacheKeys |->
             IF keptLists[k] # Route!NoList /\ keptLists[k].age < ModelsTtl - 1
             THEN [keptLists[k] EXCEPT !.age = @ + 1] ELSE Route!NoList]
    BY <1>6, Zenon DEF Route!Ages
  <2>2. ASSUME NEW k \in Route!CacheKeys, keptLists[k] # Route!NoList,
               keptLists[k].age < ModelsTtl - 1
        PROVE  [keptLists[k] EXCEPT !.age = @ + 1] \in KeptList
    <3>1. PICK l \in [of : Route!Callers, age : 0..(ModelsTtl - 1)] : l = keptLists[k]
      BY <2>2 DEF RoutesTypes, KeptList
    <3>2. PICK n : n = l.age + 1
      OBVIOUS
    <3>3. n \in 0..(ModelsTtl - 1)
      BY <2>2, <3>1, <3>2, RouteConstants
    <3>4. [l EXCEPT !.age = n] \in [of : Route!Callers, age : 0..(ModelsTtl - 1)]
      BY <3>3, Zenon
    <3>5. [keptLists[k] EXCEPT !.age = @ + 1] = [l EXCEPT !.age = n]
      BY <3>1, <3>2
    <3> QED BY <3>4, <3>5 DEF KeptList
  <2>3. Route!NoList \in KeptList
    BY DEF KeptList
  <2>4. keptLists' \in [Route!CacheKeys -> KeptList]
    BY <2>1, <2>2, <2>3
  <2> QED BY <1>0, <2>1, <2>4 DEF RoutesTypes
<1>7. CASE UNCHANGED routesVars
  <2>1. UNCHANGED <<behindHash, backend, keptLists, reply>>
    BY <1>7 DEF routesVars
  <2> QED BY <1>0, <2>1 DEF RoutesTypes
<1> QED BY <1>1, <1>2, <1>3, <1>4, <1>5, <1>6, <1>7, Zenon DEF Route!RoutesNext

LEMMA RoutesAreTyped == RoutesTypes => Route!RoutesTypeOK
BY DEF RoutesTypes, KeptList, Route!RoutesTypeOK

LEMMA FiguresTypeStart == Report!FiguresInit => Report!FiguresTypeOK
BY DEF Report!FiguresInit, Report!FiguresTypeOK, Report!NoPunchcard

LEMMA FiguresTypeStep ==
  ASSUME Report!FiguresTypeOK, [Report!Arrives]_figuresVars
  PROVE  Report!FiguresTypeOK'
<1>1. usage' = usage \/ usage' \in DataRows
  BY DEF Report!Arrives, figuresVars
<1>2. punchcard' = punchcard \/ punchcard' \in [Cells -> DayCounts]
  BY DEF Report!Arrives, figuresVars
<1>3. quota' = quota \/ quota' \in Quotas
  BY DEF Report!Arrives, figuresVars
<1>4. punchcard' \in [Cells -> DayCounts \cup {0}]
  BY <1>2 DEF Report!FiguresTypeOK
<1> QED BY <1>1, <1>3, <1>4 DEF Report!FiguresTypeOK

\* The timers of the ticks.
ModelsTypes == Catalogue!TypeOK /\ IsFiniteSet(marks)

LEMMA ModelsCardinality == ASSUME NEW S PROVE Catalogue!Cardinality(S) = Cardinality(S)
BY Zenon DEF Catalogue!Cardinality, Cardinality

LEMMA ModelsTypeStart == Catalogue!Init => ModelsTypes
<1>1. IsFiniteSet({})
  BY FS_EmptySet
<1> QED BY <1>1 DEF Catalogue!Init, ModelsTypes, Catalogue!TypeOK

LEMMA ModelsTypeStep ==
  ASSUME ModelsTypes, [Catalogue!Next]_modelsVars
  PROVE  ModelsTypes'
<1>1. ASSUME NEW f \in {"all", "free", "paid"}, Catalogue!SetFilter(f) PROVE ModelsTypes'
  BY <1>1 DEF ModelsTypes, Catalogue!TypeOK, Catalogue!SetFilter
<1>2. ASSUME NEW m \in Catalogue!Models, NEW ok \in BOOLEAN, Catalogue!Copy(m, ok)
      PROVE ModelsTypes'
  <2>1. Cardinality(marks) < MaxMarks /\ MaxMarks \in Nat
    BY <1>2, ModelsCardinality, BoundsFacts DEF Catalogue!Copy
  <2>2. PICK n \in 1..MaxMarks : n = Free(marks, MaxMarks)
    BY <2>1, FreeIs DEF ModelsTypes
  <2>3. PICK new : new = [n |-> n, of |-> m]
    OBVIOUS
  <2>4. marks' = marks \cup {new}
    BY <1>2, <2>2, <2>3, Zenon DEF Catalogue!Copy, Free
  <2>5. new \in [n : 1..MaxMarks, of : Catalogue!Models]
    BY <2>3
  <2>6. IsFiniteSet(marks')
    BY <2>4, FiniteStays DEF ModelsTypes
  <2>7. UNCHANGED filter /\ {copied', pasted'} \subseteq Catalogue!Models \cup {NoModel}
    BY <1>2 DEF Catalogue!Copy, ModelsTypes, Catalogue!TypeOK
  <2>8. kept' \in BOOLEAN
    BY <1>2 DEF Catalogue!Copy, ModelsTypes, Catalogue!TypeOK
  <2> QED BY <2>4, <2>5, <2>6, <2>7, <2>8 DEF ModelsTypes, Catalogue!TypeOK,
       Catalogue!Models
<1>3. ASSUME NEW k \in marks, Catalogue!MarkEnds(k) PROVE ModelsTypes'
  <2>1. IsFiniteSet(marks')
    BY <1>3, FiniteStays DEF Catalogue!MarkEnds, ModelsTypes
  <2> QED BY <1>3, <2>1 DEF Catalogue!MarkEnds, ModelsTypes, Catalogue!TypeOK
<1>4. CASE UNCHANGED modelsVars
  BY <1>4 DEF ModelsTypes, Catalogue!TypeOK, modelsVars
<1> QED BY <1>1, <1>2, <1>3, <1>4, Zenon DEF Catalogue!Next

LEMMA WelcomeTypeStart == Arrival!Init => Arrival!TypeOK
<1> SUFFICES ASSUME Arrival!Init PROVE Arrival!TypeOK
  OBVIOUS
<1>1. visitor \in Arrival!Visitor
  BY DEF Arrival!Init, Arrival!Blank, Arrival!Visitor
<1>2. at = "welcome" /\ membersUrl = FALSE /\ planDialog = FALSE /\ health = "pending"
  BY DEF Arrival!Init, Arrival!Fresh
<1> QED BY <1>1, <1>2 DEF Arrival!TypeOK

LEMMA WelcomeTypeStep ==
  ASSUME Arrival!TypeOK, [Arrival!Next]_welcomeVars
  PROVE  Arrival!TypeOK'
<1>1. ASSUME NEW who \in Arrival!Visitor, who.is = "user" \/ who = Arrival!Blank("nobody"),
             Arrival!MeAnswers(who)
      PROVE Arrival!TypeOK'
  BY <1>1 DEF Arrival!TypeOK, Arrival!MeAnswers
<1>2. ASSUME NEW url \in BOOLEAN, NEW how \in {"answered", "failed"},
             Arrival!HealthEnds(how, url)
      PROVE Arrival!TypeOK'
  BY <1>2 DEF Arrival!TypeOK, Arrival!HealthEnds
<1>3. CASE Arrival!Leave
  BY <1>3 DEF Arrival!TypeOK, Arrival!Leave
<1>4. CASE Arrival!SwitchPlanDialog
  BY <1>4 DEF Arrival!TypeOK, Arrival!SwitchPlanDialog
<1>5. CASE Arrival!Revisit
  BY <1>5 DEF Arrival!TypeOK, Arrival!Revisit, Arrival!Blank, Arrival!Visitor
<1>6. CASE UNCHANGED welcomeVars
  BY <1>6 DEF Arrival!TypeOK, welcomeVars
<1> QED BY <1>1, <1>2, <1>3, <1>4, <1>5, <1>6, Zenon DEF Arrival!Next

\* What is chosen, marked and copied; the key is one of those there are.
SampleTypes ==
  /\ site \in {"docs", "landing"} /\ tab \in Sample!Tabs /\ ownKeys \in KeyLists
  /\ listing \in {"pending", "answered", "failed"}
  /\ chosen \in SampleModels /\ tickedModel \in Sample!Marked
  /\ apiKey \in Sample!Texts \cup {Sample!NoText}
  /\ pastebin \in Sample!Request \cup {Sample!Nothing}
                    \cup {Sample!Name(m) : m \in SampleModels}
  /\ {sampleTicked, changed} \subseteq BOOLEAN
  /\ tickTimers \in 0..MaxTicks /\ modelTimers \in 0..MaxTicks

LEMMA VisitorListsKept ==
  /\ \A s : Sample!VisitorLists(s) \subseteq KeyLists
  /\ KeyLists \subseteq Seq([active : BOOLEAN, text : STRING])
  /\ FirstModel \in SampleModels
  /\ \A s : Sample!FirstListing(s) \in {"pending", "answered", "failed"}
  /\ "cURL" \in Sample!Embeds /\ 0 \in 0..MaxTicks
<1>1. 0 \in 0..MaxTicks
  BY BoundsFacts
<1> QED BY <1>1, PartsAssumption
        DEF Sample!SampleAssumption, Sample!VisitorLists, Sample!FirstListing, Sample!Embeds

LEMMA SampleTypeStart == Sample!Init => SampleTypes
BY VisitorListsKept, Zenon DEF Sample!Init, SampleTypes, Sample!Tabs, Sample!Marked, Sample!NoText

\* A sample is a request.
LEMMA SampleIsRequest ==
  ASSUME SampleTypes, SampleInv
  PROVE  Sample!CopyText \in Sample!Request
<1>1. Sample!Bearer \in Sample!Bearers
  BY DEF SampleTypes, Sample!Bearer, Sample!Bearers
<1>2. Sample!DisplayCode \in Sample!Request
  BY <1>1 DEF SampleTypes, Sample!DisplayCode, Sample!Request
<1> QED BY <1>2, CopiesDisplay

LEMMA SampleTypeStep ==
  ASSUME SampleTypes, SampleInv, [Sample!Next]_sampleVars
  PROVE  SampleTypes'
<1>1. ASSUME NEW t \in Sample!Tabs, Sample!SetActiveTab(t) PROVE SampleTypes'
  BY <1>1 DEF SampleTypes, Sample!Tabs, Sample!SetActiveTab
<1>2. ASSUME NEW how \in {"answered", "failed"}, Sample!ListKeys(how) PROVE SampleTypes'
  <2>1. /\ listing' = how /\ changed' \in BOOLEAN
        /\ UNCHANGED <<site, ownKeys, tab, chosen, pastebin, sampleTicked, tickTimers,
                       tickedModel, modelTimers>>
    BY <1>2 DEF Sample!ListKeys, SampleTypes
  <2>2. apiKey' \in Sample!Texts \cup {Sample!NoText}
    <3>1. CASE how = "answered" /\ ownKeys # <<>>
      <4>1. ownKeys \in Seq([active : BOOLEAN, text : STRING]) /\ ownKeys \in KeyLists
        BY VisitorListsKept DEF SampleTypes
      <4>2. Sample!Found(ownKeys) \in DOMAIN ownKeys
        BY <3>1, <4>1, FoundIsActive
      <4>3. apiKey' = ownKeys[Sample!Found(ownKeys)].text
        BY <1>2, <3>1 DEF Sample!ListKeys
      <4>4. apiKey' \in Sample!Texts
        <5>1. apiKey' \in {ownKeys[i].text : i \in DOMAIN ownKeys}
          BY <4>2, <4>3
        <5> QED BY <4>1, <5>1, Zenon DEF Sample!Texts
      <4> QED BY <4>4
    <3>2. CASE ~(how = "answered" /\ ownKeys # <<>>)
      BY <1>2, <3>2 DEF Sample!ListKeys, SampleTypes
    <3> QED BY <3>1, <3>2
  <2> QED BY <2>1, <2>2 DEF SampleTypes, Sample!Tabs
<1>3. ASSUME NEW m \in SampleModels, Sample!SetSelectedModel(m) PROVE SampleTypes'
  BY <1>3 DEF SampleTypes, Sample!Tabs, Sample!SetSelectedModel
<1>4. ASSUME NEW ok \in BOOLEAN, Sample!HandleCopy(ok) PROVE SampleTypes'
  <2>1. /\ sampleTicked' = TRUE /\ changed' \in BOOLEAN /\ tickTimers' \in 0..MaxTicks
        /\ UNCHANGED <<site, ownKeys, listing, tab, chosen, apiKey, tickedModel,
             modelTimers>>
    BY <1>4, BoundsFacts DEF Sample!HandleCopy, SampleTypes
  <2>2. pastebin' \in {pastebin, Sample!CopyText}
    BY <1>4 DEF Sample!HandleCopy
  <2> QED BY <2>1, <2>2, SampleIsRequest DEF SampleTypes, Sample!Tabs
<1>5. ASSUME NEW m \in SampleModels, NEW ok \in BOOLEAN, Sample!HandleCopyModel(m, ok)
      PROVE SampleTypes'
  <2>1. /\ tickedModel' = m /\ changed' \in BOOLEAN /\ modelTimers' \in 0..MaxTicks
        /\ UNCHANGED <<site, ownKeys, listing, tab, chosen, apiKey, sampleTicked,
             tickTimers>>
    BY <1>5, BoundsFacts DEF Sample!HandleCopyModel, SampleTypes
  <2>2. pastebin' \in {pastebin, Sample!Name(m)}
    BY <1>5 DEF Sample!HandleCopyModel
  <2> QED BY <2>1, <2>2 DEF SampleTypes, Sample!Tabs, Sample!Marked
<1>6. CASE Sample!CopyResponses
  <2>1. PICK q : q = [host |-> "base", model |-> FirstModel, key |-> "placeholder"]
    OBVIOUS
  <2>2. q \in Sample!Request
    BY <2>1, VisitorListsKept DEF Sample!Request, Sample!Bearers
  <2>3. /\ pastebin' = q /\ changed' = TRUE
        /\ UNCHANGED <<site, ownKeys, listing, tab, chosen, apiKey, sampleTicked,
             tickTimers,
                       tickedModel, modelTimers>>
    BY <1>6, <2>1 DEF Sample!CopyResponses, Sample!CopyFixed
  <2> QED BY <2>2, <2>3 DEF SampleTypes, Sample!Tabs
<1>7. CASE Sample!CopyImage
  <2>1. PICK q : q = [host |-> "base", model |-> Sample!ImageModel, key |-> "placeholder"]
    OBVIOUS
  <2>2. q \in Sample!Request
    BY <2>1, VisitorListsKept DEF Sample!Request, Sample!Bearers
  <2>3. /\ pastebin' = q /\ changed' = TRUE
        /\ UNCHANGED <<site, ownKeys, listing, tab, chosen, apiKey, sampleTicked,
             tickTimers,
                       tickedModel, modelTimers>>
    BY <1>7, <2>1 DEF Sample!CopyImage, Sample!CopyFixed
  <2> QED BY <2>2, <2>3 DEF SampleTypes, Sample!Tabs
<1>8. CASE Sample!TickEnds
  <2>1. tickTimers' \in 0..MaxTicks
    BY <1>8, BoundsFacts DEF Sample!TickEnds, SampleTypes
  <2>2. /\ sampleTicked' = FALSE
        /\ UNCHANGED <<site, ownKeys, listing, tab, chosen, apiKey, pastebin, tickedModel,
                       modelTimers, changed>>
    BY <1>8 DEF Sample!TickEnds
  <2> QED BY <2>1, <2>2 DEF SampleTypes, Sample!Tabs
<1>9. CASE Sample!ModelTickEnds
  BY <1>9, BoundsFacts DEF Sample!ModelTickEnds, SampleTypes, Sample!Tabs, Sample!Marked
<1>10. CASE Sample!Remount
  BY <1>10, VisitorListsKept DEF Sample!Remount, SampleTypes, Sample!Tabs, Sample!Marked
<1>11. CASE UNCHANGED sampleVars
  BY <1>11 DEF SampleTypes, Sample!Tabs, sampleVars
<1> QED BY <1>1, <1>2, <1>3, <1>4, <1>5, <1>6, <1>7, <1>8, <1>9, <1>10, <1>11,
     Zenon DEF Sample!Next

LEMMA SampleIsTyped == SampleTypes => Sample!TypeOK
BY DEF SampleTypes, Sample!TypeOK

\* What is invariant of the parts above, for their types.
DisplayTypes ==
  /\ ReportTypes /\ ZoomTypes
  /\ ConsoleInv /\ ConsoleTypes /\ FrameInv /\ FrameTypes /\ NewsTypes /\ NewsInv
  /\ TurnsInv /\ TurnsTypes /\ BucketInv /\ ToldInv /\ BucketTypes
  /\ Route!GatesTypeOK /\ RoutesTypes /\ Report!FiguresTypeOK /\ ModelsTypes
  /\ Arrival!TypeOK /\ SampleInv /\ SampleTypes

LEMMA DisplayTypeStart == Init => DisplayTypes
<1> SUFFICES ASSUME Init PROVE DisplayTypes
  OBVIOUS
<1>1. /\ Report!Init /\ Zoom!Init
      /\ Console!Init /\ Frame!Init /\ News!Init /\ Turns!Init /\ Bucket!Init
      /\ Route!GatesInit /\ Route!RoutesInit /\ Report!FiguresInit /\ Catalogue!Init
      /\ Arrival!Init /\ Sample!Init
  BY Zenon DEF Init
<1>2. ReportTypes /\ ZoomTypes
  BY <1>1, ReportTypeStart, ZoomTypeStart, Zenon
<1>3. ConsoleInv /\ ConsoleTypes /\ FrameInv /\ FrameTypes /\ NewsTypes /\ NewsInv
  BY <1>1, ConsoleStart, ConsoleTypeStart, FrameStart, FrameTypeStart, NewsTypeStart,
     NewsStart, Zenon
<1>4. TurnsInv /\ TurnsTypes /\ BucketInv /\ ToldInv /\ BucketTypes
  BY <1>1, TurnsStart, TurnsTypeStart, BucketStart, BucketTypeStart, Zenon
<1>5. /\ Route!GatesTypeOK /\ RoutesTypes /\ Report!FiguresTypeOK /\ ModelsTypes
      /\ Arrival!TypeOK /\ SampleInv /\ SampleTypes
  BY <1>1, GatesTypeStart, RoutesTypeStart, FiguresTypeStart, ModelsTypeStart,
     WelcomeTypeStart, SampleStart, SampleTypeStart, Zenon
<1> QED BY <1>2, <1>3, <1>4, <1>5, Zenon DEF DisplayTypes

LEMMA DisplayTypeStep == ASSUME DisplayTypes, [Next]_vars PROVE DisplayTypes'
<1>1. ReportTypes' /\ ZoomTypes'
  BY ReportAlone, ReportTypeStep, ZoomAlone, ZoomTypeStep, Zenon DEF DisplayTypes
<1>2. ConsoleInv' /\ ConsoleTypes' /\ FrameInv' /\ FrameTypes' /\ NewsTypes' /\ NewsInv'
  BY ConsoleAlone, ConsoleStep, ConsoleTypeStep, FrameAlone, FrameStep, FrameTypeStep,
     NewsAlone, NewsStep, NewsTypeStep, Zenon DEF DisplayTypes
<1>3. TurnsInv' /\ TurnsTypes' /\ BucketInv' /\ ToldInv' /\ BucketTypes'
  BY TurnsAlone, TurnsStep, TurnsTypeStep, BucketAlone, BucketStep, BucketTypeStep, Zenon
     DEF DisplayTypes
<1>4. Route!GatesTypeOK' /\ RoutesTypes' /\ Report!FiguresTypeOK' /\ ModelsTypes'
  BY GatesAlone, GatesTypeStep, RoutesAlone, RoutesTypeStep, FiguresAlone, FiguresTypeStep,
     ModelsAlone, ModelsTypeStep, Zenon DEF DisplayTypes
<1>5. Arrival!TypeOK' /\ SampleInv' /\ SampleTypes'
  BY WelcomeAlone, WelcomeTypeStep, SampleAlone, SampleStep, SampleTypeStep, Zenon
     DEF DisplayTypes
<1> QED BY <1>1, <1>2, <1>3, <1>4, <1>5, Zenon DEF DisplayTypes

LEMMA DisplayIsTyped ==
  ASSUME DisplayTypes
  PROVE  /\ Report!TypeOK /\ Zoom!TypeOK /\ Console!TypeOK /\ Frame!TypeOK /\ News!TypeOK
         /\ Turns!TypeOK /\ Bucket!TypeOK /\ Route!GatesTypeOK /\ Route!RoutesTypeOK
         /\ Report!FiguresTypeOK /\ Catalogue!TypeOK /\ Arrival!TypeOK /\ Sample!TypeOK
<1>1. Report!TypeOK /\ Zoom!TypeOK
  BY DEF DisplayTypes, ReportTypes, ZoomTypes
<1>2. Console!TypeOK /\ Frame!TypeOK /\ News!TypeOK
  BY ConsoleIsTyped, FrameIsTyped, NewsIsTyped DEF DisplayTypes
<1>3. Turns!TypeOK /\ Bucket!TypeOK /\ Route!RoutesTypeOK /\ Sample!TypeOK
  BY TurnsAreTyped, BucketIsTyped, RoutesAreTyped, SampleIsTyped DEF DisplayTypes
<1>4. Route!GatesTypeOK /\ Report!FiguresTypeOK /\ Catalogue!TypeOK /\ Arrival!TypeOK
  BY DEF DisplayTypes, ModelsTypes
<1> QED BY <1>1, <1>2, <1>3, <1>4

LEMMA MountedStays == mounted \in Part /\ [Next]_vars => mounted' \in Part
BY Zenon DEF Next, Alone, TheRestStays, vars

-----------------------------------------------------------------------------
(* In every behaviour each part of the pages holds what its module says and *)
(* stays within its bounds: no more requests, messages, timers or calls     *)
(* than there are numbers for, no address, key, text or list but those      *)
(* there are (all the modules that DashboardPages composes).                *)
THEOREM AlwaysTyped == Spec => []TypeOK
<1> DEFINE Inv == mounted \in Part /\ PagesTypes /\ DisplayTypes
<1>1. Init => Inv
  <2>1. Init => mounted \in Part
    BY Zenon DEF Init
  <2> QED BY <2>1, PagesTypeStart, DisplayTypeStart, Zenon
<1>2. Inv /\ [Next]_vars => Inv'
  BY MountedStays, PagesTypeStep, DisplayTypeStep, Zenon
<1>3. Inv => TypeOK
  BY PagesAreTyped, DisplayIsTyped, Zenon DEF TypeOK, Of
<1> HIDE DEF Inv
<1> QED BY <1>1, <1>2, <1>3, PTL DEF Spec
=============================================================================
