--------------------------- MODULE DashboardPages ---------------------------
(***************************************************************************)
(* The pages and dialogs of the dashboard and parts of the Worker in front *)
(* of it, one at a time.  The parts share no state, so what two of them    *)
(* do at once is what each does alone: a behaviour mounts one part, chosen *)
(* at the start, and the others stay as they begin.  The chat page         *)
(* and the calls through the edge, which do share state, are in ChatPage   *)
(* and EdgeCall.                                                           *)
(***************************************************************************)
EXTENDS Integers, FiniteSets

VARIABLE mounted

CONSTANTS KeyId, NoKey, Held, MaxListings,
          Owners, Others, Nobody, MaxMeCalls,
          Days, Empty, FirstDays, NoReport, MaxReports,
          Notches, MaxRows,
          Person, Ranges, FirstRange, MaxQueries,
          Text, Chat, Image,
          StoredMessage, OlderMarks, NewerMarks, MaxReactions,
          Member, MaxPayments, MaxFetches,
          Ttl, Latency, ServerTtl,
          Endpoints, LogLimit, MaxSweeps, MaxProbes, MaxTimers,
          Category,
          Links, AdminLinks, Widths, MobileWidths,
          CardCount, SettleTime, Interval, Autoplay, OpeningTime,
          MaxChunks, MaxMessages, MaxBranches,
          Kinds, Efforts, FirstEffort, Presets, FirstPreset, MaxTurnMessages,
          Client, Routes, LimitTo, Minute, Second, MaxBuckets, Horizon,
          Stories, Prompt,
          Budgets, Used,
          DataRows, Cells, DayCounts, Quotas,
          FreeModels, PaidModels, NoModel, MaxMarks,
          Zones, Expirations, FirstExpiration, MaxHour,
          Sessions, ApiKeys, Nowhere, ModelsTtl,
          Chats, FirstChats, MaxLists,
          MaxReads,
          SampleModels, FirstModel, ServerTabs, KeyLists, MaxTicks

VARIABLES issued, keyRows, keysLoading, newKey, creating, naming, revokeTarget,
          backedUp, listings, creations, revocations, ticked,
          keysApart
keysVars == <<issued, keyRows, keysLoading, newKey, creating, naming,
              revokeTarget, backedUp, listings, creations, revocations, ticked,
              keysApart>>
Keys == INSTANCE KeysPage WITH rows <- keyRows, loading <- keysLoading,
                               apart <- keysApart, Key <- KeyId

VARIABLES token, user, authLoading, meCalls, place, arrived, consent, away,
          failed, left
authVars == <<token, user, authLoading, meCalls, place, arrived, consent, away,
              failed, left>>
Auth == INSTANCE Session WITH calls <- meCalls, MaxCalls <- MaxMeCalls

VARIABLES screen, days, reportRows, reportLoading, refreshing, problem,
          reportCalls, reportsCrossed, missed
reportVars == <<screen, days, reportRows, reportLoading, refreshing, problem,
                reportCalls, reportsCrossed, missed>>
VARIABLES usage, punchcard, quota
figuresVars == <<usage, punchcard, quota>>

Report == INSTANCE Reports WITH rows <- reportRows, loading <- reportLoading,
                                calls <- reportCalls, crossed <- reportsCrossed,
                                MaxCalls <- MaxReports, Counts <- DayCounts

VARIABLES hook, total, drawn, listening, zoomRange, drag
zoomVars == <<hook, total, drawn, listening, zoomRange, drag>>
Zoom == INSTANCE ChartZoom

VARIABLES status, pageLoading, pageRefreshing, pageErr, polls, selectedUser,
          usageDays, userUsage, usageLoading, usageErr, queries, mixed
adminVars == <<status, pageLoading, pageRefreshing, pageErr, polls,
               selectedUser, usageDays, userUsage, usageLoading, usageErr,
               queries, mixed>>
Admin == INSTANCE AdminPage WITH Range <- Ranges

VARIABLES input, pendingText, confirm, model, models, freeTier, exceeded,
          imageGen, webSearch, askFirst, working, sent, moved
composerVars == <<input, pendingText, confirm, model, models, freeTier,
                  exceeded, imageGen, webSearch, askFirst, working, sent,
                  moved>>
Compose == INSTANCE Composer

VARIABLES stored, shown, mark, requests, marksApart
reactionsVars == <<stored, shown, mark, requests, marksApart>>
React == INSTANCE Reactions WITH apart <- marksApart, Message <- StoredMessage,
                                 Older <- OlderMarks, Newer <- NewerMarks

VARIABLES cancelled, upgradeOpen, sub, upgradeNotice, cancelCall, subFetches,
          checkout, checkouts, loads, loaded, joining, subCrossed
upgradeVars == <<cancelled, upgradeOpen, sub, upgradeNotice, cancelCall,
                 subFetches, checkout, checkouts, loads, loaded, joining,
                 subCrossed>>
Upgrade == INSTANCE UpgradeDialog WITH open <- upgradeOpen,
                                       notice <- upgradeNotice,
                                       fetches <- subFetches,
                                       crossed <- subCrossed

VARIABLES members, membersOpen, ids, count, membersNotice, text, levelsText,
          write, memberFetches, membersCrossed, membersUnheard
membersVars == <<members, membersOpen, ids, count, membersNotice, text,
                 levelsText, write, memberFetches, membersCrossed, membersUnheard>>
Members == INSTANCE MembersDialog WITH open <- membersOpen,
                                       notice <- membersNotice,
                                       fetches <- memberFetches,
                                       crossed <- membersCrossed,
                                       unheard <- membersUnheard

VARIABLES paid, paymentsOpen, payments, paymentsLoading, error, paymentFetches,
          due, paymentsCrossed
paymentsVars == <<paid, paymentsOpen, payments, paymentsLoading, error,
                  paymentFetches, due, paymentsCrossed>>
Payments == INSTANCE PaymentsDialog WITH open <- paymentsOpen,
                                         loading <- paymentsLoading,
                                         fetches <- paymentFetches,
                                         crossed <- paymentsCrossed

VARIABLES cache, shared, forced, viewer, heard, shownLimits, countdown, newest,
          overlapped, lost
limitsVars == <<cache, shared, forced, viewer, heard, shownLimits, countdown,
                newest, overlapped, lost>>
Limits == INSTANCE LimitsCache

VARIABLES onConsole, logs, busy, auto, down, edgeDown, timers, sweeps, probes,
          deserted
consoleVars == <<onConsole, logs, busy, auto, down, edgeDown, timers, sweeps,
                 probes, deserted>>
Console == INSTANCE ConsolePage

VARIABLES cookie, showBanner, preferencesOpen, prefs, decided, edited, foreign
cookiesVars == <<cookie, showBanner, preferencesOpen, prefs, decided, edited,
                 foreign>>
Cookies == INSTANCE CookieConsent

VARIABLES maxFit, account, path, opened, visibleCount
frameVars == <<maxFit, account, path, opened, visibleCount>>
Frame == INSTANCE Navigation

VARIABLES seen, hasNew, newsOpen, popup, currentIndex, paused, settling,
          sinceScroll, progress, reduced
newsVars == <<seen, hasNew, newsOpen, popup, currentIndex, paused, settling,
              sinceScroll, progress, reduced>>
News == INSTANCE CardStack WITH Cards <- CardCount, Settle <- SettleTime,
                                Opening <- OpeningTime

VARIABLES signedIn, thread, branches, editing, run, held
plainVars == <<signedIn, thread, branches, editing, run, held>>
Plain == INSTANCE PlainChat

VARIABLES dialogue, attached, thinking, effort, maxTokens, phase, request,
          refused, archive
turnsVars == <<dialogue, attached, thinking, effort, maxTokens, phase, request,
               refused, archive>>
Turns == INSTANCE TurnContent

VARIABLES clock, buckets, calls, told, served, forgot
bucketVars == <<clock, buckets, calls, told, served, forgot>>
Bucket == INSTANCE WorkerLimiter

VARIABLES story, buf, arrivedTo, tokens, letters, garbled, hasKey, entry,
          ledger
meterVars == <<story, buf, arrivedTo, tokens, letters, garbled, hasKey, entry,
               ledger>>
Meter == INSTANCE WorkerMeter

VARIABLES handler, asks, row, outcome, forwarded
gatesVars == <<handler, asks, row, outcome, forwarded>>

VARIABLES filter, copied, pasted, marks, kept
modelsVars == <<filter, copied, pasted, marks, kept>>
Catalogue == INSTANCE ModelsList

VARIABLES zone, hour, expirationDays, keyRow, listedRow, revealed, copiedMark,
          clipboard, denied
rowsVars == <<zone, hour, expirationDays, keyRow, listedRow, revealed,
              copiedMark, clipboard, denied>>
Rows == INSTANCE KeyRows

VARIABLES visitor, membersUrl, health, planDialog, at
welcomeVars == <<visitor, membersUrl, health, planDialog, at>>
Arrival == INSTANCE WelcomePage

VARIABLES behindHash, backend, keptLists, reply
routesVars == <<behindHash, backend, keptLists, reply>>
Route == INSTANCE WorkerRoutes

VARIABLES keptChats, conversations, listCalls, saving, removing, listsCrossed,
          listLost
sidebarVars == <<keptChats, conversations, listCalls, saving, removing,
                 listsCrossed, listLost>>
Sidebar == INSTANCE SidebarList

VARIABLES legalPage, legalLang, legalStore, mdText, reads, asked, shownRead
legalVars == <<legalPage, legalLang, legalStore, mdText, reads, asked,
               shownRead>>
Legal == INSTANCE LegalPage

VARIABLES site, ownKeys, listing, tab, chosen, apiKey, pastebin, sampleTicked,
          tickTimers, tickedModel, modelTimers, changed
sampleVars == <<site, ownKeys, listing, tab, chosen, apiKey, pastebin,
                sampleTicked, tickTimers, tickedModel, modelTimers, changed>>
Sample == INSTANCE SampleCode WITH ticked <- sampleTicked

\* The parts' assumptions about their constants.
ASSUME PartsAssumption ==
  /\ Keys!KeyAssumption /\ Auth!AccountAssumption /\ Report!DaysAssumption
  /\ Zoom!ZoomAssumption /\ Admin!AdminAssumption /\ Compose!TextAssumption
  /\ React!MessageAssumption /\ Limits!TimeAssumption /\ Frame!WidthAssumption
  /\ Frame!LinkAssumption /\ Console!LogAssumption
  /\ Cookies!CategoryAssumption
  /\ News!CardAssumption /\ Catalogue!ModelsAssumption
  /\ Rows!ExpirationAssumption /\ Route!CallerAssumption
  /\ Sidebar!ChatsAssumption /\ Sample!SampleAssumption
  /\ Bucket!BucketAssumption /\ Meter!MeterAssumption
  /\ Report!FiguresAssumption

\* The bounds leave room for a request of each kind, a sign-in for two of
\* me(), and the clock of the keys for the longest expiry; a chat begins with
\* settings one can choose.
ASSUME BoundsAssumption ==
  /\ {MaxMeCalls, MaxQueries, MaxLists, MaxReports, MaxReactions, MaxFetches,
      MaxReads, Endpoints} \subseteq Nat \ {0}
  /\ {MaxPayments, MaxHour, MaxMessages, MaxBranches, MaxChunks, MaxTurnMessages,
      MaxMarks, MaxTicks, MaxSweeps, MaxProbes, MaxTimers} \subseteq Nat
  /\ MaxMeCalls > 1 /\ \A d \in Expirations : d <= MaxHour
  /\ FirstEffort \in Efforts /\ FirstPreset \in Presets
  /\ IsFiniteSet(Member)

Part == {"keys", "auth", "report", "zoom", "admin", "composer", "reactions",
         "upgrade", "members", "payments", "limits", "console", "cookies",
         "frame", "news", "plain", "turns", "bucket", "meter", "gates",
         "figures", "models", "rows", "welcome", "routes", "sidebar",
         "legal", "sample"}

\* What the other parts do while p is mounted.
TheRestStays(p) ==
  /\ UNCHANGED mounted
  /\ IF p = "keys" THEN TRUE ELSE UNCHANGED keysVars
  /\ IF p = "auth" THEN TRUE ELSE UNCHANGED authVars
  /\ IF p = "report" THEN TRUE ELSE UNCHANGED reportVars
  /\ IF p = "zoom" THEN TRUE ELSE UNCHANGED zoomVars
  /\ IF p = "admin" THEN TRUE ELSE UNCHANGED adminVars
  /\ IF p = "composer" THEN TRUE ELSE UNCHANGED composerVars
  /\ IF p = "reactions" THEN TRUE ELSE UNCHANGED reactionsVars
  /\ IF p = "upgrade" THEN TRUE ELSE UNCHANGED upgradeVars
  /\ IF p = "members" THEN TRUE ELSE UNCHANGED membersVars
  /\ IF p = "payments" THEN TRUE ELSE UNCHANGED paymentsVars
  /\ IF p = "limits" THEN TRUE ELSE UNCHANGED limitsVars
  /\ IF p = "console" THEN TRUE ELSE UNCHANGED consoleVars
  /\ IF p = "cookies" THEN TRUE ELSE UNCHANGED cookiesVars
  /\ IF p = "frame" THEN TRUE ELSE UNCHANGED frameVars
  /\ IF p = "news" THEN TRUE ELSE UNCHANGED newsVars
  /\ IF p = "plain" THEN TRUE ELSE UNCHANGED plainVars
  /\ IF p = "turns" THEN TRUE ELSE UNCHANGED turnsVars
  /\ IF p = "bucket" THEN TRUE ELSE UNCHANGED bucketVars
  /\ IF p = "meter" THEN TRUE ELSE UNCHANGED meterVars
  /\ IF p = "gates" THEN TRUE ELSE UNCHANGED gatesVars
  /\ IF p = "figures" THEN TRUE ELSE UNCHANGED figuresVars
  /\ IF p = "models" THEN TRUE ELSE UNCHANGED modelsVars
  /\ IF p = "rows" THEN TRUE ELSE UNCHANGED rowsVars
  /\ IF p = "welcome" THEN TRUE ELSE UNCHANGED welcomeVars
  /\ IF p = "routes" THEN TRUE ELSE UNCHANGED routesVars
  /\ IF p = "sidebar" THEN TRUE ELSE UNCHANGED sidebarVars
  /\ IF p = "legal" THEN TRUE ELSE UNCHANGED legalVars
  /\ IF p = "sample" THEN TRUE ELSE UNCHANGED sampleVars

\* A part that is not mounted begins in one way only.
Init ==
  /\ mounted \in Part
  /\ Keys!Init /\ Auth!Init /\ Admin!Init /\ Compose!Init /\ React!Init
  /\ Upgrade!Init /\ Members!Init /\ Payments!Init /\ Limits!Init
  /\ Console!Init /\ Turns!Init /\ Bucket!Init /\ Route!GatesInit
  /\ Report!FiguresInit /\ Catalogue!Init /\ Arrival!Init /\ Sidebar!Init
  /\ Rows!Init /\ (mounted # "rows" => zone = 0)
  /\ Route!RoutesInit /\ (mounted # "routes" => behindHash)
  /\ Report!Init /\ (mounted # "report" => screen = "usage")
  /\ Zoom!Init /\ (mounted # "zoom" => hook)
  /\ Cookies!Init /\ (mounted # "cookies" => cookie = Cookies!NoCookie)
  /\ Plain!Init /\ (mounted # "plain" => signedIn)
  /\ News!Init /\ (mounted # "news" => seen /\ ~reduced)
  /\ Meter!Init
  /\ mounted # "meter" => hasKey /\ story = CHOOSE s \in Stories : TRUE
  /\ Legal!Init /\ (mounted # "legal" => legalStore = "other")
  /\ Sample!Init
  /\ mounted # "sample" => site = "landing"
  /\ Frame!Init
  /\ mounted # "frame" =>
       /\ \A w \in Widths : maxFit <= w
       /\ account = [owner |-> FALSE, member |-> FALSE, paid |-> FALSE,
                     tier |-> "none"]

Alone(p) == mounted = p /\ TheRestStays(p)

Next ==
  \/ Alone("keys") /\ Keys!Next
  \/ Alone("auth") /\ Auth!Next
  \/ Alone("report") /\ Report!Next
  \/ Alone("zoom") /\ Zoom!Next
  \/ Alone("admin") /\ Admin!Next
  \/ Alone("composer") /\ Compose!Next
  \/ Alone("reactions") /\ React!Next
  \/ Alone("upgrade") /\ Upgrade!Next
  \/ Alone("members") /\ Members!Next
  \/ Alone("payments") /\ Payments!Next
  \/ Alone("limits") /\ Limits!Next
  \/ Alone("console") /\ Console!Next
  \/ Alone("cookies") /\ Cookies!Next
  \/ Alone("frame") /\ Frame!Next
  \/ Alone("news") /\ News!Next
  \/ Alone("plain") /\ Plain!Next
  \/ Alone("turns") /\ Turns!Next
  \/ Alone("bucket") /\ Bucket!Next
  \/ Alone("meter") /\ Meter!Next
  \/ Alone("gates") /\ Route!GatesNext
  \/ Alone("figures") /\ Report!Arrives
  \/ Alone("models") /\ Catalogue!Next
  \/ Alone("rows") /\ Rows!Next
  \/ Alone("welcome") /\ Arrival!Next
  \/ Alone("routes") /\ Route!RoutesNext
  \/ Alone("sidebar") /\ Sidebar!Next
  \/ Alone("legal") /\ Legal!Next
  \/ Alone("sample") /\ Sample!Next

vars == <<mounted, keysVars, authVars, reportVars, zoomVars, adminVars,
          composerVars, reactionsVars, upgradeVars, membersVars, paymentsVars,
          limitsVars, consoleVars, cookiesVars, frameVars, newsVars,
          plainVars, turnsVars, bucketVars, meterVars, gatesVars, figuresVars,
          modelsVars, rowsVars, welcomeVars, routesVars, sidebarVars,
          legalVars, sampleVars>>

Spec == Init /\ [][Next]_vars

\* The fairness of Reports; nothing else is assumed to happen.
Fairness ==
  /\ WF_reportVars(Alone("report") /\ Report!Poll)
  /\ WF_reportVars(Alone("report") /\ Report!Proceeds)
  /\ SF_reportVars(Alone("report") /\ Report!Succeeds)

FairSpec == Spec /\ Fairness
-----------------------------------------------------------------------------
\* The parts that are not mounted stay as they begin: what is claimed of them
\* is claimed where they are mounted.
Of(p, claim) == mounted = p => claim

TypeOK ==
  /\ mounted \in Part
  /\ Of("keys", Keys!TypeOK) /\ Of("auth", Auth!TypeOK)
  /\ Of("report", Report!TypeOK) /\ Of("zoom", Zoom!TypeOK)
  /\ Of("admin", Admin!TypeOK) /\ Of("composer", Compose!TypeOK)
  /\ Of("reactions", React!TypeOK) /\ Of("upgrade", Upgrade!TypeOK)
  /\ Of("members", Members!TypeOK) /\ Of("payments", Payments!TypeOK)
  /\ Of("limits", Limits!TypeOK) /\ Of("console", Console!TypeOK)
  /\ Of("cookies", Cookies!TypeOK) /\ Of("frame", Frame!TypeOK)
  /\ Of("news", News!TypeOK) /\ Of("plain", Plain!TypeOK)
  /\ Of("turns", Turns!TypeOK) /\ Of("bucket", Bucket!TypeOK)
  /\ Of("meter", Meter!TypeOK) /\ Of("gates", Route!GatesTypeOK)
  /\ Of("figures", Report!FiguresTypeOK) /\ Of("models", Catalogue!TypeOK)
  /\ Of("rows", Rows!TypeOK) /\ Of("welcome", Arrival!TypeOK)
  /\ Of("routes", Route!RoutesTypeOK) /\ Of("sidebar", Sidebar!TypeOK)
  /\ Of("legal", Legal!TypeOK) /\ Of("sample", Sample!TypeOK)

(* The user on the screen is the one whose token is sent (auth.tsx 32-67).  *)
UserHoldsToken == Of("auth", Auth!UserHoldsToken)

(* Nobody signs in, and no cookie is stored, without having agreed to what  *)
(* was on the screen (LoginConsentModal 79-190, CookieConsent 37-63).       *)
ConsentFirst == /\ Of("auth", Auth!LeavesWithConsent)
                /\ Of("cookies", Cookies!ConsentIsDecided)

(* "I have backed up my secret key" is about the key shown (Keys 90-108).   *)
TickIsForThisKey == Of("keys", Keys!TickIsForThisKey)

(* What a list shows is what the server has, once the answers to its own    *)
(* changes are in: the keys (Keys 80-125), the members, the payments, the   *)
(* marks of messages (reactMsg of Chat3) and the conversations              *)
(* (chat-history).  Each part names what the code lets escape it: an answer *)
(* that is lost, requests that cross each other, marks whose index an older *)
(* page shifted.  A subscription is called cancelled only when it is        *)
(* (UpgradeDialog 92-107), though opened again the dialog offers cancelling *)
(* again; a key is called what it is, as far as the browser's zone lets it  *)
(* (Keys 54-57).                                                            *)
ListsAgree ==
  /\ Of("keys", Keys!ListCurrent) /\ Of("upgrade", Upgrade!CancelHolds)
  /\ Of("members", Members!MembersShown)
  /\ Of("payments", Payments!PaymentsShown)
  /\ Of("reactions", React!MarksAreStored)
  /\ Of("sidebar", Sidebar!SidebarAgrees) /\ Of("rows", Rows!RowsTell)

(* An answer is shown under the heading it belongs to and whole (Usage,     *)
(* Dashboard, Models, AdminSystem, chat-adapter, Legal); the limits on a    *)
(* chat page are not older than its interval and the two caches make them   *)
(* (api.ts); what the chat page sends and shows of its turns is what they   *)
(* hold; the figures of a report agree with each other; the Worker meters   *)
(* all of a stream, lets through what the backend would, up to the          *)
(* differences GatesMirror lists, and hands out no old list of models       *)
(* (cloudflare.js).                                                         *)
AnswersMatch ==
  /\ Of("report", Report!RowsMatchDays) /\ Of("admin", Admin!UsageIsOfSelected)
  /\ Of("plain", Plain!WholeOrTold) /\ Of("limits", Limits!LimitsFresh)
  /\ Of("turns", Turns!TurnsHold)
  /\ Of("meter", Meter!MeterSeesAll) /\ Of("gates", Route!GatesMirror)
  /\ Of("routes", Route!RoutesHold) /\ Of("figures", Report!FiguresAgree)
  /\ Of("legal", Legal!LegalTextMatches)

(* A spinner, a skeleton or "Probing..." stands for work under way, and     *)
(* "Copied" for something copied, from the samples of code too; who has no  *)
(* plan is offered one.                                                     *)
SpinnerMeansWork == /\ Of("report", Report!SpinnerMeansWork)
                    /\ Of("console", Console!ConsoleTellsWork)
                    /\ Of("models", Catalogue!TickIsForClipboard)
                    /\ Of("welcome", Arrival!WelcomeLeads)
                    /\ Of("sample", Sample!SampleTells)

(* Usage comes to show the days selected (Usage 165-179).                   *)
UsageFollowsDays == mounted = "report" => Report!UsageFollowsDays

(* A chart never zooms out of its data, the bottom bar never out of the     *)
(* window, the news never past a card still moving, and a client never      *)
(* past the Worker's limit.                                                 *)
StaysInBounds ==
  /\ Of("zoom", Zoom!WheelStaysInData) /\ Of("frame", Frame!FrameHolds)
  /\ Of("news", News!StackHolds) /\ Of("bucket", Bucket!BucketsLimit)

(* With "Ask first" on a message that uses a tool goes through one question *)
(* (Chat3 856-870): about the image when one is drawn, else about the       *)
(* search, and about the text sent, unless something changed behind it.     *)
QuestionFirst == Of("composer", Compose!QuestionFirst)
=============================================================================
