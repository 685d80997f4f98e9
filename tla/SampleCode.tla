----------------------------- MODULE SampleCode -----------------------------
(***************************************************************************)
(* The samples of code of pages/Docs.tsx and pages/Landing.tsx, and what   *)
(* is copied from them.  The documentation writes the visitor's first      *)
(* active key and the model chosen into its samples, once the list of keys *)
(* is there; the landing page leaves its own as they are.  A sample is     *)
(* modelled by the request it would send.                                  *)
(***************************************************************************)
EXTENDS Integers, Sequences

CONSTANTS SampleModels, FirstModel,   \* FirstModel is DEFAULT_MODEL
          ServerTabs,   \* languages whose sample takes the key from the
                        \* environment: Go, Java, Ruby, PHP, C#
          KeyLists,     \* what listKeys may answer with
          MaxTicks      \* bound: timers at once, of each of the two marks

Embeds == {"Python", "TypeScript", "cURL"}
Texts == UNION {{l[i].text : i \in DOMAIN l} : l \in KeyLists}

\* Assumed where this module is instantiated, in DashboardPages.
SampleAssumption ==
  /\ FirstModel \in SampleModels /\ ServerTabs \cap Embeds = {}
  /\ Texts \cap {"unexpanded", "placeholder"} = {}
  /\ <<>> \in KeyLists /\ KeyLists \subseteq Seq([active : BOOLEAN, text : STRING])

VARIABLES site,         \* docs, landing
          ownKeys,      \* the server's list, the newest first
          listing,      \* listKeys: pending, answered, failed
          tab, chosen,  \* activeTab, selectedModel
          apiKey, pastebin,
          ticked, tickTimers,   \* copied, and the timers that take it away
          tickedModel, modelTimers,
          changed       \* history: the sample or the clipboard is another than
                        \* at the last copy, or the browser denied it

vars == <<site, ownKeys, listing, tab, chosen, apiKey, pastebin, ticked,
          tickTimers, tickedModel, modelTimers, changed>>

NoText == ""
ImageModel == "z-image-turbo"
Tabs == IF site = "docs" THEN Embeds \cup ServerTabs ELSE Embeds
Bearers == Texts \cup {"environment", "unexpanded", "placeholder"}
Request == [host : {"base", "none"}, model : SampleModels \cup {ImageModel},
            key : Bearers]
Nothing == [host |-> "none", model |-> FirstModel, key |-> "nothing"]
Name(m) == [host |-> "none", model |-> m, key |-> "name"]
Marked == SampleModels \cup {NoText}

TypeOK ==
  /\ site \in {"docs", "landing"} /\ tab \in Tabs
  /\ listing \in {"pending", "answered", "failed"}
  /\ chosen \in SampleModels /\ tickedModel \in Marked
  /\ apiKey \in Texts \cup {NoText}
  /\ pastebin \in Request \cup {Nothing} \cup {Name(m) : m \in SampleModels}
  /\ {ticked, changed} \subseteq BOOLEAN
  /\ tickTimers \in 0..MaxTicks /\ modelTimers \in 0..MaxTicks

\* Only the documentation asks for the keys.
FirstListing(s) == IF s = "docs" THEN "pending" ELSE "answered"

\* The landing page is for those who are signed out (App 30-35).
VisitorLists(s) == IF s = "docs" THEN KeyLists ELSE {<<>>}

Init ==
  /\ site \in {"docs", "landing"} /\ ownKeys \in VisitorLists(site)
  /\ tab = "cURL" /\ chosen = FirstModel /\ apiKey = NoText
  /\ listing = FirstListing(site)
  /\ ticked = FALSE /\ tickedModel = NoText
  /\ tickTimers = 0 /\ modelTimers = 0
  /\ pastebin = Nothing /\ changed = FALSE
-----------------------------------------------------------------------------
(* A sample.                                                                *)

\* What stands for the key: the shell replaces the variable, Python and
\* TypeScript send its name.
Bearer ==
  IF tab \in ServerTabs THEN "environment"
  ELSE IF site = "landing" THEN "placeholder"
  ELSE IF apiKey # NoText THEN apiKey
  ELSE IF tab = "cURL" THEN "environment" ELSE "unexpanded"

\* displayCode.  The sample of PHP has no host.
DisplayCode == [host |-> IF tab = "PHP" THEN "none" ELSE "base",
                model |-> chosen, key |-> Bearer]

\* copyText: the command of the shell is put together again, on one line, from
\* the address and the body that are displayed and from the key.
CopyText ==
  IF site = "docs" /\ tab = "cURL"
  THEN [DisplayCode EXCEPT !.key = IF apiKey = NoText THEN "environment"
                                   ELSE apiKey]
  ELSE DisplayCode

\* The first key that is active, or else the first.
Found(l) ==
  LET active == {i \in DOMAIN l : l[i].active}
  IN IF active = {} THEN 1 ELSE CHOOSE i \in active : \A j \in active : i <= j
-----------------------------------------------------------------------------
SetActiveTab(t) ==
  /\ tab' = t /\ changed' = (changed \/ t # tab)
  /\ UNCHANGED <<site, ownKeys, listing, chosen, apiKey, pastebin, ticked,
                 tickTimers, tickedModel, modelTimers>>

\* A key that cannot be read (its text is empty) is passed over with the list.
ListKeys(how) ==
  /\ listing = "pending" /\ listing' = how
  /\ apiKey' = IF how = "answered" /\ ownKeys # <<>>
               THEN ownKeys[Found(ownKeys)].text ELSE apiKey
  /\ changed' = (changed \/ apiKey' # apiKey)
  /\ UNCHANGED <<site, ownKeys, tab, chosen, pastebin, ticked, tickTimers,
                 tickedModel, modelTimers>>

SetSelectedModel(m) ==
  /\ site = "docs" /\ chosen' = m /\ changed' = (changed \/ m # chosen)
  /\ UNCHANGED <<site, ownKeys, listing, tab, apiKey, pastebin, ticked,
                 tickTimers, tickedModel, modelTimers>>

\* The browser's answer is not awaited.
HandleCopy(ok) ==
  /\ tickTimers < MaxTicks
  /\ ticked' = TRUE /\ tickTimers' = tickTimers + 1
  /\ pastebin' = IF ok THEN CopyText ELSE pastebin
  /\ changed' = ~ok
  /\ UNCHANGED <<site, ownKeys, listing, tab, chosen, apiKey, tickedModel,
                 modelTimers>>

HandleCopyModel(m, ok) ==
  /\ site = "docs" /\ modelTimers < MaxTicks
  /\ tickedModel' = m /\ modelTimers' = modelTimers + 1
  /\ pastebin' = IF ok THEN Name(m) ELSE pastebin
  /\ changed' = TRUE
  /\ UNCHANGED <<site, ownKeys, listing, tab, chosen, apiKey, ticked, tickTimers>>

\* The samples of the other two interfaces are for one model each, without a
\* key and without a mark.
CopyFixed(m) ==
  /\ site = "docs" /\ changed' = TRUE
  /\ pastebin' = [host |-> "base", model |-> m, key |-> "placeholder"]
  /\ UNCHANGED <<site, ownKeys, listing, tab, chosen, apiKey, ticked, tickTimers,
                 tickedModel, modelTimers>>

CopyResponses == CopyFixed(FirstModel)
CopyImage == CopyFixed(ImageModel)

\* Two seconds after any copy, the latest or not.
TickEnds ==
  /\ tickTimers > 0 /\ tickTimers' = tickTimers - 1 /\ ticked' = FALSE
  /\ UNCHANGED <<site, ownKeys, listing, tab, chosen, apiKey, pastebin,
                 tickedModel, modelTimers, changed>>

ModelTickEnds ==
  /\ modelTimers > 0 /\ modelTimers' = modelTimers - 1 /\ tickedModel' = NoText
  /\ UNCHANGED <<site, ownKeys, listing, tab, chosen, apiKey, pastebin, ticked,
                 tickTimers, changed>>

\* Signing in or out, or leaving and coming back: the page begins anew, its
\* timers and its request change nothing any more.
Remount ==
  /\ site' \in {"docs", "landing"} /\ ownKeys' \in VisitorLists(site')
  /\ tab' = "cURL" /\ chosen' = FirstModel /\ apiKey' = NoText
  /\ listing' = FirstListing(site')
  /\ ticked' = FALSE /\ tickedModel' = NoText
  /\ tickTimers' = 0 /\ modelTimers' = 0
  /\ changed' = TRUE /\ UNCHANGED pastebin

Next ==
  \/ \E t \in Tabs : SetActiveTab(t)
  \/ \E how \in {"answered", "failed"} : ListKeys(how)
  \/ \E m \in SampleModels : SetSelectedModel(m)
  \/ \E ok \in BOOLEAN :
       HandleCopy(ok) \/ \E m \in SampleModels : HandleCopyModel(m, ok)
  \/ CopyResponses \/ CopyImage \/ TickEnds \/ ModelTickEnds \/ Remount

Spec == Init /\ [][Next]_vars
-----------------------------------------------------------------------------
(* The tick of a sample stands for the sample shown, unless the sample or   *)
(* the clipboard has changed since or the browser denied the copy; a mark   *)
(* has a timer left to take it away.  A key in a sample is one of the       *)
(* visitor's own, and an active one if there is any; with the list there    *)
(* and an active key that can be read, a sample of the documentation is     *)
(* copied with that key or leaves it to the environment (Docs 274-330).     *)
SampleTells ==
  /\ ticked => tickTimers > 0 /\ (changed \/ pastebin = DisplayCode)
  /\ tickedModel # NoText => modelTimers > 0
  /\ apiKey # NoText =>
       \E i \in DOMAIN ownKeys :
          /\ ownKeys[i].text = apiKey
          /\ ownKeys[i].active \/ \A j \in DOMAIN ownKeys : ~ownKeys[j].active
  /\ /\ site = "docs" /\ listing = "answered"
     /\ \E i \in DOMAIN ownKeys : ownKeys[i].active
     /\ \A i \in DOMAIN ownKeys : ownKeys[i].text # NoText
     => CopyText.key \notin {"unexpanded", "placeholder"}
=============================================================================
