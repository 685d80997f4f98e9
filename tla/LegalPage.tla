----------------------------- MODULE LegalPage -----------------------------
(***************************************************************************)
(* The terms of use and the privacy policy, pages/Legal.tsx: a document in *)
(* one of two languages, fetched whenever the page or the language is      *)
(* another, and a choice of language that both pages read from the         *)
(* browser's storage.  One tab is modelled.  Requests of a page that was   *)
(* left change nothing any more.                                           *)
(***************************************************************************)
EXTENDS Integers, FiniteSets

CONSTANT MaxReads       \* bound: documents asked for by one visit of a page

VARIABLES legalPage, legalLang,
          legalStore,   \* LANG_KEY: a language, something else, or refused
          mdText,       \* the document shown: [page, lang], or a message
          reads,        \* requests under way: the n-th of this visit
          asked,        \* how many there were
          shownRead     \* history: the one whose answer is shown, 0: none

vars == <<legalPage, legalLang, legalStore, mdText, reads, asked, shownRead>>

Pages == {"terms", "privacy"}
Lang == {"th", "en"}
Document == [page : Pages, lang : Lang]
Loading == [page |-> "none", lang |-> "loading"]
Failed == [page |-> "none", lang |-> "failed"]
ErrorPage == [page |-> "none", lang |-> "of an error"]

TypeOK ==
  /\ legalPage \in Pages /\ legalLang \in Lang
  /\ legalStore \in Lang \cup {"other", "refused"}
  /\ mdText \in Document \cup {Loading, Failed, ErrorPage}
  /\ reads \subseteq [n : 1..MaxReads, of : Document]
  /\ asked \in 1..MaxReads /\ shownRead \in 0..MaxReads

\* useLegalLang, as a page begins.
StoredLang == IF legalStore \in Lang THEN legalStore ELSE "en"

Path == [page |-> legalPage, lang |-> legalLang]

\* The title, and the name of the link to the other page, go with the language.
Title(p) == [page |-> p, lang |-> legalLang]
LinkTo == CHOOSE p \in Pages : p # legalPage

Init ==
  /\ legalPage = "terms" /\ legalStore \in {"th", "other", "refused"}
  /\ legalLang = StoredLang
  /\ mdText = Loading /\ asked = 1 /\ shownRead = 0
  /\ reads = {[n |-> 1, of |-> Path]}

\* The effect of useMd on [path], the n-th of this visit.
Ask(n) ==
  /\ n <= MaxReads /\ asked' = n /\ mdText' = Loading /\ shownRead' = 0

\* LangToggle.  The language that is chosen already asks for nothing.
SetLang(l) ==
  /\ legalLang' = l /\ UNCHANGED legalPage
  /\ legalStore' = IF legalStore = "refused" THEN legalStore ELSE l
  /\ IF l = legalLang THEN UNCHANGED <<mdText, reads, asked, shownRead>>
     ELSE /\ Ask(asked + 1)
          /\ reads' = reads \cup {[n |-> asked + 1, of |-> Path']}

\* The link leads to a page that begins anew.
Follow ==
  /\ legalPage' = LinkTo /\ legalLang' = StoredLang
  /\ Ask(1) /\ reads' = {[n |-> 1, of |-> Path']}
  /\ UNCHANGED legalStore

\* Whichever answer comes writes what it has, were it the page of an error.
Arrive(r, what) ==
  /\ mdText' = what /\ reads' = reads \ {r} /\ shownRead' = r.n
  /\ UNCHANGED <<legalPage, legalLang, legalStore, asked>>

Next ==
  \/ \E l \in Lang : SetLang(l)
  \/ Follow
  \/ \E r \in reads : \E what \in {r.of, Failed, ErrorPage} : Arrive(r, what)

Spec == Init /\ [][Next]_vars
-----------------------------------------------------------------------------
(* Once the last request has been the last to answer, what is read under a  *)
(* title is the document of that title, in its language, or a message; an   *)
(* older answer that comes later puts the other language under it.          *)
(* "Loading" stands for a request under way.  The language of this page is  *)
(* the one the other will open in, unless the storage refuses (lines 11-42).*)
LegalTextMatches ==
  /\ shownRead = asked /\ mdText \in Document =>
       mdText = Title(legalPage)
  /\ mdText = Loading => \E r \in reads : r.of = Path
  /\ legalStore # "refused" => legalLang = StoredLang
=============================================================================
