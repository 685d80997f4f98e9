------------------------------ MODULE Session ------------------------------
(***************************************************************************)
(* Signing in and out in one tab: lib/auth.tsx (AuthProvider), the guards  *)
(* of App.tsx, pages/Login, Callback and Welcome, and the consent dialog   *)
(* of components/LoginConsentModal.  The sign-in itself is external: the   *)
(* browser leaves for Google and comes back to /callback with a token or   *)
(* an error.                                                               *)
(*                                                                         *)
(* A handler or a continuation is one step with the render it causes: the  *)
(* redirects of the page then shown (Settle), and the effect of Callback,  *)
(* which depends on setApiKey and so runs at every render of AuthProvider. *)
(***************************************************************************)
EXTENDS Integers, FiniteSets

CONSTANTS Owners, Others,   \* accounts; a token stands for its account
          Nobody,
          MaxCalls          \* bound: calls of me() under way at once

Account == Owners \cup Others
\* Assumed where this module is instantiated, in DashboardPages.
AccountAssumption == Nobody \notin Account

VARIABLES token,    \* session_token in localStorage
          user, authLoading,
          calls,    \* calls of api.me under way
          place,    \* the path
          arrived,  \* the token in the fragment of /callback
          consent,  \* LoginConsentModal, see Dialog
          away,     \* the browser is at Google
          failed,   \* history: a call of me() of this page load failed
          left      \* history: signed out while a call was under way

vars == <<token, user, authLoading, calls, place, arrived, consent, away,
          failed, left>>

Public == {"terms", "docs"}          \* every page a visitor may read
Inside == {"home", "admin"}          \* below HomeRoute; admin below OwnerRoute
Place == Public \cup Inside \cup {"login", "callback", "welcome"}

Lang == {"th", "en"}
Dialog == [open : BOOLEAN, step : {"terms", "privacy"}, lang : Lang,
           terms : BOOLEAN, privacy : BOOLEAN, seen : SUBSET (Lang \X {"terms", "privacy"})]
Call == [n : 1..MaxCalls, as : Account, from : {"mount", "setApiKey"}]

TypeOK ==
  /\ {token, user, arrived} \subseteq Account \cup {Nobody}
  /\ calls \subseteq Call /\ place \in Place /\ consent \in Dialog
  /\ {authLoading, away, failed, left} \subseteq BOOLEAN

MeCall(cs, a, from) ==
  cs \cup {[n |-> CHOOSE n \in 1..MaxCalls : \A c \in cs : c.n # n,
            as |-> a, from |-> from]}
-----------------------------------------------------------------------------
(* Rendering.                                                               *)

\* The redirects of Login, Welcome and OwnerRoute.  OwnerRoute is only shown
\* inside HomeRoute, which shows Landing to a visitor.
Settle(p, u) ==
  CASE p = "login" /\ u # Nobody -> "home"
    [] p = "welcome" /\ u = Nobody -> "login"
    [] p = "admin" /\ u \in Others -> "home"
    [] OTHER -> p

\* What the routes of App show.
Screen ==
  IF authLoading /\ place \notin {"terms", "callback"} THEN "loading"
  ELSE IF place \in Inside /\ user = Nobody THEN "landing" ELSE place

\* AuthProvider has rendered with user u and the page is at p: a redirect
\* waits for loading, and Callback still mounted calls setApiKey once more.
Render(p, u, busy, cs) ==
  /\ user' = u /\ authLoading' = busy
  /\ place' = IF busy THEN p ELSE Settle(p, u)
  /\ IF p = "callback" /\ arrived # Nobody
     THEN /\ Cardinality(cs) < MaxCalls
          /\ token' = arrived
          /\ calls' = MeCall(cs, arrived, "setApiKey")
     ELSE UNCHANGED token /\ calls' = cs

Closed == [open |-> FALSE, step |-> "terms", lang |-> "en", terms |-> FALSE,
           privacy |-> FALSE, seen |-> {}]
-----------------------------------------------------------------------------
(* Loading the application.  The effects of the children run first: the one *)
(* of Callback stores the token before the one of AuthProvider looks.       *)

Opening(p, t, a) ==
  LET stored == IF a = Nobody THEN t ELSE a
      first == IF a = Nobody THEN {} ELSE MeCall({}, a, "setApiKey")
      both == IF stored = Nobody THEN first ELSE MeCall(first, stored, "mount")
  IN [token |-> stored, calls |-> both, busy |-> stored # Nobody, place |-> p]

Open(p, a) ==
  LET o == Opening(p, token, a)
  IN /\ token' = o.token /\ calls' = o.calls /\ authLoading' = o.busy
     /\ user' = Nobody
     /\ place' = IF o.busy THEN p ELSE Settle(p, Nobody)
     /\ arrived' = a
     /\ consent' = [Closed EXCEPT !.lang = consent.lang]
     /\ failed' = FALSE /\ left' = FALSE /\ away' = FALSE

Init ==
  /\ token = Nobody /\ user = Nobody /\ authLoading = FALSE /\ calls = {}
  /\ place = "home" /\ arrived = Nobody /\ consent = Closed
  /\ away = FALSE /\ failed = FALSE /\ left = FALSE

\* A page is opened by its address, or loaded again: only localStorage stays.
Visit(p) == p # "callback" /\ Open(p, Nobody)

\* The sign-in comes back.  An error sends Callback on to /login; without a
\* token it stays, with a message.
Return(a) == away /\ Open("callback", a)
ReturnError == away /\ Open("login", Nobody)
-----------------------------------------------------------------------------
(* The answers of me().                                                     *)

\* Where the page goes when a call has ended.  setApiKey swallows a failure,
\* so the then of Callback navigates to /welcome either way, and does so even
\* when Callback is no longer shown.
After(c) == IF c.from = "setApiKey" THEN "welcome" ELSE place

StillLoading(c) == authLoading /\ c.from # "mount"

\* Mutant of Dropped: the token stays in localStorage.
DroppedNothing == token

\* A call that fails, whatever the reason, and a sign-out take the token out of
\* localStorage.
Dropped == Nobody

MeReply(c) ==
  /\ Render(After(c), c.as, StillLoading(c), calls \ {c})
  /\ UNCHANGED <<arrived, consent, away, failed, left>>

MeFails(c) ==
  /\ failed' = TRUE
  /\ LET p == After(c)
         busy == StillLoading(c)
         renders == p = "callback" /\ arrived # Nobody /\ busy # authLoading
     IN /\ user' = user /\ authLoading' = busy
        /\ place' = IF busy THEN p ELSE Settle(p, user)
        /\ IF renders THEN /\ token' = arrived
                           /\ calls' = MeCall(calls \ {c}, arrived, "setApiKey")
                      ELSE token' = Dropped /\ calls' = calls \ {c}
  /\ UNCHANGED <<arrived, consent, away, left>>
-----------------------------------------------------------------------------
(* What the user does.                                                      *)

Navigate(p) ==
  /\ ~consent.open /\ ~away /\ place # "callback"
  /\ p \in Public \cup Inside \cup {"login"}
  /\ p = "admin" => user \in Owners
  /\ place' = Settle(p, user)
  /\ UNCHANGED <<token, user, authLoading, calls, arrived, consent, away,
                 failed, left>>

\* "Get Started" and "Later".
LeaveWelcome ==
  /\ Screen = "welcome" /\ place' = "home"
  /\ UNCHANGED <<token, user, authLoading, calls, arrived, consent, away,
                 failed, left>>

\* handleLogout of the sidebar and of the profile dialog.
Logout ==
  /\ Screen \in Inside \cup {"docs"} /\ user # Nobody
  /\ token' = Dropped /\ user' = Nobody
  /\ place' = "login"
  /\ left' = (left \/ calls # {})
  /\ UNCHANGED <<authLoading, calls, arrived, consent, away, failed>>
-----------------------------------------------------------------------------
(* The consent dialog.  Both texts must be accepted, in the language shown; *)
(* `seen` is what the user has accepted since the dialog was opened.        *)

Accepted(d) == IF d.step = "terms" THEN d.terms ELSE d.privacy

\* Mutant of Restart: changing the language keeps the ticks.
RestartKeeping(d) == [d EXCEPT !.step = "terms"]

\* The effect of [open, lang].
Restart(d) == [d EXCEPT !.step = "terms", !.terms = FALSE, !.privacy = FALSE]

InDialog(d) ==
  /\ consent' = d
  /\ UNCHANGED <<token, user, authLoading, calls, place, arrived, away, failed,
                 left>>

OpenConsent ==
  /\ Screen = "login" /\ ~consent.open /\ ~away
  /\ InDialog(Restart([consent EXCEPT !.open = TRUE, !.seen = {}]))

CloseConsent ==
  /\ consent.open /\ ~away /\ InDialog([consent EXCEPT !.open = FALSE])

SwitchLang(l) ==
  /\ consent.open /\ ~away /\ l # consent.lang
  /\ InDialog(Restart([consent EXCEPT !.lang = l]))

Accept ==
  /\ consent.open /\ ~away
  /\ LET here == <<consent.lang, consent.step>>
         ticked == ~Accepted(consent)
     IN InDialog([consent EXCEPT
          !.terms = IF consent.step = "terms" THEN ticked ELSE @,
          !.privacy = IF consent.step = "privacy" THEN ticked ELSE @,
          !.seen = IF ticked THEN @ \cup {here} ELSE @ \ {here}])

\* handleContinue: from the terms to the privacy policy, and from there away.
Continue ==
  /\ consent.open /\ ~away /\ Accepted(consent)
  /\ IF consent.step = "terms"
     THEN InDialog([consent EXCEPT !.step = "privacy"])
     ELSE /\ consent' = [consent EXCEPT !.open = FALSE]
          /\ away' = TRUE /\ calls' = {}
          /\ UNCHANGED <<token, user, authLoading, place, arrived, failed, left>>

Next ==
  \/ \E p \in Place : Visit(p) \/ Navigate(p)
  \/ \E a \in Account \cup {Nobody} : Return(a)
  \/ ReturnError
  \/ \E c \in calls : MeReply(c) \/ MeFails(c)
  \/ LeaveWelcome \/ Logout
  \/ OpenConsent \/ CloseConsent \/ Accept \/ Continue
  \/ \E l \in Lang : SwitchLang(l)

Spec == Init /\ [][Next]_vars
-----------------------------------------------------------------------------
(* Once the answers of me() are in, the user shown is the one whose token   *)
(* every request carries.  After a failed call there may be a user without  *)
(* a token, never one with the token of another or a token without its      *)
(* user; only a sign-out that crossed a call escapes this.                  *)
UserHoldsToken ==
  calls = {} /\ ~left => token \in IF failed THEN {user, Nobody} ELSE {user}

(* The dialog says "please review and accept before continuing to sign in": *)
(* the browser leaves only after both texts were accepted, in the language  *)
(* of the moment, since the dialog was opened.                              *)
LeavesWithConsent ==
  away => {<<consent.lang, "terms">>, <<consent.lang, "privacy">>}
            \subseteq consent.seen
=============================================================================
