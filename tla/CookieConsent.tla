--------------------------- MODULE CookieConsent ---------------------------
(***************************************************************************)
(* The cookie banner and the preferences: components/CookieConsent with    *)
(* lib/cookie-consent.ts.  One tab is modelled; another tab, or the end of *)
(* the cookie's year, is a change of the cookie from outside.  Nothing     *)
(* else in the dashboard reads the cookie.                                 *)
(***************************************************************************)
EXTENDS FiniteSets

CONSTANT Category    \* what may be chosen: analytics, marketing

\* Assumed where this module is instantiated, in DashboardPages.
CategoryAssumption == "no cookie" \notin Category

VARIABLES cookie,          \* the categories consented to, or none stored
          showBanner, preferencesOpen,
          prefs,           \* the boxes of the dialog
          decided,         \* history: the last decision of the user, here
          edited,          \* history: a box was changed since the dialog opened
          foreign          \* history: the cookie was changed from outside

vars == <<cookie, showBanner, preferencesOpen, prefs, decided, edited, foreign>>

NoCookie == {"no cookie"}
Consent == SUBSET Category
DefaultConsent == {}

TypeOK ==
  /\ {cookie, decided} \subseteq Consent \cup {NoCookie}
  /\ prefs \in Consent
  /\ {showBanner, preferencesOpen, edited, foreign} \subseteq BOOLEAN

\* getConsent: a cookie that cannot be read counts as none.
GetConsent == IF cookie = NoCookie THEN DefaultConsent ELSE cookie

Init ==
  /\ cookie \in {NoCookie, Category}
  /\ showBanner = (cookie = NoCookie)
  /\ preferencesOpen = FALSE /\ prefs = DefaultConsent
  /\ decided = cookie /\ edited = FALSE /\ foreign = FALSE

BannerShown == showBanner /\ ~preferencesOpen

SaveAndClose(choice) ==
  /\ cookie' = choice /\ decided' = choice
  /\ showBanner' = FALSE /\ preferencesOpen' = FALSE
  /\ edited' = FALSE /\ foreign' = FALSE

AcceptAll == BannerShown /\ SaveAndClose(Category) /\ UNCHANGED prefs
RejectAll == BannerShown /\ SaveAndClose(DefaultConsent) /\ UNCHANGED prefs

Boxes == GetConsent

\* openCustomize, and the event of the menu and of the sign-in page; the latter
\* may come with the dialog open.
OpenPreferences ==
  /\ prefs' = Boxes /\ preferencesOpen' = TRUE /\ edited' = FALSE
  /\ UNCHANGED <<cookie, showBanner, decided, foreign>>

\* The box of the necessary cookies is disabled.
ToggleCategory(c) ==
  /\ preferencesOpen
  /\ prefs' = IF c \in prefs THEN prefs \ {c} ELSE prefs \cup {c}
  /\ edited' = TRUE
  /\ UNCHANGED <<cookie, showBanner, preferencesOpen, decided, foreign>>

SavePreferences ==
  /\ preferencesOpen /\ SaveAndClose(prefs) /\ UNCHANGED prefs

\* Cancel, Escape, or a click beside the dialog.
CancelPreferences ==
  /\ preferencesOpen /\ preferencesOpen' = FALSE
  /\ UNCHANGED <<cookie, showBanner, prefs, decided, edited, foreign>>

\* The page is loaded again.
MountBanner ==
  /\ showBanner' = (cookie = NoCookie)
  /\ preferencesOpen' = FALSE /\ prefs' = DefaultConsent /\ edited' = FALSE
  /\ decided' = cookie /\ foreign' = FALSE
  /\ UNCHANGED cookie

\* Another tab, or a year.
Elsewhere ==
  /\ cookie' \in (Consent \cup {NoCookie}) \ {cookie}
  /\ foreign' = TRUE
  /\ UNCHANGED <<showBanner, preferencesOpen, prefs, decided, edited>>

Next ==
  \/ AcceptAll \/ RejectAll \/ OpenPreferences \/ SavePreferences
  \/ CancelPreferences \/ MountBanner \/ Elsewhere
  \/ \E c \in Category : ToggleCategory(c)

Spec == Init /\ [][Next]_vars
-----------------------------------------------------------------------------
(* Unless the cookie changed from outside: the banner asks those, and only  *)
(* those, who have not decided; the cookie says what the user decided last; *)
(* and the dialog, as long as no box was touched, shows just that, also     *)
(* after boxes were ticked and the dialog cancelled (lines 37-63).          *)
ConsentIsDecided ==
  ~foreign => /\ showBanner <=> decided = NoCookie
              /\ cookie = decided
              /\ preferencesOpen /\ ~edited => prefs = GetConsent
=============================================================================
