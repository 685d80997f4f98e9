----------------------------- MODULE PagesProofs ----------------------------
(***************************************************************************)
(* Theorems about the session, the keys, the composer and the lists of     *)
(* DashboardPages, for every choice of the constants: accounts, keys,      *)
(* members, messages, conversations, texts and bounds.  Each part has an   *)
(* inductive invariant of its own; that the parts share no state carries   *)
(* it to the whole.                                                        *)
(***************************************************************************)
EXTENDS DashboardPages, DataLemmas

(***************************************************************************)
(* A step of the pages is for each part a step of that part, or it leaves  *)
(* the part as it is: the one fact that carries what a part does alone to  *)
(* the behaviours of DashboardPages.                                       *)
(***************************************************************************)
LEMMA AuthAlone == [Next]_vars => [Auth!Next]_authVars
BY Zenon DEF Next, Alone, TheRestStays, vars

LEMMA CookiesAlone == [Next]_vars => [Cookies!Next]_cookiesVars
BY Zenon DEF Next, Alone, TheRestStays, vars

LEMMA KeysAlone == [Next]_vars => [Keys!Next]_keysVars
BY Zenon DEF Next, Alone, TheRestStays, vars

LEMMA ComposerAlone == [Next]_vars => [Compose!Next]_composerVars
BY Zenon DEF Next, Alone, TheRestStays, vars

LEMMA UpgradeAlone == [Next]_vars => [Upgrade!Next]_upgradeVars
BY Zenon DEF Next, Alone, TheRestStays, vars

LEMMA MembersAlone == [Next]_vars => [Members!Next]_membersVars
BY Zenon DEF Next, Alone, TheRestStays, vars

LEMMA PaymentsAlone == [Next]_vars => [Payments!Next]_paymentsVars
BY Zenon DEF Next, Alone, TheRestStays, vars

LEMMA ReactionsAlone == [Next]_vars => [React!Next]_reactionsVars
BY Zenon DEF Next, Alone, TheRestStays, vars

LEMMA SidebarAlone == [Next]_vars => [Sidebar!Next]_sidebarVars
BY Zenon DEF Next, Alone, TheRestStays, vars

LEMMA RowsAlone == [Next]_vars => [Rows!Next]_rowsVars
BY Zenon DEF Next, Alone, TheRestStays, vars

LEMMA AdminAlone == [Next]_vars => [Admin!Next]_adminVars
BY Zenon DEF Next, Alone, TheRestStays, vars

LEMMA PlainAlone == [Next]_vars => [Plain!Next]_plainVars
BY Zenon DEF Next, Alone, TheRestStays, vars

LEMMA LimitsAlone == [Next]_vars => [Limits!Next]_limitsVars
BY Zenon DEF Next, Alone, TheRestStays, vars

LEMMA MeterAlone == [Next]_vars => [Meter!Next]_meterVars
BY Zenon DEF Next, Alone, TheRestStays, vars

LEMMA LegalAlone == [Next]_vars => [Legal!Next]_legalVars
BY Zenon DEF Next, Alone, TheRestStays, vars

-----------------------------------------------------------------------------
\* The session: auth.tsx and the pages that wait for it.

\* All that is stored, shown and under way is about one account x; the user is
\* only missing while a page waits for its answers.
AboutOne(x) ==
  /\ \A c \in meCalls : c.as = x
  /\ user \in {x, Nobody} /\ token \in {x, Nobody}
  /\ ~failed => token = x
  /\ place = "callback" /\ arrived # Nobody => arrived = x
  /\ user = Nobody /\ token # Nobody =>
       meCalls # {} /\ (authLoading \/ place = "callback")

OneAccount ==
  /\ \A c \in meCalls : c.as \in Auth!Account
  /\ {token, user, arrived} \subseteq Auth!Account \cup {Nobody}
  /\ consent.open => ~authLoading /\ place # "callback"
  /\ ~left => \E x \in Auth!Account \cup {Nobody} : AboutOne(x)

\* A session begins with one account.
LEMMA OneAccountStart == Auth!Init => OneAccount
BY Zenon DEF Auth!Init, OneAccount, AboutOne, Auth!Closed

\* A call to /me is for the token it is given.
LEMMA MeCallAs ==
  ASSUME NEW cs, NEW a, NEW from
  PROVE  /\ cs \subseteq Auth!MeCall(cs, a, from)
         /\ \A c \in Auth!MeCall(cs, a, from) : c \in cs \/ c.as = a
         /\ Auth!MeCall(cs, a, from) # {}
<1> DEFINE m == CHOOSE n \in 1..MaxMeCalls : \A c \in cs : c.n # n
           call == [n |-> m, as |-> a, from |-> from]
<1>1. Auth!MeCall(cs, a, from) = cs \cup {call}
  BY Zenon DEF Auth!MeCall
<1>2. call.as = a
  OBVIOUS
<1> HIDE DEF call
<1> QED BY <1>1, <1>2, Zenon

\* A page opened anew holds one account, the one of its address or the stored one.
LEMMA OpenOneAccount ==
  ASSUME OneAccount, NEW p, NEW a \in Auth!Account \cup {Nobody}, Auth!Open(p, a)
  PROVE  OneAccount'
<1> DEFINE sends == IF a = Nobody THEN token ELSE a
           first == IF a = Nobody THEN {} ELSE Auth!MeCall({}, a, "setApiKey")
           both == IF sends = Nobody THEN first
                   ELSE Auth!MeCall(first, sends, "mount")
<1>1. /\ token' = sends /\ meCalls' = both /\ authLoading' = (sends # Nobody)
      /\ user' = Nobody /\ arrived' = a
      /\ ~consent'.open
      /\ sends = Nobody => a = Nobody
  BY DEF Auth!Open, Auth!Opening, Auth!Closed
<1>2. \A c \in first : c.as = a /\ a # Nobody
  BY MeCallAs
<1>3. \A c \in both : c.as = sends /\ sends # Nobody
  BY <1>2, MeCallAs
<1>4. sends # Nobody => both # {}
  BY MeCallAs
<1>5. sends \in Auth!Account \cup {Nobody} /\ (a # Nobody => a = sends)
  BY DEF OneAccount
<1> HIDE DEF sends, first, both
<1>6. PICK x : x = sends
  OBVIOUS
<1>7. AboutOne(x)'
  BY <1>1, <1>3, <1>4, <1>5, <1>6 DEF AboutOne
<1> QED
  BY <1>1, <1>3, <1>5, <1>6, <1>7 DEF OneAccount

\* Only the callback page settles on itself.
LEMMA SettleKeeps ==
  ASSUME NEW p, NEW u
  PROVE  Auth!Settle(p, u) = "callback" => p = "callback"
BY Zenon DEF Auth!Settle

\* An answer to /me keeps it one account.
LEMMA MeReplyOneAccount ==
  ASSUME OneAccount, NEW c \in meCalls, Auth!MeReply(c)
  PROVE  OneAccount'
<1> DEFINE p == Auth!After(c)
           rest == meCalls \ {c}
           renders == p = "callback" /\ arrived # Nobody
<1>1. /\ user' = c.as /\ authLoading' = Auth!StillLoading(c)
      /\ place' = IF Auth!StillLoading(c) THEN p ELSE Auth!Settle(p, c.as)
      /\ IF renders
         THEN token' = arrived /\ meCalls' = Auth!MeCall(rest, arrived, "setApiKey")
         ELSE token' = token /\ meCalls' = rest
      /\ arrived' = arrived /\ consent' = consent /\ failed' = failed
      /\ left' = left
  BY DEF Auth!MeReply, Auth!Render
<1>2. place' = "callback" => p = "callback"
  BY <1>1, SettleKeeps, Zenon
<1>3. p = "callback" => place = "callback"
  BY DEF Auth!After
<1>4. authLoading' => authLoading
  BY <1>1 DEF Auth!StillLoading
<1>5. c.as \in Auth!Account /\ Nobody \notin Auth!Account
  BY PartsAssumption DEF OneAccount, Auth!AccountAssumption
<1>6. \A d \in meCalls' : d \in meCalls \/ (d.as = arrived /\ renders)
  <2>1. CASE renders
    BY <2>1, <1>1, MeCallAs
  <2>2. CASE ~renders
    BY <2>2, <1>1
  <2> QED BY <2>1, <2>2
<1> HIDE DEF p, rest
<1>7. ASSUME ~left PROVE \E x \in Auth!Account \cup {Nobody} : AboutOne(x)'
  <2>1. PICK x \in Auth!Account \cup {Nobody} : AboutOne(x)
    BY <1>7 DEF OneAccount
  <2>2. c.as = x
    BY <2>1 DEF AboutOne
  <2>3. AboutOne(x)'
    BY <1>1, <1>2, <1>3, <1>5, <1>6, <2>1, <2>2 DEF AboutOne
  <2> QED BY <2>3
<1> QED
  BY <1>1, <1>2, <1>3, <1>4, <1>5, <1>6, <1>7 DEF OneAccount
\* So does a failed one, which drops the token.
LEMMA MeFailsOneAccount ==
  ASSUME OneAccount, NEW c \in meCalls, Auth!MeFails(c)
  PROVE  OneAccount'
<1> DEFINE p == Auth!After(c)
           waits == Auth!StillLoading(c)
           rest == meCalls \ {c}
           renders == p = "callback" /\ arrived # Nobody /\ waits # authLoading
<1>1. /\ user' = user /\ authLoading' = waits /\ failed' = TRUE
      /\ place' = IF waits THEN p ELSE Auth!Settle(p, user)
      /\ IF renders
         THEN token' = arrived /\ meCalls' = Auth!MeCall(rest, arrived, "setApiKey")
         ELSE token' = Nobody /\ meCalls' = rest
      /\ arrived' = arrived /\ consent' = consent /\ left' = left
  BY DEF Auth!MeFails, Auth!Dropped
<1>2. place' = "callback" => p = "callback"
  BY <1>1, SettleKeeps, Zenon
<1>3. p = "callback" => place = "callback"
  BY DEF Auth!After
<1>4. authLoading' => authLoading
  BY <1>1 DEF Auth!StillLoading
<1>5. Nobody \notin Auth!Account
  BY PartsAssumption DEF Auth!AccountAssumption
<1>6. /\ \A d \in meCalls' : d \in meCalls \/ (d.as = arrived /\ renders)
      /\ renders => meCalls' # {}
  <2>1. CASE renders
    BY <2>1, <1>1, MeCallAs
  <2>2. CASE ~renders
    BY <2>2, <1>1
  <2> QED BY <2>1, <2>2
<1>7. renders => place' = "callback"
  <2> SUFFICES ASSUME renders, ~waits PROVE Auth!Settle(p, user) = "callback"
    BY <1>1
  <2> QED BY Zenon DEF Auth!Settle
<1> HIDE DEF p, rest, waits
<1>8. ASSUME ~left PROVE \E x \in Auth!Account \cup {Nobody} : AboutOne(x)'
  <2>1. PICK x \in Auth!Account \cup {Nobody} : AboutOne(x)
    BY <1>8 DEF OneAccount
  <2>2. CASE renders
    <3>1. arrived = x
      BY <1>3, <2>1, <2>2 DEF AboutOne
    <3>2. AboutOne(x)'
      BY <1>1, <1>2, <1>3, <1>5, <1>6, <1>7, <2>1, <2>2, <3>1 DEF AboutOne
    <3> QED BY <3>2
  <2>3. CASE ~renders
    <3>1. AboutOne(x)'
      BY <1>1, <1>2, <1>3, <1>5, <1>6, <2>1, <2>3 DEF AboutOne
    <3> QED BY <3>1
  <2> QED BY <2>2, <2>3
<1> QED
  BY <1>1, <1>2, <1>3, <1>4, <1>5, <1>6, <1>8 DEF OneAccount

\* So does a change of page.
LEMMA NavigateOneAccount ==
  ASSUME OneAccount, NEW p, Auth!Navigate(p)
  PROVE  OneAccount'
<1>1. place' = Auth!Settle(p, user) /\ place # "callback" /\ p # "callback"
  BY DEF Auth!Navigate, Auth!Public, Auth!Inside
<1>2. place' # "callback"
  BY <1>1, SettleKeeps
<1>3. UNCHANGED <<token, user, authLoading, meCalls, arrived, consent, failed, left>>
  BY DEF Auth!Navigate
<1>4. ASSUME NEW x, AboutOne(x) PROVE AboutOne(x)'
  BY <1>1, <1>2, <1>3, <1>4 DEF AboutOne
<1> QED BY <1>2, <1>3, <1>4 DEF OneAccount

\* So does leaving the welcome page.
LEMMA LeaveWelcomeOneAccount ==
  ASSUME OneAccount, Auth!LeaveWelcome
  PROVE  OneAccount'
<1>1. place # "callback" /\ place' = "home"
  BY Zenon DEF Auth!LeaveWelcome, Auth!Screen
<1>3. UNCHANGED <<token, user, authLoading, meCalls, arrived, consent, failed, left>>
  BY DEF Auth!LeaveWelcome
<1>4. ASSUME NEW x, AboutOne(x) PROVE AboutOne(x)'
  BY <1>1, <1>3, <1>4 DEF AboutOne
<1> QED BY <1>1, <1>3, <1>4 DEF OneAccount

\* So does signing out, after which nobody is left on the screen.
LEMMA LogoutOneAccount ==
  ASSUME OneAccount, Auth!Logout
  PROVE  OneAccount'
<1>1. /\ token' = Nobody /\ user' = Nobody /\ place' = "login"
      /\ left' = (left \/ meCalls # {})
      /\ UNCHANGED <<authLoading, meCalls, arrived, consent, failed>>
  BY DEF Auth!Logout, Auth!Dropped
<1>2. ~left' => AboutOne(Nobody)'
  BY <1>1 DEF AboutOne
<1> QED BY <1>1, <1>2 DEF OneAccount

\* The steps of the consent dialog.
LEMMA ConsentOneAccount ==
  ASSUME OneAccount,
         Auth!OpenConsent \/ Auth!CloseConsent \/ Auth!Accept
           \/ Auth!Continue \/ \E l \in Auth!Lang : Auth!SwitchLang(l)
  PROVE  OneAccount'
<1>1. /\ UNCHANGED <<token, user, authLoading, place, arrived, failed, left>>
      /\ meCalls' = meCalls \/ (consent.open /\ meCalls' = {})
      /\ consent'.open => consent.open \/ (~authLoading /\ place # "callback")
  <2>1. CASE Auth!OpenConsent
    BY <2>1, Zenon DEF Auth!OpenConsent, Auth!InDialog, Auth!Screen
  <2>2. CASE \/ Auth!CloseConsent \/ Auth!Accept \/ Auth!Continue
             \/ \E l \in Auth!Lang : Auth!SwitchLang(l)
    BY <2>2 DEF Auth!CloseConsent, Auth!Accept, Auth!Continue,
                       Auth!SwitchLang, Auth!InDialog
  <2> QED BY <2>1, <2>2
<1>2. ASSUME NEW x, AboutOne(x) PROVE AboutOne(x)'
  BY <1>1, <1>2 DEF AboutOne, OneAccount
<1> QED BY <1>1, <1>2 DEF OneAccount

\* Every step of the session keeps it one account.
LEMMA AuthOneAccount == OneAccount /\ [Auth!Next]_authVars => OneAccount'
<1> SUFFICES ASSUME OneAccount, [Auth!Next]_authVars PROVE OneAccount'
  OBVIOUS
<1>1. ASSUME NEW p, Auth!Visit(p) PROVE OneAccount'
  BY <1>1, OpenOneAccount DEF Auth!Visit
<1>2. ASSUME NEW a \in Auth!Account \cup {Nobody}, Auth!Return(a) PROVE OneAccount'
  BY <1>2, OpenOneAccount DEF Auth!Return
<1>3. CASE Auth!ReturnError
  BY <1>3, OpenOneAccount DEF Auth!ReturnError
<1>4. CASE UNCHANGED authVars
  BY <1>4 DEF authVars, OneAccount, AboutOne
<1> QED
  BY <1>1, <1>2, <1>3, <1>4, MeReplyOneAccount, MeFailsOneAccount,
     NavigateOneAccount, LeaveWelcomeOneAccount, LogoutOneAccount,
     ConsentOneAccount, Zenon DEF Auth!Next

\* One account is what UserHoldsToken claims.
LEMMA OneAccountHolds == OneAccount => Auth!UserHoldsToken
BY DEF OneAccount, AboutOne, Auth!UserHoldsToken

(* In every behaviour the user on the screen is the one whose token is sent *)
(* (auth.tsx 32-67), whatever the order in which the answers to /me come.   *)
THEOREM UserAlwaysHoldsToken == Spec => []UserHoldsToken
<1>1. Init => OneAccount
  BY OneAccountStart DEF Init
<1>2. OneAccount => UserHoldsToken
  BY OneAccountHolds DEF UserHoldsToken, Of
<1> QED BY <1>1, <1>2, AuthAlone, AuthOneAccount, PTL DEF Spec

-----------------------------------------------------------------------------
\* Consent: the dialog of the login page, and the banner of cookies.

ConsentInv ==
  /\ consent \in Auth!Dialog
  /\ consent.terms => <<consent.lang, "terms">> \in consent.seen
  /\ consent.privacy => <<consent.lang, "privacy">> \in consent.seen
  /\ consent.step = "privacy" => consent.terms
  /\ Auth!LeavesWithConsent

\* It holds at the start, every step keeps it, and it says what is claimed.
LEMMA ConsentStart == Auth!Init => ConsentInv
BY DEF Auth!Init, ConsentInv, Auth!Closed, Auth!Dialog, Auth!Lang, Auth!LeavesWithConsent

\* A dialog started over asks for both texts again.
LEMMA RestartKeeps ==
  ASSUME NEW d \in Auth!Dialog
  PROVE  Auth!Restart(d) \in Auth!Dialog /\ Auth!Restart(d).step = "terms" /\ ~Auth!Restart(d).terms
         /\ ~Auth!Restart(d).privacy
BY DEF Auth!Restart, Auth!Dialog

LEMMA ConsentStep == ConsentInv /\ [Auth!Next]_authVars => ConsentInv'
<1> SUFFICES ASSUME ConsentInv, [Auth!Next]_authVars PROVE ConsentInv'
  OBVIOUS
<1>1. CASE UNCHANGED <<consent, away>>
  BY <1>1 DEF ConsentInv, Auth!LeavesWithConsent
<1>2. ASSUME NEW p, NEW a, Auth!Open(p, a) PROVE ConsentInv'
  <2>1. consent' = [Auth!Closed EXCEPT !.lang = consent.lang] /\ ~away'
    BY <1>2 DEF Auth!Open
  <2> QED
    BY <2>1 DEF ConsentInv, Auth!LeavesWithConsent, Auth!Closed, Auth!Dialog, Auth!Lang
<1>3. CASE Auth!OpenConsent
  <2>1. [consent EXCEPT !.open = TRUE, !.seen = {}] \in Auth!Dialog
    BY DEF ConsentInv, Auth!Dialog
  <2>2. consent' = Auth!Restart([consent EXCEPT !.open = TRUE, !.seen = {}])
        /\ ~away'
    BY <1>3 DEF Auth!OpenConsent, Auth!InDialog
  <2> QED BY <2>1, <2>2, RestartKeeps DEF ConsentInv, Auth!LeavesWithConsent
<1>4. CASE Auth!CloseConsent
  BY <1>4 DEF Auth!CloseConsent, Auth!InDialog, ConsentInv, Auth!LeavesWithConsent, Auth!Dialog
<1>5. ASSUME NEW l \in Auth!Lang, Auth!SwitchLang(l) PROVE ConsentInv'
  <2>1. [consent EXCEPT !.lang = l] \in Auth!Dialog
    BY DEF ConsentInv, Auth!Dialog
  <2>2. consent' = Auth!Restart([consent EXCEPT !.lang = l]) /\ ~away'
    BY <1>5 DEF Auth!SwitchLang, Auth!InDialog
  <2> QED BY <2>1, <2>2, RestartKeeps DEF ConsentInv, Auth!LeavesWithConsent
<1>6. CASE Auth!Accept
  <2>1. /\ ~away /\ away' = away /\ consent \in Auth!Dialog
    BY <1>6 DEF Auth!Accept, Auth!InDialog, ConsentInv
  <2>2. CASE consent.step = "terms"
    <3>1. consent' = [consent EXCEPT !.terms = ~consent.terms,
                        !.seen = IF ~consent.terms THEN @ \cup {<<consent.lang, "terms">>}
                                 ELSE @ \ {<<consent.lang, "terms">>}]
      BY <1>6, <2>1, <2>2 DEF Auth!Accept, Auth!Accepted, Auth!InDialog, Auth!Dialog
    <3>2. consent'.seen \in SUBSET (Auth!Lang \X {"terms", "privacy"})
      BY <2>1, <2>2, <3>1 DEF Auth!Dialog
    <3>3. consent' \in Auth!Dialog
      BY <2>1, <3>1, <3>2 DEF Auth!Dialog
    <3>4. /\ consent'.step = "terms" /\ consent'.lang = consent.lang
          /\ consent'.terms <=> ~consent.terms
          /\ consent'.privacy <=> consent.privacy
          /\ <<consent.lang, "privacy">> \in consent.seen
               => <<consent.lang, "privacy">> \in consent'.seen
          /\ ~consent.terms => <<consent.lang, "terms">> \in consent'.seen
      BY <2>1, <2>2, <3>1 DEF Auth!Dialog
    <3> QED
      BY <2>1, <2>2, <3>3, <3>4, Zenon DEF ConsentInv, Auth!LeavesWithConsent
  <2>3. CASE consent.step = "privacy"
    <3>1. consent' = [consent EXCEPT !.privacy = ~consent.privacy,
                        !.seen = IF ~consent.privacy THEN @ \cup {<<consent.lang, "privacy">>}
                                 ELSE @ \ {<<consent.lang, "privacy">>}]
      BY <1>6, <2>1, <2>3 DEF Auth!Accept, Auth!Accepted, Auth!InDialog, Auth!Dialog
    <3>2. consent'.seen \in SUBSET (Auth!Lang \X {"terms", "privacy"})
      BY <2>1, <2>3, <3>1 DEF Auth!Dialog
    <3>3. consent' \in Auth!Dialog
      BY <2>1, <3>1, <3>2 DEF Auth!Dialog
    <3>4. /\ consent'.step = "privacy" /\ consent'.lang = consent.lang
          /\ consent'.privacy <=> ~consent.privacy
          /\ consent'.terms <=> consent.terms
          /\ <<consent.lang, "terms">> \in consent.seen
               => <<consent.lang, "terms">> \in consent'.seen
          /\ ~consent.privacy => <<consent.lang, "privacy">> \in consent'.seen
      BY <2>1, <2>3, <3>1 DEF Auth!Dialog
    <3> QED
      BY <2>1, <2>3, <3>3, <3>4, Zenon DEF ConsentInv, Auth!LeavesWithConsent
  <2> QED BY <2>1, <2>2, <2>3 DEF Auth!Dialog
<1>7. CASE Auth!Continue
  BY <1>7 DEF Auth!Continue, Auth!Accepted, Auth!InDialog, ConsentInv,
              Auth!LeavesWithConsent, Auth!Dialog
<1>8. ASSUME NEW c, Auth!MeReply(c) \/ Auth!MeFails(c) PROVE ConsentInv'
  BY <1>8, <1>1 DEF Auth!MeReply, Auth!MeFails
<1>9. ASSUME NEW p, Auth!Navigate(p) PROVE ConsentInv'
  BY <1>9, <1>1 DEF Auth!Navigate
<1>10. CASE Auth!LeaveWelcome \/ Auth!Logout
  BY <1>10, <1>1 DEF Auth!LeaveWelcome, Auth!Logout
<1>11. CASE UNCHANGED authVars
  BY <1>11, <1>1 DEF authVars
<1> QED
  BY <1>2, <1>3, <1>4, <1>5, <1>6, <1>7, <1>8, <1>9, <1>10, <1>11, Zenon
     DEF Auth!Next, Auth!Visit, Auth!Return, Auth!ReturnError

-----------------------------------------------------------------------------
CookieInv ==
  /\ prefs \subseteq Category
  /\ cookie \subseteq Category \/ cookie = Cookies!NoCookie
  /\ Cookies!ConsentIsDecided

\* It holds at the start, every step keeps it, and it says what is claimed.
LEMMA CookiesStart == Cookies!Init => CookieInv
BY Zenon DEF Cookies!Init, CookieInv, Cookies!ConsentIsDecided,
   Cookies!GetConsent, Cookies!DefaultConsent, Cookies!NoCookie

LEMMA CookiesStep == CookieInv /\ [Cookies!Next]_cookiesVars => CookieInv'
<1> SUFFICES ASSUME CookieInv, [Cookies!Next]_cookiesVars PROVE CookieInv'
  OBVIOUS
<1>1. ASSUME NEW choice \in SUBSET Category, Cookies!SaveAndClose(choice), prefs' = prefs
      PROVE  CookieInv'
  BY <1>1, PartsAssumption DEF Cookies!SaveAndClose, CookieInv,
     Cookies!ConsentIsDecided, Cookies!NoCookie, Cookies!CategoryAssumption
<1>2. CASE Cookies!AcceptAll \/ Cookies!RejectAll \/ Cookies!SavePreferences
  BY <1>1, <1>2 DEF Cookies!AcceptAll, Cookies!RejectAll, Cookies!SavePreferences,
     Cookies!DefaultConsent, CookieInv
<1>3. CASE Cookies!OpenPreferences
  BY <1>3 DEF Cookies!OpenPreferences,
     CookieInv, Cookies!ConsentIsDecided, Cookies!Boxes, Cookies!GetConsent, Cookies!DefaultConsent
<1>31. CASE Cookies!CancelPreferences
  BY <1>31 DEF Cookies!CancelPreferences,
     CookieInv, Cookies!ConsentIsDecided, Cookies!Boxes, Cookies!GetConsent, Cookies!DefaultConsent
<1>32. CASE Cookies!MountBanner
  BY <1>32 DEF Cookies!MountBanner,
     CookieInv, Cookies!ConsentIsDecided, Cookies!Boxes, Cookies!GetConsent, Cookies!DefaultConsent
<1>4. CASE Cookies!Elsewhere
  BY <1>4 DEF Cookies!Elsewhere, CookieInv, Cookies!ConsentIsDecided, Cookies!Consent
<1>5. ASSUME NEW c \in Category, Cookies!ToggleCategory(c) PROVE CookieInv'
  BY <1>5 DEF Cookies!ToggleCategory, CookieInv, Cookies!ConsentIsDecided, Cookies!GetConsent
<1>6. CASE UNCHANGED cookiesVars
  BY <1>6 DEF cookiesVars, CookieInv, Cookies!ConsentIsDecided, Cookies!GetConsent
<1> QED
  BY <1>2, <1>3, <1>31, <1>32, <1>4, <1>5, <1>6, Zenon DEF Cookies!Next

(* In every behaviour who leaves for Google has seen and accepted both      *)
(* texts in the language shown, and a cookie stored was decided on          *)
(* (LoginConsentModal 79-190, CookieConsent 37-63).                         *)
THEOREM ConsentAlwaysFirst == Spec => []ConsentFirst
<1>1. Init => ConsentInv /\ CookieInv
  BY ConsentStart, CookiesStart DEF Init
<1>2. ConsentInv /\ CookieInv => ConsentFirst
  BY DEF ConsentInv, CookieInv, ConsentFirst, Of
<1> QED
  BY <1>1, <1>2, AuthAlone, ConsentStep, CookiesAlone, CookiesStep, PTL DEF Spec

-----------------------------------------------------------------------------
\* The list of keys and its two dialogs.

\* The cardinality of the instance is that of the library.
LEMMA KeysCardinality == ASSUME NEW S PROVE Keys!Cardinality(S) = Cardinality(S)
BY Zenon DEF Keys!Cardinality, Cardinality

\* A change of k has been served whose answer is not in yet.
Unanswered(k) == \E c \in creations \cup revocations : c.served /\ c.key = k

\* Listings are alone, and tell the truth about every key without such a change.
ListsTell ==
  /\ \A l1, l2 \in listings : l1 = l2
  /\ \A l \in listings : l.answer # Keys!Unserved =>
       \A k \in KeyId : ~Unanswered(k) => (l.answer[k] = "active" <=> issued[k] = "active")
  /\ listings = {} =>
       /\ ~keysLoading
       /\ \A k \in KeyId : ~Unanswered(k) =>
            (keyRows[k] = "active" <=> issued[k] = "active")

KeysInv ==
  /\ Keys!TypeOK
  /\ IsFiniteSet(listings)
  /\ ~keysApart => ListsTell
  /\ Keys!TickIsForThisKey

\* What the proofs use of the assumptions on the constants.
LEMMA KeysConstants == MaxListings \in Nat \ {0}
BY PartsAssumption DEF Keys!KeyAssumption

\* A new listing has a number of its own, and no answer.
LEMMA LoadAdds ==
  ASSUME NEW ls, IsFiniteSet(ls), Cardinality(ls) < MaxListings,
         ls \subseteq [at : 1..MaxListings, answer : Keys!Listing \cup {Keys!Unserved}]
  PROVE  \E call \in [at : 1..MaxListings, answer : Keys!Listing \cup {Keys!Unserved}] :
            Keys!Load(ls) = ls \cup {call} /\ call.answer = Keys!Unserved
<1> DEFINE f == [l \in ls |-> l.at]
<1>1. PICK n \in 1..MaxListings : \A l \in ls : f[l] # n
  <2> HIDE DEF f
  <2> QED BY FreeNumber, KeysConstants
<1>2. (CHOOSE m \in 1..MaxListings : \A l \in ls : l.at # m) \in 1..MaxListings
  <2>1. \A l \in ls : l.at # n
    BY <1>1
  <2> QED BY <2>1, Zenon
<1> DEFINE n2 == CHOOSE m \in 1..MaxListings : \A l \in ls : l.at # m
           call == [at |-> n2, answer |-> Keys!Unserved]
<1>3. Keys!Load(ls) = ls \cup {call}
  BY Zenon DEF Keys!Load
<1>4. call \in [at : 1..MaxListings, answer : Keys!Listing \cup {Keys!Unserved}]
  BY <1>2
<1>5. call.answer = Keys!Unserved
  OBVIOUS
<1> HIDE DEF call
<1> QED BY <1>3, <1>4, <1>5

\* It holds at the start, every step keeps it, and it says what is claimed.
LEMMA KeysStart == Keys!Init => KeysInv
<1> SUFFICES ASSUME Keys!Init PROVE KeysInv
  OBVIOUS
<1>1. PICK call \in [at : 1..MaxListings, answer : Keys!Listing \cup {Keys!Unserved}] :
             listings = {call} /\ call.answer = Keys!Unserved
  BY LoadAdds, KeysConstants, FS_EmptySet DEF Keys!Init
<1>2. Keys!TypeOK
  <2>1. issued \in Keys!Listing /\ keyRows \in Keys!Listing
    BY DEF Keys!Init, Keys!Blank, Keys!Listing, Keys!Status
  <2> QED BY <1>1, <2>1 DEF Keys!Init, Keys!Blank, Keys!TypeOK, Keys!Listing, Keys!Status
<1>3. IsFiniteSet(listings)
  BY <1>1, FS_Singleton
<1>4. ListsTell
  BY <1>1 DEF ListsTell, Keys!Blank
<1>5. Keys!TickIsForThisKey
  BY DEF Keys!Init, Keys!Blank, Keys!TickIsForThisKey
<1> QED BY <1>2, <1>3, <1>4, <1>5 DEF KeysInv

\* A step that leaves the server, the rows, the listings and the served changes
\* as they are.
LEMMA ListsTellStays ==
  ASSUME ListsTell, UNCHANGED <<issued, keyRows, keysLoading, listings>>,
         \A c \in creations \cup revocations : c.served => c \in (creations \cup revocations)'
  PROVE  ListsTell'
BY DEF ListsTell, Unanswered

\* A change has been answered and the list is asked for again.
LEMMA ReloadTells ==
  ASSUME KeysInv, Keys!Reload, UNCHANGED <<issued, keyRows, keysLoading>>
  PROVE  /\ listings' \subseteq [at : 1..MaxListings, answer : Keys!Listing \cup {Keys!Unserved}]
         /\ IsFiniteSet(listings')
         /\ ~keysApart' => ListsTell'
         /\ keysApart' \in BOOLEAN
<1>1. IsFiniteSet(listings) /\ Cardinality(listings) < MaxListings /\ Keys!TypeOK
  BY KeysCardinality DEF KeysInv, Keys!Reload, Keys!MayLoad
<1>2. PICK call \in [at : 1..MaxListings, answer : Keys!Listing \cup {Keys!Unserved}] :
             listings' = listings \cup {call} /\ call.answer = Keys!Unserved
  BY <1>1, LoadAdds DEF Keys!TypeOK, Keys!Reload
<1>3. IsFiniteSet(listings')
  BY <1>1, <1>2, FS_AddElement
<1>4. ~keysApart' => listings = {}
  BY DEF Keys!Reload
<1>5. ~keysApart' => ListsTell'
  BY <1>2, <1>4 DEF ListsTell
<1> QED BY <1>1, <1>2, <1>3, <1>5 DEF Keys!TypeOK, Keys!Reload

\* Every step of the page keeps it.
LEMMA KeysStep ==
  ASSUME KeysInv, [Keys!Next]_keysVars
  PROVE  KeysInv'
<1>0. Keys!TypeOK /\ IsFiniteSet(listings) /\ Keys!TickIsForThisKey
  BY DEF KeysInv
\* What the user does changes neither the server nor the listings.
<1>1. ASSUME NEW k \in KeyId, Keys!AskRevoke(k) PROVE KeysInv'
  <2>1. Keys!TypeOK' /\ Keys!TickIsForThisKey'
    BY <1>0, <1>1 DEF Keys!AskRevoke, Keys!TypeOK, Keys!TickIsForThisKey
  <2> QED BY <1>1, <2>1, ListsTellStays DEF KeysInv, Keys!AskRevoke
<1>2. ASSUME NEW how, Keys!Create(how) PROVE KeysInv'
  <2>1. (CHOOSE k \in Keys!Fresh : TRUE) \in KeyId
    BY <1>2, Zenon DEF Keys!Create, Keys!Fresh
  <2> DEFINE fresh == CHOOSE k \in Keys!Fresh : TRUE
  <2>10. fresh \in KeyId
    BY <2>1
  <2> HIDE DEF fresh
  <2>2. /\ creations' = creations \cup {[key |-> fresh, served |-> FALSE]}
        /\ creating' = TRUE /\ naming' \in BOOLEAN
        /\ UNCHANGED <<issued, keyRows, keysLoading, newKey, revokeTarget, backedUp,
                 listings, revocations, ticked, keysApart>>
    BY <1>2 DEF Keys!Create, fresh
  <2>3. Keys!TypeOK' /\ Keys!TickIsForThisKey'
    <3>1. [key |-> fresh, served |-> FALSE] \in Keys!Call
      BY <2>10 DEF Keys!Call
    <3>2. creations' \subseteq Keys!Call
      BY <1>0, <2>2, <3>1 DEF Keys!TypeOK
    <3> QED
      BY <1>0, <2>2, <3>2 DEF Keys!TypeOK, Keys!TickIsForThisKey
  <2> QED BY <2>2, <2>3, ListsTellStays DEF KeysInv
<1>3. CASE Keys!SwitchCreateDialog
  <2>1. Keys!TypeOK' /\ Keys!TickIsForThisKey'
    BY <1>0, <1>3 DEF Keys!SwitchCreateDialog, Keys!TypeOK, Keys!TickIsForThisKey
  <2> QED BY <1>3, <2>1, ListsTellStays DEF KeysInv, Keys!SwitchCreateDialog
<1>4. CASE Keys!TickBackedUp
  <2>1. Keys!TypeOK' /\ Keys!TickIsForThisKey'
    BY <1>0, <1>4 DEF Keys!TickBackedUp, Keys!TypeOK, Keys!TickIsForThisKey, Keys!Dialog
  <2> QED BY <1>4, <2>1, ListsTellStays DEF KeysInv, Keys!TickBackedUp
<1>5. ASSUME NEW how, Keys!Dismiss(how) PROVE KeysInv'
  <2>1. Keys!TypeOK' /\ Keys!TickIsForThisKey'
    BY <1>0, <1>5 DEF Keys!Dismiss, Keys!TypeOK, Keys!TickIsForThisKey
  <2> QED BY <1>5, <2>1, ListsTellStays DEF KeysInv, Keys!Dismiss
<1>6. ASSUME NEW yes, Keys!AnswerRevoke(yes) PROVE KeysInv'
  <2>0. revokeTarget \in KeyId
    BY <1>0, <1>6 DEF Keys!AnswerRevoke, Keys!Dialog, Keys!Shown
  <2>1. Keys!TypeOK' /\ Keys!TickIsForThisKey'
    <3>1. [key |-> revokeTarget, served |-> FALSE] \in Keys!Call
      BY <2>0 DEF Keys!Call
    <3>2. revocations' \subseteq Keys!Call
      BY <1>0, <1>6, <3>1 DEF Keys!AnswerRevoke, Keys!TypeOK
    <3> QED
      BY <1>0, <1>6, <3>2 DEF Keys!AnswerRevoke, Keys!TypeOK, Keys!TickIsForThisKey
  <2> QED BY <1>6, <2>1, ListsTellStays DEF KeysInv, Keys!AnswerRevoke
<1>7. CASE Keys!ServeStep
  <2>0. UNCHANGED <<keyRows, keysLoading, newKey, creating, naming, revokeTarget,
                 backedUp, ticked, keysApart>>
    BY <1>7 DEF Keys!ServeStep
  <2>00. Keys!TickIsForThisKey'
    BY <1>0, <2>0 DEF Keys!TickIsForThisKey
  <2>1. ASSUME NEW c \in creations, ~c.served,
               issued' = [issued EXCEPT ![c.key] = "active"],
               creations' = (creations \ {c}) \cup {[c EXCEPT !.served = TRUE]},
               UNCHANGED <<listings, revocations>>
        PROVE  KeysInv'
    <3>1. [c EXCEPT !.served = TRUE] \in Keys!Call /\ [c EXCEPT !.served = TRUE].key = c.key
          /\ [c EXCEPT !.served = TRUE].served /\ c.key \in KeyId
      BY <1>0, <2>1 DEF Keys!TypeOK, Keys!Call
    <3>2. Keys!TypeOK'
      BY <1>0, <2>0, <2>1, <3>1 DEF Keys!TypeOK, Keys!Listing, Keys!Status
    <3>3. \A k \in KeyId : ~Unanswered(k)' => ~Unanswered(k) /\ k # c.key
      BY <2>1, <3>1 DEF Unanswered
    <3>4. \A k \in KeyId : k # c.key => issued'[k] = issued[k]
      BY <1>0, <2>1 DEF Keys!TypeOK, Keys!Listing
    <3>5. ListsTell => ListsTell'
      BY <2>0, <2>1, <3>3, <3>4 DEF ListsTell
    <3> QED BY <1>0, <2>0, <2>00, <2>1, <3>2, <3>5 DEF KeysInv
  <2>2. ASSUME NEW c \in revocations, ~c.served,
               issued' = [issued EXCEPT ![c.key] = "gone"],
               revocations' = (revocations \ {c}) \cup {[c EXCEPT !.served = TRUE]},
               UNCHANGED <<listings, creations>>
        PROVE  KeysInv'
    <3>1. [c EXCEPT !.served = TRUE] \in Keys!Call /\ [c EXCEPT !.served = TRUE].key = c.key
          /\ [c EXCEPT !.served = TRUE].served /\ c.key \in KeyId
      BY <1>0, <2>2 DEF Keys!TypeOK, Keys!Call
    <3>2. Keys!TypeOK'
      BY <1>0, <2>0, <2>2, <3>1 DEF Keys!TypeOK, Keys!Listing, Keys!Status
    <3>3. \A k \in KeyId : ~Unanswered(k)' => ~Unanswered(k) /\ k # c.key
      BY <2>2, <3>1 DEF Unanswered
    <3>4. \A k \in KeyId : k # c.key => issued'[k] = issued[k]
      BY <1>0, <2>2 DEF Keys!TypeOK, Keys!Listing
    <3>5. ListsTell => ListsTell'
      BY <2>0, <2>2, <3>3, <3>4 DEF ListsTell
    <3> QED BY <1>0, <2>0, <2>00, <2>2, <3>2, <3>5 DEF KeysInv
  <2>3. ASSUME NEW l \in listings, l.answer = Keys!Unserved,
               listings' = (listings \ {l}) \cup {[l EXCEPT !.answer = issued]},
               UNCHANGED <<issued, creations, revocations>>
        PROVE  KeysInv'
    <3>1. [l EXCEPT !.answer = issued] 
          \in [at : 1..MaxListings, answer : Keys!Listing \cup {Keys!Unserved}]
          /\ [l EXCEPT !.answer = issued].answer = issued
      BY <1>0, <2>3 DEF Keys!TypeOK
    <3>2. Keys!TypeOK'
      BY <1>0, <2>0, <2>3, <3>1 DEF Keys!TypeOK
    <3>3. IsFiniteSet(listings')
      BY <1>0, <2>3, FS_RemoveElement, FS_AddElement
    <3>4. ListsTell => ListsTell'
      BY <2>0, <2>3, <3>1 DEF ListsTell, Unanswered
    <3> QED BY <2>0, <2>00, <2>3, <3>2, <3>3, <3>4 DEF KeysInv
  <2> QED
    BY <1>7, <2>1, <2>2, <2>3, Zenon DEF Keys!ServeStep, Keys!Serve
<1>8. ASSUME NEW c \in creations, Keys!CreateReply(c) PROVE KeysInv'
  <2>1. c.key \in KeyId
    BY <1>0 DEF Keys!TypeOK, Keys!Call
  <2>2. Keys!TypeOK' /\ IsFiniteSet(listings') /\ (~keysApart' => ListsTell')
    BY <1>0, <1>8, <2>1, ReloadTells DEF Keys!CreateReply, Keys!OffersKey, Keys!TypeOK
  <2>3. Keys!TickIsForThisKey'
    BY <1>8 DEF Keys!CreateReply, Keys!OffersKey, Keys!TickIsForThisKey
  <2> QED BY <2>2, <2>3 DEF KeysInv
<1>9. ASSUME NEW c \in creations, Keys!CreateFails(c) PROVE KeysInv'
  <2>1. Keys!TypeOK' /\ Keys!TickIsForThisKey'
    BY <1>0, <1>9 DEF Keys!CreateFails, Keys!TypeOK, Keys!TickIsForThisKey, Keys!Call
  <2>2. ~keysApart' => ListsTell'
    BY <1>9, ListsTellStays DEF KeysInv, Keys!CreateFails
  <2> QED BY <1>0, <1>9, <2>1, <2>2 DEF KeysInv, Keys!CreateFails
<1>10. ASSUME NEW r \in revocations, Keys!RevokeReply(r) PROVE KeysInv'
  <2>2. Keys!TypeOK' /\ IsFiniteSet(listings') /\ (~keysApart' => ListsTell')
    BY <1>0, <1>10, ReloadTells DEF Keys!RevokeReply, Keys!Revoked, Keys!TypeOK
  <2>3. Keys!TickIsForThisKey'
    BY <1>0, <1>10 DEF Keys!RevokeReply, Keys!TickIsForThisKey
  <2> QED BY <2>2, <2>3 DEF KeysInv
<1>11. ASSUME NEW r \in revocations, Keys!RevokeFails(r) PROVE KeysInv'
  <2>1. Keys!TypeOK' /\ Keys!TickIsForThisKey'
    BY <1>0, <1>11 DEF Keys!RevokeFails, Keys!TypeOK, Keys!TickIsForThisKey, Keys!Call
  <2>2. ~keysApart' => ListsTell'
    BY <1>11, ListsTellStays DEF KeysInv, Keys!RevokeFails
  <2> QED BY <1>0, <1>11, <2>1, <2>2 DEF KeysInv, Keys!RevokeFails
<1>12. ASSUME NEW l \in listings, Keys!ListReply(l) \/ Keys!ListFails(l) PROVE KeysInv'
  <2>1. IsFiniteSet(listings')
    BY <1>0, <1>12, FS_RemoveElement DEF Keys!ListReply, Keys!ListFails
  <2>2. Keys!TypeOK' /\ Keys!TickIsForThisKey'
    <3>1. keyRows' \in Keys!Listing /\ listings' \subseteq listings
      BY <1>0, <1>12 DEF Keys!ListReply, Keys!ListFails, Keys!TypeOK
    <3>2. CASE Keys!ListReply(l)
      BY <1>0, <3>1, <3>2 DEF Keys!ListReply, Keys!TypeOK, Keys!TickIsForThisKey
    <3>3. CASE Keys!ListFails(l)
      BY <1>0, <3>1, <3>3 DEF Keys!ListFails, Keys!TypeOK, Keys!TickIsForThisKey
    <3> QED BY <1>12, <3>2, <3>3
  <2>3. ~keysApart' => ListsTell'
    BY <1>12 DEF Keys!ListReply, Keys!ListFails, KeysInv, ListsTell, Unanswered
  <2> QED BY <2>1, <2>2, <2>3 DEF KeysInv
<1>13. CASE UNCHANGED keysVars
  BY <1>13 DEF keysVars, KeysInv, Keys!TypeOK, ListsTell, Unanswered, Keys!TickIsForThisKey
<1> QED
  BY <1>1, <1>2, <1>3, <1>4, <1>5, <1>6, <1>7, <1>8, <1>9, <1>10, <1>11, <1>12,
     <1>13, Zenon DEF Keys!Next

\* The invariant says that the list is current.
LEMMA KeysHold == KeysInv => Keys!ListCurrent
BY DEF KeysInv, ListsTell, Unanswered, Keys!ListCurrent, Keys!Shown

(* In every behaviour a tick under "I have backed up my secret key" was set *)
(* for the key that is shown (Keys 90-108).                                 *)
THEOREM TickAlwaysForThisKey == Spec => []TickIsForThisKey
<1>1. Init => KeysInv
  BY KeysStart DEF Init
<1>2. KeysInv => TickIsForThisKey
  BY DEF KeysInv, TickIsForThisKey, Of
<1> QED BY <1>1, <1>2, KeysAlone, KeysStep, PTL DEF Spec

-----------------------------------------------------------------------------
\* The composer of the chat and its question.

\* While the question is shown and nothing has changed behind it, it is the
\* question that send would ask now, about the text that would be sent.
QuestionIsCurrent ==
  Compose!Asking /\ ~moved =>
    /\ askFirst /\ confirm.kind = Compose!Asks
    /\ confirm.text = IF pendingText # Compose!NoText THEN pendingText ELSE input

ComposerInv == Compose!TypeOK /\ QuestionIsCurrent /\ Compose!QuestionFirst

\* It holds at the start, every step keeps it, and it says what is claimed.
LEMMA ComposerStart == Compose!Init => ComposerInv
<1> SUFFICES ASSUME Compose!Init PROVE ComposerInv
  OBVIOUS
<1>1. Compose!TypeOK
  BY DEF Compose!Init, Compose!TypeOK, Compose!Model
<1>2. ~Compose!Asking /\ ~sent.ask
  BY DEF Compose!Init, Compose!Asking, Compose!Nothing
<1> QED BY <1>1, <1>2 DEF ComposerInv, QuestionIsCurrent, Compose!QuestionFirst

\* What send makes of the tools is a question or none.
LEMMA AskedTypes ==
  ASSUME Compose!TypeOK
  PROVE  /\ Compose!DoImageGen \in BOOLEAN
         /\ Compose!Asks \in {"image", "search", "none"}
         /\ Compose!Asks # "none" <=> Compose!DoImageGen \/ webSearch
         /\ Compose!Asks # "none" =>
              Compose!Asks = IF Compose!DoImageGen THEN "image" ELSE "search"
BY DEF Compose!TypeOK, Compose!DoImageGen, Compose!Asks

\* A message sent, or the question asked before it, keeps the invariant.
LEMMA SubmitKeeps ==
  ASSUME ComposerInv, NEW t \in Text \cup {Compose!NoText}, NEW skip \in BOOLEAN,
         Compose!Submit(t, skip), skip => Compose!Asking /\ t = pendingText
  PROVE  ComposerInv'
<1> DEFINE what == IF t # Compose!NoText THEN t ELSE input
           willAsk == askFirst /\ ~skip /\ Compose!Asks # "none"
           outgoing == [text |-> what, image |-> Compose!DoImageGen,
                       search |-> webSearch, ask |-> askFirst,
                       asked |-> IF skip THEN confirm ELSE Compose!NoQuestion,
                       moved |-> moved]
<1>1. /\ UNCHANGED <<model, models, freeTier, exceeded, imageGen, webSearch, askFirst>>
      /\ what # Compose!NoText
  BY DEF Compose!Submit, Compose!tools
<1>2. Compose!TypeOK
  BY DEF ComposerInv
<1>3. what \in Text
  BY <1>1, <1>2 DEF Compose!TypeOK
<1>4. Compose!Asks' = Compose!Asks
  BY <1>1 DEF Compose!Asks, Compose!DoImageGen, Compose!RequestModel
<1>5. CASE willAsk
  <2>1. /\ confirm' = [kind |-> Compose!Asks, text |-> what]
        /\ pendingText' = t /\ moved' = FALSE
        /\ UNCHANGED <<input, working, sent>>
    BY <1>5 DEF Compose!Submit
  <2>2. confirm' \in Compose!Question
    BY <1>2, <1>3, <1>5, <2>1, AskedTypes DEF Compose!Question
  <2>3. Compose!TypeOK'
    BY <1>1, <1>2, <2>1, <2>2 DEF Compose!TypeOK
  <2>4. QuestionIsCurrent'
    BY <1>1, <1>4, <1>5, <2>1 DEF QuestionIsCurrent
  <2>5. Compose!QuestionFirst'
    BY <2>1 DEF ComposerInv, Compose!QuestionFirst
  <2> QED BY <2>3, <2>4, <2>5 DEF ComposerInv
<1>6. CASE ~willAsk
  <2>1. /\ sent' = outgoing /\ working' = TRUE /\ input' = Compose!NoText
        /\ confirm' = IF skip THEN Compose!NoQuestion ELSE confirm
        /\ pendingText' = IF skip THEN Compose!NoText ELSE pendingText
        /\ moved' = (moved /\ ~skip)
    BY <1>6 DEF Compose!Submit
  <2>2. outgoing \in Compose!Request
    BY <1>2, <1>3, AskedTypes DEF Compose!TypeOK, Compose!Request
  <2>3. Compose!TypeOK'
    BY <1>1, <1>2, <2>1, <2>2 DEF Compose!TypeOK
  <2>4. QuestionIsCurrent'
    <3>1. CASE skip
      BY <3>1, <2>1 DEF QuestionIsCurrent, Compose!Asking
    <3>2. CASE ~skip
      <4> SUFFICES ASSUME Compose!Asking', ~moved' PROVE FALSE
        BY DEF QuestionIsCurrent
      <4>1. Compose!Asking /\ ~moved
        BY <2>1, <3>2, <1>2 DEF Compose!Asking, Compose!TypeOK
      <4>2. askFirst /\ confirm.kind = Compose!Asks /\ confirm \in Compose!Question
        BY <4>1, <1>2 DEF ComposerInv, QuestionIsCurrent, Compose!Asking, Compose!TypeOK
      <4> QED BY <4>2, <1>6, <3>2 DEF Compose!Question
    <3> QED BY <3>1, <3>2
  <2>5. Compose!QuestionFirst'
    <3> SUFFICES ASSUME askFirst, Compose!DoImageGen \/ webSearch
                 PROVE  /\ outgoing.asked \in Compose!Question
                        /\ ~moved => /\ outgoing.asked.text = what
                                     /\ outgoing.asked.kind = IF Compose!DoImageGen
                                                              THEN "image" ELSE "search"
      BY <2>1 DEF Compose!QuestionFirst
    <3>1. skip /\ confirm \in Compose!Question
      BY <1>2, <1>6, AskedTypes DEF Compose!Asking, Compose!TypeOK
    <3>2. ~moved => confirm.kind = Compose!Asks /\ confirm.text = what
      BY <3>1 DEF ComposerInv, QuestionIsCurrent
    <3> QED BY <3>1, <3>2, <1>2, AskedTypes
  <2> QED BY <2>3, <2>4, <2>5 DEF ComposerInv
<1> QED BY <1>5, <1>6

\* Whatever else happens leaves the request or ends it, and notes a change
\* behind the question.
LEMMA BehindKeeps ==
  ASSUME ComposerInv, Compose!TypeOK', Compose!Behind, UNCHANGED <<pendingText, confirm>>,
         sent' \in {sent, Compose!Nothing}
  PROVE  ComposerInv'
<1>1. QuestionIsCurrent'
  BY DEF QuestionIsCurrent, Compose!Behind, Compose!Asking, Compose!TypeOK
<1>2. Compose!QuestionFirst'
  BY DEF ComposerInv, Compose!QuestionFirst, Compose!Nothing
<1> QED BY <1>1, <1>2 DEF ComposerInv

LEMMA ComposerStep == ComposerInv /\ [Compose!Next]_composerVars => ComposerInv'
<1> SUFFICES ASSUME ComposerInv, [Compose!Next]_composerVars PROVE ComposerInv'
  OBVIOUS
<1>0. Compose!TypeOK
  BY DEF ComposerInv
<1>1. ASSUME NEW t \in Text, Compose!Suggestion(t) PROVE ComposerInv'
  BY <1>1, SubmitKeeps DEF Compose!Suggestion
<1>2. ASSUME NEW t \in Text \cup {Compose!NoText}, Compose!Type(t) PROVE ComposerInv'
  BY <1>0, <1>2, BehindKeeps DEF Compose!Type, Compose!TypeOK, Compose!tools, Compose!Behind
<1>3. CASE Compose!Enter
  BY <1>3, SubmitKeeps DEF Compose!Enter
<1>4. ASSUME confirm' = Compose!NoQuestion, pendingText' = Compose!NoText, moved' = FALSE,
             UNCHANGED <<input, model, models, freeTier, exceeded, Compose!tools, working, sent>>
      PROVE  ComposerInv'
  BY <1>0, <1>4 DEF ComposerInv, Compose!TypeOK, QuestionIsCurrent, Compose!Asking,
     Compose!QuestionFirst, Compose!tools
<1>5. CASE Compose!Confirm
  <2>1. CASE Compose!Submit(pendingText, TRUE)
    BY <1>0, <1>5, <2>1, SubmitKeeps, Zenon DEF Compose!Confirm, Compose!TypeOK
  <2> QED BY <1>4, <1>5, <2>1 DEF Compose!Confirm
<1>6. CASE Compose!Cancel
  BY <1>4, <1>6 DEF Compose!Cancel
<1>7. CASE Compose!Toggle
  BY <1>0, <1>7, BehindKeeps DEF Compose!Toggle, Compose!TypeOK, Compose!Behind
<1>8. ASSUME NEW m \in Compose!Model, Compose!ChooseModel(m) PROVE ComposerInv'
  BY <1>0, <1>8, BehindKeeps DEF Compose!ChooseModel, Compose!TypeOK,
     Compose!tools, Compose!Behind
<1>9. CASE Compose!ChangeRoute \/ Compose!TurnEnds
  BY <1>0, <1>9, BehindKeeps DEF Compose!ChangeRoute, Compose!TurnEnds, Compose!TypeOK,
     Compose!tools, Compose!Behind
<1>10. CASE Compose!TierArrives \/ Compose!LimitsArrive
  BY <1>0, <1>10, BehindKeeps DEF Compose!TierArrives, Compose!LimitsArrive, Compose!TypeOK,
     Compose!tools, Compose!Behind
<1>11. CASE Compose!ModelsArrive \/ UNCHANGED composerVars
  <2>1. UNCHANGED <<input, pendingText, confirm, model, freeTier, exceeded, imageGen,
                    webSearch, askFirst, working, sent, moved>> /\ models' \in BOOLEAN
    BY <1>0, <1>11 DEF Compose!ModelsArrive, Compose!tools, composerVars, Compose!TypeOK
  <2> QED
    BY <1>0, <2>1 DEF ComposerInv, Compose!TypeOK, QuestionIsCurrent, Compose!Asking,
       Compose!QuestionFirst, Compose!Asks, Compose!DoImageGen, Compose!RequestModel
<1> QED
  BY <1>1, <1>2, <1>3, <1>5, <1>6, <1>7, <1>8, <1>9, <1>10, <1>11, Zenon DEF Compose!Next

(* In every behaviour a message that uses a tool while "Ask first" is on    *)
(* went through one question, and if nothing moved behind it the question   *)
(* was about the text sent and about the image if one is drawn, else about  *)
(* the search (Chat3 856-870).                                              *)
THEOREM QuestionAlwaysFirst == Spec => []QuestionFirst
<1>1. Init => ComposerInv
  BY ComposerStart DEF Init
<1>2. ComposerInv => QuestionFirst
  BY DEF ComposerInv, QuestionFirst, Of
<1> QED BY <1>1, <1>2, ComposerAlone, ComposerStep, PTL DEF Spec

-----------------------------------------------------------------------------
\* The dialogs and lists that load from a server that they also change.

\* No answer says canceled, and no load is under way beside a cancellation that
\* nothing crossed: after it only the dialog's own mark is on the screen.
UpgradeInv ==
  /\ \A f \in subFetches : f = [n |-> f.n, answer |-> f.answer] /\ f.answer # "canceled"
  /\ cancelCall = "served" \/ sub = "canceled" \/ upgradeNotice = "done" => cancelled
  /\ ~subCrossed =>
       /\ cancelCall # "none" \/ upgradeNotice = "done" => subFetches = {}
       /\ upgradeNotice = "done" => sub # "loaded"

\* It holds at the start, every step keeps it, and it says what is claimed.
LEMMA UpgradeStart == Upgrade!Init => UpgradeInv
BY DEF Upgrade!Init, UpgradeInv

LEMMA UpgradeStep == UpgradeInv /\ [Upgrade!Next]_upgradeVars => UpgradeInv'
<1> SUFFICES ASSUME UpgradeInv, [Upgrade!Next]_upgradeVars PROVE UpgradeInv'
  OBVIOUS
<1>1. CASE Upgrade!Open
  <2> DEFINE call == [n |-> CHOOSE n \in Upgrade!Slot : \A f \in subFetches : f.n # n,
                      answer |-> "unserved"]
  <2>1. subFetches' = subFetches \cup {call}
    BY <1>1, Zenon DEF Upgrade!Open
  <2>2. call = [n |-> call.n, answer |-> call.answer] /\ call.answer = "unserved"
    OBVIOUS
  <2> HIDE DEF call
  <2> QED BY <1>1, <2>1, <2>2 DEF Upgrade!Open, UpgradeInv
<1>2. CASE Upgrade!CancelSub
  BY <1>2 DEF Upgrade!CancelSub, UpgradeInv
<1>3. CASE Upgrade!ServeCancel
  BY <1>3 DEF Upgrade!ServeCancel, UpgradeInv
<1>4. ASSUME NEW ok \in BOOLEAN, Upgrade!CancelEnds(ok) PROVE UpgradeInv'
  BY <1>4 DEF Upgrade!CancelEnds, UpgradeInv, Upgrade!AfterCancel
<1>5. ASSUME NEW f \in subFetches, NEW ok \in BOOLEAN, Upgrade!SubArrives(f, ok) PROVE UpgradeInv'
  BY <1>5 DEF Upgrade!SubArrives, UpgradeInv
<1>6. ASSUME NEW f \in subFetches, Upgrade!ServeFetch(f) PROVE UpgradeInv'
  <2>1. f = [n |-> f.n, answer |-> f.answer]
    BY DEF UpgradeInv
  <2>2. PICK g : g = [f EXCEPT !.answer = "loaded"]
    OBVIOUS
  <2>3. g = [n |-> g.n, answer |-> g.answer] /\ g.answer = "loaded"
    BY <2>1, <2>2
  <2>4. /\ subFetches' = (subFetches \ {f}) \cup {g}
        /\ UNCHANGED <<cancelled, sub, cancelCall, subCrossed, upgradeNotice>>
    BY <1>6, <2>2 DEF Upgrade!ServeFetch
  <2> QED BY <2>3, <2>4 DEF UpgradeInv
<1>7. ASSUME UNCHANGED <<cancelled, sub, cancelCall, subFetches, subCrossed, upgradeNotice>>
      PROVE  UpgradeInv'
  BY <1>7 DEF UpgradeInv
<1>8. CASE Upgrade!Close \/ Upgrade!Join \/ Upgrade!CloseFallback
  BY <1>7, <1>8 DEF Upgrade!Close, Upgrade!Join, Upgrade!CloseFallback
<1>9. ASSUME NEW x, NEW y, Upgrade!JoinAnswered(y) \/ Upgrade!LoadEnds(x, y)
             \/ Upgrade!StartCheckout(x) \/ Upgrade!CheckoutEnds(x)
      PROVE  UpgradeInv'
  BY <1>7, <1>9 DEF Upgrade!JoinAnswered, Upgrade!LoadEnds, Upgrade!StartCheckout,
     Upgrade!CheckoutEnds
<1>10. CASE UNCHANGED upgradeVars
  BY <1>7, <1>10 DEF upgradeVars
<1> QED
  BY <1>1, <1>2, <1>3, <1>4, <1>5, <1>6, <1>8, <1>9, <1>10, Zenon DEF Upgrade!Next

LEMMA UpgradeHolds == UpgradeInv => Upgrade!CancelHolds
BY DEF UpgradeInv, Upgrade!CancelHolds

-----------------------------------------------------------------------------
\* Without a crossing there is one load, while nothing is being written, and
\* its answer is what the server stores; without either, what is shown is.
\* Without a write served and not heard of, it is so during the write as well.
MembersInv ==
  /\ write = [what |-> write.what, served |-> write.served, list |-> write.list]
  /\ write.what = "none" <=> write = Members!NoCall
  /\ write.what = "clear" => write.list = {}
  /\ \A f \in memberFetches : f = [n |-> f.n, served |-> f.served, list |-> f.list]
  /\ ~membersCrossed =>
       /\ \A f, g \in memberFetches : f = g
       /\ memberFetches # {} => write = Members!NoCall
       /\ \A f \in memberFetches : f.served => f.list = members
       /\ write.served /\ write.what # "levels" => members = write.list
       /\ memberFetches = {} /\ ~membersUnheard /\ (write.served => write.what = "levels")
            => ids = members /\ count = Cardinality(members)

\* The cardinality of the instance is that of the library.
LEMMA MembersCardinality == ASSUME NEW S PROVE Members!Cardinality(S) = Cardinality(S)
BY Zenon DEF Members!Cardinality, Cardinality

\* It holds at the start, every step keeps it, and it says what is claimed.
LEMMA MembersStart == Members!Init => MembersInv
BY FS_EmptySet DEF Members!Init, MembersInv, Members!NoCall

LEMMA MembersStep == MembersInv /\ [Members!Next]_membersVars => MembersInv'
<1> SUFFICES ASSUME MembersInv, [Members!Next]_membersVars PROVE MembersInv'
  OBVIOUS
<1>1. ASSUME Members!Load, UNCHANGED <<members, ids, count, write, membersUnheard>>
      PROVE  MembersInv'
  <2> DEFINE call == [n |-> CHOOSE n \in Members!Slot : \A f \in memberFetches : f.n # n,
                      served |-> FALSE, list |-> {}]
  <2>1. memberFetches' = memberFetches \cup {call}
    BY <1>1, Zenon DEF Members!Load
  <2>2. call = [n |-> call.n, served |-> call.served, list |-> call.list] /\ call.served = FALSE
    OBVIOUS
  <2>3. membersCrossed' = (membersCrossed \/ memberFetches # {} \/ write # Members!NoCall)
    BY <1>1 DEF Members!Load
  <2> HIDE DEF call
  <2> QED BY <1>1, <2>1, <2>2, <2>3 DEF MembersInv, Members!NoCall
<1>2. CASE Members!Open \/ Members!Refresh
  BY <1>1, <1>2 DEF Members!Open, Members!Refresh
<1>3. ASSUME UNCHANGED <<members, ids, count, write, memberFetches, membersCrossed, membersUnheard>>
      PROVE  MembersInv'
  BY <1>3 DEF MembersInv
<1>4. CASE Members!Close \/ UNCHANGED membersVars
  BY <1>3, <1>4 DEF Members!Close, membersVars
<1>5. ASSUME NEW p, Members!Paste(p) \/ Members!PasteLevels(p) PROVE MembersInv'
  BY <1>3, <1>5 DEF Members!Paste, Members!PasteLevels
<1>6. ASSUME NEW what \in {"save", "clear", "levels"}, NEW list, Members!MayWrite(what),
             Members!Sends(what, list), what = "clear" => list = {},
             UNCHANGED <<members, ids, count, memberFetches, membersUnheard>>
      PROVE  MembersInv'
  BY <1>6 DEF Members!Sends, Members!MayWrite, MembersInv, Members!NoCall
<1>7. CASE Members!Save
  <2>1. CASE Members!Sends("save", Members!ParseInput)
    BY <1>6, <1>7, <2>1 DEF Members!Save
  <2>2. CASE Members!Refuses
    BY <1>3, <1>7, <2>2 DEF Members!Save, Members!Refuses
  <2> QED BY <1>7, <2>1, <2>2 DEF Members!Save
<1>8. CASE Members!SaveLevels
  <2>1. CASE Members!Sends("levels", {})
    BY <1>6, <1>8, <2>1 DEF Members!SaveLevels
  <2>2. CASE Members!Refuses
    BY <1>3, <1>8, <2>2 DEF Members!SaveLevels, Members!Refuses
  <2> QED BY <1>8, <2>1, <2>2 DEF Members!SaveLevels
<1>9. CASE Members!Clear
  BY <1>6, <1>9 DEF Members!Clear
<1>10. CASE Members!SaveReply
  BY <1>10, MembersCardinality DEF Members!SaveReply, Members!Answered, Members!Finished,
     Members!Listed, MembersInv, Members!NoCall
<1>11. CASE Members!LevelsReply
  BY <1>11 DEF Members!LevelsReply, Members!Answered, Members!Finished, MembersInv, Members!NoCall
<1>12. CASE Members!ClearReply
  BY <1>12, FS_EmptySet DEF Members!ClearReply, Members!Answered, Members!Finished, MembersInv,
     Members!NoCall
<1>13. CASE Members!WriteFails
  BY <1>13 DEF Members!WriteFails, MembersInv, Members!NoCall
<1>14. CASE Members!ServeWrite
  BY <1>14 DEF Members!ServeWrite, MembersInv, Members!NoCall
<1>15. ASSUME NEW f \in memberFetches, NEW ok \in BOOLEAN, Members!ListArrives(f, ok)
       PROVE  MembersInv'
  BY <1>15, MembersCardinality DEF Members!ListArrives, MembersInv, Members!NoCall
<1>16. ASSUME NEW f \in memberFetches, Members!ServeFetch(f) PROVE MembersInv'
  <2>1. PICK g : g = [f EXCEPT !.served = TRUE, !.list = members]
    OBVIOUS
  <2>0. f = [n |-> f.n, served |-> f.served, list |-> f.list]
    BY DEF MembersInv
  <2>2. g = [n |-> g.n, served |-> g.served, list |-> g.list] /\ g.list = members
    BY <2>0, <2>1
  <2>3. /\ memberFetches' = (memberFetches \ {f}) \cup {g}
        /\ UNCHANGED <<members, ids, count, write, membersCrossed, membersUnheard>>
    BY <1>16, <2>1 DEF Members!ServeFetch
  <2> QED BY <2>2, <2>3 DEF MembersInv
<1> QED
  BY <1>2, <1>4, <1>5, <1>7, <1>8, <1>9, <1>10, <1>11, <1>12, <1>13, <1>14, <1>15,
     <1>16, Zenon DEF Members!Next

LEMMA MembersHold == MembersInv => Members!MembersShown
BY MembersCardinality DEF MembersInv, Members!MembersShown, Members!Listing, Members!NoCall

-----------------------------------------------------------------------------
\* Without a crossing there is one load, of this opening, and its answer is not
\* older; a spinner stands for it.
PaymentsInv ==
  /\ paid \in Nat /\ payments \in Nat /\ due \in Nat /\ due <= paid
  /\ \A f \in paymentFetches : /\ f = [n |-> f.n, answer |-> f.answer]
                               /\ f.answer \in Nat \cup {-1}
  /\ paymentsLoading => paymentFetches # {}
  /\ ~paymentsCrossed =>
       /\ \A f, g \in paymentFetches : f = g
       /\ \A f \in paymentFetches : f.answer # -1 => f.answer >= due
       /\ paymentFetches = {} /\ ~error => payments >= due
       /\ paymentFetches # {} => paymentsLoading

\* It holds at the start, every step keeps it, and it says what is claimed.
LEMMA PaymentsStart == Payments!Init => PaymentsInv
BY DEF Payments!Init, PaymentsInv

LEMMA PaymentsStep == PaymentsInv /\ [Payments!Next]_paymentsVars => PaymentsInv'
<1> SUFFICES ASSUME PaymentsInv, [Payments!Next]_paymentsVars PROVE PaymentsInv'
  OBVIOUS
<1>1. CASE Payments!Open
  <2> DEFINE call == [n |-> CHOOSE n \in Payments!Slot : \A f \in paymentFetches : f.n # n,
                      answer |-> -1]
  <2>1. paymentFetches' = paymentFetches \cup {call}
    BY <1>1, Zenon DEF Payments!Open
  <2>2. call = [n |-> call.n, answer |-> call.answer] /\ call.answer = -1
    OBVIOUS
  <2>3. /\ paymentsLoading' = TRUE /\ due' = paid
        /\ paymentsCrossed' = (paymentsCrossed \/ paymentFetches # {})
        /\ UNCHANGED <<paid, payments>>
    BY <1>1 DEF Payments!Open
  <2> HIDE DEF call
  <2>4. ASSUME NEW f \in paymentFetches'
        PROVE  f = [n |-> f.n, answer |-> f.answer] /\ f.answer \in Nat \cup {-1}
    BY <2>1, <2>2 DEF PaymentsInv
  <2>5. ~paymentsCrossed' => paymentFetches' = {call}
    BY <2>1, <2>3
  <2> QED BY <2>1, <2>2, <2>3, <2>4, <2>5 DEF PaymentsInv
<1>2. CASE Payments!Close
  BY <1>2 DEF Payments!Close, PaymentsInv
<1>3. CASE Payments!Pay
  BY <1>3 DEF Payments!Pay, PaymentsInv
<1>4. ASSUME NEW f \in paymentFetches, Payments!PaymentsArrive(f) PROVE PaymentsInv'
  BY <1>4 DEF Payments!PaymentsArrive, PaymentsInv
<1>5. ASSUME NEW f \in paymentFetches, Payments!PaymentsFail(f) PROVE PaymentsInv'
  BY <1>5 DEF Payments!PaymentsFail, PaymentsInv
<1>6. ASSUME NEW f \in paymentFetches, Payments!ServePayments(f) PROVE PaymentsInv'
  <2>0. f = [n |-> f.n, answer |-> f.answer]
    BY DEF PaymentsInv
  <2>1. PICK g : g = [f EXCEPT !.answer = paid]
    OBVIOUS
  <2>2. g = [n |-> g.n, answer |-> g.answer] /\ g.answer = paid
    BY <2>0, <2>1
  <2>3. /\ paymentFetches' = (paymentFetches \ {f}) \cup {g}
        /\ UNCHANGED <<paid, payments, paymentsLoading, error, due, paymentsCrossed>>
    BY <1>6, <2>1 DEF Payments!ServePayments
  <2> QED BY <2>2, <2>3 DEF PaymentsInv
<1>7. CASE UNCHANGED paymentsVars
  BY <1>7 DEF paymentsVars, PaymentsInv
<1> QED
  BY <1>1, <1>2, <1>3, <1>4, <1>5, <1>6, <1>7, Zenon DEF Payments!Next

LEMMA PaymentsHold == PaymentsInv => Payments!PaymentsShown
BY DEF PaymentsInv, Payments!PaymentsShown, Payments!Body

-----------------------------------------------------------------------------
\* Of a message that is not apart there is one request at most, and the server
\* has the mark it asked for, or the one of before, as it has been served or
\* not; without a request, the mark shown is the stored one.
ReactionsInv ==
  /\ stored \in [StoredMessage -> React!Reaction] /\ mark \in [StoredMessage -> React!Reaction]
  /\ shown \in {NewerMarks, OlderMarks \o NewerMarks}
  /\ \A r \in requests :
       /\ r = [n |-> r.n, idx |-> r.idx, id |-> r.id, next |-> r.next, old |-> r.old,
               served |-> r.served]
       /\ r.id \in StoredMessage /\ {r.next, r.old} \subseteq React!Reaction
       /\ r.served \in BOOLEAN
  /\ \A m \in StoredMessage \ marksApart :
       /\ \A r, q \in requests : r.id = m /\ q.id = m => r = q
       /\ \A r \in requests : r.id = m =>
            /\ mark[m] = r.next /\ r.next # r.old
            /\ stored[m] = IF r.served THEN r.next ELSE r.old
       /\ (\A r \in requests : r.id # m) => mark[m] = stored[m]

\* What is shown on the page are messages of the server.
LEMMA ShownAreMessages ==
  ASSUME ReactionsInv, NEW i \in 1..React!Len(shown)
  PROVE  shown[i] \in StoredMessage
<1>1. OlderMarks \in Seq(StoredMessage) /\ NewerMarks \in Seq(StoredMessage)
  BY PartsAssumption DEF React!MessageAssumption
<1>2. OlderMarks \o NewerMarks \in Seq(StoredMessage)
  BY <1>1
<1>3. shown \in Seq(StoredMessage)
  BY <1>1, <1>2 DEF ReactionsInv
<1> QED BY <1>3

\* It holds at the start, every step keeps it, and it says what is claimed.
LEMMA ReactionsStart == React!Init => ReactionsInv
BY DEF React!Init, ReactionsInv, React!Reaction

LEMMA ReactionsStep == ReactionsInv /\ [React!Next]_reactionsVars => ReactionsInv'
<1> SUFFICES ASSUME ReactionsInv, [React!Next]_reactionsVars PROVE ReactionsInv'
  OBVIOUS
<1>1. ASSUME NEW i \in 1..React!Len(shown), NEW v \in {"like", "dislike"}, React!React(i, v)
      PROVE  ReactionsInv'
  <2>0. PICK m \in StoredMessage : m = shown[i]
    BY ShownAreMessages
  <2> DEFINE next == IF mark[m] = v THEN "null" ELSE v
             call == [n |-> CHOOSE n \in 1..MaxReactions : \A r \in requests : r.n # n,
                      idx |-> i, id |-> m, next |-> next, old |-> mark[m], served |-> FALSE]
  <2>1. /\ requests' = requests \cup {call}
        /\ mark' = [mark EXCEPT ![m] = next]
        /\ marksApart' = IF \E r \in requests : r.id = m THEN marksApart \cup {m} ELSE marksApart
        /\ UNCHANGED <<stored, shown>>
    BY <1>1, <2>0, Zenon DEF React!React
  <2>2. /\ call = [n |-> call.n, idx |-> call.idx, id |-> call.id, next |-> call.next,
                   old |-> call.old, served |-> call.served]
        /\ call.id = m /\ call.next = next /\ call.old = mark[m] /\ call.served = FALSE
    OBVIOUS
  <2>3. mark[m] \in React!Reaction /\ next \in React!Reaction /\ next # mark[m]
    <3>1. mark[m] \in React!Reaction
      BY DEF ReactionsInv
    <3>2. CASE mark[m] = v
      BY <3>1, <3>2 DEF React!Reaction
    <3>3. CASE mark[m] # v
      BY <3>1, <3>3 DEF React!Reaction
    <3> QED BY <3>1, <3>2, <3>3
  <2> HIDE DEF call, next
  <2>4. ASSUME NEW r \in requests'
        PROVE  /\ r = [n |-> r.n, idx |-> r.idx, id |-> r.id, next |-> r.next, old |-> r.old,
                       served |-> r.served]
               /\ r.id \in StoredMessage /\ {r.next, r.old} \subseteq React!Reaction
               /\ r.served \in BOOLEAN
    <3>1. CASE r = call
      BY <2>2, <2>3, <3>1
    <3>2. CASE r \in requests
      BY <3>2 DEF ReactionsInv
    <3> QED BY <2>1, <3>1, <3>2
  <2>5. mark' \in [StoredMessage -> React!Reaction] /\ mark'[m] = next
        /\ \A x \in StoredMessage : x # m => mark'[x] = mark[x]
    <3>1. mark \in [StoredMessage -> React!Reaction] /\ next \in React!Reaction
      BY <2>3 DEF ReactionsInv
    <3> QED BY <2>1, <3>1
  <2>6. ASSUME NEW x \in StoredMessage \ marksApart'
        PROVE  /\ \A r, q \in requests' : r.id = x /\ q.id = x => r = q
               /\ \A r \in requests' : r.id = x =>
                    /\ mark'[x] = r.next /\ r.next # r.old
                    /\ stored[x] = IF r.served THEN r.next ELSE r.old
               /\ (\A r \in requests' : r.id # x) => mark'[x] = stored[x]
    <3>1. CASE x = m
      BY <2>1, <2>2, <2>3, <2>5, <3>1 DEF ReactionsInv
    <3>2. CASE x # m
      BY <2>1, <2>2, <2>5, <3>2 DEF ReactionsInv
    <3> QED BY <3>1, <3>2
  <2> QED BY <2>1, <2>4, <2>5, <2>6 DEF ReactionsInv
<1>2. ASSUME NEW r \in requests, React!Serve(r) PROVE ReactionsInv'
  <2>0. /\ r = [n |-> r.n, idx |-> r.idx, id |-> r.id, next |-> r.next, old |-> r.old,
                served |-> r.served]
        /\ r.id \in StoredMessage /\ {r.next, r.old} \subseteq React!Reaction
    BY DEF ReactionsInv
  <2>9. PICK made \in React!Reaction : made = React!Toggled(r)
    BY <2>0 DEF React!Toggled, React!Reaction
  <2>1. PICK q : q = [r EXCEPT !.served = TRUE, !.next = made]
    OBVIOUS
  <2>2. /\ q = [n |-> q.n, idx |-> q.idx, id |-> q.id, next |-> q.next, old |-> q.old,
                served |-> q.served]
        /\ q.id = r.id /\ q.next = made /\ q.old = r.old /\ q.served = TRUE
    BY <2>0, <2>1
  <2>3. /\ requests' = (requests \ {r}) \cup {q} /\ ~r.served
        /\ stored' = [stored EXCEPT ![r.id] = made]
        /\ UNCHANGED <<mark, shown, marksApart>>
    BY <1>2, <2>1, <2>9 DEF React!Serve
  <2>4. /\ stored' \in [StoredMessage -> React!Reaction] /\ stored'[r.id] = made
        /\ \A x \in StoredMessage : x # r.id => stored'[x] = stored[x]
    BY <2>0, <2>3 DEF ReactionsInv
  <2>7. r.id \notin marksApart => made = r.next
    BY <2>0, <2>3, <2>9 DEF React!Toggled, ReactionsInv
  <2>5. ASSUME NEW p \in requests'
        PROVE  /\ p = [n |-> p.n, idx |-> p.idx, id |-> p.id, next |-> p.next, old |-> p.old,
                       served |-> p.served]
               /\ p.id \in StoredMessage /\ {p.next, p.old} \subseteq React!Reaction
               /\ p.served \in BOOLEAN
    <3>1. CASE p = q
      BY <2>0, <2>2, <2>9, <3>1
    <3>2. CASE p \in requests
      BY <3>2 DEF ReactionsInv
    <3> QED BY <2>3, <3>1, <3>2
  <2>6. ASSUME NEW x \in StoredMessage \ marksApart
        PROVE  /\ \A p, o \in requests' : p.id = x /\ o.id = x => p = o
               /\ \A p \in requests' : p.id = x =>
                    /\ mark[x] = p.next /\ p.next # p.old
                    /\ stored'[x] = IF p.served THEN p.next ELSE p.old
               /\ (\A p \in requests' : p.id # x) => mark[x] = stored'[x]
    <3>1. CASE x = r.id
      BY <2>2, <2>3, <2>4, <2>7, <3>1 DEF ReactionsInv
    <3>2. CASE x # r.id
      BY <2>2, <2>3, <2>4, <3>2 DEF ReactionsInv
    <3> QED BY <3>1, <3>2
  <2> QED BY <2>3, <2>4, <2>5, <2>6 DEF ReactionsInv
<1>3. ASSUME NEW r \in requests, React!Reply(r) \/ React!Fails(r) PROVE ReactionsInv'
  <2>0. r.id \in StoredMessage /\ {r.next, r.old} \subseteq React!Reaction
    BY DEF ReactionsInv
  <2>1. /\ requests' = requests \ {r} /\ UNCHANGED <<stored, shown>>
        /\ marksApart \subseteq marksApart'
    BY <1>3 DEF React!Reply, React!Fails
  <2>2. mark' \in [StoredMessage -> React!Reaction]
    BY <1>3, <2>0 DEF React!Reply, React!Fails, React!Put, ReactionsInv
  <2>3. \A x \in StoredMessage : x # r.id => mark'[x] = mark[x]
    BY <1>3, <2>0 DEF React!Reply, React!Fails, React!Put, ReactionsInv
  <2>4. r.id \notin marksApart' => mark'[r.id] = stored[r.id]
    <3>1. CASE React!Reply(r)
      BY <3>1, <2>0 DEF React!Reply, React!Put, ReactionsInv
    <3>2. CASE React!Fails(r)
      BY <3>2, <2>0 DEF React!Fails, React!Put, ReactionsInv
    <3> QED BY <1>3, <3>1, <3>2
  <2>5. ASSUME NEW x \in StoredMessage \ marksApart'
        PROVE  /\ \A p, o \in requests' : p.id = x /\ o.id = x => p = o
               /\ \A p \in requests' : p.id = x =>
                    /\ mark'[x] = p.next /\ p.next # p.old
                    /\ stored[x] = IF p.served THEN p.next ELSE p.old
               /\ (\A p \in requests' : p.id # x) => mark'[x] = stored[x]
    <3>1. CASE x = r.id
      BY <2>1, <2>4, <3>1 DEF ReactionsInv
    <3>2. CASE x # r.id
      BY <2>1, <2>3, <3>2 DEF ReactionsInv
    <3> QED BY <3>1, <3>2
  <2> QED BY <2>1, <2>2, <2>5 DEF ReactionsInv
<1>4. CASE React!PageArrives
  BY <1>4 DEF React!PageArrives, ReactionsInv
<1>5. CASE UNCHANGED reactionsVars
  BY <1>5 DEF reactionsVars, ReactionsInv
<1> QED
  BY <1>1, <1>2, <1>3, <1>4, <1>5, Zenon DEF React!Next

LEMMA ReactionsHold == ReactionsInv => React!MarksAreStored
BY DEF ReactionsInv, React!MarksAreStored

-----------------------------------------------------------------------------
\* Since the last reading began alone, what it has read is what the server
\* still has, but for a change that is under way and will be read after; and
\* the list on the screen is the last one read.
SidebarInv ==
  /\ removing = [of |-> removing.of, snapshot |-> removing.snapshot, served |-> removing.served]
  /\ \A l \in listCalls : l = [n |-> l.n, read |-> l.read, answer |-> l.answer]
  /\ ~listsCrossed =>
       /\ \A l, k \in listCalls : l = k
       /\ saving # "served" /\ ~removing.served =>
            \A l \in listCalls : l.read => l.answer = keptChats
       /\ listCalls = {} /\ saving # "served" /\ removing = Sidebar!NoRemoval
            => conversations = IF listLost THEN {} ELSE keptChats

\* It holds at the start, every step keeps it, and it says what is claimed.
LEMMA SidebarStart == Sidebar!Init => SidebarInv
<1> SUFFICES ASSUME Sidebar!Init PROVE SidebarInv
  OBVIOUS
<1>1. removing = [of |-> removing.of, snapshot |-> removing.snapshot, served |-> removing.served]
  BY DEF Sidebar!Init, Sidebar!NoRemoval
<1>2. \A l \in listCalls : l = [n |-> l.n, read |-> l.read, answer |-> l.answer] /\ ~l.read
  BY DEF Sidebar!Init, Sidebar!Unread
<1>3. \A l, k \in listCalls : l = k
  BY DEF Sidebar!Init
<1>4. listCalls # {}
  BY DEF Sidebar!Init
<1> QED BY <1>1, <1>2, <1>3, <1>4 DEF SidebarInv

\* A refresh adds one request, not read yet.
LEMMA RefreshIsNew ==
  ASSUME Sidebar!Refresh
  PROVE  \E l : /\ listCalls' = listCalls \cup {l} /\ ~l.read
                /\ l = [n |-> l.n, read |-> l.read, answer |-> l.answer]
                /\ listsCrossed' = (listCalls # {})
<1> DEFINE l == Sidebar!Unread(CHOOSE n \in 1..MaxLists : \A c \in listCalls : c.n # n)
<1>1. listCalls' = listCalls \cup {l}
  BY Zenon DEF Sidebar!Refresh
<1>2. l = [n |-> l.n, read |-> l.read, answer |-> l.answer] /\ ~l.read
  BY DEF Sidebar!Unread
<1>3. listsCrossed' = (listCalls # {})
  BY DEF Sidebar!Refresh
<1> HIDE DEF l
<1> QED BY <1>1, <1>2, <1>3

LEMMA SidebarStep == SidebarInv /\ [Sidebar!Next]_sidebarVars => SidebarInv'
<1> SUFFICES ASSUME SidebarInv, [Sidebar!Next]_sidebarVars PROVE SidebarInv'
  OBVIOUS
<1>1. CASE Sidebar!Save
  BY <1>1 DEF Sidebar!Save, SidebarInv
<1>2. ASSUME NEW ok \in BOOLEAN, Sidebar!SaveEnds(ok) PROVE SidebarInv'
  <2>1. saving' = "none" /\ Sidebar!Refresh
        /\ UNCHANGED <<keptChats, conversations, removing, listLost>>
    BY <1>2 DEF Sidebar!SaveEnds
  <2>2. PICK l : /\ listCalls' = listCalls \cup {l} /\ ~l.read
                 /\ l = [n |-> l.n, read |-> l.read, answer |-> l.answer]
                 /\ listsCrossed' = (listCalls # {})
    BY <2>1, RefreshIsNew
  <2> QED BY <2>1, <2>2 DEF SidebarInv
<1>3. ASSUME NEW ok \in BOOLEAN, Sidebar!RemoveEnds(ok) PROVE SidebarInv'
  <2>1. removing' = Sidebar!NoRemoval /\ Sidebar!Refresh
        /\ UNCHANGED <<keptChats, saving, listLost>>
    BY <1>3 DEF Sidebar!RemoveEnds
  <2>2. PICK l : /\ listCalls' = listCalls \cup {l} /\ ~l.read
                 /\ l = [n |-> l.n, read |-> l.read, answer |-> l.answer]
                 /\ listsCrossed' = (listCalls # {})
    BY <2>1, RefreshIsNew
  <2> QED BY <2>1, <2>2 DEF SidebarInv, Sidebar!NoRemoval
<1>4. ASSUME NEW c \in Chats, Sidebar!Remove(c) PROVE SidebarInv'
  BY <1>4 DEF Sidebar!Remove, SidebarInv, Sidebar!NoRemoval
<1>5. ASSUME NEW l \in listCalls, NEW ok \in BOOLEAN, Sidebar!ListEnds(l, ok)
      PROVE  SidebarInv'
  <2>1. /\ ok => l.read
        /\ listCalls' = listCalls \ {l}
        /\ conversations' = IF ok THEN l.answer ELSE {}
        /\ listLost' = ~ok
        /\ UNCHANGED <<keptChats, saving, removing, listsCrossed>>
    BY <1>5 DEF Sidebar!ListEnds
  <2>2. removing = Sidebar!NoRemoval => ~removing.served
    BY DEF Sidebar!NoRemoval
  <2> QED BY <2>1, <2>2 DEF SidebarInv
<1>6. CASE Sidebar!ServeStep
  <2>0. UNCHANGED <<conversations, listsCrossed, listLost>>
    BY <1>6 DEF Sidebar!ServeStep
  <2>1. ASSUME NEW l \in listCalls, ~l.read,
               listCalls' = (listCalls \ {l}) \cup {[l EXCEPT !.read = TRUE,
                                                              !.answer = keptChats]},
               UNCHANGED <<keptChats, saving, removing>>
        PROVE  SidebarInv'
    <3>1. PICK k : k = [l EXCEPT !.read = TRUE, !.answer = keptChats]
      OBVIOUS
    <3>2. l = [n |-> l.n, read |-> l.read, answer |-> l.answer]
      BY DEF SidebarInv
    <3>3. k = [n |-> k.n, read |-> k.read, answer |-> k.answer] /\ k.answer = keptChats
      BY <3>1, <3>2
    <3>4. listCalls' = (listCalls \ {l}) \cup {k}
      BY <2>1, <3>1
    <3> QED BY <2>0, <2>1, <3>3, <3>4 DEF SidebarInv
  <2>2. ASSUME saving' = "served", UNCHANGED <<listCalls, removing>> PROVE SidebarInv'
    BY <2>0, <2>2 DEF SidebarInv
  <2>3. ASSUME removing # Sidebar!NoRemoval, removing' = [removing EXCEPT !.served = TRUE],
               UNCHANGED <<listCalls, saving>>
        PROVE  SidebarInv'
    <3>1. /\ removing' = [of |-> removing'.of, snapshot |-> removing'.snapshot,
                          served |-> removing'.served]
          /\ removing'.served = TRUE /\ removing' # Sidebar!NoRemoval
      BY <2>3 DEF SidebarInv, Sidebar!NoRemoval
    <3> QED BY <2>0, <2>3, <3>1 DEF SidebarInv
  <2> QED BY <1>6, <2>1, <2>2, <2>3, Zenon DEF Sidebar!ServeStep,
       Sidebar!ServeList, Sidebar!ServeSave, Sidebar!ServeRemove
<1>7. CASE UNCHANGED sidebarVars
  BY <1>7 DEF sidebarVars, SidebarInv
<1> QED
  BY <1>1, <1>2, <1>3, <1>4, <1>5, <1>6, <1>7, Zenon DEF Sidebar!Next

LEMMA SidebarHolds == SidebarInv => Sidebar!SidebarAgrees
BY DEF SidebarInv, Sidebar!SidebarAgrees

-----------------------------------------------------------------------------
\* A row that has expired by the clock of the server is not active once it has
\* been used; and a mark stands for the key.
RowsInv ==
  /\ zone \in Int /\ hour \in Nat /\ expirationDays \in Nat
  /\ \A r \in {keyRow, listedRow} :
       /\ r = [expires |-> r.expires, active |-> r.active] /\ r.active \in BOOLEAN
       /\ r.expires \in Nat \cup {Rows!Never}
  /\ copiedMark => clipboard = "key" \/ denied

\* It holds at the start, every step keeps it, and it says what is claimed.
LEMMA RowsStart == Rows!Init => RowsInv
BY PartsAssumption DEF Rows!ExpirationAssumption, Rows!Init, RowsInv, Rows!NoRow, Rows!Never

LEMMA RowsStep == RowsInv /\ [Rows!Next]_rowsVars => RowsInv'
<1> SUFFICES ASSUME RowsInv, [Rows!Next]_rowsVars PROVE RowsInv'
  OBVIOUS
<1> USE DEF RowsInv
<1>1. ASSUME NEW d \in Expirations, Rows!ChooseExpiration(d) PROVE RowsInv'
  BY <1>1, PartsAssumption DEF Rows!ExpirationAssumption, Rows!ChooseExpiration
<1>2. CASE Rows!CreateKey
  <2>1. PICK until : until = IF expirationDays > 0 THEN hour + expirationDays ELSE Rows!Never
    OBVIOUS
  <2>2. until \in Nat \cup {Rows!Never}
    BY <2>1
  <2>3. /\ keyRow' = [expires |-> until, active |-> TRUE] /\ listedRow' = keyRow'
        /\ expirationDays' = FirstExpiration /\ copiedMark' = FALSE
        /\ UNCHANGED <<zone, hour, clipboard, denied>>
    BY <1>2, <2>1 DEF Rows!CreateKey
  <2>4. FirstExpiration \in Nat
    BY PartsAssumption DEF Rows!ExpirationAssumption
  <2> QED BY <2>2, <2>3, <2>4
<1>3. CASE Rows!LoadKeys
  BY <1>3 DEF Rows!LoadKeys
<1>4. CASE Rows!ToggleKeyVisibility \/ Rows!MarkGoes \/ Rows!HourPasses
  BY <1>4 DEF Rows!ToggleKeyVisibility, Rows!MarkGoes, Rows!HourPasses
<1>5. ASSUME NEW ok \in BOOLEAN, Rows!HandleCopy(ok) \/ Rows!CopyToClipboard(ok) PROVE RowsInv'
  <2>1. copiedMark' => clipboard' = "key" \/ denied'
    BY <1>5, Zenon DEF Rows!HandleCopy, Rows!CopyToClipboard
  <2>2. UNCHANGED <<zone, hour, expirationDays, keyRow, listedRow>>
    BY <1>5 DEF Rows!HandleCopy, Rows!CopyToClipboard
  <2> QED BY <2>1, <2>2
<1>6. CASE Rows!Use
  <2>1. Rows!Accepts \in BOOLEAN
    BY DEF Rows!Accepts
  <2>2. PICK ok \in BOOLEAN : ok = Rows!Accepts
    BY <2>1
  <2>3. keyRow' = [keyRow EXCEPT !.active = ok]
        /\ UNCHANGED <<zone, hour, expirationDays, listedRow, copiedMark, clipboard, denied>>
    BY <1>6, <2>2 DEF Rows!Use
  <2> QED BY <2>3
<1>7. CASE UNCHANGED rowsVars
  BY <1>7 DEF rowsVars
<1> QED
  BY <1>1, <1>2, <1>3, <1>4, <1>5, <1>6, <1>7, Zenon DEF Rows!Next

LEMMA RowsHold == RowsInv => Rows!RowsTell
<1> SUFFICES ASSUME RowsInv, Rows!Listed, listedRow = keyRow
             PROVE  LET active == Rows!Card.status = "Active"
                    IN /\ zone = 0 \/ ~Rows!Near(hour, keyRow.expires) => (active <=> Rows!Accepts)
                       /\ zone > 0 => (active => Rows!Accepts)
                       /\ zone < 0 => (Rows!Card.status = "Expired" => ~Rows!Accepts)
                       /\ keyRow.expires = Rows!Never => active
  BY DEF RowsInv, Rows!RowsTell
<1>1. /\ keyRow.active \in BOOLEAN /\ keyRow.expires \in Nat \cup {-1}
      /\ keyRow.expires = -1 => keyRow.active
      /\ zone \in Int /\ hour \in Nat
  BY DEF RowsInv, Rows!Listed, Rows!NoRow, Rows!Never
<1>2. /\ Rows!Card.status = "Active" <=> keyRow.active /\ ~Rows!IsExpired(keyRow.expires)
      /\ Rows!Card.status = "Expired" <=> keyRow.active /\ Rows!IsExpired(keyRow.expires)
  BY DEF Rows!Card, Rows!StatusLabel
<1> QED BY <1>1, <1>2 DEF Rows!IsExpired, Rows!Accepts, Rows!Near, Rows!Never

(* In every behaviour a list or dialog without an answer outstanding shows  *)
(* what the server has, unless two of its requests crossed, an answer was   *)
(* lost or, for a mark, an older page had moved it; a subscription is       *)
(* called cancelled only when it is, though not always when it is; and a    *)
(* key is called what it is, as far as the browser's zone lets it (Keys     *)
(* 54-125, UpgradeDialog 50-107, the dialogs of members and of payments,    *)
(* reactMsg of Chat3, chat-history).                                        *)
THEOREM ListsAlwaysAgree == Spec => []ListsAgree
<1> DEFINE Inv == /\ KeysInv /\ UpgradeInv /\ MembersInv /\ PaymentsInv
                  /\ ReactionsInv /\ SidebarInv /\ RowsInv
<1>1. Init => Inv
  BY KeysStart, UpgradeStart, MembersStart, PaymentsStart, ReactionsStart,
     SidebarStart, RowsStart DEF Init
<1>2. Inv /\ [Next]_vars => Inv'
  BY KeysAlone, KeysStep, UpgradeAlone, UpgradeStep, MembersAlone, MembersStep,
     PaymentsAlone, PaymentsStep, ReactionsAlone, ReactionsStep, SidebarAlone,
     SidebarStep, RowsAlone, RowsStep, Zenon
<1>3. Inv => ListsAgree
  BY KeysHold, UpgradeHolds, MembersHold, PaymentsHold, ReactionsHold,
     SidebarHolds, RowsHold DEF ListsAgree, Of
<1> HIDE DEF Inv
<1> QED BY <1>1, <1>2, <1>3, PTL DEF Spec

-----------------------------------------------------------------------------
(****************************************************************************)
(* What AnswersMatch says of each part.  First the page of an               *)
(* administrator and the legal texts: an answer is applied only where it    *)
(* belongs.                                                                 *)
(****************************************************************************)
\* The dialog of the owner's page shows the usage of its user, unless calls were
\* mixed; something under way stands behind every skeleton.
AdminInv ==
  /\ selectedUser \in Person \cup {Nobody}
  /\ \A q \in queries : q.of \in Person
  /\ selectedUser # Nobody /\ ~mixed =>
       /\ \A q \in queries : q.of = selectedUser
       /\ userUsage # Admin!NoUsage => userUsage.of = selectedUser
  /\ usageLoading => queries # {}
  /\ selectedUser # Nobody /\ queries = {} => usageErr \/ userUsage # Admin!NoUsage
  /\ pageLoading => polls # {}

\* A call of a user's usage.
LEMMA LoadIsOf ==
  ASSUME NEW u, NEW d, Admin!Load(u, d)
  PROVE  /\ \E q : queries' = queries \cup {q} /\ q.of = u
         /\ usageLoading' = TRUE /\ usageErr' = FALSE
<1> DEFINE q == [n |-> Admin!Free(queries), of |-> u, days |-> d]
<1>1. queries' = queries \cup {q}
  BY Zenon DEF Admin!Load, Admin!AskUsage
<1>2. q.of = u
  OBVIOUS
<1>3. usageLoading' = TRUE /\ usageErr' = FALSE
  BY DEF Admin!Load
<1> HIDE DEF q
<1> QED BY <1>1, <1>2, <1>3

\* A status that is asked for is under way.
LEMMA AskStatusAdds ==
  ASSUME NEW c, NEW bare, NEW manual
  PROVE  Admin!AskStatus(c, bare, manual) # {}
BY DEF Admin!AskStatus

\* It holds at the start, every step keeps it, and it says what is claimed.
LEMMA AdminStart == Admin!Init => AdminInv
BY PartsAssumption, AskStatusAdds DEF Admin!Init, AdminInv, Admin!NoUsage

LEMMA AdminStep == AdminInv /\ [Admin!Next]_adminVars => AdminInv'
<1> SUFFICES ASSUME AdminInv, [Admin!Next]_adminVars PROVE AdminInv'
  OBVIOUS
<1>0. Nobody \notin Person
  BY PartsAssumption DEF Admin!AdminAssumption
<1>1. CASE Admin!Tick
  BY <1>1, AskStatusAdds DEF Admin!Tick, Admin!dialog, AdminInv
<1>2. CASE Admin!Refresh
  BY <1>2, AskStatusAdds DEF Admin!Refresh, Admin!dialog, AdminInv
<1>3. CASE Admin!CloseUser
  BY <1>3 DEF Admin!CloseUser, Admin!page, AdminInv
<1>4. ASSUME NEW d, Admin!Load(selectedUser, d), selectedUser # Nobody,
             UNCHANGED <<selectedUser, userUsage, mixed, pageLoading, polls>>
      PROVE  AdminInv'
  <2>1. PICK q : queries' = queries \cup {q} /\ q.of = selectedUser
    BY <1>4, LoadIsOf
  <2>2. selectedUser \in Person
    BY <1>4 DEF AdminInv
  <2> QED BY <1>4, <2>1, <2>2 DEF AdminInv
<1>5. CASE Admin!RefreshUsage
  BY <1>4, <1>5 DEF Admin!RefreshUsage, Admin!page
<1>6. ASSUME NEW p \in polls, Admin!PauseEnds(p) PROVE AdminInv'
  BY <1>6 DEF Admin!PauseEnds, Admin!dialog, AdminInv
<1>7. ASSUME NEW p \in polls, NEW ok \in BOOLEAN, Admin!StatusReply(p, ok) PROVE AdminInv'
  <2>1. pageLoading' => polls' # {}
    BY <1>7 DEF Admin!StatusReply, AdminInv
  <2> QED BY <1>7, <2>1 DEF Admin!StatusReply, Admin!dialog, AdminInv
<1>8. ASSUME NEW u \in Person, Admin!OpenUser(u) PROVE AdminInv'
  <2>1. PICK q : queries' = queries \cup {q} /\ q.of = u
    BY <1>8, LoadIsOf DEF Admin!OpenUser
  <2>2. /\ selectedUser' = u /\ userUsage' = Admin!NoUsage /\ mixed' = (queries # {})
        /\ UNCHANGED <<pageLoading, polls>>
    BY <1>8 DEF Admin!OpenUser, Admin!Emptied, Admin!page
  <2> QED BY <1>0, <2>1, <2>2 DEF AdminInv
<1>9. ASSUME NEW d \in Ranges, Admin!ChooseDays(d) PROVE AdminInv'
  BY <1>4, <1>9 DEF Admin!ChooseDays, Admin!page
<1>10. ASSUME NEW q \in queries, Admin!UsageReply(q) PROVE AdminInv'
  <2>1. /\ userUsage' = [of |-> q.of, days |-> q.days] /\ usageLoading' = FALSE
        /\ queries' = queries \ {q}
        /\ UNCHANGED <<selectedUser, usageErr, mixed, pageLoading, polls>>
    BY <1>10 DEF Admin!UsageReply, Admin!page
  <2>2. q.of \in Person
    BY DEF AdminInv
  <2>3. userUsage' # Admin!NoUsage /\ userUsage'.of = q.of
    BY <1>0, <2>1, <2>2 DEF Admin!NoUsage
  <2> QED BY <2>1, <2>3 DEF AdminInv
<1>11. ASSUME NEW q \in queries, Admin!UsageFails(q) PROVE AdminInv'
  BY <1>11 DEF Admin!UsageFails, Admin!page, AdminInv
<1>12. CASE UNCHANGED adminVars
  BY <1>12 DEF adminVars, AdminInv
<1> QED
  BY <1>1, <1>2, <1>3, <1>5, <1>6, <1>7, <1>8, <1>9, <1>10, <1>11, <1>12, Zenon
     DEF Admin!Next

LEMMA AdminHolds == AdminInv => Admin!UsageIsOfSelected
BY DEF AdminInv, Admin!UsageIsOfSelected, Admin!DialogBody, Admin!Screen

-----------------------------------------------------------------------------
\* The text is the one of its title once the last request has answered.
LegalInv ==
  /\ legalPage \in Legal!Pages /\ legalLang \in Legal!Lang /\ asked \in Nat
  /\ \A r \in reads : r.n \in Nat /\ r.n <= asked /\ r.of \in Legal!Document
  /\ \A r \in reads : r.n = asked => r.of = Legal!Path
  /\ shownRead = asked /\ mdText \in Legal!Document => mdText = Legal!Path
  /\ mdText = Legal!Loading => \E r \in reads : r.n = asked
  /\ legalStore # "refused" => legalLang = Legal!StoredLang

\* A path is the name of a document, which no message is.
LEMMA PathIsDocument ==
  ASSUME legalPage \in Legal!Pages, legalLang \in Legal!Lang
  PROVE  Legal!Path \in Legal!Document
BY DEF Legal!Path, Legal!Document

LEMMA MessagesAreNone ==
  /\ Legal!Loading \notin Legal!Document /\ Legal!Failed \notin Legal!Document
  /\ Legal!ErrorPage \notin Legal!Document
  /\ Legal!Loading # Legal!Failed /\ Legal!Loading # Legal!ErrorPage
BY Zenon DEF Legal!Loading, Legal!Failed, Legal!ErrorPage, Legal!Document, Legal!Pages, Legal!Lang

\* It holds at the start, every step keeps it, and it says what is claimed.
LEMMA LegalStart == Legal!Init => LegalInv
<1> SUFFICES ASSUME Legal!Init PROVE LegalInv
  OBVIOUS
<1>1. legalPage \in Legal!Pages /\ legalLang \in Legal!Lang
  BY DEF Legal!Init, Legal!Pages, Legal!Lang, Legal!StoredLang
<1>2. Legal!Path \in Legal!Document
  BY <1>1, PathIsDocument
<1> QED BY <1>1, <1>2, MessagesAreNone DEF Legal!Init, LegalInv

LEMMA LegalStep == LegalInv /\ [Legal!Next]_legalVars => LegalInv'
<1> SUFFICES ASSUME LegalInv, [Legal!Next]_legalVars PROVE LegalInv'
  OBVIOUS
<1>0. ASSUME NEW r, r.n \in Nat, r.of = Legal!Path', mdText' = Legal!Loading,
             shownRead' = 0, asked' = r.n,
             legalPage' \in Legal!Pages, legalLang' \in Legal!Lang,
             reads' = {r} \/ (r.n = asked + 1 /\ reads' = reads \cup {r}),
             legalStore' # "refused" => legalLang' = Legal!StoredLang'
      PROVE  LegalInv'
  <2>1. Legal!Path' \in Legal!Document
    BY <1>0 DEF Legal!Path, Legal!Document
  <2>2. mdText' \notin Legal!Document
    BY <1>0, MessagesAreNone
  <2>5. \A x \in reads' : x = r \/ (r.n = asked + 1 /\ x \in reads)
    BY <1>0
  <2>6. r \in reads'
    BY <1>0
  <2> QED BY <1>0, <2>1, <2>2, <2>5, <2>6 DEF LegalInv
<1>1. ASSUME NEW l \in Legal!Lang, Legal!SetLang(l) PROVE LegalInv'
  <2>1. legalLang' = l /\ legalPage' = legalPage
        /\ legalStore' = IF legalStore = "refused" THEN legalStore ELSE l
    BY <1>1 DEF Legal!SetLang
  <2>2. legalStore' # "refused" => legalLang' = Legal!StoredLang'
    BY <2>1 DEF Legal!StoredLang
  <2>3. CASE l = legalLang
    BY <1>1, <2>1, <2>2, <2>3 DEF Legal!SetLang, LegalInv, Legal!Path
  <2>4. CASE l # legalLang
    <3> DEFINE r == [n |-> asked + 1, of |-> Legal!Path']
    <3>1. /\ asked' = asked + 1 /\ mdText' = Legal!Loading /\ shownRead' = 0
          /\ reads' = reads \cup {r}
      BY <1>1, <2>4 DEF Legal!SetLang, Legal!Ask
    <3>4. r.n = asked + 1 /\ r.of = Legal!Path'
      OBVIOUS
    <3> HIDE DEF r
    <3>2. asked + 1 \in Nat
      BY DEF LegalInv
    <3>3. legalPage' \in Legal!Pages /\ legalLang' \in Legal!Lang
      BY <2>1 DEF LegalInv
    <3> QED BY <1>0, <2>2, <3>1, <3>2, <3>3, <3>4
  <2> QED BY <2>3, <2>4
<1>2. CASE Legal!Follow
  <2> DEFINE r == [n |-> 1, of |-> Legal!Path']
  <2>1. legalPage' \in Legal!Pages
    <3>1. \E p \in Legal!Pages : p # legalPage
      BY DEF Legal!Pages
    <3> QED BY <1>2, <3>1 DEF Legal!Follow, Legal!LinkTo
  <2>2. /\ legalLang' = Legal!StoredLang /\ UNCHANGED legalStore /\ legalLang' \in Legal!Lang
        /\ Legal!StoredLang' = Legal!StoredLang
    BY <1>2 DEF Legal!Follow, Legal!StoredLang, Legal!Lang
  <2>3. /\ asked' = 1 /\ mdText' = Legal!Loading /\ shownRead' = 0
        /\ reads' = {r}
    BY <1>2 DEF Legal!Follow, Legal!Ask
  <2>4. r.n = 1 /\ r.of = Legal!Path'
    OBVIOUS
  <2> HIDE DEF r
  <2> QED BY <1>0, <2>1, <2>2, <2>3, <2>4
<1>3. ASSUME NEW r \in reads, NEW what \in {r.of, Legal!Failed, Legal!ErrorPage},
             Legal!Arrive(r, what)
      PROVE  LegalInv'
  <2>1. /\ mdText' = what /\ reads' = reads \ {r} /\ shownRead' = r.n
        /\ UNCHANGED <<legalPage, legalLang, legalStore, asked>>
    BY <1>3 DEF Legal!Arrive
  <2>2. Legal!Path' = Legal!Path /\ Legal!StoredLang' = Legal!StoredLang
    BY <2>1 DEF Legal!Path, Legal!StoredLang
  <2>3. r.of \in Legal!Document
    BY DEF LegalInv
  <2>4. what # Legal!Loading /\ (what \in Legal!Document => what = r.of)
    BY <2>3, MessagesAreNone
  <2> QED BY <2>1, <2>2, <2>4 DEF LegalInv
<1>4. CASE UNCHANGED legalVars
  BY <1>4 DEF legalVars, LegalInv, Legal!Path, Legal!StoredLang
<1> QED BY <1>1, <1>2, <1>3, <1>4, Zenon DEF Legal!Next

LEMMA LegalHolds == LegalInv => Legal!LegalTextMatches
BY DEF LegalInv, Legal!LegalTextMatches, Legal!Title, Legal!Path

-----------------------------------------------------------------------------
(****************************************************************************)
(* The plain chat: a branch holds whole answers, or answers that tell what  *)
(* is missing, up to the one being received.                                *)
(****************************************************************************)
\* A message of the plain chat that is whole, or tells that it is not.
AnswerMsg == [role : {"assistant"}, chunks : Int, size : Int, error : BOOLEAN,
              stopped : BOOLEAN]
PlainMsg == {Plain!UserMessage} \cup AnswerMsg
Whole(m) == m.role = "user" \/ m.error \/ m.stopped \/ m.chunks = m.size
WholeBranch(b) == b \in Seq(PlainMsg) /\ \A i \in 1..Len(b) : Whole(b[i])

\* Every branch is whole, up to the answer that is being received.
PlainInv ==
  /\ thread \in Seq(PlainMsg)
  /\ \A b \in branches : WholeBranch(b)
  /\ \A i \in 1..Len(thread) :
       Whole(thread[i]) \/ (i = Len(thread) /\ Plain!IsRunning)
  /\ Plain!IsRunning => thread # <<>> /\ thread[Len(thread)].role = "assistant"

\* It holds at the start, every step keeps it, and it says what is claimed.
LEMMA PlainStart == Plain!Init => PlainInv
BY DEF Plain!Init, PlainInv, Plain!IsRunning

\* An answer that failed or was stopped is an answer, and tells it.
LEMMA ToldForms ==
  ASSUME NEW a \in AnswerMsg
  PROVE  /\ Plain!Failed(a) \in AnswerMsg /\ Plain!Failed(a).error = TRUE
         /\ [a EXCEPT !.stopped = TRUE] \in AnswerMsg
         /\ [a EXCEPT !.stopped = TRUE].stopped = TRUE
         /\ [a EXCEPT !.error = TRUE] \in AnswerMsg /\ [a EXCEPT !.error = TRUE].error = TRUE
<1>1. [a EXCEPT !.stopped = TRUE] \in AnswerMsg /\ [a EXCEPT !.stopped = TRUE].stopped = TRUE
  BY DEF AnswerMsg
<1>2. [a EXCEPT !.error = TRUE] \in AnswerMsg /\ [a EXCEPT !.error = TRUE].error = TRUE
  BY DEF AnswerMsg
<1>3. Plain!Failed(a) \in AnswerMsg /\ Plain!Failed(a).error = TRUE
  <2>1. Plain!Failed(a) = [role |-> a.role, chunks |-> 0, size |-> a.size, error |-> TRUE,
                           stopped |-> a.stopped]
    <3>1. a = [role |-> a.role, chunks |-> a.chunks, size |-> a.size, error |-> a.error,
               stopped |-> a.stopped]
      BY DEF AnswerMsg
    <3>2. PICK b : b = [a EXCEPT !.chunks = 0]
      OBVIOUS
    <3>3. b = [role |-> a.role, chunks |-> 0, size |-> a.size, error |-> a.error,
               stopped |-> a.stopped]
      BY <3>1, <3>2
    <3>4. Plain!Failed(a) = [b EXCEPT !.error = TRUE]
      BY <3>2, Zenon DEF Plain!Failed
    <3> QED BY <3>3, <3>4
  <2> QED BY <2>1 DEF AnswerMsg
<1> QED BY <1>1, <1>2, <1>3

\* An answer to whole messages: one under way, or the refusal of who is signed out.
LEMMA RunKeeps ==
  ASSUME NEW b, WholeBranch(b), Plain!Run(b)
  PROVE  /\ thread' \in Seq(PlainMsg) /\ thread' # <<>>
         /\ \A i \in 1..Len(thread') :
              Whole(thread'[i]) \/ (i = Len(thread') /\ run' = "fetching")
         /\ thread'[Len(thread')].role = "assistant"
         /\ run' \in {"fetching", run}
<1> DEFINE a == IF signedIn THEN Plain!Unanswered ELSE [Plain!Unanswered EXCEPT !.error = TRUE]
<1>1. a \in PlainMsg /\ a.role = "assistant" /\ (~signedIn => a.error)
  <2>1. Plain!Unanswered \in AnswerMsg
    BY DEF Plain!Unanswered, AnswerMsg
  <2>2. a \in AnswerMsg /\ (~signedIn => a.error)
    BY <2>1, ToldForms
  <2> HIDE DEF a
  <2>3. a.role = "assistant"
    BY <2>2 DEF AnswerMsg
  <2> QED BY <2>2, <2>3 DEF PlainMsg
<1>2. thread' = Append(b, a) /\ (run' = IF signedIn THEN "fetching" ELSE run)
  BY Zenon DEF Plain!Run
<1> HIDE DEF a
<1>3. b \in Seq(PlainMsg) /\ \A i \in 1..Len(b) : Whole(b[i])
  BY DEF WholeBranch
<1>4. /\ thread' \in Seq(PlainMsg) /\ thread' # <<>> /\ Len(thread') = Len(b) + 1
      /\ Len(b) \in Nat
      /\ \A k \in 1..Len(thread') :
           \/ k \in 1..Len(b) /\ thread'[k] = b[k]
           \/ k = Len(b) + 1 /\ thread'[k] = a
  BY <1>1, <1>2, <1>3, AppendFacts
<1>5. thread'[Len(thread')] = a
  BY <1>4
<1>6. ASSUME NEW i \in 1..Len(thread')
      PROVE  Whole(thread'[i]) \/ (i = Len(thread') /\ run' = "fetching")
  BY <1>1, <1>2, <1>3, <1>4 DEF Whole
<1> QED BY <1>1, <1>2, <1>4, <1>5, <1>6

\* The beginning of a whole branch is whole.
LEMMA PrefixIsWhole ==
  ASSUME NEW b, WholeBranch(b), NEW k \in 0..Len(b)
  PROVE  WholeBranch(SubSeq(b, 1, k))
<1>1. b \in Seq(PlainMsg)
  BY DEF WholeBranch
<1>2. /\ \A i \in 1..k : SubSeq(b, 1, k)[i] = b[i]
      /\ DOMAIN SubSeq(b, 1, k) = 1..k
  BY <1>1, CutInTwo
<1>3. Len(b) \in Nat /\ k \in Nat /\ k <= Len(b)
  BY <1>1
<1>4. SubSeq(b, 1, k) \in Seq(PlainMsg)
  BY <1>1, <1>3
<1>5. Len(SubSeq(b, 1, k)) = k
  BY <1>1, <1>3
<1> QED BY <1>2, <1>3, <1>4, <1>5 DEF WholeBranch

\* A run of whole messages beside whole branches.
LEMMA RunStep ==
  ASSUME NEW b, WholeBranch(b), Plain!Run(b), \A c \in branches' : WholeBranch(c),
         ~Plain!IsRunning
  PROVE  PlainInv'
<1>1. run = "none"
  BY DEF Plain!IsRunning
<1>2. Plain!IsRunning' <=> run' = "fetching"
  BY <1>1, RunKeeps DEF Plain!IsRunning
<1> QED BY <1>2, RunKeeps DEF PlainInv

\* An answer in the place of the last: one that ends the run is whole.
LEMMA YieldKeeps ==
  ASSUME PlainInv, Plain!IsRunning, NEW a \in PlainMsg, a.role = "assistant",
         Plain!Yields(a), UNCHANGED branches,
         run' = "none" => Whole(a)
  PROVE  PlainInv'
<1>1. /\ thread \in Seq(PlainMsg) /\ thread # <<>> /\ Len(thread) \in Nat /\ Len(thread) > 0
      /\ \A b \in branches : WholeBranch(b)
  BY DEF PlainInv
<1>2. /\ thread' \in Seq(PlainMsg) /\ Len(thread') = Len(thread) /\ thread' # <<>>
      /\ \A i \in 1..Len(thread) : thread'[i] = IF i = Len(thread) THEN a ELSE thread[i]
  BY <1>1 DEF Plain!Yields
<1>3. ASSUME NEW i \in 1..Len(thread)
      PROVE  Whole(thread'[i]) \/ (i = Len(thread) /\ Plain!IsRunning')
  <2>1. CASE i = Len(thread)
    BY <1>2, <2>1 DEF Plain!IsRunning
  <2>2. CASE i # Len(thread)
    BY <1>2, <2>2 DEF PlainInv
  <2> QED BY <2>1, <2>2
<1> QED BY <1>1, <1>2, <1>3 DEF PlainInv

\* The answers the adapter yields.
LEMMA AnswerForms ==
  ASSUME PlainInv, Plain!IsRunning
  PROVE  /\ Plain!Answer \in PlainMsg /\ Plain!Answer.role = "assistant"
         /\ Plain!Answer \in AnswerMsg
<1>1. thread \in Seq(PlainMsg) /\ Len(thread) \in 1..Len(thread)
  BY DEF PlainInv
<1>2. thread[Len(thread)] \in PlainMsg
  BY <1>1, ElementOfSeq
<1>3. thread[Len(thread)].role = "assistant"
  BY DEF PlainInv
<1> QED BY <1>2, <1>3 DEF Plain!Answer, PlainMsg, Plain!UserMessage

LEMMA PlainStep == PlainInv /\ [Plain!Next]_plainVars => PlainInv'
<1> SUFFICES ASSUME PlainInv, [Plain!Next]_plainVars PROVE PlainInv'
  OBVIOUS
<1>a. /\ thread \in Seq(PlainMsg) /\ Len(thread) \in Nat
      /\ \A b \in branches : WholeBranch(b)
      /\ ~Plain!IsRunning => WholeBranch(thread)
  BY DEF PlainInv, WholeBranch
<1>b. ASSUME UNCHANGED <<thread, branches>>,
             Plain!IsRunning' <=> Plain!IsRunning
      PROVE  PlainInv'
  BY <1>b DEF PlainInv
<1>c. ASSUME Plain!Branching, ~Plain!IsRunning PROVE \A c \in branches' : WholeBranch(c)
  BY <1>a, <1>c DEF Plain!Branching
<1>1. CASE Plain!Send
  <2>1. ~Plain!IsRunning /\ Plain!Run(Append(thread, Plain!UserMessage)) /\ UNCHANGED branches
    BY <1>1 DEF Plain!Send, Plain!PrimaryAction
  <2>2. Plain!UserMessage \in PlainMsg /\ Whole(Plain!UserMessage)
    BY DEF PlainMsg, Plain!UserMessage, Whole
  <2>3. WholeBranch(Append(thread, Plain!UserMessage))
    <3>1. thread \in Seq(PlainMsg) /\ \A i \in 1..Len(thread) : Whole(thread[i])
      BY <1>a, <2>1 DEF WholeBranch
    <3> QED BY <2>2, <3>1, AppendFacts DEF WholeBranch
  <2> QED BY <1>a, <2>1, <2>3, RunStep
<1>2. CASE Plain!CancelEdit
  BY <1>2, <1>b DEF Plain!CancelEdit, Plain!IsRunning
<1>3. CASE Plain!SwitchToken
  BY <1>3, <1>b DEF Plain!SwitchToken, Plain!IsRunning
<1>4. ASSUME NEW i \in 1..Len(thread), Plain!StartEdit(i) PROVE PlainInv'
  BY <1>4, <1>b DEF Plain!StartEdit, Plain!IsRunning
<1>5. ASSUME NEW i \in 1..Len(thread), Plain!SendEdit(i) PROVE PlainInv'
  <2>1. ~Plain!IsRunning /\ Plain!Run(SubSeq(thread, 1, i)) /\ Plain!Branching
    BY <1>5 DEF Plain!SendEdit
  <2>2. WholeBranch(SubSeq(thread, 1, i))
    BY <1>a, <2>1, PrefixIsWhole
  <2> QED BY <1>c, <2>1, <2>2, RunStep
<1>6. ASSUME NEW i \in 1..Len(thread), Plain!Reload(i) PROVE PlainInv'
  <2>1. ~Plain!IsRunning
    <3>1. "reload" \in Plain!Offers(i)
      BY <1>6 DEF Plain!Reload
    <3>2. Plain!IsRunning => "reload" \notin Plain!Offers(i)
      BY DEF Plain!Offers, Plain!Component, Plain!UserActions, Plain!AssistantActions
    <3> QED BY <3>1, <3>2
  <2>2. Plain!Run(SubSeq(thread, 1, i - 1)) /\ Plain!Branching
    BY <1>6 DEF Plain!Reload
  <2>3. i - 1 \in 0..Len(thread)
    BY <1>a
  <2>4. WholeBranch(SubSeq(thread, 1, i - 1))
    BY <1>a, <2>1, <2>3, PrefixIsWhole
  <2> QED BY <1>c, <2>1, <2>2, <2>4, RunStep
<1>7. ASSUME NEW b \in branches, Plain!PickBranch(b) PROVE PlainInv'
  <2>1. /\ ~Plain!IsRunning /\ ~Plain!IsRunning'
        /\ thread' = b /\ branches' = (branches \ {b}) \cup {thread}
    BY <1>7 DEF Plain!PickBranch, Plain!IsRunning
  <2> QED BY <1>a, <2>1 DEF PlainInv, WholeBranch
<1>r. ASSUME run \in {"fetching", "refused", "streaming"} PROVE Plain!IsRunning
  BY <1>r DEF Plain!IsRunning
<1>f. ASSUME NEW a \in AnswerMsg
      PROVE  a \in PlainMsg /\ a.role = "assistant" /\ (a.error \/ a.stopped => Whole(a))
  BY DEF AnswerMsg, PlainMsg, Whole
<1>8. CASE Plain!Stop
  <2>1. Plain!IsRunning /\ UNCHANGED branches
    BY <1>8 DEF Plain!Stop, Plain!PrimaryAction, Plain!Elsewhere
  <2> DEFINE a == [Plain!Answer EXCEPT !.stopped = TRUE]
  <2>2. a \in AnswerMsg /\ a.stopped
    BY <2>1, AnswerForms, ToldForms
  <2>3. Plain!Yields(a) \/ Plain!Yields(Plain!Failed(a))
    BY <1>8, Zenon DEF Plain!Stop
  <2> HIDE DEF a
  <2>4. a \in PlainMsg /\ Whole(a) /\ a.role = "assistant"
    BY <2>2, <1>f
  <2>5. /\ Plain!Failed(a) \in PlainMsg /\ Plain!Failed(a).role = "assistant"
        /\ Whole(Plain!Failed(a))
    BY <2>2, <1>f, ToldForms
  <2> QED BY <2>1, <2>3, <2>4, <2>5, YieldKeeps
<1>9. ASSUME Plain!Yields(Plain!Failed(Plain!Answer)), Plain!IsRunning, UNCHANGED branches
      PROVE  PlainInv'
  <2>1. Plain!Answer \in AnswerMsg
    BY <1>9, AnswerForms
  <2>2. /\ Plain!Failed(Plain!Answer) \in PlainMsg /\ Whole(Plain!Failed(Plain!Answer))
        /\ Plain!Failed(Plain!Answer).role = "assistant"
    BY <2>1, <1>f, ToldForms
  <2> QED BY <1>9, <2>2, YieldKeeps
<1>10. CASE Plain!FetchFails
  BY <1>9, <1>10, <1>r DEF Plain!FetchFails, Plain!Elsewhere
<1>11. CASE Plain!RefusalRead
  BY <1>9, <1>11, <1>r DEF Plain!RefusalRead, Plain!Elsewhere
<1>12. CASE Plain!StreamBreaks
  BY <1>9, <1>12, <1>r DEF Plain!StreamBreaks, Plain!Elsewhere, Plain!Broken
<1>13. CASE Plain!Refused
  BY <1>b, <1>13 DEF Plain!Refused, Plain!Elsewhere, Plain!IsRunning
<1>14. ASSUME NEW n \in 0..MaxChunks, Plain!Headers(n) PROVE PlainInv'
  <2>1. Plain!IsRunning /\ run' # "none" /\ UNCHANGED branches
    BY <1>14 DEF Plain!Headers, Plain!IsRunning, Plain!Elsewhere
  <2>2. PICK a : a = [Plain!Answer EXCEPT !.size = n]
    OBVIOUS
  <2>3. a \in PlainMsg /\ a.role = "assistant"
    BY <2>1, <2>2, AnswerForms DEF PlainMsg, AnswerMsg
  <2>4. Plain!Yields(a)
    BY <1>14, <2>2, Zenon DEF Plain!Headers
  <2> QED BY <2>1, <2>3, <2>4, YieldKeeps
<1>15. ASSUME NEW cut \in BOOLEAN, Plain!Chunk(cut) PROVE PlainInv'
  <2>1. Plain!IsRunning /\ run' # "none" /\ UNCHANGED branches
    BY <1>15 DEF Plain!Chunk, Plain!IsRunning, Plain!Elsewhere
  <2>2. PICK a : a = [Plain!Answer EXCEPT !.chunks = IF cut THEN Plain!Received
                                                      ELSE Plain!Received + 1]
    OBVIOUS
  <2>3. a \in PlainMsg /\ a.role = "assistant"
    <3>1. Plain!Received \in Int
      BY <2>1, AnswerForms DEF Plain!Received, AnswerMsg
    <3> QED BY <2>1, <2>2, <3>1, AnswerForms DEF PlainMsg, AnswerMsg
  <2>4. Plain!Yields(a)
    BY <1>15, <2>2, Zenon DEF Plain!Chunk
  <2> QED BY <2>1, <2>3, <2>4, YieldKeeps
<1>16. CASE Plain!StreamDone
  <2>1. Plain!IsRunning /\ UNCHANGED branches /\ Plain!Answer.size = Plain!Received
    BY <1>16 DEF Plain!StreamDone, Plain!IsRunning, Plain!Elsewhere
  <2>2. Plain!Flushed \in PlainMsg /\ Plain!Flushed.role = "assistant" /\ Whole(Plain!Flushed)
    BY <2>1, AnswerForms DEF Plain!Flushed, Plain!Received, PlainMsg, AnswerMsg, Whole
  <2>3. Plain!Yields(Plain!Flushed)
    BY <1>16 DEF Plain!StreamDone
  <2> QED BY <2>1, <2>2, <2>3, YieldKeeps
<1>17. CASE UNCHANGED plainVars
  BY <1>17, <1>b DEF plainVars, Plain!IsRunning
<1> QED
  BY <1>1, <1>2, <1>3, <1>4, <1>5, <1>6, <1>7, <1>8, <1>10, <1>11, <1>12, <1>13, <1>14,
     <1>15, <1>16, <1>17, Zenon DEF Plain!Next

LEMMA PlainHolds == PlainInv => Plain!WholeOrTold
<1> SUFFICES ASSUME PlainInv, NEW b \in branches \cup {thread}, NEW i \in DOMAIN b
             PROVE  \/ b[i].role = "user" \/ b[i].error \/ b[i].stopped
                    \/ b[i].chunks = b[i].size
                    \/ b = thread /\ i = Len(b) /\ Plain!IsRunning
  BY DEF Plain!WholeOrTold
<1>1. CASE b \in branches
  <2>1. b \in Seq(PlainMsg) /\ \A k \in 1..Len(b) : Whole(b[k])
    BY <1>1 DEF PlainInv, WholeBranch
  <2> QED BY <2>1 DEF Whole
<1>2. CASE b = thread
  <2>1. i \in 1..Len(thread)
    BY <1>2 DEF PlainInv
  <2> QED BY <1>2, <2>1 DEF PlainInv, Whole
<1> QED BY <1>1, <1>2

-----------------------------------------------------------------------------
(****************************************************************************)
(* The limits: what the cache keeps, what is asked and what is shown are    *)
(* as old as the page means them to be.                                     *)
(****************************************************************************)
\* Requests and the cache as records of numbers.
LimitsTypes ==
  /\ cache = [kept |-> cache.kept, age |-> cache.age]
  /\ cache.kept \in -1..(Ttl + 1) /\ cache.age \in 0..Limits!Never
  /\ cache.kept = -1 <=> cache = Limits!None
  /\ cache # Limits!None => cache.age <= Limits!Cap
  /\ shownLimits \in 0..Limits!Never /\ newest \in 0..Limits!Never
  /\ countdown \in 0..Ttl /\ viewer \in {"chat", "usage", "none"}
  /\ {heard, overlapped, lost} \subseteq BOOLEAN

\* A request: not under way, or for at most Latency, and its answer no older
\* than the server may make it.
RequestOK(r) ==
  /\ r = [out |-> r.out, age |-> r.age, alone |-> r.alone]
  /\ r.out \in -1..Latency /\ r.age \in 0..Limits!Never /\ r.alone \in BOOLEAN
  /\ r.out = -1 <=> r = Limits!NoRequest
  /\ r # Limits!NoRequest /\ r.age # Limits!Never => r.age <= r.out + ServerTtl

\* The age at which a chat page shows what it found in the cache, when its
\* interval fires next.
Reach == 2 * Ttl - 1 + Latency + ServerTtl

\* What a chat page shows is younger than two periods, two requests and what
\* the server keeps, and a request that is alone is younger than any answer
\* received.
LimitsInv ==
  /\ LimitsTypes /\ RequestOK(shared) /\ RequestOK(forced)
  /\ cache # Limits!None /\ cache.kept <= Ttl =>
       cache.age <= cache.kept + Latency + ServerTtl
  /\ viewer = "chat" /\ ~lost /\ shownLimits # Limits!Never =>
       \/ shownLimits <= Reach - countdown
       \/ heard /\ shared # Limits!NoRequest /\ shownLimits <= Reach + shared.out
  /\ shared # Limits!NoRequest /\ forced # Limits!NoRequest =>
       ~shared.alone /\ ~forced.alone
  /\ shared # Limits!NoRequest /\ shared.alone => newest >= shared.out
  /\ forced # Limits!NoRequest /\ forced.alone => newest >= forced.out
  /\ ~overlapped /\ cache # Limits!None => cache.age <= newest + ServerTtl

LEMMA LimitsConstants ==
  /\ Ttl \in Nat /\ Ttl > 0 /\ Latency \in Nat /\ Latency > 0 /\ ServerTtl \in Nat
  /\ Limits!Cap = 2 * (Ttl + Latency) + ServerTtl + 1 /\ Limits!Never = Limits!Cap + 1
  /\ Limits!Cap \in Nat /\ Limits!Never \in Nat /\ Latency + ServerTtl < Limits!Cap
  /\ Reach = 2 * Ttl - 1 + Latency + ServerTtl /\ Reach \in Nat
<1>1. Ttl \in Nat \ {0} /\ Latency \in Nat \ {0} /\ ServerTtl \in Nat
  BY PartsAssumption DEF Limits!TimeAssumption
<1> QED BY <1>1 DEF Limits!Cap, Limits!Never, Reach

\* It holds at the start.
LEMMA LimitsStart == Limits!Init => LimitsInv
<1> SUFFICES ASSUME Limits!Init PROVE LimitsInv
  OBVIOUS
<1>1. LimitsTypes
  <2>1. /\ cache = [kept |-> -1, age |-> Limits!Never] /\ cache.kept = -1
        /\ cache.age = Limits!Never /\ cache = Limits!None
    BY DEF Limits!Init, Limits!None
  <2>2. /\ shownLimits = Limits!Never /\ newest = Limits!Never /\ countdown = 0
        /\ heard = FALSE /\ overlapped = FALSE /\ lost = FALSE /\ viewer = "none"
    BY DEF Limits!Init
  <2>3. cache = [kept |-> cache.kept, age |-> cache.age]
    BY <2>1
  <2>4. {heard, overlapped, lost} \subseteq BOOLEAN
    BY <2>2
  <2>5. /\ cache.kept \in -1..(Ttl + 1) /\ cache.age \in 0..Limits!Never
        /\ shownLimits \in 0..Limits!Never /\ newest \in 0..Limits!Never
        /\ countdown \in 0..Ttl
    BY <2>1, <2>2, LimitsConstants
  <2> QED BY <2>1, <2>2, <2>3, <2>4, <2>5 DEF LimitsTypes
<1>2. RequestOK(Limits!NoRequest)
  BY LimitsConstants DEF RequestOK, Limits!NoRequest
<1> QED BY <1>1, <1>2 DEF Limits!Init, LimitsInv

LEMMA NoRequestOK == RequestOK(Limits!NoRequest) /\ Limits!NoRequest.out = -1
BY LimitsConstants DEF RequestOK, Limits!NoRequest

LEMMA UnderWay == ASSUME NEW r, r.out \in 0..Latency PROVE r # Limits!NoRequest
BY NoRequestOK, LimitsConstants

\* What was shown when the interval fired waits for the request under way.
LEMMA StaysYoung ==
  ASSUME NEW s \in Int, NEW c \in Int, NEW d \in Int, NEW o \in Nat,
         s <= Reach - c, d = c \/ c = 0
  PROVE  s <= Reach - d \/ s <= Reach + o
BY LimitsConstants

\* The requests that are made of others.
LEMMA RequestForms ==
  ASSUME NEW o, RequestOK(o)
  PROVE  /\ RequestOK(Limits!Sent(o)) /\ Limits!Sent(o) # Limits!NoRequest
         /\ Limits!Sent(o).out = 0 /\ (Limits!Sent(o).alone <=> o = Limits!NoRequest)
         /\ RequestOK(Limits!Joined(o))
         /\ (Limits!Joined(o) = Limits!NoRequest <=> o = Limits!NoRequest)
         /\ Limits!Joined(o).out = o.out
         /\ o # Limits!NoRequest => ~Limits!Joined(o).alone
<1>1. /\ RequestOK(Limits!Sent(o)) /\ Limits!Sent(o) # Limits!NoRequest
      /\ Limits!Sent(o).out = 0 /\ (Limits!Sent(o).alone <=> o = Limits!NoRequest)
  <2> DEFINE alone == o = Limits!NoRequest
             r == Limits!Sent(o)
  <2>1. r = [out |-> 0, age |-> Limits!Never, alone |-> alone] /\ alone \in BOOLEAN
    BY DEF Limits!Sent
  <2> HIDE DEF r, alone
  <2>2. r # Limits!NoRequest /\ r.out = 0 /\ r.age = Limits!Never /\ r.alone = alone
    BY <2>1 DEF Limits!NoRequest
  <2>3. r = [out |-> r.out, age |-> r.age, alone |-> r.alone]
    BY <2>1
  <2>4. RequestOK(r)
    BY <2>1, <2>2, <2>3, LimitsConstants DEF RequestOK
  <2> QED BY <2>2, <2>4 DEF r, alone
<1>2. CASE o = Limits!NoRequest
  BY <1>1, <1>2 DEF Limits!Joined
<1>3. CASE o # Limits!NoRequest
  <2>1. Limits!Joined(o) = [out |-> o.out, age |-> o.age, alone |-> FALSE]
    BY <1>3 DEF Limits!Joined, RequestOK
  <2> QED BY <1>1, <1>3, <2>1, LimitsConstants DEF RequestOK, Limits!NoRequest
<1> QED BY <1>2, <1>3

\* The request that a page or the dialog waits for.
LEMMA SharedKeeps ==
  ASSUME LimitsInv, Limits!AskShared
  PROVE  /\ RequestOK(shared') /\ shared' # Limits!NoRequest /\ shared'.out \in Nat
         /\ shared # Limits!NoRequest => shared' = shared
         /\ RequestOK(forced')
         /\ (forced' # Limits!NoRequest => ~shared'.alone /\ ~forced'.alone)
         /\ (shared'.alone => newest >= shared'.out)
         /\ forced' # Limits!NoRequest /\ forced'.alone => newest >= forced'.out
<1>1. RequestOK(shared) /\ RequestOK(forced) /\ newest \in 0..Limits!Never
  BY DEF LimitsInv, LimitsTypes
<1>2. CASE shared # Limits!NoRequest
  <2>1. shared.out \in Nat
    BY <1>1, <1>2, LimitsConstants DEF RequestOK
  <2> QED BY <1>1, <1>2, <2>1 DEF Limits!AskShared, LimitsInv
<1>3. CASE shared = Limits!NoRequest
  <2>1. shared' = Limits!Sent(forced) /\ forced' = Limits!Joined(forced)
    BY <1>3 DEF Limits!AskShared
  <2>2. /\ RequestOK(shared') /\ shared' # Limits!NoRequest /\ shared'.out = 0
        /\ (shared'.alone <=> forced = Limits!NoRequest)
        /\ RequestOK(forced') /\ (forced' = Limits!NoRequest <=> forced = Limits!NoRequest)
        /\ (forced # Limits!NoRequest => ~forced'.alone)
    BY <1>1, <2>1, RequestForms
  <2>3. newest >= 0
    BY <1>1, LimitsConstants
  <2> QED BY <1>3, <2>2, <2>3
<1> QED BY <1>2, <1>3

\* A page that asks: the cache is shown, or a request is under way.
LEMMA GetKeeps ==
  ASSUME LimitsInv, NEW old, NEW waits \in BOOLEAN, NEW fails \in BOOLEAN,
         Limits!GetLimits(old, waits, fails),
         viewer' \in {"chat", "usage", "none"}, countdown' \in 0..Ttl,
         \/ old = Limits!Never
         \/ /\ old = shownLimits /\ fails = lost /\ viewer = "chat"
            /\ countdown' = countdown \/ countdown = 0
  PROVE  LimitsInv'
<1>0. /\ countdown \in 0..Ttl /\ countdown' \in 0..Ttl
      /\ shownLimits \in 0..Limits!Never /\ newest \in 0..Limits!Never
      /\ UNCHANGED <<cache, newest, overlapped>>
  BY LimitsConstants DEF LimitsInv, LimitsTypes, Limits!GetLimits
<1>1. CASE Limits!IsFresh
  <2>1. /\ shownLimits' = cache.age /\ heard' = waits /\ lost' = FALSE
        /\ UNCHANGED <<shared, forced>>
    BY <1>1 DEF Limits!GetLimits
  <2>2. cache.kept < Ttl /\ cache # Limits!None /\ cache.kept \in Int /\ cache.age \in 0..Limits!Never
    BY <1>1 DEF Limits!IsFresh, LimitsInv, LimitsTypes
  <2>3. cache.age <= Ttl - 1 + Latency + ServerTtl
    BY <2>2, LimitsConstants DEF LimitsInv
  <2>4. shownLimits' <= Reach - countdown'
    BY <1>0, <2>1, <2>2, <2>3, LimitsConstants
  <2>5. LimitsTypes'
    BY <1>0, <2>1, <2>2 DEF LimitsInv, LimitsTypes
  <2> QED BY <1>0, <2>1, <2>4, <2>5 DEF LimitsInv, RequestOK
<1>2. CASE ~Limits!IsFresh
  <2>1. shownLimits' = old /\ heard' = TRUE /\ lost' = fails /\ Limits!AskShared
    BY <1>2 DEF Limits!GetLimits
  <2>2. /\ RequestOK(shared') /\ shared' # Limits!NoRequest /\ shared'.out \in Nat
        /\ shared # Limits!NoRequest => shared' = shared
        /\ RequestOK(forced')
        /\ (forced' # Limits!NoRequest => ~shared'.alone /\ ~forced'.alone)
        /\ (shared'.alone => newest >= shared'.out)
        /\ forced' # Limits!NoRequest /\ forced'.alone => newest >= forced'.out
    BY <2>1, SharedKeeps
  <2>3. ~lost' /\ shownLimits' # Limits!Never =>
          shownLimits' <= Reach - countdown' \/ shownLimits' <= Reach + shared'.out
    <3> SUFFICES ASSUME ~lost', shownLimits' # Limits!Never
                 PROVE  shownLimits' <= Reach - countdown' \/ shownLimits' <= Reach + shared'.out
      OBVIOUS
    <3>1. /\ shownLimits' = shownLimits /\ ~lost /\ viewer = "chat"
          /\ countdown' = countdown \/ countdown = 0
      BY <2>1
    <3>2. CASE shownLimits <= Reach - countdown
      <4>1. shownLimits \in Int /\ countdown \in Int /\ countdown' \in Int
        BY <1>0, LimitsConstants
      <4> QED BY <2>2, <3>1, <3>2, <4>1, StaysYoung
    <3>3. CASE shared # Limits!NoRequest /\ shownLimits <= Reach + shared.out
      BY <2>2, <3>1, <3>3
    <3> QED BY <3>1, <3>2, <3>3 DEF LimitsInv
  <2>4. LimitsTypes'
    BY <1>0, <2>1, LimitsConstants DEF LimitsInv, LimitsTypes
  <2> QED BY <1>0, <2>1, <2>2, <2>3, <2>4 DEF LimitsInv
<1> QED BY <1>1, <1>2

\* An answer is served.
LEMMA ServeKeeps ==
  ASSUME NEW r, RequestOK(r), r # Limits!NoRequest, NEW a \in 0..ServerTtl
  PROVE  /\ RequestOK([r EXCEPT !.age = a])
         /\ [r EXCEPT !.age = a] # Limits!NoRequest
         /\ [r EXCEPT !.age = a].out = r.out /\ [r EXCEPT !.age = a].alone = r.alone
<1>1. [r EXCEPT !.age = a] = [out |-> r.out, age |-> a, alone |-> r.alone]
  BY DEF RequestOK
<1>2. r.out \in 0..Latency
  BY LimitsConstants DEF RequestOK
<1> QED BY <1>1, <1>2, LimitsConstants DEF RequestOK, Limits!NoRequest

\* An answer comes in.
LEMMA AnswerKeeps ==
  ASSUME LimitsInv, NEW r \in {shared, forced}, NEW awaited \in BOOLEAN,
         Limits!Answer(r, awaited), UNCHANGED <<viewer, countdown>>,
         \/ /\ r = shared /\ shared' = Limits!NoRequest /\ UNCHANGED forced
            /\ heard' = FALSE /\ awaited = heard
         \/ /\ r = forced /\ forced' = Limits!NoRequest /\ UNCHANGED <<shared, heard>>
            /\ awaited
  PROVE  LimitsInv'
<1>1. /\ r # Limits!NoRequest /\ r.age # Limits!Never
      /\ cache' = [kept |-> 0, age |-> r.age]
      /\ shownLimits' = IF awaited THEN r.age ELSE shownLimits
      /\ newest' = Limits!Lesser(newest, r.age)
      /\ overlapped' = ~r.alone /\ lost' = (lost /\ ~awaited)
  BY DEF Limits!Answer
<1>2. /\ RequestOK(r) /\ r.out \in 0..Latency /\ r.age \in 0..(Latency + ServerTtl)
      /\ r.age <= r.out + ServerTtl /\ r.alone \in BOOLEAN
  BY <1>1, LimitsConstants DEF LimitsInv, RequestOK
<1>3. /\ newest \in 0..Limits!Never /\ newest' \in 0..Limits!Never /\ countdown \in 0..Ttl
      /\ shownLimits \in 0..Limits!Never
  BY <1>1, <1>2, LimitsConstants DEF LimitsInv, LimitsTypes, Limits!Lesser
<1>4. cache'.kept = 0 /\ cache'.age = r.age /\ cache' # Limits!None
  BY <1>1 DEF Limits!None
<1>5. LimitsTypes'
  <2>1. cache' = [kept |-> cache'.kept, age |-> cache'.age]
    BY <1>1
  <2>2. {heard', overlapped', lost'} \subseteq BOOLEAN /\ viewer' \in {"chat", "usage", "none"}
    BY <1>1, <1>2 DEF LimitsInv, LimitsTypes
  <2>3. shownLimits' \in 0..Limits!Never /\ cache'.age \in 0..Limits!Never
        /\ cache'.age <= Limits!Cap /\ countdown' \in 0..Ttl
    BY <1>1, <1>2, <1>3, <1>4, LimitsConstants
  <2> QED BY <1>3, <1>4, <2>1, <2>2, <2>3, LimitsConstants DEF LimitsTypes
<1>6. RequestOK(shared') /\ RequestOK(forced')
  BY NoRequestOK DEF LimitsInv
<1>7. viewer' = "chat" /\ ~lost' /\ shownLimits' # Limits!Never =>
        \/ shownLimits' <= Reach - countdown'
        \/ heard' /\ shared' # Limits!NoRequest /\ shownLimits' <= Reach + shared'.out
  <2>1. CASE awaited
    BY <1>1, <1>2, <1>3, <2>1, LimitsConstants
  <2>2. CASE ~awaited
    BY <1>1, <2>2 DEF LimitsInv
  <2> QED BY <2>1, <2>2
<1>8. ~overlapped' => cache'.age <= newest' + ServerTtl
  <2> SUFFICES ASSUME ~overlapped' PROVE cache'.age <= newest' + ServerTtl
    OBVIOUS
  <2>1. r.alone
    BY <1>1, <1>2
  <2>2. newest >= r.out
    BY <1>1, <2>1 DEF LimitsInv
  <2> QED BY <1>1, <1>2, <1>3, <1>4, <2>2, LimitsConstants DEF Limits!Lesser
<1>9. ~(shared' # Limits!NoRequest /\ forced' # Limits!NoRequest)
  OBVIOUS
<1>10. /\ shared' # Limits!NoRequest => ~shared'.alone
       /\ forced' # Limits!NoRequest => ~forced'.alone
  BY <1>1 DEF LimitsInv
<1>11. cache'.kept <= Ttl => cache'.age <= cache'.kept + Latency + ServerTtl
  BY <1>2, <1>4, LimitsConstants
<1> QED BY <1>5, <1>6, <1>7, <1>8, <1>9, <1>10, <1>11 DEF LimitsInv

\* An answer that will not come.
LEMMA FailureKeeps ==
  ASSUME LimitsInv, NEW r \in {shared, forced}, NEW awaited \in BOOLEAN,
         Limits!Failure(r, awaited), UNCHANGED <<viewer, countdown>>,
         \/ /\ r = shared /\ shared' = Limits!NoRequest /\ UNCHANGED forced
            /\ heard' = FALSE /\ awaited = heard
         \/ /\ r = forced /\ forced' = Limits!NoRequest /\ UNCHANGED <<shared, heard>>
            /\ awaited
  PROVE  LimitsInv'
<1>1. /\ shownLimits' \in {shownLimits, Limits!Never} /\ lost' = (lost \/ awaited)
      /\ ~awaited => shownLimits' = shownLimits
      /\ UNCHANGED <<cache, newest, overlapped>>
  BY DEF Limits!Failure
<1>2. RequestOK(shared') /\ RequestOK(forced')
  BY NoRequestOK DEF LimitsInv
<1>3. LimitsTypes'
  <2>1. heard' \in BOOLEAN /\ overlapped' \in BOOLEAN
    BY <1>1 DEF LimitsInv, LimitsTypes
  <2>2. lost' \in BOOLEAN
    BY <1>1, Zenon
  <2>3. shownLimits' \in 0..Limits!Never
    BY <1>1, LimitsConstants DEF LimitsInv, LimitsTypes
  <2> QED BY <1>1, <2>1, <2>2, <2>3 DEF LimitsInv, LimitsTypes
<1>4. viewer' = "chat" /\ ~lost' /\ shownLimits' # Limits!Never =>
        \/ shownLimits' <= Reach - countdown'
        \/ heard' /\ shared' # Limits!NoRequest /\ shownLimits' <= Reach + shared'.out
  BY <1>1 DEF LimitsInv
<1> QED BY <1>1, <1>2, <1>3, <1>4 DEF LimitsInv

\* What is a tick older.
LEMMA OlderBounds ==
  ASSUME NEW n \in 0..Limits!Never
  PROVE  /\ Limits!Older(n) \in 0..Limits!Never
         /\ n = Limits!Never <=> Limits!Older(n) = Limits!Never
         /\ n # Limits!Never => Limits!Older(n) <= n + 1 /\ Limits!Older(n) <= Limits!Cap
         /\ n >= Limits!Cap \/ Limits!Older(n) = n + 1
         /\ n >= Limits!Cap => Limits!Older(n) >= Limits!Cap
BY LimitsConstants DEF Limits!Older, Limits!Lesser

\* A request under way for one tick more.
LEMMA TickOfRequest ==
  ASSUME NEW r, RequestOK(r), r.out < Latency, NEW n \in 0..Limits!Never,
         NEW rr,
         rr = IF r = Limits!NoRequest THEN Limits!NoRequest
              ELSE [r EXCEPT !.out = @ + 1, !.age = Limits!Older(@)]
  PROVE  /\ RequestOK(rr) /\ (rr = Limits!NoRequest <=> r = Limits!NoRequest)
         /\ r # Limits!NoRequest =>
              /\ rr.out = r.out + 1 /\ rr.alone = r.alone
              /\ n >= r.out => Limits!Older(n) >= rr.out
<1>1. CASE r = Limits!NoRequest
  BY <1>1
<1>2. CASE r # Limits!NoRequest
  <2>1. rr = [out |-> r.out + 1, age |-> Limits!Older(r.age), alone |-> r.alone]
    BY <1>2 DEF RequestOK
  <2>2. r.out \in 0..Latency /\ r.age \in 0..Limits!Never /\ r.alone \in BOOLEAN
    BY <1>2, LimitsConstants DEF RequestOK
  <2>3. /\ Limits!Older(r.age) \in 0..Limits!Never
        /\ Limits!Older(r.age) # Limits!Never => Limits!Older(r.age) <= r.out + 1 + ServerTtl
    BY <1>2, <2>2, OlderBounds, LimitsConstants DEF RequestOK
  <2>6. /\ rr.out = r.out + 1 /\ rr.age = Limits!Older(r.age) /\ rr.alone = r.alone
        /\ rr = [out |-> rr.out, age |-> rr.age, alone |-> rr.alone]
    BY <2>1
  <2>7. rr.out \in 0..Latency
    BY <2>2, <2>6, LimitsConstants
  <2>8. rr # Limits!NoRequest
    BY <2>7, UnderWay
  <2>4. RequestOK(rr) /\ rr # Limits!NoRequest
    BY <2>2, <2>3, <2>6, <2>7, <2>8, LimitsConstants DEF RequestOK
  <2>5. n >= r.out => Limits!Older(n) >= r.out + 1
    BY <2>2, OlderBounds, LimitsConstants
  <2> QED BY <1>2, <2>1, <2>4, <2>5
<1> QED BY <1>1, <1>2

LEMMA TickKeeps == ASSUME LimitsInv, Limits!Tick PROVE LimitsInv'
<1>1. /\ viewer = "chat" => countdown > 0
      /\ countdown' = IF viewer = "chat" THEN countdown - 1 ELSE countdown
      /\ shared.out < Latency /\ forced.out < Latency
      /\ shownLimits' = Limits!Older(shownLimits) /\ newest' = Limits!Older(newest)
      /\ UNCHANGED <<viewer, heard, overlapped, lost>>
  BY DEF Limits!Tick
<1>2. /\ countdown \in 0..Ttl /\ shownLimits \in 0..Limits!Never /\ newest \in 0..Limits!Never
      /\ cache.kept \in -1..(Ttl + 1) /\ cache.age \in 0..Limits!Never
      /\ RequestOK(shared) /\ RequestOK(forced)
  BY DEF LimitsInv, LimitsTypes
<1>3. /\ RequestOK(shared') /\ (shared' = Limits!NoRequest <=> shared = Limits!NoRequest)
      /\ shared # Limits!NoRequest =>
           /\ shared'.out = shared.out + 1 /\ shared'.alone = shared.alone
           /\ newest >= shared.out => newest' >= shared'.out
  <2>1. shared' = IF shared = Limits!NoRequest THEN Limits!NoRequest
                  ELSE [shared EXCEPT !.out = @ + 1, !.age = Limits!Older(@)]
    BY DEF Limits!Tick
  <2>2. /\ RequestOK(shared') /\ (shared' = Limits!NoRequest <=> shared = Limits!NoRequest)
        /\ shared # Limits!NoRequest =>
             /\ shared'.out = shared.out + 1 /\ shared'.alone = shared.alone
             /\ newest >= shared.out => Limits!Older(newest) >= shared'.out
    BY <1>1, <1>2, <2>1, TickOfRequest, Zenon
  <2> QED BY <1>1, <2>2
<1>4. /\ RequestOK(forced') /\ (forced' = Limits!NoRequest <=> forced = Limits!NoRequest)
      /\ forced # Limits!NoRequest =>
           /\ forced'.out = forced.out + 1 /\ forced'.alone = forced.alone
           /\ newest >= forced.out => newest' >= forced'.out
  <2>1. forced' = IF forced = Limits!NoRequest THEN Limits!NoRequest
                  ELSE [forced EXCEPT !.out = @ + 1, !.age = Limits!Older(@)]
    BY DEF Limits!Tick
  <2>2. /\ RequestOK(forced') /\ (forced' = Limits!NoRequest <=> forced = Limits!NoRequest)
        /\ forced # Limits!NoRequest =>
             /\ forced'.out = forced.out + 1 /\ forced'.alone = forced.alone
             /\ newest >= forced.out => Limits!Older(newest) >= forced'.out
    BY <1>1, <1>2, <2>1, TickOfRequest, Zenon
  <2> QED BY <1>1, <2>2
<1>5. /\ cache' = [kept |-> cache'.kept, age |-> cache'.age]
      /\ cache'.kept \in -1..(Ttl + 1) /\ cache'.age \in 0..Limits!Never
      /\ (cache'.kept = -1 <=> cache' = Limits!None)
      /\ (cache' = Limits!None <=> cache = Limits!None)
      /\ cache' # Limits!None =>
           /\ cache'.age <= Limits!Cap /\ cache'.age = Limits!Older(cache.age)
           /\ (cache'.kept <= Ttl => cache'.kept = cache.kept + 1 /\ cache.kept <= Ttl)
  <2>1. CASE cache = Limits!None
    <3>1. cache' = Limits!None
      BY <2>1 DEF Limits!Tick
    <3> QED BY <2>1, <3>1, LimitsConstants DEF Limits!None
  <2>2. CASE cache # Limits!None
    <3>1. cache' = [kept |-> Limits!Lesser(cache.kept + 1, Ttl + 1),
                    age |-> Limits!Older(cache.age)]
      BY <2>2 DEF Limits!Tick
    <3>2. cache.kept \in 0..(Ttl + 1) /\ cache.age <= Limits!Cap
      BY <1>2, <2>2, LimitsConstants DEF LimitsInv, LimitsTypes
    <3>3. Limits!Older(cache.age) \in 0..Limits!Never /\ Limits!Older(cache.age) <= Limits!Cap
      BY <1>2, <3>2, OlderBounds, LimitsConstants
    <3>4. /\ Limits!Lesser(cache.kept + 1, Ttl + 1) \in 0..(Ttl + 1)
          /\ Limits!Lesser(cache.kept + 1, Ttl + 1) <= Ttl =>
               Limits!Lesser(cache.kept + 1, Ttl + 1) = cache.kept + 1 /\ cache.kept <= Ttl
      BY <3>2, LimitsConstants DEF Limits!Lesser
    <3> QED BY <2>2, <3>1, <3>3, <3>4 DEF Limits!None
  <2> QED BY <2>1, <2>2
<1>6. LimitsTypes'
  <2>1. shownLimits' \in 0..Limits!Never /\ newest' \in 0..Limits!Never /\ countdown' \in 0..Ttl
    BY <1>1, <1>2, OlderBounds, LimitsConstants
  <2> QED BY <1>1, <1>5, <2>1 DEF LimitsInv, LimitsTypes
<1>7. cache' # Limits!None /\ cache'.kept <= Ttl =>
        cache'.age <= cache'.kept + Latency + ServerTtl
  BY <1>2, <1>5, OlderBounds, LimitsConstants DEF LimitsInv, LimitsTypes
<1>8. viewer' = "chat" /\ ~lost' /\ shownLimits' # Limits!Never =>
        \/ shownLimits' <= Reach - countdown'
        \/ heard' /\ shared' # Limits!NoRequest /\ shownLimits' <= Reach + shared'.out
  <2> SUFFICES ASSUME viewer' = "chat", ~lost', shownLimits' # Limits!Never
               PROVE  \/ shownLimits' <= Reach - countdown'
                      \/ /\ heard' /\ shared' # Limits!NoRequest
                         /\ shownLimits' <= Reach + shared'.out
    OBVIOUS
  <2>1. /\ viewer = "chat" /\ ~lost /\ shownLimits # Limits!Never
        /\ shownLimits' <= shownLimits + 1 /\ shownLimits' \in 0..Limits!Never
        /\ countdown' = countdown - 1 /\ heard' = heard
    BY <1>1, <1>2, OlderBounds
  <2>2. CASE shownLimits <= Reach - countdown
    BY <1>2, <2>1, <2>2, LimitsConstants
  <2>3. CASE /\ heard /\ shared # Limits!NoRequest
             /\ shownLimits <= Reach + shared.out
    <3>1. shared.out \in Int
      BY <1>2 DEF RequestOK
    <3> QED BY <1>2, <1>3, <2>1, <2>3, <3>1, LimitsConstants
  <2> QED BY <2>1, <2>2, <2>3 DEF LimitsInv
<1>9. ~overlapped' /\ cache' # Limits!None => cache'.age <= newest' + ServerTtl
  <2> SUFFICES ASSUME ~overlapped', cache' # Limits!None
               PROVE  cache'.age <= newest' + ServerTtl
    OBVIOUS
  <2>1. cache # Limits!None /\ cache'.age = Limits!Older(cache.age)
    BY <1>5
  <2>2. cache.age <= newest + ServerTtl /\ cache.age <= Limits!Cap
    BY <1>1, <2>1 DEF LimitsInv, LimitsTypes
  <2> QED BY <1>1, <1>2, <2>1, <2>2, LimitsConstants DEF Limits!Older, Limits!Lesser
<1> QED BY <1>3, <1>4, <1>6, <1>7, <1>8, <1>9 DEF LimitsInv

\* So does every step.
LEMMA LimitsStep == LimitsInv /\ [Limits!Next]_limitsVars => LimitsInv'
<1> SUFFICES ASSUME LimitsInv, [Limits!Next]_limitsVars PROVE LimitsInv'
  OBVIOUS
<1>0. {heard, lost} \subseteq BOOLEAN /\ countdown \in 0..Ttl /\ Ttl \in 0..Ttl /\ 0 \in 0..Ttl
      /\ viewer \in {"chat", "usage", "none"}
  BY LimitsConstants DEF LimitsInv, LimitsTypes
<1>1. ASSUME NEW page \in {"chat", "usage"}, Limits!OpenPage(page) PROVE LimitsInv'
  <2>1. /\ Limits!GetLimits(Limits!Never, FALSE, FALSE) /\ viewer' = page
        /\ countdown' = IF page = "chat" THEN Ttl ELSE 0
    BY <1>1 DEF Limits!OpenPage
  <2>2. viewer' \in {"chat", "usage", "none"} /\ countdown' \in 0..Ttl
    BY <1>0, <2>1
  <2>3. ASSUME NEW w \in BOOLEAN, NEW f \in BOOLEAN, Limits!GetLimits(Limits!Never, w, f)
        PROVE  LimitsInv'
    BY <2>2, <2>3, GetKeeps
  <2> QED BY <2>1, <2>3, Zenon
<1>2. CASE Limits!PollLimits
  BY <1>0, <1>2, GetKeeps DEF Limits!PollLimits
<1>3. CASE Limits!TurnEnded
  BY <1>0, <1>3, GetKeeps DEF Limits!TurnEnded
<1>9. CASE Limits!LeavePage
  <2>1. /\ viewer' = "none" /\ heard' = FALSE /\ lost' = FALSE
        /\ shownLimits' = Limits!Never
        /\ UNCHANGED <<cache, shared, forced, countdown, newest, overlapped>>
    BY <1>9 DEF Limits!LeavePage
  <2>2. {heard', overlapped', lost'} \subseteq BOOLEAN
    BY <2>1 DEF LimitsInv, LimitsTypes
  <2>3. shownLimits' \in 0..Limits!Never
    BY <2>1, LimitsConstants
  <2>4. LimitsTypes'
    BY <2>1, <2>2, <2>3 DEF LimitsInv, LimitsTypes
  <2> QED BY <2>1, <2>4 DEF LimitsInv, RequestOK
<1>10. CASE Limits!OpenUpgrade
  <2>1. /\ shared = Limits!NoRequest /\ Limits!AskShared
        /\ UNCHANGED <<cache, viewer, heard, shownLimits, countdown, newest, overlapped, lost>>
    BY <1>10 DEF Limits!OpenUpgrade
  <2>2. LimitsTypes'
    BY <2>1 DEF LimitsInv, LimitsTypes
  <2>3. /\ RequestOK(shared') /\ RequestOK(forced')
        /\ (forced' # Limits!NoRequest => ~shared'.alone /\ ~forced'.alone)
        /\ (shared'.alone => newest >= shared'.out)
        /\ forced' # Limits!NoRequest /\ forced'.alone => newest >= forced'.out
    BY <2>1, SharedKeeps
  <2> QED BY <2>1, <2>2, <2>3 DEF LimitsInv
<1>4. CASE Limits!ForceRefresh
  <2>1. /\ forced = Limits!NoRequest /\ forced' = Limits!Sent(shared)
        /\ shared' = Limits!Joined(shared)
        /\ UNCHANGED <<cache, viewer, heard, shownLimits, countdown, newest, overlapped, lost>>
    BY <1>4 DEF Limits!ForceRefresh
  <2>2. RequestOK(shared) /\ newest \in 0..Limits!Never
    BY DEF LimitsInv, LimitsTypes
  <2>3. /\ RequestOK(forced') /\ forced' # Limits!NoRequest /\ forced'.out = 0
        /\ (forced'.alone <=> shared = Limits!NoRequest)
        /\ RequestOK(shared') /\ (shared' = Limits!NoRequest <=> shared = Limits!NoRequest)
        /\ (shared # Limits!NoRequest => ~shared'.alone) /\ shared'.out = shared.out
    BY <2>1, <2>2, RequestForms
  <2>4. LimitsTypes'
    BY <2>1 DEF LimitsInv, LimitsTypes
  <2> QED BY <2>1, <2>2, <2>3, <2>4, LimitsConstants DEF LimitsInv
<1>5. CASE Limits!ServeLimits
  <2>1. UNCHANGED <<cache, viewer, heard, shownLimits, countdown, newest, overlapped, lost>>
    BY <1>5 DEF Limits!ServeLimits
  <2>2. LimitsTypes' /\ RequestOK(shared) /\ RequestOK(forced)
    BY <2>1 DEF LimitsInv, LimitsTypes
  <2>3. ASSUME NEW a \in 0..ServerTtl, shared # Limits!NoRequest,
               shared' = [shared EXCEPT !.age = a], UNCHANGED forced
        PROVE  LimitsInv'
    <3>1. /\ RequestOK(shared') /\ shared' # Limits!NoRequest
          /\ shared'.out = shared.out /\ shared'.alone = shared.alone
      BY <2>2, <2>3, ServeKeeps
    <3> QED BY <2>1, <2>2, <2>3, <3>1 DEF LimitsInv
  <2>4. ASSUME NEW a \in 0..ServerTtl, forced # Limits!NoRequest,
               forced' = [forced EXCEPT !.age = a], UNCHANGED shared
        PROVE  LimitsInv'
    <3>1. /\ RequestOK(forced') /\ forced' # Limits!NoRequest
          /\ forced'.out = forced.out /\ forced'.alone = forced.alone
      BY <2>2, <2>4, ServeKeeps
    <3> QED BY <2>1, <2>2, <2>4, <3>1 DEF LimitsInv
  <2> QED BY <1>5, <2>3, <2>4, Zenon DEF Limits!ServeLimits
<1>6. CASE Limits!LimitsEnd
  BY <1>0, <1>6, AnswerKeeps, FailureKeeps DEF Limits!LimitsEnd
<1>7. CASE Limits!Tick
  BY <1>7, TickKeeps
<1>8. CASE UNCHANGED limitsVars
  BY <1>8 DEF limitsVars, LimitsInv, LimitsTypes
<1> QED BY <1>1, <1>2, <1>3, <1>4, <1>5, <1>6, <1>7, <1>8, <1>9, <1>10, Zenon DEF Limits!Next

LEMMA LimitsHold == LimitsInv => Limits!LimitsFresh
<1> SUFFICES ASSUME LimitsInv PROVE Limits!LimitsFresh
  OBVIOUS
<1>1. ASSUME viewer = "chat", ~lost, shownLimits # Limits!Never
      PROVE  shownLimits < 2 * (Ttl + Latency) + ServerTtl
  <2>1. shownLimits \in 0..Limits!Never /\ countdown \in 0..Ttl
    BY DEF LimitsInv, LimitsTypes
  <2>2. shared.out \in -1..Latency
    BY DEF LimitsInv, RequestOK
  <2> QED BY <1>1, <2>1, <2>2, LimitsConstants DEF LimitsInv
<1>2. ~overlapped /\ cache # Limits!None => cache.age <= newest + ServerTtl
  BY DEF LimitsInv
<1> QED BY <1>1, <1>2 DEF Limits!LimitsFresh

-----------------------------------------------------------------------------
(****************************************************************************)
(* The Worker's meter: wherever the chunks were cut, what was counted is    *)
(* what the whole lines hold, but for the characters that were cut.         *)
(****************************************************************************)
Line == [text : Nat, usage : Nat]
Symbol == Nat \X {"head", "tail", "feed"}

\* The symbols of the stream after the first `from`, up to `to`.
Stretch(s, from, to) ==
  /\ s \in Seq(Symbol) /\ Len(s) = to - from
  /\ \A j \in 1..Len(s) : s[j] = Meter!Symbols[from + j]

\* What was metered of the first c lines.
Metered(c) ==
  /\ tokens = Meter!UsageOf(1..c)
  /\ letters - Cardinality(Meter!Characters(1..c)) \in -garbled..garbled

\* Up to c lines have been read whole; the rest of what was read waits.
MeterInv ==
  /\ story \in Seq(Line) /\ story # <<>>
  /\ arrivedTo \in 0..(3 * Len(story) - 1) /\ garbled \in Nat /\ letters \in Int
  /\ entry = "open" => \E c \in 0..(Len(story) - 1) :
       /\ 3 * c <= arrivedTo /\ arrivedTo <= 3 * c + 2
       /\ Stretch(buf, 3 * c, arrivedTo)
       /\ Metered(c)
  /\ Meter!MeterSeesAll

Told == story \in Seq(Line) /\ story # <<>>

LEMMA LineFacts ==
  ASSUME Told, NEW i \in 1..Len(story)
  PROVE  story[i].text \in Nat /\ story[i].usage \in Nat
<1>1. story[i] \in Line
  BY ElementsOf DEF Told
<1> QED BY <1>1 DEF Line

LEMMA MeterCounts == \A S : Meter!Cardinality(S) = Cardinality(S)
BY Zenon DEF Meter!Cardinality, Cardinality

\* The symbols of a story, three to a line.
LEMMA SymbolFacts ==
  ASSUME Told
  PROVE  /\ Len(story) \in Nat /\ Len(story) > 0
         /\ Meter!Symbols \in Seq(Symbol)
         /\ Len(Meter!Symbols) = 3 * Len(story) - 1
         /\ DOMAIN Meter!Symbols = 1..(3 * Len(story) - 1)
         /\ \A i \in 1..Len(story) :
              /\ Meter!Symbols[3 * i - 2] = <<i, "head">>
              /\ Meter!Symbols[3 * i - 1] = <<i, "tail">>
              /\ i < Len(story) => Meter!Symbols[3 * i] = <<i, "feed">>
<1>1. Len(story) \in Nat /\ Len(story) > 0
  BY DEF Told
<1> DEFINE N == 3 * Len(story) - 1
           f == [k \in 1..N |-> <<(k + 2) \div 3,
                   CASE k % 3 = 1 -> "head" [] k % 3 = 2 -> "tail" [] OTHER -> "feed">>]
<1>2. Meter!Symbols = f
  BY Zenon DEF Meter!Symbols
<1>3. N \in Nat
  BY <1>1
<1>4. \A k \in 1..N : f[k] \in Symbol
  BY <1>3 DEF Symbol
<1>5. f \in [1..N -> Symbol]
  BY <1>4
<1>6. f \in Seq(Symbol) /\ Len(f) = N /\ DOMAIN f = 1..N
  <2> HIDE DEF f
  <2> QED BY <1>3, <1>5, SeqDef, LenProperties
<1>7. ASSUME NEW i \in 1..Len(story)
      PROVE  /\ f[3 * i - 2] = <<i, "head">>
             /\ f[3 * i - 1] = <<i, "tail">>
             /\ i < Len(story) => f[3 * i] = <<i, "feed">>
  <2>1. i \in Nat /\ i >= 1 /\ i <= Len(story)
    BY <1>1
  <2>2. 3 * i - 2 \in 1..N /\ 3 * i - 1 \in 1..N /\ (i < Len(story) => 3 * i \in 1..N)
    BY <1>1, <2>1
  <2>3. (3 * i - 2) % 3 = 1 /\ (3 * i - 1) % 3 = 2 /\ (3 * i) % 3 = 0
    BY <2>1
  <2>4. ((3 * i - 2) + 2) \div 3 = i /\ ((3 * i - 1) + 2) \div 3 = i /\ (3 * i + 2) \div 3 = i
    BY <2>1
  <2>5. ASSUME NEW k \in 1..N, NEW m, m = k % 3, NEW l, l = (k + 2) \div 3
        PROVE  /\ m = 1 => f[k] = <<l, "head">>
               /\ m = 2 => f[k] = <<l, "tail">>
               /\ m = 0 => f[k] = <<l, "feed">>
    <3>1. f[k] = <<l, CASE m = 1 -> "head" [] m = 2 -> "tail" [] OTHER -> "feed">>
      BY <2>5, Zenon
    <3> HIDE DEF f
    <3> QED BY <3>1
  <2> HIDE DEF f, N
  <2> QED BY <2>2, <2>3, <2>4, <2>5
<1> QED BY <1>1, <1>2, <1>6, <1>7

LEMMA LatestIs ==
  ASSUME NEW T \in SUBSET Int, NEW m \in T, \A j \in T : j <= m
  PROVE  Meter!Latest(T) = m
<1>1. Meter!Latest(T) \in T /\ \A j \in T : j <= Meter!Latest(T)
  BY DEF Meter!Latest
<1>2. PICK l \in T : l = Meter!Latest(T) /\ \A j \in T : j <= l
  BY <1>1
<1> QED BY <1>2

LEMMA LatestExists ==
  ASSUME NEW T \in SUBSET Int, NEW hi \in Int, \A i \in T : i <= hi, T # {}
  PROVE  \E m \in T : (\A j \in T : j <= m) /\ Meter!Latest(T) = m
<1> DEFINE G == {hi - i : i \in T}
<1>1. G \in SUBSET Nat /\ G # {}
  <2>1. ASSUME NEW i \in T PROVE hi - i \in Nat
    BY <2>1
  <2> QED BY <2>1
<1>2. PICK g \in G : \A k \in G : g <= k
  <2> HIDE DEF G
  <2> QED BY <1>1, LeastNatural
<1>3. PICK m \in T : g = hi - m
  BY <1>2
<1>4. \A j \in T : hi - j \in G
  OBVIOUS
<1>5. \A j \in T : j <= m
  <2> HIDE DEF G
  <2> QED BY <1>2, <1>3, <1>4
<1> QED BY <1>5, LatestIs

\* The usage of some lines, and of some more after them.
LEMMA UsageGrows ==
  ASSUME Told, NEW c \in 0..Len(story), NEW d \in c..Len(story)
  PROVE  /\ Meter!UsageOf((c + 1)..d) \in Nat
         /\ Meter!UsageOf(1..d) =
              IF Meter!UsageOf((c + 1)..d) # 0 THEN Meter!UsageOf((c + 1)..d)
              ELSE Meter!UsageOf(1..c)
<1> DEFINE Found(S) == {i \in S : story[i].usage # 0}
<1>1. Len(story) \in Nat /\ c \in Nat /\ d \in Nat /\ c <= d /\ d <= Len(story)
  BY DEF Told
<1>2. \A i \in 1..Len(story) : story[i].usage \in Nat
  BY LineFacts
<1>3. \A S : Meter!UsageOf(S) = IF Found(S) = {} THEN 0
                              ELSE story[Meter!Latest(Found(S))].usage
  BY Zenon DEF Meter!UsageOf
<1>4. CASE Found((c + 1)..d) = {}
  <2>1. Found(1..d) = Found(1..c)
    BY <1>1, <1>4
  <2>2. Meter!UsageOf((c + 1)..d) = 0
    BY <1>3, <1>4
  <2>3. Meter!UsageOf(1..d) = Meter!UsageOf(1..c)
    BY <1>3, <2>1, Zenon
  <2> QED BY <2>2, <2>3
<1>5. CASE Found((c + 1)..d) # {}
  <2> DEFINE F == Found((c + 1)..d)
             G == Found(1..d)
  <2>1. F \in SUBSET Int /\ \A i \in F : i <= d
    BY <1>1
  <2>2. PICK m \in F : (\A j \in F : j <= m) /\ Meter!Latest(F) = m
    <3>1. F # {}
      BY <1>5
    <3>2. d \in Int
      BY <1>1
    <3> HIDE DEF F
    <3> QED BY <2>1, <3>1, <3>2, LatestExists, Zenon
  <2>3. G \in SUBSET Int /\ m \in G /\ \A j \in G : j <= m
    BY <1>1, <2>2
  <2>4. Meter!Latest(G) = m
    <3> HIDE DEF F, G
    <3> QED BY <2>3, LatestIs
  <2>5. story[m].usage # 0 /\ m \in 1..Len(story)
    BY <1>1, <2>2
  <2>6. Meter!UsageOf((c + 1)..d) = story[m].usage
    BY <1>3, <1>5, <2>2, Zenon
  <2>7. Meter!UsageOf(1..d) = story[m].usage
    BY <1>3, <2>3, <2>4, Zenon
  <2> QED BY <1>2, <2>5, <2>6, <2>7
<1> QED BY <1>4, <1>5

\* The characters of some lines.
LEMMA CharactersFinite ==
  ASSUME Told, NEW S \in SUBSET (1..Len(story))
  PROVE  IsFiniteSet(Meter!Characters(S)) /\ Cardinality(Meter!Characters(S)) \in Nat
<1> DEFINE Pile(i) == {i} \X (1..story[i].text)
           Piles == {Pile(i) : i \in S}
<1>0. Len(story) \in Nat /\ \A i \in 1..Len(story) : story[i].text \in Nat
  BY LineFacts DEF Told
<1>s. IsFiniteSet(S)
  <2>1. IsFiniteSet(1..Len(story))
    BY <1>0, FS_Interval
  <2> QED BY <2>1, FS_Subset
<1>1. IsFiniteSet(Piles)
  <2> DEFINE g == [i \in S |-> Pile(i)]
  <2>1. g \in Surjection(S, Piles)
    BY DEF Surjection
  <2> HIDE DEF g, Piles
  <2> QED BY <1>s, <2>1, FS_Surjection
<1>2. ASSUME NEW i \in S PROVE IsFiniteSet(Pile(i))
  <2>1. IsFiniteSet({i})
    BY FS_Singleton
  <2>2. IsFiniteSet(1..story[i].text)
    <3>1. 1 \in Int /\ story[i].text \in Int
      BY <1>0
    <3> QED BY <3>1, FS_Interval
  <2> QED BY <2>1, <2>2, FS_Product
<1>3. \A T \in Piles : IsFiniteSet(T)
  BY <1>2
<1>4. IsFiniteSet(UNION Piles)
  <2> HIDE DEF Piles
  <2> QED BY <1>1, <1>3, FS_UNION
<1>5. Meter!Characters(S) = UNION Piles
  BY Zenon DEF Meter!Characters
<1> QED BY <1>4, <1>5, FS_CardinalityType

LEMMA CharactersGrow ==
  ASSUME Told, NEW c \in 0..Len(story), NEW d \in c..Len(story)
  PROVE  LET n(k, l) == Cardinality(Meter!Characters(k..l))
         IN  n(1, d) = n(1, c) + n(c + 1, d) /\ n(1, c) \in Nat /\ n(c + 1, d) \in Nat
<1> DEFINE A == Meter!Characters(1..c)
           B == Meter!Characters((c + 1)..d)
           C == Meter!Characters(1..d)
<1>1. Len(story) \in Nat /\ c \in Nat /\ d \in Nat /\ c <= d /\ d <= Len(story)
  BY DEF Told
<1>2. 1..d = (1..c) \cup ((c + 1)..d) /\ (1..c) \cap ((c + 1)..d) = {}
  BY <1>1
<1>3. C = A \cup B
  BY <1>2 DEF Meter!Characters
<1>4. A \cap B = {}
  <2> SUFFICES ASSUME NEW i \in 1..c, NEW j \in (c + 1)..d,
                      NEW x \in {i} \X (1..story[i].text), x \in {j} \X (1..story[j].text)
               PROVE  FALSE
    BY Zenon DEF Meter!Characters
  <2> QED BY <1>2
<1>5. IsFiniteSet(A) /\ IsFiniteSet(B)
  BY <1>1, CharactersFinite
<1> HIDE DEF A, B, C
<1>6. Cardinality(C) = Cardinality(A) + Cardinality(B) /\ Cardinality(A) \in Nat
      /\ Cardinality(B) \in Nat
  BY <1>3, <1>4, <1>5, DisjointUnion
<1> QED BY <1>6 DEF A, B, C

\* What a stretch holds of the lines it covers.
Covers(s, c, e) ==
  \A j \in 1..(e - 3 * c) :
    \E i \in 1..Len(story) :
      \/ 3 * c + j = 3 * i - 2 /\ s[j] = <<i, "head">>
      \/ 3 * c + j = 3 * i - 1 /\ s[j] = <<i, "tail">>
      \/ 3 * c + j = 3 * i /\ s[j] = <<i, "feed">>

\* And where each symbol of line i is.
HasLine(s, c, e, i) ==
  /\ 3 * i - 2 <= e => 3 * (i - c) - 2 \in DOMAIN s /\ s[3 * (i - c) - 2] = <<i, "head">>
  /\ 3 * i - 1 <= e => 3 * (i - c) - 1 \in DOMAIN s /\ s[3 * (i - c) - 1] = <<i, "tail">>
  /\ 3 * i <= e => 3 * (i - c) \in DOMAIN s /\ s[3 * (i - c)] = <<i, "feed">>

LEMMA StretchLines ==
  ASSUME Told, NEW s, NEW c \in Nat, NEW e \in Nat, Stretch(s, 3 * c, e),
         e <= 3 * Len(story) - 1
  PROVE  /\ DOMAIN s = 1..(e - 3 * c) /\ e - 3 * c \in Nat
         /\ Covers(s, c, e)
<1>1. s \in Seq(Symbol) /\ Len(s) = e - 3 * c
      /\ \A j \in 1..Len(s) : s[j] = Meter!Symbols[3 * c + j]
  BY DEF Stretch
<1>2. DOMAIN s = 1..(e - 3 * c) /\ e - 3 * c \in Nat
  BY <1>1
<1>3. ASSUME NEW j \in 1..(e - 3 * c)
      PROVE  \E i \in 1..Len(story) :
               \/ 3 * c + j = 3 * i - 2 /\ s[j] = <<i, "head">>
               \/ 3 * c + j = 3 * i - 1 /\ s[j] = <<i, "tail">>
               \/ 3 * c + j = 3 * i /\ s[j] = <<i, "feed">>
  <2>1. Len(story) \in Nat /\ j \in Nat /\ j >= 1
    BY DEF Told
  <2>2. PICK k \in Nat : k = 3 * c + j /\ 1 <= k /\ k <= 3 * Len(story) - 1 /\ s[j] = Meter!Symbols[k]
    BY <1>1, <2>1
  <2>3. PICK i \in Nat : k = 3 * i - 2 \/ k = 3 * i - 1 \/ k = 3 * i
    <3>1. \E i \in Nat : k = 3 * i - 2 \/ k = 3 * i - 1 \/ k = 3 * i
      <4>1. (k + 2) \div 3 \in Nat /\ 3 * ((k + 2) \div 3) <= k + 2
            /\ k + 2 < 3 * ((k + 2) \div 3 + 1)
        BY <2>2, Quotient
      <4>2. PICK i \in Nat : i = (k + 2) \div 3
        BY <4>1
      <4>3. k = 3 * i - 2 \/ k = 3 * i - 1 \/ k = 3 * i
        BY <4>1, <4>2
      <4> QED BY <4>3
    <3> QED BY <3>1
  <2>4. i \in 1..Len(story) /\ (k = 3 * i => i < Len(story))
    BY <2>1, <2>2, <2>3
  <2>5. /\ Meter!Symbols[3 * i - 2] = <<i, "head">>
        /\ Meter!Symbols[3 * i - 1] = <<i, "tail">>
        /\ i < Len(story) => Meter!Symbols[3 * i] = <<i, "feed">>
    BY <2>4, SymbolFacts
  <2> QED BY <2>2, <2>3, <2>4, <2>5
<1> QED BY <1>2, <1>3, Zenon DEF Covers

LEMMA StretchPlaces ==
  ASSUME Told, NEW s, NEW c \in Nat, NEW e \in Nat, Stretch(s, 3 * c, e),
         e <= 3 * Len(story) - 1, NEW i \in (c + 1)..Len(story)
  PROVE  HasLine(s, c, e, i)
<1> USE DEF HasLine
<1>1. DOMAIN s = 1..(e - 3 * c) /\ e - 3 * c \in Nat
  BY StretchLines
<1>2. \A j \in 1..(e - 3 * c) : s[j] = Meter!Symbols[3 * c + j]
  BY DEF Stretch
<1>3. Len(story) \in Nat /\ i \in Nat /\ i >= c + 1 /\ i \in 1..Len(story)
  BY DEF Told
<1>4. /\ Meter!Symbols[3 * i - 2] = <<i, "head">>
      /\ Meter!Symbols[3 * i - 1] = <<i, "tail">>
      /\ i < Len(story) => Meter!Symbols[3 * i] = <<i, "feed">>
  BY <1>3, SymbolFacts
<1>5. /\ 3 * c + (3 * (i - c) - 2) = 3 * i - 2
      /\ 3 * c + (3 * (i - c) - 1) = 3 * i - 1
      /\ 3 * c + 3 * (i - c) = 3 * i
  BY <1>3
<1>6. CASE 3 * i - 2 <= e
  <2>1. 3 * (i - c) - 2 \in 1..(e - 3 * c)
    BY <1>1, <1>3, <1>6
  <2>2. s[3 * (i - c) - 2] = <<i, "head">>
    BY <1>2, <1>4, <1>5, <2>1, Zenon
  <2>3. CASE 3 * i - 1 <= e
    <3>1. 3 * (i - c) - 1 \in 1..(e - 3 * c)
      BY <1>1, <1>3, <2>3
    <3>2. s[3 * (i - c) - 1] = <<i, "tail">>
      BY <1>2, <1>4, <1>5, <3>1, Zenon
    <3>3. CASE 3 * i <= e
      <4>1. 3 * (i - c) \in 1..(e - 3 * c) /\ i < Len(story)
        BY <1>1, <1>3, <3>3
      <4>2. s[3 * (i - c)] = <<i, "feed">>
        BY <1>2, <1>4, <1>5, <4>1, Zenon
      <4> QED BY <1>1, <2>1, <2>2, <3>1, <3>2, <4>1, <4>2
    <3> QED BY <1>1, <2>1, <2>2, <3>1, <3>2, <3>3
  <2>4. CASE ~(3 * i - 1 <= e)
    BY <1>1, <1>3, <2>1, <2>2, <2>4
  <2> QED BY <2>3, <2>4
<1>7. CASE ~(3 * i - 2 <= e)
  BY <1>3, <1>7
<1> QED BY <1>6, <1>7

\* What parses of a stretch that ends with a line, or before its line feed.
LEMMA ParsedIs ==
  ASSUME Told, NEW s, NEW c \in Nat, NEW d \in c..Len(story), NEW e \in {3 * d - 1, 3 * d},
         3 * c <= e, e <= 3 * Len(story) - 1, Stretch(s, 3 * c, e)
  PROVE  Meter!Parsed(s) = (c + 1)..d
<1>1. Len(story) \in Nat /\ d \in Nat /\ c <= d /\ d <= Len(story) /\ e \in Nat
      /\ DOMAIN story = 1..Len(story)
  BY DEF Told
<1>2. DOMAIN s = 1..(e - 3 * c)
  BY <1>1, StretchLines
<1>3. ASSUME NEW i \in Meter!Parsed(s) PROVE i \in (c + 1)..d
  <2>1. PICK k \in DOMAIN s : s[k] = <<i, "tail">>
    BY DEF Meter!Parsed
  <2>2. PICK l \in 1..Len(story) :
          \/ 3 * c + k = 3 * l - 2 /\ s[k] = <<l, "head">>
          \/ 3 * c + k = 3 * l - 1 /\ s[k] = <<l, "tail">>
          \/ 3 * c + k = 3 * l /\ s[k] = <<l, "feed">>
    <3>1. Covers(s, c, e)
      BY <1>1, StretchLines
    <3> QED BY <1>2, <3>1 DEF Covers
  <2>3. i = l /\ 3 * c + k = 3 * l - 1
    BY <2>1, <2>2
  <2> QED BY <1>1, <1>2, <2>3
<1>4. ASSUME NEW i \in (c + 1)..d PROVE i \in Meter!Parsed(s)
  <2>1. i \in (c + 1)..Len(story) /\ i \in DOMAIN story /\ 3 * i - 2 <= e /\ 3 * i - 1 <= e
    BY <1>1
  <2>2. /\ 3 * (i - c) - 2 \in DOMAIN s /\ s[3 * (i - c) - 2] = <<i, "head">>
        /\ 3 * (i - c) - 1 \in DOMAIN s /\ s[3 * (i - c) - 1] = <<i, "tail">>
    <3>1. HasLine(s, c, e, i)
      BY <1>1, <2>1, StretchPlaces
    <3> QED BY <2>1, <3>1, Zenon DEF HasLine
  <2> QED BY <2>1, <2>2, Zenon DEF Meter!Parsed
<1> QED BY <1>3, <1>4

\* The complete lines of a stretch.
LEMMA CutIs ==
  ASSUME Told, NEW s, NEW c \in Nat, NEW d \in Nat, c <= d, NEW e \in Nat,
         3 * d <= e, e <= 3 * d + 2, e <= 3 * Len(story) - 1, Stretch(s, 3 * c, e)
  PROVE  Meter!Cut(s) = 3 * (d - c)
<1> DEFINE F == {i \in DOMAIN s : s[i][2] = "feed"}
<1>1. Len(story) \in Nat /\ DOMAIN s = 1..(e - 3 * c) /\ d <= Len(story)
  <2>1. Len(story) \in Nat
    BY DEF Told
  <2>2. DOMAIN s = 1..(e - 3 * c)
    BY StretchLines
  <2> QED BY <2>1, <2>2
<1>2. Meter!Cut(s) = IF F = {} THEN 0 ELSE Meter!Latest(F)
  BY Zenon DEF Meter!Cut
<1>3. ASSUME NEW j \in F PROVE \E i \in Nat : 3 * c + j = 3 * i /\ j \in 1..(e - 3 * c)
  <2>1. PICK l \in 1..Len(story) :
          \/ 3 * c + j = 3 * l - 2 /\ s[j] = <<l, "head">>
          \/ 3 * c + j = 3 * l - 1 /\ s[j] = <<l, "tail">>
          \/ 3 * c + j = 3 * l /\ s[j] = <<l, "feed">>
    <3>1. Covers(s, c, e)
      BY <1>1, StretchLines
    <3> QED BY <1>1, <3>1 DEF Covers
  <2>2. 3 * c + j = 3 * l
    BY <2>1
  <2> QED BY <1>1, <2>2
<1>4. ASSUME NEW j \in F PROVE j \in Nat /\ j >= 1 /\ j <= 3 * (d - c)
  BY <1>3, <1>4
<1>5. CASE c = d
  <2>1. F = {}
    BY <1>4, <1>5
  <2> QED BY <1>2, <1>5, <2>1
<1>6. CASE c < d
  <2>1. d \in (c + 1)..Len(story)
    BY <1>1, <1>6
  <2>2. 3 * (d - c) \in DOMAIN s /\ s[3 * (d - c)] = <<d, "feed">>
    BY <1>1, <2>1, StretchPlaces DEF HasLine
  <2>3. 3 * (d - c) \in F
    BY <2>2
  <2>4. F \in SUBSET Int /\ \A j \in F : j <= 3 * (d - c)
    BY <1>4
  <2> HIDE DEF F
  <2>5. Meter!Latest(F) = 3 * (d - c)
    BY <2>3, <2>4, LatestIs
  <2> QED BY <1>2, <2>3, <2>5
<1> QED BY <1>5, <1>6

\* A stretch and what comes after it are a stretch.
LEMMA StretchGrows ==
  ASSUME Told, NEW s, NEW b \in Nat, NEW e \in Nat, Stretch(s, b, e), NEW n \in Nat \ {0},
         b <= e, e + n <= 3 * Len(story) - 1
  PROVE  Stretch(s \o SubSeq(Meter!Symbols, e + 1, e + n), b, e + n)
<1> DEFINE Y == Meter!Symbols
           z == SubSeq(Y, e + 1, e + n)
<1>1. Y \in Seq(Symbol) /\ Len(Y) = 3 * Len(story) - 1 /\ Len(story) \in Nat
  BY SymbolFacts
<1>2. s \in Seq(Symbol) /\ Len(s) = e - b /\ \A j \in 1..Len(s) : s[j] = Y[b + j]
  BY DEF Stretch
<1> HIDE DEF Y
<1>3. z \in Seq(Symbol) /\ Len(z) = n /\ \A j \in 1..n : z[j] = Y[e + j]
  <2>1. e + 1 \in 1..(Len(Y) + 1) /\ e + n \in e..Len(Y)
    BY <1>1
  <2> QED BY <1>1, <2>1
<1> HIDE DEF z
<1>4. s \o z \in Seq(Symbol) /\ Len(s \o z) = (e + n) - b
  <2>1. s \o z \in Seq(Symbol) /\ Len(s \o z) = Len(s) + Len(z)
    BY <1>2, <1>3, ConcatProperties
  <2> QED BY <1>2, <1>3, <2>1
<1>c. \A j \in 1..(Len(s) + Len(z)) : (s \o z)[j] = IF j <= Len(s) THEN s[j] ELSE z[j - Len(s)]
  BY <1>2, <1>3, ConcatProperties
<1>5. ASSUME NEW j \in 1..((e + n) - b) PROVE (s \o z)[j] = Y[b + j]
  <2>1. CASE j <= e - b
    BY <1>2, <1>3, <1>c, <2>1
  <2>2. CASE ~(j <= e - b)
    <3>1. PICK i \in 1..n : j = (e - b) + i
      <4>1. j - (e - b) \in 1..n /\ j = (e - b) + (j - (e - b))
        BY <2>2
      <4> QED BY <4>1
    <3>2. (s \o z)[j] = z[i]
      <4>1. j \in 1..(Len(s) + Len(z)) /\ ~(j <= Len(s)) /\ j - Len(s) = i
        BY <1>2, <1>3, <2>2, <3>1
      <4> QED BY <1>c, <4>1
    <3>3. b + j = e + i
      BY <3>1
    <3> QED BY <1>3, <3>2, <3>3
  <2> QED BY <2>1, <2>2
<1>6. \A j \in 1..Len(s \o z) : (s \o z)[j] = Y[b + j]
  BY <1>4, <1>5
<1> QED BY <1>4, <1>6, Zenon DEF Stretch, z, Y

\* The two parts of a stretch are stretches.
LEMMA StretchHalves ==
  ASSUME NEW s, NEW b \in Nat, NEW m \in Nat, NEW e \in Nat, b <= m, m <= e, Stretch(s, b, e)
  PROVE  /\ Stretch(SubSeq(s, 1, m - b), b, m)
         /\ Stretch(SubSeq(s, (m - b) + 1, Len(s)), m, e)
<1> DEFINE Y == Meter!Symbols
           t == SubSeq(s, 1, m - b)
           r == SubSeq(s, (m - b) + 1, Len(s))
<1>1. s \in Seq(Symbol) /\ Len(s) = e - b /\ \A j \in 1..Len(s) : s[j] = Y[b + j]
  BY DEF Stretch
<1> HIDE DEF Y
<1>2. m - b \in 0..Len(s)
  BY <1>1
<1>3. /\ Len(r) = Len(s) - (m - b)
      /\ \A i \in 1..(m - b) : t[i] = s[i]
      /\ \A i \in 1..(Len(s) - (m - b)) : r[i] = s[(m - b) + i]
      /\ DOMAIN t = 1..(m - b)
  BY <1>1, <1>2, CutInTwo
<1>4. t \in Seq(Symbol) /\ Len(t) = m - b
  BY <1>1, <1>2
<1>5. r \in Seq(Symbol)
  BY <1>1, <1>2
<1> HIDE DEF t, r
<1>6. ASSUME NEW j \in 1..Len(t) PROVE t[j] = Y[b + j]
  <2>1. t[j] = s[j] /\ j \in 1..Len(s)
    BY <1>1, <1>3, <1>4
  <2> QED BY <1>1, <2>1
<1>7. Len(r) = e - m
  BY <1>1, <1>3
<1>8. ASSUME NEW j \in 1..Len(r) PROVE r[j] = Y[m + j]
  <2>1. r[j] = s[(m - b) + j] /\ (m - b) + j \in 1..Len(s)
    BY <1>1, <1>3, <1>7
  <2>2. b + ((m - b) + j) = m + j
    OBVIOUS
  <2> QED BY <1>1, <2>1, <2>2
<1> QED BY <1>4, <1>5, <1>6, <1>7, <1>8, Zenon DEF Stretch, t, r, Y

LEMMA NothingMetered ==
  ASSUME Told
  PROVE  Meter!UsageOf(1..0) = 0 /\ Cardinality(Meter!Characters(1..0)) = 0
<1>1. 1..0 = {}
  OBVIOUS
<1>2. {i \in {} : story[i].usage # 0} = {}
  OBVIOUS
<1>3. Meter!UsageOf({}) = 0
  BY <1>2, Zenon DEF Meter!UsageOf
<1>4. Meter!Characters({}) = {}
  BY DEF Meter!Characters
<1>5. Cardinality({}) = 0
  BY FS_EmptySet
<1> QED BY <1>1, <1>3, <1>4, <1>5

LEMMA MeterStart == Meter!Init => MeterInv
<1> SUFFICES ASSUME Meter!Init PROVE MeterInv
  OBVIOUS
<1>1. /\ story \in Stories /\ buf = <<>> /\ arrivedTo = 0 /\ tokens = 0 /\ letters = 0
      /\ garbled = 0 /\ entry = "open"
  BY DEF Meter!Init
<1>2. story \in Seq(Line) /\ story # <<>>
  BY <1>1, PartsAssumption DEF Meter!MeterAssumption, Line
<1>3. Len(story) \in Nat /\ Len(story) > 0
  BY <1>2
<1>4. Stretch(buf, 3 * 0, arrivedTo)
  BY <1>1 DEF Stretch
<1>5. Metered(0)
  <2>1. Meter!UsageOf(1..0) = 0 /\ Cardinality(Meter!Characters(1..0)) = 0
    BY <1>2, NothingMetered DEF Told
  <2> QED BY <1>1, <2>1 DEF Metered
<1>6. Meter!MeterSeesAll
  BY <1>1, Zenon DEF Meter!MeterSeesAll
<1>7. 0 \in 0..(Len(story) - 1) /\ 3 * 0 <= arrivedTo /\ arrivedTo <= 3 * 0 + 2
      /\ arrivedTo \in 0..(3 * Len(story) - 1) /\ garbled \in Nat /\ letters \in Int
  BY <1>1, <1>3
<1> QED BY <1>2, <1>4, <1>5, <1>6, <1>7, Zenon DEF MeterInv

\* Lines are counted after c others.
LEMMA CountsMore ==
  ASSUME Told, NEW c \in 0..Len(story), NEW d \in c..Len(story), Metered(c),
         garbled \in Nat, letters \in Int, NEW s, Meter!Parsed(s) = (c + 1)..d,
         NEW extra \in {-1, 0, 1}, Meter!Counts(s, extra)
  PROVE  /\ letters' \in Int /\ tokens' = Meter!UsageOf(1..d)
         /\ letters' - extra - Cardinality(Meter!Characters(1..d)) \in -garbled..garbled
<1> DEFINE u == Meter!UsageOf((c + 1)..d)
           w == Cardinality(Meter!Characters((c + 1)..d))
           x == Cardinality(Meter!Characters(1..c))
           y == Cardinality(Meter!Characters(1..d))
<1>1. tokens' = (IF u # 0 THEN u ELSE tokens) /\ letters' = letters + w + extra
  <2>1. Meter!ParseUsage(s) = u
    BY Zenon DEF Meter!ParseUsage
  <2>2. Meter!TextFrom(s) = w
    BY Zenon, MeterCounts DEF Meter!TextFrom
  <2>3. /\ tokens' = IF Meter!ParseUsage(s) # 0 THEN Meter!ParseUsage(s) ELSE tokens
        /\ letters' = letters + Meter!TextFrom(s) + extra
    BY Zenon DEF Meter!Counts
  <2> HIDE DEF u, w
  <2> QED BY <2>1, <2>2, <2>3, Zenon
<1>2. Meter!UsageOf(1..d) = IF u # 0 THEN u ELSE Meter!UsageOf(1..c)
  BY UsageGrows
<1>3. y = x + w /\ x \in Nat /\ w \in Nat
  BY CharactersGrow
<1>4. tokens = Meter!UsageOf(1..c) /\ letters - x \in -garbled..garbled
  BY DEF Metered
<1> HIDE DEF u, w, x, y
<1>5. letters' \in Int /\ letters' - extra - y \in -garbled..garbled
  BY <1>1, <1>3, <1>4
<1> QED BY <1>1, <1>2, <1>4, <1>5 DEF y

\* What the same story says again.
LEMMA SameStory ==
  ASSUME story' = story, NEW d
  PROVE  /\ Meter!Symbols' = Meter!Symbols
         /\ Meter!UsageOf(1..d)' = Meter!UsageOf(1..d)
         /\ Meter!Characters(1..d)' = Meter!Characters(1..d)
<1>1. Meter!Symbols' = Meter!Symbols
  BY Zenon DEF Meter!Symbols
<1>2. Meter!UsageOf(1..d)' = Meter!UsageOf(1..d)
  BY Zenon DEF Meter!UsageOf
<1>3. Meter!Characters(1..d)' = Meter!Characters(1..d)
  BY Zenon DEF Meter!Characters
<1> QED BY <1>1, <1>2, <1>3

LEMMA Nearer ==
  ASSUME NEW x \in Int, NEW k \in Nat, NEW o \in {-1, 0, 1}, NEW g \in Nat, x - o - k \in -g..g
  PROVE  x - k \in -(g + 1)..(g + 1) /\ (o = 0 => x - k \in -g..g)
OBVIOUS

LEMMA ChunkStep ==
  ASSUME MeterInv, NEW n \in 1..Len(Meter!Symbols), NEW cuts \in BOOLEAN,
         NEW off \in {-1, 0, 1}, Meter!Chunk(n, cuts, off)
  PROVE  MeterInv'
<1> DEFINE s == buf \o SubSeq(Meter!Symbols, arrivedTo + 1, arrivedTo + n)
           e == arrivedTo + n
           t == SubSeq(s, 1, Meter!Cut(s))
           r == SubSeq(s, Meter!Cut(s) + 1, Len(s))
<1>0. /\ story \in Seq(Line) /\ story # <<>> /\ Told
      /\ arrivedTo \in 0..(3 * Len(story) - 1) /\ garbled \in Nat /\ letters \in Int
  BY DEF MeterInv, Told
<1>1. /\ entry = "open" /\ e <= Len(Meter!Symbols) /\ arrivedTo' = e
      /\ buf' = r /\ Meter!Counts(t, off)
      /\ UNCHANGED <<story, hasKey, entry, ledger>>
  BY Zenon DEF Meter!Chunk, Meter!Read
<1>2. (cuts /\ garbled' = garbled + 1) \/ (off = 0 /\ garbled' = garbled)
  BY Zenon DEF Meter!Chunk
<1>3. Len(Meter!Symbols) = 3 * Len(story) - 1 /\ Len(story) \in Nat /\ n \in Nat \ {0}
      /\ arrivedTo \in Nat /\ e \in Nat /\ e <= 3 * Len(story) - 1
  <2>1. Len(Meter!Symbols) = 3 * Len(story) - 1 /\ Len(story) \in Nat
    BY <1>0, SymbolFacts
  <2> QED BY <1>0, <1>1, <2>1
<1>4. PICK c \in 0..(Len(story) - 1) :
        /\ 3 * c <= arrivedTo /\ arrivedTo <= 3 * c + 2
        /\ Stretch(buf, 3 * c, arrivedTo)
        /\ Metered(c)
  BY <1>1 DEF MeterInv
<1>5. PICK d \in Nat : 3 * d <= e /\ e <= 3 * d + 2
  <2> DEFINE q == e \div 3
  <2>1. q \in Nat /\ 3 * q <= e /\ e < 3 * (q + 1)
    BY <1>3, Quotient
  <2>2. e \in Nat
    BY <1>3
  <2> HIDE DEF q, e
  <2>3. e <= 3 * q + 2
    BY <2>1, <2>2
  <2> QED BY <2>1, <2>3, Zenon
<1>6. c \in Nat /\ c <= d /\ d <= Len(story) - 1 /\ 3 * c \in Nat /\ 3 * d \in Nat
      /\ 3 * c <= 3 * d /\ c \in 0..Len(story) /\ d \in c..Len(story)
  BY <1>3, <1>4, <1>5
<1>7. Stretch(s, 3 * c, e)
  <2>1. 3 * c \in Nat /\ arrivedTo \in Nat
    BY <1>3, <1>6
  <2> HIDE DEF s
  <2> QED BY <1>0, <1>3, <1>4, <2>1, StretchGrows DEF s
<1> HIDE DEF e
<1> HIDE DEF s
<1>8. Meter!Cut(s) = 3 * (d - c)
  BY <1>0, <1>3, <1>5, <1>6, <1>7, CutIs
<1>9. 3 * (d - c) = 3 * d - 3 * c
  BY <1>6
<1>10. Stretch(t, 3 * c, 3 * d) /\ Stretch(r, 3 * d, e)
  BY <1>3, <1>5, <1>6, <1>7, <1>8, <1>9, StretchHalves
<1>11. Meter!Parsed(t) = (c + 1)..d
  <2> HIDE DEF t
  <2>1. 3 * d \in {3 * d - 1, 3 * d} /\ 3 * d <= 3 * Len(story) - 1
    BY <1>3, <1>5, <1>6
  <2> QED BY <1>0, <1>6, <1>10, <2>1, ParsedIs
<1>12. /\ letters' \in Int /\ tokens' = Meter!UsageOf(1..d)
       /\ letters' - off - Cardinality(Meter!Characters(1..d)) \in -garbled..garbled
  <2> HIDE DEF t
  <2> QED BY <1>0, <1>1, <1>4, <1>6, <1>11, CountsMore
<1> HIDE DEF t, r
<1>13. Cardinality(Meter!Characters(1..d)) \in Nat
  <2>1. 1..d \in SUBSET (1..Len(story))
    BY <1>3, <1>6
  <2> QED BY <1>0, <2>1, CharactersFinite
<1>14. garbled' \in Nat /\ letters' - Cardinality(Meter!Characters(1..d)) \in -garbled'..garbled'
  <2> DEFINE k == Cardinality(Meter!Characters(1..d))
  <2>1. k \in Nat /\ letters' \in Int /\ letters' - off - k \in -garbled..garbled
    BY <1>12, <1>13
  <2> HIDE DEF k
  <2>2. garbled' \in Nat /\ letters' - k \in -garbled'..garbled'
    <3>0. garbled \in Nat /\ off \in {-1, 0, 1}
      BY <1>0
    <3>1. /\ letters' - k \in -(garbled + 1)..(garbled + 1)
          /\ off = 0 => letters' - k \in -garbled..garbled
      BY <2>1, <3>0, Nearer
    <3>2. garbled + 1 \in Nat
      BY <3>0
    <3> QED BY <1>2, <3>0, <3>1, <3>2, Zenon
  <2> QED BY <2>2 DEF k
<1>st. story' = story
  BY <1>1
<1>15. story' = story /\ Meter!Symbols' = Meter!Symbols
       /\ Meter!UsageOf(1..d)' = Meter!UsageOf(1..d)
       /\ Meter!Characters(1..d)' = Meter!Characters(1..d)
  BY <1>st, SameStory, Zenon
<1>16. Metered(d)'
  BY <1>12, <1>14, <1>15, Zenon DEF Metered
<1>17. Stretch(buf, 3 * d, arrivedTo)'
  <2>1. Stretch(r, 3 * d, e)
    BY <1>10
  <2> QED BY <1>1, <1>15, <2>1, Zenon DEF Stretch
<1>18. Meter!MeterSeesAll'
  BY <1>1 DEF Meter!MeterSeesAll
<1>19. d \in 0..(Len(story') - 1) /\ 3 * d <= arrivedTo' /\ arrivedTo' <= 3 * d + 2
       /\ arrivedTo' \in 0..(3 * Len(story') - 1)
  BY <1>1, <1>3, <1>5, <1>6, <1>15
<1>20. \E k \in 0..(Len(story') - 1) :
         /\ 3 * k <= arrivedTo' /\ arrivedTo' <= 3 * k + 2
         /\ Stretch(buf, 3 * k, arrivedTo)'
         /\ Metered(k)'
  BY <1>16, <1>17, <1>19, Zenon
<1>21. story' \in Seq(Line) /\ story' # <<>>
  BY <1>0, <1>15
<1> QED BY <1>12, <1>14, <1>18, <1>19, <1>20, <1>21, Zenon DEF MeterInv

\* Total, of a usage and of the characters when there is none.
LEMMA TotalOf ==
  /\ \A n \in Nat \ {0} : \A x : Meter!Total(n, x) = n
  /\ \A x \in Int : /\ Meter!Total(0, x) \in Int
                   /\ \A y \in Int : x <= y => Meter!Total(0, x) <= Meter!Total(0, y)
<1>0. Prompt \in Nat
  BY PartsAssumption DEF Meter!MeterAssumption
<1>1. ASSUME NEW n \in Nat \ {0}, NEW x PROVE Meter!Total(n, x) = n
  BY DEF Meter!Total
<1>2. ASSUME NEW x \in Int PROVE Meter!Total(0, x) = Prompt + (x + 3) \div 4
  BY <1>0 DEF Meter!Total
<1>3. ASSUME NEW x \in Int, NEW y \in Int, x <= y
      PROVE  (x + 3) \div 4 \in Int /\ (y + 3) \div 4 \in Int /\ (x + 3) \div 4 <= (y + 3) \div 4
  BY <1>3
<1> QED BY <1>0, <1>1, <1>2, <1>3

\* The row says what a count of all lines says.
LEMMA RowIsRight ==
  ASSUME Told, NEW n, n = Meter!UsageOf(1..Len(story)), NEW x \in Int, garbled \in Nat,
         x - Cardinality(Meter!Characters(1..Len(story))) \in -garbled..garbled,
         ledger' = Meter!Total(n, x), story' = story, garbled' = garbled
  PROVE  Meter!MeterSeesAll'
<1> DEFINE a == Cardinality(Meter!Characters(1..Len(story)))
<1>1. Len(story) \in Nat /\ DOMAIN story = 1..Len(story)
  BY DEF Told
<1>2. a \in Nat
  BY <1>1, CharactersFinite
<1>3. n \in Nat
  <2>1. 0 \in 0..Len(story) /\ Len(story) \in 0..Len(story) /\ 0 + 1 = 1
    BY <1>1
  <2>2. Meter!UsageOf((0 + 1)..Len(story)) \in Nat
    BY <2>1, UsageGrows
  <2> QED BY <2>1, <2>2
<1>4. Meter!Cardinality(Meter!Characters(1..Len(story))) = a
  BY MeterCounts
<1> HIDE DEF a
<1>5. IF n # 0 THEN ledger' = n
      ELSE ledger' \in Meter!Total(0, a - garbled)..Meter!Total(0, a + garbled)
  <2>1. CASE n # 0
    BY <1>3, <2>1, TotalOf
  <2>2. CASE n = 0
    <3>1. x - a \in -garbled..garbled
      BY DEF a
    <3>2. a - garbled \in Int /\ a + garbled \in Int /\ a - garbled <= x /\ x <= a + garbled
      BY <1>2, <3>1
    <3>3. /\ Meter!Total(0, x) \in Int /\ Meter!Total(0, a - garbled) \in Int
          /\ Meter!Total(0, a + garbled) \in Int
          /\ Meter!Total(0, a - garbled) <= Meter!Total(0, x)
          /\ Meter!Total(0, x) <= Meter!Total(0, a + garbled)
      BY <3>2, TotalOf
    <3> QED BY <2>2, <3>3
  <2> QED BY <2>1, <2>2
<1>6. PICK d : d = Len(story)
  OBVIOUS
<1>7. /\ DOMAIN story' = 1..d
      /\ Meter!UsageOf(1..d)' = n
      /\ Meter!Cardinality(Meter!Characters(1..d)') = a
  BY <1>1, <1>4, <1>6, SameStory, Zenon
<1> QED BY <1>5, <1>7, Zenon DEF Meter!MeterSeesAll

LEMMA FlushStep ==
  ASSUME MeterInv, Meter!Flush
  PROVE  MeterInv'
<1> DEFINE e == 3 * Len(story) - 1
<1>0. /\ story \in Seq(Line) /\ story # <<>> /\ Told
      /\ garbled \in Nat /\ letters \in Int
  BY DEF MeterInv, Told
<1>1. /\ entry = "open" /\ arrivedTo = Len(Meter!Symbols) /\ Meter!Counts(buf, 0)
      /\ entry' = (IF hasKey THEN "written" ELSE "none")
      /\ ledger' = IF hasKey THEN Meter!Total(tokens', letters') ELSE 0
  BY Zenon DEF Meter!Flush
<1>u. story' = story /\ arrivedTo' = arrivedTo /\ garbled' = garbled
  BY DEF Meter!Flush
<1>2. Len(story) \in Nat /\ Len(story) > 0 /\ arrivedTo = e
  BY <1>0, <1>1, SymbolFacts
<1>3. PICK c \in 0..(Len(story) - 1) :
        /\ 3 * c <= arrivedTo /\ arrivedTo <= 3 * c + 2
        /\ Stretch(buf, 3 * c, arrivedTo)
        /\ Metered(c)
  BY <1>1 DEF MeterInv
<1>4. PICK d \in Nat : d = Len(story)
  BY <1>2
<1>5. c \in Nat /\ c \in 0..Len(story) /\ d \in c..Len(story) /\ arrivedTo \in {3 * d - 1, 3 * d}
      /\ arrivedTo <= e
  BY <1>2, <1>3, <1>4
<1>6. Meter!Parsed(buf) = (c + 1)..d
  BY <1>0, <1>3, <1>5, ParsedIs
<1>7. /\ letters' \in Int /\ tokens' = Meter!UsageOf(1..d)
      /\ letters' - 0 - Cardinality(Meter!Characters(1..d)) \in -garbled..garbled
  BY <1>0, <1>1, <1>3, <1>5, <1>6, CountsMore
<1>8. ASSUME entry' = "written" PROVE Meter!MeterSeesAll'
  <2>0. PICK n : n = tokens'
    OBVIOUS
  <2>1. PICK x \in Int : n = tokens' /\ x = letters'
    BY <1>7, <2>0
  <2>2. x - 0 = x
    OBVIOUS
  <2>3. x - Cardinality(Meter!Characters(1..Len(story))) \in -garbled..garbled
    BY <1>4, <1>7, <2>1, <2>2, Zenon
  <2>4. ledger' = Meter!Total(n, x) /\ n = Meter!UsageOf(1..Len(story))
    BY <1>1, <1>4, <1>7, <1>8, <2>1
  <2> QED BY <1>0, <1>u, <2>3, <2>4, RowIsRight
<1>9. Meter!MeterSeesAll'
  <2>1. CASE entry' = "written"
    BY <1>8, <2>1
  <2>2. CASE entry' # "written"
    BY <2>2, Zenon DEF Meter!MeterSeesAll
  <2> QED BY <2>1, <2>2
<1>10. entry' # "open"
  BY <1>1
<1>11. story' \in Seq(Line) /\ story' # <<>> /\ garbled' \in Nat
       /\ arrivedTo' \in 0..(3 * Len(story') - 1)
  BY <1>0, <1>2, <1>u
<1> QED BY <1>7, <1>9, <1>10, <1>11, Zenon DEF MeterInv

LEMMA MeterStep == MeterInv /\ [Meter!Next]_meterVars => MeterInv'
<1> SUFFICES ASSUME MeterInv, [Meter!Next]_meterVars PROVE MeterInv'
  OBVIOUS
<1>1. CASE Meter!Flush
  BY <1>1, FlushStep
<1>2. ASSUME NEW n \in 1..Len(Meter!Symbols), NEW cuts \in BOOLEAN, NEW off \in {-1, 0, 1},
             Meter!Chunk(n, cuts, off)
      PROVE  MeterInv'
  BY <1>2, ChunkStep
<1>3. CASE Meter!Cancel
  <2>1. /\ entry' = "none" /\ story' = story /\ buf' = buf /\ arrivedTo' = arrivedTo
        /\ tokens' = tokens /\ letters' = letters /\ garbled' = garbled
    BY <1>3 DEF Meter!Cancel
  <2>2. Meter!MeterSeesAll'
    BY <2>1, Zenon DEF Meter!MeterSeesAll
  <2> QED BY <2>1, <2>2 DEF MeterInv
<1>4. CASE UNCHANGED meterVars
  <2>1. /\ entry' = entry /\ story' = story /\ buf' = buf /\ arrivedTo' = arrivedTo
        /\ tokens' = tokens /\ letters' = letters /\ garbled' = garbled /\ ledger' = ledger
    BY <1>4 DEF meterVars
  <2>2. Meter!MeterSeesAll'
    BY <2>1, Zenon DEF MeterInv, Meter!MeterSeesAll, Meter!UsageOf, Meter!Characters
  <2>3. ASSUME NEW c, Stretch(buf, 3 * c, arrivedTo) PROVE Stretch(buf, 3 * c, arrivedTo)'
    BY <2>1, <2>3, Zenon DEF Stretch, Meter!Symbols
  <2>4. ASSUME NEW c, Metered(c) PROVE Metered(c)'
    BY <2>1, <2>4, Zenon DEF Metered, Meter!UsageOf, Meter!Characters
  <2> QED BY <2>1, <2>2, <2>3, <2>4, Zenon DEF MeterInv
<1> QED BY <1>1, <1>2, <1>3, <1>4, Zenon DEF Meter!Next

LEMMA MeterHolds == MeterInv => Meter!MeterSeesAll
BY DEF MeterInv

-----------------------------------------------------------------------------
(***************************************************************************)
(* The types of the state: what a part holds is of the kind its module says,*)
(* and within its bounds.  With the records and numbers of TypeOK go the facts*)
(* that keep them: the sets of requests are finite, so that one more has a *)
(* number left, and a part's own invariant where the kinds depend on it.   *)
(***************************************************************************)
\* What the proofs use of the bounds.
LEMMA BoundsFacts ==
  /\ MaxMeCalls \in Nat /\ MaxMeCalls > 1
  /\ MaxQueries \in Nat \ {0} /\ MaxLists \in Nat \ {0} /\ MaxReports \in Nat \ {0}
  /\ MaxReactions \in Nat \ {0} /\ MaxFetches \in Nat \ {0} /\ MaxPayments \in Nat
  /\ Endpoints \in Nat \ {0} /\ MaxMessages \in Nat /\ MaxBranches \in Nat
  /\ MaxChunks \in Nat /\ MaxTurnMessages \in Nat /\ MaxMarks \in Nat /\ MaxTicks \in Nat
  /\ MaxSweeps \in Nat /\ MaxProbes \in Nat /\ MaxTimers \in Nat
  /\ FirstEffort \in Efforts /\ FirstPreset \in Presets
  /\ MaxReads \in Nat \ {0} /\ MaxHour \in Nat /\ \A d \in Expirations : d <= MaxHour
  /\ IsFiniteSet(Member)
BY BoundsAssumption

\* The number a new request gets.
Free(S, m) == CHOOSE n \in 1..m : \A c \in S : c.n # n

LEMMA FreeIs ==
  ASSUME NEW S, IsFiniteSet(S), NEW m \in Nat, Cardinality(S) < m
  PROVE  Free(S, m) \in 1..m
<1> DEFINE f == [c \in S |-> c.n]
<1>1. PICK n \in 1..m : \A c \in S : f[c] # n
  <2> HIDE DEF f
  <2> QED BY FreeNumber
<1>2. \A c \in S : c.n # n
  BY <1>1
<1> QED BY <1>2, Zenon DEF Free

\* A request more, one less, and one in the place of another.
LEMMA FiniteStays ==
  ASSUME NEW S, IsFiniteSet(S), NEW x, NEW y
  PROVE  IsFiniteSet(S \cup {x}) /\ IsFiniteSet(S \ {x}) /\ IsFiniteSet((S \ {x}) \cup {y})
<1>1. IsFiniteSet({x}) /\ IsFiniteSet({y})
  BY FS_Singleton
<1>2. IsFiniteSet(S \ {x})
  BY FS_Subset
<1> QED BY <1>1, <1>2, FS_Union

\* The calls of me(), numbered.
AuthTypes == /\ Auth!TypeOK
             /\ IsFiniteSet(meCalls) /\ Cardinality(meCalls) <= MaxMeCalls

LEMMA AuthCardinality == ASSUME NEW S PROVE Auth!Cardinality(S) = Cardinality(S)
BY Zenon DEF Auth!Cardinality, Cardinality

\* A call of me() more.
LEMMA MeCallAdds ==
  ASSUME NEW cs, cs \subseteq Auth!Call, IsFiniteSet(cs), Cardinality(cs) < MaxMeCalls,
         NEW a \in Auth!Account, NEW from \in {"mount", "setApiKey"}
  PROVE  /\ Auth!MeCall(cs, a, from) \subseteq Auth!Call
         /\ IsFiniteSet(Auth!MeCall(cs, a, from))
         /\ Cardinality(Auth!MeCall(cs, a, from)) <= MaxMeCalls
         /\ Cardinality(Auth!MeCall(cs, a, from)) <= Cardinality(cs) + 1
<1>1. PICK n \in 1..MaxMeCalls : n = Free(cs, MaxMeCalls)
  BY FreeIs, BoundsFacts
<1>2. Auth!MeCall(cs, a, from) = cs \cup {[n |-> n, as |-> a, from |-> from]}
  BY <1>1, Zenon DEF Auth!MeCall, Free
<1>3. [n |-> n, as |-> a, from |-> from] \in Auth!Call
  BY DEF Auth!Call
<1>4. Cardinality(cs) \in Nat
  BY FS_CardinalityType
<1>5. IsFiniteSet(cs \cup {[n |-> n, as |-> a, from |-> from]})
      /\ Cardinality(cs \cup {[n |-> n, as |-> a, from |-> from]}) <= Cardinality(cs) + 1
  BY <1>4, FS_AddElement
<1> QED BY <1>2, <1>3, <1>4, <1>5, BoundsFacts, FS_CardinalityType

\* A page is opened with the token of its address, or without one.
LEMMA OpenTypes ==
  ASSUME AuthTypes, NEW p \in Auth!Place, NEW a \in Auth!Account \cup {Nobody},
         Auth!Open(p, a)
  PROVE  AuthTypes'
<1>1. PICK own \in Auth!Account \cup {Nobody} : own = IF a = Nobody THEN token ELSE a
  BY DEF AuthTypes, Auth!TypeOK
<1>2. PICK first : first = IF a = Nobody THEN {} ELSE Auth!MeCall({}, a, "setApiKey")
  OBVIOUS
<1>3. first \subseteq Auth!Call /\ IsFiniteSet(first) /\ Cardinality(first) < MaxMeCalls
  <2>1. IsFiniteSet({}) /\ Cardinality({}) = 0
    BY FS_EmptySet
  <2> QED BY <1>2, <2>1, MeCallAdds, BoundsFacts, FS_CardinalityType
<1>4. PICK both : both = IF own = Nobody THEN first ELSE Auth!MeCall(first, own, "mount")
  OBVIOUS
<1>5. both \subseteq Auth!Call /\ IsFiniteSet(both) /\ Cardinality(both) <= MaxMeCalls
  BY <1>3, <1>4, MeCallAdds, FS_CardinalityType, BoundsFacts
<1>6. PICK o : o = Auth!Opening(p, token, a)
  OBVIOUS
<1>7. o = [token |-> own, calls |-> both, busy |-> own # Nobody, place |-> p]
  BY <1>1, <1>2, <1>4, <1>6, Zenon DEF Auth!Opening
<1>8. o.token = own /\ o.calls = both /\ o.busy = (own # Nobody)
  BY <1>7
<1>9. token' = own /\ meCalls' = both /\ authLoading' = (own # Nobody)
      /\ user' = Nobody /\ place' = (IF own # Nobody THEN p ELSE Auth!Settle(p, Nobody))
      /\ arrived' = a /\ consent' = [Auth!Closed EXCEPT !.lang = consent.lang]
      /\ failed' = FALSE /\ left' = FALSE /\ away' = FALSE
  BY <1>6, <1>8 DEF Auth!Open
<1>10. (own # Nobody) \in BOOLEAN
  OBVIOUS
<1>11. place' \in Auth!Place
  BY <1>9 DEF Auth!Settle, Auth!Place, Auth!Public, Auth!Inside
<1>12. consent' \in Auth!Dialog
  BY <1>9 DEF Auth!Closed, Auth!Dialog, Auth!Lang, AuthTypes, Auth!TypeOK
<1> QED BY <1>5, <1>9, <1>10, <1>11, <1>12 DEF AuthTypes, Auth!TypeOK

\* The callback page asks once more when it is rendered.
LEMMA RenderTypes ==
  ASSUME AuthTypes, NEW p \in Auth!Place, NEW u \in Auth!Account \cup {Nobody},
         NEW waits \in BOOLEAN, NEW cs \in SUBSET meCalls, Auth!Render(p, u, waits, cs)
  PROVE  /\ user' = u /\ authLoading' = waits /\ place' \in Auth!Place
         /\ token' \in Auth!Account \cup {Nobody}
         /\ meCalls' \subseteq Auth!Call /\ IsFiniteSet(meCalls')
         /\ Cardinality(meCalls') <= MaxMeCalls
<1>1. IsFiniteSet(cs) /\ cs \subseteq Auth!Call /\ Cardinality(cs) <= MaxMeCalls
  <2>1. IsFiniteSet(cs) /\ Cardinality(cs) <= Cardinality(meCalls)
    BY FS_Subset DEF AuthTypes
  <2> QED BY <2>1, FS_CardinalityType, BoundsFacts DEF AuthTypes, Auth!TypeOK
<1>2. place' \in Auth!Place
  BY DEF Auth!Render, Auth!Settle, Auth!Place, Auth!Public, Auth!Inside
<1>3. CASE p = "callback" /\ arrived # Nobody
  <2>1. Cardinality(cs) < MaxMeCalls /\ arrived \in Auth!Account
        /\ token' = arrived /\ meCalls' = Auth!MeCall(cs, arrived, "setApiKey")
    BY <1>3, AuthCardinality DEF Auth!Render, AuthTypes, Auth!TypeOK
  <2> QED BY <1>1, <1>2, <2>1, MeCallAdds DEF Auth!Render
<1>4. CASE ~(p = "callback" /\ arrived # Nobody)
  <2>1. token' = token /\ meCalls' = cs
    BY <1>4 DEF Auth!Render
  <2> QED BY <1>1, <1>2, <2>1 DEF Auth!Render, AuthTypes, Auth!TypeOK
<1> QED BY <1>3, <1>4

LEMMA AuthTypeStart == Auth!Init => AuthTypes
<1> SUFFICES ASSUME Auth!Init PROVE AuthTypes
  OBVIOUS
<1>1. Auth!Closed \in Auth!Dialog
  BY DEF Auth!Closed, Auth!Dialog, Auth!Lang
<1>2. IsFiniteSet({}) /\ Cardinality({}) = 0
  BY FS_EmptySet
<1>3. Auth!TypeOK
  BY <1>1 DEF Auth!Init, Auth!TypeOK, Auth!Place, Auth!Public, Auth!Inside
<1> QED BY <1>2, <1>3, BoundsFacts DEF Auth!Init, AuthTypes

LEMMA AuthTypeStep ==
  ASSUME AuthTypes, ConsentInv, [Auth!Next]_authVars
  PROVE  AuthTypes'
<1>0. consent' \in Auth!Dialog
  BY ConsentStep DEF ConsentInv
<1>1. ASSUME NEW p \in Auth!Place, Auth!Visit(p) PROVE AuthTypes'
  BY <1>1, OpenTypes DEF Auth!Visit
<1>2. ASSUME NEW p \in Auth!Place, Auth!Navigate(p) PROVE AuthTypes'
  BY <1>2 DEF AuthTypes, Auth!TypeOK, Auth!Navigate, Auth!Settle, Auth!Place, Auth!Public,
       Auth!Inside
<1>3. ASSUME NEW a \in Auth!Account \cup {Nobody}, Auth!Return(a) PROVE AuthTypes'
  BY <1>3, OpenTypes DEF Auth!Return, Auth!Place, Auth!Public, Auth!Inside
<1>4. CASE Auth!ReturnError
  BY <1>4, OpenTypes DEF Auth!ReturnError, Auth!Place, Auth!Public, Auth!Inside
<1>5. ASSUME NEW c \in meCalls, Auth!MeReply(c) PROVE AuthTypes'
  <2>1. c \in Auth!Call /\ Auth!After(c) \in Auth!Place /\ c.as \in Auth!Account
        /\ Auth!StillLoading(c) \in BOOLEAN
    BY DEF AuthTypes, Auth!TypeOK, Auth!Call, Auth!After, Auth!Place, Auth!Public,
         Auth!Inside, Auth!StillLoading
  <2>2. meCalls \ {c} \in SUBSET meCalls
    OBVIOUS
  <2>3. user' \in Auth!Account /\ authLoading' \in BOOLEAN /\ place' \in Auth!Place
        /\ token' \in Auth!Account \cup {Nobody}
        /\ meCalls' \subseteq Auth!Call /\ IsFiniteSet(meCalls') /\ Cardinality(meCalls') <= MaxMeCalls
    BY <1>5, <2>1, <2>2, RenderTypes DEF Auth!MeReply
  <2> QED BY <1>5, <2>3 DEF Auth!MeReply, AuthTypes, Auth!TypeOK
<1>6. ASSUME NEW c \in meCalls, Auth!MeFails(c) PROVE AuthTypes'
  <2>1. meCalls \ {c} \subseteq Auth!Call /\ IsFiniteSet(meCalls \ {c})
        /\ Cardinality(meCalls \ {c}) < MaxMeCalls
    <3>1. IsFiniteSet(meCalls \ {c}) /\ Cardinality(meCalls \ {c}) = Cardinality(meCalls) - 1
      BY FS_RemoveElement DEF AuthTypes
    <3> QED BY <3>1, FS_CardinalityType, BoundsFacts DEF AuthTypes, Auth!TypeOK
  <2>2. Auth!After(c) \in Auth!Place /\ Auth!StillLoading(c) \in BOOLEAN
    BY DEF AuthTypes, Auth!TypeOK, Auth!After, Auth!Place, Auth!Public, Auth!Inside,
         Auth!StillLoading
  <2>3. place' \in Auth!Place /\ authLoading' \in BOOLEAN /\ user' = user /\ failed' = TRUE
        /\ UNCHANGED <<arrived, consent, away, left>>
    BY <1>6, <2>2 DEF Auth!MeFails, Auth!Settle, Auth!Place, Auth!Public, Auth!Inside
  <2>4. \/ arrived # Nobody /\ token' = arrived
             /\ meCalls' = Auth!MeCall(meCalls \ {c}, arrived, "setApiKey")
        \/ token' = Nobody /\ meCalls' = meCalls \ {c}
    BY <1>6 DEF Auth!MeFails, Auth!Dropped
  <2>40. arrived # Nobody => arrived \in Auth!Account
    BY DEF AuthTypes, Auth!TypeOK
  <2>5. token' \in Auth!Account \cup {Nobody} /\ meCalls' \subseteq Auth!Call /\ IsFiniteSet(meCalls')
        /\ Cardinality(meCalls') <= MaxMeCalls
    <3>1. CASE token' = Nobody /\ meCalls' = meCalls \ {c}
      BY <2>1, <3>1, BoundsFacts, FS_CardinalityType
    <3>2. CASE arrived # Nobody /\ token' = arrived
               /\ meCalls' = Auth!MeCall(meCalls \ {c}, arrived, "setApiKey")
      BY <2>1, <2>40, <3>2, MeCallAdds
    <3> QED BY <2>4, <3>1, <3>2
  <2> QED BY <2>3, <2>5 DEF AuthTypes, Auth!TypeOK
<1>7. CASE Auth!LeaveWelcome
  BY <1>7 DEF AuthTypes, Auth!TypeOK, Auth!LeaveWelcome, Auth!Place, Auth!Public,
       Auth!Inside
<1>8. CASE Auth!Logout
  BY <1>8 DEF AuthTypes, Auth!TypeOK, Auth!Logout, Auth!Place, Auth!Public, Auth!Inside,
       Auth!Dropped
<1>9. CASE Auth!OpenConsent
  BY <1>0, <1>9 DEF AuthTypes, Auth!TypeOK, Auth!OpenConsent, Auth!InDialog
<1>10. CASE Auth!CloseConsent
  BY <1>0, <1>10 DEF AuthTypes, Auth!TypeOK, Auth!CloseConsent, Auth!InDialog
<1>11. CASE Auth!Accept
  BY <1>0, <1>11 DEF AuthTypes, Auth!TypeOK, Auth!Accept, Auth!InDialog
<1>12. CASE Auth!Continue
  <2>1. \/ UNCHANGED <<meCalls, away>>
        \/ meCalls' = {} /\ away' = TRUE
    BY <1>12 DEF Auth!Continue, Auth!InDialog
  <2>2. UNCHANGED <<token, user, authLoading, place, arrived, failed, left>>
    BY <1>12 DEF Auth!Continue, Auth!InDialog
  <2>3. IsFiniteSet({}) /\ Cardinality({}) = 0
    BY FS_EmptySet
  <2>4. Auth!TypeOK'
    BY <1>0, <2>1, <2>2 DEF AuthTypes, Auth!TypeOK
  <2> QED BY <2>1, <2>3, <2>4, BoundsFacts DEF AuthTypes
<1>13. ASSUME NEW l \in Auth!Lang, Auth!SwitchLang(l) PROVE AuthTypes'
  BY <1>0, <1>13 DEF AuthTypes, Auth!TypeOK, Auth!SwitchLang, Auth!InDialog
<1>14. CASE UNCHANGED authVars
  BY <1>14 DEF AuthTypes, Auth!TypeOK, authVars
<1> QED BY <1>1, <1>2, <1>3, <1>4, <1>5, <1>6, <1>7, <1>8, <1>9, <1>10, <1>11, <1>12,
     <1>13, <1>14, Zenon DEF Auth!Next

LEMMA CookiesTypeStart == Cookies!Init => Cookies!TypeOK
BY DEF Cookies!Init, Cookies!TypeOK, Cookies!Consent, Cookies!DefaultConsent

LEMMA CookiesTypeStep ==
  ASSUME Cookies!TypeOK, [Cookies!Next]_cookiesVars
  PROVE  Cookies!TypeOK'
<1>1. CASE Cookies!AcceptAll
  BY <1>1 DEF Cookies!TypeOK, Cookies!AcceptAll, Cookies!Consent, Cookies!DefaultConsent,
       Cookies!SaveAndClose
<1>2. CASE Cookies!RejectAll
  BY <1>2 DEF Cookies!TypeOK, Cookies!RejectAll, Cookies!Consent, Cookies!DefaultConsent,
       Cookies!SaveAndClose
<1>3. CASE Cookies!OpenPreferences
  BY <1>3 DEF Cookies!TypeOK, Cookies!OpenPreferences, Cookies!Consent,
       Cookies!DefaultConsent, Cookies!Boxes, Cookies!GetConsent
<1>4. CASE Cookies!SavePreferences
  BY <1>4 DEF Cookies!TypeOK, Cookies!SavePreferences, Cookies!Consent,
       Cookies!DefaultConsent, Cookies!SaveAndClose
<1>5. CASE Cookies!CancelPreferences
  BY <1>5 DEF Cookies!TypeOK, Cookies!CancelPreferences
<1>6. CASE Cookies!MountBanner
  BY <1>6 DEF Cookies!TypeOK, Cookies!MountBanner, Cookies!Consent, Cookies!DefaultConsent
<1>7. CASE Cookies!Elsewhere
  BY <1>7 DEF Cookies!TypeOK, Cookies!Elsewhere
<1>8. ASSUME NEW c \in Category, Cookies!ToggleCategory(c) PROVE Cookies!TypeOK'
  BY <1>8 DEF Cookies!TypeOK, Cookies!ToggleCategory, Cookies!Consent,
       Cookies!DefaultConsent
<1>9. CASE UNCHANGED cookiesVars
  BY <1>9 DEF Cookies!TypeOK, cookiesVars
<1> QED BY <1>1, <1>2, <1>3, <1>4, <1>5, <1>6, <1>7, <1>8, <1>9, Zenon DEF Cookies!Next

MembersTypes == Members!TypeOK /\ IsFiniteSet(memberFetches)

\* The count of a list of members.
LEMMA CountOfMembers ==
  ASSUME NEW S \in SUBSET Member
  PROVE  Members!Cardinality(S) \in 0..Members!Cardinality(Member)
<1>1. Cardinality(S) \in Nat /\ Cardinality(Member) \in Nat /\ Cardinality(S) <= Cardinality(Member)
  <2>1. IsFiniteSet(S) /\ Cardinality(S) <= Cardinality(Member)
    BY BoundsFacts, FS_Subset
  <2> QED BY <2>1, BoundsFacts, FS_CardinalityType
<1> QED BY <1>1, MembersCardinality

LEMMA MembersLoads ==
  ASSUME MembersTypes, Members!Load
  PROVE  memberFetches' \subseteq Members!Fetch /\ IsFiniteSet(memberFetches') /\ membersCrossed' \in BOOLEAN
<1>1. PICK n \in 1..MaxFetches : n = Free(memberFetches, MaxFetches)
  BY FreeIs, MembersCardinality, BoundsFacts DEF Members!Load, MembersTypes
<1>2. memberFetches' = memberFetches \cup {[n |-> n, served |-> FALSE, list |-> {}]}
  BY <1>1, Zenon DEF Members!Load, Members!Slot, Free
<1>3. [n |-> n, served |-> FALSE, list |-> {}] \in Members!Fetch
  BY DEF Members!Fetch, Members!Slot
<1>4. IsFiniteSet(memberFetches')
  BY <1>2, FiniteStays DEF MembersTypes
<1> QED BY <1>2, <1>3, <1>4 DEF MembersTypes, Members!TypeOK, Members!Load

LEMMA MembersTypeStart == Members!Init => MembersTypes
<1> SUFFICES ASSUME Members!Init PROVE MembersTypes
  OBVIOUS
<1>1. 0 \in 0..Members!Cardinality(Member)
  BY BoundsFacts, FS_CardinalityType, MembersCardinality
<1>2. {"nothing"} \in Members!Pasted
  BY DEF Members!Pasted
<1>3. Members!TypeOK
  BY <1>1, <1>2 DEF Members!Init, Members!TypeOK
<1> QED BY <1>3, FS_EmptySet DEF Members!Init, MembersTypes

LEMMA MembersTypeStep ==
  ASSUME MembersTypes, [Members!Next]_membersVars
  PROVE  MembersTypes'
<1>1. CASE Members!Open
  BY <1>1, MembersLoads DEF MembersTypes, Members!TypeOK, Members!Open
<1>2. CASE Members!Close
  BY <1>2 DEF MembersTypes, Members!TypeOK, Members!Close
<1>3. CASE Members!Refresh
  BY <1>3, MembersLoads DEF MembersTypes, Members!TypeOK, Members!Refresh
<1>4. CASE Members!Save
  <2>1. Members!ParseInput \subseteq Member
    BY DEF MembersTypes, Members!TypeOK, Members!ParseInput, Members!Pasted
  <2>2. [what |-> "save", served |-> FALSE, list |-> Members!ParseInput] \in Members!Write
    BY <2>1 DEF Members!Write
  <2> QED BY <1>4, <2>2 DEF MembersTypes, Members!TypeOK, Members!Save, Members!Sends,
       Members!Refuses
<1>5. CASE Members!SaveLevels
  <2>1. [what |-> "levels", served |-> FALSE, list |-> {}] \in Members!Write
    BY DEF Members!Write
  <2> QED BY <1>5, <2>1 DEF MembersTypes, Members!TypeOK, Members!SaveLevels,
       Members!Sends, Members!Refuses
<1>6. CASE Members!Clear
  BY <1>6 DEF MembersTypes, Members!TypeOK, Members!Clear, Members!Sends, Members!Write
<1>7. CASE Members!SaveReply
  <2>1. write \in Members!Write /\ write.list \subseteq Member
    BY <1>7 DEF MembersTypes, Members!TypeOK, Members!SaveReply, Members!Answered,
         Members!NoCall, Members!Write
  <2>2. Members!Cardinality(write.list) \in 0..Members!Cardinality(Member)
    BY <2>1, CountOfMembers
  <2>3. {"nothing"} \in Members!Pasted
    BY DEF Members!Pasted
  <2>4. ids' = write.list /\ count' = Members!Cardinality(write.list) /\ text' = {"nothing"}
        /\ write' = Members!NoCall /\ membersNotice' = "done"
        /\ UNCHANGED <<members, membersOpen, levelsText, memberFetches, membersCrossed,
             membersUnheard>>
    BY <1>7 DEF Members!SaveReply, Members!Finished, Members!Listed
  <2> QED BY <2>1, <2>2, <2>3, <2>4 DEF MembersTypes, Members!TypeOK
<1>8. CASE Members!LevelsReply
  BY <1>8 DEF MembersTypes, Members!TypeOK, Members!LevelsReply, Members!Finished
<1>9. CASE Members!ClearReply
  <2>1. 0 \in 0..Members!Cardinality(Member)
    BY BoundsFacts, FS_CardinalityType, MembersCardinality
  <2>2. {"nothing"} \in Members!Pasted
    BY DEF Members!Pasted
  <2> QED BY <1>9, <2>1, <2>2 DEF MembersTypes, Members!TypeOK, Members!ClearReply,
       Members!Finished
<1>10. CASE Members!WriteFails
  BY <1>10 DEF MembersTypes, Members!TypeOK, Members!WriteFails
<1>11. CASE Members!ServeWrite
  <2>1. write \in Members!Write
    BY <1>11 DEF MembersTypes, Members!TypeOK, Members!ServeWrite
  <2>2. [write EXCEPT !.served = TRUE] \in Members!Write /\ write.list \subseteq Member
    BY <2>1 DEF Members!Write
  <2> QED BY <1>11, <2>2 DEF MembersTypes, Members!TypeOK, Members!ServeWrite
<1>12. ASSUME NEW p \in Members!Pasted, Members!Paste(p) PROVE MembersTypes'
  BY <1>12 DEF MembersTypes, Members!TypeOK, Members!Paste
<1>13. ASSUME NEW p \in {"nothing", "junk", "json"}, Members!PasteLevels(p)
       PROVE MembersTypes'
  BY <1>13 DEF MembersTypes, Members!TypeOK, Members!PasteLevels
<1>14. ASSUME NEW f \in memberFetches, Members!ServeFetch(f) PROVE MembersTypes'
  <2>1. f \in Members!Fetch
    BY DEF MembersTypes, Members!TypeOK
  <2>2. [f EXCEPT !.served = TRUE, !.list = members] \in Members!Fetch
    BY <2>1 DEF Members!Fetch, MembersTypes, Members!TypeOK
  <2>3. IsFiniteSet(memberFetches')
    BY <1>14, FiniteStays DEF Members!ServeFetch, MembersTypes
  <2> QED BY <1>14, <2>2, <2>3 DEF MembersTypes, Members!TypeOK, Members!ServeFetch
<1>15. ASSUME NEW f \in memberFetches, NEW ok \in BOOLEAN, Members!ListArrives(f, ok)
       PROVE MembersTypes'
  <2>1. f.list \in SUBSET Member
    BY DEF MembersTypes, Members!TypeOK, Members!Fetch
  <2>2. Members!Cardinality(f.list) \in 0..Members!Cardinality(Member)
        /\ 0 \in 0..Members!Cardinality(Member)
    BY <2>1, CountOfMembers
  <2>3. IsFiniteSet(memberFetches')
    BY <1>15, FiniteStays DEF Members!ListArrives, MembersTypes
  <2> QED BY <1>15, <2>1, <2>2, <2>3 DEF MembersTypes, Members!TypeOK, Members!ListArrives
<1>16. CASE UNCHANGED membersVars
  BY <1>16 DEF MembersTypes, Members!TypeOK, membersVars
<1> QED BY <1>1, <1>2, <1>3, <1>4, <1>5, <1>6, <1>7, <1>8, <1>9, <1>10, <1>11, <1>12,
     <1>13, <1>14, <1>15, <1>16, Zenon DEF Members!Next

PaymentsTypes == Payments!TypeOK /\ IsFiniteSet(paymentFetches)

LEMMA PaymentsCardinality == ASSUME NEW S PROVE Payments!Cardinality(S) = Cardinality(S)
BY Zenon DEF Payments!Cardinality, Cardinality

LEMMA PaymentsTypeStart == Payments!Init => PaymentsTypes
<1> SUFFICES ASSUME Payments!Init PROVE PaymentsTypes
  OBVIOUS
<1>1. IsFiniteSet({}) /\ 0 \in 0..MaxPayments
  BY FS_EmptySet, BoundsFacts
<1>2. Payments!TypeOK
  BY <1>1 DEF Payments!Init, Payments!TypeOK
<1> QED BY <1>1, <1>2 DEF Payments!Init, PaymentsTypes

LEMMA PaymentsTypeStep ==
  ASSUME PaymentsTypes, [Payments!Next]_paymentsVars
  PROVE  PaymentsTypes'
<1>1. CASE Payments!Open
  <2>1. PICK n \in 1..MaxFetches : n = Free(paymentFetches, MaxFetches)
    BY <1>1, FreeIs, PaymentsCardinality, BoundsFacts DEF Payments!Open, PaymentsTypes
  <2>2. paymentFetches' = paymentFetches \cup {[n |-> n, answer |-> -1]}
    BY <1>1, <2>1, Zenon DEF Payments!Open, Payments!Slot, Free
  <2>3. [n |-> n, answer |-> -1] \in Payments!Fetch
    BY BoundsFacts DEF Payments!Fetch, Payments!Slot
  <2>4. IsFiniteSet(paymentFetches')
    BY <2>2, FiniteStays DEF PaymentsTypes
  <2> QED BY <1>1, <2>2, <2>3, <2>4 DEF PaymentsTypes, Payments!TypeOK, Payments!Open
<1>2. CASE Payments!Close
  BY <1>2 DEF PaymentsTypes, Payments!TypeOK, Payments!Close
<1>3. CASE Payments!Pay
  BY <1>3, BoundsFacts DEF PaymentsTypes, Payments!TypeOK, Payments!Pay
<1>4. ASSUME NEW f \in paymentFetches, Payments!PaymentsArrive(f) PROVE PaymentsTypes'
  <2>1. f.answer \in 0..MaxPayments
    BY <1>4 DEF PaymentsTypes, Payments!TypeOK, Payments!Fetch, Payments!PaymentsArrive
  <2>2. IsFiniteSet(paymentFetches')
    BY <1>4, FiniteStays DEF Payments!PaymentsArrive, PaymentsTypes
  <2> QED BY <1>4, <2>1, <2>2 DEF PaymentsTypes, Payments!TypeOK, Payments!PaymentsArrive
<1>5. ASSUME NEW f \in paymentFetches, Payments!PaymentsFail(f) PROVE PaymentsTypes'
  <2>1. IsFiniteSet(paymentFetches')
    BY <1>5, FiniteStays DEF Payments!PaymentsFail, PaymentsTypes
  <2> QED BY <1>5, <2>1 DEF PaymentsTypes, Payments!TypeOK, Payments!PaymentsFail
<1>6. ASSUME NEW f \in paymentFetches, Payments!ServePayments(f) PROVE PaymentsTypes'
  <2>1. [f EXCEPT !.answer = paid] \in Payments!Fetch
    <3>1. f \in Payments!Fetch /\ paid \in -1..MaxPayments
      BY BoundsFacts DEF PaymentsTypes, Payments!TypeOK
    <3> QED BY <3>1 DEF Payments!Fetch
  <2>2. IsFiniteSet(paymentFetches')
    BY <1>6, FiniteStays DEF Payments!ServePayments, PaymentsTypes
  <2> QED BY <1>6, <2>1, <2>2 DEF PaymentsTypes, Payments!TypeOK, Payments!ServePayments
<1>7. CASE UNCHANGED paymentsVars
  BY <1>7 DEF PaymentsTypes, Payments!TypeOK, paymentsVars
<1> QED BY <1>1, <1>2, <1>3, <1>4, <1>5, <1>6, <1>7, Zenon DEF Payments!Next

UpgradeTypes == Upgrade!TypeOK /\ IsFiniteSet(subFetches)

LEMMA UpgradeCardinality == ASSUME NEW S PROVE Upgrade!Cardinality(S) = Cardinality(S)
BY Zenon DEF Upgrade!Cardinality, Cardinality

LEMMA UpgradeTypeStart == Upgrade!Init => UpgradeTypes
BY FS_EmptySet DEF Upgrade!Init, Upgrade!Loads, Upgrade!Method, UpgradeTypes, Upgrade!TypeOK

LEMMA UpgradeTypeStep ==
  ASSUME UpgradeTypes, [Upgrade!Next]_upgradeVars
  PROVE  UpgradeTypes'
<1>1. CASE Upgrade!Open
  <2>1. PICK n \in 1..MaxFetches : n = Free(subFetches, MaxFetches)
    BY <1>1, FreeIs, UpgradeCardinality, BoundsFacts DEF Upgrade!Open, Upgrade!Room,
         UpgradeTypes
  <2>2. subFetches' = subFetches \cup {[n |-> n, answer |-> "unserved"]}
    BY <1>1, <2>1, Zenon DEF Upgrade!Open, Upgrade!Slot, Free
  <2>3. [n |-> n, answer |-> "unserved"] \in Upgrade!Fetch
    BY DEF Upgrade!Fetch, Upgrade!Slot
  <2>4. IsFiniteSet(subFetches')
    BY <2>2, FiniteStays DEF UpgradeTypes
  <2> QED BY <1>1, <2>2, <2>3, <2>4 DEF UpgradeTypes, Upgrade!TypeOK, Upgrade!Open
<1>2. CASE Upgrade!Close
  BY <1>2 DEF UpgradeTypes, Upgrade!TypeOK, Upgrade!Close
<1>3. CASE Upgrade!CancelSub
  BY <1>3 DEF UpgradeTypes, Upgrade!TypeOK, Upgrade!CancelSub
<1>4. CASE Upgrade!ServeCancel
  BY <1>4 DEF UpgradeTypes, Upgrade!TypeOK, Upgrade!ServeCancel
<1>5. CASE Upgrade!Join
  BY <1>5 DEF UpgradeTypes, Upgrade!TypeOK, Upgrade!Join
<1>6. CASE Upgrade!CloseFallback
  BY <1>6 DEF UpgradeTypes, Upgrade!TypeOK, Upgrade!CloseFallback
<1>7. ASSUME NEW ok \in BOOLEAN, Upgrade!JoinAnswered(ok) PROVE UpgradeTypes'
  BY <1>7 DEF UpgradeTypes, Upgrade!TypeOK, Upgrade!JoinAnswered
<1>8. ASSUME NEW ok \in BOOLEAN, NEW what \in Upgrade!Loads, Upgrade!LoadEnds(what, ok)
      PROVE UpgradeTypes'
  BY <1>8 DEF UpgradeTypes, Upgrade!TypeOK, Upgrade!LoadEnds
<1>9. ASSUME NEW ok \in BOOLEAN, Upgrade!CancelEnds(ok) PROVE UpgradeTypes'
  BY <1>9 DEF UpgradeTypes, Upgrade!TypeOK, Upgrade!CancelEnds, Upgrade!AfterCancel
<1>10. ASSUME NEW ok \in BOOLEAN, NEW f \in subFetches, Upgrade!SubArrives(f, ok)
       PROVE UpgradeTypes'
  <2>1. f.answer \in {"unserved", "loaded"}
    BY DEF UpgradeTypes, Upgrade!TypeOK, Upgrade!Fetch
  <2>2. IsFiniteSet(subFetches')
    BY <1>10, FiniteStays DEF Upgrade!SubArrives, UpgradeTypes
  <2> QED BY <1>10, <2>1, <2>2 DEF UpgradeTypes, Upgrade!TypeOK, Upgrade!SubArrives
<1>11. ASSUME NEW f \in subFetches, Upgrade!ServeFetch(f) PROVE UpgradeTypes'
  <2>1. [f EXCEPT !.answer = "loaded"] \in Upgrade!Fetch
    <3>1. f \in Upgrade!Fetch
      BY DEF UpgradeTypes, Upgrade!TypeOK
    <3> QED BY <3>1 DEF Upgrade!Fetch
  <2>2. IsFiniteSet(subFetches')
    BY <1>11, FiniteStays DEF Upgrade!ServeFetch, UpgradeTypes
  <2> QED BY <1>11, <2>1, <2>2 DEF UpgradeTypes, Upgrade!TypeOK, Upgrade!ServeFetch
<1>12. ASSUME NEW m \in Upgrade!Method, Upgrade!StartCheckout(m) PROVE UpgradeTypes'
  BY <1>12 DEF UpgradeTypes, Upgrade!TypeOK, Upgrade!StartCheckout
<1>13. ASSUME NEW m \in Upgrade!Method, Upgrade!CheckoutEnds(m) PROVE UpgradeTypes'
  BY <1>13 DEF UpgradeTypes, Upgrade!TypeOK, Upgrade!CheckoutEnds
<1>14. CASE UNCHANGED upgradeVars
  BY <1>14 DEF UpgradeTypes, Upgrade!TypeOK, upgradeVars
<1> QED BY <1>1, <1>2, <1>3, <1>4, <1>5, <1>6, <1>7, <1>8, <1>9, <1>10, <1>11, <1>12,
     <1>13, <1>14, Zenon DEF Upgrade!Next

\* Numbers for the requests of reactions, and a list of the page.
ReactionsTypes == /\ React!TypeOK /\ IsFiniteSet(requests)
                  /\ shown \in Seq(StoredMessage)

LEMMA ReactionsCardinality == ASSUME NEW S PROVE React!Cardinality(S) = Cardinality(S)
BY Zenon DEF React!Cardinality, Cardinality

LEMMA ShownLists ==
  /\ NewerMarks \in Seq(StoredMessage) /\ OlderMarks \o NewerMarks \in Seq(StoredMessage)
BY PartsAssumption DEF React!MessageAssumption

LEMMA ReactionsTypeStart == React!Init => ReactionsTypes
BY FS_EmptySet, ShownLists DEF React!Init, React!Reaction, ReactionsTypes, React!TypeOK

LEMMA ReactionsTypeStep ==
  ASSUME ReactionsTypes, [React!Next]_reactionsVars
  PROVE  ReactionsTypes'
<1>1. ASSUME NEW i \in 1..Len(shown), NEW v \in {"like", "dislike"}, React!React(i, v)
      PROVE ReactionsTypes'
  <2>1. PICK m \in StoredMessage : m = shown[i]
    BY ElementsOf DEF ReactionsTypes
  <2>2. PICK next \in React!Reaction : next = IF mark[m] = v THEN "null" ELSE v
    BY DEF React!Reaction
  <2>3. PICK n \in 1..MaxReactions : n = Free(requests, MaxReactions)
    BY <1>1, FreeIs, ReactionsCardinality, BoundsFacts DEF React!React, ReactionsTypes
  <2>4. PICK new : new = [n |-> n, idx |-> i, id |-> m, next |-> next, old |-> mark[m],
       served |-> FALSE]
    OBVIOUS
  <2>5. /\ mark' = [mark EXCEPT ![m] = next] /\ requests' = requests \cup {new}
        /\ UNCHANGED <<stored, shown>> /\ marksApart' \in {marksApart, marksApart \cup {m}}
    BY <1>1, <2>1, <2>2, <2>3, <2>4 DEF React!React, Free
  <2>6. new \in React!Request
    <3>1. mark[m] \in React!Reaction /\ i \in Nat
      BY <2>1 DEF ReactionsTypes, React!TypeOK
    <3> QED BY <2>4, <3>1 DEF React!Request
  <2>7. IsFiniteSet(requests')
    BY <2>5, FiniteStays DEF ReactionsTypes
  <2> QED BY <2>5, <2>6, <2>7 DEF ReactionsTypes, React!TypeOK
<1>2. ASSUME NEW r \in requests, React!Serve(r) PROVE ReactionsTypes'
  <2>1. r \in React!Request
    BY DEF ReactionsTypes, React!TypeOK
  <2>4. React!Toggled(r) \in React!Reaction
    BY <2>1 DEF React!Toggled, React!Request, React!Reaction
  <2>2. /\ [r EXCEPT !.served = TRUE, !.next = React!Toggled(r)] \in React!Request
        /\ r.id \in StoredMessage
    BY <2>1, <2>4 DEF React!Request
  <2>3. IsFiniteSet(requests')
    BY <1>2, FiniteStays DEF React!Serve, ReactionsTypes
  <2> QED BY <1>2, <2>2, <2>3, <2>4 DEF ReactionsTypes, React!TypeOK, React!Serve
<1>3. ASSUME NEW r \in requests, React!Reply(r) PROVE ReactionsTypes'
  <2>1. r.next \in React!Reaction
    BY DEF ReactionsTypes, React!TypeOK, React!Request
  <2>2. IsFiniteSet(requests')
    BY <1>3, FiniteStays DEF React!Reply, ReactionsTypes
  <2> QED BY <1>3, <2>1, <2>2 DEF ReactionsTypes, React!TypeOK, React!Reply, React!Put
<1>4. ASSUME NEW r \in requests, React!Fails(r) PROVE ReactionsTypes'
  <2>1. r.old \in React!Reaction /\ r.id \in StoredMessage
    BY DEF ReactionsTypes, React!TypeOK, React!Request
  <2>2. IsFiniteSet(requests')
    BY <1>4, FiniteStays DEF React!Fails, ReactionsTypes
  <2> QED BY <1>4, <2>1, <2>2 DEF ReactionsTypes, React!TypeOK, React!Fails, React!Put
<1>5. CASE React!PageArrives
  BY <1>5, ShownLists DEF ReactionsTypes, React!TypeOK, React!PageArrives
<1>6. CASE UNCHANGED reactionsVars
  BY <1>6 DEF ReactionsTypes, React!TypeOK, reactionsVars
<1> QED BY <1>1, <1>2, <1>3, <1>4, <1>5, <1>6, Zenon DEF React!Next

AdminTypes == Admin!TypeOK /\ IsFiniteSet(polls) /\ IsFiniteSet(queries)

LEMMA AdminRoom ==
  ASSUME NEW S, IsFiniteSet(S), Admin!Room(S)
  PROVE  Admin!Free(S) \in Admin!Slot
<1>1. Admin!Cardinality(S) = Cardinality(S)
  BY Zenon DEF Admin!Cardinality, Cardinality
<1>2. Free(S, MaxQueries) \in 1..MaxQueries
  BY <1>1, FreeIs, BoundsFacts DEF Admin!Room
<1>3. Admin!Free(S) = Free(S, MaxQueries)
  BY Zenon DEF Admin!Free, Admin!Slot, Free
<1> QED BY <1>2, <1>3 DEF Admin!Slot

\* The status is asked for once more.
LEMMA StatusAsked ==
  ASSUME NEW S, IsFiniteSet(S), S \subseteq Admin!Poll, Admin!Room(S),
         NEW bare \in BOOLEAN, NEW manual \in BOOLEAN
  PROVE  /\ Admin!AskStatus(S, bare, manual) \subseteq Admin!Poll
         /\ IsFiniteSet(Admin!AskStatus(S, bare, manual))
<1>1. PICK n \in Admin!Slot : n = Admin!Free(S)
  BY AdminRoom
<1>2. Admin!AskStatus(S, bare, manual)
        = S \cup {[n |-> n, bare |-> bare, manual |-> manual, answered |-> FALSE]}
  BY <1>1, Zenon DEF Admin!AskStatus
<1>3. [n |-> n, bare |-> bare, manual |-> manual, answered |-> FALSE] \in Admin!Poll
  BY DEF Admin!Poll
<1> QED BY <1>2, <1>3, FiniteStays

\* The usage of a user is.
LEMMA UsageAsked ==
  ASSUME NEW u \in Person, NEW d \in Ranges, AdminTypes, Admin!Load(u, d)
  PROVE  /\ queries' \subseteq Admin!Query /\ IsFiniteSet(queries')
         /\ usageLoading' = TRUE /\ usageErr' = FALSE
<1>1. PICK n \in Admin!Slot : n = Admin!Free(queries)
  BY AdminRoom DEF Admin!Load, AdminTypes
<1>2. queries' = queries \cup {[n |-> n, of |-> u, days |-> d]}
  BY <1>1, Zenon DEF Admin!Load, Admin!AskUsage
<1>3. [n |-> n, of |-> u, days |-> d] \in Admin!Query
  BY DEF Admin!Query
<1>4. IsFiniteSet(queries')
  BY <1>2, FiniteStays DEF AdminTypes
<1> QED BY <1>2, <1>3, <1>4 DEF AdminTypes, Admin!TypeOK, Admin!Load

\* The page stays, or the dialog.
LEMMA PageStays ==
  ASSUME AdminTypes, UNCHANGED Admin!page,
         {usageLoading', usageErr', mixed'} \subseteq BOOLEAN,
         queries' \subseteq Admin!Query /\ IsFiniteSet(queries'),
         selectedUser' \in Person \cup {Nobody}, usageDays' \in Ranges,
              userUsage' \in Admin!Usage
  PROVE  AdminTypes'
BY DEF AdminTypes, Admin!TypeOK, Admin!page

LEMMA DialogStays ==
  ASSUME AdminTypes, UNCHANGED Admin!dialog,
         {status', pageLoading', pageRefreshing', pageErr'} \subseteq BOOLEAN,
         polls' \subseteq Admin!Poll /\ IsFiniteSet(polls')
  PROVE  AdminTypes'
BY DEF AdminTypes, Admin!TypeOK, Admin!dialog

LEMMA AdminTypeStart == Admin!Init => AdminTypes
<1> SUFFICES ASSUME Admin!Init PROVE AdminTypes
  OBVIOUS
<1>1. IsFiniteSet({}) /\ Cardinality({}) = 0
  BY FS_EmptySet
<1>2. Admin!Room({})
  <2>1. Admin!Cardinality({}) = Cardinality({})
    BY Zenon DEF Admin!Cardinality, Cardinality
  <2> QED BY <1>1, <2>1, BoundsFacts DEF Admin!Room
<1>3. polls \subseteq Admin!Poll /\ IsFiniteSet(polls)
  BY <1>1, <1>2, StatusAsked DEF Admin!Init
<1>4. Admin!NoUsage \in Admin!Usage /\ FirstRange \in Ranges
  BY PartsAssumption DEF Admin!AdminAssumption, Admin!Usage
<1>5. Admin!TypeOK
  BY <1>3, <1>4 DEF Admin!Init, Admin!TypeOK
<1> QED BY <1>1, <1>3, <1>5 DEF Admin!Init, AdminTypes

LEMMA AdminTypeStep ==
  ASSUME AdminTypes, [Admin!Next]_adminVars
  PROVE  AdminTypes'
<1>1. CASE Admin!Tick
  <2>1. polls' \subseteq Admin!Poll /\ IsFiniteSet(polls')
    BY <1>1, StatusAsked DEF Admin!Tick, AdminTypes, Admin!TypeOK
  <2> QED BY <1>1, <2>1, DialogStays DEF Admin!Tick, AdminTypes, Admin!TypeOK
<1>2. CASE Admin!Refresh
  <2>1. polls' \subseteq Admin!Poll /\ IsFiniteSet(polls')
    BY <1>2, StatusAsked DEF Admin!Refresh, AdminTypes, Admin!TypeOK
  <2> QED BY <1>2, <2>1, DialogStays DEF Admin!Refresh, AdminTypes, Admin!TypeOK
<1>3. CASE Admin!CloseUser
  <2>1. Admin!NoUsage \in Admin!Usage
    BY DEF Admin!Usage
  <2> QED BY <1>3, <2>1, PageStays DEF Admin!CloseUser, AdminTypes, Admin!TypeOK
<1>4. CASE Admin!RefreshUsage
  <2>1. selectedUser \in Person /\ usageDays \in Ranges
    BY <1>4 DEF Admin!RefreshUsage, AdminTypes, Admin!TypeOK
  <2>2. /\ queries' \subseteq Admin!Query /\ IsFiniteSet(queries')
        /\ usageLoading' = TRUE /\ usageErr' = FALSE
    BY <1>4, <2>1, UsageAsked DEF Admin!RefreshUsage
  <2> QED BY <1>4, <2>2, PageStays DEF Admin!RefreshUsage, AdminTypes, Admin!TypeOK
<1>5. ASSUME NEW p \in polls, Admin!PauseEnds(p) PROVE AdminTypes'
  <2>1. IsFiniteSet(polls')
    BY <1>5, FiniteStays DEF Admin!PauseEnds, AdminTypes
  <2> QED BY <1>5, <2>1, DialogStays DEF Admin!PauseEnds, AdminTypes, Admin!TypeOK
<1>6. ASSUME NEW p \in polls, NEW ok \in BOOLEAN, Admin!StatusReply(p, ok) PROVE AdminTypes'
  <2>1. p \in Admin!Poll /\ p.bare \in BOOLEAN /\ [p EXCEPT !.answered = TRUE] \in Admin!Poll
    BY DEF AdminTypes, Admin!TypeOK, Admin!Poll
  <2>4. /\ polls' \subseteq (polls \ {p}) \cup {[p EXCEPT !.answered = TRUE]}
        /\ IsFiniteSet((polls \ {p}) \cup {[p EXCEPT !.answered = TRUE]})
    <3>1. PICK e : e = [p EXCEPT !.answered = TRUE]
      OBVIOUS
    <3>2. IsFiniteSet((polls \ {p}) \cup {e})
      BY FiniteStays DEF AdminTypes
    <3> QED BY <1>6, <3>1, <3>2 DEF Admin!StatusReply
  <2>2. polls' \subseteq Admin!Poll /\ IsFiniteSet(polls')
    <3>1. polls \subseteq Admin!Poll
      BY DEF AdminTypes, Admin!TypeOK
    <3> QED BY <2>1, <2>4, <3>1, FS_Subset
  <2>3. {status', pageLoading', pageRefreshing', pageErr'} \subseteq BOOLEAN
    BY <1>6 DEF Admin!StatusReply, AdminTypes, Admin!TypeOK
  <2> QED BY <1>6, <2>2, <2>3, DialogStays DEF Admin!StatusReply
<1>7. ASSUME NEW u \in Person, Admin!OpenUser(u) PROVE AdminTypes'
  <2>1. Admin!NoUsage \in Admin!Usage
    BY DEF Admin!Usage
  <2>2. /\ queries' \subseteq Admin!Query /\ IsFiniteSet(queries')
        /\ usageLoading' = TRUE /\ usageErr' = FALSE
    BY <1>7, UsageAsked DEF Admin!OpenUser, AdminTypes, Admin!TypeOK
  <2> QED BY <1>7, <2>1, <2>2, PageStays DEF Admin!OpenUser, Admin!Emptied, AdminTypes,
       Admin!TypeOK
<1>8. ASSUME NEW d \in Ranges, Admin!ChooseDays(d) PROVE AdminTypes'
  <2>1. selectedUser \in Person
    BY <1>8 DEF Admin!ChooseDays, AdminTypes, Admin!TypeOK
  <2>2. /\ queries' \subseteq Admin!Query /\ IsFiniteSet(queries')
        /\ usageLoading' = TRUE /\ usageErr' = FALSE
    BY <1>8, <2>1, UsageAsked DEF Admin!ChooseDays
  <2> QED BY <1>8, <2>2, PageStays DEF Admin!ChooseDays, AdminTypes, Admin!TypeOK
<1>9. ASSUME NEW q \in queries, Admin!UsageReply(q) PROVE AdminTypes'
  <2>1. [of |-> q.of, days |-> q.days] \in Admin!Usage
    BY DEF AdminTypes, Admin!TypeOK, Admin!Query, Admin!Usage
  <2>2. IsFiniteSet(queries')
    BY <1>9, FiniteStays DEF Admin!UsageReply, AdminTypes
  <2> QED BY <1>9, <2>1, <2>2, PageStays DEF Admin!UsageReply, AdminTypes, Admin!TypeOK
<1>10. ASSUME NEW q \in queries, Admin!UsageFails(q) PROVE AdminTypes'
  <2>1. Admin!NoUsage \in Admin!Usage
    BY DEF Admin!Usage
  <2>2. IsFiniteSet(queries')
    BY <1>10, FiniteStays DEF Admin!UsageFails, AdminTypes
  <2> QED BY <1>10, <2>1, <2>2, PageStays DEF Admin!UsageFails, AdminTypes, Admin!TypeOK
<1>11. CASE UNCHANGED adminVars
  BY <1>11 DEF AdminTypes, Admin!TypeOK, adminVars
<1> QED BY <1>1, <1>2, <1>3, <1>4, <1>5, <1>6, <1>7, <1>8, <1>9, <1>10, <1>11,
     Zenon DEF Admin!Next

\* Numbers for the readings of the list.
SidebarTypes == /\ Sidebar!TypeOK /\ IsFiniteSet(listCalls)
                /\ removing = [of |-> removing.of, snapshot |-> removing.snapshot,
                               served |-> removing.served]

LEMMA SidebarCardinality == ASSUME NEW S PROVE Sidebar!Cardinality(S) = Cardinality(S)
BY Zenon DEF Sidebar!Cardinality, Cardinality

LEMMA RefreshTypes ==
  ASSUME SidebarTypes, Sidebar!Refresh
  PROVE  /\ listCalls' \subseteq Sidebar!Call /\ IsFiniteSet(listCalls')
         /\ listsCrossed' \in BOOLEAN
<1>1. PICK n \in 1..MaxLists : n = Free(listCalls, MaxLists)
  BY FreeIs, SidebarCardinality, BoundsFacts DEF Sidebar!Refresh, SidebarTypes
<1>2. listCalls' = listCalls \cup {Sidebar!Unread(n)} /\ listsCrossed' = (listCalls # {})
  BY <1>1, Zenon DEF Sidebar!Refresh, Free
<1>3. Sidebar!Unread(n) \in Sidebar!Call
  BY DEF Sidebar!Unread, Sidebar!Call
<1>4. IsFiniteSet(listCalls')
  BY <1>2, FiniteStays DEF SidebarTypes
<1> QED BY <1>2, <1>3, <1>4 DEF SidebarTypes, Sidebar!TypeOK

LEMMA SidebarTypeStart == Sidebar!Init => SidebarTypes
<1> SUFFICES ASSUME Sidebar!Init PROVE SidebarTypes
  OBVIOUS
<1>1. IsFiniteSet(listCalls)
  BY FS_Singleton DEF Sidebar!Init
<1>2. listCalls \subseteq Sidebar!Call /\ FirstChats \subseteq Chats
  BY BoundsFacts, PartsAssumption
     DEF Sidebar!ChatsAssumption, Sidebar!Init, Sidebar!Call, Sidebar!Unread
<1>3. /\ removing.of = {} /\ removing.snapshot = {}
      /\ removing = [of |-> removing.of, snapshot |-> removing.snapshot,
                     served |-> removing.served]
  BY DEF Sidebar!Init, Sidebar!NoRemoval
<1> QED BY <1>1, <1>2, <1>3 DEF Sidebar!Init, SidebarTypes, Sidebar!TypeOK

LEMMA SidebarTypeStep ==
  ASSUME SidebarTypes, [Sidebar!Next]_sidebarVars
  PROVE  SidebarTypes'
<1>1. CASE Sidebar!Save
  BY <1>1 DEF SidebarTypes, Sidebar!TypeOK, Sidebar!Save
<1>2. CASE Sidebar!ServeStep
  <2>0. UNCHANGED <<conversations, listsCrossed, listLost>>
    BY <1>2 DEF Sidebar!ServeStep
  <2>1. ASSUME NEW l \in listCalls,
               listCalls' = (listCalls \ {l}) \cup {[l EXCEPT !.read = TRUE,
                                                              !.answer = keptChats]},
               UNCHANGED <<keptChats, saving, removing>>
        PROVE  SidebarTypes'
    <3>1. PICK k \in Sidebar!Call : k = [l EXCEPT !.read = TRUE, !.answer = keptChats]
      BY DEF SidebarTypes, Sidebar!TypeOK, Sidebar!Call
    <3>2. listCalls' = (listCalls \ {l}) \cup {k}
      BY <2>1, <3>1
    <3>3. IsFiniteSet(listCalls')
      BY <3>2, FiniteStays DEF SidebarTypes
    <3> QED BY <2>0, <2>1, <3>2, <3>3 DEF SidebarTypes, Sidebar!TypeOK
  <2>2. ASSUME saving' = "served", NEW c \in Chats, keptChats' = keptChats \cup {c},
               UNCHANGED <<listCalls, removing>>
        PROVE  SidebarTypes'
    BY <2>0, <2>2 DEF SidebarTypes, Sidebar!TypeOK
  <2>3. ASSUME removing' = [removing EXCEPT !.served = TRUE],
               keptChats' = keptChats \ removing.of,
               UNCHANGED <<listCalls, saving>>
        PROVE  SidebarTypes'
    <3>1. removing' = [of |-> removing.of, snapshot |-> removing.snapshot, served |-> TRUE]
      BY <2>3 DEF SidebarTypes
    <3> QED BY <2>0, <2>3, <3>1 DEF SidebarTypes, Sidebar!TypeOK
  <2> QED BY <1>2, <2>1, <2>2, <2>3, Zenon DEF Sidebar!ServeStep,
       Sidebar!ServeList, Sidebar!ServeSave, Sidebar!ServeRemove
<1>3. ASSUME NEW c \in Chats, Sidebar!Remove(c) PROVE SidebarTypes'
  <2>1. removing' = [of |-> {c}, snapshot |-> conversations, served |-> FALSE]
        /\ conversations' = conversations \ {c}
        /\ UNCHANGED <<keptChats, listCalls, saving, listsCrossed, listLost>>
    BY <1>3 DEF Sidebar!Remove
  <2> QED BY <2>1 DEF SidebarTypes, Sidebar!TypeOK
<1>4. ASSUME NEW ok \in BOOLEAN, Sidebar!SaveEnds(ok) PROVE SidebarTypes'
  <2>1. Sidebar!Refresh /\ saving' = "none"
        /\ UNCHANGED <<keptChats, conversations, removing, listLost>>
    BY <1>4 DEF Sidebar!SaveEnds
  <2> QED BY <2>1, RefreshTypes DEF SidebarTypes, Sidebar!TypeOK
<1>5. ASSUME NEW ok \in BOOLEAN, Sidebar!RemoveEnds(ok) PROVE SidebarTypes'
  <2>1. /\ Sidebar!Refresh /\ removing' = [of |-> {}, snapshot |-> {}, served |-> FALSE]
        /\ conversations' \in {conversations, removing.snapshot}
        /\ UNCHANGED <<keptChats, saving, listLost>>
    BY <1>5 DEF Sidebar!RemoveEnds, Sidebar!NoRemoval
  <2> QED BY <2>1, RefreshTypes DEF SidebarTypes, Sidebar!TypeOK
<1>6. ASSUME NEW l \in listCalls, NEW ok \in BOOLEAN, Sidebar!ListEnds(l, ok)
      PROVE SidebarTypes'
  <2>1. l.answer \subseteq Chats /\ IsFiniteSet(listCalls \ {l})
    BY FiniteStays DEF SidebarTypes, Sidebar!TypeOK, Sidebar!Call
  <2> QED BY <1>6, <2>1 DEF Sidebar!ListEnds, SidebarTypes, Sidebar!TypeOK
<1>7. CASE UNCHANGED sidebarVars
  BY <1>7 DEF SidebarTypes, Sidebar!TypeOK, sidebarVars
<1> QED BY <1>1, <1>2, <1>3, <1>4, <1>5, <1>6, <1>7, Zenon DEF Sidebar!Next

\* The row of a key that is created and used.
LEMMA RowBounds ==
  /\ MaxHour \in Nat /\ Expirations \subseteq 0..MaxHour /\ FirstExpiration \in Expirations
  /\ Rows!NoRow \in Rows!Row
BY BoundsFacts, PartsAssumption
   DEF Rows!ExpirationAssumption, Rows!NoRow, Rows!Row, Rows!Never

LEMMA RowTypeStart == Rows!Init => Rows!TypeOK
<1> SUFFICES ASSUME Rows!Init PROVE Rows!TypeOK
  OBVIOUS
<1>1. hour \in 0..MaxHour
  BY RowBounds DEF Rows!Init
<1>2. {revealed, copiedMark, denied} \subseteq BOOLEAN /\ clipboard \in {"none", "key",
     "other"}
  BY DEF Rows!Init
<1> QED BY <1>1, <1>2, RowBounds, Zenon DEF Rows!Init, Rows!TypeOK

LEMMA RowTypeStep ==
  ASSUME Rows!TypeOK, [Rows!Next]_rowsVars
  PROVE  Rows!TypeOK'
<1>1. ASSUME NEW d \in Expirations, Rows!ChooseExpiration(d) PROVE Rows!TypeOK'
  BY <1>1 DEF Rows!TypeOK, Rows!ChooseExpiration
<1>2. CASE Rows!CreateKey
  <2>1. PICK until : until = IF expirationDays > 0 THEN hour + expirationDays ELSE Rows!Never
    OBVIOUS
  <2>2. until \in {Rows!Never} \cup 0..(2 * MaxHour)
    BY <2>1, RowBounds DEF Rows!TypeOK
  <2>3. [expires |-> until, active |-> TRUE] \in Rows!Row
    BY <2>2 DEF Rows!Row
  <2>4. /\ keyRow' = [expires |-> until, active |-> TRUE] /\ listedRow' = keyRow'
        /\ expirationDays' = FirstExpiration /\ copiedMark' = FALSE
        /\ UNCHANGED <<zone, hour, revealed, clipboard, denied>>
    BY <1>2, <2>1 DEF Rows!CreateKey
  <2> QED BY <2>3, <2>4, RowBounds DEF Rows!TypeOK
<1>3. CASE Rows!LoadKeys
  BY <1>3 DEF Rows!TypeOK, Rows!LoadKeys
<1>4. CASE Rows!ToggleKeyVisibility
  BY <1>4 DEF Rows!TypeOK, Rows!ToggleKeyVisibility
<1>5. CASE Rows!MarkGoes
  BY <1>5 DEF Rows!TypeOK, Rows!MarkGoes
<1>6. ASSUME NEW ok \in BOOLEAN, Rows!HandleCopy(ok) PROVE Rows!TypeOK'
  BY <1>6 DEF Rows!TypeOK, Rows!HandleCopy
<1>7. ASSUME NEW ok \in BOOLEAN, Rows!CopyToClipboard(ok) PROVE Rows!TypeOK'
  BY <1>7 DEF Rows!TypeOK, Rows!CopyToClipboard
<1>8. CASE Rows!HourPasses
  <2>1. hour' \in 0..MaxHour
    BY <1>8, RowBounds DEF Rows!TypeOK, Rows!HourPasses
  <2> QED BY <1>8, <2>1 DEF Rows!TypeOK, Rows!HourPasses
<1>9. CASE Rows!Use
  <2>1. PICK ok \in BOOLEAN : ok = Rows!Accepts
    BY DEF Rows!Accepts, Rows!TypeOK, Rows!Row
  <2>2. keyRow' = [keyRow EXCEPT !.active = ok]
        /\ UNCHANGED <<zone, hour, expirationDays, listedRow, revealed, copiedMark,
             clipboard,
                       denied>>
    BY <1>9, <2>1 DEF Rows!Use
  <2>3. keyRow' \in Rows!Row
    BY <2>2 DEF Rows!TypeOK, Rows!Row
  <2> QED BY <2>2, <2>3 DEF Rows!TypeOK
<1>10. CASE UNCHANGED rowsVars
  BY <1>10 DEF Rows!TypeOK, rowsVars
<1> QED BY <1>1, <1>2, <1>3, <1>4, <1>5, <1>6, <1>7, <1>8, <1>9, <1>10, Zenon DEF Rows!Next

LEMMA LegalTypeStart == Legal!Init => Legal!TypeOK
<1> SUFFICES ASSUME Legal!Init PROVE Legal!TypeOK
  OBVIOUS
<1>1. legalPage \in Legal!Pages /\ legalLang \in Legal!Lang
  BY DEF Legal!Init, Legal!Pages, Legal!Lang, Legal!StoredLang
<1>2. legalStore \in Legal!Lang \cup {"other", "refused"}
  BY DEF Legal!Init, Legal!Lang
<1>3. PICK d \in Legal!Document : d = Legal!Path
  BY <1>1, PathIsDocument
<1>4. reads = {[n |-> 1, of |-> d]} /\ asked = 1 /\ shownRead = 0 /\ mdText = Legal!Loading
  BY <1>3 DEF Legal!Init
<1> QED BY <1>1, <1>2, <1>4, BoundsFacts DEF Legal!TypeOK

LEMMA LegalTypeStep ==
  ASSUME Legal!TypeOK, [Legal!Next]_legalVars
  PROVE  Legal!TypeOK'
<1>1. ASSUME NEW l \in Legal!Lang, Legal!SetLang(l) PROVE Legal!TypeOK'
  <2>1. /\ legalLang' = l /\ legalPage' = legalPage
        /\ legalStore' = IF legalStore = "refused" THEN legalStore ELSE l
    BY <1>1 DEF Legal!SetLang
  <2>2. CASE l = legalLang
    BY <1>1, <2>1, <2>2 DEF Legal!SetLang, Legal!TypeOK
  <2>3. CASE l # legalLang
    <3>1. PICK d : d = Legal!Path'
      OBVIOUS
    <3>2. d \in Legal!Document
      BY <2>1, <3>1 DEF Legal!TypeOK, Legal!Path, Legal!Document
    <3>3. /\ asked + 1 <= MaxReads /\ asked' = asked + 1 /\ mdText' = Legal!Loading
          /\ shownRead' = 0 /\ reads' = reads \cup {[n |-> asked + 1, of |-> d]}
      BY <1>1, <2>3, <3>1 DEF Legal!SetLang, Legal!Ask
    <3>4. asked + 1 \in 1..MaxReads
      BY <3>3, BoundsFacts DEF Legal!TypeOK
    <3>5. [n |-> asked + 1, of |-> d] \in [n : 1..MaxReads, of : Legal!Document]
      BY <3>2, <3>4
    <3> QED BY <2>1, <3>3, <3>4, <3>5, BoundsFacts DEF Legal!TypeOK
  <2> QED BY <2>2, <2>3
<1>2. CASE Legal!Follow
  <2>1. legalPage' \in Legal!Pages
    <3>1. \E p \in Legal!Pages : p # legalPage
      BY DEF Legal!Pages
    <3> QED BY <1>2, <3>1 DEF Legal!Follow, Legal!LinkTo
  <2>2. /\ UNCHANGED legalStore /\ legalLang' \in Legal!Lang
    BY <1>2 DEF Legal!Follow, Legal!StoredLang, Legal!Lang
  <2>3. PICK d : d = Legal!Path'
    OBVIOUS
  <2>4. d \in Legal!Document
    BY <2>1, <2>2, <2>3 DEF Legal!Path, Legal!Document
  <2>5. /\ asked' = 1 /\ mdText' = Legal!Loading /\ shownRead' = 0
        /\ reads' = {[n |-> 1, of |-> d]}
    BY <1>2, <2>3 DEF Legal!Follow, Legal!Ask
  <2>6. [n |-> 1, of |-> d] \in [n : 1..MaxReads, of : Legal!Document]
    BY <2>4, BoundsFacts
  <2> QED BY <2>1, <2>2, <2>5, <2>6, BoundsFacts DEF Legal!TypeOK
<1>3. ASSUME NEW r \in reads, NEW what \in {r.of, Legal!Failed, Legal!ErrorPage},
             Legal!Arrive(r, what)
      PROVE Legal!TypeOK'
  <2>1. r.n \in 1..MaxReads /\ r.of \in Legal!Document
    BY DEF Legal!TypeOK
  <2>2. r.n \in 0..MaxReads
    BY <2>1, BoundsFacts
  <2> QED BY <1>3, <2>1, <2>2 DEF Legal!Arrive, Legal!TypeOK
<1>4. CASE UNCHANGED legalVars
  BY <1>4 DEF Legal!TypeOK, legalVars
<1> QED BY <1>1, <1>2, <1>3, <1>4, Zenon DEF Legal!Next

\* A branch ends in an answer, and only what the user wrote is edited.
PlainBranch(b) == /\ b \in Seq(Plain!Message) /\ Len(b) <= MaxMessages
                  /\ b # <<>> => b[Len(b)] \in Plain!Assistant

PlainTypes ==
  /\ \A b \in branches : PlainBranch(b)
  /\ PlainBranch(thread)
  /\ IsFiniteSet(branches) /\ Cardinality(branches) <= MaxBranches
  /\ run \in {"none", "fetching", "refused", "streaming"}
  /\ Plain!IsRunning => thread # <<>>
  /\ editing \in 0..Len(thread)
  /\ editing # 0 => thread[editing] = Plain!UserMessage
  /\ {signedIn, held} \subseteq BOOLEAN

LEMMA PlainCardinality == ASSUME NEW S PROVE Plain!Cardinality(S) = Cardinality(S)
BY Zenon DEF Plain!Cardinality, Cardinality

LEMMA PlainForms ==
  /\ Plain!UserMessage \in Plain!Message /\ Plain!UserMessage \notin Plain!Assistant
  /\ Plain!UserMessage.role = "user"
  /\ \A a \in Plain!Assistant : a \in Plain!Message /\ a.role = "assistant"
  /\ Plain!Unanswered \in Plain!Assistant
  /\ [Plain!Unanswered EXCEPT !.error = TRUE] \in Plain!Assistant
<1>1. Plain!UserMessage.role = "user"
  BY DEF Plain!UserMessage
<1>2. \A a \in Plain!Assistant : a \in Plain!Message /\ a.role = "assistant"
  BY DEF Plain!Assistant, Plain!Message
<1>3. /\ Plain!Unanswered \in Plain!Assistant
      /\ [Plain!Unanswered EXCEPT !.error = TRUE] \in Plain!Assistant
  <2>1. 0 \in 0..MaxChunks /\ -1 \in -1..MaxChunks
    BY BoundsFacts
  <2>2. PICK x : x = -1
    OBVIOUS
  <2>3. x \in -1..MaxChunks
    BY <2>1, <2>2
  <2>4. Plain!Unanswered = [role |-> "assistant", chunks |-> 0, size |-> x, error |-> FALSE,
                            stopped |-> FALSE]
    BY <2>2 DEF Plain!Unanswered
  <2>5. PICK u \in Plain!Assistant : u = Plain!Unanswered
    BY <2>1, <2>3, <2>4, Zenon DEF Plain!Assistant
  <2>6. [u EXCEPT !.error = TRUE] \in Plain!Assistant
    BY DEF Plain!Assistant
  <2> QED BY <2>5, <2>6
<1>4. Plain!UserMessage \in Plain!Message
  BY DEF Plain!Message
<1> QED BY <1>1, <1>2, <1>3, <1>4

\* A run of messages with room for one more answers them.
LEMMA RunTypes ==
  ASSUME NEW b \in Seq(Plain!Message), Len(b) < MaxMessages, Plain!Run(b), PlainTypes
  PROVE  /\ PlainBranch(thread') /\ thread' # <<>> /\ Len(thread') = Len(b) + 1
         /\ \A i \in 1..Len(b) : thread'[i] = b[i]
         /\ run' \in {"none", "fetching", "refused", "streaming"}
<1>1. PICK a \in Plain!Assistant : thread' = Append(b, a)
  BY PlainForms, Zenon DEF Plain!Run
<1>2. a \in Plain!Message
  BY PlainForms
<1>3. /\ thread' \in Seq(Plain!Message) /\ Len(thread') = Len(b) + 1 /\ Len(b) \in Nat
      /\ thread'[Len(b) + 1] = a /\ \A i \in 1..Len(b) : thread'[i] = b[i]
  BY <1>1, <1>2
<1>4. run' \in {"none", "fetching", "refused", "streaming"}
  BY DEF Plain!Run, PlainTypes
<1> QED BY <1>3, <1>4, BoundsFacts DEF PlainBranch

\* The branch that is left joins the others.
LEMMA BranchingTypes ==
  ASSUME PlainTypes, Plain!Branching
  PROVE  /\ \A b \in branches' : PlainBranch(b)
         /\ IsFiniteSet(branches') /\ Cardinality(branches') <= MaxBranches
<1>1. branches' = branches \cup {thread} /\ Cardinality(branches) < MaxBranches
  BY PlainCardinality DEF Plain!Branching
<1>2. IsFiniteSet(branches') /\ Cardinality(branches') <= Cardinality(branches) + 1
      /\ Cardinality(branches) \in Nat
  <2>1. IsFiniteSet(branches) /\ Cardinality(branches) \in Nat
    BY FS_CardinalityType DEF PlainTypes
  <2>2. /\ IsFiniteSet(branches \cup {thread})
        /\ \/ Cardinality(branches \cup {thread}) = Cardinality(branches)
           \/ Cardinality(branches \cup {thread}) = Cardinality(branches) + 1
    BY <2>1, FS_AddElement
  <2> QED BY <1>1, <2>1, <2>2
<1>3. \A b \in branches' : PlainBranch(b)
  BY <1>1 DEF PlainTypes
<1>4. Cardinality(branches') \in Nat
  BY <1>2, FS_CardinalityType
<1> QED BY <1>1, <1>2, <1>3, <1>4, BoundsFacts

\* The answer is an answer, and one in its place.
LEMMA AnswerTypes ==
  ASSUME PlainTypes, Plain!IsRunning
  PROVE  Plain!Answer \in Plain!Assistant
BY DEF PlainTypes, PlainBranch, Plain!Answer

LEMMA YieldTypes ==
  ASSUME PlainTypes, Plain!IsRunning, NEW a \in Plain!Assistant, Plain!Yields(a),
         Plain!Elsewhere, run' \in {"none", "fetching", "refused", "streaming"},
         held' \in BOOLEAN
  PROVE  PlainTypes'
<1>1. /\ thread \in Seq(Plain!Message) /\ thread # <<>> /\ Len(thread) <= MaxMessages
      /\ Len(thread) \in Nat /\ Len(thread) >= 1 /\ a \in Plain!Message
      /\ thread[Len(thread)] \in Plain!Assistant
  BY PlainForms DEF PlainTypes, PlainBranch
<1>2. /\ thread' \in Seq(Plain!Message) /\ Len(thread') = Len(thread) /\ thread' # <<>>
      /\ \A i \in 1..Len(thread) : thread'[i] = IF i = Len(thread) THEN a ELSE thread[i]
  BY <1>1 DEF Plain!Yields
<1>3. PlainBranch(thread')
  BY <1>1, <1>2 DEF PlainBranch
<1>4. editing # Len(thread)
  <2>1. thread[Len(thread)] # Plain!UserMessage
    BY <1>1, PlainForms
  <2> QED BY <1>1, <2>1 DEF PlainTypes
<1>5. UNCHANGED <<signedIn, branches, editing>>
  BY DEF Plain!Elsewhere
<1>6. editing' \in 0..Len(thread') /\ (editing' # 0 => thread'[editing'] = Plain!UserMessage)
  BY <1>1, <1>2, <1>4, <1>5 DEF PlainTypes
<1> QED BY <1>2, <1>3, <1>5, <1>6 DEF PlainTypes

\* What the adapter makes of an answer is one.
LEMMA PlainFailures ==
  ASSUME NEW a \in Plain!Assistant
  PROVE  Plain!Failed(a) \in Plain!Assistant /\ [a EXCEPT !.stopped = TRUE] \in Plain!Assistant
<1>0. 0 \in 0..MaxChunks
  BY BoundsFacts
<1>1. PICK b \in Plain!Assistant : b = [a EXCEPT !.chunks = 0]
  <2>1. [a EXCEPT !.chunks = 0] \in Plain!Assistant
    BY <1>0 DEF Plain!Assistant
  <2> QED BY <2>1
<1>2. [b EXCEPT !.error = TRUE] \in Plain!Assistant
  BY DEF Plain!Assistant
<1>3. Plain!Failed(a) = [b EXCEPT !.error = TRUE]
  <2>1. a = [role |-> a.role, chunks |-> a.chunks, size |-> a.size, error |-> a.error,
             stopped |-> a.stopped]
    BY DEF Plain!Assistant
  <2> QED BY <1>1, <2>1 DEF Plain!Failed
<1>4. [a EXCEPT !.stopped = TRUE] \in Plain!Assistant
  BY DEF Plain!Assistant
<1> QED BY <1>2, <1>3, <1>4

\* Who answers, edits and reloads: the guards of the buttons.
LEMMA PlainOffers ==
  ASSUME PlainTypes, NEW i \in 1..Len(thread)
  PROVE  /\ "send" \in Plain!Offers(i) => i = editing
         /\ "edit" \in Plain!Offers(i) => thread[i] = Plain!UserMessage
         /\ i = editing => i < Len(thread)
<1>1. thread[i] \in Plain!Message /\ thread \in Seq(Plain!Message) /\ Len(thread) <= MaxMessages
      /\ thread[Len(thread)] \in Plain!Assistant /\ Len(thread) \in Nat
  BY ElementsOf DEF PlainTypes, PlainBranch
<1>2. "send" \in Plain!Offers(i) => i = editing
  BY DEF Plain!Offers, Plain!Component, Plain!UserActions, Plain!AssistantActions
<1>3. "edit" \in Plain!Offers(i) => thread[i].role = "user"
  BY DEF Plain!Offers, Plain!Component, Plain!UserActions, Plain!AssistantActions
<1>4. thread[i].role = "user" => thread[i] = Plain!UserMessage
  BY <1>1, PlainForms DEF Plain!Message
<1>5. i = editing => thread[i] = Plain!UserMessage
  BY <1>1 DEF PlainTypes
<1>6. thread[i] = Plain!UserMessage => i # Len(thread)
  BY <1>1, PlainForms
<1> QED BY <1>1, <1>2, <1>3, <1>4, <1>5, <1>6

LEMMA PlainTypeStart == Plain!Init => PlainTypes
<1> SUFFICES ASSUME Plain!Init PROVE PlainTypes
  OBVIOUS
<1>1. IsFiniteSet({}) /\ Cardinality({}) = 0
  BY FS_EmptySet
<1>2. PlainBranch(<<>>)
  BY BoundsFacts DEF PlainBranch
<1>3. {signedIn, held} \subseteq BOOLEAN
  BY DEF Plain!Init
<1>4. thread = <<>> /\ branches = {} /\ editing = 0 /\ run = "none" /\ Len(<<>>) = 0
  BY DEF Plain!Init
<1> QED BY <1>1, <1>2, <1>3, <1>4, BoundsFacts DEF PlainTypes, Plain!IsRunning

LEMMA PlainTypeStep ==
  ASSUME PlainTypes, [Plain!Next]_plainVars
  PROVE  PlainTypes'
<1>1. CASE Plain!Send
  <2>1. /\ Plain!Run(Append(thread, Plain!UserMessage)) /\ Len(thread) + 2 <= MaxMessages
        /\ UNCHANGED <<signedIn, branches, editing, held>>
    BY <1>1 DEF Plain!Send
  <2>2. PICK b : b = Append(thread, Plain!UserMessage)
    OBVIOUS
  <2>3. /\ b \in Seq(Plain!Message) /\ Len(b) = Len(thread) + 1 /\ Len(thread) \in Nat
        /\ \A i \in 1..Len(thread) : b[i] = thread[i]
    BY <2>2, PlainForms DEF PlainTypes, PlainBranch
  <2>4. Len(b) < MaxMessages
    BY <2>1, <2>3, BoundsFacts
  <2>5. /\ PlainBranch(thread') /\ thread' # <<>> /\ Len(thread') = Len(b) + 1
        /\ \A i \in 1..Len(b) : thread'[i] = b[i]
        /\ run' \in {"none", "fetching", "refused", "streaming"}
    BY <2>1, <2>2, <2>3, <2>4, RunTypes
  <2>6. editing' \in 0..Len(thread') /\ (editing' # 0 => thread'[editing'] = Plain!UserMessage)
    BY <2>1, <2>3, <2>5 DEF PlainTypes
  <2> QED BY <2>1, <2>5, <2>6 DEF PlainTypes
<1>2. CASE Plain!CancelEdit
  <2>1. UNCHANGED <<thread, branches, run>> /\ {signedIn', held'} \subseteq BOOLEAN
    BY <1>2 DEF Plain!CancelEdit, Plain!Elsewhere, PlainTypes
  <2>2. editing' \in 0..Len(thread) /\ (editing' # 0 => thread[editing'] = Plain!UserMessage)
    BY <1>2 DEF Plain!CancelEdit, Plain!Elsewhere, PlainTypes
  <2> QED BY <2>1, <2>2 DEF PlainTypes, Plain!IsRunning
<1>3. CASE Plain!Stop
  <2>1. Plain!IsRunning /\ run' = "none" /\ held' = FALSE /\ Plain!Elsewhere
    BY <1>3 DEF Plain!Stop, Plain!PrimaryAction, Plain!Ends
  <2>2. PICK a : a = [Plain!Answer EXCEPT !.stopped = TRUE]
    OBVIOUS
  <2>3. a \in Plain!Assistant /\ Plain!Failed(a) \in Plain!Assistant
    BY <2>1, <2>2, AnswerTypes, PlainFailures
  <2>4. Plain!Yields(a) \/ Plain!Yields(Plain!Failed(a))
    BY <1>3, <2>2, Zenon DEF Plain!Stop
  <2> QED BY <2>1, <2>3, <2>4, YieldTypes
<1>4. CASE Plain!SwitchToken
  <2>1. UNCHANGED <<thread, branches, run>> /\ {signedIn', held'} \subseteq BOOLEAN
    BY <1>4 DEF Plain!SwitchToken, Plain!Elsewhere, PlainTypes
  <2>2. editing' \in 0..Len(thread) /\ (editing' # 0 => thread[editing'] = Plain!UserMessage)
    BY <1>4 DEF Plain!SwitchToken, Plain!Elsewhere, PlainTypes
  <2> QED BY <2>1, <2>2 DEF PlainTypes, Plain!IsRunning
<1>5. ASSUME NEW i \in 1..Len(thread), Plain!StartEdit(i) PROVE PlainTypes'
  <2>1. UNCHANGED <<thread, branches, run>> /\ {signedIn', held'} \subseteq BOOLEAN
    BY <1>5 DEF Plain!StartEdit, Plain!Elsewhere, PlainTypes
  <2>2. editing' \in 0..Len(thread) /\ (editing' # 0 => thread[editing'] = Plain!UserMessage)
    BY <1>5, PlainOffers DEF Plain!StartEdit, Plain!Elsewhere, PlainTypes
  <2> QED BY <2>1, <2>2 DEF PlainTypes, Plain!IsRunning
<1>6. ASSUME NEW i \in 1..Len(thread), Plain!SendEdit(i) PROVE PlainTypes'
  <2>1. /\ Plain!Run(SubSeq(thread, 1, i)) /\ Plain!Branching /\ editing' = 0
        /\ "send" \in Plain!Offers(i) /\ UNCHANGED <<signedIn, held>>
    BY <1>6 DEF Plain!SendEdit
  <2>2. thread \in Seq(Plain!Message) /\ Len(thread) <= MaxMessages /\ i < Len(thread)
        /\ Len(thread) \in Nat
    BY <2>1, PlainOffers DEF PlainTypes, PlainBranch
  <2>3. SubSeq(thread, 1, i) \in Seq(Plain!Message) /\ Len(SubSeq(thread, 1, i)) = i
    BY <2>2
  <2>4. i < MaxMessages
    BY <2>2, BoundsFacts
  <2>5. /\ PlainBranch(thread') /\ thread' # <<>> /\ Len(thread') = i + 1
        /\ run' \in {"none", "fetching", "refused", "streaming"}
    BY <2>1, <2>3, <2>4, RunTypes
  <2>6. editing' \in 0..Len(thread')
    BY <2>1, <2>2, <2>5
  <2> QED BY <2>1, <2>5, <2>6, BranchingTypes DEF PlainTypes
<1>7. ASSUME NEW i \in 1..Len(thread), Plain!Reload(i) PROVE PlainTypes'
  <2>1. /\ Plain!Run(SubSeq(thread, 1, i - 1)) /\ Plain!Branching
        /\ editing' = (IF editing < i THEN editing ELSE 0) /\ UNCHANGED <<signedIn, held>>
    BY <1>7 DEF Plain!Reload
  <2>2. thread \in Seq(Plain!Message) /\ Len(thread) <= MaxMessages /\ Len(thread) \in Nat
        /\ i \in Nat /\ i >= 1 /\ i <= Len(thread) /\ i - 1 \in 0..Len(thread)
    BY DEF PlainTypes, PlainBranch
  <2>3. SubSeq(thread, 1, i - 1) \in Seq(Plain!Message) /\ Len(SubSeq(thread, 1,
       i - 1)) = i - 1
        /\ \A k \in 1..(i - 1) : SubSeq(thread, 1, i - 1)[k] = thread[k]
    BY <2>2, CutInTwo
  <2>4. i - 1 < MaxMessages
    BY <2>2, BoundsFacts
  <2>5. /\ PlainBranch(thread') /\ thread' # <<>> /\ Len(thread') = i
        /\ \A k \in 1..(i - 1) : thread'[k] = thread[k]
        /\ run' \in {"none", "fetching", "refused", "streaming"}
    <3>1. /\ PlainBranch(thread') /\ thread' # <<>> /\ Len(thread') = (i - 1) + 1
          /\ \A k \in 1..(i - 1) : thread'[k] = SubSeq(thread, 1, i - 1)[k]
          /\ run' \in {"none", "fetching", "refused", "streaming"}
      BY <2>1, <2>3, <2>4, RunTypes
    <3> QED BY <2>2, <2>3, <3>1
  <2>6. editing' \in 0..Len(thread') /\ (editing' # 0 => thread'[editing'] = Plain!UserMessage)
    BY <2>1, <2>2, <2>5 DEF PlainTypes
  <2> QED BY <2>1, <2>5, <2>6, BranchingTypes DEF PlainTypes
<1>8. ASSUME NEW b \in branches, Plain!PickBranch(b) PROVE PlainTypes'
  <2>1. /\ ~Plain!IsRunning /\ thread' = b /\ branches' = (branches \ {b}) \cup {thread}
        /\ editing' = 0 /\ UNCHANGED <<signedIn, run, held>>
    BY <1>8 DEF Plain!PickBranch
  <2>2. PlainBranch(b) /\ Len(b) \in Nat /\ \A c \in branches' : PlainBranch(c)
    BY <2>1 DEF PlainTypes, PlainBranch
  <2>3. /\ IsFiniteSet(branches \ {b}) /\ Cardinality(branches \ {b}) = Cardinality(branches) - 1
        /\ Cardinality(branches) \in Nat
    BY FS_RemoveElement, FS_CardinalityType DEF PlainTypes
  <2>4. IsFiniteSet(branches') /\ Cardinality(branches') <= Cardinality(branches)
    <3>1. PICK S : S = branches \ {b}
      OBVIOUS
    <3>2. /\ IsFiniteSet(S \cup {thread})
          /\ \/ Cardinality(S \cup {thread}) = Cardinality(S)
             \/ Cardinality(S \cup {thread}) = Cardinality(S) + 1
      BY <2>3, <3>1, FS_AddElement
    <3> QED BY <2>1, <2>3, <3>1, <3>2
  <2>5. Cardinality(branches') <= MaxBranches
    <3>1. Cardinality(branches') \in Nat
      BY <2>4, FS_CardinalityType
    <3> QED BY <2>3, <2>4, <3>1, BoundsFacts DEF PlainTypes
  <2> QED BY <2>1, <2>2, <2>4, <2>5 DEF PlainTypes, Plain!IsRunning
<1>9. CASE Plain!FetchFails
  <2>1. Plain!IsRunning /\ run' = "none" /\ held' = FALSE /\ Plain!Elsewhere
    BY <1>9 DEF Plain!FetchFails, Plain!IsRunning, Plain!Ends
  <2>2. Plain!Yields(Plain!Failed(Plain!Answer))
    BY <1>9, Zenon DEF Plain!FetchFails
  <2> QED BY <2>1, <2>2, AnswerTypes, PlainFailures, YieldTypes
<1>10. CASE Plain!Refused
  <2>1. Plain!IsRunning /\ run' = "refused" /\ UNCHANGED <<thread, held, signedIn,
       branches, editing>>
    BY <1>10 DEF Plain!Refused, Plain!IsRunning, Plain!Elsewhere
  <2> QED BY <2>1 DEF PlainTypes
<1>11. CASE Plain!RefusalRead
  <2>1. Plain!IsRunning /\ run' = "none" /\ held' = FALSE /\ Plain!Elsewhere
    BY <1>11 DEF Plain!RefusalRead, Plain!IsRunning, Plain!Ends
  <2>2. Plain!Yields(Plain!Failed(Plain!Answer))
    BY <1>11, Zenon DEF Plain!RefusalRead
  <2> QED BY <2>1, <2>2, AnswerTypes, PlainFailures, YieldTypes
<1>12. CASE Plain!StreamDone
  <2>1. /\ Plain!IsRunning /\ run' = "none" /\ held' = FALSE /\ Plain!Elsewhere
        /\ Plain!Yields(Plain!Flushed) /\ Plain!Answer.size = Plain!Received
    BY <1>12 DEF Plain!StreamDone, Plain!IsRunning, Plain!Ends
  <2>2. PICK a \in Plain!Assistant : a = Plain!Answer
    BY <2>1, AnswerTypes
  <2>3. held => a.chunks + 1 \in 0..MaxChunks
    BY <2>1, <2>2, BoundsFacts DEF Plain!Received, Plain!Assistant
  <2>p. PICK n : n = a.chunks + 1
    OBVIOUS
  <2>4. held => [a EXCEPT !.chunks = n] \in Plain!Assistant
    <3>1. held => n \in 0..MaxChunks
      BY <2>3, <2>p
    <3> QED BY <3>1, Zenon DEF Plain!Assistant
  <2>5. Plain!Flushed \in Plain!Assistant
    <3>1. held => Plain!Flushed = [a EXCEPT !.chunks = n]
      BY <2>2, <2>p DEF Plain!Flushed
    <3>2. ~held => Plain!Flushed = a
      BY <2>2 DEF Plain!Flushed
    <3> QED BY <2>4, <3>1, <3>2
  <2> QED BY <2>1, <2>5, YieldTypes
<1>13. CASE Plain!StreamBreaks
  <2>1. Plain!IsRunning /\ run' = "none" /\ held' = FALSE /\ Plain!Elsewhere
    BY <1>13 DEF Plain!StreamBreaks, Plain!IsRunning, Plain!Ends
  <2>2. Plain!Yields(Plain!Failed(Plain!Answer))
    BY <1>13, Zenon DEF Plain!StreamBreaks, Plain!Broken
  <2> QED BY <2>1, <2>2, AnswerTypes, PlainFailures, YieldTypes
<1>14. ASSUME NEW n \in 0..MaxChunks, Plain!Headers(n) PROVE PlainTypes'
  <2>1. Plain!IsRunning /\ run' = "streaming" /\ held' = held /\ Plain!Elsewhere
    BY <1>14 DEF Plain!Headers, Plain!IsRunning
  <2>2. PICK a : a = [Plain!Answer EXCEPT !.size = n]
    OBVIOUS
  <2>3. a \in Plain!Assistant
    BY <2>1, <2>2, AnswerTypes, BoundsFacts DEF Plain!Assistant
  <2>4. Plain!Yields(a) /\ held' \in BOOLEAN
    BY <1>14, <2>1, <2>2 DEF Plain!Headers, PlainTypes
  <2> QED BY <2>1, <2>3, <2>4, YieldTypes
<1>15. ASSUME NEW cut \in BOOLEAN, Plain!Chunk(cut) PROVE PlainTypes'
  <2>1. /\ Plain!IsRunning /\ run' = "streaming" /\ held' = cut /\ Plain!Elsewhere
        /\ Plain!Received < Plain!Answer.size
    BY <1>15 DEF Plain!Chunk, Plain!IsRunning
  <2>2. PICK n : n = IF cut THEN Plain!Received ELSE Plain!Received + 1
    OBVIOUS
  <2>3. n \in 0..MaxChunks
    BY <2>1, <2>2, AnswerTypes, BoundsFacts DEF Plain!Received, Plain!Assistant
  <2>4. PICK a : a = [Plain!Answer EXCEPT !.chunks = n]
    OBVIOUS
  <2>5. a \in Plain!Assistant
    BY <2>1, <2>3, <2>4, AnswerTypes DEF Plain!Assistant
  <2>6. Plain!Yields(a)
    BY <1>15, <2>2, <2>4, Zenon DEF Plain!Chunk
  <2> QED BY <2>1, <2>5, <2>6, YieldTypes
<1>16. CASE UNCHANGED plainVars
  <2>1. UNCHANGED <<signedIn, thread, branches, editing, run, held>>
    BY <1>16 DEF plainVars
  <2> QED BY <2>1 DEF PlainTypes, PlainBranch, Plain!IsRunning
<1> QED BY <1>1, <1>2, <1>3, <1>4, <1>5, <1>6, <1>7, <1>8, <1>9, <1>10, <1>11, <1>12,
     <1>13, <1>14, <1>15, <1>16, Zenon DEF Plain!Next

LEMMA PlainIsTyped == PlainTypes => Plain!TypeOK
<1> SUFFICES ASSUME PlainTypes PROVE Plain!TypeOK
  OBVIOUS
<1>1. \A b \in branches \cup {thread} : Plain!IsBranch(b)
  BY DEF PlainTypes, PlainBranch, Plain!IsBranch
<1>2. editing \in 0..MaxMessages
  BY BoundsFacts DEF PlainTypes, PlainBranch
<1>3. Plain!Cardinality(branches) <= MaxBranches
  BY PlainCardinality DEF PlainTypes
<1> QED BY <1>1, <1>2, <1>3 DEF PlainTypes, Plain!TypeOK

\* One character at most is cut in a line that has two, so that what is counted
\* is never less than nothing, and the row neither.
CutLines(m) ==
  /\ m \in 0..Len(story) /\ 3 * m - 1 <= arrivedTo /\ arrivedTo <= 3 * m + 1
  /\ garbled <= Cardinality(Meter!Characters(1..m))

MeterTypes ==
  /\ story \in Stories /\ hasKey \in BOOLEAN /\ tokens \in Nat /\ ledger \in Nat
  /\ entry \in {"open", "none", "written"}
  /\ \E m \in 0..Len(story) : CutLines(m)

LEMMA StoryFacts ==
  ASSUME story \in Stories
  PROVE  Told /\ Len(story) \in Nat /\ Len(story) > 0
BY PartsAssumption DEF Meter!MeterAssumption, Told, Line

LEMMA MeterTypeStart == Meter!Init => MeterTypes
<1> SUFFICES ASSUME Meter!Init PROVE MeterTypes
  OBVIOUS
<1>1. story \in Stories /\ hasKey \in BOOLEAN /\ tokens = 0 /\ ledger = 0 /\ entry = "open"
      /\ arrivedTo = 0 /\ garbled = 0
  BY DEF Meter!Init
<1>2. Told /\ Len(story) \in Nat
  BY <1>1, StoryFacts
<1>3. Cardinality(Meter!Characters(1..0)) = 0
  BY <1>2, NothingMetered
<1>4. 0 \in 0..Len(story) /\ 3 * 0 - 1 <= arrivedTo /\ arrivedTo <= 3 * 0 + 1
  BY <1>1, <1>2
<1>5. CutLines(0)
  BY <1>1, <1>3, <1>4 DEF CutLines
<1> QED BY <1>1, <1>4, <1>5, Zenon DEF MeterTypes

\* The usage of any number of lines is a number.
LEMMA UsageIsNumber ==
  ASSUME Told, NEW d \in 0..Len(story)
  PROVE  Meter!UsageOf(1..d) \in Nat
<1>1. 0 \in 0..Len(story) /\ d \in 0..Len(story) /\ 0 + 1 = 1 /\ Len(story) \in Nat
  BY DEF Told
<1> QED BY <1>1, UsageGrows

\* The characters of more lines are more, by those of a line that has some.
LEMMA MoreCharacters ==
  ASSUME Told, NEW m \in 0..Len(story), NEW k \in m..Len(story)
  PROVE  /\ Cardinality(Meter!Characters(1..m)) <= Cardinality(Meter!Characters(1..k))
         /\ Cardinality(Meter!Characters(1..m)) \in Nat
         /\ Cardinality(Meter!Characters(1..k)) \in Nat
         /\ m < k /\ story[m + 1].text > 0
              => Cardinality(Meter!Characters(1..m)) < Cardinality(Meter!Characters(1..k))
<1> DEFINE x == Cardinality(Meter!Characters(1..m))
           w == Cardinality(Meter!Characters((m + 1)..k))
<1>0. Len(story) \in Nat /\ m \in Nat /\ k \in Nat /\ m <= k /\ k <= Len(story)
  BY DEF Told
<1>1. Cardinality(Meter!Characters(1..k)) = x + w /\ x \in Nat /\ w \in Nat
  BY CharactersGrow
<1>2. ASSUME m < k, story[m + 1].text > 0 PROVE w # 0
  <2>1. m + 1 \in 1..Len(story) /\ m + 1 \in (m + 1)..k
    BY <1>0, <1>2
  <2>2. story[m + 1].text \in Nat
    BY <2>1, LineFacts
  <2>3. 1 \in 1..story[m + 1].text
    BY <1>2, <2>2
  <2>4. <<m + 1, 1>> \in Meter!Characters((m + 1)..k)
    BY <2>1, <2>3 DEF Meter!Characters
  <2>5. (m + 1)..k \in SUBSET (1..Len(story))
    BY <1>0
  <2>6. IsFiniteSet(Meter!Characters((m + 1)..k))
    BY <2>5, CharactersFinite
  <2> QED BY <2>4, <2>6, FS_EmptySet
<1> HIDE DEF x, w
<1> QED BY <1>1, <1>2 DEF x

\* The lines of a stretch of symbols.
LEMMA LinesOf ==
  ASSUME NEW e \in Nat, NEW n \in Nat, e <= 3 * n - 1
  PROVE  \E m \in 0..n : 3 * m - 1 <= e /\ e <= 3 * m + 1
<1>1. PICK q : q = (e + 1) \div 3
  OBVIOUS
<1>2. q \in Nat /\ 3 * q <= e + 1 /\ e + 1 < 3 * (q + 1)
  BY <1>1, Quotient
<1> QED BY <1>2

LEMMA MeterTypeStep ==
  ASSUME MeterInv, MeterTypes, [Meter!Next]_meterVars
  PROVE  MeterTypes'
<1>0. /\ story \in Stories /\ Told /\ Len(story) \in Nat /\ Len(story) > 0 /\ garbled \in Nat
      /\ arrivedTo \in Nat /\ letters \in Int
  BY StoryFacts DEF MeterTypes, MeterInv
<1>m. PICK m \in 0..Len(story) : CutLines(m)
  BY DEF MeterTypes
<1>i. MeterInv'
  BY MeterStep
<1>1. ASSUME NEW n \in 1..Len(Meter!Symbols), NEW cuts \in BOOLEAN, NEW off \in {-1, 0, 1},
             Meter!Chunk(n, cuts, off)
      PROVE  MeterTypes'
  <2>1. /\ entry = "open" /\ arrivedTo + n <= Len(Meter!Symbols) /\ arrivedTo' = arrivedTo + n
        /\ UNCHANGED <<story, hasKey, entry, ledger>>
    BY <1>1, Zenon DEF Meter!Chunk
  <2>2. \/ cuts /\ garbled' = garbled + 1 /\ arrivedTo > 0 /\ Meter!Symbols[arrivedTo][2] = "head"
           /\ story[Meter!Symbols[arrivedTo][1]].text > 1
        \/ garbled' = garbled
    BY <1>1, Zenon DEF Meter!Chunk
  <2>3. Len(Meter!Symbols) = 3 * Len(story) - 1 /\ n \in Nat /\ n >= 1
    BY <1>0, SymbolFacts
  <2>e. arrivedTo' \in Nat /\ arrivedTo' <= 3 * Len(story) - 1 /\ arrivedTo <= arrivedTo'
    BY <1>0, <2>1, <2>3
  <2>4. PICK k \in 0..Len(story) : 3 * k - 1 <= arrivedTo' /\ arrivedTo' <= 3 * k + 1
    <3>1. PICK e \in Nat, n1 \in Nat : e = arrivedTo' /\ n1 = Len(story)
      BY <1>0, <2>e
    <3>2. e <= 3 * n1 - 1
      BY <2>e, <3>1
    <3>3. \E k \in 0..n1 : 3 * k - 1 <= e /\ e <= 3 * k + 1
      BY <3>2, LinesOf
    <3> QED BY <3>1, <3>3
  <2>5. k \in m..Len(story) /\ m \in Nat /\ k \in Nat
    <3>1. 3 * m - 1 <= arrivedTo
      BY <1>m DEF CutLines
    <3> QED BY <1>0, <2>e, <2>4, <3>1
  <2>6. /\ Cardinality(Meter!Characters(1..m)) <= Cardinality(Meter!Characters(1..k))
        /\ Cardinality(Meter!Characters(1..m)) \in Nat
        /\ Cardinality(Meter!Characters(1..k)) \in Nat
        /\ m < k /\ story[m + 1].text > 0
             => Cardinality(Meter!Characters(1..m)) < Cardinality(Meter!Characters(1..k))
    BY <1>0, <2>5, MoreCharacters
  <2>7. garbled' \in Nat /\ garbled' <= Cardinality(Meter!Characters(1..k))
    <3>1. CASE garbled' = garbled
      BY <1>0, <1>m, <2>6, <3>1 DEF CutLines
    <3>2. CASE /\ garbled' = garbled + 1 /\ arrivedTo > 0
               /\ Meter!Symbols[arrivedTo][2] = "head"
               /\ story[Meter!Symbols[arrivedTo][1]].text > 1
      <4>1. arrivedTo = 3 * (m + 1) - 2 /\ m + 1 \in 1..Len(story)
        <5>1. arrivedTo \in {3 * m - 1, 3 * m, 3 * m + 1}
          BY <1>0, <1>m, <2>5 DEF CutLines
        <5>2. arrivedTo <= 3 * Len(story) - 2
          BY <1>0, <2>1, <2>3
        <5>3. ASSUME arrivedTo = 3 * m - 1 PROVE FALSE
          <6>1. m \in 1..Len(story)
            BY <1>0, <2>5, <3>2, <5>3
          <6> QED BY <1>0, <3>2, <5>3, <6>1, SymbolFacts
        <5>4. ASSUME arrivedTo = 3 * m PROVE FALSE
          <6>1. m \in 1..Len(story) /\ m < Len(story)
            BY <1>0, <2>5, <3>2, <5>2, <5>4
          <6> QED BY <1>0, <3>2, <5>4, <6>1, SymbolFacts
        <5>5. arrivedTo = 3 * m + 1
          BY <5>1, <5>3, <5>4
        <5> QED BY <1>0, <2>5, <5>2, <5>5
      <4>2. Meter!Symbols[arrivedTo] = <<m + 1, "head">>
        BY <1>0, <4>1, SymbolFacts
      <4>3. story[m + 1].text > 1 /\ story[m + 1].text \in Nat
        BY <1>0, <3>2, <4>1, <4>2, LineFacts
      <4>4. m < k
        BY <1>0, <2>1, <2>3, <2>4, <2>5, <4>1
      <4>5. Cardinality(Meter!Characters(1..m)) < Cardinality(Meter!Characters(1..k))
        BY <2>6, <4>3, <4>4
      <4>6. garbled <= Cardinality(Meter!Characters(1..m))
        BY <1>m DEF CutLines
      <4> QED BY <1>0, <2>6, <3>2, <4>5, <4>6
    <3> QED BY <2>2, <3>1, <3>2
  <2>8. CutLines(k)'
    <3>1. story' = story
      BY <2>1
    <3>2. Meter!Characters(1..k)' = Meter!Characters(1..k)
      BY <3>1, SameStory, Zenon
    <3> QED BY <2>4, <2>7, <3>1, <3>2 DEF CutLines
  <2>9. tokens' \in Nat
    <3>1. PICK c \in 0..(Len(story') - 1) : Metered(c)'
      BY <1>i, <2>1 DEF MeterInv
    <3>2. story' = story
      BY <2>1
    <3>3. c \in 0..Len(story)
      BY <1>0, <3>1, <3>2
    <3>4. tokens' = Meter!UsageOf(1..c)
      <4>1. tokens' = Meter!UsageOf(1..c)'
        BY <3>1 DEF Metered
      <4> QED BY <3>2, <4>1, SameStory, Zenon
    <3> QED BY <1>0, <3>3, <3>4, UsageIsNumber
  <2> QED BY <2>1, <2>4, <2>8, <2>9 DEF MeterTypes
<1>2. CASE Meter!Flush
  <2>1. /\ entry = "open" /\ arrivedTo = Len(Meter!Symbols) /\ Meter!Counts(buf, 0)
        /\ entry' = (IF hasKey THEN "written" ELSE "none")
        /\ ledger' = IF hasKey THEN Meter!Total(tokens', letters') ELSE 0
    BY <1>2, Zenon DEF Meter!Flush
  <2>u. story' = story /\ arrivedTo' = arrivedTo /\ garbled' = garbled /\ hasKey' = hasKey
    BY <1>2 DEF Meter!Flush
  <2>2. arrivedTo = 3 * Len(story) - 1 /\ Len(story) \in 0..Len(story)
    BY <1>0, <2>1, SymbolFacts
  <2>3. PICK c \in 0..(Len(story) - 1) :
          /\ 3 * c <= arrivedTo /\ arrivedTo <= 3 * c + 2
          /\ Stretch(buf, 3 * c, arrivedTo) /\ Metered(c)
    BY <2>1 DEF MeterInv
  <2>4. PICK d \in Nat : d = Len(story)
    BY <1>0
  <2>5. /\ c \in Nat /\ c \in 0..Len(story) /\ d \in c..Len(story)
        /\ arrivedTo \in {3 * d - 1, 3 * d} /\ arrivedTo <= 3 * Len(story) - 1
    BY <1>0, <2>2, <2>3, <2>4
  <2>6. Meter!Parsed(buf) = (c + 1)..d
    <3>1. story \in Seq(Line) /\ story # <<>>
      BY <1>0 DEF Told
    <3> QED BY <1>0, <3>1, <2>3, <2>5, ParsedIs
  <2>7. /\ letters' \in Int /\ tokens' = Meter!UsageOf(1..d)
        /\ letters' - 0 - Cardinality(Meter!Characters(1..d)) \in -garbled..garbled
    BY <1>0, <2>1, <2>3, <2>5, <2>6, CountsMore
  <2>8. tokens' \in Nat
    BY <1>0, <2>2, <2>4, <2>7, UsageIsNumber
  <2>9. m = d
    BY <1>0, <1>m, <2>2, <2>4 DEF CutLines
  <2>10. letters' \in Nat
    <3>1. PICK a \in Nat : a = Cardinality(Meter!Characters(1..d)) /\ garbled <= a
      <4>1. d \in 0..Len(story) /\ Len(story) \in d..Len(story)
        BY <2>4, <1>0
      <4>2. Cardinality(Meter!Characters(1..d)) \in Nat
        BY <1>0, <4>1, MoreCharacters
      <4> QED BY <1>m, <2>9, <4>2 DEF CutLines
    <3> QED BY <1>0, <2>7, <3>1
  <2>11. Meter!Total(tokens', letters') \in Nat
    <3>1. PICK n \in Nat, x \in Nat : n = tokens' /\ x = letters'
      BY <2>8, <2>10
    <3>2. CASE n # 0
      BY <3>1, <3>2, TotalOf
    <3>3. CASE n = 0
      <4>1. Meter!Total(0, x) = Prompt + (x + 3) \div 4
        BY TotalOf, PartsAssumption DEF Meter!MeterAssumption, Meter!Total
      <4>2. (x + 3) \div 4 \in Nat
        <5>1. x + 3 \in Nat /\ 4 \in Nat \ {0}
          OBVIOUS
        <5> QED BY <5>1, Quotient
      <4>3. Prompt \in Nat
        BY PartsAssumption DEF Meter!MeterAssumption
      <4> QED BY <3>1, <3>3, <4>1, <4>2, <4>3
    <3> QED BY <3>2, <3>3
  <2>12. CutLines(m)'
    <3>1. Meter!Characters(1..m)' = Meter!Characters(1..m)
      BY <2>u, SameStory, Zenon
    <3> QED BY <1>m, <2>u, <3>1 DEF CutLines
  <2>13. ledger' \in Nat /\ entry' \in {"open", "none", "written"}
    BY <2>1, <2>11
  <2> QED BY <2>u, <2>8, <2>12, <2>13 DEF MeterTypes
<1>3. ASSUME entry' \in {"open", "none", "written"},
             UNCHANGED <<story, arrivedTo, tokens, garbled, hasKey, ledger>>
      PROVE  MeterTypes'
  <2>1. Meter!Characters(1..m)' = Meter!Characters(1..m)
    BY <1>3, SameStory, Zenon
  <2>2. CutLines(m)'
    BY <1>3, <1>m, <2>1 DEF CutLines
  <2> QED BY <1>3, <2>2 DEF MeterTypes
<1>4. CASE Meter!Cancel
  BY <1>3, <1>4 DEF Meter!Cancel
<1>5. CASE UNCHANGED meterVars
  BY <1>3, <1>5 DEF meterVars, MeterTypes
<1> QED BY <1>1, <1>2, <1>4, <1>5, Zenon DEF Meter!Next

LEMMA MeterIsTyped == MeterInv /\ MeterTypes => Meter!TypeOK
<1> SUFFICES ASSUME MeterInv, MeterTypes PROVE Meter!TypeOK
  OBVIOUS
<1>1. Told /\ Len(Meter!Symbols) = 3 * Len(story) - 1
  BY StoryFacts, SymbolFacts DEF MeterTypes
<1>2. /\ arrivedTo \in 0..Len(Meter!Symbols) /\ {tokens, garbled} \subseteq Nat
      /\ letters \in Int
  BY <1>1 DEF MeterInv, MeterTypes
<1> QED BY <1>2 DEF MeterTypes, Meter!TypeOK

\* The records of the limits are what the module says.
LEMMA LimitsAreTyped == LimitsInv => Limits!TypeOK
<1> SUFFICES ASSUME LimitsInv PROVE Limits!TypeOK
  OBVIOUS
<1>1. cache \in [kept : 0..(Ttl + 1), age : Limits!Age] \cup {Limits!None}
  <2>1. CASE cache # Limits!None
    <3>1. /\ cache = [kept |-> cache.kept, age |-> cache.age]
          /\ cache.kept \in -1..(Ttl + 1) /\ cache.kept # -1
          /\ cache.age \in 0..Limits!Never /\ cache.age <= Limits!Cap
      BY <2>1 DEF LimitsInv, LimitsTypes
    <3>2. cache.kept \in 0..(Ttl + 1) /\ cache.age \in Limits!Age
      BY <3>1, LimitsConstants DEF Limits!Age
    <3> QED BY <3>1, <3>2
  <2> QED BY <2>1
<1>2. 0..Limits!Never = Limits!Age \cup {Limits!Never}
  BY LimitsConstants DEF Limits!Age
<1>3. ASSUME NEW r, RequestOK(r) PROVE r \in Limits!Request \cup {Limits!NoRequest}
  <2>1. CASE r # Limits!NoRequest
    <3>1. r.out \in 0..Latency
      BY <1>3, <2>1, LimitsConstants DEF RequestOK
    <3> QED BY <1>2, <1>3, <3>1 DEF RequestOK, Limits!Request
  <2> QED BY <2>1
<1>4. {shared, forced} \subseteq Limits!Request \cup {Limits!NoRequest}
  BY <1>3 DEF LimitsInv
<1> QED BY <1>1, <1>2, <1>4 DEF LimitsInv, LimitsTypes, Limits!TypeOK

\* What is invariant of the parts above, for their types.
PagesTypes ==
  /\ AuthTypes /\ ConsentInv /\ KeysInv /\ ComposerInv /\ Cookies!TypeOK
  /\ MembersTypes /\ PaymentsTypes /\ UpgradeTypes /\ ReactionsTypes
  /\ AdminTypes /\ PlainTypes /\ MeterInv /\ MeterTypes /\ LimitsInv
  /\ SidebarTypes /\ Rows!TypeOK /\ Legal!TypeOK

LEMMA PagesTypeStart == Init => PagesTypes
<1> SUFFICES ASSUME Init PROVE PagesTypes
  OBVIOUS
<1>1. /\ Keys!Init /\ Auth!Init /\ Admin!Init /\ Compose!Init /\ React!Init
      /\ Upgrade!Init /\ Members!Init /\ Payments!Init /\ Limits!Init
      /\ Cookies!Init /\ Plain!Init /\ Meter!Init
      /\ Sidebar!Init /\ Rows!Init /\ Legal!Init
  BY Zenon DEF Init
<1>2. AuthTypes /\ ConsentInv /\ KeysInv /\ ComposerInv /\ Cookies!TypeOK
  BY <1>1, AuthTypeStart, ConsentStart, KeysStart, ComposerStart, CookiesTypeStart, Zenon
<1>3. MembersTypes /\ PaymentsTypes /\ UpgradeTypes /\ ReactionsTypes
  BY <1>1, MembersTypeStart, PaymentsTypeStart, UpgradeTypeStart, ReactionsTypeStart, Zenon
<1>4. AdminTypes /\ PlainTypes /\ MeterInv /\ MeterTypes /\ LimitsInv
  BY <1>1, AdminTypeStart, PlainTypeStart, MeterStart, MeterTypeStart, LimitsStart, Zenon
<1>5. SidebarTypes /\ Rows!TypeOK /\ Legal!TypeOK
  BY <1>1, SidebarTypeStart, RowTypeStart, LegalTypeStart, Zenon
<1> QED BY <1>2, <1>3, <1>4, <1>5, Zenon DEF PagesTypes

LEMMA PagesTypeStep == ASSUME PagesTypes, [Next]_vars PROVE PagesTypes'
<1>1. AuthTypes' /\ ConsentInv' /\ KeysInv' /\ ComposerInv' /\ Cookies!TypeOK'
  BY AuthAlone, AuthTypeStep, ConsentStep, KeysAlone, KeysStep, ComposerAlone, ComposerStep,
     CookiesAlone, CookiesTypeStep, Zenon DEF PagesTypes
<1>2. MembersTypes' /\ PaymentsTypes' /\ UpgradeTypes' /\ ReactionsTypes'
  BY MembersAlone, MembersTypeStep, PaymentsAlone, PaymentsTypeStep, UpgradeAlone,
     UpgradeTypeStep, ReactionsAlone, ReactionsTypeStep, Zenon DEF PagesTypes
<1>3. AdminTypes' /\ PlainTypes' /\ MeterInv' /\ MeterTypes' /\ LimitsInv'
  BY AdminAlone, AdminTypeStep, PlainAlone, PlainTypeStep, MeterAlone, MeterStep,
     MeterTypeStep, LimitsAlone, LimitsStep, Zenon DEF PagesTypes
<1>4. SidebarTypes' /\ Rows!TypeOK' /\ Legal!TypeOK'
  BY SidebarAlone, SidebarTypeStep, RowsAlone, RowTypeStep, LegalAlone, LegalTypeStep, Zenon
     DEF PagesTypes
<1> QED BY <1>1, <1>2, <1>3, <1>4, Zenon DEF PagesTypes

LEMMA PagesAreTyped ==
  ASSUME PagesTypes
  PROVE  /\ Keys!TypeOK /\ Auth!TypeOK /\ Admin!TypeOK /\ Compose!TypeOK /\ React!TypeOK
         /\ Upgrade!TypeOK /\ Members!TypeOK /\ Payments!TypeOK /\ Limits!TypeOK
         /\ Cookies!TypeOK /\ Plain!TypeOK /\ Meter!TypeOK
         /\ Sidebar!TypeOK /\ Rows!TypeOK /\ Legal!TypeOK
<1>1. Keys!TypeOK /\ Auth!TypeOK /\ Compose!TypeOK /\ Cookies!TypeOK
  BY DEF PagesTypes, KeysInv, AuthTypes, ComposerInv
<1>2. Members!TypeOK /\ Payments!TypeOK /\ Upgrade!TypeOK /\ React!TypeOK /\ Admin!TypeOK
  BY DEF PagesTypes, MembersTypes, PaymentsTypes, UpgradeTypes, ReactionsTypes, AdminTypes
<1>3. Limits!TypeOK /\ Plain!TypeOK /\ Meter!TypeOK
  BY LimitsAreTyped, PlainIsTyped, MeterIsTyped DEF PagesTypes
<1>4. Sidebar!TypeOK /\ Rows!TypeOK /\ Legal!TypeOK
  BY DEF PagesTypes, SidebarTypes
<1> QED BY <1>1, <1>2, <1>3, <1>4
=============================================================================
