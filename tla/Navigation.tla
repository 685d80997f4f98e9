----------------------------- MODULE Navigation -----------------------------
(***************************************************************************)
(* The frame around the pages, components/Layout.tsx: the sidebar with the *)
(* account menu on a wide screen, the bottom bar with its drawer on a      *)
(* narrow one, and the dialogs both open.  The conversation list and its   *)
(* delete dialog are in ChatPage, the dialogs of the subscription and of   *)
(* the members in UpgradeDialog and MembersDialog.                         *)
(***************************************************************************)
EXTENDS Integers, Sequences, Functions

CONSTANTS Links, AdminLinks,   \* sequences of paths: links, adminLinks
          Widths,              \* how many items of the bar a window may fit
          MobileWidths         \* those of them below the breakpoint

\* Assumed where this module is instantiated, in DashboardPages.
WidthAssumption == MobileWidths \subseteq Widths /\ Widths \subseteq Nat

VARIABLES maxFit,       \* clientWidth \div ITEM_W
          account,      \* is_owner, is_member, is_paid, tier_id
          path,
          opened,       \* menuOpen, profileOpen, upgradeOpen, membersOpen,
                        \* paymentsOpen, drawerOpen: those that are true
          visibleCount

vars == <<maxFit, account, path, opened, visibleCount>>

Overlay == {"menu", "profile", "upgrade", "members", "payments", "drawer"}
AccountKind == [owner : BOOLEAN, member : BOOLEAN, paid : BOOLEAN,
                tier : {"none", "nomad"}]
Conversation == "/chat/c"

\* Assumed there too: every page has one link, and the chat and the usage do.
LinkAssumption ==
  /\ Links \in Seq(STRING) /\ AdminLinks \in Seq(STRING)
  /\ IsInjective(Links \o AdminLinks) /\ {"/chat", "/usage"} \subseteq Range(Links)
  /\ {"new", "profile", Conversation} \cap Range(Links \o AdminLinks) = {}

Paths == Range(Links \o AdminLinks) \cup {Conversation, "/login"}

TypeOK ==
  /\ maxFit \in Widths /\ account \in AccountKind /\ path \in Paths
  /\ opened \subseteq Overlay
  /\ visibleCount \in 0..(Len(Links \o AdminLinks) + 2)

Mobile == maxFit \in MobileWidths

\* Layout, which the routes of App mount for who is signed in.
Frame == IF path = "/login" THEN "none" ELSE IF Mobile THEN "bar" ELSE "sidebar"

\* TIER_NAMES: the name of the tier, or the kind of the account.
Named(kind) == IF account.tier = "none" THEN <<kind>>
               ELSE IF kind = "member" THEN <<kind, account.tier>>
               ELSE <<account.tier>>

\* tierLabel, in the sidebar.
TierLabel == IF account.owner THEN <<"owner">>
             ELSE IF account.member THEN Named("member")
             ELSE IF account.paid THEN Named("paid") ELSE <<"free">>

\* plan, the same choice once more in ProfileDialog.
ProfilePlan ==
  IF account.owner THEN <<"owner">>
  ELSE IF account.member
  THEN <<"member">> \o (IF account.tier = "none" THEN <<>> ELSE <<account.tier>>)
  ELSE IF account.paid
  THEN <<IF account.tier = "none" THEN "paid" ELSE account.tier>>
  ELSE <<"free">>

\* The badge beside the greeting of the dashboard.
DashboardBadge ==
  CASE account.owner  -> <<"owner">>
    [] ~account.owner /\ account.member -> Named("member")
    [] ~account.owner /\ ~account.member /\ account.paid -> Named("paid")
    [] OTHER -> <<"free">>

\* What ProfileDialog has to press, under the rows about the account.
ProfileOffers ==
  {"done", "logout"} \cup
    IF ~account.owner /\ ~account.member /\ ~account.paid THEN {"upgrade"} ELSE {}

\* isActive: a conversation is a page of the chat.
IsActive(to) == path = to \/ (to = "/chat" /\ path = Conversation)
-----------------------------------------------------------------------------
(* The bottom bar.                                                          *)

\* New Chat, the pages and the profile.
NavItems(a) == <<"new">> \o Links \o (IF a.owner THEN AdminLinks ELSE <<>>)
                 \o <<"profile">>

VisibleCount(fit, n) ==
  IF n <= fit THEN n ELSE IF fit - 1 > 3 THEN fit - 1 ELSE 3

Items == NavItems(account)
Shown == SubSeq(Items, 1, visibleCount)
Overflow == SubSeq(Items, visibleCount + 1, Len(Items))
HasOverflow == Overflow # <<>>
OverflowActive == \E item \in Range(Overflow) : IsActive(item)

Counted(fit, a) == VisibleCount(fit, Len(NavItems(a)))

Init ==
  /\ maxFit \in Widths
  /\ account \in AccountKind
  /\ path = Links[1] /\ opened = {}
  /\ visibleCount = Counted(maxFit, account)

\* ResizeObserver and the resize event.  Past the breakpoint the other frame is
\* mounted, with nothing open.
Resize(fit) ==
  /\ fit # maxFit /\ maxFit' = fit
  /\ opened' = IF Mobile <=> fit \in MobileWidths THEN opened ELSE {}
  /\ visibleCount' = Counted(fit, account)
  /\ UNCHANGED <<account, path>>

\* me() has answered: the items change and the effect counts again.
AccountArrives(a) ==
  /\ path # "/login" /\ a # account /\ account' = a
  /\ visibleCount' = Counted(maxFit, a)
  /\ UNCHANGED <<maxFit, path, opened>>

\* What an item does: NavLink, or its action.
Does(item) ==
  /\ opened' = IF item = "profile" THEN {"profile"} ELSE {}
  /\ path' = IF item = "profile" THEN path
             ELSE IF item = "new" THEN "/chat" ELSE item

\* An item of the bar.
Tap(item) ==
  /\ Frame = "bar" /\ opened = {} /\ item \in Range(Shown)
  /\ Does(item)
  /\ UNCHANGED <<maxFit, account, visibleCount>>

\* An item of the drawer, which closes.
DrawerTap(item) ==
  /\ Frame = "bar" /\ opened = {"drawer"} /\ item \in Range(Overflow)
  /\ Does(item)
  /\ UNCHANGED <<maxFit, account, visibleCount>>

OpenDrawer ==
  /\ Frame = "bar" /\ opened = {} /\ HasOverflow
  /\ opened' = {"drawer"}
  /\ UNCHANGED <<maxFit, account, path, visibleCount>>
-----------------------------------------------------------------------------
(* The sidebar, its menu and the profile.                                   *)

SidebarLink(p) ==
  /\ Frame = "sidebar" /\ opened = {}
  /\ p \in Range(Links) \/ (account.owner /\ p \in Range(AdminLinks))
  /\ path' = p
  /\ UNCHANGED <<maxFit, account, opened, visibleCount>>

\* New Chat, and a conversation of the list below it.
SidebarChat ==
  /\ Frame = "sidebar" /\ opened = {}
  /\ path' \in {"/chat", Conversation}
  /\ UNCHANGED <<maxFit, account, opened, visibleCount>>

\* The trigger; the avatar in it opens the profile instead.
OpenMenu ==
  /\ Frame = "sidebar" /\ opened = {}
  /\ opened' \in {{"menu"}, {"profile"}}
  /\ UNCHANGED <<maxFit, account, path, visibleCount>>

\* setMenuOpen(false), and the dialog of the item.
Picked(d) == (opened \ {"menu"}) \cup {d}

MenuItem(d) ==
  /\ "menu" \in opened
  /\ d \in {"upgrade", "payments", "profile", "members"}
  /\ d = "members" => account.owner
  /\ opened' = Picked(d)
  /\ UNCHANGED <<maxFit, account, path, visibleCount>>

\* "Status (Usage)" and "Cookie settings" open no dialog of the frame.
MenuLeaves ==
  /\ "menu" \in opened /\ opened' = opened \ {"menu"}
  /\ path' \in {path, "/usage"}
  /\ UNCHANGED <<maxFit, account, visibleCount>>

\* onUpgrade of the profile, for an account without a plan.
UpgradeFromProfile ==
  /\ "profile" \in opened /\ "upgrade" \in ProfileOffers
  /\ opened' = (opened \ {"profile"}) \cup {"upgrade"}
  /\ UNCHANGED <<maxFit, account, path, visibleCount>>

\* Escape, a click beside it, or its button, closes what is open.
CloseOverlay(d) ==
  /\ d \in opened /\ opened' = opened \ {d}
  /\ UNCHANGED <<maxFit, account, path, visibleCount>>

\* handleLogout of the menu.
SignOut ==
  /\ "menu" \in opened
  /\ opened' = {} /\ path' = "/login"
  /\ UNCHANGED <<maxFit, account, visibleCount>>

\* "Log out" of the profile, which both frames open.
SignOutFromProfile ==
  /\ "profile" \in opened
  /\ opened' = {} /\ path' = "/login"
  /\ UNCHANGED <<maxFit, account, visibleCount>>

\* Somebody signs in and lands on the dashboard, with a new frame.
SignIn(a) ==
  /\ path = "/login" /\ path' = Links[1]
  /\ account' = a /\ visibleCount' = Counted(maxFit, a)
  /\ UNCHANGED <<maxFit, opened>>

Next ==
  \/ \E fit \in Widths : Resize(fit)
  \/ \E a \in AccountKind : AccountArrives(a) \/ SignIn(a)
  \/ \E item \in Range(Items) : Tap(item) \/ DrawerTap(item)
  \/ OpenDrawer \/ SidebarChat \/ OpenMenu \/ MenuLeaves
  \/ UpgradeFromProfile \/ SignOut \/ SignOutFromProfile
  \/ \E p \in Paths : SidebarLink(p)
  \/ \E d \in Overlay : MenuItem(d) \/ CloseOverlay(d)

Spec == Init /\ [][Next]_vars
-----------------------------------------------------------------------------
(* Whatever the window and the account, and in whichever order they change: *)
(* the bar with its More fits the window (three items are always shown), no *)
(* item is lost between bar and drawer, the page on the screen is lit once, *)
(* at its item or at More, at most one overlay is open, so that none hides  *)
(* behind another, and sidebar, profile and dashboard, which each work it   *)
(* out, name the same plan, and the profile offers one to who has none      *)
(* (lines 88-110, 244-380, 438-450, 509, 557-593, 791-801, Dashboard 126).  *)
FrameHolds ==
  /\ Mobile /\ visibleCount > 3
       => visibleCount + (IF HasOverflow THEN 1 ELSE 0) <= maxFit
  /\ Mobile => Shown \o Overflow = Items
  /\ Frame = "bar" /\ path \in Range(Items) \cup {Conversation}
       => OverflowActive <=> ~\E item \in Range(Shown) : IsActive(item)
  /\ \A d, e \in opened : d = e
  /\ TierLabel = ProfilePlan /\ TierLabel = DashboardBadge
  /\ "upgrade" \in ProfileOffers <=> TierLabel = <<"free">>
=============================================================================
