---------------------------- MODULE WelcomePage ----------------------------
(***************************************************************************)
(* pages/Welcome.tsx, where somebody who has signed in lands: it names the *)
(* kind of the account and offers a way on.  The visitor comes from        *)
(* lib/auth (Session), the address of the memberships from /health.        *)
(***************************************************************************)
EXTENDS Integers

VARIABLES visitor,      \* loading, user: whether there is one, and of which kind
          membersUrl,   \* the address is there
          health,       \* the call for it: pending, answered, failed
          planDialog,   \* upgradeOpen
          at            \* the page: welcome, login, dashboard

vars == <<visitor, membersUrl, health, planDialog, at>>

Visitor == [is : {"loading", "nobody", "user"}, owner : BOOLEAN,
            member : BOOLEAN, paid : BOOLEAN]
Blank(is) == [is |-> is, owner |-> FALSE, member |-> FALSE, paid |-> FALSE]

TypeOK ==
  /\ visitor \in Visitor
  /\ health \in {"pending", "answered", "failed"}
  /\ at \in {"welcome", "login", "dashboard"}
  /\ {membersUrl, planDialog} \subseteq BOOLEAN

Fresh == membersUrl = FALSE /\ health = "pending" /\ planDialog = FALSE

Init == visitor = Blank("loading") /\ at = "welcome" /\ Fresh

Known == at = "welcome" /\ visitor.is = "user"

Badge == IF visitor.owner THEN "Owner" ELSE IF visitor.member THEN "Member"
         ELSE IF visitor.paid THEN "Paid" ELSE "Free"

\* What can be pressed, or turns, below the profile.
Offers ==
  IF visitor.owner \/ visitor.member \/ visitor.paid THEN {"start"}
  ELSE IF membersUrl THEN {"join", "upgrade"} ELSE {"loader"}
-----------------------------------------------------------------------------
\* me() has answered; without a user the effect of [user] leads to /login.
MeAnswers(who) ==
  /\ at = "welcome" /\ visitor.is = "loading"
  /\ visitor' = who
  /\ at' = IF who.is = "nobody" THEN "login" ELSE at
  /\ UNCHANGED <<membersUrl, health, planDialog>>

\* A server without memberships sends no address.
HealthEnds(how, url) ==
  /\ at = "welcome" /\ health = "pending" /\ health' = how
  /\ membersUrl' = (how = "answered" /\ url)
  /\ UNCHANGED <<visitor, planDialog, at>>

\* "Get Started" and "Later" lead on, and the page is gone with its state.
Leave ==
  /\ Known /\ ~planDialog /\ at' = "dashboard"
  /\ membersUrl' = FALSE /\ health' = "pending" /\ UNCHANGED <<visitor,
                                                               planDialog>>

SwitchPlanDialog ==
  /\ Known /\ (planDialog \/ "upgrade" \in Offers)
  /\ planDialog' = ~planDialog
  /\ UNCHANGED <<visitor, membersUrl, health, at>>

\* The page is opened again, by its address: everything is asked for anew.
Revisit ==
  /\ at # "welcome" /\ at' = "welcome" /\ visitor' = Blank("loading")
  /\ UNCHANGED <<membersUrl, health, planDialog>>

Next ==
  \/ \E who \in Visitor :
       /\ who.is = "user" \/ who = Blank("nobody")
       /\ MeAnswers(who)
  \/ \E url \in BOOLEAN, how \in {"answered", "failed"} : HealthEnds(how, url)
  \/ Leave \/ SwitchPlanDialog \/ Revisit

Spec == Init /\ [][Next]_vars
-----------------------------------------------------------------------------
(* Nobody stays on the page signed out.  An account without a plan, and no  *)
(* other, is offered one, or a loader in its place, which turns for good    *)
(* when /health brings no address; the dialog of the plans is over no other *)
(* account (lines 11-58, 107-146).                                          *)
WelcomeLeads ==
  /\ at = "welcome" => visitor.is # "nobody"
  /\ Known => /\ "start" \in Offers <=> Badge # "Free"
              /\ planDialog => Badge = "Free" /\ membersUrl
=============================================================================
