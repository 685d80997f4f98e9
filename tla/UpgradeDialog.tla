--------------------------- MODULE UpgradeDialog ---------------------------
(***************************************************************************)
(* components/UpgradeDialog: the plans, cancelling the subscription,       *)
(* starting a checkout, and joining as a member of the channel.  Closing   *)
(* the dialog hides it: it keeps its state and its requests, and every     *)
(* opening loads the plans, the membership link and the subscription       *)
(* again.                                                                  *)
(*                                                                         *)
(* The user pays for the plan shown as current; one other plan is offered. *)
(* Only the dialog itself marks the subscription as canceled: what the     *)
(* server answers has no such field, whether it has ended or not.          *)
(***************************************************************************)
EXTENDS Integers, FiniteSets

CONSTANT MaxFetches   \* bound: loads of the subscription under way at once

VARIABLES cancelled,  \* at Stripe: the subscription will end
          open,
          sub,        \* sub: null, loaded, or marked as canceled
          notice,     \* cancelMsg or subError
          cancelCall, \* cancelBusy, and how far the call behind it is
          fetches,    \* calls of getSubscription
          checkout,   \* checkoutBusy: the payment method, or none
          checkouts,  \* calls of createCheckout under way
          loads,      \* the plans and the link: those still asked for
          loaded,     \* those on the screen: tiers, membersUrl
          joining,    \* ytChecking, then ytFallbackOpen
          crossed     \* history: a load overlapped the last cancellation

vars == <<cancelled, open, sub, notice, cancelCall, fetches, checkout,
          checkouts, loads, loaded, joining, crossed>>

Slot == 1..MaxFetches
Method == {"card", "promptpay"}
Loads == {"plans", "link"}
Fetch == [n : Slot, answer : {"unserved", "loaded"}]

TypeOK ==
  /\ sub \in {"null", "loaded", "canceled"}
  /\ notice \in {"none", "done", "failed"}
  /\ cancelCall \in {"none", "sent", "served"}
  /\ fetches \subseteq Fetch
  /\ checkout \in Method \cup {"none"} /\ checkouts \subseteq Method
  /\ loads \subseteq Loads /\ loaded \subseteq Loads
  /\ joining \in {"no", "checking", "fallback"}
  /\ {cancelled, open, crossed} \subseteq BOOLEAN

\* Bound: the plans and the link are asked for once at a time.
Room == Cardinality(fetches) < MaxFetches /\ loads = {}

Init ==
  /\ open = FALSE
  /\ cancelled = FALSE /\ sub = "null" /\ notice = "none"
  /\ cancelCall = "none" /\ fetches = {}
  /\ checkout = "none" /\ checkouts = {}
  /\ loads = {} /\ loaded = {} /\ joining = "no"
  /\ crossed = FALSE

\* The effect of [open].
Open ==
  /\ ~open /\ joining # "fallback" /\ Room
  /\ open' = TRUE /\ notice' = "none" /\ loads' = Loads
  /\ fetches' = fetches \cup
       {[n |-> CHOOSE n \in Slot : \A f \in fetches : f.n # n,
         answer |-> "unserved"]}
  /\ crossed' = (crossed \/ cancelCall # "none")
  /\ UNCHANGED <<cancelled, sub, cancelCall, checkout, checkouts, loaded,
                 joining>>

Close ==
  /\ open /\ joining # "fallback" /\ open' = FALSE
  /\ UNCHANGED <<cancelled, sub, notice, cancelCall, fetches, checkout,
                 checkouts, loads, loaded, joining, crossed>>

\* The Cancel button of the current plan.
MayCancel == cancelCall = "none" /\ sub # "canceled"

\* The card of a plan: what can be pressed on it.  checkoutBusy holds one
\* method, so only the button pressed last is disabled.
Card(current) ==
  IF current THEN IF MayCancel THEN {"cancel"} ELSE {} ELSE Method \ {checkout}

MayJoin == "link" \in loaded /\ joining = "no"

\* Without plans there is only "Loading plans...".
Offered == IF ~open \/ "plans" \notin loaded THEN {}
           ELSE Card(TRUE) \cup Card(FALSE)
                  \cup IF MayJoin THEN {"join"} ELSE {}

\* A failure empties what was there.
LoadEnds(what, ok) ==
  /\ what \in loads /\ loads' = loads \ {what}
  /\ loaded' = IF ok THEN loaded \cup {what} ELSE loaded \ {what}
  /\ UNCHANGED <<cancelled, open, sub, notice, cancelCall, fetches, checkout,
                 checkouts, joining, crossed>>

\* Bound: joining, paying and cancelling, which share no state, are not under
\* way at once.
OneWay == joining = "no" /\ checkouts = {} /\ cancelCall = "none"

\* joinYouTubeMember asks whether memberships are followed.
Join ==
  /\ "join" \in Offered /\ OneWay /\ joining' = "checking"
  /\ UNCHANGED <<cancelled, open, sub, notice, cancelCall, fetches, checkout,
                 checkouts, loads, loaded, crossed>>

\* They are, and the channel opens in another tab; or not, or no answer, and a
\* dialog says so, even when the one below has been closed.
JoinAnswered(available) ==
  /\ joining = "checking"
  /\ joining' = IF available THEN "no" ELSE "fallback"
  /\ UNCHANGED <<cancelled, open, sub, notice, cancelCall, fetches, checkout,
                 checkouts, loads, loaded, crossed>>

\* "Use Stripe instead", Escape or a click beside it.
CloseFallback ==
  /\ joining = "fallback" /\ joining' = "no"
  /\ UNCHANGED <<cancelled, open, sub, notice, cancelCall, fetches, checkout,
                 checkouts, loads, loaded, crossed>>

CancelSub ==
  /\ "cancel" \in Offered /\ OneWay
  /\ cancelCall' = "sent" /\ notice' = "none"
  /\ crossed' = (fetches # {})
  /\ UNCHANGED <<cancelled, open, sub, fetches, checkout, checkouts, loads,
                 loaded, joining>>

\* The optimistic update, for a subscription that has been loaded.
AfterCancel == IF sub = "null" THEN "null" ELSE "canceled"

CancelEnds(ok) ==
  /\ cancelCall # "none" /\ (ok => cancelCall = "served")
  /\ cancelCall' = "none"
  /\ sub' = IF ok THEN AfterCancel ELSE sub
  /\ notice' = IF ok THEN "done" ELSE "failed"
  /\ UNCHANGED <<cancelled, open, fetches, checkout, checkouts, loads, loaded,
                 joining, crossed>>

\* A failed load leaves null, which offers Cancel again.
SubArrives(f, ok) ==
  /\ ok => f.answer # "unserved"
  /\ sub' = IF ok THEN f.answer ELSE "null"
  /\ fetches' = fetches \ {f}
  /\ UNCHANGED <<cancelled, open, notice, cancelCall, checkout, checkouts,
                 loads, loaded, joining, crossed>>

StartCheckout(m) ==
  /\ m \in Offered /\ m \notin checkouts
  /\ joining = "no" /\ cancelCall = "none"
  /\ checkout' = m /\ checkouts' = checkouts \cup {m}
  /\ UNCHANGED <<cancelled, open, sub, notice, cancelCall, fetches, loads,
                 loaded, joining, crossed>>

\* Without a URL, or with an error; with one the browser leaves the page.
CheckoutEnds(m) ==
  /\ m \in checkouts
  /\ checkout' = "none" /\ checkouts' = checkouts \ {m}
  /\ UNCHANGED <<cancelled, open, sub, notice, cancelCall, fetches, loads,
                 loaded, joining, crossed>>

\* The server: cancel_subscription, when Stripe has not refused.
ServeCancel ==
  /\ cancelCall = "sent" /\ cancelCall' = "served" /\ cancelled' = TRUE
  /\ UNCHANGED <<open, sub, notice, fetches, checkout, checkouts, loads,
                 loaded, joining, crossed>>

\* get_subscription: whatever has become of the subscription, the answer does
\* not say canceled.
ServeFetch(f) ==
  /\ f.answer = "unserved"
  /\ fetches' = (fetches \ {f}) \cup {[f EXCEPT !.answer = "loaded"]}
  /\ UNCHANGED <<cancelled, open, sub, notice, cancelCall, checkout, checkouts,
                 loads, loaded, joining, crossed>>

Next ==
  \/ Open \/ Close \/ CancelSub \/ ServeCancel \/ Join \/ CloseFallback
  \/ \E ok \in BOOLEAN : \/ JoinAnswered(ok)
                         \/ \E what \in Loads : LoadEnds(what, ok)
  \/ \E ok \in BOOLEAN : \/ CancelEnds(ok)
                         \/ \E f \in fetches : SubArrives(f, ok)
  \/ \E f \in fetches : ServeFetch(f)
  \/ \E m \in Method : StartCheckout(m) \/ CheckoutEnds(m)

Spec == Init /\ [][Next]_vars
-----------------------------------------------------------------------------
(* The dialog says that the subscription is cancelled only when it is, even *)
(* when answers were lost or calls crossed; and after saying so it does not *)
(* offer to cancel again (lines 92-107), unless a load crossed the call or  *)
(* had failed before it.  Opened again it does: the load of line 69         *)
(* overwrites the mark.                                                     *)
CancelHolds ==
  /\ sub = "canceled" \/ notice = "done" => cancelled
  /\ notice = "done" /\ ~crossed => sub # "loaded"
=============================================================================
