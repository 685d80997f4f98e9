--------------------------- MODULE PaymentsDialog ---------------------------
(***************************************************************************)
(* components/PaymentsHistoryDialog: every opening loads the payments.     *)
(* Closing the dialog hides it: it keeps its state and its requests.       *)
(*                                                                         *)
(* The payments of a user only become more: a list is known by its length. *)
(***************************************************************************)
EXTENDS Integers, FiniteSets

CONSTANTS MaxPayments,   \* bound: payments made while the page is open
          MaxFetches     \* bound: loads under way at once

VARIABLES paid,          \* at the server: how many payments there are
          open, payments, loading, error,
          fetches,       \* calls of getPayments
          due,           \* history: the payments there were at the last opening
          crossed        \* history: two loads were under way at once

vars == <<paid, open, payments, loading, error, fetches, due, crossed>>

Slot == 1..MaxFetches
Fetch == [n : Slot, answer : -1..MaxPayments]   \* -1: not served yet

TypeOK ==
  /\ {paid, payments, due} \subseteq 0..MaxPayments
  /\ fetches \subseteq Fetch
  /\ {open, loading, error, crossed} \subseteq BOOLEAN

Init ==
  /\ paid = 0 /\ open = FALSE /\ payments = 0 /\ loading = FALSE
  /\ error = FALSE /\ fetches = {} /\ due = 0 /\ crossed = FALSE

\* What the dialog shows; an error stands above the list.
Body == IF loading THEN "skeleton" ELSE IF payments = 0 THEN "empty" ELSE "list"

\* The effect of [open].
Open ==
  /\ ~open /\ Cardinality(fetches) < MaxFetches
  /\ open' = TRUE /\ loading' = TRUE /\ error' = FALSE
  /\ fetches' = fetches \cup
       {[n |-> CHOOSE n \in Slot : \A f \in fetches : f.n # n, answer |-> -1]}
  /\ due' = paid
  /\ crossed' = (crossed \/ fetches # {})
  /\ UNCHANGED <<paid, payments>>

Close ==
  /\ open /\ open' = FALSE
  /\ UNCHANGED <<paid, payments, loading, error, fetches, due, crossed>>

PaymentsArrive(f) ==
  /\ f.answer >= 0
  /\ payments' = f.answer /\ loading' = FALSE
  /\ fetches' = fetches \ {f}
  /\ UNCHANGED <<paid, open, error, due, crossed>>

\* What was shown before stays below the error.
PaymentsFail(f) ==
  /\ error' = TRUE /\ loading' = FALSE
  /\ fetches' = fetches \ {f}
  /\ UNCHANGED <<paid, open, payments, due, crossed>>

Pay ==
  /\ paid < MaxPayments /\ paid' = paid + 1
  /\ UNCHANGED <<open, payments, loading, error, fetches, due, crossed>>

ServePayments(f) ==
  /\ f.answer = -1
  /\ fetches' = (fetches \ {f}) \cup {[f EXCEPT !.answer = paid]}
  /\ UNCHANGED <<paid, open, payments, loading, error, due, crossed>>

Next ==
  \/ Open \/ Close \/ Pay
  \/ \E f \in fetches : PaymentsArrive(f) \/ PaymentsFail(f) \/ ServePayments(f)

Spec == Init /\ [][Next]_vars
-----------------------------------------------------------------------------
(* "No payments yet", or a list, without an error is not older than the     *)
(* opening of the dialog, unless two openings crossed (lines 50-59, 70-87). *)
PaymentsShown ==
  /\ Body # "skeleton" /\ ~error /\ ~crossed => payments >= due
  /\ loading => fetches # {}
=============================================================================
