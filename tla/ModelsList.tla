----------------------------- MODULE ModelsList -----------------------------
(***************************************************************************)
(* The list of models of pages/Models.tsx: a filter by tier, and a button  *)
(* that copies a model's name and shows a tick until its timer, 1.5        *)
(* seconds later, takes away whichever tick is there by then.              *)
(***************************************************************************)
EXTENDS Integers, FiniteSets

CONSTANTS FreeModels, PaidModels,   \* MODELS, by tier
          NoModel,
          MaxMarks                  \* bound: timers at once

\* Assumed where this module is instantiated, in DashboardPages.
ModelsAssumption ==
  NoModel \notin FreeModels \cup PaidModels /\ FreeModels \cap PaidModels = {}

VARIABLES filter,       \* all, free or paid
          copied, pasted, \* the model with the tick, and the clipboard
          marks,        \* timers, by the model that was copied
          kept          \* history: the browser has taken every copy so far

vars == <<filter, copied, pasted, marks, kept>>

Models == FreeModels \cup PaidModels

TypeOK ==
  /\ filter \in {"all", "free", "paid"}
  /\ {copied, pasted} \subseteq Models \cup {NoModel}
  /\ marks \subseteq [n : 1..MaxMarks, of : Models] /\ kept \in BOOLEAN

Init == /\ filter = "all" /\ copied = NoModel /\ pasted = NoModel
        /\ marks = {} /\ kept = TRUE

Filtered == CASE filter = "all"  -> Models
              [] filter = "free" -> FreeModels
              [] filter = "paid" -> PaidModels

\* The numbers on the three buttons.
Tally == [all |-> Cardinality(Models), free |-> Cardinality(FreeModels),
          paid |-> Cardinality(PaidModels)]

SetFilter(f) == filter' = f /\ UNCHANGED <<copied, pasted, marks, kept>>

Copy(m, ok) ==
  /\ m \in Filtered /\ Cardinality(marks) < MaxMarks
  /\ copied' = m /\ pasted' = IF ok THEN m ELSE pasted
  /\ marks' = marks \cup
       {[n |-> CHOOSE n \in 1..MaxMarks : \A k \in marks : k.n # n, of |-> m]}
  /\ kept' = (kept /\ ok)
  /\ UNCHANGED filter

MarkEnds(k) ==
  /\ copied' = NoModel /\ marks' = marks \ {k}
  /\ UNCHANGED <<filter, pasted, kept>>

Next == \/ \E f \in {"all", "free", "paid"} : SetFilter(f)
        \/ \E m \in Models, ok \in BOOLEAN : Copy(m, ok)
        \/ \E k \in marks : MarkEnds(k)

Spec == Init /\ [][Next]_vars
-----------------------------------------------------------------------------
(* The tick is beside what the clipboard has, unless the browser denied a   *)
(* copy, and goes away: its own timer is among those running, so that it    *)
(* may go early, by an older one, but not stay (lines 64-73, 113-136).      *)
TickIsForClipboard ==
  copied # NoModel => /\ \E k \in marks : k.of = copied
                      /\ kept => pasted = copied
=============================================================================
