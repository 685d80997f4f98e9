--------------------------- MODULE MCUsageBudget ---------------------------
(***************************************************************************)
(* One user with one or two keys, connections and workers.                 *)
(***************************************************************************)
EXTENDS UsageBudget, TLC

CONSTANTS u1, k1, k2, r1, r2, w1, w2

MCKeyOwner == [k \in Key |-> u1]
MCOwner == [r \in Request |-> u1]
MCSymmetry ==
  Permutations(Request) \cup Permutations(Key) \cup Permutations(Worker)
=============================================================================
