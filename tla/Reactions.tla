----------------------------- MODULE Reactions -----------------------------
(***************************************************************************)
(* Likes and dislikes, reactMsg of pages/Chat3.tsx: the mark is put on the *)
(* message at once and the answer of the server is applied to the same     *)
(* index, provided the same message is still there.  Older pages that      *)
(* loadMore puts in front move the messages meanwhile.                     *)
(***************************************************************************)
EXTENDS Integers, FiniteSets, Sequences

CONSTANTS Message,       \* ids of the stored messages
          Older, Newer,  \* those of an older page, and those shown at first
          MaxReactions   \* bound: requests under way at once

\* Assumed where this module is instantiated, in DashboardPages.
MessageAssumption == {Older, Newer} \subseteq Seq(Message)

Reaction == {"like", "dislike", "null"}

VARIABLES stored,    \* at the server
          shown,     \* the messages on the page, in order
          mark,      \* the reaction shown on a message
          requests,  \* calls of reactMessage
          apart      \* history: messages with two requests at once, with an
                     \* answer lost, or with a request that failed after the
                     \* list had moved

vars == <<stored, shown, mark, requests, apart>>

\* next: the reaction asked for, and what the server made of it once it has answered.
Request == [n : 1..MaxReactions, idx : Nat, id : Message, next : Reaction,
            old : Reaction, served : BOOLEAN]

TypeOK ==
  /\ stored \in [Message -> Reaction] /\ mark \in [Message -> Reaction]
  /\ shown \in {Newer, Older \o Newer}
  /\ \A r \in requests : r \in Request
  /\ apart \subseteq Message

Init ==
  /\ stored = [m \in Message |-> "null"] /\ mark = stored
  /\ shown = Newer
  /\ requests = {} /\ apart = {}

\* reactMsg up to its await: the same button again takes the reaction back.
React(i, reaction) ==
  /\ i \in DOMAIN shown /\ Cardinality(requests) < MaxReactions
  /\ LET m == shown[i]
         next == IF mark[m] = reaction THEN "null" ELSE reaction
     IN /\ mark' = [mark EXCEPT ![m] = next]
        /\ requests' = requests \cup
             {[n |-> CHOOSE n \in 1..MaxReactions : \A r \in requests : r.n # n,
               idx |-> i, id |-> m, next |-> next, old |-> mark[m],
               served |-> FALSE]}
        /\ apart' = IF \E r \in requests : r.id = m THEN apart \cup {m}
                    ELSE apart
  /\ UNCHANGED <<stored, shown>>

\* A reaction that is stored already is taken back.
Toggled(r) == IF stored[r.id] = r.next THEN "null" ELSE r.next

Serve(r) ==
  /\ ~r.served
  /\ stored' = [stored EXCEPT ![r.id] = Toggled(r)]
  /\ requests' = (requests \ {r}) \cup {[r EXCEPT !.served = TRUE, !.next = Toggled(r)]}
  /\ UNCHANGED <<shown, mark, apart>>

\* copy[idx]?.id === msgId
InPlace(r) == r.idx \in DOMAIN shown /\ shown[r.idx] = r.id

Put(r, value) == IF InPlace(r) THEN [mark EXCEPT ![r.id] = value] ELSE mark

Reply(r) ==
  /\ r.served
  /\ mark' = Put(r, r.next)
  /\ requests' = requests \ {r}
  /\ UNCHANGED <<stored, shown, apart>>

\* The mark of before comes back.
Fails(r) ==
  /\ mark' = Put(r, r.old)
  /\ requests' = requests \ {r}
  /\ apart' = IF r.served \/ ~InPlace(r) THEN apart \cup {r.id} ELSE apart
  /\ UNCHANGED <<stored, shown>>

\* loadMore has read the older page.
PageArrives ==
  /\ shown = Newer /\ shown' = Older \o Newer
  /\ UNCHANGED <<stored, mark, requests, apart>>

Next ==
  \/ \E i \in 1..Len(shown), v \in {"like", "dislike"} : React(i, v)
  \/ \E r \in requests : Serve(r) \/ Reply(r) \/ Fails(r)
  \/ PageArrives

Spec == Init /\ [][Next]_vars
-----------------------------------------------------------------------------
(* A message shows the reaction the server has for it, once nothing is      *)
(* under way for it: an answer never marks another message, and a failure   *)
(* is undone unless the list has moved (lines 999-1009).                    *)
MarksAreStored ==
  \A m \in Message \ apart :
    (\A r \in requests : r.id # m) => mark[m] = stored[m]
=============================================================================
