------------------------------ MODULE KeysPage ------------------------------
(***************************************************************************)
(* The API keys page, pages/Keys.tsx: a list loaded when the page mounts   *)
(* and after every creation and revocation, a dialog that creates a key, a *)
(* dialog that shows the new key, and one that confirms a revocation.      *)
(*                                                                         *)
(* A request is served at one moment and answered at a later one; answers  *)
(* arrive in any order.  What a row of the list says is in KeyRows; the    *)
(* name typed is left out.                                                 *)
(***************************************************************************)
EXTENDS Integers, FiniteSets

CONSTANTS Key, NoKey,
          Held,        \* the keys the user has when the page opens
          MaxListings  \* bound: listings under way at once

\* Assumed where this module is instantiated, in DashboardPages.
KeyAssumption == /\ NoKey \notin Key /\ Held \subseteq Key
                 /\ MaxListings \in Nat \ {0}

VARIABLES issued,     \* at the server: the status of every key of the user
          rows,       \* keys: what the last answer to listKeys said
          loading,
          newKey,     \* the key shown by the second dialog
          creating,
          naming,     \* showCreateDialog
          revokeTarget,
          backedUp,
          listings,   \* calls of listKeys under way
          creations, revocations,   \* calls of createKey and revokeKey
          ticked,     \* history: the key the user said to have backed up
          apart       \* history: two listings were under way at once, or an
                      \* answer to a change or a listing was lost

vars == <<issued, rows, loading, newKey, creating, naming, revokeTarget,
          backedUp, listings, creations, revocations, ticked, apart>>

\* A revoked key is deleted; its name is not used again.
Status == {"none", "active", "gone"}
Listing == [Key -> Status]
Unserved == [k \in Key |-> "unserved"]
Call == [key : Key, served : BOOLEAN]

TypeOK ==
  /\ issued \in Listing /\ rows \in Listing
  /\ {newKey, revokeTarget, ticked} \subseteq Key \cup {NoKey}
  /\ listings \subseteq [at : 1..MaxListings, answer : Listing \cup {Unserved}]
  /\ creations \subseteq Call /\ revocations \subseteq Call
  /\ {loading, creating, naming, backedUp, apart} \subseteq BOOLEAN

\* loadKeys.  Two listings at once are told apart by `at`.
Load(ls) ==
  ls \cup {[at |-> CHOOSE n \in 1..MaxListings : \A l \in ls : l.at # n,
            answer |-> Unserved]}
MayLoad == Cardinality(listings) < MaxListings

Blank ==
  /\ issued = [k \in Key |-> IF k \in Held THEN "active" ELSE "none"]
  /\ rows = [k \in Key |-> "none"] /\ loading = TRUE
  /\ newKey = NoKey /\ creating = FALSE /\ naming = FALSE
  /\ revokeTarget = NoKey /\ backedUp = FALSE
  /\ creations = {} /\ revocations = {}
  /\ ticked = NoKey /\ apart = FALSE

\* The page mounts: its effect loads the keys.
Init == Blank /\ listings = Load({})
-----------------------------------------------------------------------------
(* What the page shows.  A dialog is modal: the one opened last receives    *)
(* the clicks.                                                              *)

Shown == IF loading THEN {} ELSE {k \in Key : rows[k] = "active"}

Dialog == IF newKey # NoKey THEN "secret"
          ELSE IF naming THEN "create"
          ELSE IF revokeTarget \in Shown THEN "revoke"
          ELSE "none"

MaySubmit(how) == how = "enter" \/ ~creating   \* Enter asks nothing
-----------------------------------------------------------------------------
(* What the user does.                                                      *)

\* The trigger opens the dialog; Cancel and Escape close it.
SwitchCreateDialog ==
  /\ Dialog \in {"none", "create"}
  /\ naming' = ~naming
  /\ UNCHANGED <<issued, rows, loading, newKey, creating, revokeTarget,
                 backedUp, listings, creations, revocations, ticked, apart>>

\* The server makes up a new key for every creation.
Fresh == {k \in Key : issued[k] = "none" /\ \A c \in creations : c.key # k}

\* handleCreate up to its await.  The button also closes the dialog.
Create(how) ==
  /\ Dialog = "create" /\ MaySubmit(how) /\ Fresh # {}
  /\ creating' = TRUE
  /\ naming' = (how = "enter")
  /\ creations' = creations \cup {[key |-> CHOOSE k \in Fresh : TRUE,
                                   served |-> FALSE]}
  /\ UNCHANGED <<issued, rows, loading, newKey, revokeTarget, backedUp,
                 listings, revocations, ticked, apart>>

TickBackedUp ==
  /\ Dialog = "secret"
  /\ backedUp' = ~backedUp
  /\ ticked' = IF backedUp THEN NoKey ELSE newKey
  /\ UNCHANGED <<issued, rows, loading, newKey, creating, naming, revokeTarget,
                 listings, creations, revocations, apart>>

\* Done needs the tick; Escape does not.
Dismiss(how) ==
  /\ Dialog = "secret"
  /\ how = "done" => backedUp /\ ~creating
  /\ newKey' = NoKey /\ backedUp' = FALSE /\ ticked' = NoKey
  /\ UNCHANGED <<issued, rows, loading, creating, naming, revokeTarget,
                 listings, creations, revocations, apart>>

AskRevoke(k) ==
  /\ Dialog = "none" /\ k \in Shown
  /\ revokeTarget' = k
  /\ UNCHANGED <<issued, rows, loading, newKey, creating, naming, backedUp,
                 listings, creations, revocations, ticked, apart>>

\* handleRevoke up to its await, or Cancel: either closes the dialog.
AnswerRevoke(yes) ==
  /\ Dialog = "revoke"
  /\ \A r \in revocations : r.key # revokeTarget
  /\ revocations' = IF yes
                    THEN revocations \cup {[key |-> revokeTarget, served |-> FALSE]}
                    ELSE revocations
  /\ revokeTarget' = NoKey
  /\ UNCHANGED <<issued, rows, loading, newKey, creating, naming, backedUp,
                 listings, creations, ticked, apart>>
-----------------------------------------------------------------------------
(* The server, and the continuations of the requests.                       *)

Serve ==
  \/ \E c \in creations :
       /\ ~c.served
       /\ issued' = [issued EXCEPT ![c.key] = "active"]
       /\ creations' = (creations \ {c}) \cup {[c EXCEPT !.served = TRUE]}
       /\ UNCHANGED <<listings, revocations>>
  \/ \E r \in revocations :
       /\ ~r.served /\ issued[r.key] = "active"
       /\ issued' = [issued EXCEPT ![r.key] = "gone"]
       /\ revocations' = (revocations \ {r}) \cup {[r EXCEPT !.served = TRUE]}
       /\ UNCHANGED <<listings, creations>>
  \/ \E l \in listings :
       /\ l.answer = Unserved
       /\ listings' = (listings \ {l}) \cup {[l EXCEPT !.answer = issued]}
       /\ UNCHANGED <<issued, creations, revocations>>

ServeStep ==
  /\ Serve
  /\ UNCHANGED <<rows, loading, newKey, creating, naming, revokeTarget,
                 backedUp, ticked, apart>>

Reload ==
  /\ MayLoad
  /\ listings' = Load(listings)
  /\ apart' = (apart \/ listings # {})

\* Mutant of OffersKey: the dialog keeps the tick of the key it showed before.
OffersKeyTicked(k) == newKey' = k /\ UNCHANGED <<backedUp, ticked>>

\* A new key is shown and its dialog asks again whether it was backed up.
OffersKey(k) == newKey' = k /\ backedUp' = FALSE /\ ticked' = NoKey

CreateReply(c) ==
  /\ c.served
  /\ creations' = creations \ {c}
  /\ OffersKey(c.key)
  /\ naming' = FALSE /\ creating' = FALSE
  /\ Reload
  /\ UNCHANGED <<issued, rows, loading, revokeTarget, revocations>>

\* The request failed; when the server had served it, the key exists.
CreateFails(c) ==
  /\ creations' = creations \ {c}
  /\ creating' = FALSE
  /\ apart' = (apart \/ c.served)
  /\ UNCHANGED <<issued, rows, loading, newKey, naming, revokeTarget, backedUp,
                 listings, revocations, ticked>>

\* Mutant of Revoked: the list is not loaded again.
RevokedSilently == UNCHANGED <<listings, apart>>

Revoked == Reload

\* The last line of handleRevoke closes whichever confirmation is open.
RevokeReply(r) ==
  /\ r.served
  /\ revocations' = revocations \ {r}
  /\ Revoked
  /\ revokeTarget' = NoKey
  /\ UNCHANGED <<issued, rows, loading, newKey, creating, naming, backedUp,
                 creations, ticked>>

RevokeFails(r) ==
  /\ revocations' = revocations \ {r}
  /\ revokeTarget' = NoKey
  /\ apart' = (apart \/ r.served)
  /\ UNCHANGED <<issued, rows, loading, newKey, creating, naming, backedUp,
                 listings, creations, ticked>>

\* Any answer is applied, the last to arrive wins; a failure is swallowed.
ListReply(l) ==
  /\ l.answer # Unserved
  /\ rows' = l.answer /\ loading' = FALSE
  /\ listings' = listings \ {l}
  /\ UNCHANGED <<issued, newKey, creating, naming, revokeTarget, backedUp,
                 creations, revocations, ticked, apart>>

ListFails(l) ==
  /\ loading' = FALSE /\ apart' = TRUE
  /\ listings' = listings \ {l}
  /\ UNCHANGED <<issued, rows, newKey, creating, naming, revokeTarget,
                 backedUp, creations, revocations, ticked>>

Next ==
  \/ \E k \in Key : AskRevoke(k)
  \/ \E how \in {"button", "enter"} : Create(how)
  \/ SwitchCreateDialog \/ TickBackedUp
  \/ \E how \in {"done", "escape"} : Dismiss(how)
  \/ \E yes \in BOOLEAN : AnswerRevoke(yes)
  \/ ServeStep
  \/ \E c \in creations : CreateReply(c) \/ CreateFails(c)
  \/ \E r \in revocations : RevokeReply(r) \/ RevokeFails(r)
  \/ \E l \in listings : ListReply(l) \/ ListFails(l)

Spec == Init /\ [][Next]_vars
-----------------------------------------------------------------------------
(* Once nothing is under way the list is what the server has, unless an     *)
(* answer was lost or two listings crossed: creations and revocations all   *)
(* end in loadKeys (lines 80-82, 103, 120).                                 *)
ListCurrent ==
  listings \cup creations \cup revocations = {} /\ ~apart
    => Shown = {k \in Key : issued[k] = "active"}

(* "I have backed up my secret key" (line 236) stands for the key on the    *)
(* screen, also when the answer to another creation replaces that key.      *)
TickIsForThisKey == backedUp => newKey # NoKey /\ ticked = newKey
=============================================================================
