--------------------------- MODULE MembersDialog ---------------------------
(***************************************************************************)
(* The owner's components/MembersManagerDialog: the stored list of channel *)
(* members, replaced by a pasted one or emptied.  Closing the dialog hides *)
(* it: it keeps its state and its requests, and every opening loads the    *)
(* list again.                                                             *)
(***************************************************************************)
EXTENDS Integers, FiniteSets

CONSTANTS Member,      \* channel ids
          MaxFetches   \* bound: loads of the list under way at once

VARIABLES members,     \* at the server: the stored list
          open,
          ids, count, notice,
          text,        \* what was pasted: nothing, junk, or a list
          levelsText,  \* the same for the levels: nothing, junk, or JSON
          write,       \* busy and the call behind it
          fetches,     \* calls of getStoredMembers
          crossed,     \* history: a load overlapped another call
          unheard      \* history: an answer was lost, or a load failed

vars == <<members, open, ids, count, notice, text, levelsText, write, fetches,
          crossed, unheard>>

Slot == 1..MaxFetches
NoCall == [what |-> "none", served |-> FALSE, list |-> {}]
Write == [what : {"save", "clear", "levels"}, served : BOOLEAN,
          list : SUBSET Member]
Fetch == [n : Slot, served : BOOLEAN, list : SUBSET Member]
Pasted == {{"nothing"}, {"junk"}} \cup (SUBSET Member \ {{}})

TypeOK ==
  /\ notice \in {"none", "done", "failed"}
  /\ write \in Write \cup {NoCall} /\ fetches \subseteq Fetch
  /\ members \subseteq Member /\ ids \subseteq Member
  /\ count \in 0..Cardinality(Member) /\ text \in Pasted
  /\ levelsText \in {"nothing", "junk", "json"}
  /\ {open, crossed, unheard} \subseteq BOOLEAN

\* What the dialog lists, and the count above it.
Listing == [rows |-> ids, total |-> count]

Init ==
  /\ open = FALSE /\ members = {} /\ ids = {} /\ count = 0 /\ notice = "none"
  /\ text = {"nothing"} /\ levelsText = "nothing"
  /\ write = NoCall /\ fetches = {}
  /\ crossed = FALSE /\ unheard = FALSE

\* load up to its await.
Load ==
  /\ Cardinality(fetches) < MaxFetches
  /\ fetches' = fetches \cup
       {[n |-> CHOOSE n \in Slot : \A f \in fetches : f.n # n,
         served |-> FALSE, list |-> {}]}
  /\ crossed' = (crossed \/ fetches # {} \/ write # NoCall)

\* The effect of [open].
Open ==
  /\ ~open /\ open' = TRUE /\ notice' = "none" /\ Load
  /\ UNCHANGED <<members, ids, count, text, levelsText, write, unheard>>

Close ==
  /\ open /\ open' = FALSE
  /\ UNCHANGED <<members, ids, count, notice, text, levelsText, write,
                 fetches, crossed, unheard>>

\* Refresh asks nothing of busy.
Refresh ==
  /\ open /\ Load
  /\ UNCHANGED <<members, open, ids, count, notice, text, levelsText, write,
                 unheard>>

Paste(p) ==
  /\ open /\ text' = p
  /\ UNCHANGED <<members, open, ids, count, notice, levelsText, write, fetches,
                 crossed, unheard>>

PasteLevels(p) ==
  /\ open /\ levelsText' = p
  /\ UNCHANGED <<members, open, ids, count, notice, text, write, fetches,
                 crossed, unheard>>

\* The three buttons that write.
MayWrite(what) == open /\ write = NoCall /\ (what = "clear" => count > 0)

\* parseInput: JSON, or the lines that look like channel ids.
ParseInput == text \ {"nothing", "junk"}

\* Up to the await.
Sends(what, list) ==
  /\ notice' = "none"
  /\ write' = [what |-> what, served |-> FALSE, list |-> list]
  /\ crossed' = (crossed \/ fetches # {})

Refuses == notice' = "failed" /\ UNCHANGED <<write, crossed>>

Save ==
  /\ MayWrite("save")
  /\ IF ParseInput = {} THEN Refuses ELSE Sends("save", ParseInput)
  /\ UNCHANGED <<members, open, ids, count, text, levelsText, fetches, unheard>>

SaveLevels ==
  /\ MayWrite("levels")
  /\ IF levelsText = "json" THEN Sends("levels", {}) ELSE Refuses
  /\ UNCHANGED <<members, open, ids, count, text, levelsText, fetches, unheard>>

Clear ==
  /\ MayWrite("clear") /\ Sends("clear", {})
  /\ UNCHANGED <<members, open, ids, count, text, levelsText, fetches, unheard>>

\* setIds: the list of the answer.
Listed(w) == w.list

Answered(what) == write.what = what /\ write.served
Finished == notice' = "done" /\ write' = NoCall

\* What was typed meanwhile is emptied as well.
SaveReply ==
  /\ Answered("save") /\ Finished
  /\ ids' = Listed(write) /\ count' = Cardinality(write.list)
  /\ text' = {"nothing"}
  /\ UNCHANGED <<members, open, levelsText, fetches, crossed, unheard>>

LevelsReply ==
  /\ Answered("levels") /\ Finished
  /\ levelsText' = "nothing"
  /\ UNCHANGED <<members, open, ids, count, text, fetches, crossed, unheard>>

ClearReply ==
  /\ Answered("clear") /\ Finished
  /\ ids' = {} /\ count' = 0 /\ text' = {"nothing"}
  /\ UNCHANGED <<members, open, levelsText, fetches, crossed, unheard>>

WriteFails ==
  /\ write # NoCall
  /\ notice' = "failed" /\ write' = NoCall
  /\ unheard' = (unheard \/ write.served)
  /\ UNCHANGED <<members, open, ids, count, text, levelsText, fetches, crossed>>

\* A failed load empties the count and leaves the list.
ListArrives(f, ok) ==
  /\ ok => f.served
  /\ IF ok
     THEN ids' = f.list /\ count' = Cardinality(f.list) /\ UNCHANGED unheard
     ELSE count' = 0 /\ unheard' = TRUE /\ UNCHANGED ids
  /\ fetches' = fetches \ {f}
  /\ UNCHANGED <<members, open, notice, text, levelsText, write, crossed>>

\* The server.
ServeWrite ==
  /\ write # NoCall /\ ~write.served
  /\ members' = IF write.what = "levels" THEN members ELSE write.list
  /\ write' = [write EXCEPT !.served = TRUE]
  /\ UNCHANGED <<open, ids, count, notice, text, levelsText, fetches, crossed,
                 unheard>>

ServeFetch(f) ==
  /\ ~f.served
  /\ fetches' = (fetches \ {f}) \cup
       {[f EXCEPT !.served = TRUE, !.list = members]}
  /\ UNCHANGED <<members, open, ids, count, notice, text, levelsText, write,
                 crossed, unheard>>

Next ==
  \/ Open \/ Close \/ Refresh \/ Save \/ SaveLevels \/ Clear
  \/ SaveReply \/ LevelsReply \/ ClearReply \/ WriteFails \/ ServeWrite
  \/ \E p \in Pasted : Paste(p)
  \/ \E p \in {"nothing", "junk", "json"} : PasteLevels(p)
  \/ \E f \in fetches : \/ ServeFetch(f)
                        \/ \E ok \in BOOLEAN : ListArrives(f, ok)

Spec == Init /\ [][Next]_vars
-----------------------------------------------------------------------------
(* The list of members on the screen and its count are what the server      *)
(* stores once nothing is under way, unless a Refresh crossed a change.     *)
MembersShown ==
  fetches = {} /\ write = NoCall /\ ~crossed /\ ~unheard
    => Listing = [rows |-> members, total |-> Cardinality(members)]
=============================================================================
