---------------------------- MODULE SidebarList ----------------------------
(***************************************************************************)
(* The list of conversations in the sidebar, lib/chat-history.tsx: it is   *)
(* read at the start and after everything that changes it here, and a      *)
(* deletion is shown before the server has done it.  What is done with the *)
(* messages, and with the conversation on the screen, is in ChatPage.      *)
(***************************************************************************)
EXTENDS Integers, FiniteSets

CONSTANTS Chats,        \* the conversations there can be
          FirstChats,   \* those the user has at first
          MaxLists      \* bound: calls of listConversations at once

\* Assumed where this module is instantiated, in DashboardPages.
ChatsAssumption == FirstChats \subseteq Chats

VARIABLES keptChats,    \* at the server
          conversations,
          listCalls,    \* calls of listConversations
          saving,       \* createConversation: none, sent, served
          removing,     \* remove: of which conversation, from which list
          listsCrossed, \* history: the last call of the list met another
          listLost      \* history: the last call of the list failed

vars == <<keptChats, conversations, listCalls, saving, removing, listsCrossed,
          listLost>>

Call == [n : 1..MaxLists, read : BOOLEAN, answer : SUBSET Chats]
Unread(n) == [n |-> n, read |-> FALSE, answer |-> {}]
NoRemoval == [of |-> {}, snapshot |-> {}, served |-> FALSE]

TypeOK ==
  /\ keptChats \subseteq Chats /\ conversations \subseteq Chats
  /\ listCalls \subseteq Call
  /\ saving \in {"none", "sent", "served"}
  /\ removing.of \subseteq Chats /\ removing.snapshot \subseteq Chats
  /\ {listsCrossed, listLost} \subseteq BOOLEAN

\* refresh, up to its await.
Refresh ==
  /\ Cardinality(listCalls) < MaxLists
  /\ listCalls' = listCalls \cup
       {Unread(CHOOSE n \in 1..MaxLists : \A l \in listCalls : l.n # n)}
  /\ listsCrossed' = (listCalls # {})

\* The effect of [refresh].
Init ==
  /\ keptChats = FirstChats /\ conversations = {}
  /\ listCalls = {Unread(1)}
  /\ saving = "none" /\ removing = NoRemoval
  /\ listsCrossed = FALSE /\ listLost = FALSE
-----------------------------------------------------------------------------
\* save of a new chat, by the chat page.
Save ==
  /\ saving = "none" /\ keptChats # Chats /\ saving' = "sent"
  /\ UNCHANGED <<keptChats, conversations, listCalls, removing, listsCrossed,
                 listLost>>

\* Whichever way it ends, the finally reads the list.
SaveEnds(ok) ==
  /\ saving # "none" /\ (ok => saving = "served")
  /\ saving' = "none" /\ Refresh
  /\ UNCHANGED <<keptChats, conversations, removing, listLost>>

\* remove, up to its await; the dialog asks for one conversation at a time.
Remove(c) ==
  /\ removing = NoRemoval /\ c \in conversations
  /\ removing' = [of |-> {c}, snapshot |-> conversations, served |-> FALSE]
  /\ conversations' = conversations \ {c}
  /\ UNCHANGED <<keptChats, listCalls, saving, listsCrossed, listLost>>

\* A failure brings back the list as it was when the user confirmed.
RemoveEnds(ok) ==
  /\ removing # NoRemoval /\ (ok => removing.served)
  /\ conversations' = IF ok THEN conversations ELSE removing.snapshot
  /\ removing' = NoRemoval /\ Refresh
  /\ UNCHANGED <<keptChats, saving, listLost>>

\* Whatever is answered is shown; a failure shows nothing.
ListEnds(l, ok) ==
  /\ ok => l.read
  /\ listCalls' = listCalls \ {l}
  /\ conversations' = IF ok THEN l.answer ELSE {}
  /\ listLost' = ~ok
  /\ UNCHANGED <<keptChats, saving, removing, listsCrossed>>

\* The server: list_conversations (whose page of 50 holds all there is here),
\* create_conversation and delete_conversation.
ServeList ==
  \E l \in listCalls :
    /\ ~l.read
    /\ listCalls' = (listCalls \ {l}) \cup {[l EXCEPT !.read = TRUE, !.answer = keptChats]}
    /\ UNCHANGED <<keptChats, saving, removing>>

ServeSave ==
  /\ saving = "sent" /\ saving' = "served"
  /\ \E c \in Chats \ keptChats : keptChats' = keptChats \cup {c}
  /\ UNCHANGED <<listCalls, removing>>

ServeRemove ==
  /\ removing # NoRemoval /\ ~removing.served
  /\ keptChats' = keptChats \ removing.of
  /\ removing' = [removing EXCEPT !.served = TRUE]
  /\ UNCHANGED <<listCalls, saving>>

ServeStep ==
  /\ ServeList \/ ServeSave \/ ServeRemove
  /\ UNCHANGED <<conversations, listsCrossed, listLost>>

Next ==
  \/ Save \/ ServeStep
  \/ \E c \in Chats : Remove(c)
  \/ \E ok \in BOOLEAN : SaveEnds(ok) \/ RemoveEnds(ok)
  \/ \E l \in listCalls, ok \in BOOLEAN : ListEnds(l, ok)

Spec == Init /\ [][Next]_vars
-----------------------------------------------------------------------------
(* With nothing under way the sidebar lists what the server has, unless two *)
(* readings crossed or the last one failed; so also after a deletion that   *)
(* failed, whose snapshot may be older than a conversation saved since      *)
(* (lines 53-66, 91-117).                                                   *)
SidebarAgrees ==
  /\ listCalls = {} /\ saving = "none" /\ removing = NoRemoval
  /\ ~listsCrossed
  => conversations = IF listLost THEN {} ELSE keptChats
=============================================================================
