---------------------------- MODULE MCChatPage ----------------------------
(***************************************************************************)
(* A conversation of four messages, an unused id, and two turns; pages of  *)
(* two messages, so the archive takes two requests.                        *)
(***************************************************************************)
EXTENDS ChatPage, TLC

CONSTANTS cA, cB

MCArchive == [c \in Conv |-> IF c = cA THEN Exchange(1) \o Exchange(2) ELSE <<>>]
MCTurn == {3, 4}
=============================================================================
