---------------------------- MODULE MCChatSlots ----------------------------
EXTENDS ChatSlots, TLC

CONSTANTS a, b, a1, a2, a3, b1

MCRequest == {a1, a2, a3, b1}
\* One user with more requests than slots of any kind, and one other user.
MCOwner == (b1 :> b) @@ [r \in {a1, a2, a3} |-> a]

\* Next without StreamDropped: every stream that is returned is begun, so that
\* what can leave the Claude counter raised is an exception in /v1/messages.
BegunNext ==
  \E r \in Request :
    \/ ChatEnter(r) \/ ResumeGlobal(r) \/ ResumeUser(r)
    \/ ChatAnswer(r) \/ ChatStream(r)
    \/ MessagesEnter(r) \/ MessagesAnswer(r) \/ MessagesStream(r)
    \/ MessagesRaise(r)
    \/ StreamBegin(r) \/ StreamEnd(r)

BegunSpec == Init /\ [][BegunNext]_vars
=============================================================================
