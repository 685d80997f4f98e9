----------------------------- MODULE PlainChat -----------------------------
(***************************************************************************)
(* The plain chat at /chat-assistant: pages/Chat.tsx, whose thread is kept *)
(* by the local runtime of assistant-ui (external), and lib/chat-adapter,  *)
(* which the runtime runs for every answer.  The runtime keeps the branch  *)
(* shown and the others; an edit or a new answer starts another branch.    *)
(*                                                                         *)
(* An answer is a number of chunks.  Attachments, dictation and feedback   *)
(* are left out: the runtime is given no adapter for them, and no request  *)
(* carries them.                                                           *)
(***************************************************************************)
EXTENDS Integers, FiniteSets, Sequences

CONSTANTS MaxChunks,    \* bound: of one answer
          MaxMessages,  \* bound: of one branch
          MaxBranches   \* bound: branches beside the one shown

VARIABLES signedIn,     \* session_token is in localStorage
          thread,       \* the branch shown
          branches,     \* the others
          editing,      \* the message being edited, or 0
          run,          \* how far the adapter is
          held          \* the decoder keeps the start of a character

vars == <<signedIn, thread, branches, editing, run, held>>

\* size: the chunks the server has to send, -1 before it has answered.
Assistant == [role : {"assistant"}, chunks : 0..MaxChunks, size : -1..MaxChunks,
              error : BOOLEAN, stopped : BOOLEAN]
UserMessage == [role |-> "user"]
Unanswered == [role |-> "assistant", chunks |-> 0, size |-> -1, error |-> FALSE,
               stopped |-> FALSE]
Message == Assistant \cup {UserMessage}
IsBranch(b) == Len(b) <= MaxMessages /\ \A i \in DOMAIN b : b[i] \in Message

TypeOK ==
  /\ \A b \in branches \cup {thread} : IsBranch(b)
  /\ Cardinality(branches) <= MaxBranches
  /\ run \in {"none", "fetching", "refused", "streaming"}
  /\ editing \in 0..MaxMessages
  /\ {signedIn, held} \subseteq BOOLEAN

IsRunning == run # "none"
Answer == thread[Len(thread)]
Received == Answer.chunks + (IF held THEN 1 ELSE 0)

\* What ThreadPrimitive.Messages renders for a message.
Component(i) == IF i = editing THEN "EditComposer"
                ELSE IF thread[i].role = "user" THEN "UserMessage"
                ELSE "AssistantMessage"

\* The action bars, hideWhenRunning.
UserActions == IF IsRunning THEN {} ELSE {"copy", "edit"}
AssistantActions ==
  IF IsRunning THEN {} ELSE {"copy", "feedback", "speak", "reload", "export"}

Offers(i) == CASE Component(i) = "EditComposer" -> {"cancel", "send"}
               [] Component(i) = "UserMessage" -> UserActions
               [] OTHER -> AssistantActions

\* ComposerPrimaryAction, for a composer with text or an empty one.
PrimaryAction(typed) ==
  IF IsRunning THEN "stop" ELSE IF typed THEN "send" ELSE "dictate"

\* Model mounts, and only warns of a missing token.
Init ==
  /\ signedIn \in BOOLEAN /\ thread = <<>> /\ branches = {}
  /\ editing = 0 /\ run = "none" /\ held = FALSE
-----------------------------------------------------------------------------
(* The runtime: a run answers the messages kept.                            *)

\* Without a token the adapter answers at once.
Run(kept) ==
  IF signedIn
  THEN thread' = Append(kept, Unanswered) /\ run' = "fetching"
  ELSE thread' = Append(kept, [Unanswered EXCEPT !.error = TRUE]) /\ UNCHANGED run

Send ==
  /\ PrimaryAction(TRUE) = "send" /\ Len(thread) + 2 <= MaxMessages
  /\ Run(Append(thread, UserMessage))
  /\ UNCHANGED <<signedIn, branches, editing, held>>

\* The branch left is kept beside the new one.
Branching == /\ Cardinality(branches) < MaxBranches
             /\ branches' = branches \cup {thread}

StartEdit(i) ==
  /\ "edit" \in Offers(i) /\ editing' = i
  /\ UNCHANGED <<signedIn, thread, branches, run, held>>

CancelEdit ==
  /\ editing # 0 /\ "cancel" \in Offers(editing) /\ editing' = 0
  /\ UNCHANGED <<signedIn, thread, branches, run, held>>

SendEdit(i) ==
  /\ "send" \in Offers(i) /\ ~IsRunning /\ Branching
  /\ editing' = 0
  /\ Run(SubSeq(thread, 1, i))
  /\ UNCHANGED <<signedIn, held>>

\* Regenerate.
Reload(i) ==
  /\ "reload" \in Offers(i) /\ Branching
  /\ Run(SubSeq(thread, 1, i - 1))
  /\ editing' = IF editing < i THEN editing ELSE 0
  /\ UNCHANGED <<signedIn, held>>

\* The arrows of BranchPicker.
PickBranch(b) ==
  /\ ~IsRunning
  /\ thread' = b /\ branches' = (branches \ {b}) \cup {thread}
  /\ editing' = 0
  /\ UNCHANGED <<signedIn, run, held>>

\* The token goes, by a sign-out in another tab, or is there again.
SwitchToken ==
  /\ signedIn' = ~signedIn
  /\ UNCHANGED <<thread, branches, editing, run, held>>
-----------------------------------------------------------------------------
(* The adapter.  Each step replaces the answer by what it yields.           *)

Yields(a) == thread' = [thread EXCEPT ![Len(thread)] = a]
Ends == run' = "none" /\ held' = FALSE
Elsewhere == UNCHANGED <<signedIn, branches, editing>>

Failed(a) == [a EXCEPT !.chunks = 0, !.error = TRUE]

\* Stop: the request, or the reader, ends with an AbortError, which yields
\* nothing; what a refused request still yields the runtime may take or not.
Stop ==
  /\ \E typed \in BOOLEAN : PrimaryAction(typed) = "stop"
  /\ LET a == [Answer EXCEPT !.stopped = TRUE]
     IN Yields(a) \/ (run = "refused" /\ Yields(Failed(a)))
  /\ Ends /\ Elsewhere

\* apiFetch has thrown: neither way into the backend answers.
FetchFails ==
  /\ run = "fetching"
  /\ Yields(Failed(Answer)) /\ Ends /\ Elsewhere

\* A bad status; its text is read next.
Refused ==
  /\ run = "fetching" /\ run' = "refused"
  /\ UNCHANGED <<thread, held>> /\ Elsewhere

RefusalRead ==
  /\ run = "refused"
  /\ Yields(Failed(Answer)) /\ Ends /\ Elsewhere

Headers(n) ==
  /\ run = "fetching" /\ run' = "streaming"
  /\ Yields([Answer EXCEPT !.size = n])
  /\ UNCHANGED held /\ Elsewhere

\* A chunk may end inside a character, which the decoder then keeps.
Chunk(cut) ==
  /\ run = "streaming" /\ Received < Answer.size
  /\ Yields([Answer EXCEPT !.chunks = IF cut THEN Received ELSE Received + 1])
  /\ held' = cut
  /\ UNCHANGED run /\ Elsewhere

\* The rest of the decoder.
Flushed == IF held THEN [Answer EXCEPT !.chunks = @ + 1] ELSE Answer

StreamDone ==
  /\ run = "streaming"
  /\ Answer.size = Received
  /\ Yields(Flushed) /\ Ends /\ Elsewhere

\* Mutant of Broken: what has arrived stays as if it were the answer.
BrokenSilently(a) == a

\* The error takes the place of what has arrived.
Broken(a) == Failed(a)

StreamBreaks ==
  /\ run = "streaming"
  /\ Yields(Broken(Answer)) /\ Ends /\ Elsewhere

Next ==
  \/ Send \/ CancelEdit \/ Stop \/ SwitchToken
  \/ \E i \in 1..Len(thread) : StartEdit(i) \/ SendEdit(i) \/ Reload(i)
  \/ \E b \in branches : PickBranch(b)
  \/ FetchFails \/ Refused \/ RefusalRead \/ StreamDone \/ StreamBreaks
  \/ \E n \in 0..MaxChunks : Headers(n)
  \/ \E cut \in BOOLEAN : Chunk(cut)

Spec == Init /\ [][Next]_vars
-----------------------------------------------------------------------------
(* An answer that carries no error and was not stopped is the whole of what *)
(* the server had to send, in every branch; only the answer being received  *)
(* may be short (chat-adapter 46-118).                                      *)
WholeOrTold ==
  \A b \in branches \cup {thread} : \A i \in DOMAIN b :
    \/ b[i].role = "user" \/ b[i].error \/ b[i].stopped
    \/ b[i].chunks = b[i].size
    \/ b = thread /\ i = Len(b) /\ IsRunning
=============================================================================
