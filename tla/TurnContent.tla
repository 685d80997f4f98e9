---------------------------- MODULE TurnContent ----------------------------
(***************************************************************************)
(* What the turns of the chat page carry, pages/Chat3.tsx: the settings    *)
(* and files that go into a request, the messages sent with it, what is    *)
(* made of an answer or an error, and what a message shows and offers.     *)
(* ChatPage has the order in which all this happens, and Composer the      *)
(* tools; here one turn follows the other in a new chat.                   *)
(*                                                                         *)
(* A text is none, whole, or cut, which is what isTruncated says of it: it *)
(* ended at the limit, or looks as if it had.                              *)
(***************************************************************************)
EXTENDS Integers, Sequences

CONSTANTS Kinds,        \* of attachments: image, video, text
          Efforts, FirstEffort,
          Presets, FirstPreset,
          MaxTurnMessages   \* bound: messages of the chat

VARIABLES dialogue,     \* messages
          attached,     \* pending
          thinking, effort, maxTokens,
          phase,        \* of send: idle, asked, streaming, saving
          request,      \* history: the body of the request under way
          refused,      \* attachError: Continue has refused
          archive       \* the server's copy: none, whole, or with a gap

settings == <<thinking, effort, maxTokens>>
vars == <<dialogue, attached, settings, phase, request, refused, archive>>

\* failed: there was an error; error: the message still knows.  read: it came
\* back from the server.
Msg == [role : {"user", "assistant"}, text : {"none", "whole", "cut"},
        files : SUBSET Kinds, reasoning : BOOLEAN, error : BOOLEAN,
        cta : {"none", "keys", "upgrade"}, failed : BOOLEAN, read : BOOLEAN]
Plain == [role |-> "user", text |-> "none", files |-> {}, reasoning |-> FALSE,
          error |-> FALSE, cta |-> "none", failed |-> FALSE, read |-> FALSE]

TypeOK ==
  /\ Len(dialogue) <= MaxTurnMessages
  /\ \A i \in DOMAIN dialogue : dialogue[i] \in Msg
  /\ attached \subseteq Kinds
  /\ effort \in Efforts /\ maxTokens \in Presets
  /\ phase \in {"idle", "asked", "streaming", "saving"}
  /\ {thinking, refused} \subseteq BOOLEAN
  /\ archive \in {"none", "whole", "gap"}

NoRequest == [sent |-> {}, effort |-> "none", max |-> 0, image |-> FALSE]

Init ==
  /\ dialogue = <<>> /\ attached = {}
  /\ thinking = FALSE /\ effort = FirstEffort /\ maxTokens = FirstPreset
  /\ phase = "idle" /\ request = NoRequest
  /\ refused = FALSE /\ archive = "none"

Busy == phase # "idle"
Answer == dialogue[Len(dialogue)]
-----------------------------------------------------------------------------
(* The request.                                                             *)

\* buildContent: the text as it is, or the parts of text and files.
BuildContent(m) ==
  IF m.files = {} THEN {"text"}
  ELSE (IF m.text # "none" THEN {"text"} ELSE {}) \cup m.files

\* The messages that go with a request, none with one for an image.  They keep
\* the order of the chat, which is left out.
Carried(m) == ~m.error /\ (m.text # "none" \/ m.files # {})
History(image) == IF image THEN {}
                  ELSE {m \in {dialogue[i] : i \in DOMAIN dialogue} : Carried(m)}

\* send, with what is typed and picked.
Send(typed, image) ==
  LET m == [Plain EXCEPT !.text = IF typed THEN "whole" ELSE "none",
                         !.files = attached]
  IN /\ ~Busy /\ Len(dialogue) + 2 <= MaxTurnMessages
     /\ typed \/ attached # {}
     /\ request' = [sent |-> History(image) \cup {m},
                    effort |-> IF thinking THEN effort ELSE "none",
                    max |-> maxTokens, image |-> image]
     /\ dialogue' = dialogue \o <<m, [Plain EXCEPT !.role = "assistant"]>>
     /\ attached' = {} /\ phase' = "asked"
     /\ UNCHANGED <<settings, refused, archive>>

\* isTruncated of the last answer.
IsTruncated(m) == m.text = "cut"

\* The button below the last answer.
OffersContinue(i) ==
  /\ i = Len(dialogue) /\ dialogue[i].role = "assistant"
  /\ ~dialogue[i].error /\ IsTruncated(dialogue[i]) /\ ~Busy

\* handleContinue: a turn of its own, which takes no files along.
Continue ==
  /\ dialogue # <<>> /\ OffersContinue(Len(dialogue))
  /\ IF attached = {} THEN Send(TRUE, FALSE)
     ELSE refused' = TRUE
          /\ UNCHANGED <<dialogue, attached, settings, phase, request,
                         archive>>

Attach(k) ==
  /\ ~Busy /\ k \notin attached /\ attached' = attached \cup {k}
  /\ refused' = FALSE
  /\ UNCHANGED <<dialogue, settings, phase, request, archive>>

RemoveAttachment(k) ==
  /\ k \in attached /\ attached' = attached \ {k}
  /\ UNCHANGED <<dialogue, settings, phase, request, refused, archive>>

ToggleThinking ==
  /\ thinking' = ~thinking
  /\ UNCHANGED <<dialogue, attached, effort, maxTokens, phase, request,
                 refused, archive>>

\* The two rows of efforts, shown while thinking is on.
SetEffort(e) ==
  /\ thinking /\ effort' = e
  /\ UNCHANGED <<dialogue, attached, thinking, maxTokens, phase, request,
                 refused, archive>>

SetMaxTokens(n) ==
  /\ maxTokens' = n
  /\ UNCHANGED <<dialogue, attached, thinking, effort, phase, request, refused,
                 archive>>
-----------------------------------------------------------------------------
(* The answer.                                                              *)

Becomes(a) == dialogue' = [dialogue EXCEPT ![Len(dialogue)] = a]
TheRest == UNCHANGED <<attached, settings, request, refused, archive>>

\* What friendlyError offers to do about a status.
FriendlyError(status) ==
  CASE status = 401 -> "keys" [] status = 403 -> "upgrade" [] OTHER -> "none"

Refused(status) ==
  /\ phase = "asked" /\ phase' = "saving"
  /\ Becomes([Answer EXCEPT !.text = "whole", !.error = TRUE, !.failed = TRUE,
                            !.cta = FriendlyError(status)])
  /\ TheRest

StreamOpens ==
  /\ phase = "asked" /\ phase' = "streaming"
  /\ UNCHANGED dialogue /\ TheRest

\* parseSse: content, which may end anywhere, or reasoning, which is dropped
\* unless thinking was on.
Event(text) ==
  /\ phase = "streaming"
  /\ Becomes(IF text = "none"
             THEN [Answer EXCEPT !.reasoning = @ \/ request.effort # "none"]
             ELSE [Answer EXCEPT !.text = text])
  /\ UNCHANGED phase /\ TheRest

\* The end of the stream; nothing at all is an error.
StreamEnds ==
  /\ phase = "streaming" /\ phase' = "saving"
  /\ IF Answer.text = "none" /\ ~Answer.reasoning
     THEN Becomes([Answer EXCEPT !.text = "whole", !.error = TRUE,
                                 !.failed = TRUE])
     ELSE UNCHANGED dialogue
  /\ TheRest

\* An exception, or the deadline: the detail follows what has arrived.
Breaks(text) ==
  /\ phase \in {"asked", "streaming"} /\ phase' = "saving"
  /\ Becomes([Answer EXCEPT !.text = text, !.error = TRUE, !.failed = TRUE])
  /\ TheRest

\* stop: "Stopped." follows.
Stop(text) ==
  /\ phase \in {"asked", "streaming"} /\ phase' = "saving"
  /\ Becomes([Answer EXCEPT !.text = text])
  /\ TheRest

\* The payload of appendMessages and save has no error and no cta.
ReadBack(m) == [m EXCEPT !.error = FALSE, !.cta = "none", !.read = TRUE]

\* Without a conversation, storing creates one, whose page reads it back.
Saved ==
  /\ phase = "saving" /\ phase' = "idle"
  /\ dialogue' = IF archive = "none"
                 THEN [i \in DOMAIN dialogue |-> ReadBack(dialogue[i])]
                 ELSE dialogue
  /\ archive' = IF archive = "none" THEN "whole" ELSE archive
  /\ request' = NoRequest /\ UNCHANGED <<attached, settings, refused>>

SaveFails ==
  /\ phase = "saving" /\ phase' = "idle"
  /\ archive' = IF archive = "none" THEN "none" ELSE "gap"
  /\ request' = NoRequest
  /\ UNCHANGED <<dialogue, attached, settings, refused>>

\* The conversation is opened again, where all of it is stored.
Reopen ==
  /\ ~Busy /\ archive = "whole"
  /\ dialogue' = [i \in DOMAIN dialogue |-> ReadBack(dialogue[i])]
  /\ attached' = {}
  /\ UNCHANGED <<settings, phase, request, refused, archive>>
-----------------------------------------------------------------------------
(* What message i shows.                                                    *)

ErrorBox(m) == m.error
Reasoning(m) == m.role = "assistant" /\ m.reasoning /\ thinking
Loader(i) ==
  LET m == dialogue[i]
  IN /\ m.role = "assistant" /\ Busy /\ i = Len(dialogue) /\ ~m.error
     /\ request.image => m.text = "none"

\* A video has no preview there.
Files(m) == IF m.role = "user" THEN m.files \ {"video"} ELSE {}

Shown(i) ==
  LET m == dialogue[i]
  IN Files(m) \cup (IF Reasoning(m) THEN {"reasoning"} ELSE {})
       \cup (IF ErrorBox(m) THEN {"error"}
             ELSE IF m.text # "none" THEN {"words"} ELSE {})
       \cup (IF Loader(i) THEN {"loader"} ELSE {})

\* The buttons below it.
Buttons(i) ==
  LET m == dialogue[i]
  IN (IF m.text # "none" /\ ~m.error THEN {"copy"} ELSE {})
       \cup (IF m.role = "assistant" /\ m.text # "none" /\ ~m.error
             THEN {"like", "dislike"} ELSE {})
       \cup (IF OffersContinue(i) THEN {"continue"} ELSE {})

Next ==
  \/ \E typed, image \in BOOLEAN : Send(typed, image)
  \/ Continue \/ ToggleThinking
  \/ \E k \in Kinds : Attach(k) \/ RemoveAttachment(k)
  \/ \E e \in Efforts : SetEffort(e)
  \/ \E n \in Presets : SetMaxTokens(n)
  \/ \E status \in {401, 403, 500} : Refused(status)
  \/ StreamOpens \/ StreamEnds \/ Saved \/ SaveFails \/ Reopen
  \/ \E text \in {"none", "whole", "cut"} : Event(text)
  \/ \E text \in {"whole", "cut"} : Breaks(text) \/ Stop(text)

Spec == Init /\ [][Next]_vars
-----------------------------------------------------------------------------
(* No request carries an answer that failed, as long as the page knows: an  *)
(* answer read back from the server has lost the mark (lines 907-912,       *)
(* chat-history 135-146).  Nothing is sent without content, and what        *)
(* Continue continues goes with it.  Every message shows something, but a   *)
(* message that is a video only and an answer whose reasoning is hidden; an *)
(* error the page knows of is in a box and offers nothing of an answer.     *)
TurnsHold ==
  /\ \A m \in request.sent : (m.failed => m.read) /\ BuildContent(m) # {}
  /\ \A i \in DOMAIN dialogue :
       LET m == dialogue[i]
       IN /\ OffersContinue(i) => Carried(m)
          /\ Shown(i) = {} => \/ m.files = {"video"}
                              \/ m.reasoning /\ ~thinking
          /\ m.failed /\ ~m.read => "error" \in Shown(i) /\ Buttons(i) = {}
=============================================================================
