----------------------------- MODULE Composer -----------------------------
(***************************************************************************)
(* The composer of the chat page, pages/Chat3.tsx: model menu, tools, the  *)
(* daily limit, and the question asked before a tool is used.  What send   *)
(* does from its first await on is in ChatPage; here a request is a record *)
(* of what it asks the server for.  Attachments, and settings that change  *)
(* no tool, are left out.                                                  *)
(*                                                                         *)
(* The question is not a modal dialog but an element laid over the page:   *)
(* the text area keeps the keyboard, so the user may type and press Enter  *)
(* behind it, and Tab reaches the buttons.                                 *)
(***************************************************************************)
EXTENDS Integers

CONSTANTS Text,                         \* what may be typed or suggested
          Chat, Image                   \* models: that write, that draw

NoText == "none"
\* Assumed where this module is instantiated, in DashboardPages.
TextAssumption == NoText \notin Text

VARIABLES input, pendingText, confirm,  \* confirm: the question shown
          model, models,                \* models: the menu has been loaded
          freeTier, exceeded,           \* answers of me() and of the limits
          imageGen, webSearch, askFirst,
          working,                      \* sendingRef and busy
          sent,                         \* the request of the turn, see Request
          moved                         \* history: something changed behind the
                                        \* question

tools == <<imageGen, webSearch, askFirst>>
vars == <<input, pendingText, confirm, model, models, freeTier, exceeded, tools,
          working, sent, moved>>

Model == {Chat, Image}
Question == [kind : {"image", "search"}, text : Text]
NoQuestion == [kind |-> "none", text |-> NoText]

\* asked: the question the user said yes to; ask: askFirst was on.
Request == [text : Text, image : BOOLEAN, search : BOOLEAN, ask : BOOLEAN,
            asked : Question \cup {NoQuestion}, moved : BOOLEAN]
Nothing == [text |-> NoText, image |-> FALSE, search |-> FALSE, ask |-> FALSE,
            asked |-> NoQuestion, moved |-> FALSE]

TypeOK ==
  /\ {input, pendingText} \subseteq Text \cup {NoText}
  /\ confirm \in Question \cup {NoQuestion}
  /\ model \in Model /\ sent \in Request \cup {Nothing}
  /\ {models, freeTier, exceeded, imageGen, webSearch, askFirst, working, moved}
       \subseteq BOOLEAN

Asking == confirm # NoQuestion

\* Whatever changes while the question is shown is noted.
Behind == moved' = (moved \/ Asking)
-----------------------------------------------------------------------------
(* What send makes of the state.                                            *)

\* A free account gets the free model instead; no free model draws.
RequestModel == IF freeTier THEN Chat ELSE model
DoImageGen == imageGen \/ RequestModel = Image

\* Mutant of Asks: only the button of the image tool counts.
AsksForButton == IF imageGen THEN "image" ELSE IF webSearch THEN "search" ELSE "none"

\* The question of send; with both tools on it is the one about the image.
Asks == IF DoImageGen THEN "image" ELSE IF webSearch THEN "search" ELSE "none"

\* send up to its first await.  override is textOverride.
Submit(override, skipConfirm) ==
  LET text == IF override # NoText THEN override ELSE input
  IN /\ ~working /\ ~exceeded /\ text # NoText
     /\ IF askFirst /\ ~skipConfirm /\ Asks # "none"
        THEN /\ confirm' = [kind |-> Asks, text |-> text]
             /\ pendingText' = override
             /\ moved' = FALSE
             /\ UNCHANGED <<input, working, sent>>
        ELSE /\ sent' = [text |-> text, image |-> DoImageGen, search |-> webSearch,
                         ask |-> askFirst,
                         asked |-> IF skipConfirm THEN confirm ELSE NoQuestion,
                         moved |-> moved]
             /\ working' = TRUE
             /\ input' = NoText
             /\ confirm' = IF skipConfirm THEN NoQuestion ELSE confirm
             /\ pendingText' = IF skipConfirm THEN NoText ELSE pendingText
             /\ moved' = (moved /\ ~skipConfirm)
  /\ UNCHANGED <<model, models, freeTier, exceeded, tools>>
-----------------------------------------------------------------------------
Init ==
  /\ input = NoText /\ pendingText = NoText /\ confirm = NoQuestion
  /\ model = Chat /\ models = FALSE
  /\ freeTier = FALSE /\ exceeded = FALSE
  /\ imageGen = FALSE /\ webSearch = FALSE /\ askFirst = TRUE
  /\ working = FALSE /\ sent = Nothing /\ moved = FALSE

\* The text area is disabled once the limit is known to be exceeded.
Type(t) ==
  /\ ~exceeded /\ t # input
  /\ input' = t /\ Behind
  /\ UNCHANGED <<pendingText, confirm, model, models, freeTier, exceeded, tools,
                 working, sent>>

\* Enter in the text area, also behind the question; and the Send button.
Enter == Submit(NoText, FALSE)

\* The suggestions of an empty chat.
Suggestion(t) == ~Asking /\ Submit(t, FALSE)

\* "ยืนยัน ทำเลย": the question is closed and send called without asking; the
\* call may come to nothing.
Confirm ==
  /\ Asking
  /\ \/ Submit(pendingText, TRUE)
     \/ /\ working \/ exceeded \/ (pendingText = NoText /\ input = NoText)
        /\ confirm' = NoQuestion /\ pendingText' = NoText /\ moved' = FALSE
        /\ UNCHANGED <<input, model, models, freeTier, exceeded, tools, working,
                       sent>>

\* The other two buttons, and a click beside the question.
Cancel ==
  /\ Asking
  /\ confirm' = NoQuestion /\ pendingText' = NoText /\ moved' = FALSE
  /\ UNCHANGED <<input, model, models, freeTier, exceeded, tools, working, sent>>

\* The toggles of the composer.
Toggle ==
  /\ \/ imageGen' = ~imageGen /\ UNCHANGED <<webSearch, askFirst>>
     \/ webSearch' = ~webSearch /\ UNCHANGED <<imageGen, askFirst>>
     \/ askFirst' = ~askFirst /\ UNCHANGED <<imageGen, webSearch>>
  /\ Behind
  /\ UNCHANGED <<input, pendingText, confirm, model, models, freeTier, exceeded,
                 working, sent>>

\* The menu of models.
ChooseModel(m) ==
  /\ models /\ m # model
  /\ model' = m /\ Behind
  /\ UNCHANGED <<input, pendingText, confirm, models, freeTier, exceeded, tools,
                 working, sent>>

\* Another chat is opened: the effect of the id clears the text, but the
\* question stays.
ChangeRoute ==
  /\ input' = NoText /\ working' = FALSE /\ sent' = Nothing /\ Behind
  /\ UNCHANGED <<pendingText, confirm, model, models, freeTier, exceeded, tools>>

TurnEnds ==
  /\ working /\ working' = FALSE /\ sent' = Nothing /\ Behind
  /\ UNCHANGED <<input, pendingText, confirm, model, models, freeTier, exceeded,
                 tools>>
-----------------------------------------------------------------------------
(* Answers that arrive by themselves.                                       *)

\* The models offered: a model that is not among them gives way to the free
\* one.
ModelsArrive ==
  /\ ~models /\ models' = TRUE
  /\ UNCHANGED <<input, pendingText, confirm, model, freeTier, exceeded, tools,
                 working, sent, moved>>

\* me(): whether the account is on the free tier, asked once.
TierArrives ==
  /\ ~freeTier /\ freeTier' = TRUE /\ Behind
  /\ UNCHANGED <<input, pendingText, confirm, model, models, exceeded, tools,
                 working, sent>>

\* The limits, when the page opens, after every turn and every five minutes.
LimitsArrive ==
  /\ exceeded' = ~exceeded /\ Behind
  /\ UNCHANGED <<input, pendingText, confirm, model, models, freeTier, tools,
                 working, sent>>

Next ==
  \/ \E t \in Text : Suggestion(t)
  \/ \E t \in Text \cup {NoText} : Type(t)
  \/ Enter \/ Confirm \/ Cancel \/ Toggle \/ ChangeRoute \/ TurnEnds
  \/ \E m \in Model : ChooseModel(m)
  \/ ModelsArrive \/ TierArrives \/ LimitsArrive

Spec == Init /\ [][Next]_vars
-----------------------------------------------------------------------------
(* With "ask first" on, a request that uses a tool went through a question, *)
(* one, and if nothing changed behind it the question was about the text    *)
(* that is sent and about the image when one is drawn, by the button or by  *)
(* the model, else about the search (lines 856-870, 1699-1725).  With both  *)
(* tools on nothing asks about the search; and whatever changed behind the  *)
(* question is sent as it then is.                                          *)
QuestionFirst ==
  sent.ask /\ (sent.image \/ sent.search) =>
    /\ sent.asked \in Question
    /\ ~sent.moved => /\ sent.asked.text = sent.text
                      /\ sent.asked.kind = IF sent.image THEN "image" ELSE "search"
=============================================================================
