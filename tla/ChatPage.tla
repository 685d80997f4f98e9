------------------------------ MODULE ChatPage ------------------------------
(***************************************************************************)
(* The chat page of the dashboard: pages/Chat3.tsx with the conversation   *)
(* context of lib/chat-history.tsx and the sidebar of components/Layout.   *)
(* One page in one tab; the server keeps conversations as sequences of     *)
(* messages.                                                               *)
(*                                                                         *)
(* Every await of the page is a point where the user may do something else *)
(* (open another chat, start a new one, delete one, scroll back, compact). *)
(* An asynchronous operation keeps what its closure captured and asks      *)
(* current() before it touches the page; `cur` is what current() returns:  *)
(* operationRef is only compared, and every change of it makes the         *)
(* operations under way stale.                                             *)
(*                                                                         *)
(* An event handler or a continuation is one step together with the render *)
(* it causes and the effects of that render.  The effect of line 594 sets  *)
(* activeId to the id of the route, so after every step the two agree:     *)
(* `open` is both.  A value that activeId takes only in between still runs *)
(* the effect that clears and reloads the messages.                        *)
(***************************************************************************)
EXTENDS Integers, FiniteSets, SequencesExt

CONSTANTS Conv,      \* conversation ids, used and not yet used
          Archive,   \* Archive[c]: messages stored at the start, <<>> if none
          Turn,      \* the turns the user may send
          NoConv,    \* /chat without an id
          PageSize,  \* limit: 30
          MaxRequests  \* bound: requests under way at once, turns aside

ASSUME ConvAssumption == IsFiniteSet(Conv) /\ NoConv \notin Conv
ASSUME TurnAssumption == Turn \subseteq Nat
ASSUME PageAssumption == {PageSize, MaxRequests} \subseteq Nat \ {0}

User(t) == <<t, "user">>
Assistant(t) == <<t, "assistant">>
Exchange(t) == <<User(t), Assistant(t)>>

\* No message has come twice.
NoneTwice(s) == Cardinality(ToSet(s)) = Len(s)

\* What is stored at the start was sent before, and each message once.
ASSUME ArchiveAssumption ==
  /\ Archive \in [Conv -> Seq((Nat \ Turn) \X {"user", "assistant"})]
  /\ \A c \in Conv : NoneTwice(Archive[c])

VARIABLES store,    \* store[c]: the messages of c at the server; see Unused
          open,     \* the id of the route, and activeId
          msgs,     \* messages
          loaded,   \* historyLoaded
          hasMore,
          oldest,   \* oldestPos, 0 for null
          sending,  \* sendingRef
          paging,   \* pagingRef and loadingMore
          busy,
          compacting,
          context,  \* contextRef: what it stands for, see NoContext
          turn,     \* turn[t]: the call of send for t
          loads,    \* requests of the load effect
          pages,    \* calls of loadMore
          summary,  \* calls of compactChat by its button
          deletion, \* calls of confirmDelete
          picking,  \* calls of addFiles
          pending,  \* routes under which the pending files were picked
          raced,    \* history: the view lost track of the archive, see below
          lost      \* history: an answer to createConversation was lost

view == <<msgs, loaded, hasMore, oldest, loads>>
flags == <<sending, paging, busy, compacting>>
files == <<picking, pending>>
vars == <<store, open, view, flags, context, turn, pages, summary, deletion,
          files, raced, lost>>

Route == Conv \cup {NoConv}
Unused == <<<<0, "unused">>>>    \* the server has not given the id yet
Gone == <<<<0, "gone">>>>        \* it was deleted: an id is not given again
Stored(c) == c \in Conv /\ store[c] \notin {Unused, Gone}
NoContext == {<<0, "none">>}

\* "told": the append failed and the page says so; "silent": the create
\* failed; "over": the turn was stored, or given up before that.
Phase == {"unsent", "compact", "stream", "save", "told", "silent", "over"}
Idle == [phase |-> "unsent", conv |-> NoConv, base |-> <<>>, history |-> {},
         cur |-> FALSE]

CurrentTurns == {t \in Turn : turn[t].cur}
Shown(t) == turn[t].cur /\ turn[t].phase \in {"stream", "save"}

MayRequest == Cardinality(loads) + Cardinality(pages) + Cardinality(summary)
                + Cardinality(deletion) + Cardinality(picking) < MaxRequests

\* The delete dialog is modal: while it waits, only the browser's Back and
\* Forward and what is under way reach the page.
Usable == deletion = {}

Init ==
  /\ store = [c \in Conv |-> IF Archive[c] = <<>> THEN Unused ELSE Archive[c]]
  /\ open = NoConv
  /\ msgs = <<>> /\ loaded = TRUE /\ hasMore = TRUE /\ oldest = 0 /\ loads = {}
  /\ sending = FALSE /\ paging = FALSE /\ busy = FALSE /\ compacting = FALSE
  /\ context = NoContext
  /\ turn = [t \in Turn |-> Idle]
  /\ pages = {} /\ summary = {} /\ deletion = {} /\ picking = {}
  /\ pending = {}
  /\ raced = FALSE /\ lost = FALSE
-----------------------------------------------------------------------------
(* Renders and their effects.                                               *)

\* operationRef.current += 1
StaleTurns(ts) ==
  [t \in Turn |-> [ts[t] EXCEPT !.cur = FALSE, !.history = {}]]
StaleCalls(calls) == {[k EXCEPT !.cur = FALSE] : k \in calls}

\* The load effect after activeId has become, or gone through, c: its cleanup
\* cancels the request under way.
Load(c) ==
  /\ msgs' = <<>> /\ hasMore' = TRUE /\ oldest' = 0
  /\ loaded' = (c = NoConv)
  /\ loads' = {[l EXCEPT !.live = FALSE] : l \in loads}
                \cup (IF c = NoConv THEN {} ELSE {[conv |-> c, live |-> TRUE]})

\* activeId goes through another value and comes back.
Reload ==
  /\ Load(open)
  /\ raced' = (raced \/ (\E t \in Turn : Shown(t)) \/ \E p \in pages : p.cur)

\* Mutant of KeptContext: the effect of the id forgets contextRef.
KeptContextStale == context

\* The effect of the id resets contextRef.
KeptContext == NoContext

\* The route changes: the effect of the id stops and resets everything.
Enter(c) ==
  /\ open' = c
  /\ Load(c)
  /\ sending' = FALSE /\ paging' = FALSE /\ busy' = FALSE /\ compacting' = FALSE
  /\ context' = KeptContext
  /\ pages' = StaleCalls(pages) /\ summary' = StaleCalls(summary)
  /\ pending' = {}
  /\ raced' = FALSE
-----------------------------------------------------------------------------
(* Navigation.                                                              *)

\* selectConv, the sidebar's New Chat, or the browser's Back and Forward.  On
\* /chat itself the sidebar's New Chat changes nothing.
Goto(c) ==
  /\ c # open /\ (c = NoConv \/ Stored(c))
  /\ MayRequest
  /\ Enter(c)
  /\ turn' = StaleTurns(turn)
  /\ UNCHANGED <<store, deletion, picking, lost>>

\* clearChat where the route stays /chat.
ClearNewChat ==
  /\ open = NoConv /\ Usable
  /\ sending' = FALSE /\ busy' = FALSE /\ compacting' = FALSE
  /\ context' = NoContext /\ pending' = {}
  /\ msgs' = <<>> /\ loaded' = TRUE
  /\ turn' = StaleTurns(turn)
  /\ pages' = StaleCalls(pages) /\ summary' = StaleCalls(summary)
  /\ UNCHANGED <<store, open, hasMore, oldest, loads, paging, deletion, picking,
                 raced, lost>>

\* New chat: elsewhere it navigates to /chat.
ClearChat == Goto(NoConv) \/ ClearNewChat
-----------------------------------------------------------------------------
(* The archive: the load effect and loadMore.                               *)

\* GET /conversations/:id: the last PageSize messages before a position.
Before(c, pos) == LET last == pos - 1
                      first == IF last < PageSize THEN 1 ELSE last - PageSize + 1
                  IN  [messages |-> SubSeq(store[c], first, last), oldest |-> first]

\* if (cancelled) return
Wanted(l) == l.live

LoadReply(l) ==
  /\ l \in loads
  /\ loads' = loads \ {l}
  /\ IF Stored(l.conv) /\ Wanted(l)
     THEN LET page == Before(l.conv, Len(store[l.conv]) + 1) IN
          /\ msgs' = page.messages
          /\ oldest' = page.oldest /\ hasMore' = (page.oldest > 1)
          /\ loaded' = TRUE
     ELSE UNCHANGED <<msgs, oldest, hasMore, loaded>>
  /\ UNCHANGED <<store, open, flags, context, turn, pages, summary, deletion,
                 files, raced, lost>>

\* The request fails: the page says so and stays unloaded.
LoadFails(l) ==
  /\ l \in loads
  /\ loads' = loads \ {l}
  /\ loaded' = IF l.live THEN FALSE ELSE loaded
  /\ UNCHANGED <<store, open, msgs, hasMore, oldest, flags, context, turn,
                 pages, summary, deletion, files, raced, lost>>

\* What the page shows in its middle.
Body == IF ~loaded THEN "loading" ELSE IF msgs = <<>> THEN "empty" ELSE "list"

\* The observer of line 676, whose sentinel is at the top of the list, and the
\* guard of loadMore.
MayPage ==
  /\ open # NoConv /\ Body = "list" /\ hasMore /\ oldest > 0
  /\ ~paging /\ ~busy

LoadMore ==
  /\ MayPage
  /\ MayRequest
  /\ pages' = pages \cup {[conv |-> open, before |-> oldest, cur |-> TRUE]}
  /\ paging' = TRUE
  /\ UNCHANGED <<store, open, view, sending, busy, compacting, context, turn,
                 summary, deletion, files, raced, lost>>

\* Mutant of Merges: only the route is compared, not operationRef.
MergesByRoute(p) == p.conv = open

\* routeRef.current === route and operation === operationRef.current
Merges(p) == p.cur

\* An answer, or a failure: the finally block only looks at operationRef.
PageReply(p) ==
  /\ p \in pages
  /\ pages' = pages \ {p}
  /\ paging' = IF p.cur THEN FALSE ELSE paging
  /\ \/ UNCHANGED <<msgs, oldest, hasMore>>
     \/ /\ Stored(p.conv) /\ Merges(p)
        /\ LET page == Before(p.conv, p.before) IN
           /\ msgs' = page.messages \o msgs  \* never empty: there are more
           /\ oldest' = page.oldest /\ hasMore' = (page.oldest > 1)
  /\ UNCHANGED <<store, open, loaded, loads, sending, busy, compacting, context,
                 turn, summary, deletion, files, raced, lost>>
-----------------------------------------------------------------------------
(* A turn: send, and handleContinue which calls it.                         *)

\* The guard of send, with the send button, the suggestions and Continue; a
\* file being read blocks it.  The daily limit, the login and the dialog that
\* asks before a tool is used only decide whether send is called again.
\* Mutant of MaySend: pagingRef is not looked at.
MaySendWhilePaging == ~sending /\ ~compacting /\ picking = {} /\ loaded

MaySend == ~sending /\ ~paging /\ ~compacting /\ picking = {} /\ loaded

\* Mutant of History: contextRef without its fallback.
HistoryNull == context

\* requestHistory: contextRef.current ?? messages
History == IF context = NoContext THEN ToSet(msgs) ELSE context

\* The turn appears at the end of the list; the draft and its files are gone.
Display(t) == msgs' = msgs \o Exchange(t) /\ pending' = {}

\* How a turn starts: near the context limit, of which the page has a rough
\* estimate, with a compaction.
Starts == IF Cardinality(History) >= 3 /\ Len(msgs) >= 3
          THEN {"compact", "stream"} ELSE {"stream"}

Send(t) ==
  /\ turn[t].phase = "unsent" /\ MaySend /\ Usable
  /\ \A s \in Turn : s < t => turn[s].phase # "unsent"  \* numbered in order
  /\ sending' = TRUE /\ busy' = TRUE
  /\ \E p \in Starts :
       /\ turn' = [StaleTurns(turn) EXCEPT ![t] =
                     [phase |-> p, conv |-> open, cur |-> TRUE,
                      base |-> IF open = NoConv THEN msgs ELSE <<>>,
                      history |-> IF p = "compact" THEN History ELSE {}]]
       /\ compacting' = (p = "compact")
       /\ IF p = "stream" THEN Display(t) ELSE UNCHANGED <<msgs, pending>>
  /\ pages' = StaleCalls(pages) /\ summary' = StaleCalls(summary)
  /\ UNCHANGED <<store, open, loaded, hasMore, oldest, loads, paging, context,
                 deletion, picking, raced, lost>>

\* Mutant of Finish: sendingRef is not reset.
FinishStillSending(t) ==
  IF turn[t].cur THEN busy' = FALSE /\ UNCHANGED sending
  ELSE UNCHANGED <<sending, busy>>

\* The last lines of send's finally block.
Finish(t) ==
  IF turn[t].cur THEN sending' = FALSE /\ busy' = FALSE
  ELSE UNCHANGED <<sending, busy>>

End(t, phase) ==
  turn' = [turn EXCEPT ![t] = [Idle EXCEPT !.phase = phase,
             !.conv = IF phase = "over" THEN NoConv ELSE turn[t].conv]]

\* The compaction that began the turn ends: the turn goes on with the summary
\* as its history, or is given up (failed, stopped, or no longer current).
TurnCompacted(t) ==
  /\ turn[t].phase = "compact"
  /\ compacting' = IF turn[t].cur THEN FALSE ELSE compacting
  /\ \/ /\ turn[t].cur
        /\ context' = turn[t].history
        /\ turn' = [turn EXCEPT ![t].phase = "stream", ![t].history = {}]
        /\ Display(t)
        /\ raced' = (raced \/ ~loaded)
        /\ UNCHANGED <<sending, busy>>
     \/ /\ End(t, "over") /\ Finish(t)
        /\ UNCHANGED <<context, msgs, pending, raced>>
  /\ UNCHANGED <<store, open, loaded, hasMore, oldest, loads, paging, pages,
                 summary, deletion, picking, lost>>

\* current()
Current(t) == turn[t].cur

\* publish: the last message of the list becomes the answer so far.
Published(t) == SubSeq(msgs, 1, Len(msgs) - 1) \o <<Assistant(t)>>

Publish(t) ==
  /\ turn[t].phase = "stream" /\ Current(t)
  /\ msgs' = Published(t)
  /\ UNCHANGED <<store, open, loaded, hasMore, oldest, loads, flags, context,
                 turn, pages, summary, deletion, files, raced, lost>>

\* The stream ends: with an answer, an error, a timeout or the Stop button.
\* A turn that is still current is published and goes to be saved; one that
\* was left is dropped.
StreamEnds(t) ==
  /\ turn[t].phase = "stream"
  /\ IF Current(t)
     THEN /\ turn' = [turn EXCEPT ![t].phase = "save"]
          /\ msgs' = Published(t)
          /\ context' = IF context = NoContext THEN NoContext
                        ELSE context \cup ToSet(Exchange(t))
     ELSE End(t, "over") /\ UNCHANGED <<msgs, context>>
  /\ UNCHANGED <<store, open, loaded, hasMore, oldest, loads, flags, pages,
                 summary, deletion, files, raced, lost>>

\* appendMessages: a turn of a stored conversation is appended; the two last
\* messages of the list get their ids.
AppendTurn(t) ==
  /\ turn[t].phase = "save" /\ turn[t].conv # NoConv
  /\ End(t, "over")
  /\ Stored(turn[t].conv)
  /\ store' = [store EXCEPT ![turn[t].conv] = @ \o Exchange(t)]
  /\ msgs' = IF turn[t].cur
             THEN SubSeq(msgs, 1, Len(msgs) - 2) \o Exchange(t) ELSE msgs
  /\ raced' = (raced \/ (~turn[t].cur /\ open = turn[t].conv))
  /\ Finish(t)
  /\ UNCHANGED <<open, loaded, hasMore, oldest, loads, paging, compacting,
                 context, pages, summary, deletion, files, lost>>

\* Mutant of AfterFailure: the failure is swallowed.
AfterFailureSilent == "over"

\* "Could not save this response. Copy it before leaving this chat."
AfterFailure == "told"

\* The append fails, or its answer is lost after the server has stored it.
AppendFails(t) ==
  /\ turn[t].phase = "save" /\ turn[t].conv # NoConv
  /\ End(t, AfterFailure)
  /\ \/ UNCHANGED <<store, raced>>
     \/ /\ Stored(turn[t].conv)
        /\ store' = [store EXCEPT ![turn[t].conv] = @ \o Exchange(t)]
        /\ raced' = (raced \/ (~turn[t].cur /\ open = turn[t].conv))
  /\ Finish(t)
  /\ UNCHANGED <<open, view, paging, compacting, context, pages, summary,
                 deletion, files, lost>>

\* Mutant of Transcript: the list that is shown by now, not the captured one.
TranscriptShown(t) == msgs \o Exchange(t)

\* What is sent: the list that send captured, and the turn.
Transcript(t) == turn[t].base \o Exchange(t)

\* save creates a conversation, with a new id.  Its setActiveId runs even when
\* the turn was left; navigate only when current.
Create(t, c) ==
  /\ turn[t].phase = "save" /\ turn[t].conv = NoConv
  /\ c \in Conv /\ store[c] = Unused
  /\ MayRequest
  /\ store' = [store EXCEPT ![c] = Transcript(t)]
  /\ IF turn[t].cur
     THEN /\ Enter(c)
          /\ turn' = [StaleTurns(turn) EXCEPT
                        ![t] = [Idle EXCEPT !.phase = "over"]]
     ELSE /\ Reload /\ End(t, "over")
          /\ UNCHANGED <<open, flags, context, pages, summary, pending>>
  /\ UNCHANGED <<deletion, picking, lost>>

\* The create fails, or its answer is lost: save returns null and nobody
\* hears of it.
CreateFails(t) ==
  /\ turn[t].phase = "save" /\ turn[t].conv = NoConv
  /\ End(t, "silent")
  /\ \/ UNCHANGED <<store, lost>>
     \/ \E c \in Conv : /\ store[c] = Unused
                       /\ store' = [store EXCEPT ![c] = Transcript(t)]
                       /\ lost' = TRUE
  /\ Finish(t)
  /\ UNCHANGED <<open, view, paging, compacting, context, pages, summary,
                 deletion, files, raced>>
-----------------------------------------------------------------------------
(* What the list shows under its i-th message: the loader of an answer under *)
(* way, and Continue under an answer that was cut off.                      *)

IsLastAnswer(i) == i = Len(msgs) /\ msgs[i][2] = "assistant"

Generating(i) == IsLastAnswer(i) /\ busy
OffersContinue(i) == IsLastAnswer(i) /\ ~busy /\ ~compacting
-----------------------------------------------------------------------------
(* Compaction by its button.                                                *)

Compact ==
  /\ ~sending /\ ~paging /\ ~compacting /\ ~busy /\ loaded /\ Len(msgs) >= 3
  /\ summary = {} /\ MayRequest /\ Usable
  /\ sending' = TRUE /\ compacting' = TRUE
  /\ summary' = {[history |-> History, cur |-> TRUE]}
  /\ UNCHANGED <<store, open, view, paging, busy, context, turn, pages,
                 deletion, files, raced, lost>>

CompactReply(k) ==
  /\ k \in summary
  /\ summary' = {}
  /\ \/ k.cur /\ context' = k.history
     \/ UNCHANGED context
  /\ IF k.cur THEN compacting' = FALSE /\ sending' = FALSE
     ELSE UNCHANGED <<compacting, sending>>
  /\ UNCHANGED <<store, open, view, paging, busy, turn, pages, deletion, files,
                 raced, lost>>
-----------------------------------------------------------------------------
(* Deleting a conversation: Layout's dialog and remove.                     *)

\* The open conversation: activeId becomes null and comes back at once.
ConfirmDelete(c) ==
  /\ Stored(c) /\ Usable /\ MayRequest
  /\ deletion' = {[conv |-> c, wasActive |-> c = open]}
  /\ IF c = open THEN Reload ELSE UNCHANGED <<view, raced>>
  /\ UNCHANGED <<store, open, flags, context, turn, pages, summary, files, lost>>

\* It is deleted; the page leaves for /chat if it was open at the start.
Deleted(d) ==
  /\ d \in deletion /\ deletion' = {}
  /\ store' = [store EXCEPT ![d.conv] = Gone]
  /\ IF d.wasActive /\ open # NoConv
     THEN Enter(NoConv) /\ turn' = StaleTurns(turn)
     ELSE /\ raced' = (raced \/ open = d.conv)
          /\ UNCHANGED <<open, view, flags, context, turn, pages, summary, pending>>
  /\ UNCHANGED <<picking, lost>>

\* It is not: activeId is set back to it, which shows when another one is open.
DeleteFails(d) ==
  /\ d \in deletion /\ deletion' = {}
  /\ IF d.wasActive /\ open # d.conv /\ MayRequest
     THEN Reload ELSE UNCHANGED <<view, raced>>
  /\ UNCHANGED <<store, open, flags, context, turn, pages, summary, files, lost>>
-----------------------------------------------------------------------------
(* Attachments: addFiles.                                                   *)

\* The attach button, files dropped on the composer, and files pasted.
MayPick == picking = {} /\ ~sending

PickFiles ==
  /\ MayPick /\ MayRequest /\ Usable
  /\ pending = {}  \* bound: one batch of files at a time
  /\ picking' = {open}
  /\ UNCHANGED <<store, open, view, flags, context, turn, pages, summary,
                 deletion, pending, raced, lost>>

\* Mutant of SameRoute: the route is not compared after the files are read.
SameRouteUnchecked(r) == TRUE

\* routeRef.current === route
SameRoute(r) == r = open

\* processFile: a file is read, or it is too large, unsupported or broken.
Processed(r) == {{r}, {}}

FilesRead(r) ==
  /\ r \in picking /\ picking' = {}
  /\ \E added \in Processed(r) :
       pending' = IF SameRoute(r) THEN pending \cup added ELSE pending
  /\ UNCHANGED <<store, open, view, flags, context, turn, pages, summary,
                 deletion, raced, lost>>

\* removeAttachment, the cross of a preview.
RemoveFiles ==
  /\ pending # {} /\ pending' = {} /\ Usable
  /\ UNCHANGED <<store, open, view, flags, context, turn, pages, summary,
                 deletion, picking, raced, lost>>
-----------------------------------------------------------------------------
Next ==
  \/ \E c \in Conv : Goto(c)
  \/ ClearChat \/ LoadMore \/ Compact \/ PickFiles \/ RemoveFiles
  \/ \E l \in loads : LoadReply(l) \/ LoadFails(l)
  \/ \E p \in pages : PageReply(p)
  \/ \E t \in Turn :
       \/ Send(t) \/ TurnCompacted(t) \/ Publish(t) \/ StreamEnds(t)
       \/ AppendTurn(t) \/ AppendFails(t) \/ CreateFails(t)
       \/ \E c \in Conv : Create(t, c)
  \/ \E k \in summary : CompactReply(k)
  \/ \E c \in Conv : ConfirmDelete(c)
  \/ \E d \in deletion : Deleted(d) \/ DeleteFails(d)
  \/ \E r \in picking : FilesRead(r)

\* The server answers, or the connection fails, and the deadline of a stream
\* ends it (in the build where an abort reaches the stream, see EdgeCall).
\* Nothing makes the user act.
Saved(t) == \/ AppendTurn(t) \/ AppendFails(t) \/ CreateFails(t)
            \/ \E c \in Conv : Create(t, c)

Continues(t) == TurnCompacted(t) \/ StreamEnds(t) \/ Saved(t)

Fairness ==
  /\ WF_vars(\E t \in Turn : turn[t].cur /\ Continues(t))
  /\ WF_vars(\E k \in summary : CompactReply(k))
  /\ WF_vars(\E p \in pages : p.cur /\ PageReply(p))

Spec == Init /\ [][Next]_vars
FairSpec == Spec /\ Fairness
-----------------------------------------------------------------------------
(* Properties.                                                              *)

Messages == (UNION {ToSet(Archive[c]) : c \in Conv})
              \cup {<<t, w>> : t \in Turn, w \in {"user", "assistant"}}

TypeOK ==
  /\ \A c \in Conv : store[c] \in {Unused, Gone} \/ ToSet(store[c]) \subseteq Messages
  /\ open \in Route
  /\ ToSet(msgs) \subseteq Messages
  /\ {loaded, hasMore, sending, paging, busy, compacting, raced, lost} \subseteq BOOLEAN
  /\ oldest \in Nat
  /\ context = NoContext \/ context \subseteq Messages
  /\ \A t \in Turn : turn[t].phase \in Phase /\ turn[t].conv \in Route
  /\ \A l \in loads : l.conv \in Conv /\ l.live \in BOOLEAN
  /\ \A p \in pages : p.conv \in Conv /\ p.before \in Nat /\ p.cur \in BOOLEAN
  /\ \A k \in summary : k.history \subseteq Messages /\ k.cur \in BOOLEAN
  /\ \A d \in deletion : d.conv \in Conv /\ d.wasActive \in BOOLEAN
  /\ picking \subseteq Route /\ pending \subseteq Route

\* The flags that block the page agree with what is under way: none stays set
\* when the operation behind it was left, and none is cleared by another.  The
\* loader is under the answer being generated (or, while the turn compacts,
\* under the one before it), and Continue is not offered while it is ignored.
FlagsMatchWork ==
  /\ busy = (CurrentTurns # {})
  /\ sending = (busy \/ \E k \in summary : k.cur)
  /\ compacting = \/ \E t \in CurrentTurns : turn[t].phase = "compact"
                  \/ \E k \in summary : k.cur
  /\ paging = (\E p \in pages : p.cur)
  /\ \A i \in DOMAIN msgs :
       /\ OffersContinue(i) => ~sending
       /\ Generating(i) /\ ~raced =>
            \E t \in CurrentTurns :
              turn[t].phase = "compact" \/ msgs[i] = Assistant(t)

\* The messages of s that t has are, in their order, the end of t.
EndsWith(t, s) ==
  LET known    == {i \in DOMAIN s : s[i] \in ToSet(t)}
      after(i) == Cardinality({j \in known : j > i})
  IN  \A i \in known : after(i) < Len(t) /\ s[i] = t[Len(t) - after(i)]

\* What the page shows of the open conversation is the end of its archive,
\* without gaps, repetitions or another conversation's messages, and what
\* else it shows are turns of this page in it.  `raced` names the steps after
\* which this is not so until the conversation is opened again.
ViewFollowsArchive ==
  Body # "loading" /\ ~raced =>
    LET archive == IF Stored(open) THEN store[open] ELSE <<>>
        known(m) == m \in ToSet(archive)
    IN  /\ open = NoConv \/ EndsWith(archive, msgs)
        /\ \A m \in ToSet(msgs) : known(m) \/ \E t \in Turn :
             m \in ToSet(Exchange(t)) /\ (Stored(open) => turn[t].conv = open)

\* A turn is stored once, unless the answer to a create was lost: then the
\* next turn of the same list creates it again.
StoredOnce ==
  ~lost =>
    /\ \A c \in Conv : NoneTwice(store[c])
    /\ \A t \in Turn :
      Cardinality({c \in Conv : Stored(c) /\ User(t) \in ToSet(store[c])}) <= 1

\* A turn that the page shows as part of a stored conversation is under way,
\* is in its archive, or is one the page could not save: a failed append,
\* of which it tells, or an earlier failed create, of which it does not.
SavedOrTold ==
  Stored(open) /\ ~raced =>
    \A t \in Turn :
      ToSet(Exchange(t)) \cap ToSet(msgs) # {} =>
        \/ turn[t].cur \/ turn[t].phase \in {"told", "silent"}
        \/ ToSet(Exchange(t)) \subseteq ToSet(store[open])

\* A compacted history stands for messages of the conversation it is sent in:
\* its archive, what the page shows of it, and turns that were sent in it.
ContextBelongs ==
  context # NoContext /\ ~raced =>
    \A m \in context :
      \/ m \in ToSet(msgs)
      \/ Stored(open) /\ m \in ToSet(store[open])
      \/ \E t \in Turn : turn[t].conv = open /\ m \in ToSet(Exchange(t))

\* Files wait for the chat they were picked in.
FilesBelong == pending \subseteq {open}

\* A turn, a compaction or a page of the archive does not block the page for
\* good.
PageComesToRest == (sending ~> ~sending) /\ (paging ~> ~paging)
=============================================================================
