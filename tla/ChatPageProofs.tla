--------------------------- MODULE ChatPageProofs ---------------------------
(***************************************************************************)
(* Theorems of ChatPage, for any conversations, archives and turns.        *)
(***************************************************************************)
EXTENDS ChatPage, DataLemmas, FunctionTheorems

-----------------------------------------------------------------------------
(* Lists of messages.                                                       *)

\* The elements of a list.
LEMMA Elements ==
  ASSUME NEW S, NEW s \in Seq(S)
  PROVE  /\ Len(s) \in Nat /\ DOMAIN s = 1..Len(s)
         /\ ToSet(s) = {s[i] : i \in 1..Len(s)}
         /\ ToSet(s) \subseteq S
  BY DEF ToSet

\* A list put after another.
LEMMA Joined ==
  ASSUME NEW S, NEW s \in Seq(S), NEW t \in Seq(S)
  PROVE  /\ s \o t \in Seq(S)
         /\ Len(s \o t) = Len(s) + Len(t)
         /\ \A i \in 1..Len(s) : (s \o t)[i] = s[i]
         /\ \A i \in 1..Len(t) : (s \o t)[Len(s) + i] = t[i]
         /\ ToSet(s \o t) = ToSet(s) \cup ToSet(t)
<1>1. /\ s \o t \in Seq(S) /\ Len(s \o t) = Len(s) + Len(t)
      /\ \A i \in 1..Len(s) + Len(t) :
           (s \o t)[i] = IF i <= Len(s) THEN s[i] ELSE t[i - Len(s)]
  BY ConcatProperties
<1>2. PICK u \in Seq(S) : u = s \o t
  BY <1>1
<1>3. /\ Len(s) \in Nat /\ Len(t) \in Nat
  OBVIOUS
<1>4. \A i \in 1..Len(s) : u[i] = s[i]
  BY <1>1, <1>2, <1>3
<1>5. \A i \in 1..Len(t) : u[Len(s) + i] = t[i]
  <2>1. TAKE i \in 1..Len(t)
  <2>2. Len(s) + i \in 1..Len(s) + Len(t) /\ ~(Len(s) + i <= Len(s)) /\ Len(s) + i - Len(s) = i
    BY <1>3
  <2> QED BY <1>1, <1>2, <2>2
<1>6. ToSet(u) \subseteq ToSet(s) \cup ToSet(t)
  <2>1. SUFFICES ASSUME NEW i \in 1..Len(u) PROVE u[i] \in ToSet(s) \cup ToSet(t)
    BY Elements
  <2>2. i \in 1..Len(s) + Len(t)
    BY <1>1, <1>2
  <2>3. CASE i <= Len(s)
    BY <2>2, <2>3, <1>3, <1>4, Elements
  <2>4. CASE ~(i <= Len(s))
    <3>1. i - Len(s) \in 1..Len(t) /\ u[i] = t[i - Len(s)]
      BY <2>2, <2>4, <1>1, <1>2, <1>3
    <3> QED BY <3>1, Elements
  <2> QED BY <2>3, <2>4
<1>7. ToSet(s) \subseteq ToSet(u)
  <2>1. \A i \in 1..Len(s) : i \in 1..Len(u) /\ u[i] = s[i]
    BY <1>1, <1>2, <1>3, <1>4
  <2> QED BY <2>1, Elements
<1>8. ToSet(t) \subseteq ToSet(u)
  <2>1. \A i \in 1..Len(t) : Len(s) + i \in 1..Len(u) /\ u[Len(s) + i] = t[i]
    BY <1>1, <1>2, <1>3, <1>5
  <2>2. \A i \in 1..Len(t) : t[i] \in ToSet(u)
    BY <2>1, Elements
  <2> QED BY <2>2, Elements
<1> QED BY <1>1, <1>2, <1>4, <1>5, <1>6, <1>7, <1>8

\* A part of a list.
LEMMA Cut ==
  ASSUME NEW S, NEW s \in Seq(S), NEW a \in Nat \ {0}, NEW b \in Int, b <= Len(s)
  PROVE  /\ SubSeq(s, a, b) \in Seq(S)
         /\ Len(SubSeq(s, a, b)) = IF a <= b THEN b - a + 1 ELSE 0
         /\ \A i \in 1..(b - a + 1) : SubSeq(s, a, b)[i] = s[a + i - 1]
         /\ ToSet(SubSeq(s, a, b)) \subseteq ToSet(s)
<1>1. \A i \in a..b : i \in 1..Len(s) /\ s[i] \in S
  OBVIOUS
<1>2. /\ SubSeq(s, a, b) \in Seq(S)
      /\ Len(SubSeq(s, a, b)) = IF a <= b THEN b - a + 1 ELSE 0
      /\ \A i \in 1..(b - a + 1) : SubSeq(s, a, b)[i] = s[a + i - 1]
  BY <1>1, SubSeqProperties
<1>3. PICK u \in Seq(S) : u = SubSeq(s, a, b)
  BY <1>2
<1>4. \A i \in 1..Len(u) : i \in 1..(b - a + 1) /\ a + i - 1 \in 1..Len(s)
  BY <1>2, <1>3
<1>5. \A i \in 1..Len(u) : u[i] \in ToSet(s)
  BY <1>2, <1>3, <1>4, Elements
<1>6. ToSet(u) = {u[i] : i \in 1..Len(u)}
  BY Elements
<1>7. ToSet(u) \subseteq ToSet(s)
  BY <1>5, <1>6
<1>8. ToSet(SubSeq(s, a, b)) \subseteq ToSet(s)
  BY <1>3, <1>7, Zenon
<1> QED BY <1>2, <1>8

\* The two messages of a turn.
LEMMA OfATurn ==
  ASSUME NEW t \in Turn
  PROVE  /\ User(t) \in Messages /\ Assistant(t) \in Messages
         /\ User(t)[1] = t /\ Assistant(t)[1] = t /\ User(t) # Assistant(t)
         /\ Exchange(t) \in Seq(Messages) /\ Len(Exchange(t)) = 2
         /\ Exchange(t)[1] = User(t) /\ Exchange(t)[2] = Assistant(t)
         /\ ToSet(Exchange(t)) = {User(t), Assistant(t)}
<1>1. User(t) \in Messages /\ Assistant(t) \in Messages
  BY DEF User, Assistant, Messages
<1>2. PICK x \in Messages, y \in Messages : x = User(t) /\ y = Assistant(t)
  BY <1>1
<1>3. <<x, y>> \in Seq(Messages) /\ Len(<<x, y>>) = 2 /\ <<x, y>>[1] = x /\ <<x, y>>[2] = y
  OBVIOUS
<1>4. Exchange(t) = <<x, y>>
  BY <1>2 DEF Exchange
<1>5. PICK e \in Seq(Messages) : e = <<x, y>>
  BY <1>3
<1>6. Len(e) = 2 /\ e[1] = x /\ e[2] = y
  BY <1>3, <1>5
<1>7. ToSet(e) = {x, y}
  <2>1. ToSet(e) = {e[i] : i \in 1..2}
    BY <1>6, Elements
  <2> QED BY <1>6, <2>1
<1>8. User(t)[1] = t /\ Assistant(t)[1] = t /\ User(t) # Assistant(t)
  BY DEF User, Assistant
<1> QED BY <1>1, <1>2, <1>3, <1>4, <1>5, <1>7, <1>8

\* Messages are pairs, those of the turns their user's and their assistant's.
LEMMA MessageShape ==
  ASSUME NEW m \in Messages, m[1] \in Turn
  PROVE  m = User(m[1]) \/ m = Assistant(m[1])
<1>1. ASSUME NEW c \in Conv, m \in ToSet(Archive[c]) PROVE FALSE
  <2>1. Archive[c] \in Seq((Nat \ Turn) \X {"user", "assistant"})
    BY ArchiveAssumption
  <2>2. m \in (Nat \ Turn) \X {"user", "assistant"}
    BY <1>1, <2>1, Elements
  <2> QED BY <2>2
<1>2. m \in {<<t, w>> : t \in Turn, w \in {"user", "assistant"}}
  BY <1>1 DEF Messages
<1> QED BY <1>2 DEF User, Assistant
-----------------------------------------------------------------------------
(* The state of the page.                                                   *)

TurnState == [phase : Phase, conv : Route, base : Seq(Messages),
              history : SUBSET Messages, cur : BOOLEAN]
LoadCall == [conv : Conv, live : BOOLEAN]
PageCall == [conv : Conv, before : Nat, cur : BOOLEAN]
SummaryCall == [history : SUBSET Messages, cur : BOOLEAN]
Deletion == [conv : Conv, wasActive : BOOLEAN]

\* The lists in full, and everything an operation has captured.
TypeInv ==
  /\ store \in [Conv -> Seq(Messages) \cup {Unused, Gone}]
  /\ open \in Route /\ msgs \in Seq(Messages) /\ oldest \in Nat
  /\ loaded \in BOOLEAN /\ hasMore \in BOOLEAN
  /\ sending \in BOOLEAN /\ paging \in BOOLEAN /\ busy \in BOOLEAN
  /\ compacting \in BOOLEAN /\ raced \in BOOLEAN /\ lost \in BOOLEAN
  /\ context = NoContext \/ context \in SUBSET Messages
  /\ turn \in [Turn -> TurnState]
  /\ loads \subseteq LoadCall /\ pages \subseteq PageCall
  /\ summary \subseteq SummaryCall /\ deletion \subseteq Deletion
  /\ picking \subseteq Route /\ pending \subseteq Route

\* A page is asked for before a message that is there, of a conversation that
\* has been there.
Room ==
  /\ \A p \in pages : /\ p.before > 0 /\ store[p.conv] # Unused
                      /\ Stored(p.conv) => p.before <= Len(store[p.conv]) + 1
  /\ open \in Conv => store[open] # Unused
  /\ Stored(open) => oldest <= Len(store[open]) + 1

Active == {"compact", "stream", "save"}
Ended == {"told", "silent", "over"}

\* One turn at most is current, and it is one of the open conversation.
OneTurn ==
  /\ \A s, t \in Turn : turn[s].cur /\ turn[t].cur => s = t
  /\ \A t \in Turn : turn[t].cur => turn[t].phase \in Active /\ turn[t].conv = open

\* So are the compaction, the page and the answer of the load effect that the
\* page waits for; while it waits for the last it shows no list.
OneCall ==
  /\ \A k, l \in summary : k = l
  /\ \A p, q \in pages : p.cur /\ q.cur => p = q
  /\ \A p \in pages : p.cur => p.conv = open
  /\ \A l \in loads : l.live => l.conv = open /\ ~loaded

\* The flags that block the page.
FlagsAgree ==
  /\ busy = (\E t \in Turn : turn[t].cur)
  /\ sending = (busy \/ \E k \in summary : k.cur)
  /\ compacting = \/ \E t \in Turn : turn[t].cur /\ turn[t].phase = "compact"
                  \/ \E k \in summary : k.cur
  /\ paging = (\E p \in pages : p.cur)
  /\ busy => ~paging /\ \A k \in summary : ~k.cur

Work == OneTurn /\ OneCall /\ FlagsAgree

\* The turn under way is the last the list shows.
AtEnd(t) == /\ loaded /\ Len(msgs) >= 2
            /\ msgs[Len(msgs) - 1] = User(t) /\ msgs[Len(msgs)] = Assistant(t)
Displayed == ~raced => \A t \in Turn : Shown(t) => AtEnd(t)

\* Where the messages of the turns are: in an archive, those of turns that
\* ended; in what a new chat's turn will store, those of creates that failed;
\* in the list, those of turns that ended and of the current one.
StoredPlaced ==
  \A c \in Conv : Stored(c) => \A m \in ToSet(store[c]) : m[1] \in Turn =>
    /\ turn[m[1]].phase \in Ended
    /\ turn[m[1]].phase = "over" =>
         User(m[1]) \in ToSet(store[c]) /\ Assistant(m[1]) \in ToSet(store[c])

BasePlaced ==
  \A s \in Turn : \A m \in ToSet(turn[s].base) :
    /\ m[1] \in Turn /\ turn[m[1]].phase = "silent"
    /\ turn[s].phase \in Active /\ turn[s].conv = NoConv

ListPlaced ==
  \A m \in ToSet(msgs) : m[1] \in Turn =>
    /\ turn[m[1]].phase \notin {"unsent", "compact"}
    /\ turn[m[1]].phase \in {"stream", "save"} => turn[m[1]].cur

NewChatPlaced ==
  open = NoConv =>
    /\ \A m \in ToSet(msgs) :
         m[1] \in Turn /\ turn[m[1]].phase \in {"stream", "save", "silent"}
    /\ \A t \in Turn : Shown(t) => msgs = <<>> \/ msgs[Len(msgs)] = Assistant(t)

Placed == StoredPlaced /\ BasePlaced /\ ListPlaced /\ NewChatPlaced

\* No message is twice in a list, nor in two places from which it may be
\* stored.
Once(s) == \A i, j \in 1..Len(s) : s[i] = s[j] => i = j

StoredApart ==
  /\ \A c \in Conv : Stored(c) => Once(store[c])
  /\ \A c, d \in Conv : Stored(c) /\ Stored(d) /\ c # d =>
       \A m \in ToSet(store[c]) \cap ToSet(store[d]) : m[1] \notin Turn

BaseApart ==
  /\ \A s \in Turn : Once(turn[s].base)
  /\ \A s, t \in Turn : s # t => ToSet(turn[s].base) \cap ToSet(turn[t].base) = {}
  /\ \A c \in Conv, s \in Turn :
       Stored(c) => ToSet(store[c]) \cap ToSet(turn[s].base) = {}

NewChatApart ==
  open = NoConv =>
    /\ Once(msgs)
    /\ \A c \in Conv : Stored(c) => ToSet(store[c]) \cap ToSet(msgs) = {}
    /\ \A s \in Turn : ~turn[s].cur => ToSet(turn[s].base) \cap ToSet(msgs) = {}

Apart == ~lost => StoredApart /\ BaseApart /\ NewChatApart

\* A turn, as its parts.
LEMMA TurnIs ==
  ASSUME turn \in [Turn -> TurnState], NEW t \in Turn
  PROVE  /\ turn[t] = [phase |-> turn[t].phase, conv |-> turn[t].conv,
                       base |-> turn[t].base, history |-> turn[t].history,
                       cur |-> turn[t].cur]
         /\ turn[t].phase \in Phase /\ turn[t].conv \in Route
         /\ turn[t].base \in Seq(Messages) /\ turn[t].history \in SUBSET Messages
         /\ turn[t].cur \in BOOLEAN
<1>1. turn[t] \in TurnState
  OBVIOUS
<1> QED BY <1>1 DEF TurnState

\* After operationRef has moved on.
LEMMA StaleTurnsAre ==
  ASSUME turn \in [Turn -> TurnState]
  PROVE  /\ StaleTurns(turn) \in [Turn -> TurnState]
         /\ \A t \in Turn :
              /\ StaleTurns(turn)[t].phase = turn[t].phase
              /\ StaleTurns(turn)[t].conv = turn[t].conv
              /\ StaleTurns(turn)[t].base = turn[t].base
              /\ StaleTurns(turn)[t].history = {}
              /\ ~StaleTurns(turn)[t].cur
<1>1. ASSUME NEW t \in Turn
      PROVE  /\ StaleTurns(turn)[t] \in TurnState
             /\ StaleTurns(turn)[t].phase = turn[t].phase
             /\ StaleTurns(turn)[t].conv = turn[t].conv
             /\ StaleTurns(turn)[t].base = turn[t].base
             /\ StaleTurns(turn)[t].history = {}
             /\ ~StaleTurns(turn)[t].cur
  <2>1. PICK r : r = turn[t]
    OBVIOUS
  <2>2. PICK g : g = [r EXCEPT !.cur = FALSE, !.history = {}]
    OBVIOUS
  <2>3. StaleTurns(turn)[t] = g
    BY <2>1, <2>2 DEF StaleTurns
  <2>4. /\ r = [phase |-> r.phase, conv |-> r.conv, base |-> r.base,
                history |-> r.history, cur |-> r.cur]
        /\ r.phase \in Phase /\ r.conv \in Route /\ r.base \in Seq(Messages)
    BY <2>1, TurnIs
  <2>5. /\ g.cur = FALSE /\ g.history = {} /\ g.phase = r.phase /\ g.conv = r.conv
        /\ g.base = r.base
    BY <2>2, <2>4
  <2>6. g = [phase |-> g.phase, conv |-> g.conv, base |-> g.base,
             history |-> g.history, cur |-> g.cur]
    BY <2>2, <2>4
  <2>7. g \in TurnState
    BY <2>4, <2>5, <2>6 DEF TurnState
  <2> QED BY <2>1, <2>3, <2>5, <2>7
<1>3. DOMAIN StaleTurns(turn) = Turn /\ StaleTurns(turn) = [t \in Turn |-> StaleTurns(turn)[t]]
  BY DEF StaleTurns
<1> QED BY <1>1, <1>3

\* The pages under way once the operation is no longer current.
LEMMA StalePagesAre ==
  ASSUME pages \subseteq PageCall
  PROVE  /\ StaleCalls(pages) \subseteq PageCall
         /\ \A p \in StaleCalls(pages) :
              ~p.cur /\ \E q \in pages : p.conv = q.conv /\ p.before = q.before
<1>1. SUFFICES ASSUME NEW q \in pages, NEW p, p = [q EXCEPT !.cur = FALSE]
      PROVE  p \in PageCall /\ ~p.cur /\ p.conv = q.conv /\ p.before = q.before
  BY DEF StaleCalls
<1>2. q = [conv |-> q.conv, before |-> q.before, cur |-> q.cur] /\ q.conv \in Conv /\ q.before \in Nat
  BY DEF PageCall
<1>3. p = [conv |-> q.conv, before |-> q.before, cur |-> FALSE]
  BY <1>1, <1>2
<1> QED BY <1>2, <1>3 DEF PageCall

\* The compactions under way, likewise.
LEMMA StaleSummaryIs ==
  ASSUME summary \subseteq SummaryCall
  PROVE  /\ StaleCalls(summary) \subseteq SummaryCall
         /\ \A k \in StaleCalls(summary) :
              ~k.cur /\ \E l \in summary : k = [l EXCEPT !.cur = FALSE]
<1>1. SUFFICES ASSUME NEW l \in summary, NEW k, k = [l EXCEPT !.cur = FALSE]
      PROVE  k \in SummaryCall /\ ~k.cur
  BY DEF StaleCalls
<1>2. l = [history |-> l.history, cur |-> l.cur] /\ l.history \in SUBSET Messages
  BY DEF SummaryCall
<1>3. k = [history |-> l.history, cur |-> FALSE]
  BY <1>1, <1>2
<1> QED BY <1>2, <1>3 DEF SummaryCall

\* The load effect.
LEMMA LoadDoes ==
  ASSUME loads \subseteq LoadCall, NEW c \in Route, Load(c)
  PROVE  /\ msgs' = <<>> /\ hasMore' = TRUE /\ oldest' = 0 /\ loaded' = (c = NoConv)
         /\ loads' \subseteq LoadCall
         /\ \A l \in loads' : l.live => l.conv = c /\ c # NoConv
<1>1. ASSUME NEW k \in loads, NEW l, l = [k EXCEPT !.live = FALSE]
      PROVE  l \in LoadCall /\ ~l.live
  <2>1. k = [conv |-> k.conv, live |-> k.live] /\ k.conv \in Conv
    BY DEF LoadCall
  <2>2. l = [conv |-> k.conv, live |-> FALSE]
    BY <1>1, <2>1
  <2> QED BY <2>1, <2>2 DEF LoadCall
<1>2. ASSUME NEW l \in loads'
      PROVE  (l \in LoadCall /\ ~l.live) \/ (c # NoConv /\ l = [conv |-> c, live |-> TRUE])
  <2>1. l \in {[k EXCEPT !.live = FALSE] : k \in loads}
          \/ (c # NoConv /\ l = [conv |-> c, live |-> TRUE])
    BY <1>2 DEF Load
  <2> QED BY <1>1, <2>1
<1>3. c # NoConv => [conv |-> c, live |-> TRUE] \in LoadCall /\ [conv |-> c, live |-> TRUE].conv = c
  BY DEF Route, LoadCall
<1>4. loads' \subseteq LoadCall /\ \A l \in loads' : l.live => l.conv = c /\ c # NoConv
  BY <1>2, <1>3
<1> QED BY <1>4 DEF Load

\* A turn ends.
LEMMA EndDoes ==
  ASSUME turn \in [Turn -> TurnState], NEW t \in Turn,
         NEW ph \in {"told", "silent", "over"}, End(t, ph)
  PROVE  /\ turn' \in [Turn -> TurnState]
         /\ \A s \in Turn : s # t => turn'[s] = turn[s]
         /\ turn'[t].phase = ph /\ turn'[t].base = <<>> /\ turn'[t].history = {}
         /\ ~turn'[t].cur
         /\ turn'[t].conv = IF ph = "over" THEN NoConv ELSE turn[t].conv
<1> DEFINE cv == IF ph = "over" THEN NoConv ELSE turn[t].conv
           new == [phase |-> ph, conv |-> cv, base |-> <<>>, history |-> {}, cur |-> FALSE]
<1>1. [Idle EXCEPT !.phase = ph, !.conv = cv] = new
  <2>1. PICK r : r = Idle
    OBVIOUS
  <2>2. /\ r = [phase |-> r.phase, conv |-> r.conv, base |-> r.base,
                history |-> r.history, cur |-> r.cur]
        /\ r.base = <<>> /\ r.history = {} /\ r.cur = FALSE
    BY <2>1 DEF Idle
  <2>3. PICK g : g = [r EXCEPT !.phase = ph, !.conv = cv]
    OBVIOUS
  <2>4. /\ g.cur = r.cur /\ g.history = r.history /\ g.phase = ph /\ g.conv = cv
        /\ g.base = r.base
    BY <2>2, <2>3
  <2>5. g = [phase |-> g.phase, conv |-> g.conv, base |-> g.base,
             history |-> g.history, cur |-> g.cur]
    BY <2>2, <2>3
  <2> QED BY <2>1, <2>2, <2>3, <2>4, <2>5
<1>2. turn' = [turn EXCEPT ![t] = new]
  BY <1>1 DEF End
<1>3. cv \in Route /\ ph \in Phase
  BY TurnIs DEF Route, Phase
<1>4. <<>> \in Seq(Messages)
  OBVIOUS
<1>5. new \in TurnState
  BY <1>3, <1>4 DEF TurnState
<1>6. new.phase = ph /\ new.conv = cv /\ new.base = <<>> /\ new.history = {} /\ ~new.cur
  OBVIOUS
<1> HIDE DEF new
<1>7. turn' \in [Turn -> TurnState] /\ turn'[t] = new /\ \A s \in Turn : s # t => turn'[s] = turn[s]
  BY <1>2, <1>5
<1> QED BY <1>6, <1>7
-----------------------------------------------------------------------------
(* What the steps do to the lists.                                          *)

\* A page of the archive.
LEMMA BeforeIs ==
  ASSUME TypeInv, NEW c, Stored(c), NEW pos \in Nat \ {0}, pos <= Len(store[c]) + 1
  PROVE  /\ store[c] \in Seq(Messages)
         /\ Before(c, pos).messages \in Seq(Messages)
         /\ ToSet(Before(c, pos).messages) \subseteq ToSet(store[c])
         /\ Before(c, pos).oldest \in Nat \ {0} /\ Before(c, pos).oldest <= pos
         /\ Len(Before(c, pos).messages) = pos - Before(c, pos).oldest
         /\ \A i \in 1..(pos - Before(c, pos).oldest) :
              Before(c, pos).messages[i] = store[c][Before(c, pos).oldest + i - 1]
         /\ Before(c, pos).oldest = 1
              \/ Before(c, pos).oldest = pos - PageSize
<1> DEFINE last == pos - 1
           first == IF last < PageSize THEN 1 ELSE last - PageSize + 1
<1>1. store[c] \in Seq(Messages)
  BY DEF TypeInv, Stored
<1>2. PICK s \in Seq(Messages) : s = store[c]
  BY <1>1
<1>3. PageSize \in Nat \ {0}
  BY PageAssumption
<1>4. /\ first \in Nat \ {0} /\ last \in Int /\ last <= Len(s) /\ first <= pos
      /\ first = 1 \/ first = pos - PageSize
      /\ first <= last \/ (first = pos /\ last = pos - 1)
  BY <1>2, <1>3
<1>5. Before(c, pos) = [messages |-> SubSeq(s, first, last), oldest |-> first]
  BY <1>2 DEF Before
<1> HIDE DEF first, last
<1>6. Before(c, pos).messages = SubSeq(s, first, last) /\ Before(c, pos).oldest = first
  <2>1. PICK u : u = SubSeq(s, first, last)
    OBVIOUS
  <2>2. Before(c, pos) = [messages |-> u, oldest |-> first]
    BY <1>5, <2>1, Zenon
  <2>3. Before(c, pos).messages = u /\ Before(c, pos).oldest = first
    BY <2>2, SMT
  <2> QED BY <2>1, <2>3, Zenon
<1> USE DEF last
<1>7. /\ SubSeq(s, first, last) \in Seq(Messages)
      /\ Len(SubSeq(s, first, last)) = IF first <= last THEN last - first + 1 ELSE 0
      /\ \A i \in 1..(last - first + 1) : SubSeq(s, first, last)[i] = s[first + i - 1]
      /\ ToSet(SubSeq(s, first, last)) \subseteq ToSet(s)
  BY <1>4, Cut
<1>8. last - first + 1 = pos - first
  BY <1>4
<1>9. Len(SubSeq(s, first, last)) = pos - first
  BY <1>4, <1>7
<1> HIDE DEF last
<1>10. \A i \in 1..(pos - first) : SubSeq(s, first, last)[i] = s[first + i - 1]
  BY <1>7, <1>8
<1> QED BY <1>1, <1>2, <1>4, <1>6, <1>7, <1>9, <1>10

\* The list with a new last message.
LEMMA PublishedIs ==
  ASSUME msgs \in Seq(Messages), NEW t \in Turn
  PROVE  /\ Published(t) \in Seq(Messages)
         /\ ToSet(Published(t)) \subseteq ToSet(msgs) \cup {Assistant(t)}
         /\ Len(Published(t)) = IF msgs = <<>> THEN 1 ELSE Len(msgs)
         /\ Published(t)[Len(Published(t))] = Assistant(t)
         /\ Len(msgs) > 0 /\ msgs[Len(msgs)] = Assistant(t) => Published(t) = msgs
<1>1. PICK a \in Messages : a = Assistant(t)
  BY OfATurn
<1>2. <<a>> \in Seq(Messages) /\ Len(<<a>>) = 1 /\ <<a>>[1] = a
  OBVIOUS
<1>3. PICK e \in Seq(Messages) : e = <<a>>
  BY <1>2
<1>4. Len(e) = 1 /\ e[1] = a
  BY <1>2, <1>3
<1>5. ToSet(e) = {e[i] : i \in 1..Len(e)}
  BY Elements
<1>6. ToSet(e) = {a}
  BY <1>4, <1>5
<1>7. Len(msgs) \in Nat /\ Len(msgs) - 1 \in Int /\ Len(msgs) - 1 <= Len(msgs)
  OBVIOUS
<1>8. PICK s : s = SubSeq(msgs, 1, Len(msgs) - 1)
  OBVIOUS
<1>9. /\ s \in Seq(Messages)
      /\ Len(s) = IF 1 <= Len(msgs) - 1 THEN Len(msgs) - 1 - 1 + 1 ELSE 0
      /\ \A i \in 1..(Len(msgs) - 1 - 1 + 1) : s[i] = msgs[1 + i - 1]
      /\ ToSet(s) \subseteq ToSet(msgs)
  BY <1>7, <1>8, Cut
<1>10. Published(t) = s \o e
  BY <1>1, <1>3, <1>8 DEF Published
<1>11. PICK p : p = s \o e
  OBVIOUS
<1>12. /\ p \in Seq(Messages) /\ Len(p) = Len(s) + Len(e)
       /\ \A i \in 1..Len(s) : p[i] = s[i]
       /\ \A i \in 1..Len(e) : p[Len(s) + i] = e[i]
       /\ ToSet(p) = ToSet(s) \cup ToSet(e)
  <2>0. s \in Seq(Messages)
    BY <1>9
  <2>1. /\ s \o e \in Seq(Messages) /\ Len(s \o e) = Len(s) + Len(e)
        /\ \A i \in 1..Len(s) : (s \o e)[i] = s[i]
        /\ \A i \in 1..Len(e) : (s \o e)[Len(s) + i] = e[i]
        /\ ToSet(s \o e) = ToSet(s) \cup ToSet(e)
    BY <2>0, Joined
  <2> QED BY <2>1, <1>11, Zenon
<1>13. Len(p) = IF msgs = <<>> THEN 1 ELSE Len(msgs)
  BY <1>4, <1>7, <1>9, <1>12
<1>14. p[Len(p)] = a
  BY <1>4, <1>7, <1>9, <1>12
<1>15. ASSUME Len(msgs) > 0, msgs[Len(msgs)] = a PROVE p = msgs
  <2>1. Len(p) = Len(msgs) /\ Len(s) = Len(msgs) - 1
    BY <1>7, <1>9, <1>12, <1>4, <1>15
  <2>2. ASSUME NEW i \in 1..Len(msgs) PROVE p[i] = msgs[i]
    <3>1. CASE i = Len(msgs)
      BY <3>1, <2>1, <1>14, <1>15
    <3>2. CASE i # Len(msgs)
      <4>1. i \in 1..Len(s) /\ i \in 1..(Len(msgs) - 1 - 1 + 1) /\ 1 + i - 1 = i
        BY <3>2, <2>1, <1>7
      <4> QED BY <4>1, <1>9, <1>12
    <3> QED BY <3>1, <3>2
  <2> QED BY <2>1, <2>2, <1>12, SeqEqual
<1>16. ToSet(p) \subseteq ToSet(msgs) \cup {a}
  BY <1>6, <1>9, <1>12
<1> QED BY <1>1, <1>10, <1>11, <1>12, <1>13, <1>14, <1>15, <1>16

\* The list with a turn at its end.
LEMMA DisplayedIs ==
  ASSUME msgs \in Seq(Messages), NEW t \in Turn
  PROVE  /\ msgs \o Exchange(t) \in Seq(Messages)
         /\ Len(msgs \o Exchange(t)) = Len(msgs) + 2
         /\ \A i \in 1..Len(msgs) : (msgs \o Exchange(t))[i] = msgs[i]
         /\ (msgs \o Exchange(t))[Len(msgs) + 1] = User(t)
         /\ (msgs \o Exchange(t))[Len(msgs) + 2] = Assistant(t)
         /\ ToSet(msgs \o Exchange(t)) = ToSet(msgs) \cup {User(t), Assistant(t)}
<1>1. PICK e \in Seq(Messages) : /\ e = Exchange(t) /\ Len(e) = 2
                                 /\ e[1] = User(t) /\ e[2] = Assistant(t)
                                 /\ ToSet(e) = {User(t), Assistant(t)}
  BY OfATurn
<1>2. PICK p : p = msgs \o e
  OBVIOUS
<1>3. /\ p \in Seq(Messages) /\ Len(p) = Len(msgs) + Len(e)
      /\ \A i \in 1..Len(msgs) : p[i] = msgs[i]
      /\ \A i \in 1..Len(e) : p[Len(msgs) + i] = e[i]
      /\ ToSet(p) = ToSet(msgs) \cup ToSet(e)
  BY <1>2, Joined
<1>4. p[Len(msgs) + 1] = e[1] /\ p[Len(msgs) + 2] = e[2]
  BY <1>1, <1>3
<1> QED BY <1>1, <1>2, <1>3, <1>4

\* The list in which the two last messages have got their ids.
LEMMA AppendedIs ==
  ASSUME msgs \in Seq(Messages), NEW t \in Turn
  PROVE  /\ SubSeq(msgs, 1, Len(msgs) - 2) \o Exchange(t) \in Seq(Messages)
         /\ ToSet(SubSeq(msgs, 1, Len(msgs) - 2) \o Exchange(t))
              \subseteq ToSet(msgs) \cup {User(t), Assistant(t)}
         /\ /\ Len(msgs) >= 2 /\ msgs[Len(msgs) - 1] = User(t)
            /\ msgs[Len(msgs)] = Assistant(t)
            => SubSeq(msgs, 1, Len(msgs) - 2) \o Exchange(t) = msgs
<1>1. PICK e \in Seq(Messages) : /\ e = Exchange(t) /\ Len(e) = 2
                                 /\ e[1] = User(t) /\ e[2] = Assistant(t)
                                 /\ ToSet(e) = {User(t), Assistant(t)}
  BY OfATurn
<1>2. Len(msgs) \in Nat /\ Len(msgs) - 2 \in Int /\ Len(msgs) - 2 <= Len(msgs)
  OBVIOUS
<1>3. PICK s : s = SubSeq(msgs, 1, Len(msgs) - 2)
  OBVIOUS
<1>4. /\ s \in Seq(Messages)
      /\ Len(s) = IF 1 <= Len(msgs) - 2 THEN Len(msgs) - 2 - 1 + 1 ELSE 0
      /\ \A i \in 1..(Len(msgs) - 2 - 1 + 1) : s[i] = msgs[1 + i - 1]
      /\ ToSet(s) \subseteq ToSet(msgs)
  BY <1>2, <1>3, Cut
<1>5. PICK p : p = s \o e
  OBVIOUS
<1>6. /\ p \in Seq(Messages) /\ Len(p) = Len(s) + Len(e)
      /\ \A i \in 1..Len(s) : p[i] = s[i]
      /\ \A i \in 1..Len(e) : p[Len(s) + i] = e[i]
      /\ ToSet(p) = ToSet(s) \cup ToSet(e)
  <2>0. s \in Seq(Messages)
    BY <1>4
  <2>1. /\ s \o e \in Seq(Messages) /\ Len(s \o e) = Len(s) + Len(e)
        /\ \A i \in 1..Len(s) : (s \o e)[i] = s[i]
        /\ \A i \in 1..Len(e) : (s \o e)[Len(s) + i] = e[i]
        /\ ToSet(s \o e) = ToSet(s) \cup ToSet(e)
    BY <2>0, Joined
  <2> QED BY <2>1, <1>5, Zenon
<1>7. ASSUME Len(msgs) >= 2, msgs[Len(msgs) - 1] = User(t), msgs[Len(msgs)] = Assistant(t)
      PROVE  p = msgs
  <2>1. Len(p) = Len(msgs) /\ Len(s) = Len(msgs) - 2
    BY <1>1, <1>2, <1>4, <1>6, <1>7
  <2>2. ASSUME NEW i \in 1..Len(msgs) PROVE p[i] = msgs[i]
    <3>1. CASE i = Len(msgs)
      <4>1. i = Len(s) + 2
        BY <3>1, <2>1, <1>2
      <4> QED BY <4>1, <3>1, <1>1, <1>6, <1>7
    <3>2. CASE i = Len(msgs) - 1
      <4>1. i = Len(s) + 1
        BY <3>2, <2>1, <1>2
      <4> QED BY <4>1, <3>2, <1>1, <1>6, <1>7
    <3>3. CASE i # Len(msgs) /\ i # Len(msgs) - 1
      <4>1. i \in 1..Len(s) /\ i \in 1..(Len(msgs) - 2 - 1 + 1) /\ 1 + i - 1 = i
        BY <3>3, <2>1, <1>2
      <4> QED BY <4>1, <1>4, <1>6
    <3> QED BY <3>1, <3>2, <3>3
  <2> QED BY <2>1, <2>2, <1>6, SeqEqual
<1>8. ToSet(p) \subseteq ToSet(msgs) \cup {User(t), Assistant(t)}
  BY <1>1, <1>4, <1>6
<1> QED BY <1>1, <1>3, <1>5, <1>6, <1>7, <1>8

\* What a turn stores.
LEMMA TranscriptIs ==
  ASSUME turn \in [Turn -> TurnState], NEW t \in Turn
  PROVE  /\ Transcript(t) \in Seq(Messages)
         /\ ToSet(Transcript(t)) = ToSet(turn[t].base) \cup {User(t), Assistant(t)}
<1>1. PICK b \in Seq(Messages) : b = turn[t].base
  BY TurnIs
<1>2. PICK e \in Seq(Messages) : e = Exchange(t) /\ ToSet(e) = {User(t), Assistant(t)}
  BY OfATurn
<1>3. b \o e \in Seq(Messages) /\ ToSet(b \o e) = ToSet(b) \cup ToSet(e)
  BY Joined
<1> QED BY <1>1, <1>2, <1>3 DEF Transcript
-----------------------------------------------------------------------------
(* What the steps do to the state.                                          *)

\* The route changes.
LEMMA EnterDoes ==
  ASSUME TypeInv, NEW c \in Route, Enter(c)
  PROVE  /\ open' = c /\ msgs' = <<>> /\ hasMore' = TRUE /\ oldest' = 0
         /\ loaded' = (c = NoConv)
         /\ loads' \subseteq LoadCall
         /\ \A l \in loads' : l.live => l.conv = c /\ c # NoConv
         /\ sending' = FALSE /\ paging' = FALSE /\ busy' = FALSE /\ compacting' = FALSE
         /\ context' = NoContext /\ pending' = {} /\ raced' = FALSE
         /\ pages' \subseteq PageCall
         /\ \A p \in pages' : ~p.cur /\ \E q \in pages : p.conv = q.conv /\ p.before = q.before
         /\ summary' = StaleCalls(summary) /\ summary' \subseteq SummaryCall
         /\ \A k \in summary' : ~k.cur
<1>1. loads \subseteq LoadCall /\ pages \subseteq PageCall /\ summary \subseteq SummaryCall
  BY DEF TypeInv
<1>2. Load(c)
  BY DEF Enter
<1>3. /\ msgs' = <<>> /\ hasMore' = TRUE /\ oldest' = 0 /\ loaded' = (c = NoConv)
      /\ loads' \subseteq LoadCall
      /\ \A l \in loads' : l.live => l.conv = c /\ c # NoConv
  BY <1>1, <1>2, LoadDoes
<1>4. pages' = StaleCalls(pages) /\ summary' = StaleCalls(summary)
  BY DEF Enter
<1>5. /\ pages' \subseteq PageCall
      /\ \A p \in pages' : ~p.cur /\ \E q \in pages : p.conv = q.conv /\ p.before = q.before
  BY <1>1, <1>4, StalePagesAre
<1>6. summary' \subseteq SummaryCall /\ \A k \in summary' : ~k.cur
  BY <1>1, <1>4, StaleSummaryIs
<1>7. /\ open' = c /\ sending' = FALSE /\ paging' = FALSE /\ busy' = FALSE /\ compacting' = FALSE
      /\ context' = NoContext /\ pending' = {} /\ raced' = FALSE
  BY DEF Enter, KeptContext
<1> QED BY <1>3, <1>4, <1>5, <1>6, <1>7

\* activeId goes through another value.
LEMMA ReloadDoes ==
  ASSUME TypeInv, Reload
  PROVE  /\ msgs' = <<>> /\ hasMore' = TRUE /\ oldest' = 0
         /\ loaded' = (open = NoConv)
         /\ loads' \subseteq LoadCall
         /\ \A l \in loads' : l.live => l.conv = open /\ open # NoConv
         /\ raced' = (raced \/ (\E t \in Turn : Shown(t)) \/ \E p \in pages : p.cur)
<1>1. loads \subseteq LoadCall /\ open \in Route
  BY DEF TypeInv
<1>2. Load(open)
  BY DEF Reload
<1>3. /\ msgs' = <<>> /\ hasMore' = TRUE /\ oldest' = 0 /\ loaded' = (open = NoConv)
      /\ loads' \subseteq LoadCall
      /\ \A l \in loads' : l.live => l.conv = open /\ open # NoConv
  BY <1>1, <1>2, LoadDoes
<1>4. raced' = (raced \/ (\E t \in Turn : Shown(t)) \/ \E p \in pages : p.cur)
  BY DEF Reload
<1> QED BY <1>3, <1>4

\* What a compaction is asked to sum up is messages.
LEMMA HistoryIs ==
  ASSUME TypeInv
  PROVE  History \in SUBSET Messages
<1>1. ToSet(msgs) \subseteq Messages
  BY Elements DEF TypeInv
<1> QED BY <1>1 DEF History, TypeInv

\* A turn is sent: the others are left.
LEMMA SendDoes ==
  ASSUME TypeInv, NEW t \in Turn, Send(t)
  PROVE  /\ turn' \in [Turn -> TurnState]
         /\ \A s \in Turn : s # t =>
              /\ turn'[s].phase = turn[s].phase /\ turn'[s].conv = turn[s].conv
              /\ turn'[s].base = turn[s].base /\ ~turn'[s].cur
         /\ turn'[t].phase \in {"compact", "stream"} /\ turn'[t].conv = open
         /\ turn'[t].base = (IF open = NoConv THEN msgs ELSE <<>>) /\ turn'[t].cur
         /\ turn'[t].history \subseteq History
         /\ compacting' = (turn'[t].phase = "compact")
         /\ turn'[t].phase = "stream" => msgs' = msgs \o Exchange(t) /\ pending' = {}
         /\ turn'[t].phase = "compact" => msgs' = msgs /\ pending' = pending /\ msgs # <<>>
<1>1. PICK p \in Starts :
        /\ turn' = [StaleTurns(turn) EXCEPT ![t] =
                     [phase |-> p, conv |-> open, cur |-> TRUE,
                      base |-> IF open = NoConv THEN msgs ELSE <<>>,
                      history |-> IF p = "compact" THEN History ELSE {}]]
        /\ compacting' = (p = "compact")
        /\ IF p = "stream" THEN Display(t) ELSE UNCHANGED <<msgs, pending>>
  BY DEF Send
<1>2. p \in {"compact", "stream"} /\ (p = "compact" => msgs # <<>>)
  <2>1. msgs = <<>> => ~(Len(msgs) >= 3)
    OBVIOUS
  <2> QED BY <1>1, <2>1 DEF Starts
<1> DEFINE b == IF open = NoConv THEN msgs ELSE <<>>
           h == IF p = "compact" THEN History ELSE {}
<1>3. PICK n : n = [phase |-> p, conv |-> open, cur |-> TRUE, base |-> b, history |-> h]
  OBVIOUS
<1>4. b \in Seq(Messages) /\ h \in SUBSET Messages /\ h \subseteq History
  <2>1. <<>> \in Seq(Messages) /\ msgs \in Seq(Messages)
    BY DEF TypeInv
  <2> QED BY <2>1, HistoryIs
<1> HIDE DEF b, h
<1>5. open \in Route /\ p \in Phase
  BY <1>2 DEF TypeInv, Phase
<1>6. /\ n.phase = p /\ n.conv = open /\ n.cur = TRUE /\ n.base = b /\ n.history = h
      /\ n = [phase |-> p, conv |-> open, base |-> b, history |-> h, cur |-> TRUE]
  BY <1>3
<1>7. n \in TurnState
  BY <1>4, <1>5, <1>6 DEF TurnState
<1>8. PICK ts : ts = StaleTurns(turn)
  OBVIOUS
<1>9. turn \in [Turn -> TurnState]
  BY DEF TypeInv
<1>10. /\ ts \in [Turn -> TurnState]
       /\ \A s \in Turn : /\ ts[s].phase = turn[s].phase
                          /\ ts[s].conv = turn[s].conv
                          /\ ts[s].base = turn[s].base
                          /\ ~ts[s].cur
  BY <1>8, <1>9, StaleTurnsAre
<1>11. turn' = [ts EXCEPT ![t] = n]
  BY <1>1, <1>3, <1>8 DEF b, h
<1>12. turn' \in [Turn -> TurnState] /\ turn'[t] = n /\ \A s \in Turn : s # t => turn'[s] = ts[s]
  BY <1>7, <1>10, <1>11
<1>13. \A s \in Turn : s # t =>
         /\ turn'[s].phase = turn[s].phase /\ turn'[s].conv = turn[s].conv
         /\ turn'[s].base = turn[s].base /\ ~turn'[s].cur
  BY <1>10, <1>12
<1>14. /\ turn'[t].phase = p /\ turn'[t].conv = open /\ turn'[t].base = b
       /\ turn'[t].history = h /\ turn'[t].cur
  BY <1>6, <1>12
<1>15. /\ p = "stream" => msgs' = msgs \o Exchange(t) /\ pending' = {}
       /\ p = "compact" => msgs' = msgs /\ pending' = pending
  BY <1>1 DEF Display
<1> QED BY <1>1, <1>2, <1>4, <1>12, <1>13, <1>14, <1>15 DEF b

\* A turn that goes on after its compaction, or from its stream to be saved.
LEMMA GoesOn ==
  ASSUME turn \in [Turn -> TurnState], NEW t \in Turn, NEW ph \in {"stream", "save"},
         \/ turn' = [turn EXCEPT ![t].phase = ph, ![t].history = {}]
         \/ turn' = [turn EXCEPT ![t].phase = ph]
  PROVE  /\ turn' \in [Turn -> TurnState]
         /\ \A s \in Turn : s # t => turn'[s] = turn[s]
         /\ turn'[t].phase = ph /\ turn'[t].conv = turn[t].conv
         /\ turn'[t].base = turn[t].base /\ turn'[t].cur = turn[t].cur
<1>1. PICK r \in TurnState : r = turn[t]
  OBVIOUS
<1>2. /\ r = [phase |-> r.phase, conv |-> r.conv, base |-> r.base,
              history |-> r.history, cur |-> r.cur]
      /\ r.conv \in Route /\ r.base \in Seq(Messages) /\ r.history \in SUBSET Messages
      /\ r.cur \in BOOLEAN
  BY DEF TurnState
<1>3. CASE turn' = [turn EXCEPT ![t].phase = ph, ![t].history = {}]
  <2>1. PICK f : f = [r EXCEPT !.phase = ph]
    OBVIOUS
  <2>2. PICK g : g = [f EXCEPT !.history = {}]
    OBVIOUS
  <2>3. turn' = [turn EXCEPT ![t] = g]
    <3>1. turn' = [[turn EXCEPT ![t].phase = ph] EXCEPT ![t].history = {}]
      BY <1>3
    <3>2. [turn EXCEPT ![t].phase = ph] = [turn EXCEPT ![t] = f]
      BY <1>1, <2>1
    <3>3. PICK u : u = [turn EXCEPT ![t] = f]
      OBVIOUS
    <3>4. u[t] = f /\ DOMAIN u = Turn /\ turn' = [u EXCEPT ![t].history = {}]
      BY <3>1, <3>2, <3>3
    <3>5. turn' = [u EXCEPT ![t] = g]
      BY <3>4, <2>2
    <3> QED BY <3>3, <3>5
  <2>4. /\ f.phase = ph /\ f.conv = r.conv /\ f.base = r.base /\ f.cur = r.cur
        /\ f = [phase |-> f.phase, conv |-> f.conv, base |-> f.base,
                history |-> f.history, cur |-> f.cur]
    BY <1>2, <2>1
  <2>5. /\ g.phase = ph /\ g.conv = r.conv /\ g.base = r.base /\ g.cur = r.cur /\ g.history = {}
        /\ g = [phase |-> g.phase, conv |-> g.conv, base |-> g.base,
                history |-> g.history, cur |-> g.cur]
    BY <2>2, <2>4
  <2>6. g \in TurnState
    BY <1>2, <2>5 DEF TurnState, Phase
  <2>7. turn' \in [Turn -> TurnState] /\ turn'[t] = g /\ \A s \in Turn : s # t => turn'[s] = turn[s]
    BY <2>3, <2>6
  <2> QED BY <1>1, <2>5, <2>7
<1>4. CASE turn' = [turn EXCEPT ![t].phase = ph]
  <2>1. PICK g : g = [r EXCEPT !.phase = ph]
    OBVIOUS
  <2>2. turn' = [turn EXCEPT ![t] = g]
    BY <1>1, <1>4, <2>1
  <2>3. /\ g.phase = ph /\ g.conv = r.conv /\ g.base = r.base /\ g.cur = r.cur
        /\ g.history = r.history
        /\ g = [phase |-> g.phase, conv |-> g.conv, base |-> g.base,
                history |-> g.history, cur |-> g.cur]
    BY <1>2, <2>1
  <2>4. g \in TurnState
    BY <1>2, <2>3 DEF TurnState, Phase
  <2>5. turn' \in [Turn -> TurnState] /\ turn'[t] = g /\ \A s \in Turn : s # t => turn'[s] = turn[s]
    BY <2>2, <2>4
  <2> QED BY <1>1, <2>3, <2>5
<1> QED BY <1>3, <1>4

\* A turn whose create is answered: it ends, and all are left when the page
\* follows it.
LEMMA CreateDoes ==
  ASSUME TypeInv, NEW t \in Turn, NEW c \in Conv, Create(t, c)
  PROVE  /\ turn' \in [Turn -> TurnState]
         /\ \A s \in Turn : s # t =>
              /\ turn'[s].phase = turn[s].phase /\ turn'[s].conv = turn[s].conv
              /\ turn'[s].base = turn[s].base
              /\ IF turn[t].cur THEN ~turn'[s].cur ELSE turn'[s] = turn[s]
         /\ turn'[t].phase = "over" /\ turn'[t].conv = NoConv
         /\ turn'[t].base = <<>> /\ ~turn'[t].cur
         /\ store' = [store EXCEPT ![c] = Transcript(t)] /\ store[c] = Unused
         /\ IF turn[t].cur THEN Enter(c)
            ELSE /\ Reload
                 /\ UNCHANGED <<open, flags, context, pages, summary, pending>>
<1>1. turn \in [Turn -> TurnState]
  BY DEF TypeInv
<1>2. CASE turn[t].cur
  <2>1. PICK ts : ts = StaleTurns(turn)
    OBVIOUS
  <2>2. /\ ts \in [Turn -> TurnState]
        /\ \A s \in Turn : /\ ts[s].phase = turn[s].phase
                           /\ ts[s].conv = turn[s].conv
                           /\ ts[s].base = turn[s].base
                           /\ ~ts[s].cur
    BY <2>1, <1>1, StaleTurnsAre
  <2>3. turn' = [ts EXCEPT ![t] = [Idle EXCEPT !.phase = "over"]]
    BY <1>2, <2>1 DEF Create
  <2>4. PICK n : n = [Idle EXCEPT !.phase = "over"]
    OBVIOUS
  <2>5. PICK i : i = Idle
    OBVIOUS
  <2>6. /\ i = [phase |-> i.phase, conv |-> i.conv, base |-> i.base, history |-> i.history, cur |-> i.cur]
        /\ i.conv = NoConv /\ i.base = <<>> /\ i.history = {} /\ i.cur = FALSE
    BY <2>5 DEF Idle
  <2>7. /\ n.phase = "over" /\ n.conv = NoConv /\ n.base = <<>> /\ n.history = {} /\ n.cur = FALSE
        /\ n = [phase |-> n.phase, conv |-> n.conv, base |-> n.base, history |-> n.history, cur |-> n.cur]
    BY <2>4, <2>5, <2>6
  <2>8. <<>> \in Seq(Messages)
    OBVIOUS
  <2>9. n \in TurnState
    BY <2>7, <2>8 DEF TurnState, Phase, Route
  <2>10. turn' \in [Turn -> TurnState] /\ turn'[t] = n /\ \A s \in Turn : s # t => turn'[s] = ts[s]
    BY <2>2, <2>3, <2>4, <2>9
  <2>11. Enter(c) /\ store' = [store EXCEPT ![c] = Transcript(t)] /\ store[c] = Unused
    BY <1>2 DEF Create
  <2> QED BY <1>2, <2>2, <2>7, <2>10, <2>11
<1>3. CASE ~turn[t].cur
  <2>1. /\ Reload /\ End(t, "over")
        /\ UNCHANGED <<open, flags, context, pages, summary, pending>>
        /\ store' = [store EXCEPT ![c] = Transcript(t)] /\ store[c] = Unused
    BY <1>3 DEF Create
  <2>2. /\ turn' \in [Turn -> TurnState]
        /\ \A s \in Turn : s # t => turn'[s] = turn[s]
        /\ turn'[t].phase = "over" /\ turn'[t].base = <<>>
        /\ ~turn'[t].cur
        /\ turn'[t].conv = NoConv
    BY <1>1, <2>1, EndDoes
  <2> QED BY <1>3, <2>1, <2>2
<1> QED BY <1>2, <1>3

\* What the server holds after a step.
LEMMA StoreDoes ==
  ASSUME TypeInv, NEW c \in Conv,
         NEW s, s \in Seq(Messages) \/ s = Gone, store' = [store EXCEPT ![c] = s]
  PROVE  /\ store' \in [Conv -> Seq(Messages) \cup {Unused, Gone}]
         /\ store'[c] = s /\ \A d \in Conv : d # c => store'[d] = store[d]
  BY DEF TypeInv

\* A conversation is not one of the two marks of an id without one.
LEMMA Marks ==
  /\ Unused # Gone
  /\ \A s \in Seq(Messages) : s # Unused /\ s # Gone
<1>1. <<0, "unused">> \notin Messages /\ <<0, "gone">> \notin Messages
  <2>1. ASSUME NEW m \in Messages PROVE m[2] \in {"user", "assistant"}
    <3>1. CASE \E c \in Conv : m \in ToSet(Archive[c])
      <4>1. PICK c \in Conv : m \in ToSet(Archive[c])
        BY <3>1
      <4>2. Archive[c] \in Seq((Nat \ Turn) \X {"user", "assistant"})
        BY ArchiveAssumption
      <4>3. m \in (Nat \ Turn) \X {"user", "assistant"}
        BY <4>1, <4>2, Elements
      <4> QED BY <4>3
    <3>2. CASE m \in {<<t, w>> : t \in Turn, w \in {"user", "assistant"}}
      BY <3>2
    <3> QED BY <2>1, <3>1, <3>2 DEF Messages
  <2>2. <<0, "unused">>[2] = "unused" /\ <<0, "gone">>[2] = "gone"
    OBVIOUS
  <2> QED BY <2>1, <2>2
<1>2. ASSUME NEW s \in Seq(Messages), NEW m, s = <<m>> PROVE m \in Messages
  <2>1. Len(<<m>>) = 1 /\ <<m>>[1] = m
    OBVIOUS
  <2>2. Len(s) = 1 /\ s[1] = m
    BY <1>2, <2>1
  <2> QED BY <2>2
<1>3. <<<<0, "unused">>>>[1] = <<0, "unused">> /\ <<<<0, "gone">>>>[1] = <<0, "gone">>
  OBVIOUS
<1>4. <<0, "unused">>[2] = "unused" /\ <<0, "gone">>[2] = "gone"
  OBVIOUS
<1>5. Unused # Gone
  BY <1>3, <1>4 DEF Unused, Gone
<1> QED BY <1>1, <1>2, <1>5 DEF Unused, Gone
-----------------------------------------------------------------------------
(* Types.                                                                   *)

\* The types hold in the initial state.
LEMMA TypeAtStart ==
  ASSUME Init
  PROVE  TypeInv
<1>1. <<>> \in Seq(Messages)
  OBVIOUS
<1>2. ASSUME NEW c \in Conv PROVE Archive[c] \in Seq(Messages)
  <2>1. Archive[c] \in Seq((Nat \ Turn) \X {"user", "assistant"})
    BY ArchiveAssumption
  <2>2. PICK a \in Seq((Nat \ Turn) \X {"user", "assistant"}) : a = Archive[c]
    BY <2>1
  <2>3. ToSet(a) = {a[i] : i \in 1..Len(a)}
    BY Elements
  <2>4. ToSet(a) \subseteq Messages
    BY <2>2 DEF Messages
  <2>5. \A i \in 1..Len(a) : a[i] \in Messages
    BY <2>3, <2>4
  <2> QED BY <2>2, <2>5
<1>3. store \in [Conv -> Seq(Messages) \cup {Unused, Gone}]
  BY <1>2 DEF Init
<1>4. Idle \in TurnState
  BY <1>1 DEF Idle, TurnState, Phase, Route
<1>5. turn \in [Turn -> TurnState]
  BY <1>4 DEF Init
<1> QED BY <1>1, <1>3, <1>5 DEF Init, TypeInv, Route

\* A page of messages, and what it is joined to, are messages.
LEMMA TypeOfReplies ==
  ASSUME TypeInv, Room,
         \/ \E l \in loads : LoadReply(l)
         \/ \E p \in pages : PageReply(p)
  PROVE  msgs' \in Seq(Messages) /\ oldest' \in Nat /\ hasMore' \in BOOLEAN /\ loaded' \in BOOLEAN
<1>1. ASSUME NEW l \in loads, LoadReply(l), Stored(l.conv), Wanted(l)
      PROVE  msgs' \in Seq(Messages) /\ oldest' \in Nat /\ hasMore' \in BOOLEAN /\ loaded' \in BOOLEAN
  <2>1. store[l.conv] \in Seq(Messages)
    BY <1>1 DEF TypeInv, Stored
  <2>2. Len(store[l.conv]) + 1 \in Nat \ {0} /\ Len(store[l.conv]) + 1 <= Len(store[l.conv]) + 1
    BY <2>1
  <2>3. PICK b : b = Before(l.conv, Len(store[l.conv]) + 1)
    OBVIOUS
  <2>4. b.messages \in Seq(Messages) /\ b.oldest \in Nat \ {0}
    BY <1>1, <2>2, <2>3, BeforeIs
  <2>5. msgs' = b.messages /\ oldest' = b.oldest /\ hasMore' = (b.oldest > 1) /\ loaded' = TRUE
    BY <1>1, <2>3 DEF LoadReply
  <2> QED BY <2>4, <2>5
<1>2. ASSUME NEW l \in loads, LoadReply(l), ~(Stored(l.conv) /\ Wanted(l))
      PROVE  UNCHANGED <<msgs, oldest, hasMore, loaded>>
  BY <1>2 DEF LoadReply
<1>3. ASSUME NEW p \in pages, PageReply(p), Stored(p.conv), Merges(p),
             LET page == Before(p.conv, p.before) IN
               /\ msgs' = page.messages \o msgs
               /\ oldest' = page.oldest /\ hasMore' = (page.oldest > 1)
      PROVE  msgs' \in Seq(Messages) /\ oldest' \in Nat /\ hasMore' \in BOOLEAN
  <2>1. PICK b : b = Before(p.conv, p.before)
    OBVIOUS
  <2>2. p.before \in Nat \ {0} /\ p.before <= Len(store[p.conv]) + 1
    BY <1>3 DEF TypeInv, Room, PageCall
  <2>3. b.messages \in Seq(Messages) /\ b.oldest \in Nat \ {0}
    BY <1>3, <2>1, <2>2, BeforeIs
  <2>4. PICK x \in Seq(Messages) : x = b.messages
    BY <2>3
  <2>5. x \o msgs \in Seq(Messages)
    BY Joined DEF TypeInv
  <2>6. msgs' = x \o msgs /\ oldest' = b.oldest /\ hasMore' = (b.oldest > 1)
    BY <1>3, <2>1, <2>4
  <2> QED BY <2>3, <2>5, <2>6
<1>4. ASSUME NEW p \in pages, PageReply(p)
      PROVE  msgs' \in Seq(Messages) /\ oldest' \in Nat /\ hasMore' \in BOOLEAN /\ loaded' \in BOOLEAN
  <2>1. loaded' \in BOOLEAN
    BY <1>4 DEF PageReply, TypeInv
  <2>2. \/ UNCHANGED <<msgs, oldest, hasMore>>
        \/ /\ Stored(p.conv) /\ Merges(p)
           /\ LET page == Before(p.conv, p.before) IN
              /\ msgs' = page.messages \o msgs
              /\ oldest' = page.oldest /\ hasMore' = (page.oldest > 1)
    BY <1>4 DEF PageReply
  <2> QED BY <1>3, <1>4, <2>1, <2>2 DEF TypeInv
<1> QED BY <1>1, <1>2, <1>4 DEF TypeInv

\* A turn appended at the server.
LEMMA AppendStores ==
  ASSUME TypeInv, NEW t \in Turn, Stored(turn[t].conv),
         store' = [store EXCEPT ![turn[t].conv] = @ \o Exchange(t)]
  PROVE  LET c == turn[t].conv IN
         /\ store' \in [Conv -> Seq(Messages) \cup {Unused, Gone}]
         /\ c \in Conv /\ store[c] \in Seq(Messages)
         /\ store'[c] \in Seq(Messages) /\ store'[c] = store[c] \o Exchange(t)
         /\ Len(store'[c]) = Len(store[c]) + 2
         /\ \A i \in 1..Len(store[c]) : store'[c][i] = store[c][i]
         /\ store'[c][Len(store[c]) + 1] = User(t)
         /\ store'[c][Len(store[c]) + 2] = Assistant(t)
         /\ ToSet(store'[c]) = ToSet(store[c]) \cup {User(t), Assistant(t)}
         /\ \A d \in Conv : d # c => store'[d] = store[d]
<1>1. PICK c : c = turn[t].conv
  OBVIOUS
<1>2. c \in Conv /\ store[c] \in Seq(Messages)
  BY <1>1 DEF Stored, TypeInv
<1>3. PICK s \in Seq(Messages) : s = store[c]
  BY <1>2
<1>4. PICK e \in Seq(Messages) : /\ e = Exchange(t) /\ Len(e) = 2
                                 /\ e[1] = User(t) /\ e[2] = Assistant(t)
                                 /\ ToSet(e) = {User(t), Assistant(t)}
  BY OfATurn
<1>5. /\ s \o e \in Seq(Messages) /\ Len(s \o e) = Len(s) + Len(e)
      /\ \A i \in 1..Len(s) : (s \o e)[i] = s[i]
      /\ \A i \in 1..Len(e) : (s \o e)[Len(s) + i] = e[i]
      /\ ToSet(s \o e) = ToSet(s) \cup ToSet(e)
  BY Joined
<1>6. PICK n \in Seq(Messages) : n = s \o e
  BY <1>5
<1>7. store' = [store EXCEPT ![c] = n]
  BY <1>1, <1>3, <1>4, <1>6
<1>8. /\ store' \in [Conv -> Seq(Messages) \cup {Unused, Gone}]
      /\ store'[c] = n /\ \A d \in Conv : d # c => store'[d] = store[d]
  BY <1>2, <1>7, StoreDoes
<1>9. /\ Len(n) = Len(s) + 2 /\ \A i \in 1..Len(s) : n[i] = s[i]
      /\ n[Len(s) + 1] = User(t) /\ n[Len(s) + 2] = Assistant(t)
      /\ ToSet(n) = ToSet(s) \cup {User(t), Assistant(t)}
  <2>1. \A i \in 1..Len(e) : n[Len(s) + i] = e[i]
    BY <1>5, <1>6, Zenon
  <2>2. 1 \in 1..Len(e) /\ 2 \in 1..Len(e)
    BY <1>4
  <2>3. /\ Len(n) = Len(s) + Len(e) /\ \A i \in 1..Len(s) : n[i] = s[i]
        /\ ToSet(n) = ToSet(s) \cup ToSet(e)
    BY <1>5, <1>6, Zenon
  <2> QED BY <1>4, <2>1, <2>2, <2>3
<1>10. store'[c] = store[c] \o Exchange(t)
  BY <1>3, <1>4, <1>6, <1>8, Zenon
<1> HIDE DEF TypeInv
<1>11. /\ c \in Conv /\ store[c] \in Seq(Messages)
       /\ store'[c] \in Seq(Messages)
       /\ Len(store'[c]) = Len(store[c]) + 2
       /\ \A i \in 1..Len(store[c]) : store'[c][i] = store[c][i]
       /\ store'[c][Len(store[c]) + 1] = User(t)
       /\ store'[c][Len(store[c]) + 2] = Assistant(t)
       /\ ToSet(store'[c]) = ToSet(store[c]) \cup {User(t), Assistant(t)}
  BY <1>2, <1>3, <1>8, <1>9, Zenon
<1> QED BY <1>1, <1>8, <1>10, <1>11, Zenon

\* The part of the types that entering a conversation changes.
LEMMA EnterTypes ==
  ASSUME TypeInv, NEW c \in Route, Enter(c)
  PROVE  /\ open' \in Route /\ msgs' \in Seq(Messages) /\ oldest' \in Nat
         /\ loaded' \in BOOLEAN /\ hasMore' \in BOOLEAN
         /\ sending' \in BOOLEAN /\ paging' \in BOOLEAN /\ busy' \in BOOLEAN
         /\ compacting' \in BOOLEAN /\ raced' \in BOOLEAN
         /\ context' = NoContext
         /\ loads' \subseteq LoadCall /\ pages' \subseteq PageCall
         /\ summary' \subseteq SummaryCall /\ pending' \subseteq Route
<1>1. <<>> \in Seq(Messages)
  OBVIOUS
<1>2. /\ open' = c /\ msgs' = <<>> /\ hasMore' = TRUE /\ oldest' = 0
      /\ loaded' = (c = NoConv)
      /\ loads' \subseteq LoadCall
      /\ sending' = FALSE /\ paging' = FALSE /\ busy' = FALSE /\ compacting' = FALSE
      /\ context' = NoContext /\ pending' = {} /\ raced' = FALSE
      /\ pages' \subseteq PageCall /\ summary' \subseteq SummaryCall
  BY EnterDoes
<1> QED BY <1>1, <1>2

\* And reloading it.
LEMMA ReloadTypes ==
  ASSUME TypeInv, Reload
  PROVE  /\ msgs' \in Seq(Messages) /\ oldest' \in Nat
         /\ loaded' \in BOOLEAN /\ hasMore' \in BOOLEAN /\ raced' \in BOOLEAN
         /\ loads' \subseteq LoadCall
<1>1. <<>> \in Seq(Messages)
  OBVIOUS
<1>2. /\ msgs' = <<>> /\ hasMore' = TRUE /\ oldest' = 0 /\ loaded' = (open = NoConv)
      /\ loads' \subseteq LoadCall
      /\ raced' = (raced \/ (\E t \in Turn : Shown(t)) \/ \E p \in pages : p.cur)
  BY ReloadDoes
<1>3. raced' \in BOOLEAN
  BY <1>2
<1> QED BY <1>1, <1>2, <1>3

\* Every step keeps the types.
LEMMA TypeStep ==
  ASSUME TypeInv, Room, [Next]_vars
  PROVE  TypeInv'
<1> USE DEF flags, files, view
<1>1. \A c \in Conv \cup {NoConv} : Goto(c) => TypeInv'
  <2>1. SUFFICES ASSUME NEW c \in Route, Goto(c) PROVE TypeInv'
    BY DEF Route
  <2>2. Enter(c) /\ turn' = StaleTurns(turn) /\ UNCHANGED <<store, deletion, picking, lost>>
    BY <2>1 DEF Goto
  <2>3. turn' \in [Turn -> TurnState]
    BY <2>2, StaleTurnsAre DEF TypeInv
  <2>5. Enter(c)
    BY <2>2
  <2>6. /\ open' \in Route /\ msgs' \in Seq(Messages) /\ oldest' \in Nat
        /\ loaded' \in BOOLEAN /\ hasMore' \in BOOLEAN
        /\ sending' \in BOOLEAN /\ paging' \in BOOLEAN /\ busy' \in BOOLEAN
        /\ compacting' \in BOOLEAN /\ raced' \in BOOLEAN
        /\ context' = NoContext
        /\ loads' \subseteq LoadCall /\ pages' \subseteq PageCall
        /\ summary' \subseteq SummaryCall /\ pending' \subseteq Route
    BY <2>5, EnterTypes
  <2> QED BY <2>2, <2>3, <2>6 DEF TypeInv
<1>2. ClearNewChat => TypeInv'
  <2>1. SUFFICES ASSUME ClearNewChat PROVE TypeInv'
    OBVIOUS
  <2>2. turn' \in [Turn -> TurnState]
    BY <2>1, StaleTurnsAre DEF ClearNewChat, TypeInv
  <2>3. pages' \subseteq PageCall /\ summary' \subseteq SummaryCall
    BY <2>1, StalePagesAre, StaleSummaryIs DEF ClearNewChat, TypeInv
  <2>4. <<>> \in Seq(Messages)
    OBVIOUS
  <2> QED BY <2>1, <2>2, <2>3, <2>4 DEF ClearNewChat, TypeInv
<1>3. LoadMore => TypeInv'
  <2>1. SUFFICES ASSUME LoadMore PROVE TypeInv'
    OBVIOUS
  <2>2. pages' = pages \cup {[conv |-> open, before |-> oldest, cur |-> TRUE]} /\ open \in Conv
    BY <2>1 DEF LoadMore, MayPage, TypeInv, Route
  <2>3. [conv |-> open, before |-> oldest, cur |-> TRUE] \in PageCall
    BY <2>2 DEF PageCall, TypeInv
  <2>4. pages' \subseteq PageCall
    BY <2>2, <2>3 DEF TypeInv
  <2> QED BY <2>1, <2>4 DEF LoadMore, TypeInv
<1>4. Compact => TypeInv'
  <2>1. SUFFICES ASSUME Compact PROVE TypeInv'
    OBVIOUS
  <2>2. summary' = {[history |-> History, cur |-> TRUE]}
    BY <2>1 DEF Compact
  <2>3. summary' \subseteq SummaryCall
    BY <2>2, HistoryIs DEF SummaryCall
  <2> QED BY <2>1, <2>3 DEF Compact, TypeInv
<1>5. PickFiles \/ RemoveFiles => TypeInv'
  BY DEF PickFiles, RemoveFiles, TypeInv
<1>6. \A l \in loads : LoadReply(l) => TypeInv'
  <2>1. SUFFICES ASSUME NEW l \in loads, LoadReply(l) PROVE TypeInv'
    OBVIOUS
  <2>2. msgs' \in Seq(Messages) /\ oldest' \in Nat /\ hasMore' \in BOOLEAN /\ loaded' \in BOOLEAN
    BY <2>1, TypeOfReplies
  <2> QED BY <2>1, <2>2 DEF LoadReply, TypeInv
<1>7. \A l \in loads : LoadFails(l) => TypeInv'
  BY DEF LoadFails, TypeInv
<1>8. \A p \in pages : PageReply(p) => TypeInv'
  <2>1. SUFFICES ASSUME NEW p \in pages, PageReply(p) PROVE TypeInv'
    OBVIOUS
  <2>2. msgs' \in Seq(Messages) /\ oldest' \in Nat /\ hasMore' \in BOOLEAN
    BY <2>1, TypeOfReplies
  <2> QED BY <2>1, <2>2 DEF PageReply, TypeInv
<1>9. \A t \in Turn : Send(t) => TypeInv'
  <2>1. SUFFICES ASSUME NEW t \in Turn, Send(t) PROVE TypeInv'
    OBVIOUS
  <2>2. /\ turn' \in [Turn -> TurnState]
        /\ turn'[t].phase \in {"compact", "stream"}
        /\ compacting' = (turn'[t].phase = "compact")
        /\ turn'[t].phase = "stream" => msgs' = msgs \o Exchange(t) /\ pending' = {}
        /\ turn'[t].phase = "compact" => msgs' = msgs /\ pending' = pending
    BY <2>1, SendDoes
  <2>3. msgs' \in Seq(Messages) /\ pending' \subseteq Route
    BY <2>2, DisplayedIs DEF TypeInv
  <2>4. pages' \subseteq PageCall /\ summary' \subseteq SummaryCall
    BY <2>1, StalePagesAre, StaleSummaryIs DEF Send, TypeInv
  <2>5. /\ sending' = TRUE /\ busy' = TRUE /\ compacting' \in BOOLEAN
        /\ UNCHANGED <<store, open, loaded, hasMore, oldest, loads, paging, context,
                       deletion, picking, raced, lost>>
    BY <2>1, <2>2 DEF Send
  <2> QED BY <2>2, <2>3, <2>4, <2>5 DEF TypeInv
<1>10. \A t \in Turn : TurnCompacted(t) => TypeInv'
  <2>1. SUFFICES ASSUME NEW t \in Turn, TurnCompacted(t) PROVE TypeInv'
    OBVIOUS
  <2>2. compacting' \in BOOLEAN
    BY <2>1 DEF TurnCompacted, TypeInv
  <2>3. turn \in [Turn -> TurnState] /\ turn[t].history \in SUBSET Messages
    BY TurnIs DEF TypeInv
  <2>4. CASE /\ context' = turn[t].history
             /\ turn' = [turn EXCEPT ![t].phase = "stream", ![t].history = {}]
             /\ Display(t)
             /\ raced' = (raced \/ ~loaded)
             /\ UNCHANGED <<sending, busy>>
    <3>1. turn' \in [Turn -> TurnState]
      BY <2>3, <2>4, GoesOn
    <3>2. msgs' \in Seq(Messages) /\ pending' = {}
      BY <2>4, DisplayedIs DEF TypeInv, Display
    <3> QED BY <2>1, <2>2, <2>3, <2>4, <3>1, <3>2 DEF TurnCompacted, TypeInv
  <2>5. CASE /\ End(t, "over") /\ Finish(t)
             /\ UNCHANGED <<context, msgs, pending, raced>>
    <3>1. turn' \in [Turn -> TurnState]
      BY <2>3, <2>5, EndDoes
    <3>2. sending' \in BOOLEAN /\ busy' \in BOOLEAN
      BY <2>5 DEF Finish, TypeInv
    <3> QED BY <2>1, <2>2, <2>5, <3>1, <3>2 DEF TurnCompacted, TypeInv
  <2> QED BY <2>1, <2>4, <2>5 DEF TurnCompacted
<1>11. \A t \in Turn : Publish(t) => TypeInv'
  <2>1. SUFFICES ASSUME NEW t \in Turn, Publish(t) PROVE TypeInv'
    OBVIOUS
  <2>2. msgs' \in Seq(Messages)
    BY <2>1, PublishedIs DEF TypeInv, Publish
  <2> QED BY <2>1, <2>2 DEF Publish, TypeInv
<1>12. \A t \in Turn : StreamEnds(t) => TypeInv'
  <2>1. SUFFICES ASSUME NEW t \in Turn, StreamEnds(t) PROVE TypeInv'
    OBVIOUS
  <2>2. CASE Current(t)
    <3>1. turn' = [turn EXCEPT ![t].phase = "save"] /\ msgs' = Published(t)
      BY <2>1, <2>2 DEF StreamEnds
    <3>2. turn' \in [Turn -> TurnState]
      BY <3>1, GoesOn DEF TypeInv
    <3>3. msgs' \in Seq(Messages)
      BY <3>1, PublishedIs DEF TypeInv
    <3>4. ToSet(Exchange(t)) \subseteq Messages
      BY OfATurn
    <3>5. context' = NoContext \/ context' \in SUBSET Messages
      BY <2>1, <2>2, <3>4 DEF StreamEnds, TypeInv
    <3> QED BY <2>1, <3>2, <3>3, <3>5 DEF StreamEnds, TypeInv
  <2>3. CASE ~Current(t)
    <3>1. End(t, "over") /\ UNCHANGED <<msgs, context>>
      BY <2>1, <2>3 DEF StreamEnds
    <3>2. turn' \in [Turn -> TurnState]
      BY <3>1, EndDoes DEF TypeInv
    <3> QED BY <2>1, <3>1, <3>2 DEF StreamEnds, TypeInv
  <2> QED BY <2>2, <2>3
<1>13. \A t \in Turn : AppendTurn(t) => TypeInv'
  <2>1. SUFFICES ASSUME NEW t \in Turn, AppendTurn(t) PROVE TypeInv'
    OBVIOUS
  <2>2. turn' \in [Turn -> TurnState]
    BY <2>1, EndDoes DEF AppendTurn, TypeInv
  <2>3. store' \in [Conv -> Seq(Messages) \cup {Unused, Gone}]
    BY <2>1, AppendStores DEF AppendTurn
  <2>4. msgs' \in Seq(Messages)
    BY <2>1, AppendedIs DEF AppendTurn, TypeInv
  <2>5. sending' \in BOOLEAN /\ busy' \in BOOLEAN /\ raced' \in BOOLEAN
    BY <2>1 DEF AppendTurn, Finish, TypeInv
  <2> QED BY <2>1, <2>2, <2>3, <2>4, <2>5 DEF AppendTurn, TypeInv
<1>14. \A t \in Turn : AppendFails(t) => TypeInv'
  <2>1. SUFFICES ASSUME NEW t \in Turn, AppendFails(t) PROVE TypeInv'
    OBVIOUS
  <2>2. turn' \in [Turn -> TurnState]
    BY <2>1, EndDoes DEF AppendFails, AfterFailure, TypeInv
  <2>3. store' \in [Conv -> Seq(Messages) \cup {Unused, Gone}] /\ raced' \in BOOLEAN
    BY <2>1, AppendStores DEF AppendFails, TypeInv
  <2>4. sending' \in BOOLEAN /\ busy' \in BOOLEAN
    BY <2>1 DEF AppendFails, Finish, TypeInv
  <2> QED BY <2>1, <2>2, <2>3, <2>4 DEF AppendFails, TypeInv
<1>15. \A t \in Turn, c \in Conv : Create(t, c) => TypeInv'
  <2>1. SUFFICES ASSUME NEW t \in Turn, NEW c \in Conv, Create(t, c) PROVE TypeInv'
    OBVIOUS
  <2>2. /\ turn' \in [Turn -> TurnState] /\ store' = [store EXCEPT ![c] = Transcript(t)]
        /\ IF turn[t].cur THEN Enter(c)
           ELSE /\ Reload
                /\ UNCHANGED <<open, flags, context, pages, summary, pending>>
    BY <2>1, CreateDoes
  <2>3. Transcript(t) \in Seq(Messages)
    BY TranscriptIs DEF TypeInv
  <2>4. store' \in [Conv -> Seq(Messages) \cup {Unused, Gone}]
    BY <2>2, <2>3, StoreDoes
  <2>5. UNCHANGED <<deletion, picking, lost>>
    BY <2>1 DEF Create
  <2>6. c \in Route
    BY DEF Route
  <2>7. CASE turn[t].cur
    <3>1. Enter(c)
      BY <2>2, <2>7
    <3>2. /\ open' \in Route /\ msgs' \in Seq(Messages) /\ oldest' \in Nat
          /\ loaded' \in BOOLEAN /\ hasMore' \in BOOLEAN
          /\ sending' \in BOOLEAN /\ paging' \in BOOLEAN /\ busy' \in BOOLEAN
          /\ compacting' \in BOOLEAN /\ raced' \in BOOLEAN
          /\ context' = NoContext
          /\ loads' \subseteq LoadCall /\ pages' \subseteq PageCall
          /\ summary' \subseteq SummaryCall /\ pending' \subseteq Route
      BY <2>6, <3>1, EnterTypes
    <3> QED BY <2>2, <2>4, <2>5, <3>2 DEF TypeInv
  <2>8. CASE ~turn[t].cur
    <3>1. Reload /\ UNCHANGED <<open, flags, context, pages, summary, pending>>
      BY <2>2, <2>8
    <3>2. /\ msgs' \in Seq(Messages) /\ oldest' \in Nat
          /\ loaded' \in BOOLEAN /\ hasMore' \in BOOLEAN /\ raced' \in BOOLEAN
          /\ loads' \subseteq LoadCall
      BY <3>1, ReloadTypes
    <3> QED BY <2>2, <2>4, <2>5, <3>1, <3>2 DEF TypeInv
  <2> QED BY <2>7, <2>8
<1>16. \A t \in Turn : CreateFails(t) => TypeInv'
  <2>1. SUFFICES ASSUME NEW t \in Turn, CreateFails(t) PROVE TypeInv'
    OBVIOUS
  <2>2. turn' \in [Turn -> TurnState]
    BY <2>1, EndDoes DEF CreateFails, TypeInv
  <2>3. Transcript(t) \in Seq(Messages)
    BY TranscriptIs DEF TypeInv
  <2>4. store' \in [Conv -> Seq(Messages) \cup {Unused, Gone}] /\ lost' \in BOOLEAN
    <3>1. CASE UNCHANGED <<store, lost>>
      BY <3>1 DEF TypeInv
    <3>2. CASE \E c \in Conv : /\ store[c] = Unused
                               /\ store' = [store EXCEPT ![c] = Transcript(t)]
                               /\ lost' = TRUE
      BY <3>2, <2>3, StoreDoes
    <3> QED BY <2>1, <3>1, <3>2 DEF CreateFails
  <2>5. sending' \in BOOLEAN /\ busy' \in BOOLEAN
    BY <2>1 DEF CreateFails, Finish, TypeInv
  <2> QED BY <2>1, <2>2, <2>4, <2>5 DEF CreateFails, TypeInv
<1>17. \A k \in summary : CompactReply(k) => TypeInv'
  <2>1. SUFFICES ASSUME NEW k \in summary, CompactReply(k) PROVE TypeInv'
    OBVIOUS
  <2>2. k.history \in SUBSET Messages
    BY DEF TypeInv, SummaryCall
  <2>3. compacting' \in BOOLEAN /\ sending' \in BOOLEAN
    BY <2>1 DEF CompactReply, TypeInv
  <2> QED BY <2>1, <2>2, <2>3 DEF CompactReply, TypeInv
<1>18. \A c \in Conv : ConfirmDelete(c) => TypeInv'
  <2>1. SUFFICES ASSUME NEW c \in Conv, ConfirmDelete(c) PROVE TypeInv'
    OBVIOUS
  <2>2. deletion' \subseteq Deletion
    BY <2>1 DEF ConfirmDelete, Deletion
  <2>4. CASE c = open
    <3>1. Reload
      BY <2>1, <2>4 DEF ConfirmDelete
    <3>2. /\ msgs' \in Seq(Messages) /\ oldest' \in Nat
          /\ loaded' \in BOOLEAN /\ hasMore' \in BOOLEAN /\ raced' \in BOOLEAN
          /\ loads' \subseteq LoadCall
      BY <3>1, ReloadTypes
    <3> QED BY <2>1, <2>2, <3>2 DEF ConfirmDelete, TypeInv
  <2>5. CASE c # open
    BY <2>1, <2>2, <2>5 DEF ConfirmDelete, TypeInv
  <2> QED BY <2>4, <2>5
<1>19. \A d \in deletion : Deleted(d) => TypeInv'
  <2>1. SUFFICES ASSUME NEW d \in deletion, Deleted(d) PROVE TypeInv'
    OBVIOUS
  <2>2. d.conv \in Conv /\ NoConv \in Route
    BY DEF TypeInv, Deletion, Route
  <2>3. store' \in [Conv -> Seq(Messages) \cup {Unused, Gone}]
    BY <2>1, <2>2, StoreDoes DEF Deleted
  <2>4. CASE d.wasActive /\ open # NoConv
    <3>1. Enter(NoConv) /\ turn' = StaleTurns(turn)
      BY <2>1, <2>4 DEF Deleted
    <3>2. turn' \in [Turn -> TurnState]
      BY <3>1, StaleTurnsAre DEF TypeInv
    <3>4. deletion' = {} /\ UNCHANGED <<picking, lost>>
      BY <2>1 DEF Deleted
    <3>5. /\ open' \in Route /\ msgs' \in Seq(Messages) /\ oldest' \in Nat
          /\ loaded' \in BOOLEAN /\ hasMore' \in BOOLEAN
          /\ sending' \in BOOLEAN /\ paging' \in BOOLEAN /\ busy' \in BOOLEAN
          /\ compacting' \in BOOLEAN /\ raced' \in BOOLEAN
          /\ context' = NoContext
          /\ loads' \subseteq LoadCall /\ pages' \subseteq PageCall
          /\ summary' \subseteq SummaryCall /\ pending' \subseteq Route
      BY <2>2, <3>1, EnterTypes
    <3> QED BY <2>3, <3>2, <3>4, <3>5 DEF TypeInv
  <2>5. CASE ~(d.wasActive /\ open # NoConv)
    BY <2>1, <2>3, <2>5 DEF Deleted, TypeInv
  <2> QED BY <2>4, <2>5
<1>20. \A d \in deletion : DeleteFails(d) => TypeInv'
  <2>1. SUFFICES ASSUME NEW d \in deletion, DeleteFails(d) PROVE TypeInv'
    OBVIOUS
  <2>3. CASE d.wasActive /\ open # d.conv /\ MayRequest
    <3>1. Reload
      BY <2>1, <2>3 DEF DeleteFails
    <3>2. /\ msgs' \in Seq(Messages) /\ oldest' \in Nat
          /\ loaded' \in BOOLEAN /\ hasMore' \in BOOLEAN /\ raced' \in BOOLEAN
          /\ loads' \subseteq LoadCall
      BY <3>1, ReloadTypes
    <3> QED BY <2>1, <3>2 DEF DeleteFails, TypeInv
  <2>4. CASE ~(d.wasActive /\ open # d.conv /\ MayRequest)
    BY <2>1, <2>4 DEF DeleteFails, TypeInv
  <2> QED BY <2>3, <2>4
<1>21. \A r \in picking : FilesRead(r) => TypeInv'
  <2>1. SUFFICES ASSUME NEW r \in picking, FilesRead(r) PROVE TypeInv'
    OBVIOUS
  <2>2. pending' \subseteq Route
    BY <2>1 DEF FilesRead, Processed, TypeInv
  <2> QED BY <2>1, <2>2 DEF FilesRead, TypeInv
<1>22. UNCHANGED vars => TypeInv'
  BY DEF vars, TypeInv
<1> QED BY <1>1, <1>2, <1>3, <1>4, <1>5, <1>6, <1>7, <1>8, <1>9, <1>10, <1>11, <1>12,
           <1>13, <1>14, <1>15, <1>16, <1>17, <1>18, <1>19, <1>20, <1>21, <1>22, Zenon
    DEF Next, ClearChat
-----------------------------------------------------------------------------
(* Conversations only grow, until they are gone.                            *)

\* A turn is appended to its conversation, or makes one with what it captured.
Appends(t) ==
  /\ turn[t].phase = "save" /\ Stored(turn[t].conv)
  /\ store' = [store EXCEPT ![turn[t].conv] = @ \o Exchange(t)]
  /\ turn'[t].phase \in {"over", "told"} /\ turn'[t].base = <<>>

Creates(t, c) ==
  /\ turn[t].phase = "save" /\ turn[t].conv = NoConv
  /\ store[c] = Unused /\ store' = [store EXCEPT ![c] = Transcript(t)]
  /\ turn'[t].phase = "over" \/ (turn'[t].phase = "silent" /\ lost')
  /\ turn'[t].base = <<>>

StoreMoves ==
  /\ lost => lost'
  /\ \/ store' = store
     \/ \E c \in Conv : store' = [store EXCEPT ![c] = Gone]
     \/ \E t \in Turn : Appends(t)
     \/ \E t \in Turn, c \in Conv : Creates(t, c)

\* What every step does to the archives, as StoreMoves has it.
LEMMA StoreStep ==
  ASSUME TypeInv, [Next]_vars
  PROVE  StoreMoves
<1>1. turn \in [Turn -> TurnState]
  BY DEF TypeInv
<1>2. store' = store /\ lost' = lost => StoreMoves
  BY DEF StoreMoves
<1>3. \A t \in Turn : AppendTurn(t) \/ AppendFails(t) => StoreMoves
  <2>1. SUFFICES ASSUME NEW t \in Turn, AppendTurn(t) \/ AppendFails(t) PROVE StoreMoves
    OBVIOUS
  <2>2. /\ turn[t].phase = "save" /\ lost' = lost
        /\ End(t, "over") \/ End(t, "told")
        /\ \/ store' = store
           \/ /\ Stored(turn[t].conv)
              /\ store' = [store EXCEPT ![turn[t].conv] = @ \o Exchange(t)]
    BY <2>1 DEF AppendTurn, AppendFails, AfterFailure
  <2>3. turn'[t].phase \in {"over", "told"} /\ turn'[t].base = <<>>
    BY <1>1, <2>2, EndDoes
  <2> QED BY <2>2, <2>3 DEF StoreMoves, Appends
<1>4. \A t \in Turn : CreateFails(t) => StoreMoves
  <2>1. SUFFICES ASSUME NEW t \in Turn, CreateFails(t) PROVE StoreMoves
    OBVIOUS
  <2>2. /\ turn[t].phase = "save" /\ turn[t].conv = NoConv /\ End(t, "silent")
        /\ \/ UNCHANGED <<store, lost>>
           \/ \E c \in Conv : /\ store[c] = Unused
                             /\ store' = [store EXCEPT ![c] = Transcript(t)]
                             /\ lost' = TRUE
    BY <2>1 DEF CreateFails
  <2>3. turn'[t].phase = "silent" /\ turn'[t].base = <<>>
    BY <1>1, <2>2, EndDoes
  <2> QED BY <2>2, <2>3 DEF StoreMoves, Creates
<1>5. \A t \in Turn, c \in Conv : Create(t, c) => StoreMoves
  <2>1. SUFFICES ASSUME NEW t \in Turn, NEW c \in Conv, Create(t, c) PROVE StoreMoves
    OBVIOUS
  <2>2. /\ turn'[t].phase = "over" /\ turn'[t].base = <<>>
        /\ store' = [store EXCEPT ![c] = Transcript(t)] /\ store[c] = Unused
    BY <2>1, CreateDoes
  <2>3. turn[t].phase = "save" /\ turn[t].conv = NoConv /\ lost' = lost
    BY <2>1 DEF Create
  <2> QED BY <2>2, <2>3 DEF StoreMoves, Creates
<1>6. \A d \in deletion : Deleted(d) => StoreMoves
  <2>1. SUFFICES ASSUME NEW d \in deletion, Deleted(d) PROVE StoreMoves
    OBVIOUS
  <2>2. d.conv \in Conv
    BY DEF TypeInv, Deletion
  <2>3. store' = [store EXCEPT ![d.conv] = Gone] /\ lost' = lost
    BY <2>1 DEF Deleted
  <2> QED BY <2>2, <2>3 DEF StoreMoves
<1>7. \A c \in Conv \cup {NoConv} : Goto(c) => StoreMoves
  BY <1>2 DEF Goto
<1>8. ClearNewChat \/ LoadMore \/ Compact \/ PickFiles \/ RemoveFiles => StoreMoves
  BY <1>2 DEF ClearNewChat, LoadMore, Compact, PickFiles, RemoveFiles
<1>9. \A l \in loads : LoadReply(l) \/ LoadFails(l) => StoreMoves
  BY <1>2 DEF LoadReply, LoadFails
<1>10. \A p \in pages : PageReply(p) => StoreMoves
  BY <1>2 DEF PageReply
<1>11. \A t \in Turn : Send(t) \/ TurnCompacted(t) \/ Publish(t) \/ StreamEnds(t) => StoreMoves
  BY <1>2 DEF Send, TurnCompacted, Publish, StreamEnds
<1>12. \A k \in summary : CompactReply(k) => StoreMoves
  BY <1>2 DEF CompactReply
<1>13. \A c \in Conv : ConfirmDelete(c) => StoreMoves
  BY <1>2 DEF ConfirmDelete
<1>14. \A d \in deletion : DeleteFails(d) => StoreMoves
  BY <1>2 DEF DeleteFails
<1>15. \A r \in picking : FilesRead(r) => StoreMoves
  BY <1>2 DEF FilesRead
<1>16. UNCHANGED vars => StoreMoves
  BY <1>2 DEF vars
<1> QED BY <1>3, <1>4, <1>5, <1>6, <1>7, <1>8, <1>9, <1>10, <1>11, <1>12, <1>13, <1>14,
           <1>15, <1>16, Zenon DEF Next, ClearChat

StoreGrows ==
  \A c \in Conv :
    \/ store'[c] = store[c]
    \/ store'[c] = Gone
    \/ Stored(c) /\ store'[c] \in Seq(Messages) /\ Len(store'[c]) >= Len(store[c])
    \/ store[c] = Unused /\ store'[c] \in Seq(Messages)

\* An archive that goes on being stored only grows, at its end.
LEMMA StoreGrowth ==
  ASSUME TypeInv, StoreMoves
  PROVE  StoreGrows
<1>1. ASSUME NEW t \in Turn, Appends(t) PROVE StoreGrows
  <2>1. PICK c : c = turn[t].conv
    OBVIOUS
  <2>2. Stored(turn[t].conv) /\ store' = [store EXCEPT ![turn[t].conv] = @ \o Exchange(t)]
    BY <1>1 DEF Appends
  <2>3. /\ c \in Conv /\ store[c] \in Seq(Messages) /\ store'[c] \in Seq(Messages)
        /\ Len(store'[c]) = Len(store[c]) + 2
        /\ \A d \in Conv : d # c => store'[d] = store[d]
    BY <2>1, <2>2, AppendStores
  <2>4. Stored(c) /\ Len(store'[c]) >= Len(store[c])
    BY <2>1, <2>2, <2>3
  <2> QED BY <2>3, <2>4 DEF StoreGrows
<1>2. ASSUME NEW t \in Turn, NEW c \in Conv, Creates(t, c) PROVE StoreGrows
  <2>1. Transcript(t) \in Seq(Messages)
    BY TranscriptIs DEF TypeInv
  <2>2. store[c] = Unused /\ store' = [store EXCEPT ![c] = Transcript(t)]
    BY <1>2 DEF Creates
  <2>3. store'[c] = Transcript(t) /\ \A d \in Conv : d # c => store'[d] = store[d]
    BY <2>1, <2>2, StoreDoes
  <2> QED BY <2>1, <2>2, <2>3 DEF StoreGrows
<1>3. ASSUME NEW c \in Conv, store' = [store EXCEPT ![c] = Gone] PROVE StoreGrows
  <2>1. store'[c] = Gone /\ \A d \in Conv : d # c => store'[d] = store[d]
    BY <1>3, StoreDoes
  <2> QED BY <2>1 DEF StoreGrows
<1>4. store' = store => StoreGrows
  BY DEF StoreGrows
<1> QED BY <1>1, <1>2, <1>3, <1>4 DEF StoreMoves

\* What a step has to show to keep Room.
LEMMA RoomKept ==
  ASSUME TypeInv, TypeInv', Room, StoreGrows,
         \A p \in pages' :
           \/ \E q \in pages : p.conv = q.conv /\ p.before = q.before
           \/ /\ p.before > 0 /\ p.before = oldest /\ p.conv = open /\ open \in Conv,
         \/ open' = open
         \/ open' \in Conv => store'[open'] # Unused,
         \/ oldest' = 0
         \/ oldest' = oldest /\ open' = open
         \/ /\ open' = open /\ store' = store
            /\ Stored(open) => oldest' <= Len(store[open]) + 1
  PROVE  Room'
<1>1. /\ Unused # Gone
      /\ \A c \in Conv : \/ store[c] \in Seq(Messages)
                         \/ store[c] = Unused
                         \/ store[c] = Gone
      /\ \A c \in Conv : store[c] \in Seq(Messages) => store[c] # Unused /\ store[c] # Gone
      /\ \A c \in Conv : store'[c] \in Seq(Messages) => store'[c] # Unused /\ store'[c] # Gone
  BY Marks DEF TypeInv
<1>2. ASSUME NEW c \in Conv, NEW n \in Nat, store[c] # Unused,
             Stored(c) => n <= Len(store[c]) + 1
      PROVE  store'[c] # Unused /\ (Stored(c)' => n <= Len(store'[c]) + 1)
  <2>1. CASE store'[c] = store[c]
    BY <2>1, <1>2 DEF Stored
  <2>2. CASE store'[c] = Gone
    BY <2>2, <1>1 DEF Stored
  <2>3. CASE Stored(c) /\ store'[c] \in Seq(Messages) /\ Len(store'[c]) >= Len(store[c])
    <3>1. Len(store[c]) \in Nat /\ Len(store'[c]) \in Nat
      BY <2>3, <1>1 DEF Stored
    <3> QED BY <2>3, <3>1, <1>1, <1>2
  <2> QED BY <1>2, <2>1, <2>2, <2>3 DEF StoreGrows
<1>3. ASSUME NEW p \in pages'
      PROVE  /\ p.before > 0 /\ store'[p.conv] # Unused
             /\ Stored(p.conv)' => p.before <= Len(store'[p.conv]) + 1
  <2>1. CASE \E q \in pages : p.conv = q.conv /\ p.before = q.before
    <3>1. PICK q \in pages : p.conv = q.conv /\ p.before = q.before
      BY <2>1
    <3>2. q.conv \in Conv /\ q.before \in Nat
      BY DEF TypeInv, PageCall
    <3>3. /\ q.before > 0 /\ store[q.conv] # Unused
          /\ Stored(q.conv) => q.before <= Len(store[q.conv]) + 1
      BY DEF Room
    <3>4. store'[q.conv] # Unused /\ (Stored(q.conv)' => q.before <= Len(store'[q.conv]) + 1)
      BY <1>2, <3>2, <3>3
    <3> QED BY <3>1, <3>3, <3>4 DEF Stored
  <2>2. CASE p.before > 0 /\ p.before = oldest /\ p.conv = open /\ open \in Conv
    <3>1. PICK c \in Conv : c = open
      BY <2>2
    <3>2. oldest \in Nat /\ store[c] # Unused /\ (Stored(c) => oldest <= Len(store[c]) + 1)
      BY <3>1 DEF Room, TypeInv
    <3>3. store'[c] # Unused /\ (Stored(c)' => oldest <= Len(store'[c]) + 1)
      BY <1>2, <3>2
    <3> QED BY <2>2, <3>1, <3>3 DEF Stored
  <2> QED BY <2>1, <2>2
<1>4. open' \in Conv => store'[open'] # Unused
  <2>1. ASSUME open' = open, open \in Conv PROVE store'[open] # Unused
    <3>1. PICK c \in Conv : c = open
      BY <2>1
    <3>2. oldest \in Nat /\ store[c] # Unused /\ (Stored(c) => oldest <= Len(store[c]) + 1)
      BY <3>1 DEF Room, TypeInv
    <3> QED BY <1>2, <3>1, <3>2
  <2> QED BY <2>1
<1>5. ASSUME open' \in Conv, store'[open'] \notin {Unused, Gone}
      PROVE  oldest' <= Len(store'[open']) + 1
  <2>1. Len(store'[open']) \in Nat
    BY <1>5 DEF TypeInv
  <2>2. CASE oldest' = 0
    BY <2>1, <2>2
  <2>3. CASE oldest' = oldest /\ open' = open
    <3>1. PICK c \in Conv : c = open
      BY <1>5, <2>3
    <3>2. oldest \in Nat /\ store[c] # Unused /\ (Stored(c) => oldest <= Len(store[c]) + 1)
      BY <3>1 DEF Room, TypeInv
    <3>3. Stored(c)' => oldest <= Len(store'[c]) + 1
      BY <1>2, <3>2
    <3> QED BY <1>5, <2>3, <3>1, <3>3 DEF Stored
  <2>4. CASE /\ open' = open /\ store' = store
             /\ Stored(open) => oldest' <= Len(store[open]) + 1
    BY <1>5, <2>4 DEF Stored
  <2> QED BY <2>2, <2>3, <2>4
<1> QED BY <1>3, <1>4, <1>5 DEF Room, Stored

\* Every step keeps Room: no position lies behind the end of its archive.
LEMMA RoomStep ==
  ASSUME TypeInv, TypeInv', Room, Work, [Next]_vars
  PROVE  Room'
<1> USE DEF flags, files, view
<1>1. StoreGrows
  BY StoreStep, StoreGrowth
<1>2. \A c \in Route : Enter(c) /\ (c \in Conv => store'[c] # Unused) => Room'
  <2>1. SUFFICES ASSUME NEW c \in Route, Enter(c), c \in Conv => store'[c] # Unused
        PROVE  Room'
    OBVIOUS
  <2>2. /\ open' = c /\ oldest' = 0
        /\ \A p \in pages' : \E q \in pages : p.conv = q.conv /\ p.before = q.before
    BY <2>1, EnterDoes
  <2> QED BY <1>1, <2>1, <2>2, RoomKept
<1>3. Reload /\ UNCHANGED <<open, pages>> => Room'
  <2>1. SUFFICES ASSUME Reload, UNCHANGED <<open, pages>> PROVE Room'
    OBVIOUS
  <2>2. oldest' = 0
    BY <2>1, ReloadDoes
  <2> QED BY <1>1, <2>1, <2>2, RoomKept
<1>4. ASSUME UNCHANGED <<open, oldest>>, pages' = pages \/ pages' = StaleCalls(pages)
      PROVE  Room'
  <2>1. \A p \in pages' : \E q \in pages : p.conv = q.conv /\ p.before = q.before
    BY <1>4, StalePagesAre DEF TypeInv
  <2> QED BY <1>1, <1>4, <2>1, RoomKept
<1>5. \A c \in Conv \cup {NoConv} : Goto(c) => Room'
  <2>1. SUFFICES ASSUME NEW c \in Route, Goto(c) PROVE Room'
    BY DEF Route
  <2>2. Enter(c) /\ store' = store
    BY <2>1 DEF Goto
  <2>3. c \in Conv => store'[c] # Unused
    BY <2>1, <2>2, ConvAssumption DEF Goto, Stored
  <2> QED BY <1>2, <2>2, <2>3
<1>6. ClearNewChat \/ Compact \/ PickFiles \/ RemoveFiles => Room'
  BY <1>4 DEF ClearNewChat, Compact, PickFiles, RemoveFiles
<1>7. LoadMore => Room'
  <2>1. SUFFICES ASSUME LoadMore PROVE Room'
    OBVIOUS
  <2>2. /\ pages' = pages \cup {[conv |-> open, before |-> oldest, cur |-> TRUE]}
        /\ open \in Conv /\ oldest > 0
        /\ UNCHANGED <<open, oldest>>
    BY <2>1 DEF LoadMore, MayPage, TypeInv, Route
  <2>3. PICK n : n = [conv |-> open, before |-> oldest, cur |-> TRUE]
    OBVIOUS
  <2>4. n.conv = open /\ n.before = oldest /\ pages' = pages \cup {n}
    BY <2>2, <2>3
  <2>5. \A p \in pages' :
           \/ \E q \in pages : p.conv = q.conv /\ p.before = q.before
           \/ /\ p.before > 0 /\ p.before = oldest /\ p.conv = open /\ open \in Conv
    BY <2>2, <2>4
  <2> QED BY <1>1, <2>2, <2>5, RoomKept
<1>8. \A l \in loads : LoadReply(l) => Room'
  <2>1. SUFFICES ASSUME NEW l \in loads, LoadReply(l) PROVE Room'
    OBVIOUS
  <2>2. UNCHANGED <<store, open, pages>>
    BY <2>1 DEF LoadReply
  <2>3. CASE Stored(l.conv) /\ Wanted(l)
    <3>1. l.conv = open /\ store[open] \in Seq(Messages)
      BY <2>3 DEF Wanted, Work, OneCall, TypeInv, Stored
    <3>2. Len(store[open]) + 1 \in Nat \ {0} /\ Len(store[open]) + 1 <= Len(store[open]) + 1
      BY <3>1
    <3>3. PICK b : b = Before(open, Len(store[open]) + 1)
      OBVIOUS
    <3>4. b.oldest <= Len(store[open]) + 1
      BY <2>3, <3>1, <3>2, <3>3, BeforeIs
    <3>5. oldest' = b.oldest
      BY <2>1, <2>3, <3>1, <3>3 DEF LoadReply
    <3> QED BY <1>1, <2>2, <3>4, <3>5, RoomKept
  <2>4. CASE ~(Stored(l.conv) /\ Wanted(l))
    BY <1>4, <2>1, <2>2, <2>4 DEF LoadReply
  <2> QED BY <2>3, <2>4
<1>9. \A l \in loads : LoadFails(l) => Room'
  BY <1>4 DEF LoadFails
<1>10. \A p \in pages : PageReply(p) => Room'
  <2>1. SUFFICES ASSUME NEW p \in pages, PageReply(p) PROVE Room'
    OBVIOUS
  <2>2. UNCHANGED <<store, open>> /\ pages' = pages \ {p}
    BY <2>1 DEF PageReply
  <2>3. \A r \in pages' : \E q \in pages : r.conv = q.conv /\ r.before = q.before
    BY <2>2
  <2>4. CASE UNCHANGED oldest
    BY <1>1, <2>2, <2>3, <2>4, RoomKept
  <2>5. CASE /\ Stored(p.conv) /\ Merges(p)
             /\ oldest' = Before(p.conv, p.before).oldest
    <3>1. p.conv = open
      BY <2>5 DEF Merges, Work, OneCall
    <3>2. p.before \in Nat \ {0} /\ p.before <= Len(store[p.conv]) + 1
      BY <2>5 DEF Room, TypeInv, PageCall
    <3>3. PICK b : b = Before(p.conv, p.before)
      OBVIOUS
    <3>4. b.oldest <= p.before /\ b.oldest \in Nat /\ store[p.conv] \in Seq(Messages)
      BY <2>5, <3>2, <3>3, BeforeIs
    <3>5. oldest' <= Len(store[open]) + 1
      BY <2>5, <3>1, <3>2, <3>3, <3>4
    <3> QED BY <1>1, <2>2, <2>3, <3>5, RoomKept
  <2> QED BY <2>1, <2>4, <2>5 DEF PageReply
<1>11. \A t \in Turn : Send(t) \/ TurnCompacted(t) \/ Publish(t) \/ StreamEnds(t)
                         \/ AppendTurn(t) \/ AppendFails(t) \/ CreateFails(t) => Room'
  BY <1>4 DEF Send, TurnCompacted, Publish, StreamEnds, AppendTurn, AppendFails, CreateFails
<1>12. \A t \in Turn, c \in Conv : Create(t, c) => Room'
  <2>1. SUFFICES ASSUME NEW t \in Turn, NEW c \in Conv, Create(t, c) PROVE Room'
    OBVIOUS
  <2>2. /\ store' = [store EXCEPT ![c] = Transcript(t)]
        /\ IF turn[t].cur THEN Enter(c)
           ELSE Reload /\ UNCHANGED <<open, pages>>
    BY <2>1, CreateDoes
  <2>3. Transcript(t) \in Seq(Messages)
    BY TranscriptIs DEF TypeInv
  <2>4. store'[c] # Unused
    BY <2>2, <2>3, StoreDoes, Marks
  <2>5. c \in Route
    BY DEF Route
  <2> QED BY <1>2, <1>3, <2>2, <2>4, <2>5
<1>13. \A k \in summary : CompactReply(k) => Room'
  BY <1>4 DEF CompactReply
<1>14. \A c \in Conv : ConfirmDelete(c) => Room'
  BY <1>3, <1>4 DEF ConfirmDelete
<1>15. \A d \in deletion : Deleted(d) => Room'
  <2>1. SUFFICES ASSUME NEW d \in deletion, Deleted(d) PROVE Room'
    OBVIOUS
  <2>2. CASE d.wasActive /\ open # NoConv
    <3>1. Enter(NoConv) /\ NoConv \notin Conv /\ NoConv \in Route
      BY <2>1, <2>2, ConvAssumption DEF Deleted, Route
    <3> QED BY <1>2, <3>1
  <2>3. CASE ~(d.wasActive /\ open # NoConv)
    BY <1>4, <2>1, <2>3 DEF Deleted
  <2> QED BY <2>2, <2>3
<1>16. \A d \in deletion : DeleteFails(d) => Room'
  BY <1>3, <1>4 DEF DeleteFails
<1>17. \A r \in picking : FilesRead(r) => Room'
  BY <1>4 DEF FilesRead
<1>18. UNCHANGED vars => Room'
  BY <1>4 DEF vars
<1> QED BY <1>5, <1>6, <1>7, <1>8, <1>9, <1>10, <1>11, <1>12, <1>13, <1>14, <1>15, <1>16,
           <1>17, <1>18, Zenon DEF Next, ClearChat
-----------------------------------------------------------------------------
(* The flags and what is under way.                                         *)

\* Everything has been left.
LEMMA WorkAfterLeaving ==
  ASSUME TypeInv',
         \A t \in Turn : ~turn'[t].cur,
         \A k, l \in summary' : k = l,
         \A k \in summary' : ~k.cur,
         \A p \in pages' : ~p.cur,
         \A l \in loads' : l.live => l.conv = open' /\ ~loaded',
         ~sending', ~paging', ~busy', ~compacting'
  PROVE  Work'
<1>1. OneTurn'
  BY DEF OneTurn
<1>2. OneCall'
  BY DEF OneCall
<1>3. FlagsAgree'
  BY DEF FlagsAgree, TypeInv
<1> QED BY <1>1, <1>2, <1>3 DEF Work

\* operationRef moves on: one compaction at most was there, one is.
LEMMA SummaryLeft ==
  ASSUME TypeInv, Work, summary' = StaleCalls(summary)
  PROVE  (\A k, l \in summary' : k = l) /\ (\A k \in summary' : ~k.cur)
<1>1. summary \subseteq SummaryCall /\ \A k, l \in summary : k = l
  BY DEF TypeInv, Work, OneCall
<1>2. \A k \in summary' : ~k.cur /\ \E l \in summary : k = [l EXCEPT !.cur = FALSE]
  BY <1>1, StaleSummaryIs
<1>3. \A k, l \in summary' : k = l
  <2>1. TAKE k \in summary', l \in summary'
  <2>2. PICK m \in summary : k = [m EXCEPT !.cur = FALSE]
    BY <1>2
  <2>3. PICK n \in summary : l = [n EXCEPT !.cur = FALSE]
    BY <1>2
  <2>4. m = n
    BY <1>1
  <2> QED BY <2>2, <2>3, <2>4
<1> QED BY <1>2, <1>3

\* A new route, and a list loaded again, leave no work behind.
LEMMA WorkEntering ==
  ASSUME TypeInv, TypeInv', Work, NEW c \in Route, Enter(c),
         \A t \in Turn : ~turn'[t].cur
  PROVE  Work'
<1>1. /\ open' = c /\ loaded' = (c = NoConv)
      /\ \A l \in loads' : l.live => l.conv = c /\ c # NoConv
      /\ sending' = FALSE /\ paging' = FALSE /\ busy' = FALSE /\ compacting' = FALSE
      /\ \A p \in pages' : ~p.cur
      /\ summary' = StaleCalls(summary)
  BY EnterDoes
<1>2. (\A k, l \in summary' : k = l) /\ (\A k \in summary' : ~k.cur)
  BY <1>1, SummaryLeft
<1> QED BY <1>1, <1>2, WorkAfterLeaving

LEMMA WorkReloading ==
  ASSUME TypeInv, TypeInv', Work, Reload,
         UNCHANGED <<open, flags, pages, summary>>,
         \/ UNCHANGED turn
         \/ \E t \in Turn : /\ ~turn[t].cur /\ ~turn'[t].cur
                            /\ \A s \in Turn : s # t => turn'[s] = turn[s]
  PROVE  Work'
<1>1. /\ loaded' = (open = NoConv)
      /\ \A l \in loads' : l.live => l.conv = open /\ open # NoConv
  BY ReloadDoes
<1>2. OneCall'
  BY <1>1 DEF OneCall, Work
<1>3. \A s \in Turn : turn'[s].cur = turn[s].cur /\ (turn[s].cur => turn'[s] = turn[s])
  <2>1. \A s \in Turn : turn[s].cur \in BOOLEAN /\ turn'[s].cur \in BOOLEAN
    BY DEF TypeInv, TurnState
  <2> QED BY <2>1
<1>4. OneTurn'
  BY <1>3 DEF OneTurn, Work
<1>5. FlagsAgree'
  <2>1. UNCHANGED <<busy, sending, compacting, paging>>
    BY DEF flags
  <2> QED BY <1>3, <2>1 DEF FlagsAgree, Work
<1> QED BY <1>2, <1>4, <1>5 DEF Work

\* The current turn, or one that was left, ends.
LEMMA WorkWithoutTurn ==
  ASSUME TypeInv, TypeInv', Work, NEW t \in Turn, ~turn'[t].cur,
         \A s \in Turn : s # t => turn'[s] = turn[s],
         Finish(t), UNCHANGED <<open, loaded, loads, pages, summary, paging>>,
         compacting' = IF turn[t].phase = "compact" /\ turn[t].cur THEN FALSE ELSE compacting
  PROVE  Work'
<1>1. \A s \in Turn : turn[s].cur \in BOOLEAN /\ turn'[s].cur \in BOOLEAN
  BY DEF TypeInv, TurnState
<1>2. OneCall'
  BY DEF OneCall, Work
<1>3. OneTurn'
  BY <1>1 DEF OneTurn, Work
<1>4. CASE turn[t].cur
  <2>1. \A s \in Turn : ~turn'[s].cur
    BY <1>1, <1>4 DEF Work, OneTurn
  <2>2. sending' = FALSE /\ busy' = FALSE
    BY <1>4 DEF Finish
  <2>3. busy /\ \A k \in summary : ~k.cur
    BY <1>4 DEF Work, FlagsAgree
  <2>4. compacting' = FALSE
    <3>1. CASE turn[t].phase = "compact"
      BY <3>1, <1>4
    <3>2. CASE turn[t].phase # "compact"
      <4>1. ~compacting
        BY <1>4, <2>3, <3>2 DEF Work, FlagsAgree, OneTurn
      <4> QED BY <4>1, <3>2, <1>4 DEF TypeInv
    <3> QED BY <3>1, <3>2
  <2>5. FlagsAgree'
    BY <2>1, <2>2, <2>3, <2>4 DEF FlagsAgree, Work, TypeInv
  <2> QED BY <1>2, <1>3, <2>5 DEF Work
<1>5. CASE ~turn[t].cur
  <2>1. \A s \in Turn : turn'[s].cur = turn[s].cur /\ (turn[s].cur => turn'[s] = turn[s])
    BY <1>1, <1>5
  <2>2. UNCHANGED <<sending, busy, compacting>>
    BY <1>5 DEF Finish
  <2>3. FlagsAgree'
    BY <2>1, <2>2 DEF FlagsAgree, Work
  <2> QED BY <1>2, <1>3, <2>3 DEF Work
<1> QED BY <1>4, <1>5

\* Every step keeps Work: one turn, one page, and the flags that say so.
LEMMA WorkStep ==
  ASSUME TypeInv, TypeInv', Work, [Next]_vars
  PROVE  Work'
<1> USE DEF flags, files, view
<1>1. \A c \in Conv \cup {NoConv} : Goto(c) => Work'
  <2>1. SUFFICES ASSUME NEW c \in Route, Goto(c) PROVE Work'
    BY DEF Route
  <2>2. Enter(c) /\ turn' = StaleTurns(turn)
    BY <2>1 DEF Goto
  <2>3. \A t \in Turn : ~turn'[t].cur
    BY <2>2, StaleTurnsAre DEF TypeInv
  <2> QED BY <2>2, <2>3, WorkEntering
<1>2. ClearNewChat => Work'
  <2>1. SUFFICES ASSUME ClearNewChat PROVE Work'
    OBVIOUS
  <2>2. /\ \A t \in Turn : ~turn'[t].cur
        /\ \A p \in pages' : ~p.cur
    BY <2>1, StaleTurnsAre, StalePagesAre DEF ClearNewChat, TypeInv
  <2>3. (\A k, l \in summary' : k = l) /\ (\A k \in summary' : ~k.cur)
    BY <2>1, SummaryLeft DEF ClearNewChat
  <2>4. open \notin Conv
    BY <2>1, ConvAssumption DEF ClearNewChat
  <2>5. ~paging
    BY <2>4 DEF Work, OneCall, FlagsAgree, TypeInv, PageCall
  <2>6. \A l \in loads' : ~l.live
    BY <2>1, <2>4 DEF ClearNewChat, Work, OneCall, TypeInv, LoadCall
  <2>7. ~sending' /\ ~paging' /\ ~busy' /\ ~compacting'
    BY <2>1, <2>5 DEF ClearNewChat
  <2> QED BY <2>2, <2>3, <2>6, <2>7, WorkAfterLeaving
<1>3. LoadMore => Work'
  <2>1. SUFFICES ASSUME LoadMore PROVE Work'
    OBVIOUS
  <2>2. PICK n : n = [conv |-> open, before |-> oldest, cur |-> TRUE]
    OBVIOUS
  <2>3. /\ pages' = pages \cup {n} /\ n.conv = open /\ n.cur /\ paging' = TRUE
        /\ ~paging /\ ~busy
        /\ UNCHANGED <<open, turn, loads, loaded, summary, busy, sending, compacting>>
    BY <2>1, <2>2 DEF LoadMore, MayPage
  <2>4. \A p \in pages : ~p.cur
    BY <2>3 DEF Work, FlagsAgree
  <2>5. OneCall'
    BY <2>3, <2>4 DEF Work, OneCall
  <2>6. OneTurn'
    BY <2>3 DEF Work, OneTurn
  <2>7. FlagsAgree'
    BY <2>3 DEF Work, FlagsAgree
  <2> QED BY <2>5, <2>6, <2>7 DEF Work
<1>4. Compact => Work'
  <2>1. SUFFICES ASSUME Compact PROVE Work'
    OBVIOUS
  <2>2. PICK n : n = [history |-> History, cur |-> TRUE]
    OBVIOUS
  <2>3. /\ summary' = {n} /\ n.cur /\ sending' = TRUE /\ compacting' = TRUE /\ ~busy
        /\ UNCHANGED <<open, turn, loads, loaded, pages, busy, paging>>
    BY <2>1, <2>2 DEF Compact
  <2>4. OneCall' /\ OneTurn'
    BY <2>3 DEF Work, OneCall, OneTurn
  <2>5. FlagsAgree'
    BY <2>3 DEF Work, FlagsAgree
  <2> QED BY <2>4, <2>5 DEF Work
<1>5. UNCHANGED <<open, turn, loads, loaded, summary, pages, flags>> => Work'
  BY DEF Work, OneCall, OneTurn, FlagsAgree
<1>6. PickFiles \/ RemoveFiles \/ UNCHANGED vars => Work'
  BY <1>5 DEF PickFiles, RemoveFiles, vars
<1>7. \A l \in loads : LoadReply(l) \/ LoadFails(l) => Work'
  <2>1. SUFFICES ASSUME NEW l \in loads, LoadReply(l) \/ LoadFails(l) PROVE Work'
    OBVIOUS
  <2>2. /\ loads' = loads \ {l}
        /\ UNCHANGED <<open, turn, summary, pages, busy, sending, compacting, paging>>
    BY <2>1 DEF LoadReply, LoadFails
  <2>3. loaded' = loaded \/ l.live \/ ~loaded'
    BY <2>1 DEF LoadReply, LoadFails, Wanted
  <2>4. \A k \in loads : k = [conv |-> k.conv, live |-> k.live] /\ k.live \in BOOLEAN
    BY DEF TypeInv, LoadCall
  <2>5. \A k \in loads' : k.live => ~l.live
    <3>1. SUFFICES ASSUME NEW k \in loads', k.live, l.live PROVE FALSE
      OBVIOUS
    <3>2. k \in loads /\ k # l /\ k.conv = open /\ l.conv = open
      BY <2>2, <3>1 DEF Work, OneCall
    <3>3. k.live = l.live
      BY <2>4, <3>1, <3>2
    <3>4. k = l
      BY <2>4, <3>2, <3>3
    <3> QED BY <3>2, <3>4
  <2>6. OneCall'
    BY <2>2, <2>3, <2>5 DEF Work, OneCall
  <2>7. OneTurn' /\ FlagsAgree'
    BY <2>2 DEF Work, OneTurn, FlagsAgree
  <2> QED BY <2>6, <2>7 DEF Work
<1>8. \A p \in pages : PageReply(p) => Work'
  <2>1. SUFFICES ASSUME NEW p \in pages, PageReply(p) PROVE Work'
    OBVIOUS
  <2>2. /\ pages' = pages \ {p} /\ paging' = (IF p.cur THEN FALSE ELSE paging)
        /\ UNCHANGED <<open, turn, loads, loaded, summary, busy, sending, compacting>>
    BY <2>1 DEF PageReply
  <2>3. OneCall' /\ OneTurn'
    BY <2>2 DEF Work, OneCall, OneTurn
  <2>4. p.cur \in BOOLEAN /\ paging \in BOOLEAN
    BY DEF TypeInv, PageCall
  <2>5. CASE p.cur
    <3>1. paging' = FALSE /\ \A q \in pages' : ~q.cur
      BY <2>2, <2>5 DEF Work, OneCall
    <3>2. FlagsAgree'
      BY <2>2, <3>1 DEF Work, FlagsAgree
    <3> QED BY <2>3, <3>2 DEF Work
  <2>6. CASE ~p.cur
    <3>1. paging' = paging /\ \A q \in pages : q.cur => q \in pages'
      BY <2>2, <2>6
    <3>2. FlagsAgree'
      BY <2>2, <3>1 DEF Work, FlagsAgree
    <3> QED BY <2>3, <3>2 DEF Work
  <2> QED BY <2>4, <2>5, <2>6
<1>9. \A t \in Turn : Send(t) => Work'
  <2>1. SUFFICES ASSUME NEW t \in Turn, Send(t) PROVE Work'
    OBVIOUS
  <2>2. /\ \A s \in Turn : s # t => ~turn'[s].cur
        /\ turn'[t].phase \in {"compact", "stream"} /\ turn'[t].conv = open
        /\ turn'[t].cur
        /\ compacting' = (turn'[t].phase = "compact")
    BY <2>1, SendDoes
  <2>3. /\ sending' = TRUE /\ busy' = TRUE /\ ~paging
        /\ summary' = StaleCalls(summary) /\ pages' = StaleCalls(pages)
        /\ UNCHANGED <<open, loaded, loads, paging>>
    BY <2>1 DEF Send, MaySend
  <2>4. (\A k, l \in summary' : k = l) /\ (\A k \in summary' : ~k.cur)
    BY <2>3, SummaryLeft
  <2>5. \A p \in pages' : ~p.cur
    BY <2>3, StalePagesAre DEF TypeInv
  <2>6. OneCall'
    BY <2>3, <2>4, <2>5 DEF Work, OneCall
  <2>7. OneTurn'
    BY <2>2, <2>3 DEF OneTurn, Active
  <2>8. FlagsAgree'
    <3>1. \E s \in Turn : turn'[s].cur
      BY <2>2
    <3>2. (\E s \in Turn : turn'[s].cur /\ turn'[s].phase = "compact") = (turn'[t].phase = "compact")
      BY <2>2
    <3>3. paging' = FALSE
      BY <2>3 DEF TypeInv
    <3>4. /\ busy' = (\E s \in Turn : turn'[s].cur)
          /\ sending' = (busy' \/ \E k \in summary' : k.cur)
      BY <2>3, <3>1
    <3>5. compacting' = ((\E s \in Turn : turn'[s].cur /\ turn'[s].phase = "compact")
                          \/ \E k \in summary' : k.cur)
      BY <2>2, <2>4, <3>2
    <3>6. paging' = (\E p \in pages' : p.cur)
      BY <2>5, <3>3
    <3> QED BY <2>4, <3>3, <3>4, <3>5, <3>6 DEF FlagsAgree
  <2> QED BY <2>6, <2>7, <2>8 DEF Work
<1>10. \A t \in Turn : TurnCompacted(t) => Work'
  <2>1. SUFFICES ASSUME NEW t \in Turn, TurnCompacted(t) PROVE Work'
    OBVIOUS
  <2>2. /\ turn[t].phase = "compact"
        /\ compacting' = IF turn[t].cur THEN FALSE ELSE compacting
        /\ UNCHANGED <<open, loaded, loads, paging, pages, summary>>
    BY <2>1 DEF TurnCompacted
  <2>3. turn \in [Turn -> TurnState]
    BY DEF TypeInv
  <2>4. CASE /\ turn[t].cur
             /\ turn' = [turn EXCEPT ![t].phase = "stream", ![t].history = {}]
             /\ UNCHANGED <<sending, busy>>
    <3>1. /\ \A s \in Turn : s # t => turn'[s] = turn[s]
          /\ turn'[t].phase = "stream" /\ turn'[t].conv = turn[t].conv
          /\ turn'[t].cur = turn[t].cur
      BY <2>3, <2>4, GoesOn
    <3>2. \A s \in Turn : turn'[s].cur = turn[s].cur /\ (turn'[s].cur => s = t)
      BY <2>4, <3>1 DEF Work, OneTurn
    <3>3. OneTurn'
      BY <2>2, <3>1, <3>2 DEF Work, OneTurn, Active
    <3>4. OneCall'
      BY <2>2 DEF Work, OneCall
    <3>5. compacting' = FALSE /\ busy /\ \A k \in summary : ~k.cur
      BY <2>2, <2>4 DEF Work, FlagsAgree
    <3>6. \A s \in Turn : turn'[s].cur => turn'[s].phase # "compact"
      BY <3>1, <3>2
    <3>7. FlagsAgree'
      BY <2>2, <2>4, <3>2, <3>5, <3>6 DEF Work, FlagsAgree
    <3> QED BY <3>3, <3>4, <3>7 DEF Work
  <2>5. CASE End(t, "over") /\ Finish(t)
    <3>1. ~turn'[t].cur /\ \A s \in Turn : s # t => turn'[s] = turn[s]
      BY <2>3, <2>5, EndDoes
    <3> QED BY <2>2, <2>5, <3>1, WorkWithoutTurn
  <2> QED BY <2>1, <2>4, <2>5 DEF TurnCompacted
<1>11. \A t \in Turn : Publish(t) => Work'
  BY <1>5 DEF Publish
<1>12. \A t \in Turn : StreamEnds(t) => Work'
  <2>1. SUFFICES ASSUME NEW t \in Turn, StreamEnds(t) PROVE Work'
    OBVIOUS
  <2>2. /\ turn[t].phase = "stream"
        /\ UNCHANGED <<open, loaded, loads, pages, summary, sending, paging, busy, compacting>>
    BY <2>1 DEF StreamEnds
  <2>3. turn \in [Turn -> TurnState]
    BY DEF TypeInv
  <2>4. CASE Current(t)
    <3>1. turn' = [turn EXCEPT ![t].phase = "save"]
      BY <2>1, <2>4 DEF StreamEnds
    <3>2. /\ \A s \in Turn : s # t => turn'[s] = turn[s]
          /\ turn'[t].phase = "save" /\ turn'[t].conv = turn[t].conv
          /\ turn'[t].cur = turn[t].cur
      BY <2>3, <3>1, GoesOn
    <3>3. \A s \in Turn : /\ turn'[s].cur = turn[s].cur
                          /\ (turn'[s].phase = "compact") = (turn[s].phase = "compact")
                          /\ turn'[s].conv = turn[s].conv
                          /\ turn[s].phase \in Active => turn'[s].phase \in Active
      BY <2>2, <3>2 DEF Active
    <3>4. OneTurn'
      BY <2>2, <3>3 DEF Work, OneTurn
    <3>5. OneCall' /\ FlagsAgree'
      BY <2>2, <3>3 DEF Work, OneCall, FlagsAgree
    <3> QED BY <3>4, <3>5 DEF Work
  <2>5. CASE ~Current(t)
    <3>1. End(t, "over")
      BY <2>1, <2>5 DEF StreamEnds
    <3>2. ~turn'[t].cur /\ \A s \in Turn : s # t => turn'[s] = turn[s]
      BY <2>3, <3>1, EndDoes
    <3>3. Finish(t)
      BY <2>2, <2>5 DEF Finish, Current
    <3> QED BY <2>2, <3>2, <3>3, WorkWithoutTurn
  <2> QED BY <2>4, <2>5
<1>13. \A t \in Turn : AppendTurn(t) \/ AppendFails(t) \/ CreateFails(t) => Work'
  <2>1. SUFFICES ASSUME NEW t \in Turn, AppendTurn(t) \/ AppendFails(t) \/ CreateFails(t)
        PROVE  Work'
    OBVIOUS
  <2>2. /\ turn[t].phase = "save" /\ Finish(t)
        /\ UNCHANGED <<open, loaded, loads, pages, summary, paging, compacting>>
        /\ End(t, "over") \/ End(t, "told") \/ End(t, "silent")
    BY <2>1 DEF AppendTurn, AppendFails, CreateFails, AfterFailure
  <2>3. ~turn'[t].cur /\ \A s \in Turn : s # t => turn'[s] = turn[s]
    BY <2>2, EndDoes DEF TypeInv
  <2> QED BY <2>2, <2>3, WorkWithoutTurn
<1>14. \A t \in Turn, c \in Conv : Create(t, c) => Work'
  <2>1. SUFFICES ASSUME NEW t \in Turn, NEW c \in Conv, Create(t, c) PROVE Work'
    OBVIOUS
  <2>2. /\ \A s \in Turn : s # t => IF turn[t].cur THEN ~turn'[s].cur ELSE turn'[s] = turn[s]
        /\ ~turn'[t].cur
        /\ IF turn[t].cur THEN Enter(c)
           ELSE Reload /\ UNCHANGED <<open, flags, pages, summary>>
    BY <2>1, CreateDoes
  <2>3. c \in Route
    BY DEF Route
  <2>4. CASE turn[t].cur
    <3>1. Enter(c) /\ \A s \in Turn : ~turn'[s].cur
      BY <2>2, <2>4
    <3> QED BY <2>3, <3>1, WorkEntering
  <2>5. CASE ~turn[t].cur
    <3>1. Reload /\ UNCHANGED <<open, flags, pages, summary>>
      BY <2>2, <2>5, Zenon
    <3>2. \A s \in Turn : s # t => turn'[s] = turn[s]
      BY <2>2, <2>5
    <3> QED BY <2>2, <2>5, <3>1, <3>2, WorkReloading
  <2> QED BY <2>4, <2>5
<1>15. \A k \in summary : CompactReply(k) => Work'
  <2>1. SUFFICES ASSUME NEW k \in summary, CompactReply(k) PROVE Work'
    OBVIOUS
  <2>2. /\ summary' = {}
        /\ IF k.cur THEN compacting' = FALSE /\ sending' = FALSE
           ELSE UNCHANGED <<compacting, sending>>
        /\ UNCHANGED <<open, turn, loads, loaded, pages, busy, paging>>
    BY <2>1 DEF CompactReply
  <2>3. OneCall' /\ OneTurn'
    BY <2>2 DEF Work, OneCall, OneTurn
  <2>4. k.cur \in BOOLEAN /\ \A l \in summary : l = k
    BY DEF TypeInv, SummaryCall, Work, OneCall
  <2>5. CASE k.cur
    <3>1. ~busy /\ busy = FALSE /\ \A t \in Turn : ~turn[t].cur
      BY <2>5 DEF Work, FlagsAgree, TypeInv
    <3>2. FlagsAgree'
      BY <2>2, <2>5, <3>1 DEF Work, FlagsAgree
    <3> QED BY <2>3, <3>2 DEF Work
  <2>6. CASE ~k.cur
    <3>1. \A l \in summary : ~l.cur
      BY <2>4, <2>6
    <3>2. FlagsAgree'
      BY <2>2, <2>6, <3>1 DEF Work, FlagsAgree
    <3> QED BY <2>3, <3>2 DEF Work
  <2> QED BY <2>4, <2>5, <2>6
<1>16. \A c \in Conv : ConfirmDelete(c) => Work'
  <2>1. SUFFICES ASSUME NEW c \in Conv, ConfirmDelete(c) PROVE Work'
    OBVIOUS
  <2>2. UNCHANGED <<open, flags, turn, pages, summary>>
    BY <2>1 DEF ConfirmDelete
  <2>3. Reload \/ UNCHANGED <<loads, loaded>>
    BY <2>1 DEF ConfirmDelete
  <2> QED BY <1>5, <2>2, <2>3, WorkReloading
<1>17. \A d \in deletion : Deleted(d) => Work'
  <2>1. SUFFICES ASSUME NEW d \in deletion, Deleted(d) PROVE Work'
    OBVIOUS
  <2>2. CASE d.wasActive /\ open # NoConv
    <3>1. Enter(NoConv) /\ turn' = StaleTurns(turn) /\ NoConv \in Route
      BY <2>1, <2>2 DEF Deleted, Route
    <3>2. \A t \in Turn : ~turn'[t].cur
      BY <3>1, StaleTurnsAre DEF TypeInv
    <3> QED BY <3>1, <3>2, WorkEntering
  <2>3. CASE ~(d.wasActive /\ open # NoConv)
    BY <1>5, <2>1, <2>3 DEF Deleted
  <2> QED BY <2>2, <2>3
<1>18. \A d \in deletion : DeleteFails(d) => Work'
  <2>1. SUFFICES ASSUME NEW d \in deletion, DeleteFails(d) PROVE Work'
    OBVIOUS
  <2>2. UNCHANGED <<open, flags, turn, pages, summary>>
    BY <2>1 DEF DeleteFails
  <2>3. Reload \/ UNCHANGED <<loads, loaded>>
    BY <2>1 DEF DeleteFails
  <2> QED BY <1>5, <2>2, <2>3, WorkReloading
<1>19. \A r \in picking : FilesRead(r) => Work'
  BY <1>5 DEF FilesRead
<1> QED BY <1>1, <1>2, <1>3, <1>4, <1>6, <1>7, <1>8, <1>9, <1>10, <1>11, <1>12, <1>13,
           <1>14, <1>15, <1>16, <1>17, <1>18, <1>19, Zenon DEF Next, ClearChat
-----------------------------------------------------------------------------
(* What a step can do to the turns and to the list.                         *)

\* The page leaves what it shows.
Left ==
  /\ msgs' = <<>> /\ context' = NoContext
  /\ \A s \in Turn : ~turn'[s].cur
  /\ \A k \in summary' : ~k.cur
  /\ \A p \in pages' : ~p.cur
  /\ open' \in Conv => store'[open'] \notin {Unused, Gone} /\ ~loaded'

\* What becomes of a turn that is shown: it is stored, or told of, or, in a new
\* chat, it is silently not stored; or the page has left.
EndsWell(s) ==
  turn[s].cur /\ turn[s].phase # "compact" =>
    \/ Left
    \/ turn[s].conv = NoConv /\ turn'[s].phase = "silent" /\ turn'[s].conv = NoConv
    \/ /\ turn[s].conv # NoConv /\ turn'[s].phase = "told"
       /\ turn'[s].conv = turn[s].conv
    \/ /\ turn[s].conv # NoConv /\ turn'[s].phase = "over"
       /\ {User(s), Assistant(s)} \subseteq ToSet(store'[turn[s].conv])

\* A turn is left or stays as it is, ends, goes on, or is sent when none is
\* current.
TurnMoves ==
  \A s \in Turn :
    \/ /\ turn'[s].phase = turn[s].phase /\ turn'[s].conv = turn[s].conv
       /\ turn'[s].base = turn[s].base /\ (turn'[s].cur => turn[s].cur)
    \/ /\ turn[s].phase \in Active /\ turn'[s].phase \in Ended
       /\ turn'[s].base = <<>> /\ ~turn'[s].cur
       /\ turn'[s].phase = "over" => turn'[s].conv = NoConv
       /\ EndsWell(s)
    \/ /\ <<turn[s].phase, turn'[s].phase>> \in {<<"compact", "stream">>, <<"stream", "save">>}
       /\ turn'[s].conv = turn[s].conv /\ turn'[s].base = turn[s].base
       /\ turn[s].cur /\ turn'[s].cur
    \/ /\ turn[s].phase = "unsent" /\ turn'[s].phase \in {"compact", "stream"}
       /\ turn'[s].conv = open /\ turn'[s].cur
       /\ turn'[s].base = (IF open = NoConv THEN msgs ELSE <<>>)
       /\ open' = open /\ \A r \in Turn : ~turn[r].cur

\* What every step does to the turns, as TurnMoves has it.
LEMMA TurnStep ==
  ASSUME TypeInv, Work, [Next]_vars
  PROVE  TurnMoves
<1> USE DEF flags, files, view
<1>1. turn \in [Turn -> TurnState]
  BY DEF TypeInv
<1>2. turn' = turn \/ turn' = StaleTurns(turn) => TurnMoves
  BY <1>1, StaleTurnsAre DEF TurnMoves
<1>3. ASSUME NEW t \in Turn, NEW ph \in Ended, turn[t].phase \in Active, End(t, ph),
             turn[t].cur /\ turn[t].phase # "compact" =>
               \/ turn[t].conv = NoConv /\ ph = "silent"
               \/ turn[t].conv # NoConv /\ ph = "told"
               \/ /\ turn[t].conv # NoConv /\ ph = "over"
                  /\ {User(t), Assistant(t)} \subseteq ToSet(store'[turn[t].conv])
      PROVE  TurnMoves
  <2>1. /\ \A s \in Turn : s # t => turn'[s] = turn[s]
        /\ turn'[t].phase = ph /\ turn'[t].base = <<>> /\ ~turn'[t].cur
        /\ turn'[t].conv = IF ph = "over" THEN NoConv ELSE turn[t].conv
    BY <1>1, <1>3, EndDoes DEF Ended
  <2>2. EndsWell(t)
    BY <1>3, <2>1 DEF EndsWell
  <2> QED BY <1>3, <2>1, <2>2 DEF TurnMoves
<1>4. \A c \in Conv \cup {NoConv} : Goto(c) => TurnMoves
  BY <1>2 DEF Goto
<1>5. ClearNewChat \/ LoadMore \/ Compact \/ PickFiles \/ RemoveFiles => TurnMoves
  BY <1>2 DEF ClearNewChat, LoadMore, Compact, PickFiles, RemoveFiles
<1>6. \A l \in loads : LoadReply(l) \/ LoadFails(l) => TurnMoves
  BY <1>2 DEF LoadReply, LoadFails
<1>7. \A p \in pages : PageReply(p) => TurnMoves
  BY <1>2 DEF PageReply
<1>8. \A t \in Turn : Send(t) => TurnMoves
  <2>1. SUFFICES ASSUME NEW t \in Turn, Send(t) PROVE TurnMoves
    OBVIOUS
  <2>2. /\ \A s \in Turn : s # t =>
              /\ turn'[s].phase = turn[s].phase /\ turn'[s].conv = turn[s].conv
              /\ turn'[s].base = turn[s].base /\ ~turn'[s].cur
        /\ turn'[t].phase \in {"compact", "stream"} /\ turn'[t].conv = open
        /\ turn'[t].base = (IF open = NoConv THEN msgs ELSE <<>>) /\ turn'[t].cur
    BY <2>1, SendDoes
  <2>3. turn[t].phase = "unsent" /\ ~sending /\ open' = open
    BY <2>1 DEF Send, MaySend
  <2>4. \A r \in Turn : ~turn[r].cur
    BY <2>3 DEF Work, FlagsAgree
  <2> QED BY <2>2, <2>3, <2>4 DEF TurnMoves
<1>9. \A t \in Turn : TurnCompacted(t) => TurnMoves
  <2>1. SUFFICES ASSUME NEW t \in Turn, TurnCompacted(t) PROVE TurnMoves
    OBVIOUS
  <2>2. turn[t].phase = "compact"
    BY <2>1 DEF TurnCompacted
  <2>3. CASE turn[t].cur /\ turn' = [turn EXCEPT ![t].phase = "stream", ![t].history = {}]
    <3>1. /\ \A s \in Turn : s # t => turn'[s] = turn[s]
          /\ turn'[t].phase = "stream" /\ turn'[t].conv = turn[t].conv
          /\ turn'[t].base = turn[t].base /\ turn'[t].cur = turn[t].cur
      BY <1>1, <2>3, GoesOn
    <3> QED BY <2>2, <2>3, <3>1 DEF TurnMoves
  <2> QED BY <1>3, <2>1, <2>2, <2>3 DEF TurnCompacted, Active, Ended
<1>10. \A t \in Turn : Publish(t) => TurnMoves
  BY <1>2 DEF Publish
<1>11. \A t \in Turn : StreamEnds(t) => TurnMoves
  <2>1. SUFFICES ASSUME NEW t \in Turn, StreamEnds(t) PROVE TurnMoves
    OBVIOUS
  <2>2. turn[t].phase = "stream"
    BY <2>1 DEF StreamEnds
  <2>3. CASE turn[t].cur /\ turn' = [turn EXCEPT ![t].phase = "save"]
    <3>1. /\ \A s \in Turn : s # t => turn'[s] = turn[s]
          /\ turn'[t].phase = "save" /\ turn'[t].conv = turn[t].conv
          /\ turn'[t].base = turn[t].base /\ turn'[t].cur = turn[t].cur
      BY <1>1, <2>3, GoesOn
    <3> QED BY <2>2, <2>3, <3>1 DEF TurnMoves
  <2> QED BY <1>3, <2>1, <2>2, <2>3 DEF StreamEnds, Active, Ended, Current
<1>12. \A t \in Turn : AppendTurn(t) \/ AppendFails(t) \/ CreateFails(t) => TurnMoves
  <2>1. SUFFICES ASSUME NEW t \in Turn PROVE AppendTurn(t) \/ AppendFails(t) \/ CreateFails(t) => TurnMoves
    OBVIOUS
  <2>2. ASSUME AppendTurn(t) PROVE TurnMoves
    <3>1. /\ turn[t].phase = "save" /\ turn[t].conv # NoConv /\ End(t, "over")
          /\ Stored(turn[t].conv)
          /\ store' = [store EXCEPT ![turn[t].conv] = @ \o Exchange(t)]
      BY <2>2 DEF AppendTurn
    <3>2. ToSet(store'[turn[t].conv]) = ToSet(store[turn[t].conv]) \cup {User(t), Assistant(t)}
      BY <3>1, AppendStores
    <3> QED BY <1>3, <3>1, <3>2 DEF Active, Ended
  <2>3. ASSUME AppendFails(t) PROVE TurnMoves
    BY <1>3, <2>3 DEF AppendFails, AfterFailure, Active, Ended
  <2>4. ASSUME CreateFails(t) PROVE TurnMoves
    BY <1>3, <2>4 DEF CreateFails, Active, Ended
  <2> QED BY <2>2, <2>3, <2>4
<1>13. \A t \in Turn, c \in Conv : Create(t, c) => TurnMoves
  <2>1. SUFFICES ASSUME NEW t \in Turn, NEW c \in Conv, Create(t, c) PROVE TurnMoves
    OBVIOUS
  <2>2. /\ \A s \in Turn : s # t =>
              /\ turn'[s].phase = turn[s].phase /\ turn'[s].conv = turn[s].conv
              /\ turn'[s].base = turn[s].base
              /\ IF turn[t].cur THEN ~turn'[s].cur ELSE turn'[s] = turn[s]
        /\ turn'[t].phase = "over" /\ turn'[t].base = <<>> /\ ~turn'[t].cur
        /\ turn'[t].conv = NoConv
        /\ turn[t].cur => Enter(c)
        /\ store' = [store EXCEPT ![c] = Transcript(t)]
    BY <2>1, CreateDoes
  <2>3. turn[t].phase = "save"
    BY <2>1 DEF Create
  <2>4. store'[c] \notin {Unused, Gone}
    BY <2>2, StoreDoes, TranscriptIs, Marks DEF TypeInv
  <2>5. turn[t].cur => Left
    <3>1. SUFFICES ASSUME turn[t].cur PROVE Left
      OBVIOUS
    <3>2. Enter(c) /\ c \in Route /\ c # NoConv
      BY <2>2, <3>1, ConvAssumption DEF Route
    <3>3. /\ msgs' = <<>> /\ context' = NoContext /\ open' = c /\ loaded' = (c = NoConv)
          /\ (\A k \in summary' : ~k.cur) /\ \A p \in pages' : ~p.cur
      BY <3>2, EnterDoes
    <3>4. \A s \in Turn : ~turn'[s].cur
      BY <2>2, <3>1
    <3> QED BY <2>4, <3>2, <3>3, <3>4 DEF Left
  <2>6. EndsWell(t)
    BY <2>5 DEF EndsWell
  <2> QED BY <2>2, <2>3, <2>6 DEF TurnMoves, Active, Ended
<1>14. \A k \in summary : CompactReply(k) => TurnMoves
  BY <1>2 DEF CompactReply
<1>15. \A c \in Conv : ConfirmDelete(c) => TurnMoves
  BY <1>2 DEF ConfirmDelete
<1>16. \A d \in deletion : Deleted(d) => TurnMoves
  BY <1>2 DEF Deleted
<1>17. \A d \in deletion : DeleteFails(d) => TurnMoves
  BY <1>2 DEF DeleteFails
<1>18. \A r \in picking : FilesRead(r) => TurnMoves
  BY <1>2 DEF FilesRead
<1>19. UNCHANGED vars => TurnMoves
  BY <1>2 DEF vars
<1> QED BY <1>4, <1>5, <1>6, <1>7, <1>8, <1>9, <1>10, <1>11, <1>12, <1>13, <1>14, <1>15,
           <1>16, <1>17, <1>18, <1>19, Zenon DEF Next, ClearChat

\* The list is emptied; or nothing is left, and it is kept, grows from the
\* archive of the open conversation, or ends with a turn that is shown, or
\* that has just been stored.
Grows(ms) == ToSet(msgs') \subseteq ToSet(msgs) \cup ms

FromArchive ==
  /\ open \in Conv /\ Stored(open) /\ UNCHANGED <<turn, store>>
  /\ Grows(ToSet(store[open]))

WithTurn(t) ==
  /\ Grows({User(t), Assistant(t)})
  /\ turn'[t].cur /\ turn'[t].phase \in {"stream", "save"} /\ turn'[t].conv = open
  /\ msgs'[Len(msgs')] = Assistant(t)
  /\ \/ msgs' = msgs \o Exchange(t) /\ turn[t].phase \in {"unsent", "compact"}
     \/ msgs' = Published(t) /\ Shown(t)

WithStored(t) ==
  /\ Grows({User(t), Assistant(t)})
  /\ turn[t].cur /\ turn[t].phase = "save" /\ turn[t].conv # NoConv
  /\ turn'[t].phase = "over"
  /\ User(t) \in ToSet(store'[open]) /\ Assistant(t) \in ToSet(store'[open])

ListMoves ==
  \/ msgs' = <<>>
  \/ /\ open' = open
     /\ \A s \in Turn : turn[s].cur => turn'[s].cur \/ turn'[s].phase \in Ended
     /\ \/ msgs' = msgs /\ \A s \in Turn : Shown(s)' => Shown(s)
        \/ FromArchive
        \/ \E t \in Turn : WithTurn(t) \/ WithStored(t)

\* What every step does to the list, as ListMoves has it.
LEMMA ListStep ==
  ASSUME TypeInv, TypeInv', Work, Room, [Next]_vars
  PROVE  ListMoves
<1> USE DEF flags, files, view
<1>1. turn \in [Turn -> TurnState] /\ msgs \in Seq(Messages)
  BY DEF TypeInv
<1>2. UNCHANGED <<msgs, open, turn>> => ListMoves
  BY DEF ListMoves, Shown
<1>3. ASSUME NEW t \in Turn, UNCHANGED <<msgs, open>>,
             End(t, "over") \/ End(t, "told") \/ End(t, "silent")
      PROVE  ListMoves
  <2>1. /\ \A s \in Turn : s # t => turn'[s] = turn[s]
        /\ turn'[t].phase \in Ended /\ ~turn'[t].cur
    BY <1>1, <1>3, EndDoes DEF Ended
  <2>2. \A s \in Turn : Shown(s)' => Shown(s)
    BY <2>1 DEF Shown
  <2> QED BY <1>3, <2>1, <2>2 DEF ListMoves
<1>4. \A c \in Route : Enter(c) => msgs' = <<>>
  BY EnterDoes
<1>5. Reload => msgs' = <<>>
  BY ReloadDoes
<1>6. \A c \in Conv \cup {NoConv} : Goto(c) => ListMoves
  BY <1>4 DEF Goto, ListMoves, Route
<1>7. ClearNewChat => ListMoves
  BY DEF ClearNewChat, ListMoves
<1>8. LoadMore \/ Compact \/ PickFiles \/ RemoveFiles => ListMoves
  BY <1>2 DEF LoadMore, Compact, PickFiles, RemoveFiles
<1>9. \A l \in loads : LoadReply(l) => ListMoves
  <2>1. SUFFICES ASSUME NEW l \in loads, LoadReply(l) PROVE ListMoves
    OBVIOUS
  <2>2. UNCHANGED <<open, turn, store>>
    BY <2>1 DEF LoadReply
  <2>3. CASE Stored(l.conv) /\ Wanted(l)
    <3>1. l.conv = open /\ open \in Conv /\ store[open] \in Seq(Messages)
      BY <2>3 DEF Wanted, Work, OneCall, TypeInv, Stored
    <3>2. Len(store[open]) + 1 \in Nat \ {0} /\ Len(store[open]) + 1 <= Len(store[open]) + 1
      BY <3>1
    <3>3. PICK b : b = Before(open, Len(store[open]) + 1)
      OBVIOUS
    <3>4. ToSet(b.messages) \subseteq ToSet(store[open])
      BY <2>3, <3>1, <3>2, <3>3, BeforeIs
    <3>5. msgs' = b.messages
      BY <2>1, <2>3, <3>1, <3>3 DEF LoadReply
    <3>6. Grows(ToSet(store[open]))
      BY <3>4, <3>5 DEF Grows
    <3> QED BY <2>2, <2>3, <3>1, <3>6 DEF ListMoves, FromArchive
  <2>4. CASE ~(Stored(l.conv) /\ Wanted(l))
    BY <1>2, <2>1, <2>2, <2>4 DEF LoadReply
  <2> QED BY <2>3, <2>4
<1>10. \A l \in loads : LoadFails(l) => ListMoves
  BY <1>2 DEF LoadFails
<1>11. \A p \in pages : PageReply(p) => ListMoves
  <2>1. SUFFICES ASSUME NEW p \in pages, PageReply(p) PROVE ListMoves
    OBVIOUS
  <2>2. UNCHANGED <<open, turn, store>>
    BY <2>1 DEF PageReply
  <2>3. CASE /\ Stored(p.conv) /\ Merges(p)
             /\ msgs' = Before(p.conv, p.before).messages \o msgs
    <3>1. p.conv = open /\ open \in Conv
      BY <2>3 DEF Merges, Work, OneCall, Stored
    <3>2. p.before \in Nat \ {0} /\ p.before <= Len(store[p.conv]) + 1
      BY <2>3 DEF Room, TypeInv, PageCall
    <3>3. PICK x : x = Before(p.conv, p.before).messages
      OBVIOUS
    <3>4. x \in Seq(Messages) /\ ToSet(x) \subseteq ToSet(store[open])
      BY <2>3, <3>1, <3>2, <3>3, BeforeIs
    <3>5. ToSet(x \o msgs) = ToSet(x) \cup ToSet(msgs)
      BY <1>1, <3>4, Joined
    <3>6. Grows(ToSet(store[open]))
      BY <2>3, <3>3, <3>4, <3>5 DEF Grows
    <3> QED BY <2>2, <2>3, <3>1, <3>6 DEF ListMoves, FromArchive
  <2>4. CASE UNCHANGED msgs
    BY <1>2, <2>2, <2>4
  <2> QED BY <2>1, <2>3, <2>4 DEF PageReply
<1>12. \A t \in Turn : Send(t) => ListMoves
  <2>1. SUFFICES ASSUME NEW t \in Turn, Send(t) PROVE ListMoves
    OBVIOUS
  <2>2. ~sending /\ open' = open
    BY <2>1 DEF Send, MaySend
  <2>3. \A r \in Turn : ~turn[r].cur
    BY <2>2 DEF Work, FlagsAgree
  <2>4. /\ turn'[t].phase \in {"compact", "stream"} /\ turn'[t].conv = open /\ turn'[t].cur
        /\ turn'[t].phase = "stream" => msgs' = msgs \o Exchange(t)
        /\ turn'[t].phase = "compact" => msgs' = msgs
    BY <2>1, SendDoes
  <2>5. CASE turn'[t].phase = "stream"
    <3>1. PICK p : p = msgs \o Exchange(t)
      OBVIOUS
    <3>2. /\ p \in Seq(Messages) /\ Len(p) = Len(msgs) + 2 /\ p[Len(msgs) + 2] = Assistant(t)
          /\ ToSet(p) = ToSet(msgs) \cup {User(t), Assistant(t)}
      BY <1>1, <3>1, DisplayedIs
    <3>3. msgs' = p
      BY <2>4, <2>5, <3>1
    <3>4. WithTurn(t)
      BY <2>1, <2>4, <2>5, <3>2, <3>3 DEF WithTurn, Grows, Send
    <3> QED BY <2>2, <2>3, <3>4 DEF ListMoves
  <2>6. CASE turn'[t].phase = "compact"
    <3>1. \A s \in Turn : s # t => ~turn'[s].cur
      BY <2>1, SendDoes
    <3>2. \A s \in Turn : ~Shown(s)'
      BY <2>6, <3>1 DEF Shown
    <3> QED BY <2>2, <2>3, <2>4, <2>6, <3>2 DEF ListMoves
  <2> QED BY <2>4, <2>5, <2>6
<1>13. \A t \in Turn : TurnCompacted(t) => ListMoves
  <2>1. SUFFICES ASSUME NEW t \in Turn, TurnCompacted(t) PROVE ListMoves
    OBVIOUS
  <2>2. open' = open
    BY <2>1 DEF TurnCompacted
  <2>3. CASE /\ turn[t].cur
             /\ turn' = [turn EXCEPT ![t].phase = "stream", ![t].history = {}]
             /\ Display(t)
    <3>1. /\ \A s \in Turn : s # t => turn'[s] = turn[s]
          /\ turn'[t].phase = "stream" /\ turn'[t].conv = turn[t].conv
          /\ turn'[t].cur = turn[t].cur
      BY <1>1, <2>3, GoesOn
    <3>2. PICK p : p = msgs \o Exchange(t)
      OBVIOUS
    <3>3. /\ p \in Seq(Messages) /\ Len(p) = Len(msgs) + 2 /\ p[Len(msgs) + 2] = Assistant(t)
          /\ ToSet(p) = ToSet(msgs) \cup {User(t), Assistant(t)}
      BY <1>1, <3>2, DisplayedIs
    <3>4. msgs' = p /\ turn[t].conv = open
      BY <2>3, <3>2 DEF Display, Work, OneTurn
    <3>5. WithTurn(t)
      BY <2>1, <2>3, <3>1, <3>2, <3>3, <3>4 DEF WithTurn, Grows, TurnCompacted
    <3>6. \A s \in Turn : turn[s].cur => turn'[s].cur
      BY <3>1
    <3> QED BY <2>2, <3>5, <3>6 DEF ListMoves
  <2>4. CASE End(t, "over") /\ UNCHANGED msgs
    BY <1>3, <2>2, <2>4
  <2> QED BY <2>1, <2>3, <2>4 DEF TurnCompacted
<1>14. ASSUME NEW t \in Turn, turn[t].cur, msgs' = Published(t), open' = open,
              \A s \in Turn : turn[s].cur => turn'[s].cur,
              turn[t].phase = "stream",
              turn'[t].phase \in {"stream", "save"}, turn'[t].conv = turn[t].conv
       PROVE  ListMoves
  <2>1. PICK p : p = Published(t)
    OBVIOUS
  <2>2. /\ p[Len(p)] = Assistant(t)
        /\ ToSet(p) \subseteq ToSet(msgs) \cup {Assistant(t)}
    BY <1>1, <2>1, PublishedIs
  <2>3. turn[t].conv = open /\ turn'[t].cur
    BY <1>14 DEF Work, OneTurn
  <2>4. WithTurn(t)
    BY <1>14, <2>1, <2>2, <2>3 DEF WithTurn, Grows, Shown
  <2> QED BY <1>14, <2>4 DEF ListMoves
<1>15. \A t \in Turn : Publish(t) => ListMoves
  BY <1>14 DEF Publish, Current
<1>16. \A t \in Turn : StreamEnds(t) => ListMoves
  <2>1. SUFFICES ASSUME NEW t \in Turn, StreamEnds(t) PROVE ListMoves
    OBVIOUS
  <2>2. open' = open /\ turn[t].phase = "stream"
    BY <2>1 DEF StreamEnds
  <2>3. CASE Current(t)
    <3>1. turn' = [turn EXCEPT ![t].phase = "save"] /\ msgs' = Published(t)
      BY <2>1, <2>3 DEF StreamEnds
    <3>2. /\ \A s \in Turn : s # t => turn'[s] = turn[s]
          /\ turn'[t].phase = "save" /\ turn'[t].conv = turn[t].conv
          /\ turn'[t].cur = turn[t].cur
      BY <1>1, <3>1, GoesOn
    <3>3. \A s \in Turn : turn[s].cur => turn'[s].cur
      BY <3>2
    <3> QED BY <1>14, <2>2, <2>3, <3>1, <3>2, <3>3 DEF Current
  <2>4. CASE ~Current(t)
    BY <1>3, <2>1, <2>2, <2>4 DEF StreamEnds
  <2> QED BY <2>3, <2>4
<1>17. \A t \in Turn : AppendTurn(t) => ListMoves
  <2>1. SUFFICES ASSUME NEW t \in Turn, AppendTurn(t) PROVE ListMoves
    OBVIOUS
  <2>2. /\ open' = open /\ End(t, "over") /\ Stored(turn[t].conv)
        /\ turn[t].phase = "save" /\ turn[t].conv # NoConv
        /\ store' = [store EXCEPT ![turn[t].conv] = @ \o Exchange(t)]
        /\ msgs' = IF turn[t].cur
                   THEN SubSeq(msgs, 1, Len(msgs) - 2) \o Exchange(t) ELSE msgs
    BY <2>1 DEF AppendTurn
  <2>3. CASE turn[t].cur
    <3>1. /\ \A s \in Turn : s # t => turn'[s] = turn[s]
          /\ turn'[t].phase = "over"
      BY <1>1, <2>2, EndDoes
    <3>2. PICK p : p = SubSeq(msgs, 1, Len(msgs) - 2) \o Exchange(t)
      OBVIOUS
    <3>3. ToSet(p) \subseteq ToSet(msgs) \cup {User(t), Assistant(t)}
      BY <1>1, <3>2, AppendedIs
    <3>4. ToSet(store'[turn[t].conv]) = ToSet(store[turn[t].conv]) \cup {User(t), Assistant(t)}
      BY <2>2, AppendStores
    <3>5. turn[t].conv = open
      BY <2>3 DEF Work, OneTurn
    <3>6. User(t) \in ToSet(store'[open]) /\ Assistant(t) \in ToSet(store'[open])
      BY <3>4, <3>5
    <3>7. Grows({User(t), Assistant(t)})
      BY <2>2, <2>3, <3>2, <3>3 DEF Grows
    <3>8. WithStored(t)
      BY <2>2, <2>3, <3>1, <3>6, <3>7 DEF WithStored
    <3>9. \A s \in Turn : turn[s].cur => turn'[s].cur \/ turn'[s].phase \in Ended
      BY <3>1 DEF Ended
    <3> QED BY <2>2, <3>8, <3>9 DEF ListMoves
  <2>4. CASE ~turn[t].cur
    BY <1>3, <2>2, <2>4
  <2> QED BY <2>3, <2>4
<1>18. \A t \in Turn : AppendFails(t) \/ CreateFails(t) => ListMoves
  BY <1>3 DEF AppendFails, CreateFails, AfterFailure
<1>19. \A t \in Turn, c \in Conv : Create(t, c) => ListMoves
  <2>1. SUFFICES ASSUME NEW t \in Turn, NEW c \in Conv, Create(t, c) PROVE ListMoves
    OBVIOUS
  <2>2. Enter(c) \/ Reload
    BY <2>1, CreateDoes
  <2>3. c \in Route
    BY DEF Route
  <2> QED BY <1>4, <1>5, <2>2, <2>3 DEF ListMoves
<1>20. \A k \in summary : CompactReply(k) => ListMoves
  BY <1>2 DEF CompactReply
<1>21. \A c \in Conv : ConfirmDelete(c) => ListMoves
  BY <1>2, <1>5 DEF ConfirmDelete, ListMoves
<1>22. \A d \in deletion : Deleted(d) => ListMoves
  <2>1. NoConv \in Route
    BY DEF Route
  <2> QED BY <1>2, <1>4, <2>1 DEF Deleted, ListMoves
<1>23. \A d \in deletion : DeleteFails(d) => ListMoves
  BY <1>2, <1>5 DEF DeleteFails, ListMoves
<1>24. \A r \in picking : FilesRead(r) => ListMoves
  BY <1>2 DEF FilesRead
<1>25. UNCHANGED vars => ListMoves
  BY <1>2 DEF vars
<1> QED BY <1>6, <1>7, <1>8, <1>9, <1>10, <1>11, <1>12, <1>13, <1>15, <1>16, <1>17, <1>18,
           <1>19, <1>20, <1>21, <1>22, <1>23, <1>24, <1>25, Zenon DEF Next, ClearChat
-----------------------------------------------------------------------------
(* The turn under way is the last the list shows.                           *)

\* What a step has to show to keep Displayed.
LEMMA DisplayedKept ==
  ASSUME Displayed, raced => raced',
         \A t \in Turn : Shown(t)' => Shown(t),
         msgs' = msgs, loaded' = loaded
  PROVE  Displayed'
<1>1. ASSUME ~raced', NEW t \in Turn, Shown(t)' PROVE AtEnd(t)'
  <2>1. AtEnd(t)
    BY <1>1 DEF Displayed
  <2> QED BY <2>1 DEF AtEnd
<1> QED BY <1>1 DEF Displayed

\* The turn shown is the current one; there is no other.
LEMMA DisplayedOne ==
  ASSUME NEW t \in Turn, \A s \in Turn : turn'[s].cur => s = t,
         ~raced' /\ Shown(t)' => AtEnd(t)'
  PROVE  Displayed'
  BY DEF Displayed, Shown

\* Every step keeps the turn that is shown at the end of the list.
LEMMA DisplayedStep ==
  ASSUME TypeInv, TypeInv', Work, Work', Displayed, [Next]_vars
  PROVE  Displayed'
<1> USE DEF flags, files, view
<1>1. turn \in [Turn -> TurnState] /\ msgs \in Seq(Messages) /\ loaded \in BOOLEAN
  BY DEF TypeInv
<1>2. turn' = StaleTurns(turn) => Displayed'
  BY <1>1, StaleTurnsAre DEF Displayed, Shown
<1>3. UNCHANGED <<turn, msgs, loaded>> /\ (raced => raced') => Displayed'
  BY DisplayedKept DEF Shown
<1>5. ASSUME NEW t \in Turn, UNCHANGED <<msgs, loaded>>, raced => raced',
             End(t, "over") \/ End(t, "told") \/ End(t, "silent")
      PROVE  Displayed'
  <2>1. ~turn'[t].cur /\ \A s \in Turn : s # t => turn'[s] = turn[s]
    BY <1>1, <1>5, EndDoes
  <2>2. \A s \in Turn : Shown(s)' => Shown(s)
    BY <2>1 DEF Shown
  <2> QED BY <1>5, <2>2, DisplayedKept
<1>6. Reload /\ UNCHANGED turn => Displayed'
  <2>1. SUFFICES ASSUME Reload, UNCHANGED turn PROVE Displayed'
    OBVIOUS
  <2>2. raced' = (raced \/ (\E t \in Turn : Shown(t)) \/ \E p \in pages : p.cur)
    BY <2>1, ReloadDoes
  <2> QED BY <2>1, <2>2 DEF Displayed, Shown
<1>7. \A c \in Conv \cup {NoConv} : Goto(c) => Displayed'
  BY <1>2 DEF Goto
<1>8. ClearNewChat => Displayed'
  BY <1>2 DEF ClearNewChat
<1>9. LoadMore \/ Compact \/ PickFiles \/ RemoveFiles => Displayed'
  BY <1>3 DEF LoadMore, Compact, PickFiles, RemoveFiles
<1>10. \A l \in loads : LoadReply(l) \/ LoadFails(l) => Displayed'
  <2>1. SUFFICES ASSUME NEW l \in loads, LoadReply(l) \/ LoadFails(l) PROVE Displayed'
    OBVIOUS
  <2>2. UNCHANGED <<turn, raced>>
    BY <2>1 DEF LoadReply, LoadFails
  <2>3. CASE l.live
    <3>1. ~loaded
      BY <2>3 DEF Work, OneCall
    <3> QED BY <2>2, <3>1 DEF Displayed, AtEnd, Shown
  <2>4. CASE ~l.live
    BY <1>3, <2>1, <2>2, <2>4 DEF LoadReply, LoadFails, Wanted
  <2> QED BY <2>3, <2>4
<1>11. \A p \in pages : PageReply(p) => Displayed'
  <2>1. SUFFICES ASSUME NEW p \in pages, PageReply(p) PROVE Displayed'
    OBVIOUS
  <2>2. UNCHANGED <<turn, raced, loaded>>
    BY <2>1 DEF PageReply
  <2>3. CASE p.cur
    <3>1. paging /\ ~busy
      BY <2>3 DEF Work, FlagsAgree
    <3>2. \A t \in Turn : ~turn[t].cur
      BY <3>1 DEF Work, FlagsAgree
    <3> QED BY <2>2, <3>2 DEF Displayed, Shown
  <2>4. CASE ~p.cur
    BY <1>3, <2>1, <2>2, <2>4 DEF PageReply, Merges
  <2> QED BY <2>3, <2>4
<1>12. ASSUME NEW t \in Turn, msgs' = msgs \o Exchange(t), loaded' \/ raced', turn'[t].cur
       PROVE  Displayed'
  <2>1. PICK p : p = msgs \o Exchange(t)
    OBVIOUS
  <2>2. /\ Len(p) = Len(msgs) + 2 /\ p[Len(msgs) + 1] = User(t)
        /\ p[Len(msgs) + 2] = Assistant(t)
    BY <1>1, <2>1, DisplayedIs
  <2>3. msgs' = p /\ Len(msgs) \in Nat
    BY <1>1, <1>12, <2>1
  <2>4. Len(msgs') >= 2 /\ Len(msgs') - 1 = Len(msgs) + 1 /\ Len(msgs') = Len(msgs) + 2
    BY <2>2, <2>3
  <2>5. loaded' => AtEnd(t)'
    BY <2>2, <2>3, <2>4 DEF AtEnd
  <2>6. \A s \in Turn : turn'[s].cur => s = t
    BY <1>12 DEF Work, OneTurn
  <2> QED BY <1>12, <2>5, <2>6, DisplayedOne
<1>13. \A t \in Turn : Send(t) => Displayed'
  <2>1. SUFFICES ASSUME NEW t \in Turn, Send(t) PROVE Displayed'
    OBVIOUS
  <2>2. /\ turn'[t].phase \in {"compact", "stream"} /\ turn'[t].cur
        /\ turn'[t].phase = "stream" => msgs' = msgs \o Exchange(t)
    BY <2>1, SendDoes
  <2>3. loaded'
    BY <2>1 DEF Send, MaySend
  <2>4. CASE turn'[t].phase = "stream"
    BY <1>12, <2>2, <2>3, <2>4
  <2>5. CASE turn'[t].phase = "compact"
    <3>1. ~Shown(t)'
      BY <2>5 DEF Shown
    <3>2. \A s \in Turn : turn'[s].cur => s = t
      BY <2>2 DEF Work, OneTurn
    <3> QED BY <3>1, <3>2, DisplayedOne
  <2> QED BY <2>2, <2>4, <2>5
<1>14. \A t \in Turn : TurnCompacted(t) => Displayed'
  <2>1. SUFFICES ASSUME NEW t \in Turn, TurnCompacted(t) PROVE Displayed'
    OBVIOUS
  <2>2. loaded' = loaded
    BY <2>1 DEF TurnCompacted
  <2>3. CASE /\ turn[t].cur
             /\ turn' = [turn EXCEPT ![t].phase = "stream", ![t].history = {}]
             /\ Display(t)
             /\ raced' = (raced \/ ~loaded)
    <3>1. turn'[t].cur = turn[t].cur
      BY <1>1, <2>3, GoesOn
    <3> QED BY <1>1, <1>12, <2>2, <2>3, <3>1 DEF Display
  <2>4. CASE End(t, "over") /\ UNCHANGED <<msgs, raced>>
    BY <1>5, <2>2, <2>4
  <2> QED BY <2>1, <2>3, <2>4 DEF TurnCompacted
<1>15. ASSUME NEW t \in Turn, Shown(t), msgs' = Published(t), UNCHANGED <<loaded, raced>>,
              \A s \in Turn : turn'[s].cur = turn[s].cur
       PROVE  Displayed'
  <2>1. ASSUME ~raced' PROVE AtEnd(t)'
    <3>1. AtEnd(t)
      BY <1>15, <2>1 DEF Displayed
    <3>2. Len(msgs) > 0 /\ msgs[Len(msgs)] = Assistant(t)
      BY <1>1, <3>1 DEF AtEnd
    <3>3. msgs' = msgs
      BY <1>1, <1>15, <3>2, PublishedIs
    <3> QED BY <1>15, <3>1, <3>3 DEF AtEnd
  <2>2. \A s \in Turn : turn'[s].cur => s = t
    BY <1>15 DEF Work, OneTurn, Shown
  <2> QED BY <2>1, <2>2, DisplayedOne
<1>16. \A t \in Turn : Publish(t) => Displayed'
  BY <1>15 DEF Publish, Current, Shown
<1>17. \A t \in Turn : StreamEnds(t) => Displayed'
  <2>1. SUFFICES ASSUME NEW t \in Turn, StreamEnds(t) PROVE Displayed'
    OBVIOUS
  <2>2. turn[t].phase = "stream" /\ UNCHANGED <<loaded, raced>>
    BY <2>1 DEF StreamEnds
  <2>3. CASE Current(t)
    <3>1. turn' = [turn EXCEPT ![t].phase = "save"] /\ msgs' = Published(t)
      BY <2>1, <2>3 DEF StreamEnds
    <3>2. /\ \A s \in Turn : s # t => turn'[s] = turn[s]
          /\ turn'[t].cur = turn[t].cur
      BY <1>1, <3>1, GoesOn
    <3>3. \A s \in Turn : turn'[s].cur = turn[s].cur
      BY <3>2
    <3> QED BY <1>15, <2>2, <2>3, <3>1, <3>3 DEF Current, Shown
  <2>4. CASE ~Current(t)
    BY <1>5, <2>1, <2>2, <2>4 DEF StreamEnds
  <2> QED BY <2>3, <2>4
<1>18. \A t \in Turn : AppendTurn(t) => Displayed'
  <2>1. SUFFICES ASSUME NEW t \in Turn, AppendTurn(t) PROVE Displayed'
    OBVIOUS
  <2>2. /\ End(t, "over") /\ loaded' = loaded
        /\ raced' = (raced \/ (~turn[t].cur /\ open = turn[t].conv))
        /\ msgs' = IF turn[t].cur
                   THEN SubSeq(msgs, 1, Len(msgs) - 2) \o Exchange(t) ELSE msgs
    BY <2>1 DEF AppendTurn
  <2>3. CASE turn[t].cur
    <3>1. ~turn'[t].cur /\ \A s \in Turn : s # t => turn'[s] = turn[s]
      BY <1>1, <2>2, EndDoes
    <3>2. \A s \in Turn : ~turn'[s].cur
      BY <2>3, <3>1 DEF Work, OneTurn
    <3> QED BY <3>2 DEF Displayed, Shown
  <2>4. CASE ~turn[t].cur
    BY <1>5, <2>2, <2>4
  <2> QED BY <2>3, <2>4
<1>19. \A t \in Turn : AppendFails(t) \/ CreateFails(t) => Displayed'
  <2>1. SUFFICES ASSUME NEW t \in Turn, AppendFails(t) \/ CreateFails(t) PROVE Displayed'
    OBVIOUS
  <2>2. /\ UNCHANGED <<msgs, loaded>> /\ (raced => raced')
        /\ End(t, "told") \/ End(t, "silent")
    <3>1. CASE AppendFails(t)
      <4>1. End(t, "told") /\ UNCHANGED <<msgs, loaded>>
        BY <3>1 DEF AppendFails, AfterFailure
      <4>2. raced => raced'
        BY <3>1 DEF AppendFails
      <4> QED BY <4>1, <4>2
    <3>2. CASE CreateFails(t)
      BY <3>2 DEF CreateFails
    <3> QED BY <2>1, <3>1, <3>2
  <2> QED BY <1>5, <2>2
<1>20. \A t \in Turn, c \in Conv : Create(t, c) => Displayed'
  <2>1. SUFFICES ASSUME NEW t \in Turn, NEW c \in Conv, Create(t, c) PROVE Displayed'
    OBVIOUS
  <2>2. /\ \A s \in Turn : s # t => IF turn[t].cur THEN ~turn'[s].cur ELSE turn'[s] = turn[s]
        /\ ~turn'[t].cur
        /\ ~turn[t].cur => Reload
    BY <2>1, CreateDoes
  <2>3. CASE turn[t].cur
    BY <2>2, <2>3 DEF Displayed, Shown
  <2>4. CASE ~turn[t].cur
    <3>1. raced' = (raced \/ (\E s \in Turn : Shown(s)) \/ \E p \in pages : p.cur)
      BY <2>2, <2>4, ReloadDoes
    <3>2. \A s \in Turn : Shown(s)' => Shown(s)
      BY <2>2, <2>4 DEF Shown
    <3> QED BY <3>1, <3>2 DEF Displayed
  <2> QED BY <2>3, <2>4
<1>21. \A k \in summary : CompactReply(k) => Displayed'
  BY <1>3 DEF CompactReply
<1>22. \A c \in Conv : ConfirmDelete(c) => Displayed'
  BY <1>3, <1>6 DEF ConfirmDelete
<1>23. \A d \in deletion : Deleted(d) => Displayed'
  BY <1>2, <1>3 DEF Deleted
<1>24. \A d \in deletion : DeleteFails(d) => Displayed'
  BY <1>3, <1>6 DEF DeleteFails
<1>25. \A r \in picking : FilesRead(r) => Displayed'
  BY <1>3 DEF FilesRead
<1>26. UNCHANGED vars => Displayed'
  BY <1>3 DEF vars
<1> QED BY <1>7, <1>8, <1>9, <1>10, <1>11, <1>13, <1>14, <1>16, <1>17, <1>18, <1>19, <1>20,
           <1>21, <1>22, <1>23, <1>24, <1>25, <1>26, Zenon DEF Next, ClearChat
-----------------------------------------------------------------------------
(* Where the messages of the turns are.                                     *)

\* A turn that has ended does not begin again.
LEMMA EndedStays ==
  ASSUME TurnMoves, NEW s \in Turn, turn[s].phase \in Ended
  PROVE  turn'[s].phase = turn[s].phase
  BY DEF TurnMoves, Ended, Active

\* What a stored conversation is after a step.
LEMMA StoredBecomes ==
  ASSUME TypeInv, StoreMoves, NEW c \in Conv, Stored(c)'
  PROVE  \/ Stored(c) /\ store'[c] = store[c]
         \/ \E t \in Turn :
              /\ Appends(t) /\ turn[t].conv = c /\ Stored(c)
              /\ ToSet(store'[c]) = ToSet(store[c]) \cup {User(t), Assistant(t)}
              /\ store'[c] = store[c] \o Exchange(t)
              /\ \A d \in Conv : d # c => store'[d] = store[d]
         \/ \E t \in Turn :
              /\ Creates(t, c)
              /\ ToSet(store'[c]) = ToSet(turn[t].base) \cup {User(t), Assistant(t)}
              /\ store'[c] = turn[t].base \o Exchange(t)
              /\ \A d \in Conv : d # c => store'[d] = store[d]
<1>1. store'[c] # Unused /\ store'[c] # Gone
  BY DEF Stored
<1>2. CASE store' = store
  BY <1>1, <1>2 DEF Stored
<1>3. CASE \E d \in Conv : store' = [store EXCEPT ![d] = Gone]
  <2>1. PICK d \in Conv : store' = [store EXCEPT ![d] = Gone]
    BY <1>3
  <2>2. store'[d] = Gone /\ \A e \in Conv : e # d => store'[e] = store[e]
    BY <2>1, StoreDoes
  <2> QED BY <1>1, <2>2 DEF Stored
<1>4. CASE \E t \in Turn : Appends(t)
  <2>1. PICK t \in Turn : Appends(t)
    BY <1>4
  <2>2. PICK d : d = turn[t].conv
    OBVIOUS
  <2>3. Stored(turn[t].conv) /\ store' = [store EXCEPT ![turn[t].conv] = @ \o Exchange(t)]
    BY <2>1 DEF Appends
  <2>4. /\ ToSet(store'[d]) = ToSet(store[d]) \cup {User(t), Assistant(t)}
        /\ store'[d] = store[d] \o Exchange(t)
        /\ \A e \in Conv : e # d => store'[e] = store[e]
    BY <2>2, <2>3, AppendStores
  <2> QED BY <1>1, <2>1, <2>2, <2>3, <2>4 DEF Stored
<1>5. CASE \E t \in Turn, d \in Conv : Creates(t, d)
  <2>1. PICK t \in Turn, d \in Conv : Creates(t, d)
    BY <1>5
  <2>2. store' = [store EXCEPT ![d] = Transcript(t)]
    BY <2>1 DEF Creates
  <2>3. /\ Transcript(t) \in Seq(Messages)
        /\ ToSet(Transcript(t)) = ToSet(turn[t].base) \cup {User(t), Assistant(t)}
    BY TranscriptIs DEF TypeInv
  <2>4. store'[d] = Transcript(t) /\ \A e \in Conv : e # d => store'[e] = store[e]
    BY <2>2, <2>3, StoreDoes
  <2>5. Transcript(t) = turn[t].base \o Exchange(t)
    BY DEF Transcript
  <2> QED BY <1>1, <2>1, <2>3, <2>4, <2>5 DEF Stored
<1> QED BY <1>2, <1>3, <1>4, <1>5 DEF StoreMoves

\* From here on, a step is known by TurnMoves, StoreMoves and ListMoves alone.
LEMMA StoredPlacedStep ==
  ASSUME TypeInv, TurnMoves, StoreMoves, StoredPlaced, BasePlaced
  PROVE  StoredPlaced'
<1>1. SUFFICES ASSUME NEW c \in Conv, Stored(c)', NEW m \in ToSet(store'[c]), m[1] \in Turn
      PROVE  /\ turn'[m[1]].phase \in Ended
             /\ turn'[m[1]].phase = "over" =>
                  User(m[1]) \in ToSet(store'[c]) /\ Assistant(m[1]) \in ToSet(store'[c])
  BY DEF StoredPlaced
<1>2. ASSUME Stored(c), m \in ToSet(store[c]), ToSet(store[c]) \subseteq ToSet(store'[c])
      PROVE  /\ turn'[m[1]].phase \in Ended
             /\ turn'[m[1]].phase = "over" =>
                  User(m[1]) \in ToSet(store'[c]) /\ Assistant(m[1]) \in ToSet(store'[c])
  <2>1. /\ turn[m[1]].phase \in Ended
        /\ turn[m[1]].phase = "over" =>
             User(m[1]) \in ToSet(store[c]) /\ Assistant(m[1]) \in ToSet(store[c])
    BY <1>1, <1>2 DEF StoredPlaced
  <2>2. turn'[m[1]].phase = turn[m[1]].phase
    BY <1>1, <2>1, EndedStays
  <2> QED BY <1>2, <2>1, <2>2
<1>3. CASE Stored(c) /\ store'[c] = store[c]
  BY <1>1, <1>2, <1>3
<1>4. ASSUME NEW t \in Turn, m \in {User(t), Assistant(t)},
             User(t) \in ToSet(store'[c]), Assistant(t) \in ToSet(store'[c]),
             turn'[t].phase \in Ended
      PROVE  /\ turn'[m[1]].phase \in Ended
             /\ turn'[m[1]].phase = "over" =>
                  User(m[1]) \in ToSet(store'[c]) /\ Assistant(m[1]) \in ToSet(store'[c])
  <2>1. m[1] = t
    BY <1>4, OfATurn
  <2> QED BY <1>4, <2>1
<1>5. ASSUME NEW t \in Turn, Appends(t), Stored(c),
             ToSet(store'[c]) = ToSet(store[c]) \cup {User(t), Assistant(t)}
      PROVE  /\ turn'[m[1]].phase \in Ended
             /\ turn'[m[1]].phase = "over" =>
                  User(m[1]) \in ToSet(store'[c]) /\ Assistant(m[1]) \in ToSet(store'[c])
  <2>1. turn'[t].phase \in Ended
    BY <1>5 DEF Appends, Ended
  <2> QED BY <1>1, <1>2, <1>4, <1>5, <2>1
<1>6. ASSUME NEW t \in Turn, Creates(t, c),
             ToSet(store'[c]) = ToSet(turn[t].base) \cup {User(t), Assistant(t)}
      PROVE  /\ turn'[m[1]].phase \in Ended
             /\ turn'[m[1]].phase = "over" =>
                  User(m[1]) \in ToSet(store'[c]) /\ Assistant(m[1]) \in ToSet(store'[c])
  <2>1. turn'[t].phase \in Ended
    BY <1>6 DEF Creates, Ended
  <2>2. CASE m \in ToSet(turn[t].base)
    <3>1. turn[m[1]].phase = "silent"
      BY <2>2 DEF BasePlaced
    <3>2. turn'[m[1]].phase = "silent"
      BY <1>1, <3>1, EndedStays DEF Ended
    <3> QED BY <3>2 DEF Ended
  <2>3. CASE m \in {User(t), Assistant(t)}
    BY <1>4, <1>6, <2>1, <2>3
  <2> QED BY <1>1, <1>6, <2>2, <2>3
<1> QED BY <1>1, <1>3, <1>5, <1>6, StoredBecomes

LEMMA BasePlacedStep ==
  ASSUME TypeInv, TurnMoves, BasePlaced, ListPlaced, NewChatPlaced
  PROVE  BasePlaced'
<1>1. SUFFICES ASSUME NEW s \in Turn, NEW m \in ToSet(turn'[s].base)
      PROVE  /\ m[1] \in Turn /\ turn'[m[1]].phase = "silent"
             /\ turn'[s].phase \in Active /\ turn'[s].conv = NoConv
  BY DEF BasePlaced
<1>2. ASSUME m[1] \in Turn, turn[m[1]].phase = "silent" PROVE turn'[m[1]].phase = "silent"
  BY <1>2, EndedStays DEF Ended
<1>3. ToSet(<<>>) = {}
  BY DEF ToSet
<1>4. CASE turn'[s].base = turn[s].base /\ turn'[s].phase = turn[s].phase /\ turn'[s].conv = turn[s].conv
  BY <1>1, <1>2, <1>4 DEF BasePlaced
<1>5. CASE turn'[s].base = <<>>
  BY <1>1, <1>3, <1>5
<1>6. CASE /\ <<turn[s].phase, turn'[s].phase>> \in {<<"compact", "stream">>, <<"stream", "save">>}
           /\ turn'[s].conv = turn[s].conv /\ turn'[s].base = turn[s].base
  <2>1. turn'[s].phase \in Active
    BY <1>6 DEF Active
  <2> QED BY <1>1, <1>2, <1>6, <2>1 DEF BasePlaced
<1>7. CASE /\ turn'[s].phase \in {"compact", "stream"} /\ turn'[s].conv = open
           /\ turn'[s].base = (IF open = NoConv THEN msgs ELSE <<>>)
           /\ \A r \in Turn : ~turn[r].cur
  <2>1. open = NoConv /\ m \in ToSet(msgs)
    BY <1>1, <1>3, <1>7
  <2>2. m[1] \in Turn /\ turn[m[1]].phase = "silent"
    BY <1>7, <2>1 DEF NewChatPlaced, ListPlaced
  <2> QED BY <1>2, <1>7, <2>1, <2>2 DEF Active
<1> QED BY <1>4, <1>5, <1>6, <1>7 DEF TurnMoves

LEMMA ListPlacedStep ==
  ASSUME TypeInv, TurnMoves, ListMoves, StoredPlaced, ListPlaced
  PROVE  ListPlaced'
<1> DEFINE Good(m) == /\ turn'[m[1]].phase \notin {"unsent", "compact"}
                      /\ turn'[m[1]].phase \in {"stream", "save"} => turn'[m[1]].cur
<1>1. SUFFICES ASSUME NEW m \in ToSet(msgs'), m[1] \in Turn PROVE Good(m)
  BY DEF ListPlaced
<1>2. ASSUME m \in ToSet(msgs),
             \A s \in Turn : turn[s].cur => turn'[s].cur \/ turn'[s].phase \in Ended
      PROVE  Good(m)
  <2>1. PICK s \in Turn : s = m[1]
    BY <1>1
  <2>2. /\ turn[s].phase \notin {"unsent", "compact"}
        /\ turn[s].phase \in {"stream", "save"} => turn[s].cur
    BY <1>2, <2>1 DEF ListPlaced
  <2>3. turn[s].cur => turn'[s].cur \/ turn'[s].phase \in Ended
    BY <1>2
  <2>4. /\ turn'[s].phase \notin {"unsent", "compact"}
        /\ turn'[s].phase \in {"stream", "save"} => turn'[s].cur
    BY <2>2, <2>3 DEF TurnMoves, Ended
  <2> QED BY <2>1, <2>4
<1>3. CASE msgs' = <<>>
  <2>1. ToSet(<<>>) = {}
    BY DEF ToSet
  <2> QED BY <1>1, <1>3, <2>1
<1>4. ASSUME FromArchive, m \in ToSet(store[open]) PROVE Good(m)
  <2>1. turn[m[1]].phase \in Ended /\ turn' = turn
    BY <1>1, <1>4 DEF FromArchive, StoredPlaced
  <2> QED BY <2>1 DEF Ended
<1>5. ASSUME NEW t \in Turn, WithTurn(t) \/ WithStored(t), m \in {User(t), Assistant(t)} PROVE Good(m)
  <2>1. m[1] = t
    BY <1>5, OfATurn
  <2>2. \/ turn'[t].cur /\ turn'[t].phase \in {"stream", "save"}
        \/ turn'[t].phase = "over"
    BY <1>5 DEF WithTurn, WithStored
  <2> QED BY <2>1, <2>2
<1> HIDE DEF Good
<1>6. CASE /\ \A s \in Turn : turn[s].cur => turn'[s].cur \/ turn'[s].phase \in Ended
           /\ \/ msgs' = msgs
              \/ FromArchive
              \/ \E t \in Turn : WithTurn(t) \/ WithStored(t)
  <2>1. CASE msgs' = msgs
    BY <1>1, <1>2, <1>6, <2>1
  <2>2. CASE FromArchive
    BY <1>1, <1>2, <1>4, <1>6, <2>2 DEF FromArchive, Grows
  <2>3. CASE \E t \in Turn : WithTurn(t) \/ WithStored(t)
    BY <1>1, <1>2, <1>5, <1>6, <2>3 DEF WithTurn, WithStored, Grows
  <2> QED BY <1>6, <2>1, <2>2, <2>3
<1> QED BY <1>3, <1>6 DEF ListMoves

LEMMA NewChatPlacedStep ==
  ASSUME TypeInv, Work, Work', TurnMoves, ListMoves, ListPlaced, NewChatPlaced
  PROVE  NewChatPlaced'
<1>1. SUFFICES ASSUME open' = NoConv
      PROVE  /\ \A m \in ToSet(msgs') :
                  m[1] \in Turn /\ turn'[m[1]].phase \in {"stream", "save", "silent"}
             /\ \A t \in Turn : Shown(t)' => msgs' = <<>> \/ msgs'[Len(msgs')] = Assistant(t)
  BY DEF NewChatPlaced, Shown
<1>2. CASE msgs' = <<>>
  <2>1. ToSet(<<>>) = {}
    BY DEF ToSet
  <2> QED BY <1>2, <2>1
<1>3. ASSUME open = NoConv, msgs' # <<>>, NEW m \in ToSet(msgs)
      PROVE  m[1] \in Turn /\ turn'[m[1]].phase \in {"stream", "save", "silent"}
  <2>1. m[1] \in Turn /\ turn[m[1]].phase \in {"stream", "save", "silent"}
    BY <1>3 DEF NewChatPlaced
  <2>2. PICK s \in Turn : s = m[1]
    BY <2>1
  <2>3. turn[s].phase \in {"stream", "save"} => turn[s].cur /\ turn[s].conv = NoConv
    BY <1>3, <2>2 DEF ListPlaced, Work, OneTurn
  <2>4. turn'[s].phase \in {"stream", "save", "silent"}
    BY <1>3, <2>1, <2>2, <2>3 DEF TurnMoves, EndsWell, Left, Active
  <2> QED BY <2>2, <2>4
<1>4. CASE /\ open' = open /\ msgs' # <<>>
           /\ \/ msgs' = msgs /\ \A s \in Turn : Shown(s)' => Shown(s)
              \/ FromArchive
              \/ \E t \in Turn : WithTurn(t) \/ WithStored(t)
  <2>1. CASE msgs' = msgs /\ \A s \in Turn : Shown(s)' => Shown(s)
    BY <1>1, <1>3, <1>4, <2>1 DEF NewChatPlaced
  <2>2. CASE FromArchive
    BY <1>1, <1>4, <2>2, ConvAssumption DEF FromArchive
  <2>3. ASSUME NEW t \in Turn, WithTurn(t)
        PROVE  /\ \A m \in ToSet(msgs') :
                    m[1] \in Turn /\ turn'[m[1]].phase \in {"stream", "save", "silent"}
               /\ \A s \in Turn : Shown(s)' => msgs' = <<>> \/ msgs'[Len(msgs')] = Assistant(s)
    <3>1. ASSUME NEW m \in {User(t), Assistant(t)}
          PROVE  m[1] \in Turn /\ turn'[m[1]].phase \in {"stream", "save", "silent"}
      <4>1. m[1] = t
        BY <3>1, OfATurn
      <4> QED BY <2>3, <4>1 DEF WithTurn
    <3>2. ToSet(msgs') \subseteq ToSet(msgs) \cup {User(t), Assistant(t)}
      BY <2>3 DEF WithTurn, Grows
    <3>3. \A s \in Turn : Shown(s)' => s = t
      BY <2>3 DEF WithTurn, Shown, Work, OneTurn
    <3> QED BY <1>1, <1>3, <1>4, <2>3, <3>1, <3>2, <3>3 DEF WithTurn
  <2>4. ASSUME NEW t \in Turn, WithStored(t) PROVE FALSE
    BY <1>1, <1>4, <2>4 DEF WithStored, Work, OneTurn
  <2> QED BY <1>4, <2>1, <2>2, <2>3, <2>4
<1> QED BY <1>1, <1>2, <1>4 DEF ListMoves
-----------------------------------------------------------------------------
(* No message is twice anywhere.                                            *)

\* Once, which counts positions, is NoneTwice, which counts elements.
LEMMA OnceIsNoneTwice ==
  ASSUME NEW S, NEW s \in Seq(S)
  PROVE  Once(s) <=> NoneTwice(s)
<1> DEFINE I == 1..Len(s)
           T == ToSet(s)
<1>1. Len(s) \in Nat /\ s \in [I -> T] /\ T = {s[i] : i \in I}
  BY Elements
<1>2. IsFiniteSet(I) /\ Cardinality(I) = Len(s)
  <2>1. 1 \in Int /\ Len(s) \in Int /\ (IF 1 > Len(s) THEN 0 ELSE Len(s) - 1 + 1) = Len(s)
    BY <1>1
  <2> QED BY <2>1, FS_Interval
<1> HIDE DEF I, T
<1>3. s \in Surjection(I, T)
  <2>1. \A x \in T : \E i \in I : s[i] = x
    BY <1>1
  <2> QED BY <1>1, <2>1, Fun_IsSurj
<1>4. Cardinality(T) = Cardinality(I) <=> s \in Injection(I, T)
  BY <1>2, <1>3, FS_Surjection
<1>5. s \in Injection(I, T) <=> \A i, j \in I : s[i] = s[j] => i = j
  BY <1>1, Fun_IsInj, Fun_InjectionProperties
<1> QED BY <1>2, <1>4, <1>5 DEF Once, NoneTwice, I, T

\* Two lists without a message in common, and without a repetition each.
LEMMA OnceJoined ==
  ASSUME NEW S, NEW s \in Seq(S), NEW e \in Seq(S), Once(s), Once(e),
         ToSet(s) \cap ToSet(e) = {}
  PROVE  Once(s \o e)
<1>1. /\ s \o e \in Seq(S) /\ Len(s \o e) = Len(s) + Len(e)
      /\ \A i \in 1..Len(s) : (s \o e)[i] = s[i]
      /\ \A i \in 1..Len(e) : (s \o e)[Len(s) + i] = e[i]
  BY Joined
<1>2. PICK p \in Seq(S) : p = s \o e
  BY <1>1
<1>3. Len(s) \in Nat /\ Len(e) \in Nat
  OBVIOUS
<1>4. ASSUME NEW i \in 1..Len(p)
      PROVE  \/ i \in 1..Len(s) /\ p[i] = s[i] /\ p[i] \in ToSet(s)
             \/ /\ i - Len(s) \in 1..Len(e) /\ p[i] = e[i - Len(s)]
                /\ p[i] \in ToSet(e)
  <2>1. i \in 1..Len(s) + Len(e)
    BY <1>1, <1>2
  <2>2. CASE i <= Len(s)
    <3>1. i \in 1..Len(s) /\ p[i] = s[i]
      BY <1>1, <1>2, <1>3, <2>1, <2>2
    <3> QED BY <3>1, Elements
  <2>3. CASE ~(i <= Len(s))
    <3>1. i - Len(s) \in 1..Len(e) /\ Len(s) + (i - Len(s)) = i
      BY <1>3, <2>1, <2>3
    <3>2. p[i] = e[i - Len(s)]
      BY <1>1, <1>2, <3>1
    <3> QED BY <3>1, <3>2, Elements
  <2> QED BY <2>2, <2>3
<1>5. ASSUME NEW i \in 1..Len(p), NEW j \in 1..Len(p), p[i] = p[j] PROVE i = j
  <2>1. CASE /\ i \in 1..Len(s) /\ p[i] = s[i] /\ p[i] \in ToSet(s)
             /\ j \in 1..Len(s) /\ p[j] = s[j]
    BY <1>5, <2>1 DEF Once
  <2>2. CASE /\ i - Len(s) \in 1..Len(e) /\ p[i] = e[i - Len(s)]
             /\ j - Len(s) \in 1..Len(e) /\ p[j] = e[j - Len(s)]
    <3>1. i - Len(s) = j - Len(s)
      BY <1>5, <2>2 DEF Once
    <3> QED BY <1>3, <3>1
  <2> QED BY <1>4, <1>5, <2>1, <2>2
<1> QED BY <1>2, <1>5 DEF Once

\* A list with a turn whose messages it has not had.
LEMMA OnceWithTurn ==
  ASSUME NEW s \in Seq(Messages), NEW t \in Turn, Once(s),
         User(t) \notin ToSet(s), Assistant(t) \notin ToSet(s)
  PROVE  Once(s \o Exchange(t))
<1>1. PICK e \in Seq(Messages) : /\ e = Exchange(t) /\ Len(e) = 2
                                 /\ e[1] = User(t) /\ e[2] = Assistant(t)
                                 /\ ToSet(e) = {User(t), Assistant(t)}
  BY OfATurn
<1>2. Once(e)
  <2>1. User(t) # Assistant(t)
    BY OfATurn
  <2>2. \A i \in 1..Len(e) : i = 1 \/ i = 2
    BY <1>1
  <2> QED BY <1>1, <2>1, <2>2 DEF Once
<1>3. ToSet(s) \cap ToSet(e) = {}
  BY <1>1
<1>4. Once(s \o e)
  BY <1>2, <1>3, OnceJoined
<1> QED BY <1>1, <1>4

\* The messages of a turn that is not over are in no archive, and in nothing
\* that is to be stored with another turn.
LEMMA TurnUnstored ==
  ASSUME StoredPlaced, BasePlaced, NEW t \in Turn,
         turn[t].phase \notin Ended,
         NEW m \in {User(t), Assistant(t)}
  PROVE  /\ \A c \in Conv : Stored(c) => m \notin ToSet(store[c])
         /\ \A s \in Turn : m \notin ToSet(turn[s].base)
<1>1. m[1] = t
  BY OfATurn
<1> QED BY <1>1 DEF StoredPlaced, BasePlaced, Ended

\* The steps of Apart, as those of Placed.
LEMMA StoredApartStep ==
  ASSUME TypeInv, TurnMoves, StoreMoves, StoredPlaced, BasePlaced,
         StoredApart, BaseApart
  PROVE  StoredApart'
<1>1. ASSUME NEW c \in Conv, Stored(c)' PROVE Once(store'[c])
  <2>1. CASE Stored(c) /\ store'[c] = store[c]
    BY <2>1 DEF StoredApart
  <2>2. ASSUME NEW t \in Turn, Appends(t), Stored(c), store'[c] = store[c] \o Exchange(t)
        PROVE  Once(store'[c])
    <3>1. Once(store[c]) /\ store[c] \in Seq(Messages)
      BY <2>2 DEF StoredApart, TypeInv, Stored
    <3>2. turn[t].phase \notin Ended
      BY <2>2 DEF Appends, Ended
    <3>3. User(t) \notin ToSet(store[c]) /\ Assistant(t) \notin ToSet(store[c])
      BY <2>2, <3>2, TurnUnstored
    <3> QED BY <2>2, <3>1, <3>3, OnceWithTurn
  <2>3. ASSUME NEW t \in Turn, Creates(t, c), store'[c] = turn[t].base \o Exchange(t)
        PROVE  Once(store'[c])
    <3>1. Once(turn[t].base) /\ turn[t].base \in Seq(Messages)
      BY TurnIs DEF BaseApart, TypeInv
    <3>2. turn[t].phase \notin Ended
      BY <2>3 DEF Creates, Ended
    <3>3. User(t) \notin ToSet(turn[t].base) /\ Assistant(t) \notin ToSet(turn[t].base)
      BY <3>2, TurnUnstored
    <3> QED BY <2>3, <3>1, <3>3, OnceWithTurn
  <2> QED BY <1>1, <2>1, <2>2, <2>3, StoredBecomes
<1>2. ASSUME NEW c \in Conv, NEW d \in Conv, Stored(c)', Stored(d)', c # d,
             NEW m, m \in ToSet(store'[c]), m \in ToSet(store[d]), Stored(d), m[1] \in Turn
      PROVE  FALSE
  <2>1. CASE Stored(c) /\ store'[c] = store[c]
    BY <1>2, <2>1 DEF StoredApart
  <2>2. ASSUME NEW t \in Turn, turn[t].phase = "save", m \in {User(t), Assistant(t)} PROVE FALSE
    <3>1. turn[t].phase \notin Ended
      BY <2>2 DEF Ended
    <3> QED BY <1>2, <2>2, <3>1, TurnUnstored
  <2>3. ASSUME NEW t \in Turn, Appends(t), Stored(c),
               ToSet(store'[c]) = ToSet(store[c]) \cup {User(t), Assistant(t)}
        PROVE  FALSE
    BY <1>2, <2>2, <2>3 DEF Appends, StoredApart
  <2>4. ASSUME NEW t \in Turn, Creates(t, c),
               ToSet(store'[c]) = ToSet(turn[t].base) \cup {User(t), Assistant(t)}
        PROVE  FALSE
    BY <1>2, <2>2, <2>4 DEF Creates, BaseApart
  <2> QED BY <1>2, <2>1, <2>3, <2>4, StoredBecomes
<1>3. ASSUME NEW c \in Conv, NEW d \in Conv, Stored(c)', Stored(d)', c # d,
             NEW m \in ToSet(store'[c]) \cap ToSet(store'[d]), m[1] \in Turn
      PROVE  FALSE
  <2>1. CASE Stored(d) /\ store'[d] = store[d]
    BY <1>2, <1>3, <2>1
  <2>2. CASE store'[c] = store[c]
    <3>1. Stored(c)
      BY <1>3, <2>2 DEF Stored
    <3> QED BY <1>2, <1>3, <2>2, <3>1
  <2>3. \/ Stored(d) /\ store'[d] = store[d]
        \/ \A e \in Conv : e # d => store'[e] = store[e]
    BY <1>3, StoredBecomes
  <2> QED BY <1>3, <2>1, <2>2, <2>3
<1> QED BY <1>1, <1>3 DEF StoredApart

LEMMA BaseApartStep ==
  ASSUME TypeInv, Work', TurnMoves, StoreMoves, StoredPlaced, BasePlaced,
         ListPlaced, BaseApart, NewChatApart
  PROVE  BaseApart'
<1>1. ToSet(<<>>) = {} /\ Once(<<>>)
  BY DEF ToSet, Once
<1> DEFINE Sends(s) == /\ open = NoConv /\ turn'[s].base = msgs /\ turn'[s].cur
                       /\ \A r \in Turn : ~turn[r].cur
<1>2. \A s \in Turn : \/ turn'[s].base = turn[s].base
                      \/ turn'[s].base = <<>>
                      \/ Sends(s)
  BY DEF TurnMoves
<1>3. ASSUME NEW s \in Turn PROVE Once(turn'[s].base)
  BY <1>1, <1>2 DEF BaseApart, NewChatApart
<1>4. ASSUME NEW s \in Turn, NEW t \in Turn, s # t
      PROVE  ToSet(turn'[s].base) \cap ToSet(turn'[t].base) = {}
  <2>1. CASE Sends(s) /\ Sends(t)
    BY <1>4, <2>1 DEF Work, OneTurn
  <2>2. CASE Sends(s) /\ turn'[t].base = turn[t].base
    <3>1. ToSet(turn[t].base) \cap ToSet(msgs) = {}
      BY <2>2 DEF NewChatApart
    <3> QED BY <2>2, <3>1
  <2>3. CASE Sends(t) /\ turn'[s].base = turn[s].base
    <3>1. ToSet(turn[s].base) \cap ToSet(msgs) = {}
      BY <2>3 DEF NewChatApart
    <3> QED BY <2>3, <3>1
  <2>4. CASE turn'[s].base = turn[s].base /\ turn'[t].base = turn[t].base
    BY <1>4, <2>4 DEF BaseApart
  <2>5. CASE turn'[s].base = <<>> \/ turn'[t].base = <<>>
    BY <1>1, <2>5
  <2> HIDE DEF Sends
  <2> QED BY <1>2, <2>1, <2>2, <2>3, <2>4, <2>5
<1>5. ASSUME NEW c \in Conv, NEW s \in Turn, Stored(c)',
             NEW m \in ToSet(store'[c]) \cap ToSet(turn'[s].base)
      PROVE  FALSE
  <2>1. \/ turn'[s].base = turn[s].base /\ m \in ToSet(turn[s].base)
        \/ Sends(s) /\ m \in ToSet(msgs)
    BY <1>1, <1>2, <1>5
  <2>2. ASSUME Stored(c), m \in ToSet(store[c]) PROVE FALSE
    BY <2>1, <2>2 DEF BaseApart, NewChatApart
  <2>3. ASSUME NEW t \in Turn, turn[t].phase = "save", m \in {User(t), Assistant(t)} PROVE FALSE
    <3>1. turn[t].phase \notin Ended /\ m[1] = t
      BY <2>3, OfATurn DEF Ended
    <3>2. m \notin ToSet(turn[s].base)
      BY <2>3, <3>1, TurnUnstored
    <3>3. Sends(s) => m \notin ToSet(msgs)
      BY <2>3, <3>1 DEF ListPlaced
    <3> QED BY <2>1, <3>2, <3>3
  <2>4. CASE Stored(c) /\ store'[c] = store[c]
    BY <1>5, <2>2, <2>4
  <2>5. ASSUME NEW t \in Turn, Appends(t), Stored(c),
               ToSet(store'[c]) = ToSet(store[c]) \cup {User(t), Assistant(t)}
        PROVE  FALSE
    BY <1>5, <2>2, <2>3, <2>5 DEF Appends
  <2>6. ASSUME NEW t \in Turn, Creates(t, c),
               ToSet(store'[c]) = ToSet(turn[t].base) \cup {User(t), Assistant(t)}
        PROVE  FALSE
    <3>1. CASE m \in {User(t), Assistant(t)}
      BY <2>3, <2>6, <3>1 DEF Creates
    <3>2. CASE m \in ToSet(turn[t].base)
      <4>1. CASE Sends(s) /\ m \in ToSet(msgs)
        BY <3>2, <4>1 DEF NewChatApart
      <4>2. CASE turn'[s].base = turn[s].base /\ m \in ToSet(turn[s].base)
        <5>1. s = t
          BY <3>2, <4>2 DEF BaseApart
        <5>2. turn'[t].base = <<>>
          BY <2>6 DEF Creates
        <5> QED BY <1>1, <1>5, <5>1, <5>2
      <4> QED BY <2>1, <4>1, <4>2
    <3> QED BY <1>5, <2>6, <3>1, <3>2
  <2> QED BY <1>5, <2>4, <2>5, <2>6, StoredBecomes
<1> QED BY <1>3, <1>4, <1>5 DEF BaseApart

LEMMA NewChatApartStep ==
  ASSUME TypeInv, TypeInv', Work, Work', TurnMoves, StoreMoves, ListMoves, ~lost',
         StoredPlaced, BasePlaced, ListPlaced, NewChatPlaced,
         StoredPlaced', BasePlaced', BaseApart, NewChatApart
  PROVE  NewChatApart'
<1>1. ToSet(<<>>) = {} /\ Once(<<>>)
  BY DEF ToSet, Once
<1>2. SUFFICES ASSUME open' = NoConv, msgs' # <<>>
      PROVE  /\ Once(msgs')
             /\ \A c \in Conv : Stored(c)' => ToSet(store'[c]) \cap ToSet(msgs') = {}
             /\ \A s \in Turn : ~turn'[s].cur => ToSet(turn'[s].base) \cap ToSet(msgs') = {}
  BY <1>1 DEF NewChatApart, Stored
<1>3. /\ open = NoConv
      /\ \A s \in Turn : turn[s].cur => turn'[s].cur \/ turn'[s].phase \in Ended
      /\ msgs' = msgs \/ \E t \in Turn : WithTurn(t)
  <2>1. /\ open = NoConv
        /\ \A s \in Turn : turn[s].cur => turn'[s].cur \/ turn'[s].phase \in Ended
        /\ \/ msgs' = msgs \/ FromArchive
           \/ \E t \in Turn : WithTurn(t) \/ WithStored(t)
    BY <1>2 DEF ListMoves
  <2>2. ~FromArchive
    BY <2>1, ConvAssumption DEF FromArchive
  <2>3. \A t \in Turn : ~WithStored(t)
    BY <2>1 DEF WithStored, Work, OneTurn
  <2> QED BY <2>1, <2>2, <2>3
<1>4. Once(msgs')
  <2>1. Once(msgs) /\ msgs \in Seq(Messages)
    BY <1>3 DEF NewChatApart, TypeInv
  <2>2. ASSUME NEW t \in Turn, msgs' = msgs \o Exchange(t), turn[t].phase \in {"unsent", "compact"}
        PROVE  Once(msgs')
    <3>1. User(t)[1] = t /\ Assistant(t)[1] = t
      BY OfATurn
    <3>2. User(t) \notin ToSet(msgs) /\ Assistant(t) \notin ToSet(msgs)
      BY <2>2, <3>1 DEF ListPlaced
    <3> QED BY <2>1, <2>2, <3>2, OnceWithTurn
  <2>3. ASSUME NEW t \in Turn, msgs' = Published(t), Shown(t) PROVE Once(msgs')
    <3>1. CASE msgs = <<>>
      <4>1. Len(msgs') = 1
        BY <2>1, <2>3, <3>1, PublishedIs
      <4>2. \A i \in 1..Len(msgs') : i = 1
        BY <4>1
      <4> QED BY <4>2 DEF Once
    <3>2. CASE msgs # <<>>
      <4>1. Len(msgs) > 0 /\ msgs[Len(msgs)] = Assistant(t)
        BY <1>3, <2>1, <2>3, <3>2 DEF NewChatPlaced
      <4>2. msgs' = msgs
        BY <2>1, <2>3, <4>1, PublishedIs
      <4> QED BY <2>1, <4>2
    <3> QED BY <3>1, <3>2
  <2> QED BY <1>3, <2>1, <2>2, <2>3 DEF WithTurn
<1>5. ASSUME NEW m \in ToSet(msgs')
      PROVE  \/ m \in ToSet(msgs)
             \/ \E t \in Turn : /\ m \in {User(t), Assistant(t)}
                                /\ turn'[t].cur /\ turn'[t].phase \in {"stream", "save"}
  BY <1>3 DEF WithTurn, Grows
<1>6. ASSUME NEW c \in Conv, Stored(c)', NEW m \in ToSet(store'[c]), m \in ToSet(msgs)
      PROVE  FALSE
  <2>1. ASSUME NEW t \in Turn, turn[t].phase = "save", m \in {User(t), Assistant(t)}
        PROVE  turn[t].cur /\ turn[t].conv = NoConv
    <3>1. m[1] = t
      BY <2>1, OfATurn
    <3>2. turn[t].cur
      BY <1>6, <2>1, <3>1 DEF ListPlaced
    <3> QED BY <1>3, <3>2 DEF Work, OneTurn
  <2>2. CASE Stored(c) /\ store'[c] = store[c]
    BY <1>3, <1>6, <2>2 DEF NewChatApart
  <2>3. ASSUME NEW t \in Turn, Appends(t), Stored(c),
               ToSet(store'[c]) = ToSet(store[c]) \cup {User(t), Assistant(t)}
        PROVE  FALSE
    <3>1. turn[t].phase = "save" /\ turn[t].conv # NoConv
      BY <2>3, ConvAssumption DEF Appends, Stored
    <3> QED BY <1>3, <1>6, <2>1, <2>3, <3>1 DEF NewChatApart
  <2>4. ASSUME NEW t \in Turn, Creates(t, c),
               ToSet(store'[c]) = ToSet(turn[t].base) \cup {User(t), Assistant(t)}
        PROVE  FALSE
    <3>1. turn[t].phase = "save" /\ turn'[t].phase = "over" /\ turn[t].conv = NoConv
      BY <2>4 DEF Creates
    <3>2. ~turn[t].cur
      BY <1>2, <3>1 DEF TurnMoves, EndsWell, Left, Active
    <3>3. m \notin {User(t), Assistant(t)}
      BY <2>1, <3>1, <3>2
    <3>4. m \in ToSet(turn[t].base)
      BY <1>6, <2>4, <3>3
    <3> QED BY <1>3, <1>6, <3>2, <3>4 DEF NewChatApart
  <2> QED BY <1>6, <2>2, <2>3, <2>4, StoredBecomes
<1>7. ASSUME NEW t \in Turn, NEW m \in {User(t), Assistant(t)}, turn'[t].phase \in {"stream", "save"}
      PROVE  /\ \A c \in Conv : Stored(c)' => m \notin ToSet(store'[c])
             /\ \A s \in Turn : m \notin ToSet(turn'[s].base)
  <2>1. m[1] = t
    BY <1>7, OfATurn
  <2> QED BY <1>7, <2>1 DEF StoredPlaced, BasePlaced, Ended
<1>8. ASSUME NEW c \in Conv, Stored(c)' PROVE ToSet(store'[c]) \cap ToSet(msgs') = {}
  BY <1>5, <1>6, <1>7, <1>8
<1>9. ASSUME NEW s \in Turn, ~turn'[s].cur, NEW m \in ToSet(turn'[s].base), m \in ToSet(msgs)
      PROVE  FALSE
  <2>1. CASE turn[s].cur
    <3>1. turn[s].phase \in Active /\ turn'[s].phase \in Ended
      BY <1>3, <1>9, <2>1 DEF Work, OneTurn
    <3>2. turn'[s].base = <<>>
      BY <1>9, <3>1 DEF TurnMoves, Active, Ended
    <3> QED BY <1>1, <1>9, <3>2
  <2>2. CASE ~turn[s].cur
    <3>1. turn'[s].base = turn[s].base \/ turn'[s].base = <<>>
      BY <1>9 DEF TurnMoves
    <3> QED BY <1>1, <1>3, <1>9, <2>2, <3>1 DEF NewChatApart
  <2> QED BY <2>1, <2>2
<1>10. ASSUME NEW s \in Turn, ~turn'[s].cur PROVE ToSet(turn'[s].base) \cap ToSet(msgs') = {}
  BY <1>5, <1>7, <1>9, <1>10
<1> QED BY <1>4, <1>8, <1>10
-----------------------------------------------------------------------------
(* The page shows what belongs to the conversation that is open.            *)

\* A turn that is over has left its conversation's name behind.
OverNowhere == \A t \in Turn : turn[t].phase = "over" => turn[t].conv = NoConv

\* Every step keeps OverNowhere.
LEMMA OverNowhereStep ==
  ASSUME TurnMoves, OverNowhere
  PROVE  OverNowhere'
<1>1. SUFFICES ASSUME NEW t \in Turn, turn'[t].phase = "over" PROVE turn'[t].conv = NoConv
  BY DEF OverNowhere
<1> QED BY <1>1 DEF TurnMoves, OverNowhere, Active, Ended

\* What belongs to it: its archive, and turns sent in it, of those under way
\* only the current one.
Belongs(m) ==
  \/ Stored(open) /\ m \in ToSet(store[open])
  \/ /\ m[1] \in Turn /\ turn[m[1]].conv = open
     /\ turn[m[1]].phase \notin {"unsent", "compact"}
     /\ turn[m[1]].phase \in {"stream", "save"} => turn[m[1]].cur

\* What may become the context belongs to it as well.
KnownHere ==
  ~raced =>
    /\ open \in Conv => Stored(open)
    /\ \A m \in ToSet(msgs) : Belongs(m)
    /\ context # NoContext => \A m \in context : Belongs(m)
    /\ \A k \in summary : k.cur => \A m \in k.history : Belongs(m)
    /\ \A t \in Turn : turn[t].cur /\ turn[t].phase = "compact" =>
                         \A m \in turn[t].history : Belongs(m)

\* What the context becomes when the page does not leave the chat, and what
\* a compaction captures.
ContextMoves ==
  \/ context' = context
  \/ \E k \in summary : k.cur /\ context' = k.history
  \/ \E t \in Turn : /\ turn[t].cur /\ turn[t].phase = "compact"
                     /\ context' = turn[t].history
  \/ \E t \in Turn : /\ Shown(t) /\ context # NoContext
                     /\ context' = context \cup {User(t), Assistant(t)}

SummaryMoves ==
  \A k \in summary' : k.cur => k \in summary \/ k.history \subseteq History

HistoryMoves ==
  \A s \in Turn : turn'[s].cur /\ turn'[s].phase = "compact" =>
    \/ /\ turn[s].cur /\ turn[s].phase = "compact"
       /\ turn'[s].history = turn[s].history
    \/ turn'[s].history \subseteq History

\* The page stays where it is.
Stays ==
  /\ open' = open /\ (raced => raced')
  /\ ~raced' /\ Stored(open) => Stored(open)'
  /\ \A s \in Turn : turn[s].cur => turn'[s].cur \/ turn'[s].phase \in Ended
  /\ ContextMoves /\ SummaryMoves /\ HistoryMoves

\* A stored conversation stays stored when turns are.
LEMMA StoredStays ==
  ASSUME TypeInv, NEW d \in Conv, Stored(d),
         \/ store' = store
         \/ \E t \in Turn : /\ Stored(turn[t].conv)
                            /\ store' = [store EXCEPT ![turn[t].conv] = @ \o Exchange(t)]
         \/ \E t \in Turn, c \in Conv : /\ store[c] = Unused
                                        /\ store' = [store EXCEPT ![c] = Transcript(t)]
  PROVE  Stored(d)'
<1>1. CASE store' = store
  BY <1>1 DEF Stored
<1>2. ASSUME NEW t \in Turn, Stored(turn[t].conv),
             store' = [store EXCEPT ![turn[t].conv] = @ \o Exchange(t)]
      PROVE  Stored(d)'
  <2>1. PICK c : c = turn[t].conv
    OBVIOUS
  <2>2. store'[c] \in Seq(Messages) /\ \A e \in Conv : e # c => store'[e] = store[e]
    BY <1>2, <2>1, AppendStores
  <2> QED BY <2>2, Marks DEF Stored
<1>3. ASSUME NEW t \in Turn, NEW c \in Conv, store[c] = Unused,
             store' = [store EXCEPT ![c] = Transcript(t)]
      PROVE  Stored(d)'
  <2>1. store'[d] = store[d]
    BY <1>3 DEF Stored, TypeInv
  <2> QED BY <2>1 DEF Stored
<1> QED BY <1>1, <1>2, <1>3

\* A step that touches no turn leaves the histories of compactions alone.
LEMMA StaysAlike ==
  ASSUME open' = open, raced => raced', ~raced' /\ Stored(open) => Stored(open)',
         turn' = turn, ContextMoves, SummaryMoves
  PROVE  Stays
<1>1. HistoryMoves
  BY DEF HistoryMoves
<1> QED BY <1>1 DEF Stays

\* A turn ends and the page stays.
LEMMA StaysEnding ==
  ASSUME TypeInv, NEW t \in Turn, NEW ph \in {"told", "silent", "over"}, End(t, ph),
         open' = open, raced => raced', ~raced' /\ Stored(open) => Stored(open)',
         context' = context, summary' = summary
  PROVE  Stays
<1>1. /\ \A s \in Turn : s # t => turn'[s] = turn[s]
      /\ turn'[t].phase = ph /\ ~turn'[t].cur
  BY EndDoes DEF TypeInv
<1>2. HistoryMoves
  BY <1>1 DEF HistoryMoves
<1>3. ContextMoves /\ SummaryMoves
  BY DEF ContextMoves, SummaryMoves
<1>4. \A s \in Turn : turn[s].cur => turn'[s].cur \/ turn'[s].phase \in Ended
  BY <1>1 DEF Ended
<1> QED BY <1>2, <1>3, <1>4 DEF Stays

\* The page opens a conversation that is stored, or a new chat.
LEMMA LeftEntering ==
  ASSUME TypeInv, NEW c \in Route, Enter(c), c \in Conv => store'[c] \notin {Unused, Gone},
         \A s \in Turn : ~turn'[s].cur
  PROVE  Left
<1>1. /\ open' = c /\ msgs' = <<>> /\ loaded' = (c = NoConv) /\ context' = NoContext
      /\ (\A p \in pages' : ~p.cur) /\ \A k \in summary' : ~k.cur
  BY EnterDoes
<1>2. c \in Conv => c # NoConv
  BY ConvAssumption
<1> QED BY <1>1, <1>2 DEF Left

\* Every step leaves the conversation, or changes the context as Stays has it.
LEMMA PageStep ==
  ASSUME TypeInv, Work, [Next]_vars
  PROVE  Left \/ Stays
<1> USE DEF flags, files, view
<1>1. turn \in [Turn -> TurnState] /\ open \in Route
  BY DEF TypeInv
<1>2. UNCHANGED <<open, context, turn, summary, store>> /\ (raced => raced') => Stays
  BY StaysAlike DEF ContextMoves, SummaryMoves, Stored
<1>3. Reload => (raced => raced')
  BY ReloadDoes
<1>4. \A s \in Turn : ~StaleTurns(turn)[s].cur
  BY <1>1, StaleTurnsAre
<1>5. NoConv \in Route /\ NoConv \notin Conv /\ Conv \subseteq Route
  BY ConvAssumption DEF Route
<1>6. \A c \in Conv \cup {NoConv} : Goto(c) => Left
  BY <1>4, <1>5, LeftEntering DEF Goto, Stored
<1>7. ClearNewChat => Left
  <2>1. SUFFICES ASSUME ClearNewChat PROVE Left
    OBVIOUS
  <2>2. (\A p \in pages' : ~p.cur) /\ \A k \in summary' : ~k.cur
    BY <2>1, StalePagesAre, StaleSummaryIs DEF ClearNewChat, TypeInv
  <2> QED BY <1>4, <1>5, <2>1, <2>2 DEF Left, ClearNewChat
<1>8. LoadMore \/ PickFiles \/ RemoveFiles => Stays
  BY <1>2 DEF LoadMore, PickFiles, RemoveFiles
<1>9. Compact => Stays
  <2>1. SUFFICES ASSUME Compact PROVE Stays
    OBVIOUS
  <2>2. summary' = {[history |-> History, cur |-> TRUE]}
    BY <2>1 DEF Compact
  <2>3. SummaryMoves
    BY <2>2 DEF SummaryMoves
  <2> QED BY <2>1, <2>3, StaysAlike DEF Compact, ContextMoves, Stored
<1>10. \A l \in loads : LoadReply(l) \/ LoadFails(l) => Stays
  <2>1. ASSUME NEW l \in loads, LoadReply(l) PROVE Stays
    <3>1. UNCHANGED <<open, context, turn, summary, store, raced>>
      BY <2>1 DEF LoadReply
    <3> QED BY <1>2, <3>1
  <2>2. ASSUME NEW l \in loads, LoadFails(l) PROVE Stays
    BY <1>2, <2>2 DEF LoadFails
  <2> QED BY <2>1, <2>2
<1>11. \A p \in pages : PageReply(p) => Stays
  BY <1>2 DEF PageReply
<1>12. \A t \in Turn : Send(t) => Stays
  <2>1. SUFFICES ASSUME NEW t \in Turn, Send(t) PROVE Stays
    OBVIOUS
  <2>2. UNCHANGED <<open, raced, store, context>> /\ ~sending /\ summary' = StaleCalls(summary)
    BY <2>1 DEF Send, MaySend
  <2>3. \A r \in Turn : ~turn[r].cur
    BY <2>2 DEF Work, FlagsAgree
  <2>4. \A k \in summary' : ~k.cur
    BY <2>2, StaleSummaryIs DEF TypeInv
  <2>5. (\A s \in Turn : s # t => ~turn'[s].cur) /\ turn'[t].history \subseteq History
    BY <2>1, SendDoes
  <2>6. HistoryMoves
    BY <2>5 DEF HistoryMoves
  <2>7. ContextMoves /\ SummaryMoves
    BY <2>2, <2>4 DEF ContextMoves, SummaryMoves
  <2> QED BY <2>2, <2>3, <2>6, <2>7 DEF Stays, Stored
<1>13. \A t \in Turn : TurnCompacted(t) => Stays
  <2>1. SUFFICES ASSUME NEW t \in Turn, TurnCompacted(t) PROVE Stays
    OBVIOUS
  <2>2. UNCHANGED <<open, store, summary>> /\ turn[t].phase = "compact"
    BY <2>1 DEF TurnCompacted
  <2>5. raced => raced'
    BY <2>1 DEF TurnCompacted
  <2>3. CASE /\ turn[t].cur /\ context' = turn[t].history
             /\ turn' = [turn EXCEPT ![t].phase = "stream", ![t].history = {}]
    <3>1. /\ \A s \in Turn : s # t => turn'[s] = turn[s]
          /\ turn'[t].phase = "stream" /\ turn'[t].cur = turn[t].cur
      BY <1>1, <2>3, GoesOn
    <3>2. HistoryMoves
      BY <3>1 DEF HistoryMoves
    <3>3. ContextMoves /\ SummaryMoves
      BY <2>2, <2>3 DEF ContextMoves, SummaryMoves
    <3>4. \A s \in Turn : turn[s].cur => turn'[s].cur \/ turn'[s].phase \in Ended
      BY <3>1
    <3> QED BY <2>2, <2>5, <3>2, <3>3, <3>4 DEF Stays, Stored
  <2>4. CASE End(t, "over") /\ UNCHANGED context
    BY <2>2, <2>4, <2>5, StaysEnding DEF Stored
  <2> QED BY <2>1, <2>3, <2>4 DEF TurnCompacted
<1>14. \A t \in Turn : Publish(t) => Stays
  BY <1>2 DEF Publish
<1>15. \A t \in Turn : StreamEnds(t) => Stays
  <2>1. SUFFICES ASSUME NEW t \in Turn, StreamEnds(t) PROVE Stays
    OBVIOUS
  <2>2. UNCHANGED <<open, raced, store, summary>> /\ turn[t].phase = "stream"
    BY <2>1 DEF StreamEnds
  <2>3. CASE Current(t)
    <3>1. turn' = [turn EXCEPT ![t].phase = "save"]
      BY <2>1, <2>3 DEF StreamEnds
    <3>2. /\ \A s \in Turn : s # t => turn'[s] = turn[s]
          /\ turn'[t].phase = "save" /\ turn'[t].cur = turn[t].cur
      BY <1>1, <3>1, GoesOn
    <3>3. HistoryMoves
      BY <3>2 DEF HistoryMoves
    <3>4. ToSet(Exchange(t)) = {User(t), Assistant(t)}
      BY OfATurn
    <3>5. ContextMoves
      BY <2>1, <2>2, <2>3, <3>4 DEF StreamEnds, ContextMoves, Shown, Current
    <3>6. SummaryMoves
      BY <2>2 DEF SummaryMoves
    <3>7. \A s \in Turn : turn[s].cur => turn'[s].cur \/ turn'[s].phase \in Ended
      BY <3>2
    <3> QED BY <2>2, <3>3, <3>5, <3>6, <3>7 DEF Stays, Stored
  <2>4. CASE ~Current(t)
    BY <2>1, <2>2, <2>4, StaysEnding DEF Stored, StreamEnds
  <2> QED BY <2>3, <2>4
<1>16. \A t \in Turn : AppendTurn(t) => Stays
  <2>1. SUFFICES ASSUME NEW t \in Turn, AppendTurn(t) PROVE Stays
    OBVIOUS
  <2>2. /\ UNCHANGED <<open, context, summary>> /\ End(t, "over") /\ (raced => raced')
        /\ Stored(turn[t].conv)
        /\ store' = [store EXCEPT ![turn[t].conv] = @ \o Exchange(t)]
    BY <2>1 DEF AppendTurn
  <2>3. Stored(open) => Stored(open)'
    <3>1. SUFFICES ASSUME NEW d \in Conv, d = open, Stored(d) PROVE Stored(d)'
      BY <2>2 DEF Stored
    <3> QED BY <2>2, <3>1, StoredStays
  <2> QED BY <2>2, <2>3, StaysEnding
<1>17. \A t \in Turn : AppendFails(t) => Stays
  <2>1. SUFFICES ASSUME NEW t \in Turn, AppendFails(t) PROVE Stays
    OBVIOUS
  <2>2. UNCHANGED <<open, context, summary>> /\ End(t, "told")
    BY <2>1 DEF AppendFails, AfterFailure
  <2>4. /\ raced => raced'
        /\ \/ store' = store
           \/ /\ Stored(turn[t].conv)
              /\ store' = [store EXCEPT ![turn[t].conv] = @ \o Exchange(t)]
    <3>1. \/ UNCHANGED <<store, raced>>
          \/ /\ Stored(turn[t].conv)
             /\ store' = [store EXCEPT ![turn[t].conv] = @ \o Exchange(t)]
             /\ raced' = (raced \/ (~turn[t].cur /\ open = turn[t].conv))
      BY <2>1, Zenon DEF AppendFails
    <3>2. raced => raced'
      BY <3>1
    <3>3. \/ store' = store
          \/ /\ Stored(turn[t].conv)
             /\ store' = [store EXCEPT ![turn[t].conv] = @ \o Exchange(t)]
      BY <3>1, Zenon
    <3> QED BY <3>2, <3>3
  <2>3. Stored(open) => Stored(open)'
    <3>1. SUFFICES ASSUME NEW d \in Conv, d = open, Stored(d) PROVE Stored(d)'
      BY <2>2 DEF Stored
    <3> QED BY <2>4, <3>1, StoredStays
  <2> QED BY <2>2, <2>3, <2>4, StaysEnding
<1>18. \A t \in Turn : CreateFails(t) => Stays
  <2>1. SUFFICES ASSUME NEW t \in Turn, CreateFails(t) PROVE Stays
    OBVIOUS
  <2>2. /\ UNCHANGED <<open, context, summary, raced>> /\ End(t, "silent")
        /\ \/ store' = store
           \/ \E c \in Conv : store[c] = Unused /\ store' = [store EXCEPT ![c] = Transcript(t)]
    BY <2>1 DEF CreateFails
  <2>3. Stored(open) => Stored(open)'
    <3>1. SUFFICES ASSUME NEW d \in Conv, d = open, Stored(d) PROVE Stored(d)'
      BY <2>2 DEF Stored
    <3> QED BY <2>2, <3>1, StoredStays
  <2> QED BY <2>2, <2>3, StaysEnding
<1>19. \A t \in Turn, c \in Conv : Create(t, c) => Left \/ Stays
  <2>1. SUFFICES ASSUME NEW t \in Turn, NEW c \in Conv, Create(t, c) PROVE Left \/ Stays
    OBVIOUS
  <2>2. /\ store' = [store EXCEPT ![c] = Transcript(t)] /\ store[c] = Unused
        /\ \A s \in Turn : s # t => IF turn[t].cur THEN ~turn'[s].cur ELSE turn'[s] = turn[s]
        /\ ~turn'[t].cur
        /\ IF turn[t].cur THEN Enter(c)
           ELSE /\ Reload
                /\ UNCHANGED <<open, flags, context, pages, summary, pending>>
    BY <2>1, CreateDoes
  <2>3. CASE turn[t].cur
    <3>1. store'[c] \notin {Unused, Gone}
      BY <2>2, StoreDoes, TranscriptIs, Marks DEF TypeInv
    <3> QED BY <1>5, <2>2, <2>3, <3>1, LeftEntering
  <2>4. CASE ~turn[t].cur
    <3>1. End(t, "over")
      BY <2>1, <2>4 DEF Create
    <3>2. Stored(open) => Stored(open)'
      <4>1. SUFFICES ASSUME NEW d \in Conv, d = open, Stored(d) PROVE Stored(d)'
        BY <2>2, <2>4 DEF Stored
      <4> QED BY <2>2, <4>1, StoredStays
    <3> QED BY <1>3, <2>2, <2>4, <3>1, <3>2, StaysEnding
  <2> QED BY <2>3, <2>4
<1>20. \A k \in summary : CompactReply(k) => Stays
  <2>1. SUFFICES ASSUME NEW k \in summary, CompactReply(k) PROVE Stays
    OBVIOUS
  <2>2. ContextMoves /\ SummaryMoves
    BY <2>1 DEF CompactReply, ContextMoves, SummaryMoves
  <2> QED BY <2>1, <2>2, StaysAlike DEF CompactReply, Stored
<1>21. \A c \in Conv : ConfirmDelete(c) => Stays
  BY <1>2, <1>3 DEF ConfirmDelete
<1>22. \A d \in deletion : Deleted(d) => Left \/ Stays
  <2>1. SUFFICES ASSUME NEW d \in deletion, Deleted(d) PROVE Left \/ Stays
    OBVIOUS
  <2>2. CASE d.wasActive /\ open # NoConv
    <3>1. Enter(NoConv) /\ turn' = StaleTurns(turn)
      BY <2>1, <2>2 DEF Deleted
    <3> QED BY <1>4, <1>5, <3>1, LeftEntering
  <2>3. CASE ~(d.wasActive /\ open # NoConv)
    <3>1. /\ UNCHANGED <<open, context, turn, summary>>
          /\ raced' = (raced \/ open = d.conv)
          /\ store' = [store EXCEPT ![d.conv] = Gone]
      BY <2>1, <2>3 DEF Deleted
    <3>2. ~raced' /\ Stored(open) => Stored(open)'
      BY <3>1 DEF Stored, TypeInv
    <3>3. ContextMoves /\ SummaryMoves
      BY <3>1 DEF ContextMoves, SummaryMoves
    <3>4. raced => raced'
      BY <3>1
    <3> QED BY <3>1, <3>2, <3>3, <3>4, StaysAlike
  <2> QED BY <2>2, <2>3
<1>23. \A d \in deletion : DeleteFails(d) => Stays
  BY <1>2, <1>3 DEF DeleteFails
<1>24. \A r \in picking : FilesRead(r) => Stays
  BY <1>2 DEF FilesRead
<1>25. UNCHANGED vars => Stays
  BY <1>2 DEF vars
<1> QED BY <1>6, <1>7, <1>8, <1>9, <1>10, <1>11, <1>12, <1>13, <1>14, <1>15, <1>16, <1>17,
           <1>18, <1>19, <1>20, <1>21, <1>22, <1>23, <1>24, <1>25, Zenon DEF Next, ClearChat

\* What belongs to the conversation goes on doing so while it is open.
LEMMA BelongsKept ==
  ASSUME TypeInv, OneTurn, TurnMoves, StoreMoves, Stays, ~Left, ~raced',
         open \in Conv => Stored(open),
         NEW m \in Messages, Belongs(m)
  PROVE  Belongs(m)'
<1>1. open' = open /\ (Stored(open) => Stored(open)')
  BY DEF Stays
<1>2. CASE Stored(open) /\ m \in ToSet(store[open])
  <2>1. PICK c \in Conv : c = open
    BY <1>2 DEF Stored
  <2>2. Stored(c)'
    BY <1>1, <1>2, <2>1 DEF Stored
  <2>3. store[c] # Unused /\ m \in ToSet(store[c])
    BY <1>2, <2>1 DEF Stored
  <2>4. m \in ToSet(store'[c])
    BY <2>2, <2>3, StoredBecomes DEF Creates
  <2> QED BY <1>1, <2>1, <2>2, <2>4 DEF Belongs, Stored
<1>3. CASE /\ m[1] \in Turn /\ turn[m[1]].conv = open
           /\ turn[m[1]].phase \notin {"unsent", "compact"}
           /\ turn[m[1]].phase \in {"stream", "save"} => turn[m[1]].cur
  <2>1. PICK s \in Turn : s = m[1]
    BY <1>3
  <2>2. /\ turn[s].conv = open /\ turn[s].phase \notin {"unsent", "compact"}
        /\ turn[s].phase \in {"stream", "save"} => turn[s].cur
    BY <1>3, <2>1
  <2>3. turn[s].cur => turn'[s].cur \/ turn'[s].phase \in Ended
    BY DEF Stays
  <2>4. SUFFICES \/ Stored(open)' /\ m \in ToSet(store'[open])
                 \/ /\ turn'[s].conv = open
                    /\ turn'[s].phase \notin {"unsent", "compact"}
                    /\ turn'[s].phase \in {"stream", "save"} => turn'[s].cur
    BY <1>1, <2>1 DEF Belongs, Stored
  <2>5. CASE turn'[s].phase = turn[s].phase /\ turn'[s].conv = turn[s].conv
    BY <2>2, <2>3, <2>5 DEF Ended
  <2>6. CASE /\ turn[s].phase \in Active /\ turn'[s].phase \in Ended /\ EndsWell(s)
    <3>1. turn[s].cur /\ turn[s].phase # "compact"
      BY <2>2, <2>6 DEF Active
    <3>2. CASE turn[s].conv = NoConv /\ turn'[s].phase = "silent" /\ turn'[s].conv = NoConv
      BY <2>2, <3>2
    <3>3. CASE turn'[s].phase = "told" /\ turn'[s].conv = turn[s].conv
      BY <2>2, <3>3
    <3>4. CASE /\ turn[s].conv # NoConv
               /\ {User(s), Assistant(s)} \subseteq ToSet(store'[turn[s].conv])
      <4>1. open \in Conv
        BY <2>2, <3>4 DEF TypeInv, Route
      <4>2. Stored(open)'
        BY <1>1, <4>1
      <4>3. m \in {User(s), Assistant(s)}
        BY <2>1, MessageShape
      <4> QED BY <2>2, <3>4, <4>2, <4>3
    <3> QED BY <2>6, <3>1, <3>2, <3>3, <3>4 DEF EndsWell
  <2>7. CASE /\ <<turn[s].phase, turn'[s].phase>> \in {<<"compact", "stream">>, <<"stream", "save">>}
             /\ turn'[s].conv = turn[s].conv /\ turn'[s].cur
    BY <2>2, <2>7
  <2> QED BY <2>2, <2>5, <2>6, <2>7 DEF TurnMoves
<1> QED BY <1>2, <1>3 DEF Belongs

\* Every step keeps KnownHere.
LEMMA KnownStep ==
  ASSUME TypeInv, TypeInv', Work, TurnMoves, StoreMoves, ListMoves, Left \/ Stays,
         KnownHere
  PROVE  KnownHere'
<1>1. SUFFICES ASSUME ~raced'
      PROVE  /\ open' \in Conv => Stored(open)'
             /\ \A m \in ToSet(msgs') : Belongs(m)'
             /\ context' # NoContext => \A m \in context' : Belongs(m)'
             /\ \A k \in summary' : k.cur => \A m \in k.history : Belongs(m)'
             /\ \A t \in Turn : turn'[t].cur /\ turn'[t].phase = "compact" =>
                                  \A m \in turn'[t].history : Belongs(m)'
  BY DEF KnownHere, Belongs, Stored
<1>2. ToSet(<<>>) = {}
  BY DEF ToSet
<1>3. CASE Left
  BY <1>2, <1>3 DEF Left, Stored
<1>4. CASE Stays /\ ~Left
  <2>1. /\ open' = open /\ ~raced /\ (Stored(open) => Stored(open)')
        /\ ContextMoves /\ SummaryMoves /\ HistoryMoves
    BY <1>1, <1>4 DEF Stays
  <2>2. /\ open \in Conv => Stored(open)
        /\ \A m \in ToSet(msgs) : Belongs(m)
        /\ context # NoContext => \A m \in context : Belongs(m)
        /\ \A k \in summary : k.cur => \A m \in k.history : Belongs(m)
        /\ \A t \in Turn : turn[t].cur /\ turn[t].phase = "compact" =>
                             \A m \in turn[t].history : Belongs(m)
    BY <2>1 DEF KnownHere
  <2>3. \A m \in History : Belongs(m)
    BY <2>2 DEF History
  <2>4. \A m \in Messages : Belongs(m) => Belongs(m)'
    BY <1>1, <1>4, <2>2, BelongsKept DEF Work
  <2>5. \A m \in History : Belongs(m)'
    BY <2>3, <2>4, HistoryIs
  <2>6. open' \in Conv => Stored(open)'
    BY <2>1, <2>2
  <2>7. ASSUME NEW m \in ToSet(msgs') PROVE Belongs(m)'
    <3>1. ToSet(msgs) \subseteq Messages
      BY Elements DEF TypeInv
    <3>2. m \in ToSet(msgs) => Belongs(m)'
      BY <2>2, <2>4, <3>1
    <3>3. CASE msgs' = <<>>
      BY <1>2, <2>7, <3>3
    <3>4. CASE FromArchive
      <4>1. CASE m \in ToSet(store[open])
        <5>1. Stored(open) /\ ToSet(store[open]) \subseteq Messages
          BY <3>4, Elements DEF FromArchive, Stored, TypeInv
        <5> QED BY <2>4, <4>1, <5>1 DEF Belongs
      <4> QED BY <2>7, <3>2, <3>4, <4>1 DEF FromArchive, Grows
    <3>5. ASSUME NEW t \in Turn, WithTurn(t) PROVE Belongs(m)'
      <4>1. CASE m \in {User(t), Assistant(t)}
        <5>1. m[1] = t
          BY <4>1, OfATurn
        <5>2. turn'[t].cur /\ turn'[t].phase \in {"stream", "save"} /\ turn'[t].conv = open'
          BY <2>1, <3>5 DEF WithTurn
        <5> QED BY <5>1, <5>2 DEF Belongs
      <4> QED BY <2>7, <3>2, <3>5, <4>1 DEF WithTurn, Grows
    <3>6. ASSUME NEW t \in Turn, WithStored(t) PROVE Belongs(m)'
      <4>1. CASE m \in {User(t), Assistant(t)}
        <5>1. turn[t].conv = open /\ turn[t].conv # NoConv
          BY <3>6 DEF WithStored, Work, OneTurn
        <5>2. Stored(open)'
          BY <2>1, <2>2, <5>1 DEF Route, TypeInv
        <5>3. m \in ToSet(store'[open])
          BY <3>6, <4>1 DEF WithStored
        <5> QED BY <2>1, <5>2, <5>3 DEF Belongs, Stored
      <4> QED BY <2>7, <3>2, <3>6, <4>1 DEF WithStored, Grows
    <3> QED BY <2>7, <3>2, <3>3, <3>4, <3>5, <3>6 DEF ListMoves
  <2>8. ASSUME context' # NoContext, NEW m \in context' PROVE Belongs(m)'
    <3>1. CASE context' = context
      BY <2>2, <2>4, <2>8, <3>1 DEF TypeInv
    <3>2. ASSUME NEW k \in summary, k.cur, context' = k.history PROVE Belongs(m)'
      <4>1. k.history \in SUBSET Messages
        BY DEF TypeInv, SummaryCall
      <4> QED BY <2>2, <2>4, <2>8, <3>2, <4>1
    <3>3. ASSUME NEW t \in Turn, turn[t].cur, turn[t].phase = "compact",
                 context' = turn[t].history
          PROVE  Belongs(m)'
      <4>1. turn[t].history \in SUBSET Messages
        BY TurnIs DEF TypeInv
      <4> QED BY <2>2, <2>4, <2>8, <3>3, <4>1
    <3>4. ASSUME NEW t \in Turn, Shown(t), context # NoContext,
                 context' = context \cup {User(t), Assistant(t)}
          PROVE  Belongs(m)'
      <4>1. CASE m \in context
        BY <2>2, <2>4, <3>4, <4>1 DEF TypeInv
      <4>2. CASE m \in {User(t), Assistant(t)}
        <5>1. m \in Messages /\ m[1] = t
          BY <4>2, OfATurn
        <5>2. turn[t].cur /\ turn[t].phase \in {"stream", "save"} /\ turn[t].conv = open
          BY <3>4 DEF Shown, Work, OneTurn
        <5>3. Belongs(m)
          BY <5>1, <5>2 DEF Belongs
        <5> QED BY <2>4, <5>1, <5>3
      <4> QED BY <2>8, <3>4, <4>1, <4>2
    <3> QED BY <2>1, <3>1, <3>2, <3>3, <3>4 DEF ContextMoves
  <2>9. ASSUME NEW k \in summary', k.cur, NEW m \in k.history PROVE Belongs(m)'
    <3>1. CASE k \in summary
      <4>1. k.history \in SUBSET Messages
        BY <3>1 DEF TypeInv, SummaryCall
      <4> QED BY <2>2, <2>4, <2>9, <3>1, <4>1
    <3>2. CASE k.history \subseteq History
      BY <2>5, <2>9, <3>2
    <3> QED BY <2>1, <2>9, <3>1, <3>2 DEF SummaryMoves
  <2>10. ASSUME NEW t \in Turn, turn'[t].cur, turn'[t].phase = "compact",
                NEW m \in turn'[t].history
         PROVE  Belongs(m)'
    <3>1. CASE /\ turn[t].cur /\ turn[t].phase = "compact"
               /\ turn'[t].history = turn[t].history
      <4>1. turn[t].history \in SUBSET Messages
        BY TurnIs DEF TypeInv
      <4> QED BY <2>2, <2>4, <2>10, <3>1, <4>1
    <3>2. CASE turn'[t].history \subseteq History
      BY <2>5, <2>10, <3>2
    <3> QED BY <2>1, <2>10, <3>1, <3>2 DEF HistoryMoves
  <2> QED BY <2>6, <2>7, <2>8, <2>9, <2>10
<1> QED BY <1>3, <1>4
-----------------------------------------------------------------------------
(* A list that ends as its archive does: g says where the messages from the *)
(* o-th on are in the list, which has them in their order, and no others.   *)

Places(arch, o, s, g) ==
  /\ g \in [o..Len(arch) -> 1..Len(s)]
  /\ \A j, k \in o..Len(arch) : j < k => g[j] < g[k]
  /\ \A k \in o..Len(arch) : s[g[k]] = arch[k]
  /\ \A i \in 1..Len(s) : s[i] \in ToSet(arch) => \E k \in o..Len(arch) : g[k] = i

Follows(arch, o, s) == \E g : Places(arch, o, s, g)

\* A part of the archive up to its end.
LEMMA FollowsItself ==
  ASSUME NEW arch \in Seq(Messages), NEW o \in Nat \ {0}, o <= Len(arch) + 1,
         NEW s \in Seq(Messages), Len(s) = Len(arch) + 1 - o,
         \A i \in 1..Len(s) : s[i] = arch[o + i - 1]
  PROVE  Follows(arch, o, s)
<1>1. PICK n \in Nat : n = Len(arch)
  OBVIOUS
<1>2. PICK g : g = [k \in o..n |-> k - o + 1]
  OBVIOUS
<1>3. \A k \in o..n : k - o + 1 \in 1..Len(s) /\ g[k] = k - o + 1
  BY <1>1, <1>2
<1>4. g \in [o..n -> 1..Len(s)]
  BY <1>2, <1>3
<1>5. \A j, k \in o..n : j < k => g[j] < g[k]
  BY <1>3
<1>6. \A k \in o..n : s[g[k]] = arch[k]
  <2>1. TAKE k \in o..n
  <2>2. g[k] = k - o + 1 /\ k - o + 1 \in 1..Len(s) /\ o + (k - o + 1) - 1 = k
    BY <1>3
  <2> QED BY <2>2
<1>7. \A i \in 1..Len(s) : \E k \in o..n : g[k] = i
  <2>1. TAKE i \in 1..Len(s)
  <2>2. o + i - 1 \in o..n /\ (o + i - 1) - o + 1 = i
    BY <1>1
  <2> QED BY <1>3, <2>2
<1> QED BY <1>1, <1>4, <1>5, <1>6, <1>7 DEF Follows, Places

\* The page of the archive before it is put in front.
LEMMA FollowsBefore ==
  ASSUME NEW arch \in Seq(Messages), NEW o \in Nat \ {0},
         NEW s \in Seq(Messages), NEW q \in Nat \ {0}, NEW x \in Seq(Messages)
  PROVE  /\ o <= Len(arch) + 1 /\ Follows(arch, o, s) /\ q <= o /\ Len(x) = o - q
         /\ \A i \in 1..(o - q) : x[i] = arch[q + i - 1]
         => Follows(arch, q, x \o s)
<1>4. PICK u : u = x \o s
  OBVIOUS
<1>5. /\ u \in Seq(Messages) /\ Len(u) = Len(x) + Len(s)
      /\ \A i \in 1..Len(x) : u[i] = x[i]
      /\ \A i \in 1..Len(s) : u[Len(x) + i] = s[i]
  BY <1>4, Joined
<1> SUFFICES ASSUME o <= Len(arch) + 1, Follows(arch, o, s), q <= o, Len(x) = o - q,
                    \A i \in 1..(o - q) : x[i] = arch[q + i - 1]
             PROVE  Follows(arch, q, x \o s)
  OBVIOUS
<1>1. PICK n \in Nat : n = Len(arch)
  OBVIOUS
<1>2. PICK f : Places(arch, o, s, f)
  BY DEF Follows
<1>3. /\ f \in [o..n -> 1..Len(s)]
      /\ \A j, k \in o..n : j < k => f[j] < f[k]
      /\ \A k \in o..n : s[f[k]] = arch[k]
      /\ \A i \in 1..Len(s) : s[i] \in ToSet(arch) => \E k \in o..n : f[k] = i
  BY <1>1, <1>2 DEF Places
<1>6. PICK g : g = [k \in q..n |-> IF k < o THEN k - q + 1 ELSE f[k] + (o - q)]
  OBVIOUS
<1>7. ASSUME NEW k \in q..n, k < o
      PROVE  /\ g[k] = k - q + 1 /\ g[k] \in 1..Len(u) /\ g[k] <= o - q
             /\ u[g[k]] = arch[k]
  <2>1. g[k] = k - q + 1 /\ k - q + 1 \in 1..(o - q) /\ q + (k - q + 1) - 1 = k
    BY <1>6, <1>7
  <2>2. g[k] \in 1..Len(u) /\ g[k] <= o - q
    BY <2>1, <1>5
  <2>3. x[k - q + 1] = arch[k]
    BY <2>1
  <2> QED BY <2>1, <2>2, <2>3, <1>5
<1>8. ASSUME NEW k \in q..n, ~(k < o)
      PROVE  /\ k \in o..n /\ g[k] = f[k] + (o - q) /\ g[k] \in 1..Len(u)
             /\ g[k] > o - q /\ u[g[k]] = arch[k]
  <2>1. g[k] = f[k] + (o - q) /\ k \in o..n
    BY <1>6, <1>8
  <2>2. f[k] \in 1..Len(s) /\ s[f[k]] = arch[k]
    BY <2>1, <1>3
  <2>3. f[k] + (o - q) = Len(x) + f[k] /\ Len(x) + f[k] \in 1..Len(u) /\ Len(x) + f[k] > o - q
    <3>1. \A d, l, y \in Nat : y \in 1..l => y + d = d + y /\ d + y \in 1..(d + l) /\ d + y > d
      OBVIOUS
    <3>2. o - q \in Nat /\ Len(s) \in Nat /\ f[k] \in Nat /\ f[k] \in 1..Len(s)
      BY <2>2
    <3>3. /\ f[k] + (o - q) = (o - q) + f[k] /\ (o - q) + f[k] \in 1..((o - q) + Len(s))
          /\ (o - q) + f[k] > o - q
      BY <3>1, <3>2
    <3>4. Len(u) = (o - q) + Len(s) /\ Len(x) = o - q
      BY <1>5
    <3> QED BY <3>3, <3>4
  <2>4. u[Len(x) + f[k]] = s[f[k]]
    BY <2>2, <1>5
  <2> QED BY <2>1, <2>2, <2>3, <2>4
<1>9. g \in [q..n -> 1..Len(u)] /\ \A k \in q..n : u[g[k]] = arch[k]
  <2>1. \A k \in q..n : g[k] \in 1..Len(u) /\ u[g[k]] = arch[k]
    BY <1>7, <1>8
  <2> QED BY <1>6, <2>1
<1>10. ASSUME NEW j \in q..n, NEW k \in q..n, j < k PROVE g[j] < g[k]
  <2>1. CASE k < o
    <3>1. j < o
      BY <1>10, <2>1
    <3> QED BY <2>1, <3>1, <1>7, <1>10
  <2>2. CASE j < o /\ ~(k < o)
    <3>1. g[j] <= o - q /\ g[k] > o - q /\ g[j] \in 1..Len(u) /\ g[k] \in 1..Len(u)
      BY <2>2, <1>7, <1>8
    <3> QED BY <3>1
  <2>3. CASE ~(j < o)
    <3>1. ~(k < o)
      BY <1>10, <2>3
    <3>2. /\ g[j] = f[j] + (o - q) /\ g[k] = f[k] + (o - q)
          /\ j \in o..n /\ k \in o..n
      BY <2>3, <3>1, <1>8
    <3>3. f[j] < f[k] /\ f[j] \in 1..Len(s) /\ f[k] \in 1..Len(s)
      BY <3>2, <1>3, <1>10
    <3> QED BY <3>2, <3>3
  <2> QED BY <2>1, <2>2, <2>3
<1>11. ASSUME NEW i \in 1..Len(u), u[i] \in ToSet(arch) PROVE \E k \in q..n : g[k] = i
  <2>1. CASE i <= o - q
    <3>1. q + i - 1 \in q..n /\ q + i - 1 < o /\ (q + i - 1) - q + 1 = i
      BY <2>1, <1>1
    <3> QED BY <3>1, <1>7
  <2>2. CASE ~(i <= o - q)
    <3>1. i - Len(x) \in 1..Len(s) /\ Len(x) + (i - Len(x)) = i
      BY <2>2, <1>5
    <3>2. s[i - Len(x)] \in ToSet(arch)
      BY <3>1, <1>5, <1>11
    <3>3. PICK k \in o..n : f[k] = i - Len(x)
      BY <3>1, <3>2, <1>3
    <3>4. k \in q..n /\ ~(k < o)
      BY <3>3
    <3>5. g[k] = f[k] + (o - q)
      BY <3>4, <1>8
    <3>6. g[k] = i
      BY <3>1, <3>3, <3>5
    <3> QED BY <3>4, <3>6
  <2> QED BY <2>1, <2>2
<1>12. Places(arch, q, u, g)
  BY <1>1, <1>9, <1>10, <1>11 DEF Places
<1> QED BY <1>4, <1>12 DEF Follows

\* What is not in the archive comes after it.
LEMMA FollowsShown ==
  ASSUME NEW arch \in Seq(Messages), NEW o \in Nat \ {0},
         NEW s \in Seq(Messages), Follows(arch, o, s),
         NEW e \in Seq(Messages), ToSet(e) \cap ToSet(arch) = {}
  PROVE  Follows(arch, o, s \o e)
<1>1. PICK n \in Nat : n = Len(arch)
  OBVIOUS
<1>2. PICK g : Places(arch, o, s, g)
  BY DEF Follows
<1>3. /\ g \in [o..n -> 1..Len(s)]
      /\ \A j, k \in o..n : j < k => g[j] < g[k]
      /\ \A k \in o..n : s[g[k]] = arch[k]
      /\ \A i \in 1..Len(s) : s[i] \in ToSet(arch) => \E k \in o..n : g[k] = i
  BY <1>1, <1>2 DEF Places
<1>4. PICK u : u = s \o e
  OBVIOUS
<1>5. /\ u \in Seq(Messages) /\ Len(u) = Len(s) + Len(e)
      /\ \A i \in 1..Len(s) : u[i] = s[i]
      /\ \A i \in 1..Len(e) : u[Len(s) + i] = e[i]
  BY <1>4, Joined
<1>6. \A k \in o..n : g[k] \in 1..Len(s) /\ g[k] \in 1..Len(u)
  BY <1>3, <1>5
<1>7. g \in [o..n -> 1..Len(u)]
  BY <1>3, <1>6
<1>8. \A k \in o..n : u[g[k]] = arch[k]
  BY <1>3, <1>5, <1>6
<1>9. ASSUME NEW i \in 1..Len(u), u[i] \in ToSet(arch) PROVE \E k \in o..n : g[k] = i
  <2>1. CASE i <= Len(s)
    <3>1. i \in 1..Len(s)
      BY <2>1, <1>5
    <3> QED BY <3>1, <1>3, <1>5, <1>9
  <2>2. CASE ~(i <= Len(s))
    <3>1. i - Len(s) \in 1..Len(e) /\ Len(s) + (i - Len(s)) = i
      BY <2>2, <1>5
    <3>2. u[i] = e[i - Len(s)]
      BY <3>1, <1>5
    <3>3. u[i] \in ToSet(e)
      BY <3>1, <3>2, Elements
    <3> QED BY <3>3, <1>9
  <2> QED BY <2>1, <2>2
<1>10. Places(arch, o, u, g)
  BY <1>1, <1>3, <1>7, <1>8, <1>9 DEF Places
<1> QED BY <1>4, <1>10 DEF Follows

\* The turn at the end of the list is stored.
LEMMA FollowsStored ==
  ASSUME NEW arch \in Seq(Messages), NEW o \in Nat \ {0}, o <= Len(arch) + 1,
         NEW s \in Seq(Messages), Follows(arch, o, s), NEW t \in Turn,
         User(t) \notin ToSet(arch), Assistant(t) \notin ToSet(arch),
         Len(s) >= 2, s[Len(s) - 1] = User(t), s[Len(s)] = Assistant(t),
         \A i \in 1..(Len(s) - 2) : s[i][1] # t
  PROVE  Follows(arch \o Exchange(t), o, s)
<1>1. PICK n \in Nat : n = Len(arch)
  OBVIOUS
<1>2. PICK f : Places(arch, o, s, f)
  BY DEF Follows
<1>3. /\ f \in [o..n -> 1..Len(s)]
      /\ \A j, k \in o..n : j < k => f[j] < f[k]
      /\ \A k \in o..n : s[f[k]] = arch[k]
      /\ \A i \in 1..Len(s) : s[i] \in ToSet(arch) => \E k \in o..n : f[k] = i
  BY <1>1, <1>2 DEF Places
<1>4. PICK e \in Seq(Messages) : /\ e = Exchange(t) /\ Len(e) = 2
                                 /\ e[1] = User(t) /\ e[2] = Assistant(t)
                                 /\ ToSet(e) = {User(t), Assistant(t)}
  BY OfATurn
<1>5. PICK u : u = arch \o e
  OBVIOUS
<1>6. /\ u \in Seq(Messages) /\ Len(u) = n + 2
      /\ \A i \in 1..n : u[i] = arch[i]
      /\ u[n + 1] = User(t) /\ u[n + 2] = Assistant(t)
      /\ ToSet(u) = ToSet(arch) \cup {User(t), Assistant(t)}
  <2>1. /\ u \in Seq(Messages) /\ Len(u) = Len(arch) + Len(e)
        /\ \A i \in 1..Len(arch) : u[i] = arch[i]
        /\ \A i \in 1..Len(e) : u[Len(arch) + i] = e[i]
        /\ ToSet(u) = ToSet(arch) \cup ToSet(e)
    BY <1>5, Joined
  <2>2. u[n + 1] = e[1] /\ u[n + 2] = e[2]
    BY <1>1, <1>4, <2>1
  <2> QED BY <1>1, <1>4, <2>1, <2>2
<1>7. PICK l \in Nat : /\ l = Len(s) /\ l >= 2
                         /\ s[l - 1] = User(t) /\ s[l] = Assistant(t)
  OBVIOUS
<1>8. PICK g : g = [k \in o..(n + 2) |-> IF k <= n THEN f[k] ELSE l - 2 + (k - n)]
  OBVIOUS
<1>9. ASSUME NEW k \in o..n
      PROVE  /\ k \in o..(n + 2) /\ g[k] = f[k] /\ g[k] \in 1..(l - 2)
             /\ s[g[k]] = u[k]
  <2>1. k \in o..(n + 2) /\ k \in 1..n
    OBVIOUS
  <2>2. g[k] = f[k] /\ f[k] \in 1..l
    BY <2>1, <1>3, <1>7, <1>8
  <2>3. s[f[k]] = arch[k] /\ arch[k] \in ToSet(arch)
    BY <2>1, <1>1, <1>3, Elements
  <2>4. f[k] # l /\ f[k] # l - 1
    <3>1. s[f[k]] # User(t) /\ s[f[k]] # Assistant(t)
      BY <2>3
    <3> QED BY <3>1, <1>7
  <2>5. f[k] \in 1..(l - 2)
    <3>1. \A y \in Int : y \in 1..l /\ y # l /\ y # l - 1 => y \in 1..(l - 2)
      OBVIOUS
    <3>2. f[k] \in Int
      BY <2>2
    <3> QED BY <2>2, <2>4, <3>1, <3>2
  <2> QED BY <2>1, <2>2, <2>3, <2>5, <1>6
<1>10. ASSUME NEW k \in o..(n + 2), ~(k <= n)
       PROVE  \/ k = n + 1 /\ g[k] = l - 1 /\ s[g[k]] = u[k]
              \/ k = n + 2 /\ g[k] = l /\ s[g[k]] = u[k]
  <2>1. k = n + 1 \/ k = n + 2
    BY <1>10
  <2>2. g[k] = l - 2 + (k - n)
    BY <1>8, <1>10
  <2>3. CASE k = n + 1
    <3>1. g[k] = l - 1
      BY <2>2, <2>3
    <3> QED BY <2>3, <3>1, <1>6, <1>7
  <2>4. CASE k = n + 2
    <3>1. g[k] = l
      BY <2>2, <2>4
    <3> QED BY <2>4, <3>1, <1>6, <1>7
  <2> QED BY <2>1, <2>3, <2>4
<1>11. ASSUME NEW k \in o..(n + 2)
       PROVE  g[k] \in 1..l /\ s[g[k]] = u[k]
  <2>1. CASE k <= n
    <3>1. k \in o..n
      BY <2>1
    <3> QED BY <3>1, <1>7, <1>9
  <2>2. CASE ~(k <= n)
    BY <2>2, <1>7, <1>10
  <2> QED BY <2>1, <2>2
<1>12. g \in [o..(n + 2) -> 1..l]
  BY <1>8, <1>11
<1>13. ASSUME NEW j \in o..(n + 2), NEW k \in o..(n + 2), j < k PROVE g[j] < g[k]
  <2>1. CASE k <= n
    <3>1. j \in o..n /\ k \in o..n
      BY <1>13, <2>1
    <3> QED BY <3>1, <1>3, <1>9, <1>13
  <2>2. CASE j <= n /\ ~(k <= n)
    <3>1. j \in o..n
      BY <2>2
    <3>2. g[j] \in 1..(l - 2) /\ (g[k] = l - 1 \/ g[k] = l)
      BY <2>2, <3>1, <1>9, <1>10
    <3> QED BY <3>2, <1>7
  <2>3. CASE ~(j <= n)
    <3>1. ~(k <= n) /\ j = n + 1 /\ k = n + 2
      BY <1>13, <2>3
    <3>2. j # n + 2 /\ k # n + 1
      BY <3>1
    <3>3. g[j] = l - 1
      BY <2>3, <3>2, <1>10, Zenon
    <3>4. g[k] = l
      BY <3>1, <3>2, <1>10, Zenon
    <3> QED BY <3>3, <3>4
  <2> QED BY <2>1, <2>2, <2>3
<1>14. ASSUME NEW i \in 1..l, s[i] \in ToSet(u) PROVE \E k \in o..(n + 2) : g[k] = i
  <2>1. CASE i = l
    <3>1. PICK k \in o..(n + 2) : k = n + 2
      BY <1>1
    <3>2. ~(k <= n) /\ k # n + 1
      BY <3>1
    <3>3. g[k] = l
      BY <3>2, <1>10, Zenon
    <3> QED BY <2>1, <3>3, Zenon
  <2>2. CASE i = l - 1
    <3>1. PICK k \in o..(n + 2) : k = n + 1
      BY <1>1
    <3>2. ~(k <= n) /\ k # n + 2
      BY <3>1
    <3>3. g[k] = l - 1
      BY <3>2, <1>10, Zenon
    <3> QED BY <2>2, <3>3, Zenon
  <2>3. CASE i # l /\ i # l - 1
    <3>1. i \in 1..(Len(s) - 2) /\ i \in 1..Len(s)
      BY <2>3, <1>7
    <3>2. s[i][1] # t
      BY <3>1
    <3>3. s[i] # User(t) /\ s[i] # Assistant(t)
      BY <3>2, OfATurn
    <3>4. s[i] \in ToSet(arch)
      BY <3>3, <1>6, <1>14
    <3>5. PICK k \in o..n : f[k] = i
      BY <3>1, <3>4, <1>3
    <3> QED BY <3>5, <1>9
  <2> QED BY <2>1, <2>2, <2>3
<1>15. Places(u, o, s, g)
  BY <1>6, <1>7, <1>11, <1>12, <1>13, <1>14 DEF Places
<1> QED BY <1>4, <1>5, <1>15 DEF Follows

\* Such a list ends with what it has of the archive.
LEMMA FollowsEnds ==
  ASSUME NEW arch \in Seq(Messages), NEW o \in Nat \ {0},
         NEW s \in Seq(Messages), Follows(arch, o, s)
  PROVE  EndsWith(arch, s)
<1> DEFINE known == {i \in DOMAIN s : s[i] \in ToSet(arch)}
           after(i) == Cardinality({j \in known : j > i})
<1>1. PICK n \in Nat : n = Len(arch)
  OBVIOUS
<1>2. PICK g : Places(arch, o, s, g)
  BY DEF Follows
<1>3. /\ g \in [o..n -> 1..Len(s)]
      /\ \A j, k \in o..n : j < k => g[j] < g[k]
      /\ \A k \in o..n : s[g[k]] = arch[k]
      /\ \A i \in 1..Len(s) : s[i] \in ToSet(arch) => \E k \in o..n : g[k] = i
  BY <1>1, <1>2 DEF Places
<1>4. known = {g[k] : k \in o..n}
  <2>1. DOMAIN s = 1..Len(s)
    OBVIOUS
  <2>2. \A k \in o..n : g[k] \in 1..Len(s) /\ s[g[k]] \in ToSet(arch)
    <3>1. TAKE k \in o..n
    <3>2. k \in 1..n /\ s[g[k]] = arch[k] /\ g[k] \in 1..Len(s)
      BY <1>3
    <3> QED BY <3>2, <1>1, Elements
  <2> QED BY <2>1, <2>2, <1>3
<1>5. ASSUME NEW i \in known PROVE after(i) < n /\ s[i] = arch[n - after(i)]
  <2>1. PICK k \in o..n : g[k] = i
    BY <1>4
  <2> DEFINE K == (k + 1)..n
             L == {j \in known : j > i}
             h == [m \in K |-> g[m]]
  <2>2. \A m \in K : m \in o..n /\ m > k
    OBVIOUS
  <2>3. \A j, m \in o..n : g[j] \in Int /\ g[m] \in Int /\ (g[j] < g[m] <=> j < m)
    <3>1. TAKE j, m \in o..n
    <3>2. g[j] \in Int /\ g[m] \in Int
      BY <1>3
    <3>3. j < m => g[j] < g[m]
      BY <1>3
    <3>4. m < j => g[m] < g[j]
      BY <1>3
    <3>5. j \in Int /\ m \in Int /\ (j = m => g[j] = g[m])
      OBVIOUS
    <3> QED BY <3>2, <3>3, <3>4, <3>5
  <2>4. L = {g[m] : m \in K}
    <3>1. ASSUME NEW j \in L PROVE \E m \in K : j = g[m]
      <4>1. PICK m \in o..n : j = g[m]
        BY <1>4
      <4>2. g[k] < g[m]
        BY <2>1, <2>3, <4>1
      <4>3. k < m
        BY <2>3, <4>2
      <4> QED BY <4>1, <4>3
    <3>2. ASSUME NEW m \in K PROVE g[m] \in L
      <4>1. m \in o..n /\ k < m
        BY <2>2
      <4>2. g[k] < g[m] /\ g[m] \in known
        BY <1>4, <2>3, <4>1
      <4> QED BY <2>1, <2>3, <4>1, <4>2
    <3> QED BY <3>1, <3>2
  <2>5. h \in Bijection(K, L)
    <3>1. h \in [K -> L] /\ \A m \in K : h[m] = g[m]
      BY <2>4
    <3>2. ASSUME NEW j \in K, NEW m \in K, h[j] = h[m] PROVE j = m
      <4>1. j \in o..n /\ m \in o..n /\ g[j] = g[m]
        BY <2>2, <3>1, <3>2
      <4>2. ~(j < m) /\ ~(m < j)
        BY <2>3, <4>1
      <4> QED BY <4>1, <4>2
    <3>3. \A j \in L : \E m \in K : h[m] = j
      BY <2>4, <3>1
    <3> HIDE DEF h, K, L
    <3>4. h \in Injection(K, L)
      BY <3>1, <3>2, Fun_IsInj
    <3>5. h \in Surjection(K, L)
      BY <3>1, <3>3, Fun_IsSurj
    <3> QED BY <3>4, <3>5 DEF Bijection
  <2>6. IsFiniteSet(K) /\ Cardinality(K) = n - k
    <3>1. k + 1 \in Int /\ n \in Int /\ k <= n
      OBVIOUS
    <3>2. /\ IsFiniteSet((k + 1)..n)
          /\ Cardinality((k + 1)..n) = IF k + 1 > n THEN 0 ELSE n - (k + 1) + 1
      BY <3>1, FS_Interval
    <3> QED BY <3>1, <3>2
  <2>7. Cardinality(L) = n - k
    <3> HIDE DEF h, K, L
    <3>1. Cardinality(K) = Cardinality(L)
      BY <2>5, <2>6, FS_Bijection DEF ExistsBijection
    <3> QED BY <2>6, <3>1
  <2>8. after(i) = n - k
    BY <2>7
  <2>9. n - k < n /\ n - (n - k) = k /\ s[i] = arch[k]
    BY <1>3, <2>1
  <2> HIDE DEF after
  <2> QED BY <2>8, <2>9
<1> QED BY <1>1, <1>5 DEF EndsWith
-----------------------------------------------------------------------------
(* The list follows the archive.                                            *)

ViewInv ==
  ~raced /\ open \in Conv /\ loaded =>
    /\ oldest > 0 /\ Follows(store[open], oldest, msgs)
    /\ \A p \in pages : p.cur => p.before = oldest
    /\ \A t \in Turn : Shown(t) => \A i \in 1..(Len(msgs) - 2) : msgs[i][1] # t

\* Pages are put in front of a list that is there.
PagesLoaded == ~raced => \A p \in pages : p.cur => loaded

View == ViewInv /\ PagesLoaded

\* What is known of the rest.
Rest == TypeInv /\ Room /\ Work /\ Displayed /\ Placed /\ KnownHere

\* The list is empty after a change of route.
LEMMA ViewEntered ==
  ASSUME TypeInv, NEW c \in Route, Enter(c)
  PROVE  View'
<1>1. open' = c /\ loaded' = (c = NoConv) /\ \A p \in pages' : ~p.cur
  BY EnterDoes
<1>2. c \in Conv => c # NoConv
  BY ConvAssumption
<1> QED BY <1>1, <1>2 DEF View, ViewInv, PagesLoaded

\* The list is empty while it is loaded again.
LEMMA ViewReloaded ==
  ASSUME TypeInv, Reload, UNCHANGED <<open, pages>>
  PROVE  View'
<1>1. /\ loaded' = (open = NoConv)
      /\ raced' = (raced \/ (\E t \in Turn : Shown(t)) \/ \E p \in pages : p.cur)
  BY ReloadDoes
<1>2. open \in Conv => ~loaded'
  BY <1>1, ConvAssumption
<1>3. ~raced' => \A p \in pages' : ~p.cur
  BY <1>1
<1> QED BY <1>2, <1>3 DEF View, ViewInv, PagesLoaded

\* A step that leaves the list and its archive alone.
LEMMA ViewKept ==
  ASSUME View, raced => raced',
         ~raced' => UNCHANGED <<open, msgs, loaded, oldest>>,
         ~raced' /\ open \in Conv => store'[open] = store[open],
         \A p \in pages' : p.cur => p \in pages \/ (loaded /\ p.before = oldest),
         \A t \in Turn : Shown(t)' => Shown(t)
  PROVE  View'
<1>1. SUFFICES ASSUME ~raced' PROVE View'
  BY DEF View, ViewInv, PagesLoaded
<1>2. ~raced /\ open' = open /\ msgs' = msgs /\ loaded' = loaded /\ oldest' = oldest
  BY <1>1
<1>3. PagesLoaded'
  BY <1>2 DEF View, PagesLoaded
<1>4. ASSUME open \in Conv, loaded
      PROVE  /\ oldest > 0 /\ Follows(store'[open], oldest, msgs)
             /\ \A p \in pages' : p.cur => p.before = oldest
             /\ \A t \in Turn : Shown(t)' => \A i \in 1..(Len(msgs) - 2) : msgs[i][1] # t
  <2>1. store'[open] = store[open]
    BY <1>1, <1>4
  <2>2. /\ oldest > 0 /\ Follows(store[open], oldest, msgs)
        /\ \A p \in pages : p.cur => p.before = oldest
        /\ \A t \in Turn : Shown(t) => \A i \in 1..(Len(msgs) - 2) : msgs[i][1] # t
    BY <1>2, <1>4 DEF View, ViewInv
  <2>3. Follows(store'[open], oldest, msgs)
    BY <2>1, <2>2, Zenon
  <2> QED BY <2>2, <2>3
<1>5. ViewInv'
  BY <1>2, <1>4 DEF ViewInv
<1> QED BY <1>3, <1>5 DEF View

\* A turn appears at the end of the list.
LEMMA ViewWithTurn ==
  ASSUME Rest, View, NEW t \in Turn, turn[t].phase \in {"unsent", "compact"},
         raced => raced', ~raced' => loaded,
         UNCHANGED <<open, loaded, oldest, store>>, msgs' = msgs \o Exchange(t),
         \A p \in pages' : ~p.cur, \A s \in Turn : s # t => ~turn'[s].cur
  PROVE  View'
<1>1. PagesLoaded'
  BY DEF PagesLoaded
<1>2. SUFFICES ASSUME ~raced', open \in Conv
      PROVE  /\ oldest > 0 /\ Follows(store[open], oldest, msgs')
             /\ \A i \in 1..(Len(msgs') - 2) : msgs'[i][1] # t
  BY <1>1 DEF View, ViewInv, Shown
<1>3. oldest > 0 /\ Follows(store[open], oldest, msgs) /\ oldest \in Nat \ {0}
  BY <1>2 DEF View, ViewInv, Rest, TypeInv
<1>4. Stored(open) /\ store[open] \in Seq(Messages) /\ msgs \in Seq(Messages)
  BY <1>2 DEF Rest, KnownHere, TypeInv, Stored
<1>5. PICK e \in Seq(Messages) : e = Exchange(t) /\ ToSet(e) = {User(t), Assistant(t)}
  BY OfATurn
<1>6. ToSet(e) \cap ToSet(store[open]) = {}
  <2>1. StoredPlaced /\ BasePlaced /\ turn[t].phase \notin Ended
    BY DEF Rest, Placed, Ended
  <2>2. User(t) \notin ToSet(store[open]) /\ Assistant(t) \notin ToSet(store[open])
    BY <1>2, <1>4, <2>1, TurnUnstored
  <2> QED BY <1>5, <2>2
<1>7. Follows(store[open], oldest, msgs')
  <2>1. Follows(store[open], oldest, msgs \o e)
    BY <1>3, <1>4, <1>6, FollowsShown
  <2> QED BY <1>5, <2>1, Zenon
<1>8. \A i \in 1..(Len(msgs') - 2) : msgs'[i][1] # t
  <2>1. PICK u : u = msgs \o Exchange(t)
    OBVIOUS
  <2>2. u \in Seq(Messages) /\ Len(u) = Len(msgs) + 2 /\ \A i \in 1..Len(msgs) : u[i] = msgs[i]
    BY <1>4, <2>1, DisplayedIs
  <2>3. ASSUME NEW i \in 1..(Len(u) - 2) PROVE u[i][1] # t
    <3>1. i \in 1..Len(msgs) /\ u[i] = msgs[i]
      BY <1>4, <2>2
    <3>2. msgs[i] \in ToSet(msgs)
      BY <1>4, <3>1, Elements
    <3>3. msgs[i][1] # t
      BY <3>2 DEF Rest, Placed, ListPlaced
    <3> QED BY <3>1, <3>3
  <2> QED BY <2>1, <2>3
<1> QED BY <1>3, <1>7, <1>8

\* The turn at the end of the list is stored.
LEMMA ViewWithStored ==
  ASSUME Rest, View, NEW t \in Turn, turn[t].cur, turn[t].phase = "save",
         Stored(turn[t].conv),
         store' = [store EXCEPT ![turn[t].conv] = @ \o Exchange(t)],
         raced => raced', UNCHANGED <<open, loaded, oldest, pages>>,
         ~raced' => msgs' = msgs, \A s \in Turn : ~turn'[s].cur
  PROVE  View'
<1>1. turn[t].conv = open /\ open \in Conv
  BY DEF Rest, Work, OneTurn, Stored
<1>2. \A p \in pages : ~p.cur
  BY DEF Rest, Work, FlagsAgree
<1>3. PagesLoaded'
  BY <1>2 DEF PagesLoaded
<1>4. SUFFICES ASSUME ~raced', loaded
      PROVE  oldest > 0 /\ Follows(store'[open], oldest, msgs)
  BY <1>2, <1>3 DEF View, ViewInv, Shown
<1>5. ~raced /\ Shown(t) /\ AtEnd(t)
  BY <1>4 DEF Rest, Displayed, Shown
<1>6. /\ oldest > 0 /\ Follows(store[open], oldest, msgs) /\ oldest \in Nat \ {0}
      /\ \A i \in 1..(Len(msgs) - 2) : msgs[i][1] # t
  BY <1>1, <1>4, <1>5 DEF View, ViewInv, Rest, TypeInv
<1>7. /\ Stored(open) /\ store[open] \in Seq(Messages) /\ msgs \in Seq(Messages)
      /\ oldest <= Len(store[open]) + 1
  BY <1>1 DEF Rest, TypeInv, Stored, Room
<1>8. User(t) \notin ToSet(store[open]) /\ Assistant(t) \notin ToSet(store[open])
  <2>1. StoredPlaced /\ BasePlaced /\ turn[t].phase \notin Ended
    BY DEF Rest, Placed, Ended
  <2> QED BY <1>1, <1>7, <2>1, TurnUnstored
<1>9. Len(msgs) >= 2 /\ msgs[Len(msgs) - 1] = User(t) /\ msgs[Len(msgs)] = Assistant(t)
  BY <1>5 DEF AtEnd
<1>10. Follows(store[open] \o Exchange(t), oldest, msgs)
  BY <1>6, <1>7, <1>8, <1>9, FollowsStored
<1>11. store'[open] = store[open] \o Exchange(t)
  BY <1>1, AppendStores DEF Rest
<1>12. Follows(store'[open], oldest, msgs)
  BY <1>10, <1>11, Zenon
<1> QED BY <1>6, <1>12

\* The list is loaded.
LEMMA ViewLoaded ==
  ASSUME Rest, View, NEW l \in loads, LoadReply(l), Stored(l.conv), Wanted(l)
  PROVE  View'
<1>1. l.conv = open /\ ~loaded /\ open \in Conv
  BY DEF Rest, Work, OneCall, Wanted, Stored
<1>2. UNCHANGED <<open, raced, turn, store, pages>> /\ loaded'
  BY <1>1 DEF LoadReply
<1>3. SUFFICES ASSUME ~raced PROVE View'
  BY <1>2 DEF View, ViewInv, PagesLoaded
<1>4. (\A p \in pages : ~p.cur) /\ \A t \in Turn : ~Shown(t)
  BY <1>1, <1>3 DEF View, PagesLoaded, Rest, Displayed, AtEnd
<1>5. (\A p \in pages' : ~p.cur) /\ \A t \in Turn : ~Shown(t)'
  BY <1>2, <1>4 DEF Shown
<1>6. store[open] \in Seq(Messages)
  BY <1>1 DEF Rest, TypeInv, Stored
<1>7. PICK n \in Nat : n = Len(store[open])
  BY <1>6
<1>8. PICK pos \in Nat \ {0} : pos = n + 1 /\ pos <= Len(store[open]) + 1
  BY <1>7
<1>9. PICK b : b = Before(open, pos)
  OBVIOUS
<1>10. /\ b.messages \in Seq(Messages) /\ b.oldest \in Nat \ {0} /\ b.oldest <= pos
       /\ Len(b.messages) = pos - b.oldest
       /\ \A i \in 1..(pos - b.oldest) : b.messages[i] = store[open][b.oldest + i - 1]
  <2>1. TypeInv /\ Stored(open)
    BY <1>1 DEF Rest
  <2>2. /\ Before(open, pos).messages \in Seq(Messages)
        /\ Before(open, pos).oldest \in Nat \ {0} /\ Before(open, pos).oldest <= pos
        /\ Len(Before(open, pos).messages) = pos - Before(open, pos).oldest
        /\ \A i \in 1..(pos - Before(open, pos).oldest) :
             Before(open, pos).messages[i] = store[open][Before(open, pos).oldest + i - 1]
    BY <1>8, <2>1, BeforeIs
  <2> QED BY <1>9, <2>2, Zenon
<1>11. msgs' = b.messages /\ oldest' = b.oldest
  BY <1>1, <1>7, <1>8, <1>9 DEF LoadReply
<1>12. Follows(store[open], b.oldest, b.messages)
  <2>1. b.oldest <= Len(store[open]) + 1 /\ Len(b.messages) = Len(store[open]) + 1 - b.oldest
    BY <1>7, <1>8, <1>10
  <2>2. \A i \in 1..Len(b.messages) : b.messages[i] = store[open][b.oldest + i - 1]
    BY <1>10
  <2> QED BY <1>6, <1>10, <2>1, <2>2, FollowsItself
<1>13. Follows(store'[open'], oldest', msgs') /\ oldest' > 0
  BY <1>2, <1>10, <1>11, <1>12
<1> QED BY <1>5, <1>13 DEF View, ViewInv, PagesLoaded

\* A page of the archive is put in front.
LEMMA ViewPaged ==
  ASSUME Rest, View, NEW p \in pages, PageReply(p), Stored(p.conv), Merges(p),
         msgs' = Before(p.conv, p.before).messages \o msgs,
         oldest' = Before(p.conv, p.before).oldest
  PROVE  View'
<1>1. p.cur /\ p.conv = open /\ open \in Conv
  BY DEF Merges, Rest, Work, OneCall, Stored
<1>2. UNCHANGED <<open, raced, turn, store, loaded>> /\ pages' = pages \ {p}
  BY DEF PageReply
<1>3. (\A q \in pages' : ~q.cur) /\ \A t \in Turn : ~turn[t].cur
  <2>1. \A q \in pages' : ~q.cur
    BY <1>1, <1>2 DEF Rest, Work, OneCall
  <2>2. paging /\ ~busy
    BY <1>1 DEF Rest, Work, FlagsAgree
  <2>3. \A t \in Turn : ~turn[t].cur
    BY <2>2 DEF Rest, Work, FlagsAgree
  <2> QED BY <2>1, <2>3
<1>4. \A t \in Turn : ~Shown(t)'
  BY <1>2, <1>3 DEF Shown
<1>5. SUFFICES ASSUME ~raced
      PROVE  oldest' > 0 /\ Follows(store[open], oldest', msgs')
  BY <1>2, <1>3, <1>4 DEF View, ViewInv, PagesLoaded
<1>6. loaded
  BY <1>1, <1>5 DEF View, PagesLoaded
<1>7. oldest > 0 /\ Follows(store[open], oldest, msgs) /\ p.before = oldest
  BY <1>1, <1>5, <1>6 DEF View, ViewInv
<1>8. /\ oldest \in Nat \ {0} /\ store[open] \in Seq(Messages) /\ msgs \in Seq(Messages)
      /\ oldest <= Len(store[open]) + 1
  BY <1>1, <1>7 DEF Rest, TypeInv, Stored, Room
<1>9. PICK b : b = Before(open, oldest)
  OBVIOUS
<1>10. /\ b.messages \in Seq(Messages) /\ b.oldest \in Nat \ {0} /\ b.oldest <= oldest
       /\ Len(b.messages) = oldest - b.oldest
       /\ \A i \in 1..(oldest - b.oldest) : b.messages[i] = store[open][b.oldest + i - 1]
  BY <1>1, <1>8, <1>9, BeforeIs DEF Rest
<1>11. msgs' = b.messages \o msgs /\ oldest' = b.oldest
  BY <1>1, <1>7, <1>9
<1>12. Follows(store[open], b.oldest, b.messages \o msgs)
  BY <1>7, <1>8, <1>10, FollowsBefore
<1>13. b.oldest > 0
  BY <1>10
<1> QED BY <1>11, <1>12, <1>13, Zenon

\* Every step keeps View.
LEMMA ViewStep ==
  ASSUME Rest, View, [Next]_vars
  PROVE  View'
<1> USE DEF flags, files, view
<1>1. turn \in [Turn -> TurnState] /\ msgs \in Seq(Messages) /\ TypeInv
  BY DEF Rest, TypeInv
<1>2. UNCHANGED <<open, msgs, loaded, oldest, store, pages, turn>> /\ (raced => raced') => View'
  BY ViewKept DEF Shown
<1>3. ASSUME NEW t \in Turn, NEW ph \in {"told", "silent", "over"}, End(t, ph),
             UNCHANGED <<open, msgs, loaded, oldest, pages>>, raced => raced',
             ~raced' /\ open \in Conv => store'[open] = store[open]
      PROVE  View'
  <2>1. /\ \A s \in Turn : s # t => turn'[s] = turn[s]
        /\ ~turn'[t].cur
    BY <1>1, <1>3, EndDoes
  <2>2. \A s \in Turn : Shown(s)' => Shown(s)
    BY <2>1 DEF Shown
  <2> QED BY <1>3, <2>2, ViewKept
<1>4. \A c \in Route : Enter(c) => View'
  BY <1>1, ViewEntered
<1>5. Reload /\ UNCHANGED <<open, pages>> => View'
  BY <1>1, ViewReloaded
<1>6. \A c \in Conv \cup {NoConv} : Goto(c) => View'
  BY <1>4 DEF Goto, Route
<1>7. ClearNewChat => View'
  <2>1. SUFFICES ASSUME ClearNewChat PROVE View'
    OBVIOUS
  <2>2. open' = NoConv /\ \A p \in pages' : ~p.cur
    BY <1>1, <2>1, StalePagesAre DEF ClearNewChat, TypeInv
  <2>3. open' \notin Conv
    BY <2>2, ConvAssumption
  <2> QED BY <2>2, <2>3 DEF View, ViewInv, PagesLoaded
<1>8. LoadMore => View'
  <2>1. SUFFICES ASSUME LoadMore PROVE View'
    OBVIOUS
  <2>2. /\ pages' = pages \cup {[conv |-> open, before |-> oldest, cur |-> TRUE]} /\ loaded
        /\ UNCHANGED <<open, msgs, loaded, oldest, store, turn, raced>>
    BY <2>1 DEF LoadMore, MayPage, Body
  <2>3. \A p \in pages' : p.cur => p \in pages \/ (loaded /\ p.before = oldest)
    BY <2>2
  <2> QED BY <2>2, <2>3, ViewKept DEF Shown
<1>9. Compact \/ PickFiles \/ RemoveFiles => View'
  BY <1>2 DEF Compact, PickFiles, RemoveFiles
<1>10. \A l \in loads : LoadReply(l) => View'
  <2>1. SUFFICES ASSUME NEW l \in loads, LoadReply(l) PROVE View'
    OBVIOUS
  <2>2. UNCHANGED <<open, store, pages, turn, raced>>
    BY <2>1 DEF LoadReply
  <2>3. CASE Stored(l.conv) /\ Wanted(l)
    BY <2>1, <2>3, ViewLoaded
  <2>4. CASE ~(Stored(l.conv) /\ Wanted(l))
    BY <1>2, <2>1, <2>2, <2>4 DEF LoadReply
  <2> QED BY <2>3, <2>4
<1>11. \A l \in loads : LoadFails(l) => View'
  <2>1. SUFFICES ASSUME NEW l \in loads, LoadFails(l) PROVE View'
    OBVIOUS
  <2>2. /\ UNCHANGED <<open, msgs, oldest, store, pages, turn, raced>>
        /\ loaded' = IF l.live THEN FALSE ELSE loaded
    BY <2>1 DEF LoadFails
  <2>3. CASE l.live
    <3>1. ~loaded /\ ~loaded'
      BY <2>2, <2>3 DEF Rest, Work, OneCall
    <3>2. PagesLoaded'
      BY <2>2, <3>1 DEF View, PagesLoaded
    <3> QED BY <3>1, <3>2 DEF View, ViewInv
  <2>4. CASE ~l.live
    BY <1>2, <2>2, <2>4
  <2> QED BY <2>3, <2>4
<1>12. \A p \in pages : PageReply(p) => View'
  <2>1. SUFFICES ASSUME NEW p \in pages, PageReply(p) PROVE View'
    OBVIOUS
  <2>2. UNCHANGED <<open, loaded, store, turn, raced>> /\ pages' = pages \ {p}
    BY <2>1 DEF PageReply
  <2>3. CASE /\ Stored(p.conv) /\ Merges(p)
             /\ msgs' = Before(p.conv, p.before).messages \o msgs
             /\ oldest' = Before(p.conv, p.before).oldest
    BY <2>1, <2>3, ViewPaged
  <2>4. CASE UNCHANGED <<msgs, oldest, hasMore>>
    BY <2>2, <2>4, ViewKept DEF Shown
  <2> QED BY <2>1, <2>3, <2>4 DEF PageReply
<1>13. \A t \in Turn : Send(t) => View'
  <2>1. SUFFICES ASSUME NEW t \in Turn, Send(t) PROVE View'
    OBVIOUS
  <2>2. /\ UNCHANGED <<open, loaded, oldest, store, raced>> /\ pages' = StaleCalls(pages)
        /\ turn[t].phase = "unsent" /\ loaded
    BY <2>1 DEF Send, MaySend
  <2>3. \A p \in pages' : ~p.cur
    BY <1>1, <2>2, StalePagesAre DEF TypeInv
  <2>4. /\ \A s \in Turn : s # t => ~turn'[s].cur
        /\ turn'[t].phase \in {"compact", "stream"}
        /\ turn'[t].phase = "stream" => msgs' = msgs \o Exchange(t)
        /\ turn'[t].phase = "compact" => msgs' = msgs
    BY <1>1, <2>1, SendDoes
  <2>5. CASE turn'[t].phase = "stream"
    <3>1. msgs' = msgs \o Exchange(t)
      BY <2>4, <2>5
    <3> QED BY <2>2, <2>3, <2>4, <3>1, ViewWithTurn
  <2>6. CASE turn'[t].phase = "compact"
    <3>1. \A s \in Turn : ~Shown(s)'
      BY <2>4, <2>6 DEF Shown
    <3>2. msgs' = msgs
      BY <2>4, <2>6
    <3> QED BY <2>2, <2>3, <3>1, <3>2, ViewKept
  <2> QED BY <2>4, <2>5, <2>6
<1>14. \A t \in Turn : TurnCompacted(t) => View'
  <2>1. SUFFICES ASSUME NEW t \in Turn, TurnCompacted(t) PROVE View'
    OBVIOUS
  <2>2. UNCHANGED <<open, loaded, oldest, store, pages>> /\ turn[t].phase = "compact"
    BY <2>1 DEF TurnCompacted
  <2>3. CASE /\ turn[t].cur
             /\ turn' = [turn EXCEPT ![t].phase = "stream", ![t].history = {}]
             /\ Display(t) /\ raced' = (raced \/ ~loaded)
    <3>1. \A s \in Turn : s # t => turn'[s] = turn[s]
      BY <1>1, <2>3, GoesOn
    <3>2. \A s \in Turn : s # t => ~turn'[s].cur
      BY <2>3, <3>1 DEF Rest, Work, OneTurn
    <3>3. \A p \in pages' : ~p.cur
      BY <2>2, <2>3 DEF Rest, Work, FlagsAgree
    <3>4. msgs' = msgs \o Exchange(t)
      BY <2>3 DEF Display
    <3>5. (raced => raced') /\ (~raced' => loaded)
      BY <2>3
    <3> QED BY <2>2, <3>2, <3>3, <3>4, <3>5, ViewWithTurn
  <2>4. CASE End(t, "over") /\ UNCHANGED <<msgs, raced>>
    BY <1>3, <2>2, <2>4
  <2> QED BY <2>1, <2>3, <2>4 DEF TurnCompacted
<1>15. ASSUME NEW t \in Turn, Shown(t), msgs' = Published(t),
              UNCHANGED <<open, loaded, oldest, store, pages, raced>>,
              \A s \in Turn : Shown(s)' => Shown(s)
       PROVE  View'
  <2>1. ~raced => msgs' = msgs
    <3>1. SUFFICES ASSUME ~raced PROVE Published(t) = msgs
      BY <1>15
    <3>2. Len(msgs) >= 2 /\ msgs[Len(msgs)] = Assistant(t)
      BY <1>15, <3>1 DEF Rest, Displayed, AtEnd
    <3>3. Len(msgs) > 0
      BY <1>1, <3>2
    <3> QED BY <1>1, <3>2, <3>3, PublishedIs
  <2> QED BY <1>15, <2>1, ViewKept
<1>16. \A t \in Turn : Publish(t) => View'
  BY <1>15 DEF Publish, Current, Shown
<1>17. \A t \in Turn : StreamEnds(t) => View'
  <2>1. SUFFICES ASSUME NEW t \in Turn, StreamEnds(t) PROVE View'
    OBVIOUS
  <2>2. UNCHANGED <<open, loaded, oldest, store, pages, raced>> /\ turn[t].phase = "stream"
    BY <2>1 DEF StreamEnds
  <2>3. CASE Current(t)
    <3>1. turn' = [turn EXCEPT ![t].phase = "save"] /\ msgs' = Published(t)
      BY <2>1, <2>3 DEF StreamEnds
    <3>2. /\ \A s \in Turn : s # t => turn'[s] = turn[s]
          /\ turn'[t].phase = "save" /\ turn'[t].cur = turn[t].cur
      BY <1>1, <3>1, GoesOn
    <3>3. Shown(t) /\ \A s \in Turn : Shown(s)' => Shown(s)
      BY <2>2, <2>3, <3>2 DEF Shown, Current
    <3> QED BY <1>15, <2>2, <3>1, <3>3
  <2>4. CASE ~Current(t)
    <3>1. End(t, "over") /\ msgs' = msgs
      BY <2>1, <2>4 DEF StreamEnds
    <3> QED BY <1>3, <2>2, <3>1
  <2> QED BY <2>3, <2>4
<1>18. ASSUME NEW t \in Turn, NEW ph \in {"told", "over"}, End(t, ph),
              turn[t].phase = "save", Stored(turn[t].conv),
              store' = [store EXCEPT ![turn[t].conv] = @ \o Exchange(t)],
              raced' = (raced \/ (~turn[t].cur /\ open = turn[t].conv)),
              UNCHANGED <<open, loaded, oldest, pages>>,
              turn[t].cur /\ ~raced' => msgs' = msgs, ~turn[t].cur => msgs' = msgs
       PROVE  View'
  <2>1. raced => raced'
    BY <1>18
  <2>2. CASE turn[t].cur
    <3>1. /\ \A s \in Turn : s # t => turn'[s] = turn[s]
          /\ ~turn'[t].cur
      BY <1>1, <1>18, EndDoes
    <3>2. \A s \in Turn : ~turn'[s].cur
      BY <2>2, <3>1 DEF Rest, Work, OneTurn
    <3>3. ~raced' => msgs' = msgs
      BY <1>18, <2>2
    <3> QED BY <1>18, <2>1, <2>2, <3>2, <3>3, ViewWithStored
  <2>3. CASE ~turn[t].cur
    <3>1. ~raced' /\ open \in Conv => store'[open] = store[open]
      BY <1>1, <1>18, <2>3 DEF TypeInv
    <3> QED BY <1>3, <1>18, <2>1, <2>3, <3>1
  <2> QED BY <2>2, <2>3
<1>19. \A t \in Turn : AppendTurn(t) => View'
  <2>1. SUFFICES ASSUME NEW t \in Turn, AppendTurn(t) PROVE View'
    OBVIOUS
  <2>2. /\ turn[t].phase = "save" /\ End(t, "over") /\ Stored(turn[t].conv)
        /\ store' = [store EXCEPT ![turn[t].conv] = @ \o Exchange(t)]
        /\ msgs' = IF turn[t].cur
                   THEN SubSeq(msgs, 1, Len(msgs) - 2) \o Exchange(t) ELSE msgs
        /\ UNCHANGED <<open, loaded, oldest, pages>>
    BY <2>1 DEF AppendTurn
  <2>3. raced' = (raced \/ (~turn[t].cur /\ open = turn[t].conv))
    BY <2>1 DEF AppendTurn
  <2>4. turn[t].cur /\ ~raced' => msgs' = msgs
    <3>1. SUFFICES ASSUME turn[t].cur, ~raced'
          PROVE  SubSeq(msgs, 1, Len(msgs) - 2) \o Exchange(t) = msgs
      BY <2>2
    <3>2. AtEnd(t)
      BY <2>2, <2>3, <3>1 DEF Rest, Displayed, Shown
    <3> QED BY <1>1, <3>2, AppendedIs DEF AtEnd
  <2> QED BY <1>18, <2>2, <2>3, <2>4
<1>20. \A t \in Turn : AppendFails(t) => View'
  <2>1. SUFFICES ASSUME NEW t \in Turn, AppendFails(t) PROVE View'
    OBVIOUS
  <2>2. /\ turn[t].phase = "save" /\ End(t, "told")
        /\ UNCHANGED <<open, msgs, loaded, oldest, pages>>
    BY <2>1 DEF AppendFails, AfterFailure
  <2>3. \/ UNCHANGED <<store, raced>>
        \/ /\ Stored(turn[t].conv)
           /\ store' = [store EXCEPT ![turn[t].conv] = @ \o Exchange(t)]
           /\ raced' = (raced \/ (~turn[t].cur /\ open = turn[t].conv))
    BY <2>1, Zenon DEF AppendFails
  <2>4. CASE UNCHANGED <<store, raced>>
    BY <1>3, <2>2, <2>4
  <2>5. CASE /\ Stored(turn[t].conv)
             /\ store' = [store EXCEPT ![turn[t].conv] = @ \o Exchange(t)]
             /\ raced' = (raced \/ (~turn[t].cur /\ open = turn[t].conv))
    BY <1>18, <2>2, <2>5
  <2> QED BY <2>3, <2>4, <2>5
<1>21. \A t \in Turn : CreateFails(t) => View'
  <2>1. SUFFICES ASSUME NEW t \in Turn, CreateFails(t) PROVE View'
    OBVIOUS
  <2>2. /\ UNCHANGED <<open, msgs, loaded, oldest, pages, raced>> /\ End(t, "silent")
        /\ \/ store' = store
           \/ \E c \in Conv : store[c] = Unused /\ store' = [store EXCEPT ![c] = Transcript(t)]
    BY <2>1 DEF CreateFails
  <2>3. ~raced' /\ open \in Conv => store'[open] = store[open]
    <3>1. SUFFICES ASSUME ~raced, open \in Conv PROVE store'[open] = store[open]
      BY <2>2
    <3>2. store[open] # Unused
      BY <3>1 DEF Rest, KnownHere, Stored
    <3> QED BY <1>1, <2>2, <3>1, <3>2 DEF TypeInv
  <2> QED BY <1>3, <2>2, <2>3
<1>22. \A t \in Turn, c \in Conv : Create(t, c) => View'
  <2>1. SUFFICES ASSUME NEW t \in Turn, NEW c \in Conv, Create(t, c) PROVE View'
    OBVIOUS
  <2>2. IF turn[t].cur THEN Enter(c)
        ELSE /\ Reload
             /\ UNCHANGED <<open, flags, context, pages, summary, pending>>
    BY <1>1, <2>1, CreateDoes
  <2>3. c \in Route
    BY DEF Route
  <2> QED BY <1>4, <1>5, <2>2, <2>3
<1>23. \A k \in summary : CompactReply(k) => View'
  BY <1>2 DEF CompactReply
<1>24. \A c \in Conv : ConfirmDelete(c) => View'
  BY <1>2, <1>5 DEF ConfirmDelete
<1>25. \A d \in deletion : Deleted(d) => View'
  <2>1. SUFFICES ASSUME NEW d \in deletion, Deleted(d) PROVE View'
    OBVIOUS
  <2>2. CASE d.wasActive /\ open # NoConv
    <3>1. Enter(NoConv) /\ NoConv \in Route
      BY <2>1, <2>2 DEF Deleted, Route
    <3> QED BY <1>4, <3>1
  <2>3. CASE ~(d.wasActive /\ open # NoConv)
    <3>1. /\ UNCHANGED <<open, msgs, loaded, oldest, pages, turn>>
          /\ raced' = (raced \/ open = d.conv)
          /\ store' = [store EXCEPT ![d.conv] = Gone]
      BY <2>1, <2>3 DEF Deleted
    <3>2. ~raced' /\ open \in Conv => store'[open] = store[open]
      BY <1>1, <3>1 DEF TypeInv
    <3>3. raced => raced'
      BY <3>1
    <3> QED BY <3>1, <3>2, <3>3, ViewKept DEF Shown
  <2> QED BY <2>2, <2>3
<1>26. \A d \in deletion : DeleteFails(d) => View'
  BY <1>2, <1>5 DEF DeleteFails
<1>27. \A r \in picking : FilesRead(r) => View'
  BY <1>2 DEF FilesRead
<1>28. UNCHANGED vars => View'
  BY <1>2 DEF vars
<1> QED BY <1>6, <1>7, <1>8, <1>9, <1>10, <1>11, <1>12, <1>13, <1>14, <1>16, <1>17,
           <1>19, <1>20, <1>21, <1>22, <1>23, <1>24, <1>25, <1>26, <1>27, <1>28,
           Zenon DEF Next, ClearChat
-----------------------------------------------------------------------------
(* The inductive invariant.                                                 *)

Inv ==
  /\ TypeInv /\ Room /\ Work /\ Displayed /\ Placed /\ Apart
  /\ OverNowhere /\ KnownHere /\ View

\* What is stored at the start is of no turn of this page.
LEMMA ArchivedAtStart ==
  ASSUME Init, NEW c \in Conv, Stored(c)
  PROVE  /\ store[c] \in Seq(Messages) /\ Once(store[c])
         /\ \A m \in ToSet(store[c]) : m[1] \notin Turn
<1>1. store[c] = Archive[c]
  BY DEF Init, Stored
<1>2. PICK s \in Seq((Nat \ Turn) \X {"user", "assistant"}) : s = Archive[c]
  BY ArchiveAssumption
<1>3. \A m \in ToSet(s) : m \in (Nat \ Turn) \X {"user", "assistant"}
  BY <1>2, Elements
<1>4. NoneTwice(Archive[c])
  BY ArchiveAssumption
<1>5. Once(s)
  BY <1>2, <1>4, OnceIsNoneTwice
<1>6. store[c] \in Seq(Messages)
  BY TypeAtStart DEF TypeInv, Stored
<1> QED BY <1>1, <1>2, <1>3, <1>5, <1>6

\* The inductive invariant holds in the initial state, and every step keeps it.
LEMMA InvAtStart ==
  ASSUME Init
  PROVE  Inv
<1>1. TypeInv
  BY TypeAtStart
<1>2. /\ open = NoConv /\ msgs = <<>> /\ loads = {} /\ loaded
      /\ sending = FALSE /\ paging = FALSE /\ busy = FALSE /\ compacting = FALSE
      /\ context = NoContext /\ pages = {} /\ summary = {}
      /\ turn = [t \in Turn |-> Idle]
  BY DEF Init
<1>3. \A t \in Turn : /\ turn[t].phase = "unsent" /\ turn[t].conv = NoConv
                      /\ turn[t].base = <<>> /\ ~turn[t].cur
  BY <1>2 DEF Idle
<1>4. ~Stored(open) /\ open \notin Conv
  BY <1>2, ConvAssumption DEF Stored
<1>5. ToSet(<<>>) = {} /\ Once(<<>>)
  BY DEF ToSet, Once
<1>6. Room
  BY <1>2, <1>4 DEF Room
<1>7. Work
  <2>1. OneTurn /\ OneCall
    BY <1>2, <1>3 DEF OneTurn, OneCall
  <2>2. FlagsAgree
    BY <1>2, <1>3 DEF FlagsAgree
  <2> QED BY <2>1, <2>2 DEF Work
<1>8. Displayed
  BY <1>3 DEF Displayed, Shown
<1>9. Placed
  <2>1. StoredPlaced
    BY ArchivedAtStart DEF StoredPlaced
  <2>2. BasePlaced /\ ListPlaced /\ NewChatPlaced
    BY <1>2, <1>3, <1>5 DEF BasePlaced, ListPlaced, NewChatPlaced
  <2> QED BY <2>1, <2>2 DEF Placed
<1>10. Apart
  <2>1. StoredApart
    BY ArchivedAtStart DEF StoredApart
  <2>2. BaseApart /\ NewChatApart
    BY <1>2, <1>3, <1>5 DEF BaseApart, NewChatApart
  <2> QED BY <2>1, <2>2 DEF Apart
<1>11. OverNowhere
  BY <1>3 DEF OverNowhere
<1>12. KnownHere
  BY <1>2, <1>3, <1>4, <1>5 DEF KnownHere
<1>13. View
  BY <1>2, <1>4 DEF View, ViewInv, PagesLoaded
<1> QED BY <1>1, <1>6, <1>7, <1>8, <1>9, <1>10, <1>11, <1>12, <1>13 DEF Inv

LEMMA InvStep ==
  ASSUME Inv, [Next]_vars
  PROVE  Inv'
<1>1. /\ TypeInv /\ Room /\ Work /\ Displayed /\ Placed /\ Apart
      /\ OverNowhere /\ KnownHere /\ View
  BY DEF Inv
<1>2. TypeInv'
  BY <1>1, TypeStep
<1>3. Room'
  BY <1>1, <1>2, RoomStep
<1>4. Work'
  BY <1>1, <1>2, WorkStep
<1>5. Displayed'
  BY <1>1, <1>2, <1>4, DisplayedStep
<1>6. TurnMoves
  BY <1>1, TurnStep
<1>7. StoreMoves
  BY <1>1, StoreStep
<1>8. ListMoves
  BY <1>1, <1>2, ListStep
<1>9. Left \/ Stays
  BY <1>1, PageStep
<1>10. StoredPlaced /\ BasePlaced /\ ListPlaced /\ NewChatPlaced
  BY <1>1 DEF Placed
<1>11. StoredPlaced'
  BY <1>1, <1>6, <1>7, <1>10, StoredPlacedStep
<1>12. BasePlaced'
  BY <1>1, <1>6, <1>10, BasePlacedStep
<1>13. ListPlaced'
  BY <1>1, <1>6, <1>8, <1>10, ListPlacedStep
<1>14. NewChatPlaced'
  BY <1>1, <1>4, <1>6, <1>8, <1>10, NewChatPlacedStep
<1>15. Apart'
  <2>1. SUFFICES ASSUME ~lost' PROVE StoredApart' /\ BaseApart' /\ NewChatApart'
    BY DEF Apart
  <2>2. ~lost
    BY <1>7, <2>1 DEF StoreMoves
  <2>3. StoredApart /\ BaseApart /\ NewChatApart
    BY <1>1, <2>2 DEF Apart
  <2>4. StoredApart'
    BY <1>1, <1>6, <1>7, <1>10, <2>3, StoredApartStep
  <2>5. BaseApart'
    BY <1>1, <1>4, <1>6, <1>7, <1>10, <2>3, BaseApartStep
  <2>6. NewChatApart'
    BY <1>1, <1>2, <1>4, <1>6, <1>7, <1>8, <1>10, <1>11, <1>12, <2>1, <2>3, NewChatApartStep
  <2> QED BY <2>4, <2>5, <2>6
<1>16. OverNowhere'
  BY <1>1, <1>6, OverNowhereStep
<1>17. KnownHere'
  BY <1>1, <1>2, <1>6, <1>7, <1>8, <1>9, KnownStep
<1>18. View'
  <2>1. Rest
    BY <1>1 DEF Rest
  <2> QED BY <1>1, <2>1, ViewStep
<1> QED BY <1>2, <1>3, <1>4, <1>5, <1>11, <1>12, <1>13, <1>14, <1>15, <1>16, <1>17, <1>18
        DEF Inv, Placed

LEMMA InvHolds == Spec => []Inv
<1>1. Init => Inv
  BY InvAtStart
<1>2. Inv /\ [Next]_vars => Inv'
  BY InvStep
<1> QED BY <1>1, <1>2, PTL DEF Spec
-----------------------------------------------------------------------------
(* The theorems.                                                            *)

\* The lists hold messages, the calls under way what their closures captured
\* (the state of pages/Chat3.tsx and lib/chat-history.tsx).
THEOREM TypeCorrect == Spec => []TypeOK
<1>1. TypeInv => TypeOK
  <2>1. SUFFICES ASSUME TypeInv PROVE TypeOK
    OBVIOUS
  <2>2. \A c \in Conv : store[c] \in {Unused, Gone} \/ ToSet(store[c]) \subseteq Messages
    <3>1. SUFFICES ASSUME NEW c \in Conv, store[c] \in Seq(Messages)
          PROVE  ToSet(store[c]) \subseteq Messages
      BY <2>1 DEF TypeInv
    <3> QED BY <3>1, Elements
  <2>3. ToSet(msgs) \subseteq Messages
    BY <2>1, Elements DEF TypeInv
  <2>4. \A t \in Turn : turn[t].phase \in Phase /\ turn[t].conv \in Route
    BY <2>1, TurnIs DEF TypeInv
  <2>5. \A l \in loads : l.conv \in Conv /\ l.live \in BOOLEAN
    BY <2>1 DEF TypeInv, LoadCall
  <2>6. \A p \in pages : p.conv \in Conv /\ p.before \in Nat /\ p.cur \in BOOLEAN
    BY <2>1 DEF TypeInv, PageCall
  <2>7. \A k \in summary : k.history \subseteq Messages /\ k.cur \in BOOLEAN
    BY <2>1 DEF TypeInv, SummaryCall
  <2>8. \A d \in deletion : d.conv \in Conv /\ d.wasActive \in BOOLEAN
    BY <2>1 DEF TypeInv, Deletion
  <2>9. {loaded, hasMore, sending, paging, busy, compacting, raced, lost} \subseteq BOOLEAN
    BY <2>1 DEF TypeInv
  <2>10. /\ open \in Route /\ oldest \in Nat
         /\ context = NoContext \/ context \subseteq Messages
         /\ picking \subseteq Route /\ pending \subseteq Route
    BY <2>1 DEF TypeInv
  <2> QED BY <2>2, <2>3, <2>4, <2>5, <2>6, <2>7, <2>8, <2>9, <2>10 DEF TypeOK
<1>2. Inv => TypeInv
  BY DEF Inv
<1> QED BY <1>1, <1>2, InvHolds, PTL

\* The flags that block the page agree with the turn, the compaction and the
\* page under way, of which there is one at most each; the loader is under the
\* answer that is being generated (sendingRef, pagingRef, operationRef).
THEOREM FlagsAlwaysMatch == Spec => []FlagsMatchWork
<1>1. Inv => FlagsMatchWork
  <2>1. SUFFICES ASSUME Inv PROVE FlagsMatchWork
    OBVIOUS
  <2>2. TypeInv /\ Work /\ Displayed
    BY <2>1 DEF Inv
  <2>3. /\ busy = (\E t \in Turn : turn[t].cur)
        /\ sending = (busy \/ \E k \in summary : k.cur)
        /\ compacting = \/ \E t \in Turn : turn[t].cur /\ turn[t].phase = "compact"
                        \/ \E k \in summary : k.cur
        /\ paging = (\E p \in pages : p.cur)
    BY <2>2 DEF Work, FlagsAgree
  <2>4. busy = (CurrentTurns # {})
    BY <2>3 DEF CurrentTurns
  <2>5. (\E t \in CurrentTurns : turn[t].phase = "compact")
          = (\E t \in Turn : turn[t].cur /\ turn[t].phase = "compact")
    BY DEF CurrentTurns
  <2>6. compacting = \/ \E t \in CurrentTurns : turn[t].phase = "compact"
                     \/ \E k \in summary : k.cur
    BY <2>3, <2>5
  <2>7. ASSUME NEW i \in DOMAIN msgs, OffersContinue(i) PROVE ~sending
    <3>1. ~busy /\ ~compacting
      BY <2>7 DEF OffersContinue
    <3> QED BY <2>3, <3>1
  <2>8. ASSUME NEW i \in DOMAIN msgs, Generating(i), ~raced
        PROVE  \E t \in CurrentTurns : turn[t].phase = "compact" \/ msgs[i] = Assistant(t)
    <3>1. busy /\ i = Len(msgs)
      BY <2>8 DEF Generating, IsLastAnswer
    <3>2. PICK t \in Turn : turn[t].cur
      BY <2>3, <3>1
    <3>3. turn[t].phase \in Active
      BY <2>2, <3>2 DEF Work, OneTurn
    <3>4. CASE turn[t].phase = "compact"
      BY <3>2, <3>4 DEF CurrentTurns
    <3>5. CASE turn[t].phase \in {"stream", "save"}
      <4>1. AtEnd(t)
        BY <2>2, <2>8, <3>2, <3>5 DEF Displayed, Shown
      <4> QED BY <3>1, <3>2, <4>1 DEF AtEnd, CurrentTurns
    <3> QED BY <3>3, <3>4, <3>5 DEF Active
  <2> QED BY <2>3, <2>4, <2>6, <2>7, <2>8 DEF FlagsMatchWork
<1> QED BY <1>1, InvHolds, PTL

\* A turn is stored once, in one conversation, whatever is sent, left, created
\* and deleted meanwhile, as long as no answer to a create is lost (save).
THEOREM AlwaysStoredOnce == Spec => []StoredOnce
<1>1. Inv => StoredOnce
  <2>1. SUFFICES ASSUME Inv, ~lost
        PROVE  /\ \A c \in Conv : NoneTwice(store[c])
               /\ \A t \in Turn :
                    Cardinality({c \in Conv : Stored(c) /\ User(t) \in ToSet(store[c])}) <= 1
    BY DEF StoredOnce
  <2>2. TypeInv /\ StoredApart
    BY <2>1 DEF Inv, Apart
  <2>3. ASSUME NEW x PROVE NoneTwice(<<x>>)
    <3>1. <<x>> \in Seq({x}) /\ Len(<<x>>) = 1
      OBVIOUS
    <3>2. Once(<<x>>)
      BY <3>1 DEF Once
    <3> QED BY <3>1, <3>2, OnceIsNoneTwice
  <2>4. NoneTwice(Unused) /\ NoneTwice(Gone)
    BY <2>3 DEF Unused, Gone
  <2>5. ASSUME NEW c \in Conv PROVE NoneTwice(store[c])
    <3>1. CASE Stored(c)
      <4>1. store[c] \in Seq(Messages) /\ Once(store[c])
        BY <2>2, <3>1 DEF TypeInv, Stored, StoredApart
      <4> QED BY <4>1, OnceIsNoneTwice
    <3>2. CASE ~Stored(c)
      <4>1. store[c] = Unused \/ store[c] = Gone
        BY <3>2 DEF Stored
      <4> QED BY <2>4, <4>1
    <3> QED BY <3>1, <3>2
  <2>6. ASSUME NEW t \in Turn
        PROVE  Cardinality({c \in Conv : Stored(c) /\ User(t) \in ToSet(store[c])}) <= 1
    <3> DEFINE C == {c \in Conv : Stored(c) /\ User(t) \in ToSet(store[c])}
    <3>1. \A c, d \in C : c = d
      <4>1. SUFFICES ASSUME NEW c \in C, NEW d \in C, c # d PROVE FALSE
        OBVIOUS
      <4>2. User(t) \in ToSet(store[c]) \cap ToSet(store[d]) /\ User(t)[1] \in Turn
        BY <4>1, OfATurn
      <4> QED BY <2>2, <4>1, <4>2 DEF StoredApart
    <3>2. CASE C = {}
      BY <3>2, FS_EmptySet
    <3>3. CASE C # {}
      <4>1. PICK c : C = {c}
        BY <3>1, <3>3
      <4>2. Cardinality({c}) = 1
        BY FS_Singleton
      <4> QED BY <4>1, <4>2
    <3> QED BY <3>2, <3>3
  <2> QED BY <2>5, <2>6
<1> QED BY <1>1, InvHolds, PTL

\* A turn that the page shows in a stored conversation is under way, stored
\* there, or one that could not be saved: none is lost in silence except by a
\* create that failed in a new chat (save, and the error it shows).
THEOREM AlwaysSavedOrTold == Spec => []SavedOrTold
<1>1. Inv => SavedOrTold
  <2>1. SUFFICES ASSUME Inv, Stored(open), ~raced, NEW t \in Turn,
                        NEW m \in ToSet(Exchange(t)), m \in ToSet(msgs)
        PROVE  \/ turn[t].cur \/ turn[t].phase \in {"told", "silent"}
               \/ ToSet(Exchange(t)) \subseteq ToSet(store[open])
    BY DEF SavedOrTold
  <2>2. TypeInv /\ OverNowhere /\ KnownHere /\ StoredPlaced
    BY <2>1 DEF Inv, Placed
  <2>3. m[1] = t /\ ToSet(Exchange(t)) = {User(t), Assistant(t)}
    BY <2>1, OfATurn
  <2>4. Belongs(m) /\ open \in Conv /\ open # NoConv
    BY <2>1, <2>2, ConvAssumption DEF KnownHere, Stored
  <2>5. CASE m \in ToSet(store[open])
    <3>1. /\ turn[t].phase \in Ended
          /\ turn[t].phase = "over" =>
               User(t) \in ToSet(store[open]) /\ Assistant(t) \in ToSet(store[open])
      BY <2>1, <2>2, <2>3, <2>4, <2>5 DEF StoredPlaced
    <3> QED BY <2>3, <3>1 DEF Ended
  <2>6. CASE /\ turn[t].conv = open /\ turn[t].phase \notin {"unsent", "compact"}
             /\ turn[t].phase \in {"stream", "save"} => turn[t].cur
    <3>1. turn[t].phase # "over" /\ turn[t].phase \in Phase
      BY <2>2, <2>4, <2>6, TurnIs DEF OverNowhere, TypeInv
    <3> QED BY <2>6, <3>1 DEF Phase
  <2> QED BY <2>3, <2>4, <2>5, <2>6 DEF Belongs
<1> QED BY <1>1, InvHolds, PTL

\* What a compaction has put in contextRef, and what is sent with the next
\* turn instead of the list, is of the conversation it is sent in.
THEOREM ContextAlwaysBelongs == Spec => []ContextBelongs
<1>1. Inv => ContextBelongs
  <2>1. SUFFICES ASSUME Inv, context # NoContext, ~raced, NEW m \in context
        PROVE  \/ m \in ToSet(msgs)
               \/ Stored(open) /\ m \in ToSet(store[open])
               \/ \E t \in Turn : turn[t].conv = open /\ m \in ToSet(Exchange(t))
    BY DEF ContextBelongs
  <2>2. TypeInv /\ KnownHere
    BY <2>1 DEF Inv
  <2>3. Belongs(m) /\ m \in Messages
    BY <2>1, <2>2 DEF KnownHere, TypeInv
  <2>4. CASE m[1] \in Turn /\ turn[m[1]].conv = open
    <3>1. m \in {User(m[1]), Assistant(m[1])}
      BY <2>3, <2>4, MessageShape
    <3>2. ToSet(Exchange(m[1])) = {User(m[1]), Assistant(m[1])}
      BY <2>4, OfATurn
    <3> QED BY <2>4, <3>1, <3>2
  <2> QED BY <2>3, <2>4 DEF Belongs
<1> QED BY <1>1, InvHolds, PTL

\* What the page shows of the open conversation is the end of its archive,
\* without gaps, repetitions or other conversations' messages, and what else it
\* shows are turns of this page in it (loadMore, generateReply, save).
THEOREM ViewAlwaysFollows == Spec => []ViewFollowsArchive
<1>1. Inv => ViewFollowsArchive
  <2>1. SUFFICES ASSUME Inv, loaded, ~raced,
                        NEW arch, arch = IF Stored(open) THEN store[open] ELSE <<>>
        PROVE  /\ open = NoConv \/ EndsWith(arch, msgs)
               /\ \A m \in ToSet(msgs) : m \in ToSet(arch) \/ \E t \in Turn :
                    m \in ToSet(Exchange(t)) /\ (Stored(open) => turn[t].conv = open)
    BY DEF ViewFollowsArchive, Body
  <2>2. TypeInv /\ Placed /\ KnownHere /\ View
    BY <2>1 DEF Inv
  <2>3. msgs \in Seq(Messages) /\ \A m \in ToSet(msgs) : m \in Messages
    BY <2>2, Elements DEF TypeInv
  <2>4. ASSUME NEW m \in ToSet(msgs), m[1] \in Turn
        PROVE  m \in ToSet(Exchange(m[1]))
    <3>1. m \in {User(m[1]), Assistant(m[1])}
      BY <2>3, <2>4, MessageShape
    <3>2. ToSet(Exchange(m[1])) = {User(m[1]), Assistant(m[1])}
      BY <2>4, OfATurn
    <3> QED BY <3>1, <3>2
  <2>5. CASE open \in Conv
    <3>1. Stored(open) /\ \A m \in ToSet(msgs) : Belongs(m)
      BY <2>1, <2>2, <2>5 DEF KnownHere
    <3>2. arch = store[open] /\ arch \in Seq(Messages)
      BY <2>1, <2>2, <2>5, <3>1 DEF TypeInv, Stored
    <3>3. oldest \in Nat \ {0} /\ Follows(store[open], oldest, msgs)
      BY <2>1, <2>2, <2>5 DEF View, ViewInv, TypeInv
    <3>4. Follows(arch, oldest, msgs)
      BY <3>2, <3>3, Zenon
    <3>5. EndsWith(arch, msgs)
      BY <2>3, <3>2, <3>3, <3>4, FollowsEnds
    <3>6. ASSUME NEW m \in ToSet(msgs)
          PROVE  m \in ToSet(arch) \/ \E t \in Turn :
                   m \in ToSet(Exchange(t)) /\ (Stored(open) => turn[t].conv = open)
      <4>1. m \in ToSet(arch) \/ (m[1] \in Turn /\ turn[m[1]].conv = open)
        BY <3>1, <3>2 DEF Belongs
      <4> QED BY <2>4, <4>1, Zenon
    <3> QED BY <3>5, <3>6
  <2>6. CASE open = NoConv
    <3>1. ~Stored(open) /\ \A m \in ToSet(msgs) : m[1] \in Turn
      BY <2>2, <2>6, ConvAssumption DEF Placed, NewChatPlaced, Stored
    <3> QED BY <2>4, <2>6, <3>1, Zenon
  <2> QED BY <2>2, <2>5, <2>6 DEF TypeInv, Route
<1> QED BY <1>1, InvHolds, PTL

\* Files wait for the chat they were picked in: a file read after the route
\* has changed is dropped, and a new route drops those that wait (addFiles).
THEOREM FilesAlwaysBelong == Spec => []FilesBelong
<1>1. Init => FilesBelong
  BY DEF Init, FilesBelong
<1>2. TypeInv /\ FilesBelong /\ [Next]_vars => FilesBelong'
  <2> USE DEF flags, files, view
  <2>0. SUFFICES ASSUME TypeInv, FilesBelong, [Next]_vars PROVE FilesBelong'
    OBVIOUS
  <2>1. UNCHANGED <<open, pending>> \/ pending' = {} => FilesBelong'
    BY <2>0 DEF FilesBelong
  <2>2. \A c \in Route : Enter(c) => pending' = {}
    BY DEF Enter
  <2>3. NoConv \in Route /\ Conv \subseteq Route
    BY DEF Route
  <2>4. \A c \in Conv \cup {NoConv} : Goto(c) => FilesBelong'
    BY <2>1, <2>2, <2>3 DEF Goto
  <2>5. ClearNewChat \/ LoadMore \/ Compact \/ PickFiles \/ RemoveFiles => FilesBelong'
    BY <2>1 DEF ClearNewChat, LoadMore, Compact, PickFiles, RemoveFiles
  <2>6. \A l \in loads : LoadReply(l) \/ LoadFails(l) => FilesBelong'
    BY <2>1 DEF LoadReply, LoadFails
  <2>7. \A p \in pages : PageReply(p) => FilesBelong'
    BY <2>1 DEF PageReply
  <2>8. \A t \in Turn : Send(t) => FilesBelong'
    <3>1. SUFFICES ASSUME NEW t \in Turn, Send(t) PROVE FilesBelong'
      OBVIOUS
    <3>2. open' = open
      BY <3>1 DEF Send
    <3>3. /\ turn'[t].phase \in {"compact", "stream"}
          /\ turn'[t].phase = "stream" => pending' = {}
          /\ turn'[t].phase = "compact" => pending' = pending
      BY <2>0, <3>1, SendDoes
    <3> QED BY <2>1, <3>2, <3>3
  <2>9. \A t \in Turn : TurnCompacted(t) => FilesBelong'
    BY <2>1 DEF TurnCompacted, Display
  <2>10. \A t \in Turn : Publish(t) \/ StreamEnds(t) => FilesBelong'
    BY <2>1 DEF Publish, StreamEnds
  <2>11. \A t \in Turn : AppendTurn(t) \/ AppendFails(t) \/ CreateFails(t) => FilesBelong'
    BY <2>1 DEF AppendTurn, AppendFails, CreateFails
  <2>12. \A t \in Turn, c \in Conv : Create(t, c) => FilesBelong'
    BY <2>0, <2>1, <2>2, <2>3, CreateDoes
  <2>13. \A k \in summary : CompactReply(k) => FilesBelong'
    BY <2>1 DEF CompactReply
  <2>14. \A c \in Conv : ConfirmDelete(c) => FilesBelong'
    BY <2>1 DEF ConfirmDelete
  <2>15. \A d \in deletion : Deleted(d) \/ DeleteFails(d) => FilesBelong'
    BY <2>1, <2>2, <2>3 DEF Deleted, DeleteFails
  <2>16. \A r \in picking : FilesRead(r) => FilesBelong'
    <3>1. SUFFICES ASSUME NEW r \in picking, FilesRead(r) PROVE FilesBelong'
      OBVIOUS
    <3>2. open' = open
      BY <3>1 DEF FilesRead
    <3>3. PICK added \in {{r}, {}} :
            pending' = IF r = open THEN pending \cup added ELSE pending
      BY <3>1 DEF FilesRead, SameRoute, Processed
    <3> QED BY <2>0, <3>2, <3>3 DEF FilesBelong
  <2>17. UNCHANGED vars => FilesBelong'
    BY <2>1 DEF vars
  <2> QED BY <2>0, <2>4, <2>5, <2>6, <2>7, <2>8, <2>9, <2>10, <2>11, <2>12, <2>13, <2>14,
             <2>15, <2>16, <2>17, Zenon DEF Next, ClearChat
<1>3. Inv => TypeInv
  BY DEF Inv
<1> QED BY <1>1, <1>2, <1>3, InvHolds, PTL DEF Spec
=============================================================================
