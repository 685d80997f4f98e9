----------------------------- MODULE CardStack -----------------------------
(***************************************************************************)
(* "What's New" on the dashboard, components/WhatsNew.tsx: a dialog that   *)
(* opens by itself when there is news this browser has not seen, with a    *)
(* stack of cards that is scrolled by the user and advances by itself      *)
(* unless the pointer or the focus is on it.                               *)
(*                                                                         *)
(* Time passes in Tick; Settle < Interval < Autoplay as in the code (280,  *)
(* 300 and 4000 ms).                                                       *)
(***************************************************************************)
EXTENDS Integers

CONSTANTS Cards, Settle, Interval, Autoplay,
          Opening     \* 700 ms until the dialog opens by itself

\* Assumed where this module is instantiated, in DashboardPages.
CardAssumption ==
  /\ {Cards, Settle, Interval, Autoplay, Opening} \subseteq Nat \ {0}
  /\ Settle < Interval /\ Interval < Autoplay

VARIABLES seen,          \* localStorage has the id of the newest item
          hasNew, newsOpen,
          popup,         \* the time left until the dialog opens, or -1
          currentIndex, paused,
          settling,      \* isScrolling, as the time left until it ends
          sinceScroll,   \* Date.now() - lastScrollTime.current, up to Interval
          progress,      \* of the automatic advance
          reduced        \* shouldReduceMotion

stack == <<currentIndex, paused, settling, sinceScroll, progress>>
vars == <<seen, hasNew, newsOpen, popup, stack, reduced>>

TypeOK ==
  /\ {seen, hasNew, newsOpen, paused, reduced} \subseteq BOOLEAN
  /\ popup \in -1..Opening /\ currentIndex \in 0..(Cards - 1)
  /\ settling \in 0..Settle /\ sinceScroll \in 0..Interval
  /\ progress \in 0..Autoplay

IsScrolling == settling > 0
Stacked == /\ currentIndex' = 0 /\ paused' = FALSE /\ settling' = 0
           /\ sinceScroll' = Interval /\ progress' = 0

\* The effect of WhatsNewDialog on a browser that has seen the news or not.
Init ==
  /\ seen \in BOOLEAN /\ hasNew = ~seen /\ newsOpen = FALSE
  /\ popup = IF seen THEN -1 ELSE Opening
  /\ currentIndex = 0 /\ paused = FALSE /\ settling = 0
  /\ sinceScroll = Interval /\ progress = 0
  /\ reduced \in BOOLEAN

\* handleOpenChange(true), by the trigger or by the timer: a new stack.
OpenNews ==
  /\ ~newsOpen /\ newsOpen' = TRUE /\ seen' = TRUE /\ hasNew' = FALSE
  /\ popup' \in {popup, IF popup = 0 THEN -1 ELSE popup}
  /\ Stacked /\ UNCHANGED reduced

\* The timer finds the dialog open when the user was faster.
PopupOnOpen ==
  /\ newsOpen /\ popup = 0 /\ popup' = -1
  /\ seen' = TRUE /\ hasNew' = FALSE
  /\ UNCHANGED <<newsOpen, stack, reduced>>

CloseNews ==
  /\ newsOpen /\ newsOpen' = FALSE /\ Stacked
  /\ UNCHANGED <<seen, hasNew, popup, reduced>>

\* The dashboard is left and comes back: the timer is cleared, and set again
\* as long as the news has not been seen.
Remount ==
  /\ newsOpen' = FALSE /\ hasNew' = ~seen
  /\ popup' = IF seen THEN -1 ELSE Opening
  /\ Stacked /\ UNCHANGED <<seen, reduced>>
-----------------------------------------------------------------------------
\* Another card: the effect of [currentIndex] starts the ring anew.
Shows(i) == currentIndex' = i /\ progress' = 0

\* Mutant of Clamped: the ends of the stack are not respected.
ClampedNot(i) == i

Clamped(i) == IF i < 0 THEN 0 ELSE IF i >= Cards THEN Cards - 1 ELSE i

Elsewhere == UNCHANGED <<seen, hasNew, newsOpen, popup, paused, reduced>>

\* scrollToCard.
ScrollToCard(d) ==
  /\ ~IsScrolling /\ sinceScroll = Interval
  /\ Clamped(currentIndex + d) # currentIndex
  /\ Shows(Clamped(currentIndex + d))
  /\ settling' = Settle /\ sinceScroll' = 0

\* Home, End and the dots ask for no interval.
JumpTo(i) ==
  /\ ~IsScrolling /\ i # currentIndex
  /\ Shows(i) /\ settling' = Settle
  /\ UNCHANGED sinceScroll

Key(k) ==
  /\ newsOpen
  /\ CASE k = "up" -> ScrollToCard(-1) [] k = "down" -> ScrollToCard(1)
       [] k = "home" -> JumpTo(0) [] k = "end" -> JumpTo(Cards - 1)
  /\ Elsewhere

\* SCROLL_THRESHOLD: a wheel that hardly moved turns no card.
Wheel(deltaY) ==
  /\ newsOpen /\ deltaY \notin -19..19
  /\ ScrollToCard(IF deltaY > 0 THEN 1 ELSE -1)
  /\ Elsewhere

\* handleTouchEnd: a finger going down or to the left asks for the next card, 0
\* when it hardly moved.
Swiped(dx, dy) ==
  LET size(n) == IF n < 0 THEN -n ELSE n
  IN IF size(dy) > size(dx) /\ size(dy) > 30 THEN IF dy > 0 THEN 1 ELSE -1
     ELSE IF size(dx) > 30 THEN IF dx < 0 THEN 1 ELSE -1
     ELSE 0

Swipe(dx, dy) ==
  /\ newsOpen /\ Swiped(dx, dy) # 0
  /\ ScrollToCard(Swiped(dx, dy))
  /\ Elsewhere

\* The two buttons, disabled at the ends.
Arrow(d) ==
  /\ newsOpen /\ ~IsScrolling
  /\ currentIndex # IF d < 0 THEN 0 ELSE Cards - 1
  /\ ScrollToCard(d)
  /\ Elsewhere

Dot(i) == newsOpen /\ JumpTo(i) /\ Elsewhere

\* getCardTransform: the cards passed are transparent, those to come lie below.
Transform(i) == [opacity |-> IF currentIndex > i THEN 0 ELSE 1,
                 zIndex |-> Cards - i]

\* Only the active card takes clicks.
TakesClicks(i) == i = currentIndex

\* Pointer and focus, each coming or going: the last one decides.
Pause(on) ==
  /\ newsOpen /\ paused # on /\ paused' = on
  /\ UNCHANGED <<seen, hasNew, newsOpen, popup, currentIndex, settling,
                 sinceScroll, progress, reduced>>

\* The frames of the animation, the timers and the clock.
Tick ==
  /\ popup # 0
  /\ popup' = IF popup > 0 THEN popup - 1 ELSE popup
  /\ settling' = IF IsScrolling THEN settling - 1 ELSE 0
  /\ IF ~newsOpen \/ paused \/ reduced \/ Cards < 2
     THEN UNCHANGED <<currentIndex, progress>>
     ELSE IF progress + 1 < Autoplay
     THEN progress' = progress + 1 /\ UNCHANGED currentIndex
     ELSE Shows((currentIndex + 1) % Cards)
  /\ sinceScroll' = IF currentIndex' # currentIndex THEN 0
                    ELSE IF sinceScroll < Interval THEN sinceScroll + 1 ELSE Interval
  /\ UNCHANGED <<seen, hasNew, newsOpen, paused, reduced>>

Next ==
  \/ OpenNews \/ PopupOnOpen \/ CloseNews \/ Remount
  \/ \E k \in {"up", "down", "home", "end"} : Key(k)
  \/ \E deltaY \in {-20, 5, 20} : Wheel(deltaY)
  \/ \E dx, dy \in {-40, 0, 35} : Swipe(dx, dy)
  \/ \E d \in {-1, 1} : Arrow(d)
  \/ \E i \in 0..(Cards - 1) : Dot(i)
  \/ \E on \in BOOLEAN : Pause(on)
  \/ Tick

Spec == Init /\ [][Next]_vars
-----------------------------------------------------------------------------
(* The stack never advances by itself while a card the user asked for is    *)
(* still moving, although the frames do not look at isScrolling (191-207):  *)
(* the ring starts anew with every card.  And the bell has its dot, and the *)
(* dialog its timer, only for news this browser has not seen, until the     *)
(* timer of a dialog the user opened himself has run out (348-356).  The    *)
(* card that takes the clicks is the one seen: of those not transparent, it *)
(* lies on top (209-218, 283-287).                                          *)
StackHolds ==
  /\ IsScrolling => progress + settling <= Settle
  /\ hasNew => ~seen
  /\ ~seen => popup >= 0 /\ ~newsOpen
  /\ \A i, j \in 0..(Cards - 1) :
       TakesClicks(i) /\ i # j /\ Transform(j).opacity = 1
         => Transform(i).opacity = 1 /\ Transform(i).zIndex > Transform(j).zIndex
=============================================================================
