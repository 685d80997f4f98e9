----------------------------- MODULE ChartZoom -----------------------------
(***************************************************************************)
(* The zoom of the charts: lib/useChartZoom.ts, which Dashboard uses, and  *)
(* the same code inside pages/Usage.  A window is the pair of the first    *)
(* and the last row shown.  The rows may change under a window and under a *)
(* drag, as Usage polls.                                                   *)
(*                                                                         *)
(* A position on the chart is a number of Notches out of Notches.          *)
(***************************************************************************)
EXTENDS Integers

CONSTANTS Notches, MaxRows

\* Assumed where this module is instantiated, in DashboardPages.
ZoomAssumption == {Notches, MaxRows} \subseteq Nat \ {0}

VARIABLES hook,      \* the hook of Dashboard, or the code of Usage
          total,     \* usage.length
          drawn,     \* the element of the chart exists
          listening, \* its wheel listener is attached
          zoomRange, drag

vars == <<hook, total, drawn, listening, zoomRange, drag>>

NoWindow == <<>>
NoDrag == [start |-> -1, span |-> 0]
Window == {NoWindow} \cup ((0..MaxRows) \X (0..(2 * MaxRows)))

TypeOK ==
  /\ {hook, drawn, listening} \subseteq BOOLEAN
  /\ total \in 0..MaxRows /\ zoomRange \in Window
  /\ drag \in [start : -1..MaxRows, span : 0..MaxRows]

AtLeast(x, y) == IF x > y THEN x ELSE y
AtMost(x, y) == IF x < y THEN x ELSE y
Width(w) == w[2] - w[1] + 1
Inside(w, n) == w[1] >= 0 /\ w[2] < n

\* Math.round is the floor of x + 1/2: of 1.3 * s, and of 0.75 * s.
Scaled(s, out) == IF out THEN (13 * s + 5) \div 10 ELSE (3 * s + 2) \div 4

\* Mutant of Start: the right edge is not respected.
StartUnclamped(s, at, old, new, n) ==
  AtLeast(0, s + (2 * at * (old - new) + Notches) \div (2 * Notches))

\* The row under the pointer stays under it, as far as the edges allow.
Start(s, at, old, new, n) ==
  AtLeast(0, AtMost(s + (2 * at * (old - new) + Notches) \div (2 * Notches),
                    n - new))

\* onWheel on a chart of n rows, n >= 2.
Zoomed(w, n, out, at) ==
  LET here == IF w = NoWindow THEN <<0, n - 1>> ELSE w
      span == AtLeast(2, AtMost(n, Scaled(Width(here), out)))
      first == Start(here[1], at, Width(here), span, n)
  IN <<first, first + span - 1>>

\* validRange: a window that left the data counts as none.
ValidRange ==
  IF zoomRange # NoWindow /\ Inside(zoomRange, total) THEN zoomRange ELSE NoWindow
-----------------------------------------------------------------------------
Init ==
  /\ hook \in BOOLEAN /\ total = 0 /\ drawn = FALSE /\ listening = FALSE
  /\ zoomRange = NoWindow /\ drag = NoDrag

\* Rows arrive; the chart is drawn when there are some.  The hook hears of
\* the element itself; the effect of Usage depends on the number of rows only.
Rows(n) ==
  /\ total' = n /\ drawn' = (n > 0)
  /\ listening' = (n > 0 /\ (listening \/ hook \/ n # total))
  /\ UNCHANGED <<hook, zoomRange, drag>>

\* Other days are selected: no window, and skeletons instead of the chart.
SelectDays ==
  /\ zoomRange' = NoWindow
  /\ drawn' = FALSE /\ listening' = FALSE /\ drag' = drag
  /\ UNCHANGED <<hook, total>>

Wheel(out, at) ==
  /\ drawn /\ listening /\ total >= 2
  /\ zoomRange' = Zoomed(zoomRange, total, out, at)
  /\ UNCHANGED <<hook, total, drawn, listening, drag>>

MouseDown ==
  /\ drawn /\ ValidRange # NoWindow
  /\ drag' = [start |-> zoomRange[1], span |-> Width(zoomRange)]
  /\ UNCHANGED <<hook, total, drawn, listening, zoomRange>>

MouseMove(delta) ==
  /\ drawn /\ drag # NoDrag
  /\ LET first == AtLeast(0, AtMost(drag.start - delta,
                                    AtLeast(0, total - drag.span)))
     IN zoomRange' = <<first, first + drag.span - 1>>
  /\ UNCHANGED <<hook, total, drawn, listening, drag>>

StopDrag ==
  /\ drag # NoDrag /\ drag' = NoDrag
  /\ UNCHANGED <<hook, total, drawn, listening, zoomRange>>

DoubleClick ==
  /\ drawn /\ zoomRange' = NoWindow
  /\ UNCHANGED <<hook, total, drawn, listening, drag>>

Next ==
  \/ \E n \in 0..MaxRows : Rows(n)
  \/ \E out \in BOOLEAN, at \in 0..Notches : Wheel(out, at)
  \/ SelectDays \/ MouseDown \/ StopDrag \/ DoubleClick
  \/ \E delta \in -MaxRows..MaxRows : MouseMove(delta)

Spec == Init /\ [][Next]_vars
-----------------------------------------------------------------------------
(* Whatever window the last rows left behind, the wheel gives one of at     *)
(* least two rows inside the data, and turning it outwards widens every     *)
(* window that does not yet show them all (no width is a fixed point of the *)
(* rounding).                                                               *)
WheelStaysInData ==
  total >= 2 =>
    \A at \in 0..Notches, out \in BOOLEAN :
      LET w == Zoomed(zoomRange, total, out, at)
      IN /\ Inside(w, total) /\ Width(w) >= 2
         /\ out /\ ValidRange # NoWindow /\ Width(zoomRange) < total
              => Width(w) > Width(zoomRange)
=============================================================================
