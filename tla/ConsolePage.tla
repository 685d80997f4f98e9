---------------------------- MODULE ConsolePage ----------------------------
(***************************************************************************)
(* The owner's gateway console, pages/Console.tsx: it probes the endpoints *)
(* one after the other (runAll), one alone (runSingle) or /health every    *)
(* three seconds (Auto), and logs which gateway answered.  What a request  *)
(* does on its way is in EdgeCall.                                         *)
(***************************************************************************)
EXTENDS Integers, FiniteSets, Sequences

CONSTANTS Endpoints,    \* ENDPOINTS: how many are probed in turn
          LogLimit,     \* the log keeps that many entries
          MaxSweeps,    \* bound: runs of runAll at once
          MaxProbes,    \* bound: other probes at once
          MaxTimers     \* bound: intervals running at once

\* Assumed where this module is instantiated, in DashboardPages.
LogAssumption == LogLimit \in Nat \ {0}

VARIABLES onConsole,    \* the page is mounted
          logs,         \* newest first: the gateways that answered
          busy, auto,
          down, edgeDown, \* edgeStatus of lib/edge, and what the page knows of it
          timers,       \* intervals running in the tab
          sweeps,       \* runs of runAll, with the endpoint being probed
          probes,       \* other probes under way
          deserted      \* history: the page was left while Auto was on

vars == <<onConsole, logs, busy, auto, down, edgeDown, timers, sweeps, probes,
          deserted>>

\* X-Gateway of an answer; unknown without one.
Gateway == {"cf-worker", "go-edge", "fastapi", "unknown"}

TypeOK ==
  /\ logs \in UNION {[1..n -> Gateway] : n \in 0..LogLimit}
  /\ sweeps \subseteq [n : 1..MaxSweeps, at : 1..Endpoints]
  /\ timers \in 0..MaxTimers /\ probes \in 0..MaxProbes
  /\ {onConsole, busy, auto, down, edgeDown, deserted} \subseteq BOOLEAN

Mount == /\ logs' = <<>> /\ busy' = FALSE /\ auto' = FALSE /\ edgeDown' = FALSE
         /\ sweeps' = {} /\ probes' = 0

Init ==
  /\ onConsole = TRUE /\ logs = <<>> /\ busy = FALSE /\ auto = FALSE
  /\ down = FALSE /\ edgeDown = FALSE
  /\ timers = 0 /\ sweeps = {} /\ probes = 0 /\ deserted = FALSE

\* setLogs: [entry, ...prev].slice(0, 100)
Logged(g) == SubSeq(<<g>> \o logs, 1, IF Len(logs) < LogLimit THEN Len(logs) + 1
                                      ELSE LogLimit)

\* probe, to its end: it never throws, and asks the edge how it is.
Probed(g) == logs' = Logged(g) /\ edgeDown' = down

\* cfCount, goCount, pyCount.
Answered(g) == Cardinality({i \in DOMAIN logs : logs[i] = g})

\* The four cards.  "failover" is what the last probe knew of the edge.
Stats == [cf |-> Answered("cf-worker"), go |-> Answered("go-edge"),
          py |-> Answered("fastapi"), total |-> Len(logs),
          failover |-> edgeDown]

\* The table shows every entry, newest first.
LogTable == IF logs = <<>> THEN <<"empty">> ELSE logs

\* The cooldown of lib/edge begins, or is over.
EdgeSwitches ==
  /\ down' = ~down
  /\ UNCHANGED <<onConsole, logs, busy, auto, edgeDown, timers, sweeps, probes,
                 deserted>>

StartSweep ==
  /\ Cardinality(sweeps) < MaxSweeps
  /\ busy' = TRUE
  /\ sweeps' = sweeps \cup
       {[n |-> CHOOSE n \in 1..MaxSweeps : \A s \in sweeps : s.n # n, at |-> 1]}

\* The buttons "Probe All" and "Refresh".
RunAll ==
  /\ onConsole /\ ~busy /\ StartSweep
  /\ UNCHANGED <<onConsole, logs, auto, down, edgeDown, timers, probes,
                 deserted>>

\* runSingle, a button for each endpoint.
RunSingle ==
  /\ onConsole /\ probes < MaxProbes /\ probes' = probes + 1
  /\ UNCHANGED <<onConsole, logs, busy, auto, down, edgeDown, timers, sweeps,
                 deserted>>

\* clearInterval of the interval this page started.
Silenced == timers - 1

\* Switching Auto on runs everything first, also when a run is under way.
ToggleAuto ==
  /\ onConsole
  /\ IF auto THEN auto' = FALSE /\ timers' = Silenced /\ UNCHANGED <<busy,
                                                                     sweeps>>
     ELSE /\ auto' = TRUE /\ timers < MaxTimers /\ timers' = timers + 1
          /\ StartSweep
  /\ UNCHANGED <<onConsole, logs, down, edgeDown, probes, deserted>>

\* One interval fires.
AutoProbe ==
  /\ timers > 0 /\ probes < MaxProbes
  /\ probes' = IF onConsole THEN probes + 1 ELSE probes
  /\ UNCHANGED <<onConsole, logs, busy, auto, down, edgeDown, timers, sweeps,
                 deserted>>

ClearLog ==
  /\ onConsole /\ logs' = <<>>
  /\ UNCHANGED <<onConsole, busy, auto, down, edgeDown, timers, sweeps, probes,
                 deserted>>

ProbeEnds(g) ==
  /\ probes > 0 /\ probes' = probes - 1
  /\ Probed(g)
  /\ UNCHANGED <<onConsole, busy, auto, down, timers, sweeps, deserted>>

\* The next endpoint of a run; its end clears busy, whichever other run is still
\* under way.
SweepProceeds(s, g) ==
  /\ Probed(g)
  /\ IF s.at < Endpoints
     THEN /\ sweeps' = (sweeps \ {s}) \cup {[s EXCEPT !.at = @ + 1]}
          /\ UNCHANGED busy
     ELSE sweeps' = sweeps \ {s} /\ busy' = FALSE
  /\ UNCHANGED <<onConsole, auto, down, timers, probes, deserted>>

\* The page is left, and comes back without its state.  Nothing stops the
\* interval; what the probes of the page left behind bring is dropped.
LeaveConsole ==
  /\ onConsole /\ onConsole' = FALSE /\ Mount
  /\ deserted' = (deserted \/ auto)
  /\ UNCHANGED <<timers, down>>

EnterConsole ==
  /\ ~onConsole /\ onConsole' = TRUE
  /\ UNCHANGED <<logs, busy, auto, down, edgeDown, timers, sweeps, probes,
                 deserted>>

Next ==
  \/ RunAll \/ RunSingle \/ ToggleAuto \/ AutoProbe \/ ClearLog
  \/ EdgeSwitches \/ LeaveConsole \/ EnterConsole
  \/ \E g \in Gateway : \/ ProbeEnds(g)
                        \/ \E s \in sweeps : SweepProceeds(s, g)

Spec == Init /\ [][Next]_vars
-----------------------------------------------------------------------------
(* "Probing..." stands for a run under way (not the converse: with two, the *)
(* first to end clears it), and "Auto ON" for exactly one interval, as long *)
(* as the page was never left with it on: then one more goes on unseen for  *)
(* every time that happened (lines 73-102).  The cards count the table,     *)
(* which never outgrows its limit (lines 115-162, 205-250).                 *)
ConsoleTellsWork ==
  /\ busy => sweeps # {}
  /\ auto => timers > 0
  /\ ~deserted => timers = IF auto THEN 1 ELSE 0
  /\ Stats.cf + Stats.go + Stats.py + Answered("unknown") = Stats.total
  /\ Len(LogTable) <= LogLimit /\ (Stats.total > 0 => LogTable = logs)
=============================================================================
