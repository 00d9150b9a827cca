--------------------------- MODULE TopologyHistory ---------------------------
(***************************************************************************)
(* The days of a window compared one with the next: the edges that each    *)
(* day's campaigns show, what appeared, changed or disappeared between two *)
(* days, which of it is an anomaly, and the signals that incidents follow. *)
(* Everything is computed anew; a day's edges change as long as articles   *)
(* of its campaigns are seen.                                              *)
(*                                                                         *)
(* src/src/nntpintel/propagation_topology_history.py,                      *)
(* propagation_topology_anomalies.py, and _signals of                      *)
(* propagation_topology_incidents.py.  Lead times are left out.            *)
(***************************************************************************)
EXTENDS Topology

MinDrop == 200      \* MIN_CONFIDENCE_DROP

\* The days of the window; before the first campaigns nothing is known.
Shown == {d \in Days : d <= day /\ d > day - Window}

\* What a day is compared with: the first day of the window with nothing.
Snapshot(d) == IF d \in Shown THEN Graph(ahead[d]) ELSE {}

EdgesOn(d) == {<<e.from, e.to>> : e \in Snapshot(d)}
ConfidenceOn(d, p) == (CHOOSE e \in Snapshot(d) : p = <<e.from, e.to>>).conf

-----------------------------------------------------------------------------
\* The events of a day.
Appeared(d) == EdgesOn(d) \ EdgesOn(d - 1)

\* Mutant: an edge that turned round has not disappeared.
DisappearedForGood(d) == {p \in EdgesOn(d - 1) \ EdgesOn(d) : Opposite(p) \notin EdgesOn(d)}

Disappeared(d) == EdgesOn(d - 1) \ EdgesOn(d)
Drop(d, p) == ConfidenceOn(d - 1, p) - ConfidenceOn(d, p)
Changed(d) == {p \in EdgesOn(d) \cap EdgesOn(d - 1) : Drop(d, p) # 0}

\* The anomalies of a day.
Reversed(d) == {p \in Disappeared(d) : Opposite(p) \in Appeared(d)}
Collapsed(d) == {p \in Changed(d) : Drop(d, p) >= MinDrop}
Churned(d) == Cardinality(Appeared(d)) + Cardinality(Disappeared(d)) >= MinChurn

\* The days with an anomaly that names a server.
Dated == {d \in Shown : Disappeared(d) # {} \/ Collapsed(d) # {}}

\* Mutant: the signal names the second server.
SignalOfSecond(p, kind, severity) == [server |-> p[2], kind |-> kind, severity |-> severity]

Signal(p, kind, severity) == [server |-> p[1], kind |-> kind, severity |-> severity]

\* The signals of a date.  A kind has one severity: no confidence of an edge can
\* drop by twice MinDrop and stay above MinConfidence.
SignalsOn(d) ==
    {Signal(p, "topology_edge_reversal", "critical") : p \in Reversed(d)}
    \cup {Signal(p, "topology_edge_disappeared", "warning") : p \in Disappeared(d)}
    \cup {Signal(p, "topology_confidence_collapse", "warning") : p \in Collapsed(d)}

\* _signals: those of the latest date that has any.
Signals == IF Dated = {} THEN {} ELSE SignalsOn(Max(Dated))

\* What the events of the days up to d, in their order, leave.
Replayed(d) ==
    LET after[n \in 0 .. d] ==
            IF n \notin Shown THEN {}
            ELSE (after[n - 1] \ Disappeared(n)) \cup Appeared(n)
    IN  after[d]

-----------------------------------------------------------------------------
\* The events tell the history: who replays them from the first day of the
\* window has the edges of every day, the reversed ones included, and an event
\* never repeats what the one before it said.
EventsReplay ==
    \A d \in Shown :
        /\ Replayed(d) = EdgesOn(d)
        /\ d - 1 \in Shown => /\ Appeared(d) \cap Replayed(d - 1) = {}
                              /\ Disappeared(d) \subseteq Replayed(d - 1)

\* A critical signal names a server that led another on the day before, while
\* on the day of the signal that other one leads: tests/
\* test_propagation_topology_anomalies.py:12
\* "test_topology_anomalies_detect_reversal_confidence_collapse_and_churn".
CriticalMeansReversed ==
    \A x \in Signals : x.severity = "critical" =>
        \E d \in Shown, t \in Servers :
            /\ <<x.server, t>> \in Replayed(d - 1) /\ <<t, x.server>> \in Replayed(d)
            /\ \A later \in Shown : later > d => Disappeared(later) = {}
=============================================================================
