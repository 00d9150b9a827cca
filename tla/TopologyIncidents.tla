--------------------------- MODULE TopologyIncidents ---------------------------
(***************************************************************************)
(* evaluate_topology_incidents: what the topology history of the last days *)
(* shows is turned into incidents that open, recover and resolve over      *)
(* several evaluations.  The measurements change under it, evaluations are *)
(* days or minutes apart, and a second process (run-once beside run) may   *)
(* evaluate at the same time: the open incidents are read before the       *)
(* transaction that writes them.                                           *)
(*                                                                         *)
(* src/src/nntpintel/propagation_topology_incidents.py,                    *)
(* propagation_topology_anomalies.py, storage.py (propagation_incidents).  *)
(***************************************************************************)
EXTENDS Integers, Sequences, FiniteSets

CONSTANTS
    Keys,           \* (server, kind) pairs that an anomaly may be about
    Evaluators,     \* processes that evaluate
    Window,         \* days of history (topology_anomalies' days)
    MaxDay,         \* bound: days in a behaviour
    MaxRows         \* bound: incidents in a behaviour

ASSUME ConstantsAssumption ==
    /\ Window \in Nat /\ Window >= 2
    /\ MaxDay \in Nat \ {0} /\ MaxRows \in Nat
    /\ IsFiniteSet(Keys)

WarningOpenStreak == 2
RecoveryStreak == 2

Days == 1 .. MaxDay
Severity == {"warning", "critical"}
Finding == {"none"} \cup Severity
Lifecycle == {"pending", "open", "recovering", "resolved", "suppressed"}

VARIABLES
    day,            \* the date; also the snapshot marker of an evaluation
    found,          \* [Keys -> [Days -> Finding]]: anomalies by the date they bear
    rows,           \* the topology rows of propagation_incidents, by id
    eval            \* [Evaluators -> local state of an evaluation]

vars == <<day, found, rows, eval>>

\* An entry of detail_json's evidence_history that shows an anomaly: the
\* snapshot it was evaluated on and the date of the change it shows.
Evidence == [on : Days, date : Days]

\* detail_json.
Detail == [state : Lifecycle, signals : Nat, quiet : Nat, signalMark : Days,
           evalMark : Days, evidence : SUBSET Evidence]

Row == [key : Keys, severity : Severity, resolved : BOOLEAN, detail : Detail]

Ids == 1 .. MaxRows

\* A key without an open incident.
Missing == [id |-> 0]

NoSignals == [k \in Keys |-> "none"]
Idle == [pc |-> "idle", mark |-> 1, date |-> 1, signals |-> NoSignals,
         open |-> [k \in Keys |-> Missing]]

Init ==
    /\ day = 1
    /\ found = [k \in Keys |-> [d \in Days |-> "none"]]
    /\ rows = <<>>
    /\ eval = [e \in Evaluators |-> Idle]

-----------------------------------------------------------------------------
\* topology_anomalies: changes between two days of the window.
Shown == {d \in Days : d <= day /\ d > day - Window + 1}

\* The dates that bear an anomaly of some server.
Dated == {d \in Shown : \E k \in Keys : found[k][d] # "none"}

IsLatest(d) == d \in Dated /\ \A c \in Dated : c <= d

\* _signals: the anomalies of the latest date that has any, however old.
SignalsOf(d) == [k \in Keys |-> found[k][d]]

-----------------------------------------------------------------------------
\* New measurements change what a comparison of two recent days shows.
Measure(k, d, f) ==
    /\ d \in Shown
    /\ found' = [found EXCEPT ![k][d] = f]
    /\ UNCHANGED <<day, rows, eval>>

NextDay ==
    /\ day < MaxDay
    /\ day' = day + 1
    /\ UNCHANGED <<found, rows, eval>>

\* evaluate_topology_incidents: marker and signals come from one computation ...
Compute(e) ==
    /\ eval[e].pc = "idle"
    /\ \/ /\ Dated = {}
          /\ eval' = [eval EXCEPT ![e] = [Idle EXCEPT !.pc = "read", !.mark = day]]
       \/ \E d \in Dated :
             /\ IsLatest(d)
             /\ eval' = [eval EXCEPT ![e] = [Idle EXCEPT !.pc = "read", !.mark = day,
                                                 !.date = d, !.signals = SignalsOf(d)]]
    /\ UNCHANGED <<day, found, rows>>

OpenIds(k) == {i \in DOMAIN rows : rows[i].key = k /\ ~ rows[i].resolved}

\* ... then the open incidents are read, outside of a transaction.
ReadOpen(e) ==
    /\ eval[e].pc = "read"
    /\ eval' = [eval EXCEPT ![e].pc = "write", ![e].open =
           [k \in Keys |-> IF OpenIds(k) = {} THEN Missing
                           ELSE LET i == CHOOSE i \in OpenIds(k) : TRUE
                                IN  [id |-> i, detail |-> rows[i].detail]]]
    /\ UNCHANGED <<day, found, rows>>

-----------------------------------------------------------------------------
\* The row of a signal without an open incident.
Opened(k, severity, mark, date) ==
    [key |-> k, severity |-> severity, resolved |-> FALSE,
     detail |-> [state |-> IF severity = "critical" THEN "open" ELSE "pending",
                 signals |-> 1, quiet |-> 0, signalMark |-> mark, evalMark |-> mark,
                 evidence |-> {[on |-> mark, date |-> date]}]]

\* Mutant: every evaluation counts, also of the same snapshot.
CountedAlways(detail, mark, date) ==
    [detail EXCEPT !.signals = @ + 1, !.signalMark = mark,
                   !.evidence = @ \cup {[on |-> mark, date |-> date]}]

\* The first signal of a snapshot counts; the others change nothing.
Counted(detail, mark, date) ==
    IF detail.signalMark = mark THEN detail
    ELSE [detail EXCEPT !.signals = @ + 1, !.signalMark = mark,
                        !.evidence = @ \cup {[on |-> mark, date |-> date]}]

ShouldOpen(severity, signals) == severity = "critical" \/ signals >= WarningOpenStreak

\* Mutant: a signal does not end a recovery.
QuietKept(detail) == detail.quiet

\* recovery_streak after a signal.
QuietAfterSignal(detail) == 0

\* detail of an open incident that has a signal.
Signalled(detail, severity, mark, date) ==
    LET counted == Counted(detail, mark, date)
    IN  [counted EXCEPT
            !.quiet = QuietAfterSignal(detail), !.evalMark = mark,
            !.state = IF \/ @ \in {"open", "recovering"}
                         \/ @ = "pending" /\ ShouldOpen(severity, counted.signals)
                      THEN "open" ELSE @]

\* Mutant: the first quiet snapshot resolves.
QuietedAtOnce(detail, mark) ==
    [detail EXCEPT !.evalMark = mark, !.quiet = @ + 1,
                   !.state = IF detail.state = "pending" THEN "suppressed" ELSE "resolved"]

\* detail of an open incident without a signal, once per snapshot.
Quieted(detail, mark) ==
    IF detail.state = "pending"
    THEN [detail EXCEPT !.evalMark = mark, !.state = "suppressed"]
    ELSE [detail EXCEPT !.evalMark = mark, !.quiet = @ + 1,
                        !.state = IF detail.quiet + 1 >= RecoveryStreak THEN "resolved"
                                  ELSE "recovering"]

\* Mutant: only a recovery sets resolved_at.
ClosesRecovered(state) == state = "resolved"

\* The states that set resolved_at.
Closes(state) == state \in {"suppressed", "resolved"}

\* What the transaction makes of row i, given what was read: an UPDATE by id,
\* which leaves resolved_at alone unless it sets it.
Updated(e, i) ==
    LET k == rows[i].key  ev == eval[e]  read == ev.open[k]
        signal == ev.signals[k]
        quieted == Quieted(read.detail, ev.mark)
    IN  IF read.id # i THEN rows[i]
        ELSE IF signal # "none"
        THEN [rows[i] EXCEPT !.severity = signal,
                             !.detail = Signalled(read.detail, signal, ev.mark, ev.date)]
        ELSE IF read.detail.evalMark = ev.mark THEN rows[i]
        ELSE [rows[i] EXCEPT !.detail = quieted,
                             !.resolved = @ \/ Closes(quieted.state)]

\* Mutant: every key without an open incident gets one.
InsertedUnasked(e) == {k \in Keys : eval[e].open[k] = Missing}

\* The keys whose signal had no open incident when read.
Inserted(e) == {k \in Keys : eval[e].signals[k] # "none" /\ eval[e].open[k] = Missing}


\* The unique index on open incidents refuses an insert.
Refused(e) == \E k \in Inserted(e) : OpenIds(k) # {}

\* The transaction.  The order of the inserted rows is that of a dictionary.
Commit(e) ==
    /\ eval[e].pc = "write"
    /\ ~ Refused(e)
    /\ Len(rows) + Cardinality(Inserted(e)) <= MaxRows
    /\ \E order \in [1 .. Cardinality(Inserted(e)) -> Inserted(e)] :
          /\ \A m, n \in DOMAIN order : m # n => order[m] # order[n]
          /\ rows' = [i \in DOMAIN rows |-> Updated(e, i)] \o
                     [n \in DOMAIN order |->
                         Opened(order[n], eval[e].signals[order[n]], eval[e].mark,
                                eval[e].date)]
    /\ eval' = [eval EXCEPT ![e] = Idle]
    /\ UNCHANGED <<day, found>>

\* IntegrityError: the whole transaction is rolled back and the pass ends; or
\* the process is killed before its commit.
Abort(e) ==
    /\ eval[e].pc # "idle"
    /\ eval' = [eval EXCEPT ![e] = Idle]
    /\ UNCHANGED <<day, found, rows>>

Next ==
    \/ \E k \in Keys, d \in Days, f \in Finding : Measure(k, d, f)
    \/ NextDay
    \/ \E e \in Evaluators : Compute(e) \/ ReadOpen(e) \/ Commit(e) \/ Abort(e)

Spec == Init /\ [][Next]_vars

-----------------------------------------------------------------------------
EvalState == [pc : {"idle", "read", "write"}, mark : Days, date : Days,
              signals : [Keys -> Finding],
              open : [Keys -> {Missing} \cup [id : Ids, detail : Detail]]]

\* Types of the rows and of the evaluations' local state.
TypeOK ==
    /\ day \in Days
    /\ found \in [Keys -> [Days -> Finding]]
    /\ rows \in Seq(Row) /\ Len(rows) <= MaxRows
    /\ eval \in [Evaluators -> EvalState]


\* An incident whose state is final is resolved in the table, so that it no
\* longer takes the place of a new one.
FinalIsResolved ==
    \A i \in DOMAIN rows : rows[i].detail.state \in {"suppressed", "resolved"}
                               => rows[i].resolved

WarningOpens(i) ==
    /\ rows[i].detail.state = "pending" /\ rows'[i].detail.state = "open"
    /\ rows'[i].severity = "warning"

\* A pending incident opens for a warning only after evaluations with two
\* different newest snapshots: evaluating the same snapshot again and again, as
\* a pass does every minute, never opens it.  It says nothing of the changes
\* that the evaluations showed (see OneOffIsSuppressed).  It holds of one
\* evaluator; of two, one may write over a row what it read before the other
\* changed it.
WarningNeedsTwoMarkers ==
    [][\A i \in DOMAIN rows : WarningOpens(i)
          => \E x, y \in rows'[i].detail.evidence : x.on # y.on]_vars

\* tests/test_propagation_topology_incidents.py:148
\* "test_one_off_warning_is_suppressed": a change of one day, which no other day
\* repeats, opens no warning.  The code breaks it: the next day's evaluation
\* finds the change still the latest one of the history, marks it with the new
\* day's snapshot, and counts it again.
OneOffIsSuppressed ==
    [][\A i \in DOMAIN rows : WarningOpens(i)
          => \E x, y \in rows'[i].detail.evidence : x.date # y.date]_vars

\* A single evaluator resolves an incident only on the second snapshot after
\* the last one that showed a signal.
RecoveryIsStable ==
    [][\A i \in DOMAIN rows :
          /\ rows[i].detail.state # "resolved" /\ rows'[i].detail.state = "resolved"
          => rows'[i].detail.evalMark >= rows[i].detail.signalMark + 2]_vars

-----------------------------------------------------------------------------
\* list_topology_incidents: what an operator sees of an incident.
ReportOf(i) ==
    IF i \notin DOMAIN rows THEN "absent"
    ELSE IF ~ rows[i].resolved THEN rows[i].detail.state
    ELSE IF rows[i].detail.state \in {"pending", "suppressed"} THEN "suppressed"
    ELSE "resolved"

Abstract == INSTANCE IncidentLifecycle
    WITH Rows <- Ids,
         key <- [i \in Ids |-> IF i \in DOMAIN rows THEN rows[i].key
                               ELSE CHOOSE k \in Keys : TRUE],
         reported <- [i \in Ids |-> ReportOf(i)]

\* One evaluator implements the lifecycle.
FollowsLifecycle == Abstract!Spec
=============================================================================
