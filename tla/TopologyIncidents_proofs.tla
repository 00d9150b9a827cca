----------------------- MODULE TopologyIncidents_proofs -----------------------
(***************************************************************************)
(* What TopologyIncidents guarantees for every number of evaluators, keys, *)
(* days and rows.  Evaluators write over rows what they read before, so    *)
(* the inductive invariant adds what they read: the detail of a row that   *)
(* was live (ReadsAreLive).  The unique index alone keeps a key to one     *)
(* live row; nothing that evaluators know does.                            *)
(*                                                                         *)
(* A single evaluator guarantees more: it implements IncidentLifecycle,    *)
(* and its streaks are what they are named for.  What it writes follows    *)
(* from what it read, so the invariant says that what it read is still     *)
(* true when it writes (ReadIsCurrent), that an open incident has no quiet *)
(* snapshots yet (OpenIsLoud), or it could be resolved without recovering  *)
(* first, and that marks and evidence of a row bear its streaks out        *)
(* (Marks).                                                                *)
(***************************************************************************)
EXTENDS TopologyIncidents, FiniteSetTheorems, SequenceTheorems, TLAPS

USE ConstantsAssumption DEF Days, Severity, Finding, Lifecycle, Ids

\* A server has at most one live incident of a kind: the unique index.
OneOpenPerKey ==
    \A i, j \in DOMAIN rows : i # j /\ ~ rows[i].resolved /\ ~ rows[j].resolved
                                  => rows[i].key # rows[j].key

Live == {"pending", "open", "recovering"}

ReadsAreLive ==
    \A e \in Evaluators, k \in Keys :
        eval[e].open[k] # Missing => eval[e].open[k].detail.state \in Live

IInv == TypeOK /\ OneOpenPerKey /\ FinalIsResolved /\ ReadsAreLive

OpenRow == {Missing} \cup [id : Ids, detail : Detail]

\* An open row that was read has the id of a row; a missing one has none.
LEMMA OpenRowId ==
    ASSUME NEW r \in OpenRow, NEW i \in Ids, r.id = i
    PROVE  r # Missing /\ r.detail \in Detail
BY DEF OpenRow, Missing

LEMMA IdleType == Idle \in EvalState /\ \A k \in Keys : Idle.open[k] = Missing
<1>1. /\ Idle.pc = "idle" /\ Idle.mark = 1 /\ Idle.date = 1
      /\ Idle.signals = [k \in Keys |-> "none"] /\ Idle.open = [k \in Keys |-> Missing]
      /\ 1 \in Days
    BY DEF Idle, NoSignals
<1>2. Idle = [pc |-> "idle", mark |-> 1, date |-> 1, signals |-> NoSignals,
              open |-> [k \in Keys |-> Missing]]
    BY DEF Idle
<1>3. NoSignals \in [Keys -> Finding]
    BY DEF NoSignals
<1>4. [k \in Keys |-> Missing] \in [Keys -> {Missing} \cup [id : Ids, detail : Detail]]
    OBVIOUS
<1> QED
    BY <1>1, <1>2, <1>3, <1>4 DEF EvalState

\* A step of one evaluator that leaves the rows alone.
LEMMA EvaluatorIInv ==
    ASSUME IInv, NEW e \in Evaluators, NEW v \in EvalState,
           \A k \in Keys : v.open[k] # Missing => v.open[k].detail.state \in Live,
           eval' = [eval EXCEPT ![e] = v], UNCHANGED <<day, found, rows>>
    PROVE  IInv'
<1>1. TypeOK'
    BY DEF IInv, TypeOK
<1>2. OneOpenPerKey' /\ FinalIsResolved'
    BY DEF IInv, OneOpenPerKey, FinalIsResolved
<1>3. ReadsAreLive'
    BY DEF IInv, ReadsAreLive, TypeOK
<1> QED
    BY <1>1, <1>2, <1>3 DEF IInv

LEMMA InitIInv == Init => IInv
<1> SUFFICES ASSUME Init PROVE IInv
    OBVIOUS
<1>1. TypeOK
    BY IdleType, EmptySeq DEF Init, TypeOK
<1>2. DOMAIN rows = {}
    BY DEF Init
<1> QED
    BY <1>1, <1>2, IdleType DEF Init, IInv, OneOpenPerKey, FinalIsResolved, ReadsAreLive

LEMMA ComputeIInv ==
    ASSUME IInv, NEW e \in Evaluators, Compute(e)
    PROVE  IInv'
<1> DEFINE quiet == [Idle EXCEPT !.pc = "read", !.mark = day]
           busy(d) == [Idle EXCEPT !.pc = "read", !.mark = day, !.date = d,
                                   !.signals = SignalsOf(d)]
<1>1. TypeOK
    BY DEF IInv
<1>2. quiet \in EvalState /\ \A k \in Keys : quiet.open[k] = Missing
    BY <1>1, IdleType DEF EvalState, TypeOK
<1>3. ASSUME NEW d \in Days
      PROVE  busy(d) \in EvalState /\ \A k \in Keys : busy(d).open[k] = Missing
    <2>1. SignalsOf(d) \in [Keys -> Finding]
        BY <1>1 DEF SignalsOf, TypeOK
    <2> QED
        BY <1>1, <2>1, IdleType DEF EvalState, TypeOK
<1> HIDE DEF quiet, busy
<1>4. CASE eval' = [eval EXCEPT ![e] = quiet]
    BY <1>2, <1>4, EvaluatorIInv DEF Compute
<1>5. ASSUME NEW d \in Days, eval' = [eval EXCEPT ![e] = busy(d)] PROVE IInv'
    BY <1>3, <1>5, EvaluatorIInv DEF Compute
<1>6. \/ eval' = [eval EXCEPT ![e] = quiet]
      \/ \E d \in Days : eval' = [eval EXCEPT ![e] = busy(d)]
    BY DEF Compute, quiet, busy, Dated, Shown
<1> QED
    BY <1>4, <1>5, <1>6

LEMMA ReadOpenIInv ==
    ASSUME IInv, NEW e \in Evaluators, ReadOpen(e)
    PROVE  IInv'
<1> DEFINE read == [k \in Keys |-> IF OpenIds(k) = {} THEN Missing
                                   ELSE LET i == CHOOSE i \in OpenIds(k) : TRUE
                                        IN  [id |-> i, detail |-> rows[i].detail]]
           v == [eval[e] EXCEPT !.pc = "write", !.open = read]
<1>1. TypeOK /\ FinalIsResolved
    BY DEF IInv
<1>2. \A i \in DOMAIN rows : i \in Ids /\ rows[i] \in Row
    <2>1. DOMAIN rows = 1 .. Len(rows) /\ Len(rows) \in Nat /\ Len(rows) <= MaxRows
        BY <1>1, LenProperties DEF TypeOK
    <2> QED
        BY <1>1, <2>1, ElementOfSeq DEF TypeOK
<1>3. ASSUME NEW k \in Keys
      PROVE  /\ read[k] \in {Missing} \cup [id : Ids, detail : Detail]
             /\ read[k] # Missing => read[k].detail.state \in Live
    <2>1. CASE OpenIds(k) = {}
        BY <2>1
    <2>2. CASE OpenIds(k) # {}
        <3>1. PICK i \in OpenIds(k) : read[k] = [id |-> i, detail |-> rows[i].detail]
            BY <2>2
        <3>2. i \in Ids /\ rows[i].detail \in Detail /\ ~ rows[i].resolved
            BY <1>2 DEF OpenIds, Row
        <3>3. rows[i].detail.state \in Live
            BY <1>1, <3>2 DEF OpenIds, FinalIsResolved, Detail, Live
        <3> QED
            BY <3>1, <3>2, <3>3
    <2> QED
        BY <2>1, <2>2
<1>4. read \in [Keys -> {Missing} \cup [id : Ids, detail : Detail]]
    BY <1>3
<1> HIDE DEF read
<1>5. v \in EvalState /\ v.open = read
    <2>1. eval[e] \in EvalState
        BY <1>1 DEF TypeOK
    <2> QED
        BY <1>4, <2>1 DEF EvalState
<1>6. eval' = [eval EXCEPT ![e] = v]
    BY <1>1 DEF ReadOpen, TypeOK, read
<1> HIDE DEF v
<1> QED
    BY <1>3, <1>5, <1>6, EvaluatorIInv DEF ReadOpen

LEMMA HistoryIInv ==
    ASSUME IInv, NextDay \/ \E k \in Keys, d \in Days, f \in Finding : Measure(k, d, f)
    PROVE  IInv'
<1>1. TypeOK
    BY DEF IInv
<1>2. UNCHANGED <<rows, eval>>
    BY DEF NextDay, Measure
<1>3. day' \in Days /\ found' \in [Keys -> [Days -> Finding]]
    <2>1. CASE NextDay
        BY <1>1, <2>1 DEF NextDay, TypeOK
    <2>2. ASSUME NEW k \in Keys, NEW d \in Days, NEW f \in Finding, Measure(k, d, f)
          PROVE  day' \in Days /\ found' \in [Keys -> [Days -> Finding]]
        <3>1. [found[k] EXCEPT ![d] = f] \in [Days -> Finding]
            BY <1>1 DEF TypeOK
        <3>2. found' = [found EXCEPT ![k] = [found[k] EXCEPT ![d] = f]] /\ day' = day
            BY <1>1, <2>2 DEF Measure, TypeOK
        <3> QED
            BY <1>1, <3>1, <3>2 DEF TypeOK
    <2> QED
        BY <2>1, <2>2
<1>4. TypeOK'
    BY <1>1, <1>2, <1>3 DEF TypeOK
<1> QED
    BY <1>2, <1>4 DEF IInv, OneOpenPerKey, FinalIsResolved, ReadsAreLive

-----------------------------------------------------------------------------
(* The transaction.                                                        *)

LEMMA OpenedType ==
    ASSUME NEW k \in Keys, NEW severity \in Severity, NEW mark \in Days, NEW date \in Days
    PROVE  /\ Opened(k, severity, mark, date) \in Row
           /\ Opened(k, severity, mark, date).key = k
           /\ Opened(k, severity, mark, date).detail.state \in Live
BY DEF Opened, Row, Detail, Evidence, Live

\* Assignments to the fields of a detail.
LEMMA DetailFields ==
    ASSUME NEW d \in Detail
    PROVE  /\ \A x \in Lifecycle : [d EXCEPT !.state = x] \in Detail
           /\ \A x \in Nat : [d EXCEPT !.signals = x] \in Detail
           /\ \A x \in Nat : [d EXCEPT !.quiet = x] \in Detail
           /\ \A x \in Days : [d EXCEPT !.signalMark = x] \in Detail
           /\ \A x \in Days : [d EXCEPT !.evalMark = x] \in Detail
           /\ \A x \in SUBSET Evidence : [d EXCEPT !.evidence = x] \in Detail
BY DEF Detail

LEMMA StateField ==
    ASSUME NEW d \in Detail
    PROVE  /\ \A x : [d EXCEPT !.state = x].state = x
           /\ \A x : [d EXCEPT !.signals = x].state = d.state
           /\ \A x : [d EXCEPT !.quiet = x].state = d.state
           /\ \A x : [d EXCEPT !.signalMark = x].state = d.state
           /\ \A x : [d EXCEPT !.evalMark = x].state = d.state
           /\ \A x : [d EXCEPT !.evidence = x].state = d.state
BY DEF Detail

LEMMA CountedType ==
    ASSUME NEW detail \in Detail, NEW mark \in Days, NEW date \in Days
    PROVE  /\ Counted(detail, mark, date) \in Detail
           /\ Counted(detail, mark, date).state = detail.state
<1>1. [on |-> mark, date |-> date] \in Evidence
    BY DEF Evidence
<1>2. detail.evidence \cup {[on |-> mark, date |-> date]} \in SUBSET Evidence
    BY <1>1 DEF Detail
<1> DEFINE more == [detail EXCEPT !.signals = detail.signals + 1]
           marked == [more EXCEPT !.signalMark = mark]
           seen == [marked EXCEPT !.evidence = detail.evidence \cup {[on |-> mark, date |-> date]}]
<1>3. more \in Detail /\ more.state = detail.state
    <2>1. detail.signals + 1 \in Nat
        BY DEF Detail
    <2> QED
        BY <2>1, DetailFields, StateField
<1>4. seen = [detail EXCEPT !.signals = @ + 1, !.signalMark = mark,
                            !.evidence = @ \cup {[on |-> mark, date |-> date]}]
    BY DEF Detail
<1> HIDE DEF more
<1>5. marked \in Detail /\ marked.state = detail.state
    BY <1>3, DetailFields, StateField
<1> HIDE DEF marked
<1>6. seen \in Detail /\ seen.state = detail.state
    BY <1>2, <1>5, DetailFields, StateField
<1> HIDE DEF seen
<1> QED
    BY <1>4, <1>6 DEF Counted

LEMMA SignalledType ==
    ASSUME NEW detail \in Detail, NEW severity \in Severity, NEW mark \in Days, NEW date \in Days
    PROVE  /\ Signalled(detail, severity, mark, date) \in Detail
           /\ detail.state \in Live => Signalled(detail, severity, mark, date).state \in Live
<1> DEFINE counted == Counted(detail, mark, date)
<1>1. counted \in Detail /\ counted.state = detail.state
    BY CountedType
<1> HIDE DEF counted
<1>2. Signalled(detail, severity, mark, date) =
         [counted EXCEPT !.quiet = 0, !.evalMark = mark,
                         !.state = IF \/ @ \in {"open", "recovering"}
                                      \/ @ = "pending" /\ ShouldOpen(severity, counted.signals)
                                   THEN "open" ELSE @]
    BY DEF Signalled, QuietAfterSignal, counted
<1> DEFINE ended == [counted EXCEPT !.quiet = 0]
           marked == [ended EXCEPT !.evalMark = mark]
           state == IF \/ counted.state \in {"open", "recovering"}
                       \/ counted.state = "pending" /\ ShouldOpen(severity, counted.signals)
                    THEN "open" ELSE counted.state
<1>3. Signalled(detail, severity, mark, date) = [marked EXCEPT !.state = state]
    BY <1>1, <1>2 DEF Detail
<1>4. ended \in Detail
    BY <1>1, DetailFields
<1> HIDE DEF ended
<1>5. marked \in Detail
    BY <1>4, DetailFields
<1> HIDE DEF marked
<1>6. state \in Lifecycle /\ (detail.state \in Live => state \in Live)
    BY <1>1 DEF Detail, Live
<1> HIDE DEF state
<1>7. [marked EXCEPT !.state = state] \in Detail /\ [marked EXCEPT !.state = state].state = state
    BY <1>5, <1>6 DEF Detail
<1> QED
    BY <1>3, <1>6, <1>7

LEMMA QuietedType ==
    ASSUME NEW detail \in Detail, NEW mark \in Days
    PROVE  /\ Quieted(detail, mark) \in Detail
           /\ ~ Closes(Quieted(detail, mark).state)
                  => Quieted(detail, mark).state \in Live
<1> DEFINE marked == [detail EXCEPT !.evalMark = mark]
           longer == [marked EXCEPT !.quiet = detail.quiet + 1]
           state == IF detail.quiet + 1 >= RecoveryStreak THEN "resolved" ELSE "recovering"
<1>1. Quieted(detail, mark) = IF detail.state = "pending" THEN [marked EXCEPT !.state = "suppressed"]
                              ELSE [longer EXCEPT !.state = state]
    BY DEF Quieted, Detail
<1>2. detail.quiet + 1 \in Nat
    BY DEF Detail
<1>3. marked \in Detail
    BY DetailFields
<1> HIDE DEF marked
<1>4. longer \in Detail
    BY <1>2, <1>3, DetailFields
<1> HIDE DEF longer
<1>5. state \in {"resolved", "recovering"}
    OBVIOUS
<1> HIDE DEF state
<1>6. /\ [marked EXCEPT !.state = "suppressed"] \in Detail
      /\ [marked EXCEPT !.state = "suppressed"].state = "suppressed"
    BY <1>3 DEF Detail
<1>7. [longer EXCEPT !.state = state] \in Detail /\ [longer EXCEPT !.state = state].state = state
    BY <1>4, <1>5 DEF Detail
<1> QED
    BY <1>1, <1>5, <1>6, <1>7 DEF Closes, Live

\* An update keeps the key, resolves rather than reopens, and leaves no row
\* with a final state unresolved.
LEMMA UpdatedType ==
    ASSUME IInv, NEW e \in Evaluators, NEW i \in Ids, rows[i] \in Row, i \in DOMAIN rows
    PROVE  /\ Updated(e, i) \in Row /\ Updated(e, i).key = rows[i].key
           /\ rows[i].resolved => Updated(e, i).resolved
           /\ Updated(e, i).detail.state \in {"suppressed", "resolved"} => Updated(e, i).resolved
<1>1. TypeOK /\ FinalIsResolved /\ ReadsAreLive
    BY DEF IInv
<1> DEFINE k == rows[i].key
           read == eval[e].open[k]
           signal == eval[e].signals[k]
           quieted == Quieted(read.detail, eval[e].mark)
           signalled == Signalled(read.detail, signal, eval[e].mark, eval[e].date)
<1>2. k \in Keys
    BY DEF Row
<1>3. read \in OpenRow /\ signal \in Finding /\ eval[e].mark \in Days /\ eval[e].date \in Days
    BY <1>1, <1>2 DEF TypeOK, EvalState, OpenRow
<1>4. Updated(e, i) =
        IF read.id # i THEN rows[i]
        ELSE IF signal # "none" THEN [rows[i] EXCEPT !.severity = signal, !.detail = signalled]
        ELSE IF read.detail.evalMark = eval[e].mark THEN rows[i]
        ELSE [rows[i] EXCEPT !.detail = quieted, !.resolved = @ \/ Closes(quieted.state)]
    BY DEF Updated
<1>5. rows[i].detail.state \in {"suppressed", "resolved"} => rows[i].resolved
    BY <1>1 DEF FinalIsResolved
<1>6. CASE Updated(e, i) = rows[i]
    BY <1>5, <1>6
<1>7. CASE read.id = i /\ signal # "none"
    <2>1. read.detail \in Detail /\ read.detail.state \in Live
        BY <1>1, <1>2, <1>3, <1>7, OpenRowId DEF ReadsAreLive
    <2>2. signal \in Severity
        BY <1>3, <1>7
    <2>3. signalled \in Detail /\ signalled.state \in Live
        BY <1>3, <2>1, <2>2, SignalledType
    <2>4. Updated(e, i) = [rows[i] EXCEPT !.severity = signal, !.detail = signalled]
        BY <1>4, <1>7
    <2> HIDE DEF signalled, signal
    <2> QED
        BY <2>2, <2>3, <2>4 DEF Row, Live
<1>8. CASE read.id = i /\ signal = "none" /\ read.detail.evalMark # eval[e].mark
    <2>1. read.detail \in Detail
        BY <1>3, <1>8, OpenRowId
    <2>2. quieted \in Detail /\ (~ Closes(quieted.state) => quieted.state \in Live)
        BY <1>3, <2>1, QuietedType
    <2>3. Updated(e, i) = [rows[i] EXCEPT !.detail = quieted,
                                          !.resolved = rows[i].resolved \/ Closes(quieted.state)]
        BY <1>4, <1>8
    <2>4. Closes(quieted.state) \in BOOLEAN
        BY DEF Closes
    <2> HIDE DEF quieted
    <2> QED
        BY <2>2, <2>3, <2>4 DEF Row, Live
<1> QED
    BY <1>4, <1>6, <1>7, <1>8

\* The rows after the transaction of e: the old ones, updated, and one for every
\* key that is inserted.
LEMMA CommitRows ==
    ASSUME IInv, NEW e \in Evaluators, Commit(e)
    PROVE  /\ rows' \in Seq(Row) /\ Len(rows') <= MaxRows
           /\ DOMAIN rows \subseteq DOMAIN rows' /\ DOMAIN rows' \subseteq Ids
           /\ \A i \in DOMAIN rows : rows[i] \in Row /\ rows'[i] = Updated(e, i)
           /\ \A i \in DOMAIN rows' \ DOMAIN rows : \E k \in Inserted(e) :
                 rows'[i] = Opened(k, eval[e].signals[k], eval[e].mark, eval[e].date)
           /\ \A i, j \in DOMAIN rows' \ DOMAIN rows : i # j => rows'[i].key # rows'[j].key
<1>1. TypeOK
    BY DEF IInv
<1> DEFINE m == Len(rows)
           c == Cardinality(Inserted(e))
           New(k) == Opened(k, eval[e].signals[k], eval[e].mark, eval[e].date)
<1>2. m \in Nat /\ m <= MaxRows /\ DOMAIN rows = 1 .. m /\ \A i \in 1 .. m : rows[i] \in Row
    BY <1>1, LenProperties, ElementOfSeq DEF TypeOK
<1>3. c \in Nat
    <2>1. Inserted(e) \in SUBSET Keys
        BY DEF Inserted
    <2> QED
        BY <2>1, FS_Subset, FS_CardinalityType
<1>4. m + c <= MaxRows
    BY DEF Commit
<1> DEFINE updated == [i \in 1 .. m |-> Updated(e, i)]
           News(order) == [n \in 1 .. c |-> New(order[n])]
<1>5. PICK order \in [1 .. c -> Inserted(e)] :
         /\ \A i, j \in 1 .. c : i # j => order[i] # order[j]
         /\ rows' = updated \o News(order)
    BY <1>2 DEF Commit
<1> DEFINE new == News(order)
<1>6. \A k \in Inserted(e) : New(k) \in Row /\ New(k).key = k
    <2> TAKE k \in Inserted(e)
    <2>1. k \in Keys /\ eval[e].signals[k] # "none"
        BY DEF Inserted
    <2>2. eval[e].signals[k] \in Severity /\ eval[e].mark \in Days /\ eval[e].date \in Days
        BY <1>1, <2>1 DEF TypeOK, EvalState
    <2> QED
        BY <2>1, <2>2, OpenedType
<1> HIDE DEF New
<1>7. \A n \in 1 .. c : new[n] = New(order[n]) /\ order[n] \in Inserted(e)
    BY <1>5
<1>8. \A i \in 1 .. m : updated[i] = Updated(e, i) /\ updated[i] \in Row
    BY <1>2, <1>4, UpdatedType
<1> HIDE DEF updated, News, new
<1>9. updated \in Seq(Row) /\ Len(updated) = m
    <2>1. updated = [i \in 1 .. m |-> updated[i]]
        BY DEF updated
    <2> QED
        BY <1>2, <1>8, <2>1
<1>10. new \in Seq(Row) /\ Len(new) = c
    <2>1. new = [n \in 1 .. c |-> new[n]]
        BY DEF new, News
    <2> QED
        BY <1>3, <1>6, <1>7, <2>1
<1> HIDE DEF m, c
<1>11. /\ rows' \in Seq(Row) /\ Len(rows') = m + c
       /\ \A i \in 1 .. m + c : /\ i <= m => rows'[i] = updated[i]
                                /\ ~ (i <= m) => rows'[i] = new[i - m]
    <2>1. rows' = updated \o new
        BY <1>5 DEF new
    <2> QED
        BY <1>9, <1>10, <2>1, ConcatProperties
<1>12. DOMAIN rows' = 1 .. m + c
    BY <1>11, LenProperties
<1>13. /\ DOMAIN rows \subseteq DOMAIN rows' /\ DOMAIN rows' \subseteq Ids
       /\ \A i \in DOMAIN rows' \ DOMAIN rows : ~ (i <= m) /\ i - m \in 1 .. c
    BY <1>2, <1>3, <1>4, <1>12
<1>14. \A i \in DOMAIN rows : rows[i] \in Row /\ rows'[i] = Updated(e, i)
    BY <1>2, <1>3, <1>8, <1>11
<1>15. \A i \in DOMAIN rows' \ DOMAIN rows :
          /\ rows'[i] = New(order[i - m]) /\ order[i - m] \in Inserted(e)
          /\ rows'[i].key = order[i - m]
    BY <1>6, <1>7, <1>11, <1>12, <1>13
<1>16. \A i, j \in DOMAIN rows' \ DOMAIN rows : i # j => rows'[i].key # rows'[j].key
    <2> SUFFICES ASSUME NEW i \in DOMAIN rows' \ DOMAIN rows, NEW j \in DOMAIN rows' \ DOMAIN rows,
                        i # j
                 PROVE  rows'[i].key # rows'[j].key
        OBVIOUS
    <2>1. i - m \in 1 .. c /\ j - m \in 1 .. c /\ i - m # j - m
        BY <1>2, <1>3, <1>12, <1>13
    <2> QED
        BY <1>5, <1>15, <2>1
<1> QED
    BY <1>4, <1>11, <1>13, <1>14, <1>15, <1>16 DEF New

LEMMA CommitIInv ==
    ASSUME IInv, NEW e \in Evaluators, Commit(e)
    PROVE  IInv'
<1> DEFINE old == DOMAIN rows
           new == DOMAIN rows' \ DOMAIN rows
<1>1. TypeOK /\ OneOpenPerKey /\ FinalIsResolved /\ ReadsAreLive
    BY DEF IInv
<1>2. UNCHANGED <<day, found>> /\ eval' = [eval EXCEPT ![e] = Idle] /\ ~ Refused(e)
    BY DEF Commit
<1>3. TypeOK'
    <2>1. eval' \in [Evaluators -> EvalState]
        BY <1>1, <1>2, IdleType DEF TypeOK
    <2> QED
        BY <1>1, <1>2, <2>1, CommitRows DEF TypeOK
<1>4. ReadsAreLive'
    BY <1>1, <1>2, IdleType DEF TypeOK, ReadsAreLive
<1>5. \A i \in old :
         /\ rows'[i].key = rows[i].key /\ (rows[i].resolved => rows'[i].resolved)
         /\ rows'[i].detail.state \in {"suppressed", "resolved"} => rows'[i].resolved
    BY CommitRows, UpdatedType
<1>6. \A i \in new : rows'[i].key \in Inserted(e) /\ rows'[i].detail.state \in Live
    <2> TAKE i \in new
    <2>1. PICK k \in Inserted(e) :
             rows'[i] = Opened(k, eval[e].signals[k], eval[e].mark, eval[e].date)
        BY CommitRows
    <2>2. k \in Keys /\ eval[e].signals[k] # "none"
        BY DEF Inserted
    <2>3. eval[e].signals[k] \in Severity /\ eval[e].mark \in Days /\ eval[e].date \in Days
        BY <1>1, <2>2 DEF TypeOK, EvalState
    <2> QED
        BY <2>1, <2>2, <2>3, OpenedType
<1>7. FinalIsResolved'
    BY <1>5, <1>6, CommitRows DEF FinalIsResolved, Live
<1>8. OneOpenPerKey'
    <2>1. \A i \in old, j \in new : ~ rows'[i].resolved => rows'[i].key # rows'[j].key
        BY <1>2, <1>5, <1>6 DEF Refused, OpenIds
    <2>2. \A i, j \in old : i # j /\ ~ rows'[i].resolved /\ ~ rows'[j].resolved
                              => rows'[i].key # rows'[j].key
        BY <1>1, <1>5 DEF OneOpenPerKey
    <2>3. \A i, j \in new : i # j => rows'[i].key # rows'[j].key
        BY CommitRows
    <2> QED
        BY <2>1, <2>2, <2>3 DEF OneOpenPerKey
<1> QED
    BY <1>3, <1>4, <1>7, <1>8 DEF IInv

LEMMA AbortIInv ==
    ASSUME IInv, NEW e \in Evaluators, Abort(e)
    PROVE  IInv'
BY IdleType, EvaluatorIInv DEF Abort

LEMMA NextIInv == IInv /\ [Next]_vars => IInv'
<1> SUFFICES ASSUME IInv, [Next]_vars PROVE IInv'
    OBVIOUS
<1>1. CASE UNCHANGED vars
    BY <1>1 DEF vars, IInv, TypeOK, OneOpenPerKey, FinalIsResolved, ReadsAreLive
<1> QED
    BY <1>1, HistoryIInv, ComputeIInv, ReadOpenIInv, CommitIInv, AbortIInv DEF Next

LEMMA SpecIInv == Spec => []IInv
<1>1. Init => IInv
    BY InitIInv
<1>2. IInv /\ [Next]_vars => IInv'
    BY NextIInv
<1> QED
    BY <1>1, <1>2, PTL DEF Spec

\* The types, for every number of evaluators, keys, days and rows.
THEOREM TypeCorrect == Spec => []TypeOK
<1>1. IInv => TypeOK
    BY DEF IInv
<1> QED
    BY <1>1, SpecIInv, PTL

\* An incident whose detail says that it is suppressed or resolved has
\* resolved_at, whatever evaluators read before they write.  (The reverse does
\* not hold: a late evaluator may write `open' over a row that has it.)
THEOREM FinalLetsGo == Spec => []FinalIsResolved
<1>1. IInv => FinalIsResolved
    BY DEF IInv
<1> QED
    BY <1>1, SpecIInv, PTL

-----------------------------------------------------------------------------
(* One evaluator.                                                          *)

ReadIsCurrent ==
    \A e \in Evaluators, k \in Keys : eval[e].pc = "write" =>
        IF OpenIds(k) = {} THEN eval[e].open[k] = Missing
        ELSE \E i \in OpenIds(k) : eval[e].open[k] = [id |-> i, detail |-> rows[i].detail]

OpenIsLoud ==
    \A i \in DOMAIN rows : rows[i].detail.state = "open" => rows[i].detail.quiet = 0

LInv == IInv /\ ReadIsCurrent /\ OpenIsLoud

-----------------------------------------------------------------------------
(* The lifecycle's variables, as functions of the rows.                    *)

KeyOf == [i \in Ids |-> IF i \in DOMAIN rows THEN rows[i].key ELSE CHOOSE k \in Keys : TRUE]
Reported == [i \in Ids |-> ReportOf(i)]

LEMMA Mapping == Abstract!lifecycle = <<KeyOf, Reported>>
BY DEF Abstract!lifecycle, KeyOf, Reported

\* What one evaluation may do, said of the rows.
Evaluated ==
    /\ Reported' \in [Ids -> Abstract!Report]
    /\ \A i \in Ids : Reported'[i] \in Abstract!Follows[Reported[i]]
    /\ \A i \in Ids : Reported[i] # "absent" => KeyOf'[i] = KeyOf[i]
    /\ \A i \in Ids : Reported[i] = "absent" /\ Reported'[i] # "absent" =>
          ~ \E j \in Ids : Reported[j] \in Abstract!Live /\ KeyOf[j] = KeyOf'[i]
    /\ \A i, j \in Ids : /\ i # j
                         /\ Reported'[i] \in Abstract!Live /\ Reported'[j] \in Abstract!Live
                         => KeyOf'[i] # KeyOf'[j]

LEMMA EvaluatedImplements == Evaluated => Abstract!Evaluate
BY DEF Evaluated, Abstract!Evaluate, Abstract!LiveOn, KeyOf, Reported

-----------------------------------------------------------------------------
(* What the strengthened invariant says of rows.                           *)

LEMMA RowIds ==
    ASSUME TypeOK
    PROVE  \A i \in DOMAIN rows : i \in Ids /\ rows[i] \in Row
<1>1. DOMAIN rows = 1 .. Len(rows) /\ Len(rows) \in Nat /\ Len(rows) <= MaxRows
    BY LenProperties DEF TypeOK
<1>2. \A i \in 1 .. Len(rows) : rows[i] \in Row
    BY ElementOfSeq DEF TypeOK
<1>3. MaxRows \in Nat
    OBVIOUS
<1> QED
    BY <1>1, <1>2, <1>3

\* How a row is reported.
RowReport(row) ==
    IF ~ row.resolved THEN row.detail.state
    ELSE IF row.detail.state \in {"pending", "suppressed"} THEN "suppressed"
    ELSE "resolved"

\* A live report is that of an unresolved row.
LEMMA Reports ==
    ASSUME NEW row \in Row, row.detail.state \in {"suppressed", "resolved"} => row.resolved
    PROVE  /\ RowReport(row) \in Abstract!Report \ {"absent"}
           /\ RowReport(row) \in Abstract!Live <=> ~ row.resolved
<1>1. row.resolved \in BOOLEAN /\ row.detail.state \in Lifecycle
    BY DEF Row, Detail
<1> QED
    BY <1>1 DEF RowReport, Abstract!Report, Abstract!Live, Abstract!Over

LEMMA ReportsOfRows ==
    /\ \A i : ReportOf(i) = IF i \in DOMAIN rows THEN RowReport(rows[i]) ELSE "absent"
    /\ \A i : ReportOf(i)' = IF i \in DOMAIN rows' THEN RowReport(rows'[i]) ELSE "absent"
BY DEF ReportOf, RowReport

\* Only one row of a key is open.
LEMMA TheOpenRow ==
    ASSUME TypeOK, OneOpenPerKey, NEW i \in DOMAIN rows, ~ rows[i].resolved
    PROVE  OpenIds(rows[i].key) = {i}
BY DEF OpenIds, OneOpenPerKey

-----------------------------------------------------------------------------
(* The two ways in which an evaluation changes a row.                      *)

LEMMA SignalledReport ==
    ASSUME NEW detail \in Detail, NEW severity \in Severity, NEW mark \in Days, NEW date \in Days,
           detail.state \in Live
    PROVE  /\ Signalled(detail, severity, mark, date).quiet = 0
           /\ Signalled(detail, severity, mark, date).state \in Abstract!Follows[detail.state]
<1> DEFINE counted == Counted(detail, mark, date)
<1>1. counted \in Detail /\ counted.state = detail.state
    BY CountedType
<1> HIDE DEF counted
<1> DEFINE ended == [counted EXCEPT !.quiet = 0]
           marked == [ended EXCEPT !.evalMark = mark]
           state == IF \/ counted.state \in {"open", "recovering"}
                       \/ counted.state = "pending" /\ ShouldOpen(severity, counted.signals)
                    THEN "open" ELSE counted.state
           final == [marked EXCEPT !.state = state]
<1>2. Signalled(detail, severity, mark, date) = final
    BY <1>1 DEF Signalled, QuietAfterSignal, counted, Detail
<1>3. ended \in Detail /\ ended.quiet = 0
    BY <1>1 DEF Detail
<1> HIDE DEF ended
<1>4. marked \in Detail /\ marked.quiet = 0
    BY <1>3 DEF Detail
<1> HIDE DEF marked
<1>5. state \in Abstract!Follows[detail.state]
    BY <1>1 DEF Live, Abstract!Follows
<1> HIDE DEF state
<1>6. final.quiet = 0 /\ final.state = state
    BY <1>4 DEF Detail
<1> QED
    BY <1>2, <1>5, <1>6

LEMMA QuietedReport ==
    ASSUME NEW detail \in Detail, NEW mark \in Days, detail.state \in Live,
           detail.state = "open" => detail.quiet = 0
    PROVE  /\ Quieted(detail, mark).state \in Abstract!Follows[detail.state]
           /\ Quieted(detail, mark).state \in {"suppressed", "resolved", "recovering"}
<1> DEFINE marked == [detail EXCEPT !.evalMark = mark]
           longer == [marked EXCEPT !.quiet = detail.quiet + 1]
           state == IF detail.quiet + 1 >= RecoveryStreak THEN "resolved" ELSE "recovering"
<1>1. Quieted(detail, mark) = IF detail.state = "pending" THEN [marked EXCEPT !.state = "suppressed"]
                              ELSE [longer EXCEPT !.state = state]
    BY DEF Quieted, Detail
<1>2. detail.quiet + 1 \in Nat
    BY DEF Detail
<1>3. marked \in Detail
    BY DEF Detail
<1> HIDE DEF marked
<1>4. longer \in Detail
    BY <1>2, <1>3 DEF Detail
<1> HIDE DEF longer
<1>5. state \in {"resolved", "recovering"} /\ (detail.state = "open" => state = "recovering")
    BY DEF RecoveryStreak
<1> HIDE DEF state
<1>6. [marked EXCEPT !.state = "suppressed"].state = "suppressed"
    BY <1>3 DEF Detail
<1>7. [longer EXCEPT !.state = state].state = state
    BY <1>4, <1>5 DEF Detail
<1> QED
    BY <1>1, <1>5, <1>6, <1>7 DEF Live, Abstract!Follows

-----------------------------------------------------------------------------
(* One transaction.                                                        *)

\* What the transaction makes of a row: nothing, or what its own detail asks for.
LEMMA UpdatedCases ==
    ASSUME LInv, NEW e \in Evaluators, eval[e].pc = "write", NEW i \in DOMAIN rows
    PROVE  LET detail == rows[i].detail
               new == Updated(e, i)
               signal == eval[e].signals[rows[i].key]
               mark == eval[e].mark
           IN  \/ new = rows[i]
               \/ /\ ~ rows[i].resolved /\ ~ new.resolved /\ signal \in Severity
                  /\ new.detail = Signalled(detail, signal, mark, eval[e].date)
                  /\ new.severity = signal
               \/ /\ ~ rows[i].resolved /\ detail.evalMark # mark
                  /\ new.detail = Quieted(detail, mark)
                  /\ new.resolved <=> Closes(new.detail.state)
<1>1. TypeOK /\ OneOpenPerKey /\ ReadIsCurrent
    BY DEF LInv, IInv
<1>2. i \in Ids /\ rows[i] \in Row /\ i # 0
    BY <1>1, RowIds
<1> DEFINE k == rows[i].key
           read == eval[e].open[k]
           signal == eval[e].signals[k]
           mark == eval[e].mark
           quieted == Quieted(read.detail, mark)
           signalled == Signalled(read.detail, signal, mark, eval[e].date)
           new == Updated(e, i)
<1>3. k \in Keys
    BY <1>2 DEF Row
<1>4. signal \in Finding
    BY <1>1, <1>3 DEF TypeOK, EvalState
<1>5. new = IF read.id # i THEN rows[i]
            ELSE IF signal # "none" THEN [rows[i] EXCEPT !.severity = signal, !.detail = signalled]
            ELSE IF read.detail.evalMark = mark THEN rows[i]
            ELSE [rows[i] EXCEPT !.detail = quieted, !.resolved = @ \/ Closes(quieted.state)]
    BY DEF Updated
<1>6. CASE rows[i].resolved
    <2>1. read.id # i
        <3>1. CASE OpenIds(k) = {}
            BY <1>1, <1>2, <1>3, <3>1 DEF ReadIsCurrent, Missing
        <3>2. CASE OpenIds(k) # {}
            <4>1. PICK j \in OpenIds(k) : read = [id |-> j, detail |-> rows[j].detail]
                BY <1>1, <1>3, <3>2 DEF ReadIsCurrent
            <4>2. i \notin OpenIds(k)
                BY <1>6 DEF OpenIds
            <4> QED
                BY <4>1, <4>2
        <3> QED
            BY <3>1, <3>2
    <2> QED
        BY <1>5, <2>1
<1>7. CASE ~ rows[i].resolved
    <2>1. read.id = i /\ read.detail = rows[i].detail
        <3>1. OpenIds(k) = {i}
            BY <1>1, <1>7, TheOpenRow
        <3>2. PICK j \in OpenIds(k) : read = [id |-> j, detail |-> rows[j].detail]
            BY <1>1, <1>3, <3>1 DEF ReadIsCurrent
        <3> QED
            BY <3>1, <3>2
    <2>2. CASE signal # "none"
        <3>1. signal \in Severity
            BY <1>4, <2>2
        <3>2. new = [rows[i] EXCEPT !.severity = signal, !.detail = signalled]
            BY <1>5, <2>1, <2>2
        <3>3. signalled = Signalled(rows[i].detail, signal, mark, eval[e].date)
            BY <2>1
        <3> HIDE DEF signalled, signal, new
        <3>4. new.detail = signalled /\ new.severity = signal /\ ~ new.resolved
            BY <1>2, <1>7, <3>2 DEF Row
        <3> QED
            BY <1>7, <3>1, <3>3, <3>4 DEF new, signal
    <2>3. CASE signal = "none" /\ read.detail.evalMark = mark
        BY <1>5, <2>3
    <2>4. CASE signal = "none" /\ read.detail.evalMark # mark
        <3>1. new = [rows[i] EXCEPT !.detail = quieted,
                                    !.resolved = rows[i].resolved \/ Closes(quieted.state)]
            BY <1>5, <2>1, <2>4
        <3>2. quieted = Quieted(rows[i].detail, mark)
            BY <2>1
        <3> HIDE DEF quieted, new
        <3>3. new.detail = quieted
            BY <1>2, <3>1 DEF Row
        <3>4. new.resolved <=> Closes(quieted.state)
            BY <1>2, <1>7, <3>1 DEF Row, Closes
        <3> QED
            BY <1>7, <2>1, <2>4, <3>2, <3>3, <3>4 DEF new
    <2> QED
        BY <2>2, <2>3, <2>4
<1> QED
    BY <1>6, <1>7

LEMMA UpdatedReport ==
    ASSUME LInv, NEW e \in Evaluators, eval[e].pc = "write", NEW i \in DOMAIN rows
    PROVE  /\ RowReport(Updated(e, i)) \in Abstract!Follows[RowReport(rows[i])]
           /\ Updated(e, i).detail.state = "open" => Updated(e, i).detail.quiet = 0
<1> DEFINE detail == rows[i].detail
           signal == eval[e].signals[rows[i].key]
           mark == eval[e].mark
           date == eval[e].date
           new == Updated(e, i)
<1>1. TypeOK /\ FinalIsResolved /\ OpenIsLoud
    BY DEF LInv, IInv
<1>2. detail \in Detail /\ mark \in Days /\ date \in Days
    BY <1>1, RowIds DEF Row, TypeOK, EvalState
<1>3. ~ rows[i].resolved => detail.state \in Live
    BY <1>1, <1>2 DEF FinalIsResolved, Live, Detail
<1>4. detail.state = "open" => detail.quiet = 0
    BY <1>1 DEF OpenIsLoud
<1>5. \/ new = rows[i]
      \/ /\ ~ rows[i].resolved /\ ~ new.resolved /\ signal \in Severity
         /\ new.detail = Signalled(detail, signal, mark, date)
      \/ /\ ~ rows[i].resolved /\ new.detail = Quieted(detail, mark)
         /\ new.resolved <=> Closes(new.detail.state)
    BY UpdatedCases
<1>6. CASE new = rows[i]
    <2>1. RowReport(rows[i]) \in {"pending", "open", "recovering", "resolved", "suppressed"}
        BY <1>2 DEF RowReport, Detail
    <2>2. RowReport(rows[i]) \in Abstract!Follows[RowReport(rows[i])]
        BY <2>1 DEF Abstract!Follows
    <2> QED
        BY <1>4, <1>6, <2>2
<1>7. CASE /\ ~ rows[i].resolved /\ ~ new.resolved /\ signal \in Severity
           /\ new.detail = Signalled(detail, signal, mark, date)
    <2>1. new.detail.quiet = 0 /\ new.detail.state \in Abstract!Follows[detail.state]
        BY <1>2, <1>3, <1>7, SignalledReport
    <2> QED
        BY <1>7, <2>1 DEF RowReport
<1>8. CASE /\ ~ rows[i].resolved /\ new.detail = Quieted(detail, mark)
           /\ new.resolved <=> Closes(new.detail.state)
    <2>1. /\ new.detail.state \in Abstract!Follows[detail.state]
          /\ new.detail.state \in {"suppressed", "resolved", "recovering"}
        BY <1>2, <1>3, <1>4, <1>8, QuietedReport
    <2> HIDE DEF new
    <2>2. RowReport(new) = new.detail.state
        BY <1>8, <2>1 DEF RowReport, Closes
    <2> QED
        BY <1>8, <2>1, <2>2 DEF RowReport, new
<1> QED
    BY <1>5, <1>6, <1>7, <1>8

\* A row that is inserted is reported as pending or open, and is not quiet.
LEMMA InsertedReport ==
    ASSUME LInv, NEW e \in Evaluators, Commit(e), NEW i \in DOMAIN rows' \ DOMAIN rows
    PROVE  /\ RowReport(rows'[i]) \in {"pending", "open"}
           /\ rows'[i].detail.quiet = 0
           /\ rows'[i].key \in Inserted(e)
<1>1. PICK k \in Inserted(e) :
         rows'[i] = Opened(k, eval[e].signals[k], eval[e].mark, eval[e].date)
    BY CommitRows DEF LInv
<1> QED
    BY <1>1 DEF Opened, RowReport

LEMMA CommitIsLoud ==
    ASSUME LInv, NEW e \in Evaluators, Commit(e)
    PROVE  OpenIsLoud'
<1>1. eval[e].pc = "write"
    BY DEF Commit
<1>2. \A i \in DOMAIN rows : rows'[i].detail.state = "open" => rows'[i].detail.quiet = 0
    BY <1>1, UpdatedReport, CommitRows DEF LInv
<1> QED
    BY <1>2, InsertedReport DEF OpenIsLoud

\* Steps after which the evaluator is not about to write.
LEMMA NotWriting ==
    ASSUME NEW only, Evaluators = {only}, LInv, IInv', OpenIsLoud', eval'[only].pc # "write"
    PROVE  LInv'
BY DEF LInv, ReadIsCurrent

LEMMA ComputeLInv ==
    ASSUME NEW only, Evaluators = {only}, LInv, Compute(only)
    PROVE  LInv'
<1> DEFINE quiet == [Idle EXCEPT !.pc = "read", !.mark = day]
           busy(d) == [Idle EXCEPT !.pc = "read", !.mark = day, !.date = d,
                                   !.signals = SignalsOf(d)]
<1>1. TypeOK /\ IInv' /\ rows' = rows
    BY ComputeIInv DEF LInv, IInv, Compute
<1>2. quiet.pc = "read"
    BY IdleType DEF EvalState
<1>3. \A d : busy(d).pc = "read"
    BY IdleType DEF EvalState
<1> HIDE DEF quiet, busy
<1>4. \/ eval' = [eval EXCEPT ![only] = quiet]
      \/ \E d \in Days : eval' = [eval EXCEPT ![only] = busy(d)]
    BY DEF Compute, quiet, busy, Dated, Shown
<1>5. eval'[only].pc = "read"
    BY <1>1, <1>2, <1>3, <1>4 DEF TypeOK
<1>6. OpenIsLoud'
    BY <1>1 DEF LInv, OpenIsLoud
<1> QED
    BY <1>1, <1>5, <1>6, NotWriting

LEMMA ReadOpenLInv ==
    ASSUME NEW only, Evaluators = {only}, LInv, ReadOpen(only)
    PROVE  LInv'
<1> DEFINE read == [k \in Keys |-> IF OpenIds(k) = {} THEN Missing
                                   ELSE LET i == CHOOSE i \in OpenIds(k) : TRUE
                                        IN  [id |-> i, detail |-> rows[i].detail]]
           v == [eval[only] EXCEPT !.pc = "write", !.open = read]
<1>1. TypeOK /\ IInv' /\ rows' = rows
    BY ReadOpenIInv DEF LInv, IInv, ReadOpen
<1>2. \A k \in Keys : IF OpenIds(k) = {} THEN read[k] = Missing
                      ELSE \E i \in OpenIds(k) : read[k] = [id |-> i, detail |-> rows[i].detail]
    <2> TAKE k \in Keys
    <2>1. CASE OpenIds(k) = {}
        BY <2>1
    <2>2. CASE OpenIds(k) # {}
        BY <2>2
    <2> QED
        BY <2>1, <2>2
<1>3. eval' = [eval EXCEPT ![only] = v]
    BY <1>1 DEF ReadOpen, TypeOK, read
<1> HIDE DEF read
<1>4. v.open = read
    BY <1>1 DEF TypeOK, EvalState
<1> HIDE DEF v
<1>5. eval'[only].open = read
    BY <1>1, <1>3, <1>4 DEF TypeOK
<1>6. \A k \in Keys : OpenIds(k)' = OpenIds(k)
    BY <1>1 DEF OpenIds
<1>7. ReadIsCurrent'
    BY <1>1, <1>2, <1>5, <1>6 DEF ReadIsCurrent
<1>8. OpenIsLoud'
    BY <1>1 DEF LInv, OpenIsLoud
<1> QED
    BY <1>1, <1>7, <1>8 DEF LInv

LEMMA EndLInv ==
    ASSUME NEW only, Evaluators = {only}, LInv, Commit(only) \/ Abort(only)
    PROVE  LInv'
<1>1. TypeOK /\ IInv'
    BY CommitIInv, AbortIInv DEF LInv, IInv
<1>2. eval' = [eval EXCEPT ![only] = Idle]
    BY DEF Commit, Abort
<1>3. Idle.pc = "idle"
    BY DEF Idle
<1>4. eval'[only].pc = "idle"
    BY <1>1, <1>2, <1>3 DEF TypeOK
<1>5. OpenIsLoud'
    BY CommitIsLoud DEF Abort, LInv, OpenIsLoud
<1> QED
    BY <1>1, <1>4, <1>5, NotWriting

LEMMA HistoryLInv ==
    ASSUME LInv, IInv', UNCHANGED <<rows, eval>>
    PROVE  LInv'
BY DEF LInv, ReadIsCurrent, OpenIsLoud, OpenIds

LEMMA NextLInv ==
    ASSUME NEW only, Evaluators = {only}, LInv, [Next]_vars
    PROVE  LInv'
<1>1. IInv'
    BY NextIInv DEF LInv
<1>2. \/ UNCHANGED <<rows, eval>>
      \/ Compute(only) \/ ReadOpen(only) \/ Commit(only) \/ Abort(only)
    BY DEF Next, vars, Measure, NextDay
<1> QED
    BY <1>1, <1>2, HistoryLInv, ComputeLInv, ReadOpenLInv, EndLInv

LEMMA InitLInv == Init => LInv
<1> SUFFICES ASSUME Init PROVE LInv
    OBVIOUS
<1>1. Idle.pc = "idle"
    BY DEF Idle
<1>2. DOMAIN rows = {}
    BY DEF Init
<1> QED
    BY <1>1, <1>2, InitIInv DEF LInv, ReadIsCurrent, OpenIsLoud, Init

LEMMA SpecLInv ==
    ASSUME NEW only, Evaluators = {only}
    PROVE  Spec => []LInv
<1>1. LInv /\ [Next]_vars => LInv'
    BY NextLInv
<1> QED
    BY <1>1, InitLInv, PTL DEF Spec

-----------------------------------------------------------------------------
(* The refinement.                                                         *)

LEMMA CommitEvaluates ==
    ASSUME NEW only, Evaluators = {only}, LInv, Commit(only)
    PROVE  Abstract!Evaluate
<1>1. TypeOK /\ FinalIsResolved /\ IInv /\ IInv'
    BY CommitIInv DEF LInv, IInv
<1>2. eval[only].pc = "write" /\ ~ Refused(only)
    BY DEF Commit
<1>3. \A i \in DOMAIN rows : /\ i \in Ids
                             /\ RowReport(rows[i]) \in Abstract!Report \ {"absent"}
                             /\ RowReport(rows[i]) \in Abstract!Live <=> ~ rows[i].resolved
    BY <1>1, RowIds, Reports DEF FinalIsResolved
<1>4. \A i \in DOMAIN rows' : /\ i \in Ids
                              /\ RowReport(rows'[i]) \in Abstract!Report \ {"absent"}
                              /\ RowReport(rows'[i]) \in Abstract!Live <=> ~ rows'[i].resolved
    <2> TAKE i \in DOMAIN rows'
    <2>1. rows' \in Seq(Row) /\ DOMAIN rows' \subseteq Ids
        BY <1>1, CommitRows
    <2>2. rows'[i] \in Row
        BY <2>1, LenProperties, ElementOfSeq
    <2>3. rows'[i].detail.state \in {"suppressed", "resolved"} => rows'[i].resolved
        BY <1>1 DEF IInv, FinalIsResolved
    <2> QED
        BY <2>1, <2>2, <2>3, Reports
<1>5. \A i \in DOMAIN rows :
         /\ i \in DOMAIN rows' /\ rows'[i].key = rows[i].key
         /\ RowReport(rows'[i]) \in Abstract!Follows[RowReport(rows[i])]
    BY <1>1, <1>2, <1>3, CommitRows, UpdatedType, UpdatedReport
<1>6. \A i \in DOMAIN rows' \ DOMAIN rows :
         RowReport(rows'[i]) \in {"pending", "open"} /\ OpenIds(rows'[i].key) = {}
    BY <1>2, InsertedReport DEF Refused
<1>7. \A i \in Ids :
         /\ Reported[i] = IF i \in DOMAIN rows THEN RowReport(rows[i]) ELSE "absent"
         /\ Reported'[i] = IF i \in DOMAIN rows' THEN RowReport(rows'[i]) ELSE "absent"
         /\ i \in DOMAIN rows => KeyOf[i] = rows[i].key
         /\ i \in DOMAIN rows' => KeyOf'[i] = rows'[i].key
    BY ReportsOfRows DEF Reported, KeyOf
<1>8. Reported' = [i \in Ids |-> Reported'[i]]
    BY DEF Reported
<1>9. "absent" \in Abstract!Report /\ "absent" \notin Abstract!Live
    BY DEF Abstract!Report, Abstract!Live
<1> HIDE DEF Reported, KeyOf
<1>10. Reported' \in [Ids -> Abstract!Report]
    <2>1. \A i \in Ids : Reported'[i] \in Abstract!Report
        BY <1>4, <1>7, <1>9
    <2> QED
        BY <1>8, <2>1
<1>11. \A i \in Ids : Reported'[i] \in Abstract!Follows[Reported[i]]
    <2> TAKE i \in Ids
    <2>1. CASE i \in DOMAIN rows
        BY <1>5, <1>7, <2>1
    <2>2. CASE i \notin DOMAIN rows
        BY <1>6, <1>7, <2>2 DEF Abstract!Follows
    <2> QED
        BY <2>1, <2>2
<1>12. \A i \in Ids : Reported[i] # "absent" => KeyOf'[i] = KeyOf[i]
    BY <1>3, <1>5, <1>7
<1>13. \A j \in Ids : Reported[j] \in Abstract!Live => j \in OpenIds(KeyOf[j])
    BY <1>3, <1>7, <1>9 DEF OpenIds
<1>14. \A i \in Ids : Reported[i] = "absent" /\ Reported'[i] # "absent" =>
          ~ \E j \in Ids : Reported[j] \in Abstract!Live /\ KeyOf[j] = KeyOf'[i]
    <2> SUFFICES ASSUME NEW i \in Ids, Reported[i] = "absent", Reported'[i] # "absent",
                        NEW j \in Ids, Reported[j] \in Abstract!Live, KeyOf[j] = KeyOf'[i]
                 PROVE  FALSE
        OBVIOUS
    <2>1. i \in DOMAIN rows' \ DOMAIN rows
        BY <1>3, <1>7
    <2> QED
        BY <1>6, <1>7, <1>13, <2>1
<1>15. \A i, j \in Ids : i # j /\ Reported'[i] \in Abstract!Live /\ Reported'[j] \in Abstract!Live
                         => KeyOf'[i] # KeyOf'[j]
    BY <1>1, <1>4, <1>7, <1>9 DEF IInv, OneOpenPerKey
<1> QED
    BY <1>10, <1>11, <1>12, <1>14, <1>15, EvaluatedImplements DEF Evaluated

LEMMA OthersStutter == rows' = rows => UNCHANGED Abstract!lifecycle
BY DEF Abstract!lifecycle, ReportOf

\* evaluate_topology_incidents of propagation_topology_incidents.py, in one
\* process, implements the lifecycle that operators watch: no incident skips a
\* state, changes its server or its kind, comes back after its end, or shares its
\* key with another live one, whatever the history shows and however it changes.
THEOREM OneEvaluatorFollows ==
    ASSUME NEW only, Evaluators = {only}, Keys # {}
    PROVE  Spec => FollowsLifecycle
<1>1. Init => Abstract!Init
    BY DEF Init, Abstract!Init, ReportOf
<1>2. LInv /\ [Next]_vars => [Abstract!Evaluate]_(Abstract!lifecycle)
    <2> SUFFICES ASSUME LInv, [Next]_vars
                 PROVE  [Abstract!Evaluate]_(Abstract!lifecycle)
        OBVIOUS
    <2>1. rows' = rows \/ Commit(only)
        BY DEF Next, vars, Measure, NextDay, Compute, ReadOpen, Abort
    <2> QED
        BY <2>1, CommitEvaluates, OthersStutter
<1> QED
    BY <1>1, <1>2, SpecLInv, PTL DEF Spec, FollowsLifecycle, Abstract!Spec

-----------------------------------------------------------------------------
(* What the details of rows record.                                        *)

TwoMarkers(detail) == \E x, y \in detail.evidence : x.on # y.on

\* The streaks of a detail are those of the snapshots that it names.
Recorded(detail) ==
    /\ \E x \in detail.evidence : x.on = detail.signalMark
    /\ detail.signals >= WarningOpenStreak => TwoMarkers(detail)
    /\ detail.signalMark <= detail.evalMark
    /\ detail.state \in {"pending", "open"} => detail.quiet = 0
    /\ detail.state = "recovering" => detail.quiet = 1 /\ detail.evalMark > detail.signalMark

\* Days go on: what was evaluated is not newer than what is evaluated.
Marks ==
    /\ \A i \in DOMAIN rows : Recorded(rows[i].detail) /\ rows[i].detail.evalMark <= day
    /\ \A e \in Evaluators : eval[e].pc # "idle" =>
          /\ eval[e].mark <= day
          /\ \A i \in DOMAIN rows : rows[i].detail.evalMark <= eval[e].mark

MInv == LInv /\ Marks

LEMMA CountedFields ==
    ASSUME NEW detail \in Detail, NEW mark \in Days, NEW date \in Days, Recorded(detail)
    PROVE  LET counted == Counted(detail, mark, date)
           IN  /\ counted \in Detail /\ counted.state = detail.state
               /\ counted.signalMark = mark
               /\ \E x \in counted.evidence : x.on = mark
               /\ counted.signals >= WarningOpenStreak => TwoMarkers(counted)
<1> DEFINE entry == [on |-> mark, date |-> date]
           more == [detail EXCEPT !.signals = detail.signals + 1]
           marked == [more EXCEPT !.signalMark = mark]
           seen == [marked EXCEPT !.evidence = detail.evidence \cup {entry}]
<1>1. Counted(detail, mark, date) \in Detail /\ Counted(detail, mark, date).state = detail.state
    BY CountedType
<1>2. CASE detail.signalMark = mark
    BY <1>1, <1>2 DEF Counted, Recorded
<1>3. CASE detail.signalMark # mark
    <2>1. entry.on = mark
        OBVIOUS
    <2>2. PICK x \in detail.evidence : x.on = detail.signalMark
        BY DEF Recorded
    <2>3. seen = Counted(detail, mark, date)
        BY <1>3 DEF Counted, Detail
    <2>4. detail.signals + 1 \in Nat
        BY DEF Detail
    <2>5. more \in Detail
        BY <2>4, DetailFields
    <2> HIDE DEF more
    <2>6. marked \in Detail /\ marked.signalMark = mark
        BY <2>5 DEF Detail
    <2> HIDE DEF marked, entry
    <2>7. seen.signalMark = mark /\ seen.evidence = detail.evidence \cup {entry}
        BY <2>6 DEF Detail
    <2>8. TwoMarkers(seen)
        BY <1>3, <2>1, <2>2, <2>7 DEF TwoMarkers
    <2> HIDE DEF seen
    <2> QED
        BY <1>1, <2>1, <2>3, <2>7, <2>8
<1> QED
    BY <1>2, <1>3

LEMMA SignalledRecorded ==
    ASSUME NEW detail \in Detail, NEW severity \in Severity, NEW mark \in Days, NEW date \in Days,
           detail.state \in Live, Recorded(detail)
    PROVE  LET signalled == Signalled(detail, severity, mark, date)
           IN  /\ Recorded(signalled) /\ signalled.evalMark = mark /\ signalled.state \in Live
               /\ /\ detail.state = "pending" /\ signalled.state = "open"
                  /\ severity = "warning"
                  => TwoMarkers(signalled)
<1> DEFINE counted == Counted(detail, mark, date)
<1>1. /\ counted \in Detail /\ counted.state = detail.state /\ counted.signalMark = mark
      /\ \E x \in counted.evidence : x.on = mark
      /\ counted.signals >= WarningOpenStreak => TwoMarkers(counted)
    BY CountedFields
<1> HIDE DEF counted
<1> DEFINE ended == [counted EXCEPT !.quiet = 0]
           marked == [ended EXCEPT !.evalMark = mark]
           state == IF \/ counted.state \in {"open", "recovering"}
                       \/ counted.state = "pending" /\ ShouldOpen(severity, counted.signals)
                    THEN "open" ELSE counted.state
           final == [marked EXCEPT !.state = state]
<1>2. Signalled(detail, severity, mark, date) = final
    BY <1>1 DEF Signalled, QuietAfterSignal, counted, Detail
<1>3. /\ ended \in Detail /\ ended.quiet = 0 /\ ended.signalMark = mark
      /\ ended.evidence = counted.evidence /\ ended.signals = counted.signals
    BY <1>1 DEF Detail
<1> HIDE DEF ended
<1>4. /\ marked \in Detail /\ marked.quiet = 0 /\ marked.signalMark = mark
      /\ marked.evidence = counted.evidence /\ marked.signals = counted.signals
      /\ marked.evalMark = mark
    BY <1>3 DEF Detail
<1> HIDE DEF marked
<1>5. /\ state \in {"pending", "open"}
      /\ detail.state = "pending" /\ state = "open" /\ severity = "warning"
            => counted.signals >= WarningOpenStreak
    BY <1>1 DEF Live, ShouldOpen
<1> HIDE DEF state
<1>6. /\ final.quiet = 0 /\ final.signalMark = mark /\ final.evidence = counted.evidence
      /\ final.signals = counted.signals /\ final.evalMark = mark /\ final.state = state
    BY <1>4 DEF Detail
<1> HIDE DEF final
<1>7. TwoMarkers(counted) <=> TwoMarkers(final)
    BY <1>6 DEF TwoMarkers
<1> QED
    BY <1>1, <1>2, <1>5, <1>6, <1>7 DEF Recorded, Live

LEMMA SameEvidence ==
    ASSUME NEW detail, NEW other, Recorded(detail), other.evidence = detail.evidence,
           other.signals = detail.signals, other.signalMark = detail.signalMark
    PROVE  /\ \E x \in other.evidence : x.on = other.signalMark
           /\ other.signals >= WarningOpenStreak => TwoMarkers(other)
BY DEF Recorded, TwoMarkers

LEMMA QuietedRecorded ==
    ASSUME NEW detail \in Detail, NEW mark \in Days, detail.state \in Live, Recorded(detail),
           detail.evalMark # mark, detail.evalMark <= mark
    PROVE  LET quieted == Quieted(detail, mark)
           IN  /\ Recorded(quieted) /\ quieted.evalMark = mark
               /\ quieted.state \notin {"open", "pending"}
               /\ quieted.state = "resolved" => quieted.evalMark >= detail.signalMark + 2
<1> DEFINE marked == [detail EXCEPT !.evalMark = mark]
           longer == [marked EXCEPT !.quiet = detail.quiet + 1]
           state == IF detail.quiet + 1 >= RecoveryStreak THEN "resolved" ELSE "recovering"
           over == [marked EXCEPT !.state = "suppressed"]
           quieted == [longer EXCEPT !.state = state]
<1>1. Quieted(detail, mark) = IF detail.state = "pending" THEN over ELSE quieted
    BY DEF Quieted, Detail
<1>2. detail.quiet + 1 \in Nat
    BY DEF Detail
<1>3. /\ marked \in Detail /\ marked.evalMark = mark /\ marked.signalMark = detail.signalMark
      /\ marked.evidence = detail.evidence /\ marked.signals = detail.signals
    BY DEF Detail
<1> HIDE DEF marked
<1>4. /\ longer \in Detail /\ longer.evalMark = mark /\ longer.signalMark = detail.signalMark
      /\ longer.evidence = detail.evidence /\ longer.signals = detail.signals
      /\ longer.quiet = detail.quiet + 1
    BY <1>2, <1>3 DEF Detail
<1> HIDE DEF longer
<1>5. /\ over.evalMark = mark /\ over.signalMark = detail.signalMark
      /\ over.evidence = detail.evidence /\ over.signals = detail.signals
      /\ over.state = "suppressed"
    BY <1>3 DEF Detail
<1> HIDE DEF over
<1>6. detail.evalMark \in Int /\ detail.signalMark \in Int /\ detail.quiet \in Nat
    BY DEF Detail
<1>7. mark > detail.signalMark
    BY <1>6 DEF Recorded
<1>8. detail.state # "pending" =>
         \/ state = "recovering" /\ detail.quiet + 1 = 1
         \/ state = "resolved" /\ mark >= detail.signalMark + 2
    BY <1>6 DEF Recorded, Live, RecoveryStreak
<1> HIDE DEF state
<1>9. /\ quieted.evalMark = mark /\ quieted.signalMark = detail.signalMark
      /\ quieted.evidence = detail.evidence /\ quieted.signals = detail.signals
      /\ quieted.quiet = detail.quiet + 1 /\ quieted.state = state
    BY <1>4 DEF Detail
<1> HIDE DEF quieted
<1>10. CASE detail.state = "pending"
    <2>1. Quieted(detail, mark) = over
        BY <1>1, <1>10
    <2>2. over.signalMark <= over.evalMark
        BY <1>5, <1>6, <1>7
    <2>3. Recorded(over)
        BY <1>5, <2>2, SameEvidence DEF Recorded
    <2> QED
        BY <1>5, <2>1, <2>3
<1>11. CASE detail.state # "pending"
    <2>1. Quieted(detail, mark) = quieted
        BY <1>1, <1>11
    <2>2. quieted.signalMark <= quieted.evalMark /\ quieted.evalMark > quieted.signalMark
        BY <1>6, <1>7, <1>9
    <2>3. quieted.state \notin {"pending", "open"}
        BY <1>8, <1>9, <1>11
    <2>4. quieted.state = "recovering" => quieted.quiet = 1
        BY <1>8, <1>9, <1>11
    <2>5. quieted.state = "resolved" => quieted.evalMark >= detail.signalMark + 2
        BY <1>8, <1>9, <1>11
    <2>6. Recorded(quieted)
        BY <1>9, <2>2, <2>3, <2>4, SameEvidence DEF Recorded
    <2> QED
        BY <1>9, <2>1, <2>3, <2>5, <2>6
<1> QED
    BY <1>10, <1>11

\* What one transaction makes of a row.
LEMMA UpdatedRecorded ==
    ASSUME MInv, NEW e \in Evaluators, eval[e].pc = "write", NEW i \in DOMAIN rows
    PROVE  LET old == rows[i].detail
               new == Updated(e, i)
           IN  /\ Recorded(new.detail) /\ new.detail.evalMark <= eval[e].mark
               /\ old.state = "pending" /\ new.detail.state = "open" /\ new.severity = "warning"
                     => TwoMarkers(new.detail)
               /\ old.state # "resolved" /\ new.detail.state = "resolved"
                     => new.detail.evalMark >= old.signalMark + 2
<1> DEFINE old == rows[i].detail
           signal == eval[e].signals[rows[i].key]
           mark == eval[e].mark
           date == eval[e].date
           new == Updated(e, i)
<1>1. TypeOK /\ FinalIsResolved
    BY DEF MInv, LInv, IInv
<1>2. old \in Detail /\ mark \in Days /\ date \in Days
    BY <1>1, RowIds DEF Row, TypeOK, EvalState
<1>3. ~ rows[i].resolved => old.state \in Live
    BY <1>1, <1>2 DEF FinalIsResolved, Live, Detail
<1>4. Recorded(old) /\ old.evalMark <= mark
    BY DEF MInv, Marks
<1>5. mark <= mark
    BY <1>2
<1>6. \/ new = rows[i]
      \/ /\ ~ rows[i].resolved /\ signal \in Severity
         /\ new.detail = Signalled(old, signal, mark, date) /\ new.severity = signal
      \/ /\ ~ rows[i].resolved /\ old.evalMark # mark
         /\ new.detail = Quieted(old, mark)
    BY UpdatedCases DEF MInv
<1>7. CASE new = rows[i]
    BY <1>4, <1>7
<1>8. CASE /\ ~ rows[i].resolved /\ signal \in Severity
           /\ new.detail = Signalled(old, signal, mark, date) /\ new.severity = signal
    <2>1. /\ Recorded(new.detail) /\ new.detail.evalMark = mark /\ new.detail.state \in Live
          /\ old.state = "pending" /\ new.detail.state = "open" /\ signal = "warning"
               => TwoMarkers(new.detail)
        BY <1>2, <1>3, <1>4, <1>8, SignalledRecorded
    <2> QED
        BY <1>5, <1>8, <2>1 DEF Live
<1>9. CASE /\ ~ rows[i].resolved /\ old.evalMark # mark /\ new.detail = Quieted(old, mark)
    <2>1. /\ Recorded(new.detail) /\ new.detail.evalMark = mark
          /\ new.detail.state \notin {"open", "pending"}
          /\ new.detail.state = "resolved"
               => new.detail.evalMark >= old.signalMark + 2
        BY <1>2, <1>3, <1>4, <1>9, QuietedRecorded
    <2> QED
        BY <1>5, <2>1
<1> QED
    BY <1>6, <1>7, <1>8, <1>9

LEMMA OpenedRecorded ==
    ASSUME NEW k \in Keys, NEW severity \in Severity, NEW mark \in Days, NEW date \in Days
    PROVE  LET detail == Opened(k, severity, mark, date).detail
           IN  Recorded(detail) /\ detail.evalMark = mark
<1> DEFINE entry == [on |-> mark, date |-> date]
           detail == [state |-> IF severity = "critical" THEN "open" ELSE "pending",
                      signals |-> 1, quiet |-> 0, signalMark |-> mark, evalMark |-> mark,
                      evidence |-> {entry}]
<1>1. entry.on = mark
    OBVIOUS
<1>2. Opened(k, severity, mark, date).detail = detail
    BY DEF Opened
<1> HIDE DEF entry
<1>3. /\ detail.state \in {"open", "pending"} /\ detail.signals = 1 /\ detail.quiet = 0
      /\ detail.signalMark = mark /\ detail.evalMark = mark /\ detail.evidence = {entry}
    OBVIOUS
<1> HIDE DEF detail
<1>4. ~ (detail.signals >= WarningOpenStreak) /\ mark <= mark
    BY <1>3 DEF WarningOpenStreak
<1> QED
    BY <1>1, <1>2, <1>3, <1>4 DEF Recorded

-----------------------------------------------------------------------------
(* Steps.                                                                  *)

LEMMA CommitMarks ==
    ASSUME NEW only, Evaluators = {only}, MInv, Commit(only)
    PROVE  Marks'
<1>1. TypeOK /\ IInv /\ LInv
    BY DEF MInv, LInv, IInv
<1>2. eval[only].pc = "write" /\ eval' = [eval EXCEPT ![only] = Idle] /\ day' = day
    BY DEF Commit
<1>3. eval[only].mark \in Days /\ day \in Days /\ eval[only].mark <= day
    BY <1>1, <1>2 DEF TypeOK, EvalState, MInv, Marks
<1>4. eval'[only].pc = "idle"
    BY <1>1, <1>2 DEF TypeOK, Idle
<1>5. \A i \in DOMAIN rows : rows[i].detail.evalMark \in Days
    BY <1>1, RowIds DEF Row, Detail
<1>6. ASSUME NEW i \in DOMAIN rows
      PROVE  Recorded(rows'[i].detail) /\ rows'[i].detail.evalMark <= day
    <2>1. Recorded(rows'[i].detail) /\ rows'[i].detail.evalMark <= eval[only].mark
        BY <1>1, <1>2, CommitRows, UpdatedRecorded
    <2>2. rows'[i] \in Row
        BY <1>1, CommitRows, UpdatedType
    <2>3. rows'[i].detail.evalMark \in Days
        BY <2>2 DEF Row, Detail
    <2> QED
        BY <1>3, <2>1, <2>3
<1>7. ASSUME NEW i \in DOMAIN rows' \ DOMAIN rows
      PROVE  Recorded(rows'[i].detail) /\ rows'[i].detail.evalMark <= day
    <2>1. PICK k \in Inserted(only) :
             rows'[i] = Opened(k, eval[only].signals[k], eval[only].mark, eval[only].date)
        BY <1>1, CommitRows
    <2>2. k \in Keys /\ eval[only].signals[k] # "none"
        BY DEF Inserted
    <2>3. eval[only].signals[k] \in Severity /\ eval[only].date \in Days
        BY <1>1, <2>2 DEF TypeOK, EvalState
    <2> QED
        BY <1>3, <2>1, <2>2, <2>3, OpenedRecorded
<1> QED
    BY <1>2, <1>4, <1>6, <1>7 DEF Marks

\* Steps that leave rows and day as they are.
LEMMA EvaluatorMarks ==
    ASSUME NEW only, Evaluators = {only}, MInv, UNCHANGED <<day, rows>>,
           \/ eval'[only].pc = "idle" \/ eval'[only].mark = day
           \/ eval'[only].mark = eval[only].mark /\ eval[only].pc # "idle"
    PROVE  Marks'
<1>1. day \in Days
    BY DEF MInv, LInv, IInv, TypeOK
<1> QED
    BY <1>1 DEF MInv, Marks

LEMMA ComputeMarks ==
    ASSUME NEW only, Evaluators = {only}, MInv, Compute(only)
    PROVE  Marks'
<1> DEFINE quiet == [Idle EXCEPT !.pc = "read", !.mark = day]
           busy(d) == [Idle EXCEPT !.pc = "read", !.mark = day, !.date = d,
                                   !.signals = SignalsOf(d)]
<1>1. TypeOK
    BY DEF MInv, LInv, IInv
<1>2. quiet.mark = day
    BY IdleType DEF EvalState
<1>3. \A d : busy(d).mark = day
    BY IdleType DEF EvalState
<1> HIDE DEF quiet, busy
<1>4. \/ eval' = [eval EXCEPT ![only] = quiet]
      \/ \E d \in Days : eval' = [eval EXCEPT ![only] = busy(d)]
    BY DEF Compute, quiet, busy, Dated, Shown
<1>5. eval'[only].mark = day
    BY <1>1, <1>2, <1>3, <1>4 DEF TypeOK
<1>6. UNCHANGED <<day, rows>>
    BY DEF Compute
<1> QED
    BY <1>5, <1>6, EvaluatorMarks

LEMMA ReadOpenMarks ==
    ASSUME NEW only, Evaluators = {only}, MInv, ReadOpen(only)
    PROVE  Marks'
<1>1. TypeOK
    BY DEF MInv, LInv, IInv
<1>2. PICK read : eval' = [eval EXCEPT ![only].pc = "write", ![only].open = read]
    BY DEF ReadOpen
<1> DEFINE marked == [eval[only] EXCEPT !.pc = "write"]
           v == [marked EXCEPT !.open = read]
<1>3. eval' = [eval EXCEPT ![only] = v]
    BY <1>1, <1>2 DEF TypeOK
<1>4. marked \in EvalState /\ marked.mark = eval[only].mark
    BY <1>1 DEF TypeOK, EvalState
<1> HIDE DEF marked
<1>5. v.mark = eval[only].mark
    BY <1>4 DEF EvalState
<1> HIDE DEF v
<1>6. eval'[only].mark = eval[only].mark /\ eval[only].pc # "idle"
    BY <1>1, <1>3, <1>5 DEF TypeOK, ReadOpen
<1> QED
    BY <1>6, EvaluatorMarks DEF ReadOpen

LEMMA AbortMarks ==
    ASSUME NEW only, Evaluators = {only}, MInv, Abort(only)
    PROVE  Marks'
<1>1. eval'[only].pc = "idle"
    BY DEF Abort, Idle, MInv, LInv, IInv, TypeOK
<1> QED
    BY <1>1, EvaluatorMarks DEF Abort

LEMMA HistoryMarks ==
    ASSUME MInv, UNCHANGED <<rows, eval>>, day' \in Days, day <= day'
    PROVE  Marks'
<1>1. day \in Days /\ \A i \in DOMAIN rows : rows[i].detail.evalMark \in Days
    BY RowIds DEF MInv, LInv, IInv, TypeOK, Row, Detail
<1>2. \A e \in Evaluators : eval[e].mark \in Days
    BY DEF MInv, LInv, IInv, TypeOK, EvalState
<1> QED
    BY <1>1, <1>2 DEF MInv, Marks

LEMMA NextMInv ==
    ASSUME NEW only, Evaluators = {only}, MInv, [Next]_vars
    PROVE  MInv'
<1>1. LInv'
    BY NextLInv DEF MInv
<1>2. day \in Days /\ day' \in Days
    BY <1>1 DEF MInv, LInv, IInv, TypeOK
<1>3. \/ UNCHANGED <<rows, eval>> /\ (day' = day \/ day' = day + 1)
      \/ Compute(only) \/ ReadOpen(only) \/ Commit(only) \/ Abort(only)
    BY DEF Next, vars, Measure, NextDay
<1>4. UNCHANGED <<rows, eval>> /\ (day' = day \/ day' = day + 1) => Marks'
    BY <1>2, HistoryMarks
<1> QED
    BY <1>1, <1>3, <1>4, ComputeMarks, ReadOpenMarks, CommitMarks, AbortMarks DEF MInv

LEMMA SpecMInv ==
    ASSUME NEW only, Evaluators = {only}
    PROVE  Spec => []MInv
<1>1. Init => MInv
    <2> SUFFICES ASSUME Init PROVE MInv
        OBVIOUS
    <2>1. LInv
        BY InitLInv
    <2>2. DOMAIN rows = {} /\ \A e \in Evaluators : eval[e].pc = "idle"
        BY DEF Init, Idle
    <2> QED
        BY <2>1, <2>2 DEF MInv, Marks
<1>2. MInv /\ [Next]_vars => MInv'
    BY NextMInv
<1> QED
    BY <1>1, <1>2, PTL DEF Spec

\* Only a transaction changes rows.
LEMMA RowsChange ==
    ASSUME NEW only, Evaluators = {only}, MInv, [Next]_vars
    PROVE  \/ rows' = rows
           \/ /\ eval[only].pc = "write"
              /\ \A i \in DOMAIN rows : rows'[i] = Updated(only, i)
<1>1. rows' = rows \/ Commit(only)
    BY DEF Next, vars, Measure, NextDay, Compute, ReadOpen, Abort
<1>2. Commit(only) => eval[only].pc = "write" /\ \A i \in DOMAIN rows : rows'[i] = Updated(only, i)
    BY CommitRows DEF Commit, MInv, LInv
<1> QED
    BY <1>1, <1>2

\* In one process, recovery_streak of propagation_topology_incidents.py resolves an
\* incident only on the second snapshot after the last one that showed a signal.
THEOREM RecoveryTakesTwo ==
    ASSUME NEW only, Evaluators = {only}
    PROVE  Spec => RecoveryIsStable
<1> DEFINE Step == \A i \in DOMAIN rows :
                      /\ rows[i].detail.state # "resolved" /\ rows'[i].detail.state = "resolved"
                      => rows'[i].detail.evalMark >= rows[i].detail.signalMark + 2
<1>1. MInv /\ [Next]_vars => Step
    <2> SUFFICES ASSUME MInv, [Next]_vars PROVE Step
        OBVIOUS
    <2>1. CASE rows' = rows
        BY <2>1
    <2>2. CASE eval[only].pc = "write" /\ \A i \in DOMAIN rows : rows'[i] = Updated(only, i)
        BY <2>2, UpdatedRecorded
    <2> QED
        BY <2>1, <2>2, RowsChange
<1> QED
    BY <1>1, SpecMInv, PTL DEF Spec, RecoveryIsStable

\* In one process, a pending incident opens for a warning only after evaluations
\* with two newest snapshots, however often a snapshot is evaluated; the changes
\* that they show may be the same.
THEOREM WarningsTakeTwo ==
    ASSUME NEW only, Evaluators = {only}
    PROVE  Spec => WarningNeedsTwoMarkers
<1> DEFINE Step == \A i \in DOMAIN rows : WarningOpens(i)
                      => \E x, y \in rows'[i].detail.evidence : x.on # y.on
<1>1. MInv /\ [Next]_vars => Step
    <2> SUFFICES ASSUME MInv, [Next]_vars PROVE Step
        OBVIOUS
    <2>1. CASE rows' = rows
        BY <2>1 DEF WarningOpens
    <2>2. CASE eval[only].pc = "write" /\ \A i \in DOMAIN rows : rows'[i] = Updated(only, i)
        BY <2>2, UpdatedRecorded DEF TwoMarkers, WarningOpens
    <2> QED
        BY <2>1, <2>2, RowsChange
<1> QED
    BY <1>1, SpecMInv, PTL DEF Spec, WarningNeedsTwoMarkers
=============================================================================
