------------------------------ MODULE Retention ------------------------------
(***************************************************************************)
(* Long-term statistics in PostgreSQL: raw rows are aggregated into rollup *)
(* buckets, and the maintenance commands remove old raw rows once every    *)
(* server and day of theirs has its daily buckets.  Rollup jobs and        *)
(* maintenance commands are separate processes; a connection sees what the *)
(* others have committed at each of its statements.                        *)
(*                                                                         *)
(* A tick is the shortest time that a rebuild tells apart, an "hour".      *)
(* A bucket is the set of the rows it was computed from.                   *)
(*                                                                         *)
(* src/src/nntpintel/maintenance.py, maintenance_cli.py,                   *)
(* maintenance_status.py, partition_lifecycle.py, rollups.py,              *)
(* protocol_rollups.py, group_rollups.py, propagation_rollups.py.          *)
(***************************************************************************)
EXTENDS Integers, FiniteSets

CONSTANTS
    Tables,         \* the tables of the instance
    Servers,
    Resolutions,    \* the resolutions of the instance, "day" among them
    DayTicks,       \* ticks of a day
    MonthDays,      \* days of a month
    RawDays,        \* RetentionPolicy.raw_days
    SafetyLag,      \* RetentionPolicy.safety_lag_hours, in ticks
    BatchSize,      \* of `apply'
    MonthsAhead,    \* of `ensure-partitions'
    Maintainers,    \* processes that run maintenance commands
    Duties,         \* [Maintainers -> the commands it runs]
    RowsPerTick,    \* bound: rows of a table, server and tick
    LastTick,       \* bound: rows are recorded up to this tick
    MaxClock,       \* bound: ticks
    MaxCrashes      \* bound: commands killed

RawTables == {"observations", "group_snapshots", "group_events", "propagation_observations"}

\* What each family of rollups is computed from, and the families that must
\* have a bucket before a raw row may go.
Sources == [server |-> {"observations"},
            protocol |-> {"observations"},
            group |-> {"group_snapshots", "group_events"},
            propagation |-> {"propagation_observations", "propagation_incidents"}]
Families == {f \in DOMAIN Sources : Sources[f] \cap Tables # {}}

ASSUME ConstantsAssumption ==
    /\ Tables # {} /\ Tables \subseteq RawTables \cup {"propagation_incidents"}
    /\ "day" \in Resolutions /\ Resolutions \subseteq {"hour", "day", "month"}
    /\ DayTicks \in Nat \ {0} /\ MonthDays \in Nat \ {0}
    /\ RawDays \in Nat \ {0} /\ SafetyLag \in Nat \ {0}
    /\ BatchSize \in Nat \ {0} /\ MonthsAhead \in Nat
    /\ IsFiniteSet(Maintainers)
    /\ Duties \in [Maintainers -> SUBSET {"apply", "retire-partition", "retire-eligible",
                                          "ensure-partitions"}]
    /\ RowsPerTick \in Nat /\ LastTick \in Nat /\ MaxClock \in Nat /\ LastTick <= MaxClock
    /\ MaxCrashes \in Nat

\* How long the buckets of each resolution are.
Length == [hour |-> 1, day |-> DayTicks, month |-> MonthDays * DayTicks]

Months == 0 .. (MaxClock \div Length.month) + MonthsAhead
Row == [table : Tables, server : Servers, at : 0 .. LastTick, n : 1 .. RowsPerTick]
Bucket == [server : Servers, start : 0 .. LastTick, rows : SUBSET Row]
Partition == Tables \X Months

VARIABLES
    raw,            \* rows that are in the database
    recorded,       \* rows that ever were
    rollup,         \* [Families -> [Resolutions -> SUBSET Bucket]]
    attached,       \* SUBSET Partition: monthly partitions; other rows are in DEFAULT
    maint,          \* [Maintainers -> local state of a command]
    unfinished,     \* maintenance_runs with status 'running'
    wholeDays,      \* history: daily buckets were rebuilt for days that were over
    clock,
    crashes

vars == <<raw, recorded, rollup, attached, maint, unfinished, wholeDays, clock, crashes>>

Idle == [pc |-> "idle", now |-> 0, todo |-> {}, part |-> CHOOSE p \in Partition : TRUE]

Init ==
    /\ raw = {} /\ recorded = {}
    /\ rollup = [f \in Families |-> [r \in Resolutions |-> {}]]
    /\ attached = {}
    /\ maint = [m \in Maintainers |-> Idle]
    /\ unfinished = 0 /\ wholeDays = TRUE /\ clock = 0 /\ crashes = 0

-----------------------------------------------------------------------------
MonthOf(t) == t \div Length.month

\* _bucket_floor and _next_bucket
Floor(t, r) == (t \div Length[r]) * Length[r]
NextBucket(start, r) == start + Length[r]

\* plan_retention
Cutoff(m) == maint[m].now - RawDays * DayTicks
SafeCutoff(m) == Cutoff(m) - SafetyLag

\* The raw rows of a partition's range.
RowsOf(p) == {x \in raw : x.table = p[1] /\ MonthOf(x.at) = p[2]}

HasBucket(f, x) == \E b \in rollup[f]["day"] : b.server = x.server /\ b.start = Floor(x.at, "day")

\* _has_missing_*_rollups find nothing among the raw rows X.
CoverageComplete(X) ==
    \A x \in X, f \in Families : x.table \in Sources[f] => HasBucket(f, x)

\* Mutant: the start of the month instead of its end.  (An operator marked
\* "Mutant" is a fault that a run must notice when it takes the place of the
\* next one; no action uses it.)
StartOfMonth(p) == p[2] * Length.month

\* month_end
EndOfMonth(p) == (p[2] + 1) * Length.month

\* Mutant: a month is old when the cutoff is past it by a month.
OldEnoughByAMonth(m, p) == EndOfMonth(p) + Length.month <= SafeCutoff(m)

OldEnough(m, p) == EndOfMonth(p) <= SafeCutoff(m)

-----------------------------------------------------------------------------
\* The collectors record what they observe when they observe it.
Record(x) ==
    /\ x \notin recorded /\ x.at = clock
    /\ \A n \in 1 .. x.n - 1 : [x EXCEPT !.n = n] \in recorded
    /\ raw' = raw \cup {x}
    /\ recorded' = recorded \cup {x}
    /\ UNCHANGED <<rollup, attached, maint, unfinished, wholeDays, clock, crashes>>

\* The rows of a rebuild's window, and the buckets they make.
Scoped(f, from, to) == {x \in raw : x.table \in Sources[f] /\ from <= x.at /\ x.at < to}

BucketsOf(X, r) ==
    {[server |-> y.server, start |-> Floor(y.at, r),
      rows |-> {x \in X : x.server = y.server /\ Floor(x.at, r) = Floor(y.at, r)}] : y \in X}

\* Mutant: only the buckets that begin in the window.
BeginsInside(b, r, from, to) == from <= b.start /\ b.start < to

\* _bucket_delete_bounds: the buckets that a window touches.
Touched(b, r, from, to) ==
    Floor(from, r) <= b.start /\ b.start < NextBucket(Floor(to - 1, r), r)

\* A window of whole days that are over.
DaysOver(from, to) == Floor(from, "day") = from /\ Floor(to, "day") = to /\ to <= clock

\* rebuild_*_rollups: buckets that the window touches are deleted and made anew
\* from the rows in the window, in one transaction.  Any window is accepted,
\* also one of a few hours (tools/qualify_group_rollups.py:94).
Rebuild(f, r, from, to) ==
    /\ from < to
    /\ rollup' = [rollup EXCEPT ![f][r] =
           {b \in @ : ~ Touched(b, r, from, to)} \cup BucketsOf(Scoped(f, from, to), r)]
    /\ wholeDays' = (wholeDays /\ (r = "day" => DaysOver(from, to)))
    /\ UNCHANGED <<raw, recorded, attached, maint, unfinished, clock, crashes>>

-----------------------------------------------------------------------------
\* Mutant: the run is not recorded.
BeginUnrecorded(m, label, todo) ==
    /\ maint[m].pc = "idle"
    /\ maint' = [maint EXCEPT ![m] = [Idle EXCEPT !.pc = label, !.now = clock, !.todo = todo]]
    /\ UNCHANGED <<raw, recorded, rollup, attached, unfinished, wholeDays, clock, crashes>>

\* start_maintenance_run; `now' is read when the command starts.
Begin(m, label, todo) ==
    /\ maint[m].pc = "idle"
    /\ maint' = [maint EXCEPT ![m] = [Idle EXCEPT !.pc = label, !.now = clock, !.todo = todo]]
    /\ unfinished' = unfinished + 1
    /\ UNCHANGED <<raw, recorded, rollup, attached, wholeDays, clock, crashes>>

\* The command is over, as a success or blocked or failed.
End(m) == maint' = [maint EXCEPT ![m] = [Idle EXCEPT !.pc = "finish"]]

\* The next partition of the command, if any.
NextPartition(m, label, rest) ==
    IF rest = {} THEN End(m)
    ELSE maint' = [maint EXCEPT ![m].pc = label, ![m].todo = rest, ![m].part = Idle.part]

\* finish_maintenance_run: success, blocked or failed.
FinishRun(m) ==
    /\ maint[m].pc = "finish"
    /\ maint' = [maint EXCEPT ![m] = Idle]
    /\ unfinished' = unfinished - 1
    /\ UNCHANGED <<raw, recorded, rollup, attached, wholeDays, clock, crashes>>

\* The process is killed; the row of its run stays.
Crash(m) ==
    /\ crashes < MaxCrashes /\ maint[m].pc # "idle"
    /\ maint' = [maint EXCEPT ![m] = Idle]
    /\ crashes' = crashes + 1
    /\ UNCHANGED <<raw, recorded, rollup, attached, unfinished, wholeDays, clock>>

\* apply: prune_raw_batches checks the coverage of all that is old ...
Apply(m) == "apply" \in Duties[m] /\ Begin(m, "cover", {})

OldRaw(cutoff) == {x \in raw : x.table \in RawTables /\ x.at < cutoff}

CheckCoverage(m) ==
    /\ maint[m].pc = "cover"
    /\ \/ ~ CoverageComplete(OldRaw(SafeCutoff(m))) /\ End(m)
       \/ /\ CoverageComplete(OldRaw(SafeCutoff(m)))
          /\ maint' = [maint EXCEPT ![m].pc = "prune"]
    /\ UNCHANGED <<raw, recorded, rollup, attached, unfinished, wholeDays, clock, crashes>>

\* Mutant: without the safety lag, which the check has.
PruneUpToCutoff(m) == Cutoff(m)

PruneUpTo(m) == SafeCutoff(m)

\* The oldest BatchSize rows of X, or all.
IsOldest(D, X) ==
    /\ D \subseteq X
    /\ D = X \/ Cardinality(D) = BatchSize
    /\ Cardinality(D) <= BatchSize
    /\ \A x \in D, y \in X \ D : x.at <= y.at

\* ... and deletes a batch of each table, in one transaction.
Prune(m) ==
    LET old == OldRaw(PruneUpTo(m)) IN
    /\ maint[m].pc = "prune"
    /\ \E D \in SUBSET old :
          /\ \A t \in Tables : IsOldest({x \in D : x.table = t}, {x \in old : x.table = t})
          /\ raw' = raw \ D
    /\ End(m)
    /\ UNCHANGED <<recorded, rollup, attached, unfinished, wholeDays, clock, crashes>>

\* retire-partition: one partition, whatever its state ...
RetirePartition(m, p) == "retire-partition" \in Duties[m] /\ Begin(m, "retire", {p})

\* ... and retire-eligible: partitions that are old and covered, all or the
\* first ones.  (Any of them: the order of their names decides nothing here.)
RetireEligible(m) == "retire-eligible" \in Duties[m] /\ Begin(m, "list", {})

ListCandidates(m) ==
    LET candidates == {p \in attached : OldEnough(m, p) /\ CoverageComplete(RowsOf(p))} IN
    /\ maint[m].pc = "list"
    /\ \/ candidates = {} /\ End(m)
       \/ \E todo \in SUBSET candidates :
             /\ todo # {}
             /\ maint' = [maint EXCEPT ![m].pc = "retire", ![m].todo = todo]
    /\ UNCHANGED <<raw, recorded, rollup, attached, unfinished, wholeDays, clock, crashes>>

MayRetire(m, p) == OldEnough(m, p) /\ CoverageComplete(RowsOf(p)) /\ p \in attached

\* retire_monthly_partition: the checks, of which any ends the command ...
CheckPartition(m, p) ==
    /\ maint[m].pc = "retire" /\ p \in maint[m].todo
    /\ \/ MayRetire(m, p) /\ maint' = [maint EXCEPT ![m].pc = "drop", ![m].part = p]
       \/ ~ MayRetire(m, p) /\ End(m)
    /\ UNCHANGED <<raw, recorded, rollup, attached, unfinished, wholeDays, clock, crashes>>

\* A statement failed in the database: the transaction of the connection is
\* lost, and finish_maintenance_run with it.
Fail(m) ==
    /\ maint' = [maint EXCEPT ![m] = Idle]
    /\ UNCHANGED <<raw, attached>>

\* ... and DROP TABLE, committed for itself.  Another command may have been
\* faster.
DropPartition(m) ==
    LET p == maint[m].part IN
    /\ maint[m].pc = "drop"
    /\ \/ p \notin attached /\ Fail(m)
       \/ /\ p \in attached
          /\ attached' = attached \ {p}
          /\ raw' = raw \ RowsOf(p)
          /\ NextPartition(m, "retire", maint[m].todo \ {p})
    /\ UNCHANGED <<recorded, rollup, unfinished, wholeDays, clock, crashes>>

-----------------------------------------------------------------------------
\* ensure-partitions: this month and the next ones, for each raw table.
Window == {p \in Partition : /\ p[1] \in RawTables
                             /\ p[2] \in MonthOf(clock) .. MonthOf(clock) + MonthsAhead}

EnsurePartitions(m) == "ensure-partitions" \in Duties[m] /\ Begin(m, "ensure", Window)

\* ensure_monthly_partition: an existing one is left alone, rows in DEFAULT end
\* the command.  PostgreSQL refuses to attach a partition to whose range rows in
\* DEFAULT belong, so that the count and CREATE TABLE are one step.
EnsurePartition(m, p) ==
    /\ maint[m].pc = "ensure" /\ p \in maint[m].todo
    /\ \/ /\ p \notin attached /\ RowsOf(p) # {}
          /\ End(m)
          /\ UNCHANGED attached
       \/ /\ p \in attached \/ RowsOf(p) = {}
          /\ attached' = attached \cup {p}
          /\ NextPartition(m, "ensure", maint[m].todo \ {p})
    /\ UNCHANGED <<raw, recorded, rollup, unfinished, wholeDays, clock, crashes>>

Tick ==
    /\ clock < MaxClock
    /\ clock' = clock + 1
    /\ UNCHANGED <<raw, recorded, rollup, attached, maint, unfinished, wholeDays, crashes>>

-----------------------------------------------------------------------------
MaintStep(m) ==
    \/ CheckCoverage(m) \/ Prune(m) \/ ListCandidates(m) \/ DropPartition(m) \/ FinishRun(m)
    \/ \E p \in maint[m].todo : CheckPartition(m, p) \/ EnsurePartition(m, p)

Command(m) ==
    \/ Apply(m) \/ RetireEligible(m) \/ EnsurePartitions(m)
    \/ \E p \in Partition : p[1] \in RawTables /\ RetirePartition(m, p)

Next ==
    \/ \E x \in Row : Record(x)
    \/ \E f \in Families, r \in Resolutions, from, to \in 0 .. LastTick :
          Rebuild(f, r, from, to + 1)
    \/ \E m \in Maintainers : Command(m) \/ MaintStep(m) \/ Crash(m)
    \/ Tick

Spec == Init /\ [][Next]_vars

\* A command that has started goes on, and retire-eligible is run again and
\* again (docs/M8_4_RETENTION_MAINTENANCE.md:94).
FairSpec ==
    /\ Spec
    /\ \A m \in Maintainers : WF_vars(MaintStep(m)) /\ SF_vars(RetireEligible(m))

-----------------------------------------------------------------------------
MaintState == [pc : {"idle", "cover", "prune", "list", "retire", "drop", "ensure", "finish"},
               now : 0 .. MaxClock, todo : SUBSET Partition, part : Partition]

\* Types of rows, buckets and commands; rows in the database were recorded.
TypeOK ==
    /\ recorded \subseteq Row /\ raw \subseteq recorded
    /\ rollup \in [Families -> [Resolutions -> SUBSET Bucket]]
    /\ attached \subseteq Partition
    /\ maint \in [Maintainers -> MaintState]
    /\ unfinished \in Nat /\ wholeDays \in BOOLEAN
    /\ clock \in 0 .. MaxClock
    /\ crashes \in 0 .. MaxCrashes

\* Each family made of the table of a row has a daily bucket that counts it.
Counted(x) ==
    \A f \in Families : x.table \in Sources[f] => \E b \in rollup[f]["day"] : x \in b.rows

\* A raw row is counted in the daily buckets when it is removed, whatever
\* rebuild and whatever command came between the check and the removal, as long
\* as jobs rebuilt whole days that were over.  The check only asks for a bucket
\* of the server and day: after a rebuild of a part of a day, or before its end,
\* the bucket is there and rows go uncounted.
RemovedWasCounted ==
    [][wholeDays => \A x \in raw \ raw' : Counted(x)]_vars

\* Raw rows outlive the retention time and the safety lag, whole months and
\* stale readings of the clock included.
RecentIsKept ==
    \A x \in recorded \ raw : x.at < clock - RawDays * DayTicks - SafetyLag

\* A bucket is the only one of its server and time: rebuilding twice, or windows
\* that overlap, do not count a row twice.
OneBucketEach ==
    \A f \in Families, r \in Resolutions : \A b, c \in rollup[f][r] :
        b.server = c.server /\ b.start = c.start => b = c

\* An old partition whose days are covered is dropped in the end, unless a job
\* rebuilds a part of a day, which may undo the coverage.
CoveredIsRetired ==
    \A p \in Partition :
        (/\ p \in attached /\ EndOfMonth(p) <= clock - RawDays * DayTicks - SafetyLag
         /\ CoverageComplete(RowsOf(p)))
            ~> (p \notin attached \/ ~ wholeDays)
=============================================================================
