--------------------------- MODULE Retention_proofs ---------------------------
(***************************************************************************)
(* Proofs about Retention: types, recent rows are kept, a bucket is the    *)
(* only one of its server and time, and while jobs rebuild whole days what *)
(* is removed was counted.                                                 *)
(***************************************************************************)
EXTENDS Retention, FiniteSetTheorems, TLAPS

-----------------------------------------------------------------------------
\* The inductive invariant.

Busy == {m \in Maintainers : maint[m].pc # "idle"}

\* Every command that is under way has its row.
RowsOfRuns == Cardinality(Busy) <= unfinished

\* The reading of the clock that a command works with is not of the future.
Reading == \A m \in Maintainers : maint[m].now <= clock

\* A partition that is about to be dropped is old by that reading.
DropIsOld ==
    \A m \in Maintainers : maint[m].pc = "drop" => OldEnough(m, maint[m].part)

\* A row is covered when each family made from its table has its bucket.
CoveredRow(x) == \A f \in Families : x.table \in Sources[f] => HasBucket(f, x)

\* Between the check and the removal the rows stay covered, as long as jobs
\* rebuild whole days.
StillCovered ==
    wholeDays => \A m \in Maintainers, x \in raw :
        /\ maint[m].pc = "prune" /\ x \in OldRaw(SafeCutoff(m)) => CoveredRow(x)
        /\ maint[m].pc = "drop" /\ x \in RowsOf(maint[m].part) => CoveredRow(x)

\* ... and a daily bucket is of a day that is over, and counts every row of it.
DaysAreCounted ==
    wholeDays => \A f \in Families : \A b \in rollup[f]["day"] :
        /\ b.start + DayTicks <= clock
        /\ \A x \in raw : /\ x.table \in Sources[f] /\ x.server = b.server
                           /\ Floor(x.at, "day") = b.start
                           => x \in b.rows

IInv == TypeOK /\ RowsOfRuns /\ Reading /\ DropIsOld /\ RecentIsKept /\ OneBucketEach

-----------------------------------------------------------------------------
\* Time and buckets.

\* Division, as the floors of buckets and the months of rows use it.
LEMMA Division ==
    ASSUME NEW t \in Nat, NEW L \in Nat \ {0}
    PROVE  t \div L \in Nat /\ (t \div L) * L <= t /\ t < (t \div L + 1) * L
    BY SMT

LEMMA DivisionGrows ==
    ASSUME NEW s \in Nat, NEW t \in Nat, s <= t, NEW L \in Nat \ {0}
    PROVE  (s \div L) * L <= (t \div L) * L
<1>1. /\ s \div L \in Nat /\ t \div L \in Nat
      /\ (s \div L) * L <= s /\ t < (t \div L + 1) * L
    BY Division
<1>2. \A p, q \in Nat : p * L < (q + 1) * L => p * L <= q * L
  <2> SUFFICES ASSUME NEW p \in Nat, NEW q \in Nat, p * L < (q + 1) * L
               PROVE  p * L <= q * L
      OBVIOUS
  <2>1. p <= q
      BY SMT
  <2> QED
      BY <2>1, SMT
<1> QED
    BY <1>1, <1>2, SMT

LEMMA Lengths ==
    ASSUME NEW r \in Resolutions
    PROVE  Length[r] \in Nat \ {0}
    BY ConstantsAssumption, SMT DEF Length

LEMMA MonthLength == Length.month \in Nat \ {0}
    BY ConstantsAssumption, SMT DEF Length

LEMMA FloorBounds ==
    ASSUME NEW r \in Resolutions, NEW t \in 0 .. LastTick
    PROVE  Floor(t, r) \in 0 .. LastTick
<1>1. LastTick \in Nat /\ t \in Nat
    BY ConstantsAssumption
<1>2. /\ t \div Length[r] \in Nat /\ (t \div Length[r]) * Length[r] <= t
    BY <1>1, Lengths, Division
<1>3. (t \div Length[r]) * Length[r] \in Nat
    BY <1>2, Lengths, SMT
<1> QED
    BY <1>1, <1>2, <1>3 DEF Floor

LEMMA PartitionNonempty == Idle.part \in Partition
<1>1. MaxClock \div Length.month \in Nat
    BY MonthLength, Division, ConstantsAssumption
<1>2. 0 \in Months
    BY <1>1, ConstantsAssumption DEF Months
<1>3. PICK t \in Tables : TRUE
    BY ConstantsAssumption
<1>4. <<t, 0>> \in Partition
    BY <1>2, <1>3 DEF Partition
<1> QED
    BY <1>4 DEF Idle

-----------------------------------------------------------------------------
\* Types.

LEMMA IdleType == Idle \in MaintState /\ Idle.pc = "idle"
<1>1. 0 \in 0 .. MaxClock
    BY ConstantsAssumption
<1> QED
    BY <1>1, PartitionNonempty DEF Idle, MaintState

LEMMA BusyFinite ==
    /\ IsFiniteSet(Busy) /\ Cardinality(Busy) \in Nat
    /\ \A m \in Busy : /\ Cardinality(Busy \ {m}) = Cardinality(Busy) - 1
                       /\ Cardinality(Busy) >= 1
<1>1. IsFiniteSet(Busy)
    BY ConstantsAssumption, FS_Subset DEF Busy
<1>2. Cardinality(Busy) \in Nat
    BY <1>1, FS_CardinalityType
<1>3. ASSUME NEW m \in Busy
      PROVE  Cardinality(Busy \ {m}) = Cardinality(Busy) - 1 /\ Cardinality(Busy) >= 1
  <2>1. Cardinality(Busy \ {m}) = Cardinality(Busy) - 1
      BY <1>1, <1>3, FS_RemoveElement
  <2>2. Cardinality(Busy \ {m}) \in Nat
      BY <1>1, FS_Subset, FS_CardinalityType
  <2> QED
      BY <2>1, <2>2, <1>2
<1> QED
    BY <1>1, <1>2, <1>3

\* What a step does to the local state of one command.
LEMMA MaintType ==
    ASSUME TypeOK, NEW m \in Maintainers, NEW v \in MaintState,
           maint' = [maint EXCEPT ![m] = v]
    PROVE  maint' \in [Maintainers -> MaintState]
    BY DEF TypeOK

LEMMA EndType ==
    ASSUME TypeOK, NEW m \in Maintainers, End(m)
    PROVE  maint' \in [Maintainers -> MaintState]
<1>1. [Idle EXCEPT !.pc = "finish"] \in MaintState
    BY IdleType DEF MaintState
<1> QED
    BY <1>1, MaintType DEF End

LEMMA BeginType ==
    ASSUME TypeOK, NEW m \in Maintainers, NEW label, NEW todo \in SUBSET Partition,
           label \in {"cover", "retire", "list", "ensure"}, Begin(m, label, todo)
    PROVE  maint' \in [Maintainers -> MaintState]
<1> DEFINE v == [Idle EXCEPT !.pc = label, !.now = clock, !.todo = todo]
<1>1. v \in MaintState
    BY IdleType DEF MaintState, TypeOK
<1>2. maint' = [maint EXCEPT ![m] = v]
    BY DEF Begin
<1> QED
    BY <1>1, <1>2, MaintType

LEMMA NextPartitionType ==
    ASSUME TypeOK, NEW m \in Maintainers, NEW rest \in SUBSET Partition, NEW label,
           label \in {"retire", "ensure"}, NextPartition(m, label, rest)
    PROVE  maint' \in [Maintainers -> MaintState]
<1>1. CASE rest = {}
    BY <1>1, EndType DEF NextPartition
<1>2. CASE rest # {}
  <2> DEFINE v == [maint[m] EXCEPT !.pc = label, !.todo = rest, !.part = Idle.part]
  <2>1. v \in MaintState
      BY PartitionNonempty DEF MaintState, TypeOK
  <2>2. maint' = [maint EXCEPT ![m] = v]
      BY <1>2 DEF NextPartition, TypeOK
  <2> QED
      BY <2>1, <2>2, MaintType
<1> QED
    BY <1>1, <1>2

LEMMA BucketsType ==
    ASSUME TypeOK, NEW f \in Families, NEW r \in Resolutions, NEW from, NEW to
    PROVE  BucketsOf(Scoped(f, from, to), r) \subseteq Bucket
<1> DEFINE X == Scoped(f, from, to)
<1>1. X \subseteq Row
    BY DEF Scoped, TypeOK
<1> SUFFICES ASSUME NEW y \in X
             PROVE  [server |-> y.server, start |-> Floor(y.at, r),
                     rows |-> {x \in X : /\ x.server = y.server
                                         /\ Floor(x.at, r) = Floor(y.at, r)}] \in Bucket
    BY DEF BucketsOf
<1>2. y.server \in Servers /\ y.at \in 0 .. LastTick
    BY <1>1 DEF Row
<1>3. Floor(y.at, r) \in 0 .. LastTick
    BY <1>2, FloorBounds
<1> QED
    BY <1>1, <1>2, <1>3 DEF Bucket

LEMMA RebuildType ==
    ASSUME TypeOK, NEW f \in Families, NEW r \in Resolutions, NEW from, NEW to,
           Rebuild(f, r, from, to)
    PROVE  rollup' \in [Families -> [Resolutions -> SUBSET Bucket]]
<1> DEFINE v == {b \in rollup[f][r] : ~ Touched(b, r, from, to)}
                    \cup BucketsOf(Scoped(f, from, to), r)
<1>1. v \in SUBSET Bucket
    BY BucketsType DEF TypeOK
<1>2. rollup' = [rollup EXCEPT ![f][r] = v]
    BY DEF Rebuild
<1> HIDE DEF v
<1> QED
    BY <1>1, <1>2 DEF TypeOK

LEMMA TypeStep == TypeOK /\ RowsOfRuns /\ [Next]_vars => TypeOK'
<1> SUFFICES ASSUME TypeOK, RowsOfRuns, [Next]_vars PROVE TypeOK'
    OBVIOUS
<1>1. ASSUME NEW x \in Row, Record(x) PROVE TypeOK'
    BY <1>1 DEF Record, TypeOK
<1>2. ASSUME NEW f \in Families, NEW r \in Resolutions,
             NEW from \in 0 .. LastTick, NEW to \in 0 .. LastTick,
             Rebuild(f, r, from, to + 1)
      PROVE  TypeOK'
    BY <1>2, RebuildType DEF Rebuild, TypeOK
<1>3. ASSUME NEW m \in Maintainers, Command(m) PROVE TypeOK'
  <2>1. ASSUME NEW label, NEW todo \in SUBSET Partition,
               label \in {"cover", "retire", "list", "ensure"}, Begin(m, label, todo)
        PROVE  TypeOK'
    <3>1. maint' \in [Maintainers -> MaintState]
        BY <2>1, BeginType
    <3>2. unfinished' \in Nat
        BY <2>1 DEF Begin, TypeOK
    <3> QED
        BY <2>1, <3>1, <3>2 DEF Begin, TypeOK
  <2>2. Window \in SUBSET Partition
      BY DEF Window
  <2>3. CASE Apply(m)
      BY <2>1, <2>3 DEF Apply
  <2>4. CASE RetireEligible(m)
      BY <2>1, <2>4 DEF RetireEligible
  <2>5. CASE EnsurePartitions(m)
      BY <2>1, <2>2, <2>5 DEF EnsurePartitions
  <2>6. ASSUME NEW p \in Partition, RetirePartition(m, p)
        PROVE  TypeOK'
    <3>1. {p} \in SUBSET Partition
        OBVIOUS
    <3> QED
        BY <2>1, <2>6, <3>1 DEF RetirePartition
  <2> QED
      BY <1>3, <2>3, <2>4, <2>5, <2>6 DEF Command
<1>4. ASSUME NEW m \in Maintainers, CheckCoverage(m) PROVE TypeOK'
  <2>1. CASE End(m)
      BY <1>4, <2>1, EndType DEF CheckCoverage, TypeOK
  <2>2. CASE maint' = [maint EXCEPT ![m].pc = "prune"]
    <3>1. [maint[m] EXCEPT !.pc = "prune"] \in MaintState
        BY DEF MaintState, TypeOK
    <3>2. maint' = [maint EXCEPT ![m] = [maint[m] EXCEPT !.pc = "prune"]]
        BY <2>2 DEF TypeOK
    <3> QED
        BY <1>4, <3>1, <3>2, MaintType DEF CheckCoverage, TypeOK
  <2> QED
      BY <1>4, <2>1, <2>2 DEF CheckCoverage
<1>5. ASSUME NEW m \in Maintainers, Prune(m) PROVE TypeOK'
  <2>1. raw' \subseteq raw
      BY <1>5 DEF Prune
  <2> QED
      BY <1>5, <2>1, EndType DEF Prune, TypeOK
<1>6. ASSUME NEW m \in Maintainers, ListCandidates(m) PROVE TypeOK'
  <2>1. CASE End(m)
      BY <1>6, <2>1, EndType DEF ListCandidates, TypeOK
  <2>2. ASSUME NEW todo \in SUBSET attached,
               maint' = [maint EXCEPT ![m].pc = "retire", ![m].todo = todo]
        PROVE  TypeOK'
    <3> DEFINE v == [maint[m] EXCEPT !.pc = "retire", !.todo = todo]
    <3>1. v \in MaintState
        BY DEF MaintState, TypeOK
    <3>2. maint' = [maint EXCEPT ![m] = v]
        BY <2>2 DEF TypeOK
    <3> QED
        BY <1>6, <3>1, <3>2, MaintType DEF ListCandidates, TypeOK
  <2> QED
      BY <1>6, <2>1, <2>2 DEF ListCandidates
<1>7. ASSUME NEW m \in Maintainers, NEW p \in maint[m].todo, CheckPartition(m, p)
      PROVE  TypeOK'
  <2>1. CASE End(m)
      BY <1>7, <2>1, EndType DEF CheckPartition, TypeOK
  <2>2. CASE maint' = [maint EXCEPT ![m].pc = "drop", ![m].part = p]
    <3> DEFINE v == [maint[m] EXCEPT !.pc = "drop", !.part = p]
    <3>1. v \in MaintState
        BY <1>7 DEF MaintState, TypeOK
    <3>2. maint' = [maint EXCEPT ![m] = v]
        BY <2>2 DEF TypeOK
    <3> QED
        BY <1>7, <3>1, <3>2, MaintType DEF CheckPartition, TypeOK
  <2> QED
      BY <1>7, <2>1, <2>2 DEF CheckPartition
<1>8. ASSUME NEW m \in Maintainers, DropPartition(m) PROVE TypeOK'
  <2>1. CASE Fail(m)
      BY <1>8, <2>1, IdleType, MaintType DEF DropPartition, Fail, TypeOK
  <2>2. CASE ~ Fail(m)
    <3>1. maint[m].todo \ {maint[m].part} \in SUBSET Partition
        BY DEF TypeOK, MaintState
    <3>2. NextPartition(m, "retire", maint[m].todo \ {maint[m].part})
        BY <1>8, <2>2 DEF DropPartition
    <3>3. maint' \in [Maintainers -> MaintState]
        BY <3>1, <3>2, NextPartitionType
    <3>4. raw' \subseteq raw /\ attached' \subseteq attached
        BY <1>8, <2>2 DEF DropPartition
    <3> QED
        BY <1>8, <3>3, <3>4 DEF DropPartition, TypeOK
  <2> QED
      BY <2>1, <2>2
<1>9. ASSUME NEW m \in Maintainers, FinishRun(m) PROVE TypeOK'
  <2>1. unfinished - 1 \in Nat
    <3>1. m \in Busy
        BY <1>9 DEF FinishRun, Busy
    <3>2. Cardinality(Busy) \in Nat /\ Cardinality(Busy) >= 1
        BY <3>1, BusyFinite
    <3>3. unfinished \in Nat /\ Cardinality(Busy) <= unfinished
        BY DEF RowsOfRuns, TypeOK
    <3>4. \A a, b \in Nat : a >= 1 /\ a <= b => b - 1 \in Nat
        OBVIOUS
    <3> QED
        BY <3>2, <3>3, <3>4
  <2> QED
      BY <1>9, <2>1, IdleType, MaintType DEF FinishRun, TypeOK
<1>10. ASSUME NEW m \in Maintainers, NEW p \in maint[m].todo, EnsurePartition(m, p)
       PROVE  TypeOK'
  <2>1. p \in Partition /\ maint[m].todo \ {p} \in SUBSET Partition
      BY <1>10 DEF TypeOK, MaintState
  <2>2. attached' \subseteq Partition
      BY <1>10, <2>1 DEF EnsurePartition, TypeOK
  <2>3. maint' \in [Maintainers -> MaintState]
      BY <1>10, <2>1, EndType, NextPartitionType DEF EnsurePartition
  <2> QED
      BY <1>10, <2>2, <2>3 DEF EnsurePartition, TypeOK
<1>11. ASSUME NEW m \in Maintainers, Crash(m) PROVE TypeOK'
    BY <1>11, IdleType, MaintType, ConstantsAssumption DEF Crash, TypeOK
<1>12. CASE Tick
    BY <1>12, ConstantsAssumption DEF Tick, TypeOK
<1>13. CASE UNCHANGED vars
    BY <1>13 DEF vars, TypeOK
<1> QED
    BY <1>1, <1>2, <1>3, <1>4, <1>5, <1>6, <1>7, <1>8, <1>9, <1>10, <1>11, <1>12, <1>13
       DEF Next, MaintStep

-----------------------------------------------------------------------------
\* Commands: their rows, their readings of the clock, and what they drop.

\* What a step of a command changes in its local state.  Only the check of a
\* partition leads to the DROP, with the reading that the check used.
LEMMA LocalStep ==
    ASSUME TypeOK, NEW m \in Maintainers, Command(m) \/ MaintStep(m) \/ Crash(m)
    PROVE  /\ \A k \in Maintainers \ {m} : maint'[k] = maint[k]
           /\ maint'[m].now \in {0, clock, maint[m].now}
           /\ maint'[m].pc = "drop" =>
                  /\ maint'[m].now = maint[m].now
                  /\ OldEnough(m, maint'[m].part)
           /\ clock' = clock
<1> DEFINE Step == /\ \A k \in Maintainers \ {m} : maint'[k] = maint[k]
                   /\ maint'[m].now \in {0, clock, maint[m].now}
                   /\ maint'[m].pc = "drop" =>
                          /\ maint'[m].now = maint[m].now
                          /\ OldEnough(m, maint'[m].part)
                   /\ clock' = clock
<1>1. ASSUME End(m), clock' = clock PROVE Step
    BY <1>1 DEF End, Idle, TypeOK
<1>2. ASSUME NEW label, NEW todo, Begin(m, label, todo),
             label \in {"cover", "retire", "list", "ensure"}
      PROVE  Step
    BY <1>2 DEF Begin, Idle, TypeOK
<1>3. ASSUME NEW label, NEW rest, NextPartition(m, label, rest), clock' = clock,
             label \in {"retire", "ensure"}
      PROVE  Step
    BY <1>1, <1>3 DEF NextPartition, TypeOK, MaintState
<1>4. ASSUME maint' = [maint EXCEPT ![m] = Idle], clock' = clock PROVE Step
    BY <1>4 DEF Idle, TypeOK
<1>5. CASE Command(m)
    BY <1>5, <1>2 DEF Command, Apply, RetireEligible, EnsurePartitions, RetirePartition
<1>6. CASE CheckCoverage(m)
    BY <1>6, <1>1 DEF CheckCoverage, TypeOK, MaintState
<1>7. CASE Prune(m)
    BY <1>7, <1>1 DEF Prune
<1>8. CASE ListCandidates(m)
  <2>1. clock' = clock
      BY <1>8 DEF ListCandidates
  <2>2. ASSUME NEW todo, maint' = [maint EXCEPT ![m].pc = "retire", ![m].todo = todo]
        PROVE  Step
      BY <2>1, <2>2 DEF TypeOK, MaintState
  <2> QED
      BY <1>8, <1>1, <2>1, <2>2 DEF ListCandidates
<1>9. ASSUME NEW p \in maint[m].todo, CheckPartition(m, p) PROVE Step
  <2>1. clock' = clock
      BY <1>9 DEF CheckPartition
  <2>2. CASE /\ OldEnough(m, p)
             /\ maint' = [maint EXCEPT ![m].pc = "drop", ![m].part = p]
      BY <2>1, <2>2 DEF TypeOK, MaintState
  <2> QED
      BY <1>9, <1>1, <2>1, <2>2 DEF CheckPartition, MayRetire
<1>10. CASE DropPartition(m)
  <2>1. clock' = clock
      BY <1>10 DEF DropPartition
  <2>2. CASE Fail(m)
      BY <2>1, <2>2, <1>4 DEF Fail
  <2>3. CASE NextPartition(m, "retire", maint[m].todo \ {maint[m].part})
      BY <2>1, <2>3, <1>3
  <2> QED
      BY <1>10, <2>2, <2>3 DEF DropPartition
<1>11. CASE FinishRun(m)
    BY <1>11, <1>4 DEF FinishRun
<1>12. ASSUME NEW p \in maint[m].todo, EnsurePartition(m, p) PROVE Step
    BY <1>12, <1>1, <1>3 DEF EnsurePartition
<1>13. CASE Crash(m)
    BY <1>13, <1>4 DEF Crash
<1> QED
    BY <1>5, <1>6, <1>7, <1>8, <1>9, <1>10, <1>11, <1>12, <1>13 DEF MaintStep

\* The steps that no command takes.
LEMMA OtherSteps ==
    ASSUME TypeOK,
           \/ \E x \in Row : Record(x)
           \/ \E f \in Families, r \in Resolutions, from, to \in 0 .. LastTick :
                 Rebuild(f, r, from, to + 1)
           \/ Tick
           \/ UNCHANGED vars
    PROVE  /\ maint' = maint /\ unfinished' = unfinished
           /\ clock' \in Nat /\ clock' >= clock
    BY ConstantsAssumption DEF Record, Rebuild, Tick, vars, TypeOK

LEMMA FewerBusy ==
    ASSUME RowsOfRuns, TypeOK, Busy' \subseteq Busy, unfinished' = unfinished
    PROVE  RowsOfRuns'
<1>1. Cardinality(Busy') \in Nat /\ Cardinality(Busy') <= Cardinality(Busy)
    BY BusyFinite, FS_Subset, FS_CardinalityType
<1>2. Cardinality(Busy) \in Nat /\ unfinished \in Nat /\ Cardinality(Busy) <= unfinished
    BY BusyFinite DEF RowsOfRuns, TypeOK
<1>3. \A a, b, c \in Nat : a <= b /\ b <= c => a <= c
    OBVIOUS
<1>4. Cardinality(Busy') <= unfinished'
    BY <1>1, <1>2, <1>3
<1> QED
    BY <1>4 DEF RowsOfRuns

LEMMA RowsOfRunsStep == TypeOK /\ RowsOfRuns /\ [Next]_vars => RowsOfRuns'
<1> SUFFICES ASSUME TypeOK, RowsOfRuns, [Next]_vars PROVE RowsOfRuns'
    OBVIOUS
<1>1. ASSUME NEW m \in Maintainers, Command(m) PROVE RowsOfRuns'
  <2>1. /\ maint[m].pc = "idle" /\ unfinished' = unfinished + 1
        /\ \A k \in Maintainers \ {m} : maint'[k] = maint[k]
      BY <1>1, LocalStep
         DEF Command, Apply, RetireEligible, EnsurePartitions, RetirePartition, Begin
  <2>2. Busy' \subseteq Busy \cup {m} /\ m \notin Busy
      BY <2>1 DEF Busy
  <2>3. /\ IsFiniteSet(Busy \cup {m})
        /\ Cardinality(Busy \cup {m}) = Cardinality(Busy) + 1
      BY <2>2, BusyFinite, FS_AddElement
  <2>4. /\ Cardinality(Busy') <= Cardinality(Busy) + 1
        /\ Cardinality(Busy') \in Nat
      BY <2>2, <2>3, FS_Subset, FS_CardinalityType
  <2>5. Cardinality(Busy) \in Nat /\ unfinished \in Nat /\ Cardinality(Busy) <= unfinished
      BY BusyFinite DEF RowsOfRuns, TypeOK
  <2>6. \A a, b, c \in Nat : a <= b + 1 /\ b <= c => a <= c + 1
      OBVIOUS
  <2>7. Cardinality(Busy') <= unfinished'
      BY <2>1, <2>4, <2>5, <2>6
  <2> QED
      BY <2>7 DEF RowsOfRuns
<1>2. ASSUME NEW m \in Maintainers, FinishRun(m) PROVE RowsOfRuns'
  <2>1. m \in Busy /\ Busy' = Busy \ {m} /\ unfinished' = unfinished - 1
      BY <1>2, IdleType DEF FinishRun, Busy, TypeOK
  <2>2. /\ Cardinality(Busy') = Cardinality(Busy) - 1
        /\ Cardinality(Busy) \in Nat /\ unfinished \in Nat
        /\ Cardinality(Busy) <= unfinished
      BY <2>1, BusyFinite DEF RowsOfRuns, TypeOK
  <2>3. \A a, b \in Nat : a <= b => a - 1 <= b - 1
      OBVIOUS
  <2>4. Cardinality(Busy') <= unfinished'
      BY <2>1, <2>2, <2>3
  <2> QED
      BY <2>4 DEF RowsOfRuns
<1>3. ASSUME NEW m \in Maintainers, MaintStep(m) \/ Crash(m), ~ FinishRun(m)
      PROVE  RowsOfRuns'
  <2>1. maint[m].pc # "idle" /\ unfinished' = unfinished
      BY <1>3 DEF MaintStep, CheckCoverage, Prune, ListCandidates, DropPartition,
                  CheckPartition, EnsurePartition, Crash
  <2>2. \A k \in Maintainers \ {m} : maint'[k] = maint[k]
      BY <1>3, LocalStep
  <2>3. Busy' \subseteq Busy
      BY <2>1, <2>2 DEF Busy
  <2> QED
      BY <2>1, <2>3, FewerBusy
<1>4. CASE maint' = maint /\ unfinished' = unfinished
  <2>1. Busy' = Busy
      BY <1>4 DEF Busy
  <2> QED
      BY <1>4, <2>1, FewerBusy
<1> QED
    BY <1>1, <1>2, <1>3, <1>4, OtherSteps DEF Next

LEMMA ReadingStep ==
    TypeOK /\ Reading /\ DropIsOld /\ [Next]_vars => Reading' /\ DropIsOld'
<1> SUFFICES ASSUME TypeOK, Reading, DropIsOld, [Next]_vars
             PROVE  Reading' /\ DropIsOld'
    OBVIOUS
<1>1. /\ clock \in Nat
      /\ \A k \in Maintainers : maint[k].now \in Nat /\ maint[k].now <= clock
    BY ConstantsAssumption DEF TypeOK, MaintState, Reading
<1>2. ASSUME NEW m \in Maintainers, Command(m) \/ MaintStep(m) \/ Crash(m)
      PROVE  Reading' /\ DropIsOld'
  <2>1. /\ \A k \in Maintainers \ {m} : maint'[k] = maint[k]
        /\ maint'[m].now \in {0, clock, maint[m].now}
        /\ maint'[m].pc = "drop" =>
               maint'[m].now = maint[m].now /\ OldEnough(m, maint'[m].part)
        /\ clock' = clock
      BY <1>2, LocalStep
  <2>2. Reading'
      BY <1>1, <2>1 DEF Reading
  <2>3. ASSUME NEW k \in Maintainers, maint'[k].pc = "drop"
        PROVE  OldEnough(k, maint'[k].part) /\ maint'[k].now = maint[k].now
      BY <2>1, <2>3 DEF DropIsOld
  <2>4. DropIsOld'
      BY <2>3 DEF DropIsOld, OldEnough, SafeCutoff, Cutoff
  <2> QED
      BY <2>2, <2>4
<1>3. CASE maint' = maint /\ clock' \in Nat /\ clock' >= clock
  <2>1. Reading'
      BY <1>1, <1>3 DEF Reading
  <2>2. DropIsOld'
      BY <1>3 DEF DropIsOld, OldEnough, SafeCutoff, Cutoff
  <2> QED
      BY <2>1, <2>2
<1> QED
    BY <1>2, <1>3, OtherSteps DEF Next

-----------------------------------------------------------------------------
\* What is removed is old.

\* RawDays and the safety lag, in ticks.
Kept == RawDays * DayTicks + SafetyLag

LEMMA KeptType == Kept \in Nat /\ Kept > 0
<1>1. RawDays \in Nat /\ DayTicks \in Nat /\ SafetyLag \in Nat /\ SafetyLag > 0
    BY ConstantsAssumption
<1>2. RawDays * DayTicks \in Nat
    BY <1>1, SMT
<1> QED
    BY <1>1, <1>2 DEF Kept

\* The cutoff of a reading of the past is not later than that of now.
LEMMA CutoffIsPast ==
    ASSUME TypeOK, Reading, NEW m \in Maintainers
    PROVE  /\ SafeCutoff(m) \in Int /\ clock \in Nat
           /\ SafeCutoff(m) <= clock - Kept
<1>1. /\ maint[m].now \in Nat /\ maint[m].now <= clock /\ clock \in Nat
      /\ SafetyLag \in Nat
    BY ConstantsAssumption DEF TypeOK, MaintState, Reading
<1>2. ASSUME NEW d \in Nat, d = RawDays * DayTicks
      PROVE  /\ maint[m].now - d - SafetyLag \in Int
             /\ maint[m].now - d - SafetyLag <= clock - (d + SafetyLag)
    BY <1>1
<1>3. RawDays * DayTicks \in Nat
    BY ConstantsAssumption, SMT
<1> QED
    BY <1>1, <1>2, <1>3 DEF SafeCutoff, Cutoff, Kept

\* A row is earlier than the end of the month it belongs to.
LEMMA BeforeEndOfMonth ==
    ASSUME NEW t \in Nat, NEW p, p[2] = MonthOf(t)
    PROVE  t < EndOfMonth(p) /\ EndOfMonth(p) \in Nat
<1>1. t \div Length.month \in Nat /\ t < (t \div Length.month + 1) * Length.month
    BY MonthLength, Division
<1>2. \A a, b \in Nat : (a + 1) * b \in Nat
    BY SMT
<1> QED
    BY <1>1, <1>2, MonthLength DEF MonthOf, EndOfMonth

\* The rows of an old month, by any reading of the clock, are old.
LEMMA OldRows ==
    ASSUME TypeOK, Reading, NEW m \in Maintainers, NEW p, OldEnough(m, p),
           NEW t \in Nat, p[2] = MonthOf(t)
    PROVE  t < clock - Kept
<1>1. t < EndOfMonth(p) /\ EndOfMonth(p) \in Nat
    BY BeforeEndOfMonth
<1>2. EndOfMonth(p) <= SafeCutoff(m) /\ SafeCutoff(m) \in Int /\ SafeCutoff(m) <= clock - Kept
    BY CutoffIsPast DEF OldEnough
<1>3. clock \in Nat /\ Kept \in Nat
    BY CutoffIsPast, KeptType
<1> QED
    BY <1>1, <1>2, <1>3

\* The two ways in which a row goes.
LEMMA Removal ==
    ASSUME TypeOK, Reading, DropIsOld, [Next]_vars, NEW x \in raw, x \notin raw'
    PROVE  /\ \E m \in Maintainers :
                  \/ /\ maint[m].pc = "prune" /\ x \in OldRaw(SafeCutoff(m))
                  \/ /\ maint[m].pc = "drop" /\ x \in RowsOf(maint[m].part)
                     /\ OldEnough(m, maint[m].part)
           /\ UNCHANGED <<clock, recorded>>
<1>1. CASE raw' = raw
    BY <1>1
<1>2. ASSUME NEW y \in Row, Record(y) PROVE FALSE
    BY <1>2 DEF Record
<1>3. ASSUME NEW m \in Maintainers, Command(m) \/ MaintStep(m) \/ Crash(m)
      PROVE  \/ raw' = raw
             \/ Prune(m)
             \/ DropPartition(m)
    BY <1>3 DEF Command, Apply, RetireEligible, EnsurePartitions, RetirePartition, Begin,
                MaintStep, CheckCoverage, ListCandidates, FinishRun, CheckPartition,
                EnsurePartition, Crash
<1>4. ASSUME NEW m \in Maintainers, Prune(m)
      PROVE  /\ maint[m].pc = "prune" /\ x \in OldRaw(SafeCutoff(m))
             /\ UNCHANGED <<clock, recorded>>
    BY <1>4 DEF Prune, PruneUpTo
<1>5. ASSUME NEW m \in Maintainers, DropPartition(m)
      PROVE  /\ maint[m].pc = "drop" /\ x \in RowsOf(maint[m].part)
             /\ OldEnough(m, maint[m].part)
             /\ UNCHANGED <<clock, recorded>>
    BY <1>5 DEF DropPartition, Fail, DropIsOld
<1> QED
    BY <1>1, <1>2, <1>3, <1>4, <1>5 DEF Next, Rebuild, Tick, vars

LEMMA RemovedIsOld ==
    ASSUME TypeOK, Reading, DropIsOld, [Next]_vars, NEW x \in raw, x \notin raw'
    PROVE  x.at < clock - Kept /\ UNCHANGED <<clock, recorded>>
<1>1. PICK m \in Maintainers :
          \/ /\ maint[m].pc = "prune" /\ x \in OldRaw(SafeCutoff(m))
          \/ /\ maint[m].pc = "drop" /\ x \in RowsOf(maint[m].part)
             /\ OldEnough(m, maint[m].part)
    BY Removal
<1>2. x.at \in Nat
    BY ConstantsAssumption DEF TypeOK, Row
<1>3. CASE x \in OldRaw(SafeCutoff(m))
  <2>1. x.at < SafeCutoff(m)
      BY <1>3 DEF OldRaw
  <2>2. SafeCutoff(m) \in Int /\ SafeCutoff(m) <= clock - Kept /\ clock \in Nat
      BY CutoffIsPast
  <2> QED
      BY <1>2, <2>1, <2>2, KeptType, Removal
<1>4. CASE x \in RowsOf(maint[m].part) /\ OldEnough(m, maint[m].part)
  <2>1. maint[m].part[2] = MonthOf(x.at)
      BY <1>4 DEF RowsOf
  <2> QED
      BY <1>2, <1>4, <2>1, OldRows, Removal
<1> QED
    BY <1>1, <1>3, <1>4

LEMMA RecentIsKeptStep ==
    TypeOK /\ Reading /\ DropIsOld /\ RecentIsKept /\ [Next]_vars => RecentIsKept'
<1> SUFFICES ASSUME TypeOK, Reading, DropIsOld, RecentIsKept, [Next]_vars
             PROVE  RecentIsKept'
    OBVIOUS
<1>1. clock \in Nat /\ clock' \in Nat /\ clock' >= clock
  <2>1. clock \in Nat
      BY ConstantsAssumption DEF TypeOK
  <2>2. ASSUME NEW m \in Maintainers, Command(m) \/ MaintStep(m) \/ Crash(m)
        PROVE  clock' = clock
      BY <2>2, LocalStep
  <2> QED
      BY <2>1, <2>2, OtherSteps DEF Next
<1>2. ASSUME NEW t \in Nat, t < clock - Kept
      PROVE  t < clock' - RawDays * DayTicks - SafetyLag
  <2> DEFINE d == RawDays * DayTicks
  <2>1. d \in Nat /\ SafetyLag \in Nat
      BY ConstantsAssumption, SMT
  <2>2. \A a, l, c, e \in Nat : e >= c /\ t < c - (a + l) => t < e - a - l
      OBVIOUS
  <2>3. Kept = d + SafetyLag
      BY DEF Kept
  <2> HIDE DEF d
  <2>4. t < clock' - d - SafetyLag
      BY <1>1, <1>2, <2>1, <2>2, <2>3
  <2> QED
      BY <2>4 DEF d
<1>3. ASSUME NEW x \in recorded, x \notin raw
      PROVE  x.at \in Nat /\ x.at < clock - Kept
  <2>1. x.at \in Nat /\ x.at < clock - RawDays * DayTicks - SafetyLag
      BY <1>3, ConstantsAssumption DEF TypeOK, Row, RecentIsKept
  <2>2. RawDays * DayTicks \in Nat /\ SafetyLag \in Nat
      BY ConstantsAssumption, SMT
  <2>3. \A d, l \in Nat : x.at < clock - d - l => x.at < clock - (d + l)
      BY <1>1, <2>1
  <2> QED
      BY <2>1, <2>2, <2>3 DEF Kept
<1>4. ASSUME NEW x \in raw, x \notin raw'
      PROVE  x.at \in Nat /\ x.at < clock - Kept
    BY <1>4, RemovedIsOld, ConstantsAssumption DEF TypeOK, Row
<1>5. \A x \in recorded' \ raw' : x \in recorded
  <2>1. ASSUME NEW y \in Row, Record(y) PROVE recorded' \ raw' \subseteq recorded
      BY <2>1 DEF Record
  <2>2. recorded' = recorded \/ \E y \in Row : Record(y)
      BY DEF Next, Command, Apply, RetireEligible, EnsurePartitions, RetirePartition, Begin,
             MaintStep, CheckCoverage, Prune, ListCandidates, DropPartition, FinishRun,
             CheckPartition, EnsurePartition, Crash, Rebuild, Tick, vars
  <2> QED
      BY <2>1, <2>2
<1>6. \A x \in recorded' \ raw' : x.at < clock' - RawDays * DayTicks - SafetyLag
    BY <1>2, <1>3, <1>4, <1>5
<1> QED
    BY <1>6 DEF RecentIsKept

-----------------------------------------------------------------------------
\* A bucket is the only one of its server and time.

\* A bucket made from a row in the window is one that the window touches.
LEMMA MadeIsTouched ==
    ASSUME TypeOK, NEW f \in Families, NEW r \in Resolutions,
           NEW from \in 0 .. LastTick, NEW to \in 0 .. LastTick,
           NEW b \in BucketsOf(Scoped(f, from, to + 1), r)
    PROVE  Touched(b, r, from, to + 1)
<1>1. PICK y \in Scoped(f, from, to + 1) : b.start = Floor(y.at, r)
    BY DEF BucketsOf
<1>2. /\ from \in Nat /\ to \in Nat /\ y.at \in Nat
      /\ from <= y.at /\ y.at <= to
    BY <1>1, ConstantsAssumption DEF Scoped, TypeOK, Row
<1>3. /\ Floor(from, r) <= Floor(y.at, r)
      /\ Floor(y.at, r) <= Floor(to, r)
    BY <1>2, Lengths, DivisionGrows DEF Floor
<1>4. Floor(y.at, r) \in Int /\ Floor(to, r) \in Int
    BY <1>2, Lengths, ConstantsAssumption, FloorBounds DEF TypeOK, Row, Scoped
<1>5. Floor(y.at, r) < Floor(to, r) + Length[r]
    BY <1>3, <1>4, Lengths
<1>6. (to + 1) - 1 = to
    BY <1>2
<1> QED
    BY <1>1, <1>3, <1>5, <1>6 DEF Touched, NextBucket

LEMMA OneBucketEachStep ==
    TypeOK /\ OneBucketEach /\ [Next]_vars => OneBucketEach'
<1> SUFFICES ASSUME TypeOK, OneBucketEach, [Next]_vars PROVE OneBucketEach'
    OBVIOUS
<1>1. ASSUME NEW g \in Families, NEW q \in Resolutions,
             NEW from \in 0 .. LastTick, NEW to \in 0 .. LastTick,
             Rebuild(g, q, from, to + 1)
      PROVE  OneBucketEach'
  <2> DEFINE kept == {b \in rollup[g][q] : ~ Touched(b, q, from, to + 1)}
             made == BucketsOf(Scoped(g, from, to + 1), q)
  <2>1. /\ rollup'[g][q] = kept \cup made
        /\ \A f \in Families, r \in Resolutions :
              f # g \/ r # q => rollup'[f][r] = rollup[f][r]
      BY <1>1 DEF Rebuild, TypeOK
  <2>2. ASSUME NEW b \in kept, NEW c \in made, b.start = c.start PROVE FALSE
      BY <2>2, MadeIsTouched DEF Touched
  <2>3. ASSUME NEW b \in made, NEW c \in made, b.server = c.server, b.start = c.start
        PROVE  b = c
    <3> DEFINE X == Scoped(g, from, to + 1)
               Made(y) == [server |-> y.server, start |-> Floor(y.at, q),
                           rows |-> {x \in X : /\ x.server = y.server
                                               /\ Floor(x.at, q) = Floor(y.at, q)}]
    <3>1. PICK y \in X : b = Made(y)
        BY DEF BucketsOf
    <3>2. PICK z \in X : c = Made(z)
        BY DEF BucketsOf
    <3>3. y.server = z.server /\ Floor(y.at, q) = Floor(z.at, q)
        BY <2>3, <3>1, <3>2
    <3> QED
        BY <3>1, <3>2, <3>3
  <2>4. ASSUME NEW b \in kept, NEW c \in kept, b.server = c.server, b.start = c.start
        PROVE  b = c
      BY <2>4 DEF OneBucketEach
  <2> HIDE DEF kept, made
  <2>5. ASSUME NEW f \in Families, NEW r \in Resolutions,
               NEW b \in rollup'[f][r], NEW c \in rollup'[f][r],
               b.server = c.server, b.start = c.start
        PROVE  b = c
    <3>1. CASE f = g /\ r = q
        BY <3>1, <2>1, <2>2, <2>3, <2>4, <2>5
    <3>2. CASE f # g \/ r # q
        BY <3>2, <2>1, <2>5 DEF OneBucketEach
    <3> QED
        BY <3>1, <3>2
  <2> QED
      BY <2>5 DEF OneBucketEach
<1>2. CASE rollup' = rollup
    BY <1>2 DEF OneBucketEach
<1> QED
    BY <1>1, <1>2
       DEF Next, Command, Apply, RetireEligible, EnsurePartitions, RetirePartition, Begin,
           MaintStep, CheckCoverage, Prune, ListCandidates, DropPartition, FinishRun,
           CheckPartition, EnsurePartition, Crash, Record, Tick, vars

-----------------------------------------------------------------------------
\* The theorems.

LEMMA InitInvariant == Init => IInv
<1> SUFFICES ASSUME Init PROVE IInv
    OBVIOUS
<1>1. TypeOK
  <2>1. rollup \in [Families -> [Resolutions -> SUBSET Bucket]]
      BY DEF Init
  <2> QED
      BY <2>1, IdleType, ConstantsAssumption DEF Init, TypeOK
<1>2. RowsOfRuns
  <2>1. Busy = {}
      BY IdleType DEF Init, Busy
  <2> QED
      BY <2>1, FS_EmptySet DEF Init, RowsOfRuns
<1>3. Reading /\ DropIsOld
    BY ConstantsAssumption DEF Init, Reading, DropIsOld, Idle
<1>4. RecentIsKept /\ OneBucketEach
    BY DEF Init, RecentIsKept, OneBucketEach
<1> QED
    BY <1>1, <1>2, <1>3, <1>4 DEF IInv

LEMMA StepInvariant == IInv /\ [Next]_vars => IInv'
    BY TypeStep, RowsOfRunsStep, ReadingStep, RecentIsKeptStep, OneBucketEachStep DEF IInv

THEOREM Invariant == Spec => []IInv
    BY InitInvariant, StepInvariant, PTL DEF Spec

\* Rows, buckets, partitions and commands stay of their types; a row that is
\* read was recorded.  That the count of unfinished runs stays natural needs
\* that every command under way has its row in maintenance_runs.
THEOREM TypeCorrect == Spec => []TypeOK
    BY Invariant, PTL DEF IInv

\* Whatever runs at once and whenever it is killed, no row younger than the
\* retention time and the safety lag leaves the database.
THEOREM RecentRowsKept == Spec => []RecentIsKept
    BY Invariant, PTL DEF IInv

\* Rebuilds of any windows, in any order, leave at most one bucket of a family
\* and resolution for each server and time.
THEOREM BucketsUnique == Spec => []OneBucketEach
    BY Invariant, PTL DEF IInv

-----------------------------------------------------------------------------
\* Jobs that rebuild whole days: what is removed was counted.

\* The step to "prune" and to "drop", with what the checks found ...
LEMMA CheckedLocally ==
    ASSUME TypeOK, NEW m \in Maintainers, Command(m) \/ MaintStep(m) \/ Crash(m)
    PROVE  /\ maint'[m].pc = "prune" =>
                  /\ maint'[m].now = maint[m].now
                  /\ CoverageComplete(OldRaw(SafeCutoff(m)))
           /\ maint'[m].pc = "drop" => CoverageComplete(RowsOf(maint'[m].part))
<1> DEFINE Step == /\ maint'[m].pc = "prune" =>
                          /\ maint'[m].now = maint[m].now
                          /\ CoverageComplete(OldRaw(SafeCutoff(m)))
                   /\ maint'[m].pc = "drop" => CoverageComplete(RowsOf(maint'[m].part))
<1>2. ASSUME End(m) PROVE Step
    BY <1>2 DEF End, Idle, TypeOK
<1>3. ASSUME NEW label, NEW todo, Begin(m, label, todo),
             label \in {"cover", "retire", "list", "ensure"}
      PROVE  Step
    BY <1>3 DEF Begin, Idle, TypeOK
<1>4. ASSUME NEW label, NEW rest, NextPartition(m, label, rest), label \in {"retire", "ensure"}
      PROVE  Step
    BY <1>2, <1>4 DEF NextPartition, TypeOK, MaintState
<1>5. ASSUME maint' = [maint EXCEPT ![m] = Idle] PROVE Step
    BY <1>5 DEF Idle, TypeOK
<1>6. CASE Command(m)
    BY <1>6, <1>3 DEF Command, Apply, RetireEligible, EnsurePartitions, RetirePartition
<1>7. CASE CheckCoverage(m)
    BY <1>7, <1>2 DEF CheckCoverage, TypeOK, MaintState
<1>8. CASE Prune(m)
    BY <1>8, <1>2 DEF Prune
<1>9. CASE ListCandidates(m)
  <2>1. ASSUME NEW todo, maint' = [maint EXCEPT ![m].pc = "retire", ![m].todo = todo]
        PROVE  Step
      BY <2>1 DEF TypeOK, MaintState
  <2> QED
      BY <1>9, <1>2, <2>1 DEF ListCandidates
<1>10. ASSUME NEW p \in maint[m].todo, CheckPartition(m, p) PROVE Step
  <2>1. CASE /\ CoverageComplete(RowsOf(p))
             /\ maint' = [maint EXCEPT ![m].pc = "drop", ![m].part = p]
      BY <2>1 DEF TypeOK, MaintState
  <2> QED
      BY <1>10, <1>2, <2>1 DEF CheckPartition, MayRetire
<1>11. CASE DropPartition(m)
  <2>1. CASE Fail(m)
      BY <2>1, <1>5 DEF Fail
  <2>2. CASE NextPartition(m, "retire", maint[m].todo \ {maint[m].part})
      BY <2>2, <1>4
  <2> QED
      BY <1>11, <2>1, <2>2 DEF DropPartition
<1>12. CASE FinishRun(m)
    BY <1>12, <1>5 DEF FinishRun
<1>13. ASSUME NEW p \in maint[m].todo, EnsurePartition(m, p) PROVE Step
    BY <1>13, <1>2, <1>4 DEF EnsurePartition
<1>14. CASE Crash(m)
    BY <1>14, <1>5 DEF Crash
<1> QED
    BY <1>6, <1>7, <1>8, <1>9, <1>10, <1>11, <1>12, <1>13, <1>14 DEF MaintStep

\* ... and for any command, that of the step or another.
LEMMA CheckedStep ==
    ASSUME TypeOK, NEW m \in Maintainers, Command(m) \/ MaintStep(m) \/ Crash(m),
           NEW k \in Maintainers
    PROVE  /\ maint'[k].pc = "prune" =>
                  /\ maint'[k].now = maint[k].now
                  /\ maint[k].pc = "prune" \/ CoverageComplete(OldRaw(SafeCutoff(k)))
           /\ maint'[k].pc = "drop" =>
                  \/ maint'[k] = maint[k]
                  \/ CoverageComplete(RowsOf(maint'[k].part))
<1>1. CASE k = m
    BY <1>1, CheckedLocally
<1>2. CASE k # m
  <2>1. maint'[k] = maint[k]
      BY <1>2, LocalStep
  <2> QED
      BY <2>1
<1> QED
    BY <1>1, <1>2

\* The rows of a day that a window of whole days touches are in the window, and
\* the day is over.
LEMMA WholeDays ==
    ASSUME TypeOK, NEW from \in 0 .. LastTick, NEW to \in 0 .. LastTick,
           DaysOver(from, to + 1), NEW t \in 0 .. LastTick,
           from <= Floor(t, "day"), Floor(t, "day") < NextBucket(Floor(to, "day"), "day")
    PROVE  /\ from <= t /\ t < to + 1
           /\ Floor(t, "day") + DayTicks <= clock
<1> DEFINE D == DayTicks
           day == t \div D
           last == to \div D
           next == (to + 1) \div D
<1>1. /\ D \in Nat /\ D > 0 /\ Length["day"] = D
      /\ from \in Nat /\ to \in Nat /\ t \in Nat /\ to + 1 \in Nat /\ clock \in Nat
    BY ConstantsAssumption DEF Length, TypeOK
<1>2. /\ day \in Nat /\ day * D <= t /\ t < (day + 1) * D
      /\ last \in Nat /\ last * D <= to
      /\ next \in Nat
    BY <1>1, Division
<1>3. Floor(t, "day") = day * D /\ Floor(to, "day") = last * D
    BY <1>1 DEF Floor
<1>4. next * D = to + 1 /\ to + 1 <= clock
    BY <1>1 DEF DaysOver, Floor
<1>5. day * D < last * D + D
    BY <1>1, <1>3 DEF NextBucket
<1> HIDE DEF D, day, last, next
<1>6. \A p, q \in Nat : p * D < q * D => p + 1 <= q
    BY <1>1, SMT
<1>7. \A p, q \in Nat : p <= q => p * D <= q * D
    BY <1>1, SMT
<1>8. \A p \in Nat : (p + 1) * D = p * D + D /\ p + 1 \in Nat
    BY <1>1, SMT
<1>9. day + 1 <= last + 1
    BY <1>2, <1>5, <1>6, <1>8
<1>10. last + 1 <= next
  <2>1. last * D \in Nat /\ next * D \in Nat
      BY <1>1, <1>2, SMT
  <2>2. last * D < next * D
      BY <1>1, <1>2, <1>4, <2>1
  <2> QED
      BY <1>2, <1>6, <2>2
<1>11. (day + 1) * D <= next * D
  <2>1. day + 1 \in Nat /\ day + 1 <= next
      BY <1>2, <1>9, <1>10
  <2> QED
      BY <1>2, <1>7, <2>1
<1>12. (day + 1) * D <= to + 1 /\ (day + 1) * D = day * D + D /\ day * D \in Nat
    BY <1>1, <1>2, <1>4, <1>8, <1>11, SMT
<1>13. D = DayTicks
    BY DEF D
<1> QED
    BY <1>1, <1>2, <1>3, <1>4, <1>12, <1>13

\* Once a job rebuilt a part of a day, it stays so.
LEMMA WholeDaysStep ==
    ASSUME TypeOK, [Next]_vars, wholeDays'
    PROVE  wholeDays
    BY DEF Next, Command, Apply, RetireEligible, EnsurePartitions, RetirePartition, Begin,
           MaintStep, CheckCoverage, Prune, ListCandidates, DropPartition, FinishRun,
           CheckPartition, EnsurePartition, Crash, Record, Rebuild, Tick, vars

\* A rebuild of whole days makes the buckets anew of the rows it deletes them for.
LEMMA CoverStays ==
    ASSUME TypeOK, [Next]_vars, wholeDays', NEW x \in raw, CoveredRow(x)
    PROVE  CoveredRow(x)'
<1>1. x.at \in 0 .. LastTick /\ x.server \in Servers /\ "day" \in Resolutions
    BY ConstantsAssumption DEF TypeOK, Row
<1>2. ASSUME NEW g \in Families, NEW q \in Resolutions,
             NEW from \in 0 .. LastTick, NEW to \in 0 .. LastTick,
             Rebuild(g, q, from, to + 1),
             NEW f \in Families, x.table \in Sources[f]
      PROVE  HasBucket(f, x)'
  <2>1. PICK b \in rollup[f]["day"] : b.server = x.server /\ b.start = Floor(x.at, "day")
      BY <1>2 DEF CoveredRow, HasBucket
  <2>2. CASE b \in rollup'[f]["day"]
      BY <2>1, <2>2 DEF HasBucket
  <2>3. CASE b \notin rollup'[f]["day"]
    <3>1. f = g /\ q = "day" /\ Touched(b, "day", from, to + 1)
        BY <1>1, <1>2, <2>1, <2>3 DEF Rebuild, TypeOK
    <3>2. DaysOver(from, to + 1)
        BY <1>2, <3>1 DEF Rebuild
    <3>3. (to + 1) - 1 = to /\ Floor(from, "day") = from
        BY <3>2, ConstantsAssumption DEF DaysOver
    <3>4. from <= x.at /\ x.at < to + 1
        BY <1>1, <2>1, <3>1, <3>2, <3>3, WholeDays DEF Touched
    <3>5. x \in Scoped(f, from, to + 1)
        BY <1>2, <3>4 DEF Scoped
    <3>6. PICK c \in BucketsOf(Scoped(f, from, to + 1), "day") :
              c.server = x.server /\ c.start = Floor(x.at, "day")
      <4> DEFINE X == Scoped(f, from, to + 1)
                 c == [server |-> x.server, start |-> Floor(x.at, "day"),
                       rows |-> {y \in X : /\ y.server = x.server
                                           /\ Floor(y.at, "day") = Floor(x.at, "day")}]
      <4>1. c \in BucketsOf(X, "day")
          BY <3>5 DEF BucketsOf
      <4>2. c.server = x.server /\ c.start = Floor(x.at, "day")
          OBVIOUS
      <4> HIDE DEF c
      <4> QED
          BY <4>1, <4>2
    <3>7. c \in rollup'[f]["day"]
        BY <1>1, <1>2, <3>1, <3>6 DEF Rebuild, TypeOK
    <3> QED
        BY <3>6, <3>7 DEF HasBucket
  <2> QED
      BY <2>2, <2>3
<1>3. CASE rollup' = rollup
    BY <1>3 DEF CoveredRow, HasBucket
<1>4. ASSUME NEW g \in Families, NEW q \in Resolutions,
             NEW from \in 0 .. LastTick, NEW to \in 0 .. LastTick,
             Rebuild(g, q, from, to + 1)
      PROVE  CoveredRow(x)'
    BY <1>2, <1>4 DEF CoveredRow
<1> QED
    BY <1>3, <1>4
       DEF Next, Command, Apply, RetireEligible, EnsurePartitions, RetirePartition, Begin,
           MaintStep, CheckCoverage, Prune, ListCandidates, DropPartition, FinishRun,
           CheckPartition, EnsurePartition, Crash, Record, Tick, vars

\* What DaysAreCounted says of a bucket b of family f.
CountsItsDay(f, b) ==
    /\ b.start + DayTicks <= clock
    /\ \A x \in raw : /\ x.table \in Sources[f] /\ x.server = b.server
                      /\ Floor(x.at, "day") = b.start
                      => x \in b.rows

\* A bucket that a rebuild of whole days makes.
LEMMA MadeCounts ==
    ASSUME TypeOK, NEW f \in Families,
           NEW from \in 0 .. LastTick, NEW to \in 0 .. LastTick, DaysOver(from, to + 1),
           NEW b \in BucketsOf(Scoped(f, from, to + 1), "day")
    PROVE  CountsItsDay(f, b)
<1> DEFINE X == Scoped(f, from, to + 1)
<1>1. PICK y \in X : b = [server |-> y.server, start |-> Floor(y.at, "day"),
                          rows |-> {x \in X : /\ x.server = y.server
                                              /\ Floor(x.at, "day") = Floor(y.at, "day")}]
    BY DEF BucketsOf
<1>2. b.server = y.server /\ b.start = Floor(y.at, "day")
    BY <1>1
<1>3. \A x \in X : x.server = b.server /\ Floor(x.at, "day") = b.start => x \in b.rows
    BY <1>1
<1>4. y.at \in 0 .. LastTick /\ "day" \in Resolutions /\ (to + 1) - 1 = to
      /\ Floor(from, "day") = from
    BY ConstantsAssumption DEF Scoped, TypeOK, Row, DaysOver
<1>5. Touched(b, "day", from, to + 1)
    BY <1>4, MadeIsTouched
<1>6. from <= b.start /\ b.start < NextBucket(Floor(to, "day"), "day")
    BY <1>4, <1>5 DEF Touched
<1>7. b.start + DayTicks <= clock
    BY <1>2, <1>4, <1>6, WholeDays
<1>8. ASSUME NEW x \in raw, x.table \in Sources[f], Floor(x.at, "day") = b.start
      PROVE  x \in X
  <2>1. x.at \in 0 .. LastTick
      BY DEF TypeOK, Row
  <2>2. from <= x.at /\ x.at < to + 1
      BY <1>6, <1>8, <2>1, WholeDays
  <2> QED
      BY <1>8, <2>2 DEF Scoped
<1> HIDE DEF X
<1> QED
    BY <1>3, <1>7, <1>8 DEF CountsItsDay

LEMMA DaysAreCountedStep ==
    TypeOK /\ DaysAreCounted /\ [Next]_vars => DaysAreCounted'
<1> SUFFICES ASSUME TypeOK, DaysAreCounted, [Next]_vars, wholeDays',
                    NEW f \in Families, NEW b \in rollup'[f]["day"]
             PROVE  CountsItsDay(f, b)'
    BY DEF DaysAreCounted, CountsItsDay
<1>1. wholeDays /\ "day" \in Resolutions /\ clock \in Nat
    BY WholeDaysStep, ConstantsAssumption DEF TypeOK
<1>2. ASSUME b \in rollup[f]["day"] PROVE CountsItsDay(f, b)
    BY <1>1, <1>2 DEF DaysAreCounted, CountsItsDay
<1>3. b \in rollup[f]["day"] => b.start \in Nat
    BY <1>1, ConstantsAssumption DEF TypeOK, Bucket
<1>4. DayTicks \in Nat
    BY ConstantsAssumption
<1>5. ASSUME NEW x \in Row, Record(x) PROVE CountsItsDay(f, b)'
  <2>1. /\ b \in rollup[f]["day"] /\ x.at = clock /\ raw' = raw \cup {x}
        /\ clock' = clock
      BY <1>5 DEF Record
  <2>2. Floor(x.at, "day") # b.start
    <3>1. x.at \in Nat /\ Length["day"] = DayTicks /\ DayTicks \in Nat \ {0}
        BY ConstantsAssumption DEF Row, Length
    <3>2. x.at < (x.at \div DayTicks + 1) * DayTicks /\ x.at \div DayTicks \in Nat
        BY <3>1, Division
    <3>3. (x.at \div DayTicks + 1) * DayTicks = (x.at \div DayTicks) * DayTicks + DayTicks
        BY <3>1, <3>2, SMT
    <3>4. x.at < Floor(x.at, "day") + DayTicks
        BY <3>1, <3>2, <3>3 DEF Floor
    <3>5. b.start + DayTicks <= x.at
        BY <1>2, <2>1 DEF CountsItsDay
    <3> QED
        BY <1>3, <2>1, <3>1, <3>4, <3>5
  <2> QED
      BY <1>2, <2>1, <2>2 DEF CountsItsDay
<1>6. ASSUME NEW g \in Families, NEW q \in Resolutions,
             NEW from \in 0 .. LastTick, NEW to \in 0 .. LastTick,
             Rebuild(g, q, from, to + 1)
      PROVE  CountsItsDay(f, b)'
  <2>1. raw' = raw /\ clock' = clock
      BY <1>6 DEF Rebuild
  <2>2. CountsItsDay(f, b) => CountsItsDay(f, b)'
      BY <2>1 DEF CountsItsDay
  <2>3. CASE b \in rollup[f]["day"]
      BY <1>2, <2>2, <2>3
  <2>4. CASE b \notin rollup[f]["day"]
    <3>1. f = g /\ q = "day" /\ b \in BucketsOf(Scoped(f, from, to + 1), "day")
        BY <1>1, <1>6, <2>4 DEF Rebuild, TypeOK
    <3>2. DaysOver(from, to + 1)
        BY <1>6, <3>1 DEF Rebuild
    <3> QED
        BY <2>2, <3>1, <3>2, MadeCounts
  <2> QED
      BY <2>3, <2>4
<1>7. ASSUME raw' \subseteq raw, rollup' = rollup, clock' \in Nat, clock' >= clock
      PROVE  CountsItsDay(f, b)'
  <2>1. CountsItsDay(f, b) /\ b.start \in Nat
      BY <1>2, <1>3, <1>7
  <2>2. b.start + DayTicks <= clock'
      BY <1>1, <1>4, <1>7, <2>1 DEF CountsItsDay
  <2> QED
      BY <1>7, <2>1, <2>2 DEF CountsItsDay
<1>8. ASSUME NEW m \in Maintainers, Command(m) \/ MaintStep(m) \/ Crash(m)
      PROVE  CountsItsDay(f, b)'
  <2>1. raw' \subseteq raw /\ rollup' = rollup /\ clock' = clock
      BY <1>8 DEF Command, Apply, RetireEligible, EnsurePartitions, RetirePartition, Begin,
             MaintStep, CheckCoverage, Prune, ListCandidates, DropPartition, FinishRun,
             CheckPartition, EnsurePartition, Crash, Fail
  <2> QED
      BY <1>1, <1>7, <2>1
<1>9. CASE Tick
    BY <1>1, <1>7, <1>9 DEF Tick
<1>10. CASE UNCHANGED vars
    BY <1>1, <1>7, <1>10 DEF vars
<1> QED
    BY <1>5, <1>6, <1>8, <1>9, <1>10 DEF Next

\* A row that is recorded now is none of those that a command is about to remove.
LEMMA NewIsRecent ==
    ASSUME TypeOK, Reading, DropIsOld, NEW x \in Row, x.at = clock, NEW m \in Maintainers
    PROVE  /\ ~ x.at < SafeCutoff(m)
           /\ maint[m].pc = "drop" => MonthOf(x.at) # maint[m].part[2]
<1>1. SafeCutoff(m) \in Int /\ clock \in Nat /\ SafeCutoff(m) <= clock - Kept
    BY CutoffIsPast
<1>2. ~ x.at < SafeCutoff(m)
    BY <1>1, KeptType
<1>3. ASSUME maint[m].pc = "drop", maint[m].part[2] = MonthOf(x.at) PROVE FALSE
  <2>1. x.at < clock - Kept
      BY <1>1, <1>3, OldRows DEF DropIsOld
  <2> QED
      BY <1>1, <2>1, KeptType
<1> QED
    BY <1>2, <1>3

LEMMA StillCoveredStep == IInv /\ StillCovered /\ [Next]_vars => StillCovered'
<1> SUFFICES ASSUME IInv, StillCovered, [Next]_vars, wholeDays' PROVE StillCovered'
    BY DEF StillCovered
<1>1. TypeOK /\ Reading /\ DropIsOld /\ wholeDays
    BY WholeDaysStep DEF IInv
<1>2. ASSUME NEW m \in Maintainers, Command(m) \/ MaintStep(m) \/ Crash(m)
      PROVE  StillCovered'
  <2>1. raw' \subseteq raw
      BY <1>2 DEF Command, Apply, RetireEligible, EnsurePartitions, RetirePartition, Begin,
             MaintStep, CheckCoverage, Prune, ListCandidates, DropPartition, FinishRun,
             CheckPartition, EnsurePartition, Crash, Fail
  <2>2. ASSUME NEW k \in Maintainers, NEW x \in raw', maint'[k].pc = "prune",
               x \in OldRaw(SafeCutoff(k))'
        PROVE  CoveredRow(x)'
    <3>1. x \in raw /\ maint'[k].now = maint[k].now
        BY <1>1, <1>2, <2>1, <2>2, CheckedStep
    <3>2. x \in OldRaw(SafeCutoff(k))
        BY <2>2, <3>1 DEF OldRaw, SafeCutoff, Cutoff
    <3>3. maint[k].pc = "prune" \/ CoverageComplete(OldRaw(SafeCutoff(k)))
        BY <1>1, <1>2, <2>2, CheckedStep
    <3>4. CoveredRow(x)
        BY <1>1, <3>1, <3>2, <3>3 DEF StillCovered, CoveredRow, CoverageComplete
    <3> QED
        BY <1>1, <3>1, <3>4, CoverStays
  <2>3. ASSUME NEW k \in Maintainers, NEW x \in raw', maint'[k].pc = "drop",
               x.table = maint'[k].part[1], MonthOf(x.at) = maint'[k].part[2]
        PROVE  CoveredRow(x)'
    <3>1. x \in raw /\ x \in RowsOf(maint'[k].part)
        BY <2>1, <2>3 DEF RowsOf
    <3>2. maint'[k] = maint[k] \/ CoverageComplete(RowsOf(maint'[k].part))
        BY <1>1, <1>2, <2>3, CheckedStep
    <3>3. CoveredRow(x)
        BY <1>1, <2>3, <3>1, <3>2 DEF StillCovered, CoveredRow, CoverageComplete
    <3> QED
        BY <1>1, <3>1, <3>3, CoverStays
  <2> QED
      BY <2>2, <2>3 DEF StillCovered, RowsOf
<1>3. CASE raw' = raw /\ maint' = maint
  <2>1. ASSUME NEW k \in Maintainers, NEW x \in raw, CoveredRow(x) PROVE CoveredRow(x)'
      BY <1>1, <2>1, CoverStays
  <2> QED
      BY <1>1, <1>3, <2>1 DEF StillCovered, OldRaw, RowsOf, SafeCutoff, Cutoff
<1>4. ASSUME NEW y \in Row, Record(y) PROVE StillCovered'
  <2>1. maint' = maint /\ raw' = raw \cup {y} /\ y.at = clock
      BY <1>4 DEF Record
  <2>2. ASSUME NEW k \in Maintainers
        PROVE  /\ ~ y.at < SafeCutoff(k)
               /\ maint[k].pc = "drop" => MonthOf(y.at) # maint[k].part[2]
      BY <1>1, <2>1, NewIsRecent
  <2>3. ASSUME NEW x \in raw, CoveredRow(x) PROVE CoveredRow(x)'
      BY <1>1, <2>3, CoverStays
  <2> QED
      BY <1>1, <2>1, <2>2, <2>3 DEF StillCovered, OldRaw, RowsOf, SafeCutoff, Cutoff
<1>5. CASE UNCHANGED vars
    BY <1>3, <1>5 DEF vars
<1> QED
    BY <1>2, <1>3, <1>4, <1>5 DEF Next, Rebuild, Tick

LEMMA InitCovered == Init => StillCovered /\ DaysAreCounted
<1>1. Init => \A f \in Families : rollup[f]["day"] = {}
    BY ConstantsAssumption DEF Init
<1> QED
    BY <1>1 DEF Init, StillCovered, DaysAreCounted

\* While jobs rebuild whole days that are over, what a check found covered is
\* covered still when it is removed, and its buckets count it, whatever jobs and
\* other commands did in between.
THEOREM RemovedCounted == Spec => RemovedWasCounted
<1>1. IInv /\ StillCovered /\ DaysAreCounted /\ [Next]_vars =>
          [wholeDays => \A x \in raw \ raw' : Counted(x)]_vars
  <2> SUFFICES ASSUME IInv, StillCovered, DaysAreCounted, [Next]_vars, wholeDays,
                      NEW x \in raw, x \notin raw'
               PROVE  Counted(x)
      OBVIOUS
  <2>1. PICK m \in Maintainers :
            \/ maint[m].pc = "prune" /\ x \in OldRaw(SafeCutoff(m))
            \/ maint[m].pc = "drop" /\ x \in RowsOf(maint[m].part)
      BY Removal DEF IInv
  <2>2. CoveredRow(x)
      BY <2>1 DEF StillCovered
  <2> QED
      BY <2>2 DEF CoveredRow, HasBucket, Counted, DaysAreCounted
<1>2. IInv /\ StillCovered /\ [Next]_vars => StillCovered'
    BY StillCoveredStep
<1>3. IInv /\ DaysAreCounted /\ [Next]_vars => DaysAreCounted'
    BY DaysAreCountedStep DEF IInv
<1> QED
    BY <1>1, <1>2, <1>3, Invariant, InitCovered, PTL DEF Spec, RemovedWasCounted
=============================================================================
