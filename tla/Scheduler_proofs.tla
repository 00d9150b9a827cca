--------------------------- MODULE Scheduler_proofs ---------------------------
(***************************************************************************)
(* What Scheduler guarantees for every number of jobs, of every interval,  *)
(* batch and backoff.  That runs are closed is inductive once the run that *)
(* is under way is known to be counted (RunIsCounted), since the end of a  *)
(* cycle takes it out of the table again, and that a job is under way only *)
(* in a phase that has rows (StageHasRow).  That measurements keep their   *)
(* distance rests on AllRest: a job cannot be due before it has rested.    *)
(***************************************************************************)
EXTENDS Scheduler, FiniteSetTheorems, TLAPS

USE ConstantsAssumption DEF Kinds

\* Some rows with their places.
IsBatch(rows) == DOMAIN rows \subseteq Jobs /\ rows \in [DOMAIN rows -> Nat]

IsPass(p) == /\ IsBatch(p.rows)
             /\ p \in [phase : Phases, rows : {p.rows},
                       stage : {"none", "running", "done"}, failed : BOOLEAN]

RunIsCounted == pass.stage = "running" => running >= 1

StageHasRow ==
    /\ pass.stage # "none" => pass.phase \in Kinds /\ DOMAIN pass.rows # {}
    /\ pass.stage = "running" => pass.phase = "cycle"

IInv == TypeOK /\ RunIsCounted /\ StageHasRow /\ RunsAreClosed

-----------------------------------------------------------------------------
(* Operators.                                                              *)

LEMMA SmallerType ==
    /\ \A x, y \in Int : Smaller(x, y) \in Int /\ Smaller(x, y) <= x /\ Smaller(x, y) <= y
    /\ \A x, y \in Nat : Smaller(x, y) \in Nat
BY DEF Smaller

\* A delay is an interval, or a backoff within its limit.
LEMMA DelayType ==
    ASSUME NEW j \in Jobs, NEW n \in 0 .. MaxFailures
    PROVE  /\ Delay(j, n) \in Nat
           /\ Delay(j, n) <= Interval[j] \/ Delay(j, n) <= MaxBackoff
<1>1. CASE n = 0
    BY <1>1 DEF Delay
<1>2. CASE n # 0
    <2>1. Smaller(n, 8) \in 1 .. 8
        BY <1>2 DEF Smaller
    <2>2. Factor[Smaller(n, 8)] \in Nat
        BY <2>1 DEF Factor
    <2>3. \A a, b \in Nat : a * b \in Nat
        OBVIOUS
    <2>4. Interval[j] * Factor[Smaller(n, 8)] \in Nat
        BY <2>2, <2>3
    <2> HIDE DEF Kinds
    <2>5. Delay(j, n) = Smaller(Interval[j] * Factor[Smaller(n, 8)], MaxBackoff)
        BY <1>2 DEF Delay
    <2>6. PICK backoff \in Nat : backoff = Interval[j] * Factor[Smaller(n, 8)]
        BY <2>4
    <2>7. Delay(j, n) = Smaller(backoff, MaxBackoff)
        BY <2>5, <2>6
    <2> QED
        BY <2>7, SmallerType
<1> QED
    BY <1>1, <1>2

\* TypeOK says the same of the pass.
LEMMA PassType == TypeOK => IsPass(pass)
BY DEF TypeOK, IsPass, IsBatch

LEMMA OutsideType ==
    ASSUME NEW phase \in Phases
    PROVE  IsPass(Outside(phase)) /\ Outside(phase).stage = "none"
BY DEF Outside, IsPass, IsBatch

LEMMA DueRowsType ==
    ASSUME NEW kind \in Kinds
    PROVE  /\ IsBatch(DueRows(kind))
           /\ \A j \in DOMAIN DueRows(kind) : j \in JobsOf(kind) /\ late[j] >= 0
<1> DEFINE due == {j \in JobsOf(kind) : Due(j)}
           place == [j \in due |-> Cardinality({i \in due : Before(i, j)})]
           batch == {j \in due : place[j] < Batch[kind]}
<1>1. due \subseteq Jobs /\ IsFiniteSet(due)
    <2>1. due \subseteq Jobs
        BY DEF JobsOf, Jobs, Measured
    <2> QED
        BY <2>1, FS_Subset
<1>2. \A j \in due : place[j] \in Nat
    <2> SUFFICES ASSUME NEW j \in due PROVE place[j] \in Nat
        OBVIOUS
    <2>1. IsFiniteSet({i \in due : Before(i, j)})
        BY <1>1, FS_Subset
    <2> QED
        BY <2>1, FS_CardinalityType
<1>3. DueRows(kind) = [j \in batch |-> place[j]]
    BY DEF DueRows
<1>4. \A j \in due : j \in JobsOf(kind) /\ late[j] >= 0
    BY DEF Due
<1> HIDE DEF due, place
<1> QED
    BY <1>1, <1>2, <1>3, <1>4 DEF IsBatch

LEMMA EnterType ==
    ASSUME NEW phase \in Phases
    PROVE  IsPass(Enter(phase)) /\ Enter(phase).stage = "none"
<1>1. CASE phase \in Kinds
    <2>1. Enter(phase) = [phase |-> phase, rows |-> DueRows(phase), stage |-> "none", failed |-> FALSE]
        BY <1>1 DEF Enter
    <2>2. IsBatch(DueRows(phase))
        BY <1>1, DueRowsType
    <2> QED
        BY <2>1, <2>2 DEF IsPass
<1>2. CASE phase \notin Kinds
    BY <1>2, OutsideType DEF Enter
<1> QED
    BY <1>1, <1>2

-----------------------------------------------------------------------------
(* Steps.                                                                  *)

LEMMA InitIInv == Init => IInv
<1> SUFFICES ASSUME Init PROVE IInv
    OBVIOUS
<1>1. IsPass(pass) /\ pass.stage = "none"
    BY OutsideType DEF Init, Phases
<1>2. TypeOK
    BY <1>1 DEF Init, TypeOK, IsPass, IsBatch, Measured, Jobs
<1>3. RunIsCounted /\ StageHasRow
    BY <1>1 DEF RunIsCounted, StageHasRow
<1>4. RunsAreClosed
    BY <1>1 DEF Init, RunsAreClosed
<1> QED
    BY <1>2, <1>3, <1>4 DEF IInv

\* Jobs are not written, and the pass is at a row or between rows.
LEMMA PassIInv ==
    ASSUME IInv, IsPass(pass)',
           UNCHANGED <<late, failures, on, since, crashes>>,
           ticks' \in 0 .. PassTicks, running' \in Nat,
           pass'.stage = "running" => running' >= 1,
           running' <= crashes + (IF pass'.stage = "running" THEN 1 ELSE 0),
           pass'.stage # "none" => pass'.phase \in Kinds /\ DOMAIN pass'.rows # {},
           pass'.stage = "running" => pass'.phase = "cycle"
    PROVE  IInv'
<1>1. TypeOK'
    BY DEF IInv, TypeOK, IsPass, IsBatch
<1>2. RunsAreClosed' /\ RunIsCounted' /\ StageHasRow'
    BY DEF RunsAreClosed, RunIsCounted, StageHasRow
<1> QED
    BY <1>1, <1>2 DEF IInv

LEMMA StepIInv == IInv /\ Step => IInv'
<1> SUFFICES ASSUME IInv, Step PROVE IInv'
    OBVIOUS
<1>1. TypeOK /\ IsPass(pass) /\ running \in Nat /\ crashes \in Nat /\ ticks \in 0 .. PassTicks
    BY DEF IInv, TypeOK, IsPass, IsBatch
<1>2. RunsAreClosed /\ RunIsCounted /\ StageHasRow
    BY DEF IInv
<1>3. CASE StartPass
    <2>1. pass.stage = "none"
        BY <1>1, <1>2, <1>3 DEF StartPass, StageHasRow, IsPass, IsBatch
    <2>2. IsPass(pass)' /\ pass'.stage = "none"
        BY <1>3, EnterType DEF StartPass, Phases
    <2>3. 0 \in 0 .. PassTicks
        OBVIOUS
    <2> QED
        BY <1>1, <1>2, <1>3, <2>1, <2>2, <2>3, PassIInv DEF StartPass, RunsAreClosed
<1>4. CASE Proceed
    <2>1. pass.stage = "none"
        BY <1>1, <1>2, <1>4 DEF Proceed, StageHasRow, IsPass, IsBatch
    <2>2. Following[pass.phase] \in Phases
        BY <1>4 DEF Proceed, Following, Phases
    <2>3. IsPass(pass)' /\ pass'.stage = "none"
        BY <1>4, <2>2, EnterType DEF Proceed
    <2> QED
        BY <1>1, <1>2, <1>4, <2>1, <2>3, PassIInv DEF Proceed, RunsAreClosed
<1>5. CASE RunCampaigns \/ Restart
    <2>1. pass.stage = "none"
        BY <1>1, <1>2, <1>5 DEF RunCampaigns, Restart, StageHasRow, IsPass, IsBatch
    <2>2. IsPass(pass)' /\ pass'.stage = "none"
        BY <1>5, OutsideType DEF RunCampaigns, Restart, Phases
    <2> QED
        BY <1>1, <1>2, <1>5, <2>1, <2>2, PassIInv DEF RunCampaigns, Restart, RunsAreClosed
<1>6. ASSUME NEW j \in Jobs, BeginCycle(j) PROVE IInv'
    <2>1. pass' = [pass EXCEPT !.stage = "running"] /\ DOMAIN pass.rows # {} /\ pass.phase = "cycle"
          /\ pass.stage = "none"
        BY <1>6 DEF BeginCycle, IsNext
    <2>2. IsPass(pass)' /\ pass'.stage = "running" /\ DOMAIN pass'.rows # {} /\ pass'.phase = "cycle"
        BY <1>1, <2>1 DEF IsPass, IsBatch
    <2> QED
        BY <1>1, <1>2, <1>6, <2>1, <2>2, PassIInv DEF BeginCycle, RunsAreClosed
<1>7. ASSUME NEW j \in Jobs, EndCycle(j) PROVE IInv'
    <2>1. PICK failed \in BOOLEAN : /\ pass' = [pass EXCEPT !.stage = "done", !.failed = failed]
                                    /\ running' = running - 1
        BY <1>7 DEF EndCycle, Closes
    <2>2. DOMAIN pass.rows # {} /\ pass.phase = "cycle" /\ pass.stage = "running"
        BY <1>7 DEF EndCycle, IsNext
    <2>3. IsPass(pass)' /\ pass'.stage = "done" /\ DOMAIN pass'.rows # {} /\ pass'.phase = "cycle"
        BY <1>1, <2>1, <2>2 DEF IsPass, IsBatch
    <2> QED
        BY <1>1, <1>2, <1>7, <2>1, <2>2, <2>3, PassIInv DEF EndCycle, RunsAreClosed, RunIsCounted
<1>10. ASSUME NEW j \in Jobs, Measure(j), pass' = Outside("down"), UNCHANGED since PROVE IInv'
    <2>1. pass.stage = "none" /\ IsPass(pass)' /\ pass'.stage = "none"
        BY <1>10, OutsideType DEF Measure, Phases
    <2> QED
        BY <1>1, <1>2, <1>10, <2>1, PassIInv DEF Measure, RunsAreClosed
<1>8. ASSUME NEW j \in Jobs, Measure(j), ~ (pass' = Outside("down") /\ UNCHANGED since)
      PROVE  IInv'
    <2>1. PICK failed \in BOOLEAN : /\ pass' = [pass EXCEPT !.stage = "done", !.failed = failed]
                                    /\ since' = [since EXCEPT ![j] = 0]
        BY <1>8 DEF Measure
    <2>2. DOMAIN pass.rows # {} /\ pass.phase \in Kinds /\ pass.stage = "none"
        BY <1>8 DEF Measure, IsNext
    <2>3. IsPass(pass)' /\ pass'.stage = "done" /\ DOMAIN pass'.rows # {} /\ pass'.phase \in Kinds
        BY <1>1, <2>1, <2>2 DEF IsPass, IsBatch
    <2>4. since' \in [Measured -> Nat]
        BY <1>1, <2>1 DEF TypeOK
    <2>5. TypeOK'
        BY <1>1, <1>8, <2>3, <2>4 DEF Measure, TypeOK, IsPass, IsBatch
    <2>6. RunsAreClosed' /\ RunIsCounted' /\ StageHasRow'
        BY <1>1, <1>2, <1>8, <2>2, <2>3 DEF Measure, RunsAreClosed, RunIsCounted, StageHasRow
    <2> QED
        BY <2>5, <2>6 DEF IInv
<1>9. ASSUME NEW j \in Jobs, Reschedule(j) PROVE IInv'
    <2> DEFINE n == IF ~ pass.failed \/ j \in Inventories THEN 0
                    ELSE Smaller(failures[j] + 1, MaxFailures)
    <2>1. n \in 0 .. MaxFailures
        BY <1>1 DEF TypeOK, Smaller
    <2>2. /\ failures' = [failures EXCEPT ![j] = n] /\ late' = [late EXCEPT ![j] = - Delay(j, n)]
          /\ pass' = [pass EXCEPT !.stage = "none", !.failed = FALSE, 
                               !.rows = [i \in DOMAIN pass.rows \ {j} |-> pass.rows[i]]]
          /\ pass.stage = "done" /\ UNCHANGED <<on, since, running, ticks, crashes>>
        BY <1>9 DEF Reschedule
    <2> HIDE DEF n
    <2>3. IsPass(pass)' /\ pass'.stage = "none"
        BY <1>1, <2>2 DEF IsPass, IsBatch
    <2>4. PICK delay \in Nat : /\ delay = Delay(j, n)
                               /\ delay <= Interval[j] \/ delay <= MaxBackoff
        BY <2>1, DelayType
    <2>5. - delay \in Int /\ - delay <= MaxLate /\ - (- delay) = delay
        BY <2>4
    <2>6. late' \in [Jobs -> Int]
        BY <1>1, <2>2, <2>4, <2>5 DEF TypeOK
    <2>7. \A i \in Jobs : /\ late'[i] <= MaxLate
                          /\ - late'[i] <= Interval[i] \/ - late'[i] <= MaxBackoff
        BY <1>1, <2>2, <2>4, <2>5 DEF TypeOK
    <2>8. failures' \in [Jobs -> 0 .. MaxFailures]
        BY <1>1, <2>1, <2>2 DEF TypeOK
    <2>9. TypeOK'
        BY <1>1, <2>2, <2>3, <2>6, <2>7, <2>8 DEF TypeOK, IsPass, IsBatch
    <2>10. RunsAreClosed' /\ RunIsCounted' /\ StageHasRow'
        BY <1>1, <1>2, <2>2, <2>3 DEF RunsAreClosed, RunIsCounted, StageHasRow
    <2> QED
        BY <2>9, <2>10 DEF IInv
<1> QED
    BY <1>3, <1>4, <1>5, <1>6, <1>7, <1>8, <1>9, <1>10 DEF Step

LEMMA NextIInv == IInv /\ [Next]_vars => IInv'
<1> SUFFICES ASSUME IInv, [Next]_vars PROVE IInv'
    OBVIOUS
<1>1. TypeOK /\ RunsAreClosed /\ RunIsCounted /\ StageHasRow /\ IsPass(pass)
    BY DEF IInv, TypeOK, IsPass, IsBatch
<1>2. CASE Crash
    <2>1. IsPass(pass)' /\ pass'.stage = "none"
        BY <1>2, OutsideType DEF Crash, Phases
    <2>2. TypeOK'
        BY <1>1, <1>2, <2>1 DEF Crash, TypeOK, IsPass, IsBatch
    <2>3. RunsAreClosed' /\ RunIsCounted' /\ StageHasRow'
        BY <1>1, <1>2, <2>1 DEF Crash, TypeOK, RunsAreClosed, RunIsCounted, StageHasRow
    <2> QED
        BY <2>2, <2>3 DEF IInv
<1>3. ASSUME UNCHANGED <<running, pass, crashes>> PROVE (RunsAreClosed /\ RunIsCounted /\ StageHasRow)'
    BY <1>1, <1>3 DEF RunsAreClosed, RunIsCounted, StageHasRow
<1>4. ASSUME NEW j \in Jobs, Switch(j) PROVE IInv'
    <2>1. TypeOK'
        BY <1>1, <1>4 DEF Switch, TypeOK
    <2> QED
        BY <1>3, <1>4, <2>1 DEF Switch, IInv
<1>5. ASSUME NEW j \in Cycles, NEW enabled \in BOOLEAN, NEW runNow \in BOOLEAN,
             Configure(j, enabled, runNow)
      PROVE  IInv'
    <2>1. j \in Jobs /\ Interval[j] \in Nat
        BY DEF Jobs
    <2> DEFINE x == IF runNow THEN 0 ELSE - Interval[j]
    <2>2. x \in Int /\ x <= MaxLate /\ - x <= Interval[j]
        BY <2>1
    <2>3. late' = [late EXCEPT ![j] = x] /\ on' = [on EXCEPT ![j] = enabled]
          /\ UNCHANGED <<failures, since, running, pass, ticks, crashes>>
        BY <1>5 DEF Configure
    <2> HIDE DEF x
    <2>4. late' \in [Jobs -> Int] /\ on' \in [Jobs -> BOOLEAN]
        BY <1>1, <2>1, <2>2, <2>3 DEF TypeOK
    <2>5. \A i \in Jobs : /\ late'[i] <= MaxLate
                          /\ - late'[i] <= Interval[i] \/ - late'[i] <= MaxBackoff
        BY <1>1, <2>1, <2>2, <2>3 DEF TypeOK
    <2>6. TypeOK'
        BY <1>1, <2>3, <2>4, <2>5 DEF TypeOK
    <2> QED
        BY <1>3, <2>3, <2>6 DEF IInv
<1>6. CASE Tick
    <2>1. \A j \in Jobs : /\ Smaller(late[j] + 1, MaxLate) \in Int
                          /\ Smaller(late[j] + 1, MaxLate) <= MaxLate
                          /\ \/ - Smaller(late[j] + 1, MaxLate) <= - late[j]
                             \/ - Smaller(late[j] + 1, MaxLate) <= 0
        BY <1>1 DEF TypeOK, Smaller
    <2>2. \A j \in Jobs : late'[j] = Smaller(late[j] + 1, MaxLate)
        BY <1>6 DEF Tick
    <2>3. late' \in [Jobs -> Int]
        BY <1>6, <2>1 DEF Tick
    <2>4. \A j \in Jobs : /\ late'[j] <= MaxLate
                          /\ - late'[j] <= Interval[j] \/ - late'[j] <= MaxBackoff
        BY <1>1, <2>1, <2>2, <2>3 DEF TypeOK
    <2>5. since' \in [Measured -> Nat]
        <3>1. \A j \in Measured : since[j] + 1 \in Nat /\ Interval[j] \in Nat
            BY <1>1 DEF TypeOK, Jobs
        <3>2. \A j \in Measured : Smaller(since[j] + 1, Interval[j]) \in Nat
            BY <3>1, SmallerType
        <3>3. since' = [j \in Measured |-> Smaller(since[j] + 1, Interval[j])]
            BY <1>6 DEF Tick
        <3> QED
            BY <3>2, <3>3
    <2>6. ticks' \in 0 .. PassTicks
        BY <1>1, <1>6 DEF Tick, TypeOK
    <2>7. TypeOK'
        BY <1>1, <1>6, <2>3, <2>4, <2>5, <2>6 DEF Tick, TypeOK
    <2> QED
        BY <1>3, <1>6, <2>7 DEF Tick, IInv
<1>7. CASE UNCHANGED vars
    BY <1>7 DEF vars, IInv, TypeOK, RunsAreClosed, RunIsCounted, StageHasRow
<1> QED
    BY <1>2, <1>4, <1>5, <1>6, <1>7, StepIInv DEF Next

LEMMA SpecIInv == Spec => []IInv
<1>1. Init => IInv
    BY InitIInv
<1>2. IInv /\ [Next]_vars => IInv'
    BY NextIInv
<1> QED
    BY <1>1, <1>2, PTL DEF Spec

\* The types, and that no job is scheduled further ahead than its interval or the
\* longest backoff, for every number of jobs.
THEOREM TypeCorrect == Spec => []TypeOK
<1>1. IInv => TypeOK
    BY DEF IInv
<1> QED
    BY <1>1, SpecIInv, PTL

\* run_candidate_cycle of cycle.py closes the run it began: what is left as
\* running was under way when a process was killed.
THEOREM ClosedRuns == Spec => []RunsAreClosed
<1>1. IInv => RunsAreClosed
    BY DEF IInv
<1> QED
    BY <1>1, SpecIInv, PTL

-----------------------------------------------------------------------------
(* Measurements keep their distance.                                       *)

Rest(j) == Smaller(Interval[j], MaxBackoff)

\* When a job is due again it has rested.
Rested(j) == since[j] >= Rest(j) \/ since[j] >= Rest(j) + late[j]

\* All have but the one that is measured and not scheduled again.
AllRest == crashes = 0 => \A j \in Measured : Rested(j) \/ (pass.stage = "done" /\ IsNext(j))

RowsAreDue == \A j \in DOMAIN pass.rows : j \in Measured => late[j] >= 0

SInv == IInv /\ AllRest /\ RowsAreDue

\* What the steps below need of the types.
LEMMA SpacingTypes ==
    ASSUME TypeOK
    PROVE  /\ \A j \in Measured : /\ j \in Jobs /\ late[j] \in Int /\ since[j] \in Nat
                                  /\ Interval[j] \in Nat \ {0} /\ Rest(j) \in Nat
                                  /\ Rest(j) <= Interval[j] /\ Rest(j) <= MaxBackoff
           /\ MaxLate \in Nat /\ crashes \in Nat
<1>1. \A j \in Measured : /\ j \in Jobs /\ late[j] \in Int /\ since[j] \in Nat
                          /\ Interval[j] \in Nat \ {0}
    BY DEF TypeOK, Jobs
<1>2. \A j \in Measured : /\ Rest(j) \in Nat
                          /\ Rest(j) <= Interval[j] /\ Rest(j) <= MaxBackoff
    BY <1>1 DEF Rest, Smaller
<1> QED
    BY <1>1, <1>2 DEF TypeOK

\* A delay is a rest, at least.
LEMMA DelayIsRest ==
    ASSUME NEW j \in Measured, NEW n \in 0 .. MaxFailures
    PROVE  Delay(j, n) >= Rest(j)
<1>1. j \in Jobs /\ Interval[j] \in Nat \ {0} /\ MaxBackoff \in Nat
    BY DEF Jobs
<1>2. CASE n = 0
    BY <1>1, <1>2, SmallerType DEF Delay, Rest
<1>3. CASE n # 0
    <2>1. Smaller(n, 8) \in 1 .. 8
        BY <1>3 DEF Smaller
    <2>2. Factor[Smaller(n, 8)] \in Nat \ {0}
        BY <2>1 DEF Factor
    <2>3. \A a, b \in Nat \ {0} : a * b \in Nat /\ a <= a * b
        OBVIOUS
    <2>4. PICK backoff \in Nat : backoff = Interval[j] * Factor[Smaller(n, 8)] /\ Interval[j] <= backoff
        BY <1>1, <2>2, <2>3
    <2> HIDE DEF Kinds
    <2>5. Delay(j, n) = Smaller(backoff, MaxBackoff)
        BY <1>3, <2>4 DEF Delay
    <2> QED
        BY <1>1, <2>4, <2>5 DEF Smaller, Rest
<1> QED
    BY <1>2, <1>3

\* Between rows all have rested.
LEMMA BetweenRows ==
    ASSUME SInv, crashes = 0, pass.stage # "done", NEW j \in Measured
    PROVE  Rested(j)
BY DEF SInv, AllRest

\* A step that enters a phase, or leaves the rows.
LEMMA EnterSInv ==
    ASSUME SInv, IInv', UNCHANGED <<late, since>>,
           crashes' = 0 => crashes = 0 /\ pass.stage # "done",
           \A j \in DOMAIN pass'.rows : j \in Measured => late[j] >= 0
    PROVE  SInv'
<1>1. AllRest'
    BY BetweenRows DEF AllRest, Rested
<1>2. RowsAreDue'
    BY DEF RowsAreDue
<1> QED
    BY <1>1, <1>2 DEF SInv

LEMMA EnteredRows ==
    ASSUME NEW phase \in Phases
    PROVE  \A j \in DOMAIN Enter(phase).rows : late[j] >= 0
<1>1. CASE phase \in Kinds
    BY <1>1, DueRowsType DEF Enter
<1>2. CASE phase \notin Kinds
    BY <1>2 DEF Enter, Outside
<1> QED
    BY <1>1, <1>2

\* A step at a row that keeps the rows and their times.
LEMMA RowSInv ==
    ASSUME SInv, IInv', UNCHANGED <<late, crashes>>, pass'.rows = pass.rows,
           pass'.stage = "done" \/ pass.stage # "done",
           \A j \in Measured : since'[j] = since[j] \/ (pass'.stage = "done" /\ IsNext(j))
    PROVE  SInv'
<1>1. \A j : IsNext(j)' = IsNext(j)
    BY DEF IsNext
<1>2. AllRest'
    BY <1>1 DEF SInv, AllRest, Rested
<1>3. RowsAreDue'
    BY DEF SInv, RowsAreDue
<1> QED
    BY <1>2, <1>3 DEF SInv

LEMMA RescheduleSInv ==
    ASSUME SInv, IInv', NEW j \in Jobs, Reschedule(j)
    PROVE  SInv'
<1> DEFINE n == IF ~ pass.failed \/ j \in Inventories THEN 0
                ELSE Smaller(failures[j] + 1, MaxFailures)
<1>1. TypeOK /\ TypeOK' /\ IsPass(pass) /\ AllRest /\ RowsAreDue
    BY PassType DEF SInv, IInv
<1>2. n \in 0 .. MaxFailures
    BY <1>1 DEF TypeOK, Smaller
<1>3. /\ late' = [late EXCEPT ![j] = - Delay(j, n)]
      /\ pass' = [pass EXCEPT !.stage = "none", !.failed = FALSE,
                              !.rows = [i \in DOMAIN pass.rows \ {j} |-> pass.rows[i]]]
      /\ IsNext(j) /\ UNCHANGED <<since, crashes>>
    BY DEF Reschedule
<1> HIDE DEF n
<1>4. DOMAIN pass'.rows = DOMAIN pass.rows \ {j}
    BY <1>1, <1>3 DEF IsPass
<1>5. \A i \in Jobs \ {j} : late'[i] = late[i]
    BY <1>1, <1>3 DEF TypeOK
<1>6. \A i : IsNext(i) => i = j
    <2>1. \A i \in DOMAIN pass.rows : pass.rows[i] \in Nat
        BY <1>1 DEF IsPass, IsBatch
    <2> QED
        BY <1>3, <2>1 DEF IsNext
<1>7. ASSUME crashes' = 0, NEW i \in Measured PROVE Rested(i)'
    <2>1. CASE i = j
        <3>1. late'[i] = - Delay(i, n) /\ Delay(i, n) \in Nat /\ Delay(i, n) >= Rest(i)
            BY <1>1, <1>2, <1>3, <2>1, DelayType, DelayIsRest DEF TypeOK
        <3>2. Rest(i) \in Nat /\ since'[i] \in Nat
            BY <1>1, <1>3, SpacingTypes
        <3>3. since'[i] >= Rest(i) + late'[i]
            BY <3>1, <3>2
        <3> QED
            BY <3>3 DEF Rested, Rest
    <2>2. CASE i # j
        <3>1. Rested(i)
            BY <1>1, <1>3, <1>6, <1>7, <2>2 DEF AllRest
        <3>2. late'[i] = late[i] /\ since' = since
            BY <1>1, <1>3, <1>5, <2>2, SpacingTypes
        <3> QED
            BY <3>1, <3>2 DEF Rested, Rest
    <2> QED
        BY <2>1, <2>2
<1>8. RowsAreDue'
    BY <1>1, <1>4, <1>5, SpacingTypes DEF RowsAreDue
<1> QED
    BY <1>7, <1>8 DEF SInv, AllRest

LEMMA TickSInv ==
    ASSUME SInv, IInv', Tick
    PROVE  SInv'
<1>1. TypeOK /\ AllRest /\ RowsAreDue
    BY DEF SInv, IInv
<1>2. UNCHANGED <<pass, crashes>>
    BY DEF Tick
<1>3. \A j \in Measured : /\ late'[j] = Smaller(late[j] + 1, MaxLate)
                          /\ since'[j] = Smaller(since[j] + 1, Interval[j])
    BY <1>1, SpacingTypes DEF Tick
<1>4. \A j \in Measured : Rested(j) => Rested(j)'
    <2> SUFFICES ASSUME NEW j \in Measured, Rested(j) PROVE Rested(j)'
        OBVIOUS
    <2>1. /\ late[j] \in Int /\ since[j] \in Nat /\ Interval[j] \in Nat
          /\ Rest(j) \in Nat /\ Rest(j) <= Interval[j] /\ MaxLate \in Nat
        BY <1>1, SpacingTypes
    <2>2. since'[j] >= Rest(j) \/ since'[j] >= Rest(j) + late'[j]
        BY <1>3, <2>1 DEF Rested, Smaller
    <2> QED
        BY <2>2 DEF Rested, Rest
<1>5. \A j : IsNext(j)' = IsNext(j)
    BY <1>2 DEF IsNext
<1>6. AllRest'
    BY <1>1, <1>2, <1>4, <1>5 DEF AllRest
<1>7. RowsAreDue'
    BY <1>1, <1>2, <1>3, SpacingTypes DEF RowsAreDue, Smaller
<1> QED
    BY <1>6, <1>7 DEF SInv

LEMMA NextSInv == SInv /\ [Next]_vars => SInv'
<1> SUFFICES ASSUME SInv, [Next]_vars PROVE SInv'
    OBVIOUS
<1>1. IInv' /\ TypeOK /\ IsPass(pass) /\ StageHasRow /\ crashes \in Nat
    BY NextIInv, PassType DEF SInv, IInv, TypeOK
<1>2. CASE StartPass
    <2>1. pass.stage = "none" /\ "probe" \in Phases
        BY <1>1, <1>2 DEF StartPass, StageHasRow, IsPass, Phases
    <2> QED
        BY <1>1, <1>2, <2>1, EnteredRows, EnterSInv DEF StartPass
<1>3. CASE Proceed
    <2>1. pass.stage = "none" /\ Following[pass.phase] \in Phases
        BY <1>1, <1>3 DEF Proceed, StageHasRow, IsPass, Following, Phases
    <2> QED
        BY <1>1, <1>3, <2>1, EnteredRows, EnterSInv DEF Proceed
<1>4. CASE RunCampaigns \/ Restart \/ Crash
    <2>1. DOMAIN pass'.rows = {} /\ UNCHANGED <<late, since>>
        BY <1>4 DEF RunCampaigns, Restart, Crash, Outside
    <2>2. crashes' = 0 => crashes = 0 /\ pass.stage # "done"
        BY <1>1, <1>4 DEF RunCampaigns, Restart, Crash, StageHasRow, Outside
    <2> QED
        BY <1>1, <2>1, <2>2, EnterSInv
<1>5. ASSUME NEW j \in Jobs, Measure(j) PROVE SInv'
    <2>1. CASE pass' = Outside("down") /\ UNCHANGED since
        <3>1. DOMAIN pass'.rows = {} /\ UNCHANGED <<late, since, crashes>> /\ pass.stage = "none"
            BY <1>5, <2>1 DEF Measure, Outside
        <3> QED
            BY <1>1, <3>1, EnterSInv
    <2>2. CASE ~ (pass' = Outside("down") /\ UNCHANGED since)
        <3>1. /\ \E failed \in BOOLEAN :
                    pass' = [pass EXCEPT !.stage = "done", !.failed = failed]
              /\ since' = [since EXCEPT ![j] = 0]
            BY <1>5, <2>2 DEF Measure
        <3>2. pass'.stage = "done" /\ pass'.rows = pass.rows /\ IsNext(j)
            BY <1>1, <1>5, <3>1 DEF Measure, IsPass
        <3>3. \A i \in Measured : since'[i] = since[i] \/ i = j
            BY <1>1, <3>1 DEF TypeOK
        <3> QED
            BY <1>1, <1>5, <3>2, <3>3, RowSInv DEF Measure
    <2> QED
        BY <2>1, <2>2
<1>6. ASSUME NEW j \in Jobs, BeginCycle(j) \/ EndCycle(j) PROVE SInv'
    <2>1. pass'.rows = pass.rows /\ pass.stage # "done" /\ UNCHANGED <<late, since, crashes>>
        BY <1>1, <1>6 DEF BeginCycle, EndCycle, IsPass
    <2> QED
        BY <1>1, <2>1, RowSInv
<1>7. ASSUME NEW j \in Jobs, Reschedule(j) PROVE SInv'
    BY <1>1, <1>7, RescheduleSInv
<1>8. ASSUME UNCHANGED <<since, pass, crashes>>, \A i \in Measured : late'[i] = late[i]
      PROVE  SInv'
    <2>1. \A j : IsNext(j)' = IsNext(j)
        BY <1>8 DEF IsNext
    <2>2. AllRest' /\ RowsAreDue'
        BY <1>8, <2>1 DEF SInv, AllRest, RowsAreDue, Rested
    <2> QED
        BY <1>1, <2>2 DEF SInv
<1>9. ASSUME NEW j \in Cycles, NEW enabled \in BOOLEAN, NEW runNow \in BOOLEAN,
             Configure(j, enabled, runNow)
      PROVE  SInv'
    <2>1. \A i \in Measured : i # j
        BY DEF Measured
    <2>2. \A i \in Measured : late'[i] = late[i]
        BY <1>1, <1>9, <2>1 DEF Configure, TypeOK, Jobs
    <2> QED
        BY <1>8, <1>9, <2>2 DEF Configure
<1>10. CASE (\E j \in Jobs : Switch(j)) \/ UNCHANGED vars
    BY <1>8, <1>10 DEF Switch, vars
<1>11. CASE Tick
    BY <1>1, <1>11, TickSInv
<1> QED
    BY <1>2, <1>3, <1>4, <1>5, <1>6, <1>7, <1>9, <1>10, <1>11 DEF Next, Step

\* due_endpoints and _next_probe_time: a process that was never killed measures a
\* server again only after its interval, or the longest backoff, counted from the
\* last measurement it recorded, for every number of endpoints, every batch, and
\* however often the pass ends with an exception.
THEOREM MeasurementsApart == Spec => MeasuredApart
<1>1. Init => SInv
    <2> SUFFICES ASSUME Init PROVE SInv
        OBVIOUS
    <2>1. IInv
        BY InitIInv
    <2>2. RowsAreDue
        BY DEF Init, Outside, RowsAreDue
    <2>3. \A j \in Measured : since[j] = Interval[j]
        BY DEF Init
    <2>4. AllRest
        BY <2>1, <2>3, SpacingTypes DEF IInv, AllRest, Rested
    <2> QED
        BY <2>1, <2>2, <2>4 DEF SInv
<1>2. SInv /\ [Next]_vars => SInv'
    BY NextSInv
<1>3. ASSUME SInv, NEW j \in Measured, Measures(j), crashes = 0
      PROVE  since[j] >= Smaller(Interval[j], MaxBackoff)
    <2>1. Rested(j)
        BY <1>3, BetweenRows DEF Measures
    <2>2. late[j] >= 0
        BY <1>3 DEF SInv, RowsAreDue, Measures, IsNext
    <2>3. late[j] \in Int /\ since[j] \in Nat /\ Rest(j) \in Nat
        BY <1>3, SpacingTypes DEF SInv, IInv
    <2>4. since[j] >= Rest(j)
        BY <2>1, <2>2, <2>3 DEF Rested
    <2> QED
        BY <2>4 DEF Rest
<1>4. SInv => \A j \in Measured : Measures(j) /\ crashes = 0
                                  => since[j] >= Smaller(Interval[j], MaxBackoff)
    BY <1>3
<1> QED
    BY <1>1, <1>2, <1>4, PTL DEF Spec, MeasuredApart
=============================================================================
