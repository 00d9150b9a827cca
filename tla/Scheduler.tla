------------------------------ MODULE Scheduler ------------------------------
(***************************************************************************)
(* The collector's pass: due endpoints are probed, due group inventories   *)
(* taken, due candidate cycles run, and then campaigns and incidents.  The *)
(* three kinds of job keep their next time in tables of their own and are  *)
(* scheduled alike.  Nothing catches an exception between the pass and the *)
(* process, except around a candidate cycle.                               *)
(*                                                                         *)
(* Times are kept relative to now, so that behaviours are as long as one   *)
(* likes: late[j] is now - next time of j.                                 *)
(*                                                                         *)
(* src/src/nntpintel/scheduler.py, cycle.py, storage.py (schedules).       *)
(***************************************************************************)
EXTENDS Integers, FiniteSets

CONSTANTS
    Probes,         \* endpoints, as jobs that are probed
    Inventories,    \* endpoints, as jobs whose groups are listed
    Cycles,         \* scheduled sources
    Batch,          \* [kinds -> limit]: SchedulerConfig's batch sizes
    Interval,       \* [jobs -> interval_seconds], in ticks
    MaxBackoff,     \* max_backoff_seconds, in ticks
    MaxFailures,    \* bound: failures are counted up to here (8 or less)
    PassTicks,      \* bound: ticks from the start of a pass to the next
    MaxLate,        \* bound: a job is at most this late
    MaxCrashes      \* bound: times the process is killed

Measured == Probes \cup Inventories
Jobs == Measured \cup Cycles
Kinds == {"probe", "inventory", "cycle"}

ASSUME ConstantsAssumption ==
    /\ Jobs \subseteq Nat /\ IsFiniteSet(Jobs)
    /\ Probes \cap Inventories = {} /\ Probes \cap Cycles = {} /\ Inventories \cap Cycles = {}
    /\ Batch \in [Kinds -> Nat \ {0}]
    /\ Interval \in [Jobs -> Nat \ {0}]
    /\ MaxBackoff \in Nat /\ MaxFailures \in 1 .. 8
    /\ PassTicks \in Nat \ {0} /\ MaxLate \in Nat \ {0} /\ PassTicks <= MaxLate
    /\ MaxCrashes \in Nat

VARIABLES
    late,           \* [Jobs -> now - next_probe_at, next_inventory_at, next_cycle_at]
    failures,       \* [Jobs -> consecutive_failures]
    on,             \* [Jobs -> BOOLEAN], the enabled columns
    since,          \* [Measured -> ticks since the last observation, up to the interval]
    running,        \* candidate_cycle_runs with status 'running'
    pass,           \* local state of the process
    ticks,          \* ticks since the pass began
    crashes

vars == <<late, failures, on, since, running, pass, ticks, crashes>>

Phases == Kinds \cup {"campaigns", "sleep", "down"}
Following == [probe |-> "inventory", inventory |-> "cycle", cycle |-> "campaigns"]

\* Between two phases that read rows.
Outside(phase) == [phase |-> phase, rows |-> [j \in {} |-> 0], stage |-> "none", failed |-> FALSE]

Init ==
    /\ late = [j \in Jobs |-> 0]
    /\ failures = [j \in Jobs |-> 0]
    /\ on = [j \in Jobs |-> TRUE]
    /\ since = [j \in Measured |-> Interval[j]]
    /\ running = 0
    /\ pass = Outside("sleep")
    /\ ticks = 0
    /\ crashes = 0

-----------------------------------------------------------------------------
JobsOf(kind) == CASE kind = "probe" -> Probes
                  [] kind = "inventory" -> Inventories
                  [] kind = "cycle" -> Cycles

\* Mutant: due a tick early.  (An operator marked "Mutant" is a fault that a
\* run must notice when it takes the place of the next one; no action uses it.)
DueEarly(j) == on[j] /\ late[j] >= -1

Due(j) == on[j] /\ late[j] >= 0

\* Mutant: in the order of the ids.
ByIdOnly(i, j) == i < j

\* ORDER BY next time, id.
Before(i, j) == late[i] > late[j] \/ (late[i] = late[j] /\ i < j)

\* The rows of the batch, with their places in it.
DueRows(kind) ==
    LET due == {j \in JobsOf(kind) : Due(j)}
        place == [j \in due |-> Cardinality({i \in due : Before(i, j)})]
    IN  [j \in {j \in due : place[j] < Batch[kind]} |-> place[j]]

\* The order stays as it was read, whatever happens to the schedules.
IsNext(j) == /\ j \in DOMAIN pass.rows
             /\ \A i \in DOMAIN pass.rows \ {j} : pass.rows[j] < pass.rows[i]

Smaller(x, y) == IF x <= y THEN x ELSE y

Factor == <<2, 4, 8, 16, 32, 64, 128, 256>>     \* 2 ** n, n = 1 .. 8

\* Mutant: the backoff is not limited.
DelayUnlimited(j, n) == IF n = 0 THEN Interval[j] ELSE Interval[j] * Factor[n]

\* _next_probe_time, and the same rule for a failed cycle.
Delay(j, n) ==
    IF n = 0 THEN Interval[j] ELSE Smaller(Interval[j] * Factor[Smaller(n, 8)], MaxBackoff)

-----------------------------------------------------------------------------
\* due_endpoints, due_group_endpoints, due_cycle_schedules: each is read once
\* per pass, when its phase begins.
Enter(phase) ==
    IF phase \in Kinds
    THEN [phase |-> phase, rows |-> DueRows(phase), stage |-> "none", failed |-> FALSE]
    ELSE Outside(phase)

StartPass ==
    /\ pass.phase = "sleep"
    /\ pass' = Enter("probe")
    /\ ticks' = 0
    /\ UNCHANGED <<late, failures, on, since, running, crashes>>

\* The rows of a phase are done.
Proceed ==
    /\ pass.phase \in Kinds /\ DOMAIN pass.rows = {}
    /\ pass' = Enter(Following[pass.phase])
    /\ UNCHANGED <<late, failures, on, since, running, ticks, crashes>>

\* The endpoint is probed and the observation committed, whatever it says; an
\* inventory is committed when it has no error.  Or the exchange raises what
\* probe and inventory_groups do not catch (a UnicodeError for a host like
\* `a..b', a ValueError for TLS and STARTTLS together): nothing is committed, no
\* row is scheduled again, and the process ends.
Measure(j) ==
    /\ pass.phase \in {"probe", "inventory"} /\ pass.stage = "none" /\ IsNext(j)
    /\ \/ /\ \E failed \in BOOLEAN :
                pass' = [pass EXCEPT !.stage = "done", !.failed = failed]
          /\ since' = [since EXCEPT ![j] = 0]
       \/ pass' = Outside("down") /\ UNCHANGED since
    /\ UNCHANGED <<late, failures, on, running, ticks, crashes>>

\* run_candidate_cycle: the row of the run ...
BeginCycle(j) ==
    /\ pass.phase = "cycle" /\ pass.stage = "none" /\ IsNext(j)
    /\ running' = running + 1
    /\ pass' = [pass EXCEPT !.stage = "running"]
    /\ UNCHANGED <<late, failures, on, since, ticks, crashes>>

\* Mutant: a run that raises is left as it is.
ClosesOnSuccess(failed) == IF failed THEN 0 ELSE 1

\* Rows that the end of a cycle takes out of 'running'.
Closes(failed) == 1

\* ... is closed as success or as failed; the exception is caught above.
EndCycle(j) ==
    /\ pass.phase = "cycle" /\ pass.stage = "running" /\ IsNext(j)
    /\ \E failed \in BOOLEAN :
          /\ pass' = [pass EXCEPT !.stage = "done", !.failed = failed]
          /\ running' = running - Closes(failed)
    /\ UNCHANGED <<late, failures, on, since, ticks, crashes>>

\* update_schedule, update_group_schedule, _update_cycle_schedule_after_run: the
\* next time counts from the end of the job.  Only the scheduler writes the
\* failures, so those read with the rows are still the current ones.  An
\* inventory has no failures.
Reschedule(j) ==
    LET n == IF ~ pass.failed \/ j \in Inventories THEN 0
             ELSE Smaller(failures[j] + 1, MaxFailures)
    IN
    /\ pass.stage = "done" /\ IsNext(j)
    /\ failures' = [failures EXCEPT ![j] = n]
    /\ late' = [late EXCEPT ![j] = - Delay(j, n)]
    /\ pass' = [pass EXCEPT !.stage = "none", !.failed = FALSE,
                            !.rows = [i \in DOMAIN @ \ {j} |-> @[i]]]
    /\ UNCHANGED <<on, since, running, ticks, crashes>>

\* run_due_campaigns and the incident evaluations return, or raise.
RunCampaigns ==
    /\ pass.phase = "campaigns"
    /\ pass' \in {Outside("sleep"), Outside("down")}
    /\ UNCHANGED <<late, failures, on, since, running, ticks, crashes>>

Crash ==
    /\ crashes < MaxCrashes
    /\ pass.phase \notin {"sleep", "down"}
    /\ pass' = Outside("down")
    /\ crashes' = crashes + 1
    /\ UNCHANGED <<late, failures, on, since, running, ticks>>

\* A supervisor starts the process again.
Restart ==
    /\ pass.phase = "down"
    /\ pass' = Outside("sleep")
    /\ UNCHANGED <<late, failures, on, since, running, ticks, crashes>>

-----------------------------------------------------------------------------
\* set_server_enabled, set_cycle_schedule_enabled.
Switch(j) ==
    /\ on' = [on EXCEPT ![j] = ~ @]
    /\ UNCHANGED <<late, failures, since, running, pass, ticks, crashes>>

\* configure_cycle_schedule, and set_cycle_schedule_enabled with run_now: the
\* next time is written whatever the scheduler is doing.
Configure(j, enabled, runNow) ==
    /\ late' = [late EXCEPT ![j] = IF runNow THEN 0 ELSE - Interval[j]]
    /\ on' = [on EXCEPT ![j] = enabled]
    /\ UNCHANGED <<failures, since, running, pass, ticks, crashes>>

Tick ==
    /\ ticks < PassTicks
    /\ ticks' = ticks + 1
    /\ late' = [j \in Jobs |-> Smaller(late[j] + 1, MaxLate)]
    /\ since' = [j \in Measured |-> Smaller(since[j] + 1, Interval[j])]
    /\ UNCHANGED <<failures, on, running, pass, crashes>>

Step ==
    \/ StartPass \/ Proceed \/ RunCampaigns \/ Restart
    \/ \E j \in Jobs : Measure(j) \/ BeginCycle(j) \/ EndCycle(j) \/ Reschedule(j)

Next ==
    \/ Step
    \/ Crash
    \/ \E j \in Jobs : Switch(j)
    \/ \E j \in Cycles, enabled, runNow \in BOOLEAN : Configure(j, enabled, runNow)
    \/ Tick

Spec == Init /\ [][Next]_vars

\* The scheduler runs on and is started again when it is down; time passes.
FairSpec == Spec /\ WF_vars(Step) /\ WF_vars(Tick)

-----------------------------------------------------------------------------
\* Types; a job is neither later nor further ahead than the bounds say.
TypeOK ==
    /\ late \in [Jobs -> Int]
    /\ \A j \in Jobs : late[j] <= MaxLate /\ (- late[j] <= Interval[j] \/ - late[j] <= MaxBackoff)
    /\ failures \in [Jobs -> 0 .. MaxFailures]
    /\ on \in [Jobs -> BOOLEAN]
    /\ since \in [Measured -> Nat]
    /\ running \in Nat
    /\ DOMAIN pass.rows \subseteq Jobs
    /\ pass \in [phase : Phases, rows : [DOMAIN pass.rows -> Nat],
                 stage : {"none", "running", "done"}, failed : BOOLEAN]
    /\ ticks \in 0 .. PassTicks
    /\ crashes \in 0 .. MaxCrashes

\* A cycle run shows as running only while it runs, or because the process was
\* killed during it: an exception never leaves one behind.
RunsAreClosed ==
    running <= crashes + (IF pass.stage = "running" THEN 1 ELSE 0)

\* A step that records an observation of j.
Measures(j) == pass.stage = "none" /\ pass'.stage = "done" /\ IsNext(j)

\* A process that was not killed measures a server no sooner than the interval of
\* the endpoint (or the longest backoff) after the last measurement it recorded,
\* however often exchanges and campaigns end the pass and the process with an
\* exception.
MeasuredApart ==
    [][\A j \in Measured :
          Measures(j) /\ crashes = 0
              => since[j] >= Smaller(Interval[j], MaxBackoff)]_vars

\* A step in which the exchange with a server ends the process.
ExchangeRaises ==
    pass.phase \in {"probe", "inventory"} /\ pass'.phase = "down" /\ crashes' = crashes

\* Once no exchange raises any more, a due job is done or switched off or
\* postponed, although batches are small and campaigns may end every pass with
\* an exception.  (A row whose exchange raises every time stays due and first,
\* and no pass gets beyond it: the premise leaves that out.)
JobsRun ==
    <>[][~ ExchangeRaises]_vars => \A j \in Jobs : Due(j) ~> ~ Due(j)
=============================================================================
