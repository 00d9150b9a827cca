------------------------------ MODULE Campaigns ------------------------------
(***************************************************************************)
(* Propagation campaigns: an article is looked for (STAT) on a set of      *)
(* target endpoints until it is visible on enough of them or the campaign's *)
(* time to live is over.  The campaigns live in one SQLite file; the       *)
(* scheduler passes and the admin commands that work on them are separate  *)
(* processes, and every statement or transaction of theirs is one step.    *)
(*                                                                         *)
(* src/src/nntpintel/propagation_campaigns.py, propagation_cycle.py,       *)
(* propagation_probe.py, propagation.py.                                   *)
(***************************************************************************)
EXTENDS Integers, Sequences, FiniteSets

CONSTANTS
    Articles,       \* Message-IDs
    Endpoints,      \* endpoints, numbered as in the table
    Servers,        \* servers that own the endpoints
    ServerOf,       \* [Endpoints -> Servers]
    Schedulers,     \* processes that call run_due_campaigns
    Operators,      \* `run-propagation-campaign <id>' commands
    Setters,        \* `set-propagation-campaign-enabled' commands
    BatchLimit,     \* SchedulerConfig.campaign_batch_size
    Intervals,      \* interval_seconds a campaign may have, in ticks
    Ttls,           \* ttl_seconds a campaign may have, in ticks
    MaxBackoff,     \* max_backoff_seconds, in ticks
    MaxCampaigns,   \* bound: campaigns created in a behaviour
    MaxClock,       \* bound: length of a behaviour in ticks
    MaxCrashes      \* bound: processes killed in a behaviour

ASSUME ConstantsAssumption ==
    /\ Endpoints \subseteq Nat /\ IsFiniteSet(Endpoints)
    /\ ServerOf \in [Endpoints -> Servers]
    /\ Articles # {}
    /\ BatchLimit \in Nat \ {0}
    /\ Intervals \subseteq Nat \ {0} /\ Intervals # {}
    /\ Ttls \subseteq Nat \ {0}
    /\ MaxBackoff \in Nat
    /\ \A i \in Intervals : i <= MaxBackoff
    /\ MaxCampaigns \in Nat /\ MaxClock \in Nat /\ MaxCrashes \in Nat

Runners == Schedulers \cup Operators
Ids == 1 .. MaxCampaigns
Terminal == {"completed", "expired"}
Status == {"unused", "active", "disabled"} \cup Terminal
ObservationWindow == 16     \* LIMIT of _endpoint_state
Outcomes == {"present", "absent", "error"}

VARIABLES
    status,     \* [Ids -> Status], propagation_campaigns.status
    campaign,   \* [Ids -> row], the columns that never change
    obs,        \* [Articles -> [Endpoints -> Seq(Observation)]], in order of id
    serverOn,   \* [Servers -> BOOLEAN], servers.enabled
    run,        \* [Runners -> local state of a runner]
    setter,     \* [Setters -> local state of a status command]
    clock,
    crashes

vars == <<status, campaign, obs, serverOn, run, setter, clock, crashes>>
rows == <<status, campaign>>

Campaign == [article : Articles, targets : SUBSET Endpoints, stop : Nat,
             interval : Intervals, expires : Nat]

\* A row that has not been inserted.
Blank == [article |-> CHOOSE a \in Articles : TRUE, targets |-> {}, stop |-> 0,
          interval |-> CHOOSE i \in Intervals : TRUE, expires |-> 0]

\* A row of propagation_observations: observed_at, and what was answered.
Observation == [at : Nat, outcome : Outcomes]

IdleRun == [pc |-> "idle", queue |-> {}, id |-> 0, now |-> 0, due |-> {}, asked |-> 0]
DownRun == [IdleRun EXCEPT !.pc = "down"]
DoneRun == [IdleRun EXCEPT !.pc = "done"]
IdleSetter == [pc |-> "idle", id |-> 0, to |-> "active"]

Init ==
    /\ status = [c \in Ids |-> "unused"]
    /\ campaign = [c \in Ids |-> Blank]
    /\ obs = [a \in Articles |-> [e \in Endpoints |-> <<>>]]
    /\ serverOn = [s \in Servers |-> TRUE]
    /\ run = [r \in Runners |-> IdleRun]
    /\ setter = [s \in Setters |-> IdleSetter]
    /\ clock = 0
    /\ crashes = 0

-----------------------------------------------------------------------------
EndpointOn(e) == serverOn[ServerOf[e]]

\* UNIQUE(article_id, status): writing st into row c is refused.
Conflict(c, st) ==
    \E d \in Ids \ {c} : /\ status[d] = st
                         /\ campaign[d].article = campaign[c].article

\* visible_endpoint_count: every endpoint that ever showed the article, target
\* of this campaign or not.
VisibleOn(a) ==
    {e \in Endpoints : \E i \in DOMAIN obs[a][e] : obs[a][e][i].outcome = "present"}

Smaller(x, y) == IF x <= y THEN x ELSE y

Factor == <<2, 4, 8, 16, 32, 64, 128, 256>>     \* 2 ** n, n = 1 .. 8

\* Mutant: a failed probe is repeated at once.  (An operator marked "Mutant" is
\* a fault that a run must notice when it takes the place of the next one; no
\* action uses it.)
DelayOnSuccess(interval, failures) == IF failures = 0 THEN interval ELSE 0

Delay(interval, failures) ==
    IF failures = 0 THEN interval
    ELSE Smaller(interval * Factor[Smaller(failures, 8)], MaxBackoff)

\* ORDER BY observed_at DESC, id DESC: j comes before i, or is i.
NotAfter(o, j, i) == o[j].at > o[i].at \/ (o[j].at = o[i].at /\ j >= i)

\* _endpoint_state: the failures that no later answer follows, among the newest
\* rows.  Rows need not be inserted in the order of observed_at.
Failures(o) ==
    Smaller(ObservationWindow,
            Cardinality({i \in DOMAIN o :
                \A j \in DOMAIN o : NotAfter(o, j, i) => o[j].outcome = "error"}))

\* current >= last_at + delay; last_at is the greatest observed_at, if any.
DueAt(c, e, now) ==
    LET o == obs[campaign[c].article][e]
    IN  \A i \in DOMAIN o : now >= o[i].at + Delay(campaign[c].interval, Failures(o))

\* The first n of a set of row numbers (ORDER BY ... id LIMIT n).
Lowest(S, n) == {x \in S : Cardinality({y \in S : y <= x}) <= n}

IsFirst(x, S) == x \in S /\ \A y \in S : x <= y

-----------------------------------------------------------------------------
\* create_campaign: checks and the insert; the checks are read just before the
\* insert and the UNIQUE constraint refuses a second active row in any case.
CreateCampaign(a, T, k, i, ttl) ==
    \E c \in Ids :
        /\ status[c] = "unused"
        /\ \A d \in Ids : d < c => status[d] # "unused"
        /\ T # {} /\ k \in 1 .. Cardinality(T)
        /\ \A e \in T : EndpointOn(e)
        /\ ~ \E d \in Ids : status[d] = "active" /\ campaign[d].article = a
        /\ clock + ttl <= MaxClock
        /\ status' = [status EXCEPT ![c] = "active"]
        /\ campaign' = [campaign EXCEPT ![c] =
               [article |-> a, targets |-> T, stop |-> k, interval |-> i,
                expires |-> clock + ttl]]
        /\ UNCHANGED <<obs, serverOn, run, setter, clock, crashes>>

\* set_campaign_enabled, first statement: read the status and refuse a
\* terminal one.
ReadStatus(s, c, st) ==
    /\ setter[s].pc = "idle"
    /\ status[c] \in {"active", "disabled"}
    /\ setter' = [setter EXCEPT ![s] = [pc |-> "write", id |-> c, to |-> st]]
    /\ UNCHANGED <<rows, obs, serverOn, run, clock, crashes>>

\* set_campaign_enabled, second statement: UPDATE ... WHERE id = ?.  The
\* constraint may refuse it; the command then ends with an error.
WriteStatus(s) ==
    LET c == setter[s].id  st == setter[s].to IN
    /\ setter[s].pc = "write"
    /\ status' = IF Conflict(c, st) THEN status ELSE [status EXCEPT ![c] = st]
    /\ setter' = [setter EXCEPT ![s] = IdleSetter]
    /\ UNCHANGED <<campaign, obs, serverOn, run, clock, crashes>>

\* discovery.set_server_enabled
SetServerEnabled(s) ==
    /\ serverOn' = [serverOn EXCEPT ![s] = ~ @]
    /\ UNCHANGED <<rows, obs, run, setter, clock, crashes>>

-----------------------------------------------------------------------------

\* Between two campaigns of a pass: those of queue are still to run.
Between(queue, now) ==
    [pc |-> "next", queue |-> queue, id |-> 0, now |-> now, due |-> {}, asked |-> 0]

\* run_campaign returned.
Advance(r) == run' = [run EXCEPT ![r] = Between(run[r].queue, run[r].now)]

\* An exception leaves run_campaign: nothing between it and the process.
Raise(r) == run' = [run EXCEPT ![r] = DownRun]

Goto(r, label) == run' = [run EXCEPT ![r].pc = label]

\* Mutant: the row's id is not taken over.
TakeNothing(r, c, label) == run' = [run EXCEPT ![r].pc = label, ![r].queue = @ \ {c}]

Take(r, c, label) ==
    run' = [run EXCEPT ![r].pc = label, ![r].id = c, ![r].queue = @ \ {c}]

\* run_due_campaigns: `current' is read once, then the oldest active rows
\* (rows are created in the order of created_at).
StartPass(r) ==
    /\ run[r].pc = "idle"
    /\ run' = [run EXCEPT ![r] =
           Between(Lowest({c \in Ids : status[c] = "active"}, BatchLimit), clock)]
    /\ UNCHANGED <<rows, obs, serverOn, setter, clock, crashes>>

\* `run-propagation-campaign <id>': run_campaign on one row, whatever its state.
StartOne(r, c) ==
    /\ run[r].pc = "idle"
    /\ status[c] # "unused"
    /\ run' = [run EXCEPT ![r] = Between({c}, clock)]
    /\ UNCHANGED <<rows, obs, serverOn, setter, clock, crashes>>

\* Mutants: the TTL is a tick short, or never looked at.
ExpiresEarly(r, c) == run[r].now + 1 >= campaign[c].expires
NeverExpires(r, c) == FALSE

\* current >= expires, current being the pass's reading of the clock.
Expired(r, c) == run[r].now >= campaign[c].expires

\* run_campaign on the next row of the pass: read it again and branch on it.
Load(r, c) ==
    /\ run[r].pc = "next" /\ IsFirst(c, run[r].queue)
    /\ \/ status[c] # "active" /\ Take(r, c, "next")
       \/ status[c] = "active" /\ Expired(r, c) /\ Take(r, c, "expire")
       \/ status[c] = "active" /\ ~ Expired(r, c) /\ Take(r, c, "cycle")
    /\ UNCHANGED <<rows, obs, serverOn, setter, clock, crashes>>

\* The pass is over, or the command ends.
Finish(r) ==
    /\ run[r].pc = "next" /\ run[r].queue = {}
    /\ run' = [run EXCEPT ![r] = DoneRun]
    /\ UNCHANGED <<rows, obs, serverOn, setter, clock, crashes>>

\* UPDATE ... SET status = st WHERE id = ?, under the UNIQUE constraint.
Close(r, st) ==
    LET c == run[r].id IN
    /\ \/ /\ Conflict(c, st)
          /\ Raise(r)
          /\ UNCHANGED status
       \/ /\ ~ Conflict(c, st)
          /\ status' = [status EXCEPT ![c] = st]
          /\ Advance(r)
    /\ UNCHANGED <<campaign, obs, serverOn, setter, clock, crashes>>

Expire(r) == run[r].pc = "expire" /\ Close(r, "expired")

\* due_propagation_endpoints: a disabled target raises; otherwise the targets
\* whose interval or backoff has passed.
SelectDue(r) ==
    LET c == run[r].id
        due == {e \in campaign[c].targets : DueAt(c, e, run[r].now)}
    IN
    /\ run[r].pc = "cycle"
    /\ \/ /\ \E e \in campaign[c].targets : ~ EndpointOn(e)
          /\ Raise(r)
       \/ /\ \A e \in campaign[c].targets : EndpointOn(e)
          /\ run' = [run EXCEPT ![r].pc = "probe", ![r].due = due]
    /\ UNCHANGED <<rows, obs, serverOn, setter, clock, crashes>>

\* probe_and_record_presence for the next due endpoint: the endpoint is read,
\* stat_message_id takes observed_at, and the exchange begins.
Ask(r, e) ==
    /\ run[r].pc = "probe" /\ IsFirst(e, run[r].due)
    /\ \/ ~ EndpointOn(e) /\ Raise(r)
       \/ /\ EndpointOn(e)
          /\ run' = [run EXCEPT ![r].pc = "record", ![r].asked = clock]
    /\ UNCHANGED <<rows, obs, serverOn, setter, clock, crashes>>

\* The exchange is over: what it says is recorded under observed_at, or it
\* raises what stat_message_id does not catch (a UnicodeError of a host's name)
\* and nothing is.
Record(r, e) ==
    LET a == campaign[run[r].id].article  at == run[r].asked IN
    /\ run[r].pc = "record" /\ IsFirst(e, run[r].due)
    /\ \/ Raise(r) /\ UNCHANGED obs
       \/ /\ \E outcome \in Outcomes :
                obs' = [obs EXCEPT ![a][e] = Append(@, [at |-> at, outcome |-> outcome])]
          /\ run' = [run EXCEPT ![r].pc = "probe", ![r].due = @ \ {e}, ![r].asked = 0]
    /\ UNCHANGED <<rows, serverOn, setter, clock, crashes>>

\* Mutant: endpoints that answered count, whatever they answered.
AnsweredEnough(c) ==
    Cardinality({e \in Endpoints : obs[campaign[c].article][e] # <<>>}) >= campaign[c].stop

VisibleEnough(c) == Cardinality(VisibleOn(campaign[c].article)) >= campaign[c].stop

\* The cycle is over: compare visible_endpoint_count with stop_after_visible.
Tally(r) ==
    LET c == run[r].id IN
    /\ run[r].pc = "probe" /\ run[r].due = {}
    /\ \/ VisibleEnough(c) /\ Goto(r, "complete")
       \/ ~ VisibleEnough(c) /\ Advance(r)
    /\ UNCHANGED <<rows, obs, serverOn, setter, clock, crashes>>

Complete(r) == run[r].pc = "complete" /\ Close(r, "completed")

\* run_forever's sleep, or the command's exit and the next one.
Rest(r) ==
    /\ run[r].pc = "done"
    /\ run' = [run EXCEPT ![r] = IdleRun]
    /\ UNCHANGED <<rows, obs, serverOn, setter, clock, crashes>>

\* The process is killed; a committed transaction stays.
Crash(r) ==
    /\ crashes < MaxCrashes
    /\ run[r].pc \notin {"idle", "done", "down"}
    /\ Raise(r)
    /\ crashes' = crashes + 1
    /\ UNCHANGED <<rows, obs, serverOn, setter, clock>>

\* A supervisor starts the process again.
Restart(r) ==
    /\ run[r].pc = "down"
    /\ run' = [run EXCEPT ![r] = IdleRun]
    /\ UNCHANGED <<rows, obs, serverOn, setter, clock, crashes>>

Tick ==
    /\ clock < MaxClock
    /\ clock' = clock + 1
    /\ UNCHANGED <<rows, obs, serverOn, run, setter, crashes>>

-----------------------------------------------------------------------------
Step(r) ==
    \/ \E c \in Ids : Load(r, c)
    \/ \E e \in Endpoints : Ask(r, e) \/ Record(r, e)
    \/ Expire(r) \/ SelectDue(r) \/ Tally(r) \/ Complete(r)
    \/ Finish(r) \/ Rest(r) \/ Restart(r)

Create ==
    \E a \in Articles, T \in SUBSET Endpoints, i \in Intervals, ttl \in Ttls :
        \E k \in 1 .. Cardinality(T) : CreateCampaign(a, T, k, i, ttl)

Next ==
    \/ Create
    \/ \E s \in Setters, c \in Ids, st \in {"active", "disabled"} : ReadStatus(s, c, st)
    \/ \E s \in Setters : WriteStatus(s)
    \/ \E s \in Servers : SetServerEnabled(s)
    \/ \E r \in Schedulers : StartPass(r)
    \/ \E r \in Operators, c \in Ids : StartOne(r, c)
    \/ \E r \in Runners : Step(r)
    \/ \E r \in Runners : Crash(r)
    \/ Tick

Spec == Init /\ [][Next]_vars

\* A scheduler that is up keeps running, one that is down is started again,
\* a command that has started goes on, and time passes.
Fairness ==
    /\ \A r \in Schedulers : WF_vars(StartPass(r))
    /\ \A r \in Runners : WF_vars(Step(r))
    /\ \A s \in Setters : WF_vars(WriteStatus(s))
    /\ WF_vars(Tick)

FairSpec == Spec /\ Fairness

-----------------------------------------------------------------------------
Working == {"expire", "cycle", "probe", "record", "complete"}

RunState == [pc : {"idle", "next", "done", "down"} \cup Working, queue : SUBSET Ids,
             id : Ids \cup {0}, now : 0 .. MaxClock, due : SUBSET Endpoints,
             asked : 0 .. MaxClock]

SetterState == [pc : {"idle", "write"}, id : Ids \cup {0}, to : {"active", "disabled"}]


\* Types of the rows and of the processes' local state; a process that works on
\* a campaign has one in hand.
TypeOK ==
    /\ status \in [Ids -> Status]
    /\ campaign \in [Ids -> Campaign]
    /\ obs \in [Articles -> [Endpoints -> Seq(Observation)]]
    /\ serverOn \in [Servers -> BOOLEAN]
    /\ run \in [Runners -> RunState]
    /\ \A r \in Runners : run[r].pc \in Working => run[r].id \in Ids
    /\ setter \in [Setters -> SetterState]
    /\ \A s \in Setters : setter[s].pc = "write" => setter[s].id \in Ids
    /\ clock \in 0 .. MaxClock
    /\ crashes \in 0 .. MaxCrashes


\* A campaign that is recorded as completed met its target: the article is
\* visible on at least stop_after_visible endpoints, although the count was
\* taken before the write, by a run that others may have overtaken.
CompletedIsVisible ==
    \A c \in Ids : status[c] = "completed" =>
        Cardinality(VisibleOn(campaign[c].article)) >= campaign[c].stop

\* A campaign is recorded as expired only after its TTL, whichever run with
\* whatever stale `current' wrote it.
ExpiredIsOver ==
    \A c \in Ids : status[c] = "expired" => clock >= campaign[c].expires

\* A step of r that begins an exchange with endpoint e.
Asks(r, e) == run[r].pc = "probe" /\ run'[r].pc = "record" /\ IsFirst(e, run[r].due)

\* Politeness to the probed servers: with one runner, an endpoint is asked for
\* an article no sooner than the campaign's interval after every exchange with
\* it that was recorded, across passes, restarts and campaigns.  An exchange
\* that a kill or an exception ends before its record (propagation_probe.py:158)
\* leaves nothing to keep a distance from: the next pass asks again at once.
ProbesAreSpaced ==
    [][\A r \in Runners, e \in Endpoints : Asks(r, e) =>
          LET c == run[r].id
              o == obs[campaign[c].article][e]
          IN  \A i \in DOMAIN o : clock >= o[i].at + campaign[c].interval]_vars

OneCampaignPerArticle ==
    \A c, d \in Ids : (c # d /\ status[c] # "unused" /\ status[d] # "unused")
                          => campaign[c].article # campaign[d].article

\* The TTL bounds every campaign's life, whatever is disabled, killed or slow,
\* as long as no article gets a second campaign.
CampaignsEnd ==
    []OneCampaignPerArticle => \A c \in Ids : status[c] = "active" ~> status[c] # "active"

\* README.md:81 "run continuously as a production service": a scheduler
\* finishes campaign passes forever.
PassesFinish == \A r \in Schedulers : []<>(run[r].pc = "done")
=============================================================================
