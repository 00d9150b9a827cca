# NNTPIntel, verified

TLA+ modules that model NNTPIntel (`src/src/nntpintel`), TLC runs that check
them on small instances, and TLAPS proofs of the properties that matter most.
`x.py` without a directory is `src/src/nntpintel/x.py`; README.md, docs/, tests/
and tools/ with a line number are those of the repository, under `src/`.

- [The system](#the-system)
- [The modules](#the-modules)
- [The runs](#the-runs)
- [Fairness](#fairness)
- [What is proved](#what-is-proved)
- [What the code does that its documents deny](#what-the-code-does-that-its-documents-deny)
- [What is not modelled](#what-is-not-modelled)
- [The plan](#the-plan)

## The system

NNTPIntel watches Usenet servers from the outside.  A *collector*
(`nntpintel run`, `scheduler.py`) works in passes over one SQLite file; the
other *admin commands* (`nntpintel`, `admin.py`) are separate short-lived
processes that work on the same file, `run-once` beside `run` among them; a web
and API server only reads it.  A second store, PostgreSQL, holds long-term
statistics: rollups, retention (`nntpintel-maintenance`), backup
(`nntpintel-backup`), and a read-only API (`nntpintel-statistics-api`).

The components, what each keeps, and what makes it correct:

| component | state | operations | what has to hold |
|---|---|---|---|
| scheduler (`scheduler.py`) | next time and consecutive failures of each endpoint and inventory | a pass: probes, inventories, cycles, campaigns, incidents | a server is not measured more often than its interval says; every due job is done |
| candidate cycles (`cycle.py`) | schedules per source, `candidate_cycle_runs` | configure, switch, run (refresh, then qualify) | a run does not stay "running"; one failing source does not stop the others |
| discovery (`discovery.py`, `source_management.py`) | `servers`, `discovery_sources`, `server_sources` | import seeds, refresh a source, switch servers and sources | an imported server is off until someone turns it on |
| candidates (`candidates.py`) | `candidate_qualifications`, `candidate_decisions` | qualify a batch, decide, promote under a policy | what was rejected stays off; only what was reachable is promoted; each candidate is qualified |
| campaigns (`propagation_campaigns.py`, `propagation_cycle.py`, `propagation_probe.py`) | `propagation_campaigns`, their targets, `propagation_observations` | create, pause, run due ones, run one | final statuses are final and true; probes keep their distance; campaigns end |
| topology incidents (`propagation_topology_incidents.py`) | `propagation_incidents` (topology kinds) with a state in `detail_json` | evaluate | what is over is resolved in the table; a change of one day opens no warning (it does, below); recovery needs two quiet snapshots |
| propagation incidents (`propagation_incidents.py`, `propagation_trends.py`) | `propagation_incidents` (other kinds) | evaluate | open ones are refreshed, ended ones closed once |
| group inventories (`groups.py`) | snapshots and events of newsgroups | record an inventory | an event tells a true difference |
| topology analytics (`propagation_topology*.py`) | nothing: every report computes all of it | graph, communities, what a removal breaks, gateways, quality, risk, history, anomalies | an algorithm computes what it is named for; risk does not depend on how good the evidence is |
| topology snapshots (`propagation_topology_snapshots.py` and what it exports and compares) | `topology_evidence_snapshots` | capture, timeline, significance | what is observed after a pass is stored; a critical change is called one |
| rollups and retention (`*rollups.py`, `maintenance.py`, `partition_lifecycle.py`) | buckets per hour or day; partitions | rebuild buckets, prune raw rows, retire partitions | no raw row is deleted whose count is not in a bucket; rebuilding is idempotent |
| statistics (`statistics*.py`) | an in-memory cache that threads share | query | an answer includes the rollups that were committed when it was asked for; the cache stays small |
| backup (`backup.py`), migrations (`storage_migrations.py`) | files; schema version | dump, restore; migrate | a restore is what was dumped; a migration is applied once |

They interact through the database only.  A pass runs its parts one after the
other; a part reads its due rows once and then works through them, each row in
transactions of its own, with network exchanges of many seconds in between.
Python's `sqlite3` begins a transaction with the first write, so every read
before that write is a step of its own: **checks are separate from the writes
they protect.**  An exception leaves the pass and ends the process, except
around a candidate cycle, which records it.  Such exceptions are not only of the
database: `probe_endpoint` catches `OSError`, `SSLError` and `NNTPProtocolError`
(probe.py:176), and a host like `a..b`, which discovery accepts
(discovery.py:34-38), makes `socket.create_connection` raise `UnicodeError`
(probe.py:125).

Hard behaviours, hence: two processes between each other's reads and writes;
decisions on rows read before a row of network exchanges; kills between two
transactions that belong together; table constraints that refuse what a check
allowed; streaks and backoffs over many passes; batches that might starve a row.
`PROJECT.json` lists each with its line ("hazards").

## The modules

An action is one statement or transaction of one process: what a function reads
in a `SELECT` of its own and what it writes later are two actions with a program
counter (`pc`) and local variables between them.  What no other process
can come between is one action.  Network exchanges are outcomes (`\E`).
Operators marked "Mutant" are faults that the runs have to notice; no action
uses them.

| module | stands for | proofs |
|---|---|---|
| `Campaigns` | `propagation_campaigns.py`, `propagation_cycle.py`, `propagation_probe.py`, `propagation.py` and their tables | `Campaigns_proofs` |
| `Candidates` | `discovery.py`, `candidates.py`, the switches of `source_management.py`, the inserts of `storage.py` | `Candidates_proofs` |
| `TopologyIncidents` | `propagation_topology_incidents.py` over the dates of `propagation_topology_anomalies.py` | `TopologyIncidents_proofs` |
| `IncidentLifecycle` | what the states of an incident promise: the abstract specification of `TopologyIncidents` | `TopologyIncidents_proofs` |
| `Scheduler` | `scheduler.py`, `cycle.py`, the schedules of `storage.py` | `Scheduler_proofs` |
| `Retention` | `maintenance.py`, `maintenance_cli.py`, `partition_lifecycle.py`, the windows of the four `*rollups.py` | `Retention_proofs` |
| `GroupInventory` | `groups.py`, `record_group_inventory` of `storage.py` | `GroupInventory_proofs` |
| `StatisticsCache` | `statistics_cache.py`, `statistics_freshness.py`, `do_GET` of `statistics_http.py`, beside the transactions of `rollups.py` | `StatisticsCache_proofs` |
| `Topology` | `propagation_topology.py`, and its `_impact`, `_communities`, `_resilience` | `Topology_proofs` |
| `TopologyRisk` | `propagation_topology_quality.py`, `_cross_cluster`, `_risk`; extends `Topology` | `Topology_proofs` |
| `TopologyHistory` | `propagation_topology_history.py`, `_anomalies`, the signals of `_incidents`; extends `Topology` | `Topology_proofs` |
| `EvidenceSnapshots` | `propagation_topology_snapshots.py`, and `_conclusions`, `_evidence`, `_explain`, `_export`, `_compare`, `_semantic_changes`, `_change_significance`; composes `TopologyRisk` and `TopologyHistory` | `Topology_proofs` |
| `MC*` | definitions of the instances that the `.cfg` files name | |

**Campaigns.**  `status` and `campaign` are the columns of
`propagation_campaigns`; a row is `unused` until it is inserted.  `obs` keeps of
`propagation_observations` what the code asks for: when an endpoint was last
asked, the trailing failures (at most 16, the LIMIT of the query), whether it
ever showed the article.  `run[r]` is a scheduler pass (`queue`: the campaigns
still to do; `now`: the reading of the clock the pass started with; `due`: the
endpoints still to probe) or a `run-propagation-campaign` command; `setter[s]`
is a status command between its read and its UPDATE.  An IntegrityError ends
the process (`Down`).  Creating a campaign is one action, as the insert is the
only statement that matters; `created_at` order is id order.  The exchange with
an endpoint and its observation row are two actions: `Ask` reads the clock that
becomes `observed_at`, and `Record` writes the row.  Between them the process
may be killed, and the exchange may raise what `stat_message_id` does not catch;
either way nothing is recorded and the next pass asks again at once.

**Candidates.**  `server[h]` says whether the host has a row and who enabled it
last (`import`, `operator`, `promotion`): the code keeps one bit, the model keeps
the author because the properties ask for it, and no guard reads it.  A host
has one endpoint.  An import is, for each host, the look whether it exists, the
insert, and the provenance with the switch to disabled: three transactions, and
a kill may fall between any two.  A decision checks that the host is a candidate
and writes later; a promotion checks provenance, then the policy, then writes;
a qualification run reads its batch once and then records host after host.  A
candidate cycle (`cycle[q]`) refreshes its source first.  A refresh that raises
ends the cycle before it qualifies anything, and an exchange that raises ends it
with the rest of the batch unprobed and nothing recorded: the cycle is `failed`
until the next one starts.

**TopologyIncidents.**  The anomalies that the comparison of two days shows are
an input (`found`), which `Measure` changes at will for the days in the window.
An evaluation reads the signals, reads the open incidents and writes all rows in
a transaction whose INSERT the partial unique index may refuse.  `detail` keeps
of `detail_json` the state, the two streaks, the markers and, of the evidence,
the entries with an anomaly.  `Abstract` maps rows to `IncidentLifecycle`.

**Scheduler.**  One collector.  Times are relative (`late[j]` is now minus the
next time of j), which makes the state space finite without ending behaviours:
a job that is later than `MaxLate` is as late as that.  A pass
reads the due rows of a kind at the start of its phase and works through them in
the order in which it read them.  Probing and inventories share `Measure`; after
it a probe backs off by its failures (`_next_probe_time`), an inventory is next
due a plain interval later (scheduler.py:62-63).  An exchange may raise what
nothing catches, before anything is recorded or scheduled again, and
`RunCampaigns` may raise; then the process is down until the service manager
starts it (README.md:81).  Operators switch and reschedule at any time.

**Retention.**  A bucket is the set of the raw rows it was computed from, which
is what "counted" means.  The shortest time is a tick ("hour"); days and months
are multiples.  Rows are recorded when observed; none is backdated.  Rollup jobs
rebuild any window at any time (`Rebuild`, one transaction: delete the touched
buckets, insert those of the rows in the window), also a window of a part of a
day; `wholeDays` is a history variable that remembers whether daily buckets were
only ever rebuilt for whole days that were over.  Each maintenance command goes
statement by statement.  A failing statement loses the transaction, and with it
`finish_maintenance_run`: the run row stays `running` (`Fail`).  PostgreSQL locks
order `DROP TABLE` further than the model does, which therefore has more
behaviours than the system.

**GroupInventory.**  A collector turns to an endpoint (`Start`), asks for its
list and perhaps for its descriptions (`List`), and then records in one
transaction: it reads the newest snapshot (`ReadPrevious`), which is before the
first write and so a step of its own, and writes rows, events, and the first and
last times (`Write`).  `offered` is what servers really have and changes at any
time.  A time is the number of the start of an exchange, which is what
`observed_at` is.  `ordered` and `compared` are history variables that the
properties ask for: whether inventories were recorded in the order of their
times, and whether each was compared with the one just before it.  `Scheduler`
has the due times of the same job.

**StatisticsCache.**  Each lock of `get_or_compute` is a step; the value is
computed between two of them.  `version` counts the changes of the tables and
`asOf` is the version that a value includes, so that "is it up to date" needs no
values.  `generated` keeps for each bucket the start of the transaction that
wrote it, which is what PostgreSQL's `CURRENT_TIMESTAMP` is, and therefore what
the freshness token shows.  Jobs overlap, fail, or leave a bucket empty;
`orderly` remembers that none did.

**Topology, TopologyRisk, TopologyHistory, EvidenceSnapshots.**  The state is
what the observations say: how many articles were first seen at one server
before another, day by day (`ahead`), how often a server was asked and showed
the article, when it last did, and its open incidents.  Everything that reports
show is an operator on that state, in whole numbers as the code rounds them: a
confidence of two in three is 667, which is less than the 670 asked for.  The
nodes are the servers that campaigns ask; a server that showed an article
without ever being a target, which the code adds (propagation_topology.py:68-72),
is left out.  Reach,
communities and what breaks without a server are recursive functions over sets.
The actions are what changes the observations (`Learn`: a campaign, an
article that one server misses, a new day, incidents) and the capture of
snapshots by processes that may overlap: begin, read the first half of a bundle,
read the risk and look for the fingerprint, insert or meet the unique index.  A
fingerprint is the content it is computed from.

## The runs

`expect: pass` unless said otherwise.  Deadlock is checked in `StatisticsCache`
only: elsewhere (`CHECK_DEADLOCK FALSE`) the bounds on clock, days, exchanges
and crashes end behaviours.

| run | question | bounds, and why they are enough |
|---|---|---|
| `Campaigns_races` | do the rows stay true when a pass, a `run-propagation-campaign` and a status command interleave? | one campaign, one endpoint, two ticks: the three processes meet on one row, and every check can be overtaken before its write; campaigns meet each other in the next two runs |
| `Campaigns_service` | do campaigns end, and do probes keep their distance, with a fair scheduler? | two articles, a batch of one (so that a campaign can be starved), a toggled server, exchanges that raise, a crash at any step, three ticks for TTLs of one and two |
| `Campaigns_poison` | violation: does the scheduler finish passes forever? | two campaigns of one article |
| `Candidates_commands` | which promises survive two imports, a decision, a promotion, a qualification run and switches? | one host (the commands of two hosts do not meet, except in the next run), two results each, two reachable ones needed |
| `Candidates_fairness` | is every candidate qualified in the end, once cycles stop failing? | two hosts and batches of one, refreshes and exchanges that raise, an import that may be killed |
| `Incidents_lifecycle` | does one evaluator implement the lifecycle, and stay true to its streaks? | one key (incidents of two keys share nothing but the transaction), four days and a window of three: open, recover, resolve, and open again; an evaluation may be killed at any step (590,000 states) |
| `Incidents_oneoff` | violation: is a change of one day suppressed? | one key, three days |
| `Scheduler` | does every due job run once exchanges stop raising, and none too early? | two endpoints of different speed, batches of one, a cycle, exchanges and campaigns that raise, a crash; a tick late is overdue and not only due, failures up to one reach the cap of the backoff |
| `Retention_maintenance` | is nothing removed too early, twice counted, uncounted or never? | days of two ticks, so that a rebuild may cover a part of a day and a batch may split one; months of two days, so that days end inside a month; rows of one day, seven ticks (the first month is old in the last one); two processes with two commands each, a kill (280,000 states) |
| `Groups` | do events and times tell what was listed, when collectors overlap? | two endpoints, two groups of one hierarchy, two collectors, three exchanges, two changes at the servers: a group can appear, change and vanish, and an older list can be recorded after a newer one (270,000 states) |
| `StatisticsCache` | are answers current, is the cache bounded, and does what is completed become visible? | two threads, two jobs, two buckets, two transactions, a cache of two entries that live one tick: both threads can miss one key, the cache can be full, jobs can commit against the order of their starts (290,000 states) |
| `Topology` | do the graph algorithms, the history and the snapshots say what they are named for? | three histories of four servers (a server between two others that also joins a fourth, a circle, two pairs of which one turns round on the second day), two days, two further changes, two overlapping captures (27,000 states) |

What each property says, and the code behaviour it is about, stands above its
definition; for each one `PROJECT.json` names a fault of the code ("mutants")
that breaks it.

Three bounds hide nothing but deserve a word.  `CompletedIsVisible` is checked
with one endpoint and proved for any number.  The `Scheduler` run has no
inventory job, because an inventory is the same action as a probe with the next
batch; and it has one cycle, because an operator who reconfigures a cycle again
and again would starve another.  Three days of history instead of thirty are
enough for incidents because only the two streaks of two and the width of the
window matter.

In `Topology` four servers are the fewest with an articulation point whose
removal leaves parts of different size, and with two communities that an edge of
weak confidence joins.  Which articles campaigns find, and which servers miss
them, comes from small sets in `MCEvidenceSnapshots`, because every combination
of counts would not end; each shape of the graph that the code treats
differently is among the histories, or one change away from them.

## Fairness

- `Scheduler!FairSpec`: weak fairness of the collector's next step and of time.
  `run_forever` loops without end, and the service manager starts the process
  again (README.md:81).  Whether campaigns raise is not restricted.
- `Campaigns!FairSpec`: the same for each step of a pass and each command that
  has started.  Nothing is assumed about operators.
- `Candidates!FairSpec`: the steps of a running import and of candidate cycles,
  which the collector starts again and again for as long as it is up.  Nothing is
  assumed about a cycle that has started reaching its qualification: it may fail
  before.
- `StatisticsCache!Spec`: time passes, and a thread that has read the token goes
  on until it answers.  Nobody need ask, and no job need run or finish.
- `Retention!FairSpec`: a command that has started goes on; `retire-eligible` is
  started again and again (docs/M8_4_RETENTION_MAINTENANCE.md:94), strongly
  fair because another command of the same process may be under way.

Three liveness properties have a premise, as without it the code does not do
what they say (below).  `CampaignsEnd` assumes that no article gets a second
campaign, for with one the collector stops working.  `JobsRun` and
`CandidatesAreQualified` assume that from some time on no exchange (and no
refresh) raises: until then they may do so at any step, in any order.

## What is proved

TLAPS checks these for every value of the constants that the modules' named
assumptions admit.

| theorem | says | argument |
|---|---|---|
| `Campaigns_proofs!TypeCorrect`, `CompletedVisible`, `ExpiredOver` | the three invariants of `Campaigns_races` | the invariants of the rows are not inductive, because a runner writes what it decided several steps ago.  `RunnersKnow` says what is still true then: the row exists, what it saw expire has expired, a count of visible endpoints only grows |
| `Campaigns_proofs!ProbesKeepDistance` | with one runner, an endpoint is asked no sooner than an interval after each exchange that was recorded | `DueHaveRested`: for the endpoints still to probe the interval had passed when the pass began, and nobody else probes them; a backoff is no shorter than the interval, as no interval is longer than the longest backoff |
| `Candidates_proofs!TypeCorrect`, `RejectionHolds`, `PromotionEarned`, `CandidatesOnly` | four invariants of `Candidates_commands` | `CommandsKnow`: provenance once read is never lost, reachable results only grow, a row once looked up exists; `ProvenanceHasServer` carries it to the servers |
| `Candidates_proofs!DefaultsDisabled` | its fifth, as long as no import was killed | `DefaultsAreInHand`: a host that an import enabled is in the hands of that import, which will switch it off |
| `TopologyIncidents_proofs!TypeCorrect`, `FinalLetsGo` | the invariants of `Incidents_lifecycle`, for any number of overlapping evaluators: a final state in the detail is resolved in the table | `ReadsAreLive`: what an evaluator read as open was live then, so that it never writes a final state without `resolved_at`; the reverse does not hold |
| `TopologyIncidents_proofs!OneEvaluatorFollows` | one evaluator implements `IncidentLifecycle`: the initial states are its initial states, and each step is a step of it or a stutter | `ReadIsCurrent`: with one evaluator, what it read is what the table still says when it writes; `OpenIsLoud`: an open incident has no quiet snapshots behind it.  Each outcome for a key is then one action of the lifecycle |
| `TopologyIncidents_proofs!RecoveryTakesTwo`, `WarningsTakeTwo` | with one evaluator, two quiet snapshots resolve, and evaluating one snapshot again opens no warning | `Marks` ties the streaks to the markers they were counted at |
| `Scheduler_proofs!TypeCorrect`, `ClosedRuns` | the invariants of `Scheduler` | `StageHasRow` and `RunIsCounted`: while a cycle is under way its row is among those that are counted |
| `Scheduler_proofs!MeasurementsApart` | measurements of a server are an interval, or the longest backoff, apart while no process was killed, although exchanges may end it | `AllRest` ties how late a job is to the time since it was measured, for all jobs but the one that is measured and not scheduled again; `RowsAreDue`: rows of a batch stay due |
| `Retention_proofs!TypeCorrect` | types; the number of unfinished runs stays natural | `RowsOfRuns`: commands under way are at most the runs with status `running` |
| `Retention_proofs!RecentRowsKept` | no recent row is removed, neither by a batch nor with its month | `Reading` (a command's clock is never ahead) and `DropIsOld` (between check and DROP the month stays old), with division for months of any length |
| `Retention_proofs!BucketsUnique` | one bucket per server and time | a bucket made from a row in a window is one that the window touches, so the old one is gone |
| `Retention_proofs!RemovedCounted` | while jobs rebuild whole days that are over, what is removed is counted in its daily buckets, for days of any length | `StillCovered`: what a check found covered stays so, as a rebuild of whole days makes anew each bucket it deletes for a row that is still there (`WholeDays`); `DaysAreCounted`: a bucket is of a day that is over and counts every row of it, as no row is recorded for a day that is over |
| `GroupInventory_proofs!SeenTimes` | first and last times are those of the snapshots | `Shown`, as long as inventories are recorded in order: the times of a row are the least and the greatest of its snapshots, and a list recorded next extends both; `InHand` and `Rows` give the types that this needs |
| `GroupInventory_proofs!EventsTell` | events tell what the newest snapshot shows | `Telling` is the property for one history, and one lemma says that what `Write` appends keeps it when the list before is the newest snapshot; `Lists` and `Histories` are what the lemma needs to know of lists and times |
| `StatisticsCache_proofs!TypeCorrect`, `CacheBounded` | types; at most `max_entries` | an entry is evicted at the limit even when the key is there: cardinality grows only below the limit |
| `StatisticsCache_proofs!CurrentAnswers` | answers include what was committed when they were asked for | while jobs are orderly: `JobIsAhead` (a job that will commit started after all that is in the tables, the keys and the tokens), `NewestIsPresent` (an entry under the newest token is up to date), `KeysAreFresh`: what is under a reader's token, or will be stored there, includes all that the reader must see, so that it does not matter which computation is stored last |
| `Topology_proofs!KnownIsSound` | who showed an article was asked for it, and only servers that were asked have incidents | `KInv`: types, and that campaigns ask both servers before anything is found of them.  It is inductive, and the theorems below that are about one state follow from it |
| `Topology_proofs!Together` | communities are the components of the strong edges | the search finds the least closed set with its start: a round that is not closed adds a node, so there are rounds enough; components therefore are a partition, and no part of one is closed |
| `Topology_proofs!CriticalCuts` | scores are critical if and only if a removal breaks a community | a closed part of what is left is more than one piece (`NodeCuts`, `EdgeCuts`); impact and the share of cross edges are at most 1000, so the terms beside the break stay below 500 together (`ResilienceArithmetic`) |
| `Topology_proofs!HistoryReplays`, `CriticalSignalsReverse` | events replay the edges of each day; critical signals are reversals | the edges of a day follow from those of the day before and its events, by induction on the day; nothing disappears after the latest day that has signals |
| `Topology_proofs!QualityIsApart` | no risk changes with missed articles, days, or servers asked for the first time | a server that is asked for the first time has neither edge nor incident (`KInv`), so it is a community of its own (`Alone`), and communities are equal but for those; cross edges, gateways, breaks and scope are then the same (`AloneChangesNothing`) |
| `Topology_proofs!CapturesAreSound` | stored bundles belong to their conclusions; what a capture holds fits where it is | `SInv`: `TableInv` says of the table what `LocalInv` says of a bundle in hand, and `SteadyInv` that of each conclusion a steady capture has either stored the present bundle or has it still to do; other captures only add to the table |
| `Topology_proofs!Complete` | a pass during which nothing changed stores the present bundle of every conclusion | `SteadyInv` with nothing left to do.  A conclusion that there is not at the beginning is not there later, as nothing changed |
| `Topology_proofs!Crossings` | a change is critical if and only if the risk enters the level | risks are natural numbers (`ServerRiskFacts`, `CommunityRiskFacts`), levels follow from them, and no other code is ever critical (`SeverityFacts`) |

`Topology_proofs` is about recursive functions and folds: breadth-first search,
sums, greatest values, replayed events.  That they are what their equations say
is proved first (`Recursion`, `SumsExist`, `SumsAgree`), and statements about
all of their values by a least counterexample (`Least`, `Induction`), which
needs no induction theorem.  `WatchedAssumption` says that what an instance may
follow is a sequence of conclusions of the kinds that the model has, as
`topology_conclusions` returns; TLC evaluates it, as all assumptions, on the
instances of the runs.  `KInv` and `SInv` were model-checked on the instance of the
`Topology` run before they were proved.

What stays with TLC is what the prover cannot express: liveness under fairness
(`CampaignsEnd`, `PassesFinish`, `CandidatesAreQualified`, `JobsRun`,
`CoveredIsRetired`, `CompletedBecomesVisible`) and `ENABLED`.  Every invariant
and every action property that the passing runs check is proved.

## What the code does that its documents deny

Two runs end in a violation.  `Campaigns_poison`: "run continuously as a
production service" (README.md:81).  UNIQUE(article_id, status)
(storage.py:195) allows one expired campaign per article.  The second cannot
expire, its UPDATE raises IntegrityError, nothing catches it, and as the row
stays active and oldest every later pass ends there.

`Incidents_oneoff`: "test_one_off_warning_is_suppressed"
(tests/test_propagation_topology_incidents.py:148).  `_signals` takes the
anomalies of the latest date that has any, however old
(propagation_topology_incidents.py:29), and marks them with the newest snapshot
(line 43).  On the day after a change the same change of the same date counts
again, and the warning opens.  `WarningNeedsTwoMarkers` says what does hold:
evaluating the same newest snapshot again does not count.  The test gives the
second evaluation a history from which the change has disappeared.

Met in the same way, without a run of their own:

- "run continuously as a production service" (README.md:81), once more: a host
  like `a..b` makes every probe of it raise `UnicodeError` (probe.py:125; caught
  neither at 176 nor at groups.py:146), as an endpoint with TLS and STARTTLS
  makes it raise `ValueError` (probe.py:111-112, groups.py:98).  In a pass that
  ends the process before scheduler.py:82-105 schedules the row again: it stays
  due and first, and no pass gets beyond it.  In a candidate cycle, which records
  the exception (cycle.py:317), the host has no result, stays first in the order
  and ends every batch (candidates.py:126-152).  Without their premises `JobsRun`
  and `CandidatesAreQualified` fail so.
- "cannot change terminal campaign status" (propagation_campaigns.py:193): the
  status is read before the transaction, and the UPDATE names the id only.  A
  command that read `active` writes over a campaign that a pass has closed since.
- "for the exact data range being retired"
  (docs/M8_4_RETENTION_MAINTENANCE.md:3): coverage asks whether a daily bucket
  exists (maintenance.py:315), not what it counts.  A window shorter than a day,
  as in tools/qualify_group_rollups.py:94-96, replaces the bucket of the day by
  a part of it.  `RemovedWasCounted` without its premise fails so.  For the same
  reason a rebuild after pruning replaces counts by what is left.
- "Return a token that changes when a completed rollup family changes"
  (statistics_freshness.py:31): the token is the newest `generated_at`, the
  start of a transaction.  Of two overlapping jobs the one that started first
  may commit last, and a bucket that became empty has no row: the tables change
  and the token stays.  Only the time to live brings such answers up to date,
  hence `orderly` in `AnswersAreCurrent` and none in `CompletedBecomesVisible`.
- "generated_at is ignored so export timing alone does not create a change"
  (propagation_topology_compare.py:90): a server's bundle contains `age_hours`,
  so that time alone makes another snapshot of it.
- A campaign that expires late in a pass is still probed in that pass, as a pass
  has one reading of the clock (propagation_campaigns.py:259, 214).
- A decision or a promotion in flight overwrites what another command wrote
  since its checks: a promoted candidate is demoted, a rejected one promoted
  (candidates.py:281-298, 324-348).  `RejectedIsOff` and `PromotedWasReachable`
  hold nevertheless, as switch and decision are written together.
- An import killed between the insert of a host and its switch to disabled
  leaves the host enabled (discovery.py:136, 147): `ImportDefaultsDisabled` fails
  with `MaxCrashes = 1`.
- Of two overlapping evaluators the later writes over rows what it read before
  the earlier (propagation_topology_incidents.py:96-145): `FollowsLifecycle`,
  `RecoveryIsStable` and `WarningNeedsTwoMarkers` hold of one evaluator only.
- Topology overviews count `resilience_level`, which the nodes do not have
  (propagation_topology_overview.py:27-29), so that
  `critical_resilience_node_count` is always 0.
- Communities are numbered in the order of their first hosts, so `community:N`
  is another community after a host or an edge came or went
  (propagation_topology_communities.py:52), in the timeline of its snapshots too.
- A timeline compares the distinct contents of a conclusion, and so omits the
  return in A, B, A.  Two processes that capture the same new content meet
  UNIQUE; the IntegrityError ends the later one.
- Today's campaigns are only partly observed, so edges "disappear" at midnight and
  return during the day; the first day of a window shows every edge as appeared.
- Significance compares coverage, which is between 0 and 1, with 25 and 10
  (propagation_topology_change_significance.py), so a loss of coverage never
  reaches those levels; and 1.0 - 0.8 is less than 0.2, so a confidence drop of
  exactly the limit may or may not be reported.
- An empty list leaves no snapshot rows, so the next inventory is compared with
  the one before it, and disappearances are told twice (storage.py:420).
- A collector that records an older list later moves `last_seen_at` back.  A
  server that refuses LIST NEWSGROUPS once makes every described group "changed",
  and again when it answers; descriptions are split at a blank (groups.py:55), so
  those after a tab are lost; what NEWGROUPS answers is stored nowhere.

## What is not modelled

Text, JSON layout, HTML and HTTP routing; argument parsing; the NNTP exchange
itself, whose outcome is an input; classification details and latency
statistics; the counts in run rows.  In SQLite, what a busy writer waits for; in
PostgreSQL, lock waits and a concurrent CREATE of one partition.  A propagation
day bucket that exists only because of an incident covers the day's
observations too, in the code as in the model.  Of the topology: lead times, the
order and limits of lists, explanation texts, incidents as conclusions, and the
posture of the overview.

- **Propagation incidents** (`propagation_incidents.py`,
  `propagation_trends.py`) share table and unique index with the topology's, and
  open, refresh and resolve rows by key without days or streaks.  What decides
  are percentiles of latencies and differences of coverage, of which no module
  here keeps anything; a model of the rows alone would repeat
  the unique index.  Two things a reader should know: incidents are evaluated
  after passes that measured something (scheduler.py:116-121), so one stays open
  while no campaign is measured; and an older evaluation that overlaps may write
  over a row that a newer one resolved.
- **Backup and restore** run external programs over files in sequence.
- **Schema migrations** run each version in one transaction of PostgreSQL.
- **HTTP API and pages** only read; **the probe** is an exchange over one socket.

`PROJECT.json` lists every part of the system with its status and, under
"hazards", what is hard to test, with the properties that cover it or the
reason why none does.

## The plan

The order in which the modules were written, most important behaviour first:
`Campaigns`; `Candidates`; `TopologyIncidents` with `IncidentLifecycle`;
`Scheduler`; `Retention`; `GroupInventory`; `StatisticsCache`; `Topology` with
`TopologyRisk`, `TopologyHistory` and `EvidenceSnapshots`.  What could follow:

1. `PropagationIncidents`: the second evaluator of the incident table, with
   trends as inputs, composed with `TopologyIncidents` over one table.
2. `BackupRestore` and `Migrations`: files and schema versions over crashes.

Runs are merged where two questions share an instance, so that each run asks
one thing of one composition.
