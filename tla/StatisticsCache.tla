--------------------------- MODULE StatisticsCache ---------------------------
(***************************************************************************)
(* The public statistics service: threads answer a request from a cache    *)
(* that all of them share, or compute the answer from the rollup tables,   *)
(* while rollup jobs of other processes replace buckets.  The key of an    *)
(* answer contains the newest generated_at of the tables, so that a new    *)
(* rollup has a key of its own.                                            *)
(*                                                                         *)
(* generated_at is the time at which the transaction of a job started;     *)
(* starts are numbered.  What an answer says is the number of changes of   *)
(* the tables that it includes.  The clock of the cache is read just       *)
(* before its lock is taken, which is never held for long: both are one    *)
(* step.  All requests here ask for the same range.                        *)
(*                                                                         *)
(* src/src/nntpintel/statistics_cache.py, statistics_freshness.py, do_GET  *)
(* of statistics_http.py, and the transactions of rollups.py.              *)
(***************************************************************************)
EXTENDS Integers, FiniteSets

CONSTANTS
    Threads,            \* of the HTTP server
    Jobs,               \* rollup jobs that may run at the same time
    Buckets,
    TTL,                \* ttl_seconds, in ticks
    MaxEntries,         \* max_entries
    MaxStarts           \* bound: transactions of jobs

ASSUME TTLAssumption == TTL \in Nat \ {0}
ASSUME EntriesAssumption == MaxEntries \in Nat \ {0}
ASSUME StartsAssumption == MaxStarts \in Nat

Stamps == 0 .. MaxStarts        \* 0: a bucket without rows, and an empty table
Entry == [asOf : Nat, life : 0 .. TTL]

VARIABLES
    generated,  \* [Buckets -> Stamps]: generated_at of the rows of a bucket
    version,    \* how often the tables changed
    starts,     \* the newest start of a transaction
    jobs,       \* [Jobs -> local state]
    entries,    \* the cache, by key: [keys -> Entry]; life is the time to expires_at
    threads,    \* [Threads -> local state]
    orderly     \* so far jobs ran one after the other, and none left a bucket empty

vars == <<generated, version, starts, jobs, entries, threads, orderly>>

NoJob == [buckets |-> {}, start |-> 0]
NoRequest == [pc |-> "idle", token |-> 0, since |-> 0, asOf |-> 0, life |-> 0]

Init ==
    /\ generated = [b \in Buckets |-> 0]
    /\ version = 0
    /\ starts = 0
    /\ jobs = [j \in Jobs |-> NoJob]
    /\ entries = [k \in {} |-> 0]
    /\ threads = [t \in Threads |-> NoRequest]
    /\ orderly = TRUE

service == <<entries, threads>>
tables == <<generated, version, starts, jobs, orderly>>

-----------------------------------------------------------------------------
(* Rollup jobs.                                                            *)

Running(j) == jobs[j] # NoJob

\* The transaction that replaces some buckets starts.
StartRebuild(j, bs) ==
    /\ ~ Running(j)
    /\ starts < MaxStarts
    /\ starts' = starts + 1
    /\ jobs' = [jobs EXCEPT ![j] = [buckets |-> bs, start |-> starts + 1]]
    /\ orderly' = (orderly /\ \A i \in Jobs : ~ Running(i))
    /\ UNCHANGED <<generated, version, service>>

\* It commits: observations of the buckets in filled exist, and of no others.
CommitRebuild(j, filled) ==
    LET job == jobs[j]
    IN  /\ Running(j)
        /\ filled \subseteq job.buckets
        /\ generated' = [b \in Buckets |-> IF b \in filled THEN job.start
                                           ELSE IF b \in job.buckets THEN 0 ELSE generated[b]]
        /\ version' = IF generated' = generated THEN version ELSE version + 1
        /\ jobs' = [jobs EXCEPT ![j] = NoJob]
        /\ orderly' = (orderly /\ \A b \in job.buckets \ filled : generated[b] = 0)
        /\ UNCHANGED <<starts, service>>

\* It is rolled back: the database refuses it, or its process ends.
AbortRebuild(j) ==
    /\ Running(j)
    /\ jobs' = [jobs EXCEPT ![j] = NoJob]
    /\ UNCHANGED <<generated, version, starts, orderly, service>>

-----------------------------------------------------------------------------
(* Requests.                                                               *)

\* MAX(generated_at), the token of an empty table being 0.
IsNewest(s) == /\ s \in {0} \cup {generated[b] : b \in Buckets}
               /\ \A b \in Buckets : generated[b] <= s

\* Mutant: one key for all rollups.
OneKey(token) == 0

\* cache_key, of which only the freshness differs.
KeyOf(token) == token

\* rollup_freshness_token
ReadToken(t) ==
    /\ threads[t].pc = "idle"
    /\ \E newest \in Stamps :
          /\ IsNewest(newest)
          /\ threads' = [threads EXCEPT ![t] =
                 [pc |-> "lookup", token |-> newest, since |-> version, asOf |-> 0, life |-> 0]]
    /\ UNCHANGED <<tables, entries>>

\* Mutant: entries never expire.
IsForever(e) == TRUE

IsLive(e) == e.life > 0

\* get_or_compute looks the key up, under the lock.
Hit(t) ==
    /\ threads[t].pc = "lookup"
    /\ LET key == KeyOf(threads[t].token)
       IN  /\ key \in DOMAIN entries /\ IsLive(entries[key])
           /\ threads' = [threads EXCEPT ![t].pc = "answered", ![t].asOf = entries[key].asOf]
    /\ UNCHANGED <<tables, entries>>

Misses(t) ==
    /\ threads[t].pc = "lookup"
    /\ LET key == KeyOf(threads[t].token)
       IN  /\ key \in DOMAIN entries => ~ IsLive(entries[key])
           /\ entries' = [k \in DOMAIN entries \ {key} |-> entries[k]]
    /\ threads' = [threads EXCEPT ![t].pc = "compute"]
    /\ UNCHANGED tables

\* compute(), and the time at which its value will expire.
Compute(t) ==
    /\ threads[t].pc = "compute"
    /\ threads' = [threads EXCEPT ![t].pc = "store", ![t].asOf = version, ![t].life = TTL]
    /\ UNCHANGED <<tables, entries>>

\* compute() raises an error: the request fails and nothing is stored.
ComputeFails(t) ==
    /\ threads[t].pc = "compute"
    /\ threads' = [threads EXCEPT ![t] = NoRequest]
    /\ UNCHANGED <<tables, entries>>

\* Mutant: an entry is evicted when there are too many already.
IsOver(n) == n > MaxEntries

IsFull(n) == n >= MaxEntries

\* The keys that go: at the limit one that expires first, even if the key to
\* store is there already.
Evictions ==
    IF IsFull(Cardinality(DOMAIN entries))
    THEN {{k} : k \in {k \in DOMAIN entries :
                        \A l \in DOMAIN entries : entries[k].life <= entries[l].life}}
    ELSE {{}}

Store(t) ==
    /\ threads[t].pc = "store"
    /\ LET key == KeyOf(threads[t].token)
           value == [asOf |-> threads[t].asOf, life |-> threads[t].life]
       IN  \E gone \in Evictions :
              entries' = [k \in (DOMAIN entries \ gone) \cup {key} |->
                             IF k = key THEN value ELSE entries[k]]
    /\ threads' = [threads EXCEPT ![t].pc = "answered"]
    /\ UNCHANGED tables

\* The answer is sent, and the thread takes the next request.
Finish(t) ==
    /\ threads[t].pc = "answered"
    /\ threads' = [threads EXCEPT ![t] = NoRequest]
    /\ UNCHANGED <<tables, entries>>

\* Mutant: the life of what has expired goes on.
LaterOn(n) == n - 1

Later(n) == IF n = 0 THEN 0 ELSE n - 1

\* Time passes for every entry, stored or about to be.
Tick ==
    /\ \/ \E k \in DOMAIN entries : entries[k].life > 0
       \/ \E t \in Threads : threads[t].life > 0
    /\ entries' = [k \in DOMAIN entries |-> [entries[k] EXCEPT !.life = Later(@)]]
    /\ threads' = [t \in Threads |-> [threads[t] EXCEPT !.life = Later(@)]]
    /\ UNCHANGED tables

-----------------------------------------------------------------------------
Request(t) == \/ Hit(t) \/ Misses(t) \/ Compute(t) \/ ComputeFails(t) \/ Store(t) \/ Finish(t)

Next ==
    \/ \E j \in Jobs : \/ \E bs \in (SUBSET Buckets) \ {{}} : StartRebuild(j, bs)
                       \/ \E filled \in SUBSET jobs[j].buckets : CommitRebuild(j, filled)
                       \/ AbortRebuild(j)
    \/ \E t \in Threads : ReadToken(t) \/ Request(t)
    \/ Tick

\* Threads run until they answer, and time passes.  Nobody need ask, and jobs
\* need not run.
Spec == Init /\ [][Next]_vars /\ WF_vars(Tick) /\ \A t \in Threads : WF_vars(Request(t))

-----------------------------------------------------------------------------
LocalJob == [buckets : SUBSET Buckets, start : Stamps]
Thread == [pc : {"idle", "lookup", "compute", "store", "answered"}, token : Stamps,
           since : Nat, asOf : Nat, life : 0 .. TTL]

TypeOK ==
    /\ generated \in [Buckets -> Stamps]
    /\ version \in Nat
    /\ starts \in Stamps
    /\ jobs \in [Jobs -> LocalJob]
    /\ DOMAIN entries \subseteq Stamps
    /\ entries \in [DOMAIN entries -> Entry]
    /\ threads \in [Threads -> Thread]
    /\ orderly \in BOOLEAN

\* tests/test_statistics_cache.py:35 "test_cache_is_bounded": the cache never
\* holds more than max_entries answers, whatever threads store at the limit, in
\* whatever order, and whether or not the key to store is there already.
Bounded == Cardinality(DOMAIN entries) <= MaxEntries

\* docs/M8_0_PRODUCTION_DATA_ARCHITECTURE.md:193 "Caching must never change metric
\* semantics": an answer includes every rollup that was committed when its
\* request came, although other threads computed it, stored it late or over a
\* newer one - as long as jobs run one after the other and observations of a
\* bucket with rollups never vanish.
AnswersAreCurrent ==
    orderly => \A t \in Threads : threads[t].pc = "answered" => threads[t].asOf >= threads[t].since

\* statistics_cache.py:26 "Entries expire after a short TTL so completed rollups
\* become visible without an explicit invalidation channel": once jobs change
\* nothing any more, sooner or later every answer is up to date, also when
\* overlapping jobs or vanished observations left the token as it was.
CompletedBecomesVisible ==
    <>[](\A t \in Threads : threads[t].pc = "answered" => threads[t].asOf = version)
=============================================================================
