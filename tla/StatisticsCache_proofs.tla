----------------------- MODULE StatisticsCache_proofs -----------------------
(***************************************************************************)
(* What StatisticsCache guarantees for every number of threads, jobs,      *)
(* buckets and entries.  That answers are current is not inductive: it     *)
(* rests on what a token stands for.  While jobs are orderly, whatever is  *)
(* kept or about to be stored under the newest token is of the present     *)
(* version (NewestIsPresent), whatever is kept under any token is as new   *)
(* as the requests that hold it (KeysAreFresh), and a job that runs will   *)
(* write a token that nobody has yet (JobIsAhead).                         *)
(***************************************************************************)
EXTENDS StatisticsCache, FiniteSetTheorems, TLAPS

USE StartsAssumption, TTLAssumption, EntriesAssumption DEF Stamps

\* Nothing is ahead of the newest start and the present version.
NothingAhead ==
    /\ \A b \in Buckets : generated[b] <= starts
    /\ \A j \in Jobs : jobs[j].start <= starts
    /\ \A k \in DOMAIN entries : k <= starts
    /\ \A t \in Threads : threads[t].token <= starts /\ threads[t].since <= version

\* One job runs at a time, and its start is newer than all that is known.
JobIsAhead ==
    /\ \A i, j \in Jobs : Running(i) /\ Running(j) => i = j
    /\ \A j \in Jobs : Running(j) =>
         /\ jobs[j].start = starts
         /\ \A b \in Buckets : generated[b] < starts
         /\ \A k \in DOMAIN entries : k < starts
         /\ \A t \in Threads : threads[t].token < starts

NewestIsPresent ==
    /\ \A k \in DOMAIN entries : IsNewest(k) => entries[k].asOf = version
    /\ \A t \in Threads : threads[t].pc = "store" /\ IsNewest(threads[t].token)
                             => threads[t].asOf = version

KeysAreFresh ==
    \A t \in Threads : threads[t].pc # "idle" =>
        /\ threads[t].token \in DOMAIN entries
              => entries[threads[t].token].asOf >= threads[t].since
        /\ \A u \in Threads : threads[u].pc = "store" /\ threads[u].token = threads[t].token
                                => threads[u].asOf >= threads[t].since

AnsweredIsFresh ==
    \A t \in Threads : threads[t].pc = "answered" => threads[t].asOf >= threads[t].since

Fresh == JobIsAhead /\ NewestIsPresent /\ KeysAreFresh /\ AnsweredIsFresh

IInv == TypeOK /\ NothingAhead /\ (orderly => Fresh)

-----------------------------------------------------------------------------
\* Records.
LEMMA NoJobType == NoJob \in LocalJob
BY DEF NoJob, LocalJob

LEMMA NoRequestType == NoRequest \in Thread
BY DEF NoRequest, Thread

LEMMA InitIInv == Init => IInv
<1> SUFFICES ASSUME Init PROVE IInv
    OBVIOUS
<1>1. TypeOK
    BY NoJobType, NoRequestType DEF Init, TypeOK
<1>2. NothingAhead
    BY DEF Init, NothingAhead, NoRequest, NoJob
<1>3. Fresh
    BY DEF Init, Fresh, JobIsAhead, NewestIsPresent, KeysAreFresh, AnsweredIsFresh, Running,
           NoRequest
<1> QED
    BY <1>1, <1>2, <1>3 DEF IInv

-----------------------------------------------------------------------------
(* Jobs.                                                                   *)

LEMMA StartRebuildIInv ==
    ASSUME IInv, NEW j \in Jobs, NEW bs \in (SUBSET Buckets) \ {{}}, StartRebuild(j, bs)
    PROVE  IInv'
<1> DEFINE job == [buckets |-> bs, start |-> starts + 1]
<1>1. /\ jobs' = [jobs EXCEPT ![j] = job] /\ starts' = starts + 1
      /\ generated' = generated /\ version' = version
      /\ entries' = entries /\ threads' = threads
      /\ orderly' = (orderly /\ \A i \in Jobs : ~ Running(i))
      /\ starts < MaxStarts
    BY DEF StartRebuild, service
<1>2. TypeOK /\ NothingAhead
    BY DEF IInv
<1>3. job \in LocalJob
    BY <1>1, <1>2 DEF TypeOK, LocalJob
<1> HIDE DEF job
<1>4. TypeOK'
    <2>1. jobs' \in [Jobs -> LocalJob] /\ starts' \in Stamps
        BY <1>1, <1>2, <1>3 DEF TypeOK
    <2>2. orderly' \in BOOLEAN
        BY <1>1
    <2> QED
        BY <1>1, <1>2, <2>1, <2>2 DEF TypeOK
<1>5. NothingAhead'
    <2>1. \A i \in Jobs : jobs'[i].start <= starts'
        BY <1>1, <1>2 DEF NothingAhead, TypeOK, LocalJob, job
    <2> QED
        BY <1>1, <1>2, <2>1 DEF NothingAhead, TypeOK, Thread
<1>6. ASSUME orderly' PROVE Fresh'
    <2>1. orderly /\ \A i \in Jobs : ~ Running(i)
        BY <1>1, <1>6
    <2>2. Fresh
        BY <2>1 DEF IInv
    <2>3. \A i \in Jobs : Running(i)' => i = j
        BY <1>1, <1>2, <2>1 DEF Running, TypeOK
    <2>4. jobs'[j].start = starts'
        BY <1>1, <1>2 DEF TypeOK, job
    <2>5. /\ \A b \in Buckets : generated'[b] < starts'
          /\ \A k \in DOMAIN entries' : k < starts'
          /\ \A t \in Threads : threads'[t].token < starts'
        BY <1>1, <1>2 DEF NothingAhead, TypeOK, Thread
    <2>6. JobIsAhead'
        BY <2>3, <2>4, <2>5 DEF JobIsAhead
    <2>7. NewestIsPresent' /\ KeysAreFresh' /\ AnsweredIsFresh'
        BY <1>1, <2>2 DEF Fresh, NewestIsPresent, KeysAreFresh, AnsweredIsFresh, IsNewest
    <2> QED
        BY <2>6, <2>7 DEF Fresh
<1> QED
    BY <1>4, <1>5, <1>6 DEF IInv

LEMMA CommitRebuildIInv ==
    ASSUME IInv, NEW j \in Jobs, NEW filled \in SUBSET jobs[j].buckets, CommitRebuild(j, filled)
    PROVE  IInv'
<1>1. /\ Running(j)
      /\ generated' = [b \in Buckets |-> IF b \in filled THEN jobs[j].start
                                         ELSE IF b \in jobs[j].buckets THEN 0 ELSE generated[b]]
      /\ version' = IF generated' = generated THEN version ELSE version + 1
      /\ jobs' = [jobs EXCEPT ![j] = NoJob]
      /\ orderly' = (orderly /\ \A b \in jobs[j].buckets \ filled : generated[b] = 0)
      /\ starts' = starts /\ entries' = entries /\ threads' = threads
    BY DEF CommitRebuild, service
<1>2. TypeOK /\ NothingAhead
    BY DEF IInv
<1>3. jobs[j].start \in Stamps /\ jobs[j].buckets \subseteq Buckets
    BY <1>2 DEF TypeOK, LocalJob
<1>4. version' \in Nat /\ version <= version'
    BY <1>1, <1>2 DEF TypeOK
<1>5. TypeOK'
    <2>1. generated' \in [Buckets -> Stamps]
        BY <1>1, <1>2, <1>3 DEF TypeOK
    <2>2. jobs' \in [Jobs -> LocalJob]
        BY <1>1, <1>2, NoJobType DEF TypeOK
    <2>3. orderly' \in BOOLEAN
        BY <1>1
    <2> QED
        BY <1>1, <1>2, <1>4, <2>1, <2>2, <2>3 DEF TypeOK
<1>6. NothingAhead'
    <2>1. \A b \in Buckets : generated'[b] <= starts'
        BY <1>1, <1>2 DEF NothingAhead, TypeOK
    <2>2. \A i \in Jobs : jobs'[i].start <= starts'
        BY <1>1, <1>2 DEF NothingAhead, TypeOK, NoJob
    <2>3. \A t \in Threads : threads'[t].since <= version'
        BY <1>1, <1>2, <1>4 DEF NothingAhead, TypeOK, Thread
    <2> QED
        BY <1>1, <1>2, <2>1, <2>2, <2>3 DEF NothingAhead
<1>7. ASSUME orderly' PROVE Fresh'
    <2>1. orderly /\ \A b \in jobs[j].buckets \ filled : generated[b] = 0
        BY <1>1, <1>7
    <2>2. Fresh
        BY <2>1 DEF IInv
    <2>3. \A i \in Jobs : ~ Running(i)'
        BY <1>1, <1>2, <2>2 DEF Fresh, JobIsAhead, Running, TypeOK
    <2>4. JobIsAhead' /\ KeysAreFresh' /\ AnsweredIsFresh'
        BY <1>1, <2>2, <2>3 DEF Fresh, JobIsAhead, KeysAreFresh, AnsweredIsFresh
    <2>5. CASE generated' = generated
        BY <1>1, <2>2, <2>4, <2>5 DEF Fresh, NewestIsPresent, IsNewest
    <2>6. CASE generated' # generated
        <3>1. PICK b \in Buckets : generated'[b] # generated[b]
            BY <1>1, <1>2, <2>6 DEF TypeOK
        <3>2. generated'[b] = starts
            BY <1>1, <2>1, <2>2, <3>1 DEF Fresh, JobIsAhead
        <3>3. \A k \in Stamps : IsNewest(k)' => k >= starts
            BY <1>2, <3>2 DEF IsNewest, TypeOK
        <3>4. NewestIsPresent'
            <4>1. \A k \in DOMAIN entries' : ~ IsNewest(k)'
                BY <1>1, <1>2, <2>2, <3>3 DEF Fresh, JobIsAhead, TypeOK
            <4>2. \A t \in Threads : threads'[t].token \in Stamps /\ threads'[t].token < starts
                BY <1>1, <1>2, <2>2 DEF Fresh, JobIsAhead, TypeOK, Thread
            <4>3. \A t \in Threads : ~ IsNewest(threads[t].token)'
                <5> TAKE t \in Threads
                <5>1. PICK k \in Stamps : k = threads'[t].token /\ k < starts
                    BY <4>2
                <5>2. ~ IsNewest(k)'
                    BY <1>2, <3>3, <5>1 DEF TypeOK
                <5> QED
                    BY <5>1, <5>2 DEF IsNewest
            <4> QED
                BY <4>1, <4>3 DEF NewestIsPresent
        <3> QED
            BY <2>4, <3>4 DEF Fresh
    <2> QED
        BY <2>5, <2>6
<1> QED
    BY <1>5, <1>6, <1>7 DEF IInv

LEMMA AbortRebuildIInv ==
    ASSUME IInv, NEW j \in Jobs, AbortRebuild(j)
    PROVE  IInv'
<1>1. /\ jobs' = [jobs EXCEPT ![j] = NoJob]
      /\ generated' = generated /\ version' = version /\ starts' = starts
      /\ orderly' = orderly /\ entries' = entries /\ threads' = threads
    BY DEF AbortRebuild, service
<1>2. TypeOK /\ NothingAhead
    BY DEF IInv
<1>3. TypeOK'
    BY <1>1, <1>2, NoJobType DEF TypeOK
<1>4. NothingAhead'
    <2>1. \A i \in Jobs : jobs'[i].start <= starts'
        BY <1>1, <1>2 DEF NothingAhead, TypeOK, NoJob
    <2> QED
        BY <1>1, <1>2, <2>1 DEF NothingAhead
<1>5. ASSUME orderly' PROVE Fresh'
    <2>1. Fresh
        BY <1>1, <1>5 DEF IInv
    <2>2. \A i \in Jobs : Running(i)' => Running(i) /\ jobs'[i] = jobs[i]
        BY <1>1, <1>2 DEF Running, TypeOK
    <2>3. JobIsAhead'
        BY <1>1, <2>1, <2>2 DEF Fresh, JobIsAhead
    <2> QED
        BY <1>1, <2>1, <2>3 DEF Fresh, NewestIsPresent, KeysAreFresh, AnsweredIsFresh, IsNewest
<1> QED
    BY <1>3, <1>4, <1>5 DEF IInv

-----------------------------------------------------------------------------
(* Requests.  Most of their steps keep what is known: entries may go, and   *)
(* a thread goes on or becomes idle.                                       *)

\* A thread goes on with its token, and stores only what it was to store.
GoesOn(t) ==
    /\ threads[t].pc # "idle" /\ threads[t].token = threads'[t].token
    /\ threads[t].since = threads'[t].since
    /\ threads'[t].pc = "store" => threads[t].pc = "store" /\ threads'[t].asOf = threads[t].asOf
    /\ orderly /\ threads'[t].pc = "answered" => threads'[t].asOf >= threads'[t].since

RestsFrom(t) == threads'[t].pc = "idle" /\ threads'[t].token = 0 /\ threads'[t].since = 0

LEMMA KeepingIInv ==
    ASSUME IInv, UNCHANGED tables,
           threads' \in [Threads -> Thread],
           entries' \in [DOMAIN entries' -> Entry],
           \A k \in DOMAIN entries' : k \in DOMAIN entries /\ entries'[k].asOf = entries[k].asOf,
           \A t \in Threads : threads'[t] = threads[t] \/ GoesOn(t) \/ RestsFrom(t)
    PROVE  IInv'
<1>1. TypeOK /\ NothingAhead
    BY DEF IInv
<1>2. /\ generated' = generated /\ version' = version /\ starts' = starts
      /\ jobs' = jobs /\ orderly' = orderly
    BY DEF tables
<1>3. \A t \in Threads : /\ threads[t].token \in Stamps /\ threads[t].since \in Nat
                         /\ threads[t].asOf \in Nat
    BY <1>1 DEF TypeOK, Thread
<1>4. \A k \in DOMAIN entries : k \in Stamps /\ entries[k].asOf \in Nat
    BY <1>1 DEF TypeOK, Entry
<1>5. version \in Nat /\ starts \in Nat
    BY <1>1 DEF TypeOK
<1>6. TypeOK'
    BY <1>1, <1>2 DEF TypeOK
<1>7. NothingAhead'
    <2>1. \A t \in Threads : threads'[t].token <= starts /\ threads'[t].since <= version
        BY <1>1, <1>3, <1>5 DEF NothingAhead, GoesOn, RestsFrom
    <2> QED
        BY <1>1, <1>2, <2>1 DEF NothingAhead
<1>8. ASSUME orderly' PROVE Fresh'
    <2>1. orderly /\ Fresh
        BY <1>2, <1>8 DEF IInv
    <2>2. JobIsAhead'
        <3>1. ASSUME NEW j \in Jobs, Running(j), NEW t \in Threads
              PROVE  threads'[t].token < starts
            BY <1>3, <1>5, <2>1, <3>1 DEF Fresh, JobIsAhead, GoesOn, RestsFrom
        <3> QED
            BY <1>2, <2>1, <3>1 DEF Fresh, JobIsAhead, Running
    <2>3. NewestIsPresent'
        <3>1. \A k \in DOMAIN entries' : IsNewest(k)' => entries'[k].asOf = version'
            BY <1>2, <2>1 DEF Fresh, NewestIsPresent, IsNewest
        <3>2. ASSUME NEW t \in Threads, threads'[t].pc = "store"
              PROVE  threads[t].pc = "store" /\ threads'[t].token = threads[t].token
                     /\ threads'[t].asOf = threads[t].asOf
            BY <3>2 DEF GoesOn, RestsFrom
        <3>3. \A t \in Threads : threads'[t].pc = "store" /\ IsNewest(threads[t].token)'
                                    => threads'[t].asOf = version'
            BY <1>2, <2>1, <3>2 DEF Fresh, NewestIsPresent, IsNewest
        <3> QED
            BY <3>1, <3>3 DEF NewestIsPresent
    <2>4. KeysAreFresh'
        <3> SUFFICES ASSUME NEW t \in Threads, threads'[t].pc # "idle"
                     PROVE  /\ threads'[t].token \in DOMAIN entries'
                                  => entries'[threads'[t].token].asOf >= threads'[t].since
                            /\ \A u \in Threads :
                                  threads'[u].pc = "store" /\ threads'[u].token = threads'[t].token
                                     => threads'[u].asOf >= threads'[t].since
            BY DEF KeysAreFresh
        <3>1. threads[t].pc # "idle" /\ threads'[t].token = threads[t].token
              /\ threads'[t].since = threads[t].since
            BY DEF GoesOn, RestsFrom
        <3>2. threads'[t].token \in DOMAIN entries'
                  => entries'[threads'[t].token].asOf >= threads'[t].since
            BY <2>1, <3>1 DEF Fresh, KeysAreFresh
        <3>3. ASSUME NEW u \in Threads, threads'[u].pc = "store",
                     threads'[u].token = threads'[t].token
              PROVE  threads'[u].asOf >= threads'[t].since
            <4>1. threads[u].pc = "store" /\ threads'[u].token = threads[u].token
                  /\ threads'[u].asOf = threads[u].asOf
                BY <3>3 DEF GoesOn, RestsFrom
            <4> QED
                BY <2>1, <3>1, <3>3, <4>1 DEF Fresh, KeysAreFresh
        <3> QED
            BY <3>2, <3>3
    <2>5. AnsweredIsFresh'
        BY <2>1 DEF Fresh, AnsweredIsFresh, GoesOn, RestsFrom
    <2> QED
        BY <2>2, <2>3, <2>4, <2>5 DEF Fresh
<1> QED
    BY <1>6, <1>7, <1>8 DEF IInv

LEMMA HitIInv ==
    ASSUME IInv, NEW t \in Threads, Hit(t)
    PROVE  IInv'
<1> DEFINE key == threads[t].token
           me == [threads[t] EXCEPT !.pc = "answered", !.asOf = entries[key].asOf]
<1>1. TypeOK
    BY DEF IInv
<1>2. /\ threads[t].pc = "lookup" /\ key \in DOMAIN entries
      /\ threads' = [threads EXCEPT ![t] = me]
      /\ entries' = entries /\ UNCHANGED tables
    BY <1>1 DEF Hit, KeyOf, TypeOK
<1>3. me \in Thread /\ entries[key].asOf \in Nat
    BY <1>1, <1>2 DEF TypeOK, Thread, Entry
<1>4. threads' \in [Threads -> Thread] /\ entries' \in [DOMAIN entries' -> Entry]
    BY <1>1, <1>2, <1>3 DEF TypeOK
<1>5. orderly => entries[key].asOf >= threads[t].since
    BY <1>2 DEF IInv, Fresh, KeysAreFresh
<1>6. GoesOn(t)
    BY <1>1, <1>2, <1>5 DEF GoesOn, TypeOK, Thread
<1>7. \A u \in Threads : threads'[u] = threads[u] \/ GoesOn(u) \/ RestsFrom(u)
    BY <1>1, <1>2, <1>6 DEF TypeOK
<1> QED
    BY <1>2, <1>4, <1>7, KeepingIInv

LEMMA MissesIInv ==
    ASSUME IInv, NEW t \in Threads, Misses(t)
    PROVE  IInv'
<1> DEFINE key == threads[t].token
           me == [threads[t] EXCEPT !.pc = "compute"]
<1>1. TypeOK
    BY DEF IInv
<1>2. /\ threads[t].pc = "lookup"
      /\ threads' = [threads EXCEPT ![t] = me]
      /\ entries' = [k \in DOMAIN entries \ {key} |-> entries[k]] /\ UNCHANGED tables
    BY <1>1 DEF Misses, KeyOf, TypeOK
<1>3. me \in Thread
    BY <1>1 DEF TypeOK, Thread
<1>4. threads' \in [Threads -> Thread] /\ entries' \in [DOMAIN entries' -> Entry]
    BY <1>1, <1>2, <1>3 DEF TypeOK
<1>5. GoesOn(t)
    BY <1>1, <1>2 DEF GoesOn, TypeOK, Thread
<1>6. \A u \in Threads : threads'[u] = threads[u] \/ GoesOn(u) \/ RestsFrom(u)
    BY <1>1, <1>2, <1>5 DEF TypeOK
<1> QED
    BY <1>2, <1>4, <1>6, KeepingIInv

LEMMA RestingIInv ==
    ASSUME IInv, NEW t \in Threads, threads' = [threads EXCEPT ![t] = NoRequest],
           UNCHANGED <<tables, entries>>
    PROVE  IInv'
<1>1. TypeOK
    BY DEF IInv
<1>2. threads' \in [Threads -> Thread] /\ entries' \in [DOMAIN entries' -> Entry]
    BY <1>1, NoRequestType DEF TypeOK
<1>3. RestsFrom(t)
    BY <1>1 DEF RestsFrom, NoRequest, TypeOK
<1>4. \A u \in Threads : threads'[u] = threads[u] \/ GoesOn(u) \/ RestsFrom(u)
    BY <1>1, <1>3 DEF TypeOK
<1> QED
    BY <1>1, <1>2, <1>4, KeepingIInv

LEMMA TickIInv ==
    ASSUME IInv, Tick
    PROVE  IInv'
<1>1. TypeOK
    BY DEF IInv
<1>2. /\ entries' = [k \in DOMAIN entries |-> [entries[k] EXCEPT !.life = Later(@)]]
      /\ threads' = [t \in Threads |-> [threads[t] EXCEPT !.life = Later(@)]]
      /\ UNCHANGED tables
    BY DEF Tick
<1>3. \A n \in 0 .. TTL : Later(n) \in 0 .. TTL
    BY DEF Later
<1>4. ASSUME NEW k \in DOMAIN entries
      PROVE  entries'[k] \in Entry /\ entries'[k].asOf = entries[k].asOf
    BY <1>1, <1>2, <1>3 DEF TypeOK, Entry
<1>5. ASSUME NEW t \in Threads
      PROVE  /\ threads'[t] \in Thread
             /\ threads'[t].pc = threads[t].pc /\ threads'[t].token = threads[t].token
             /\ threads'[t].since = threads[t].since /\ threads'[t].asOf = threads[t].asOf
    BY <1>1, <1>2, <1>3 DEF TypeOK, Thread
<1>6. threads' \in [Threads -> Thread] /\ entries' \in [DOMAIN entries' -> Entry]
    BY <1>2, <1>4, <1>5
<1>7. TypeOK' /\ NothingAhead'
    BY <1>1, <1>2, <1>5, <1>6 DEF IInv, TypeOK, NothingAhead, tables
<1>8. ASSUME orderly' PROVE Fresh'
    <2>1. Fresh
        BY <1>2, <1>8 DEF IInv, tables
    <2>2. DOMAIN entries' = DOMAIN entries
        BY <1>2
    <2>3. JobIsAhead'
        BY <1>2, <1>5, <2>1 DEF Fresh, JobIsAhead, Running, tables
    <2>4. NewestIsPresent'
        <3>1. generated' = generated /\ version' = version
            BY <1>2 DEF tables
        <3>2. \A k \in DOMAIN entries' : IsNewest(k)' => entries'[k].asOf = version'
            BY <1>4, <2>1, <2>2, <3>1 DEF Fresh, NewestIsPresent, IsNewest
        <3>3. \A t \in Threads : threads'[t].pc = "store" /\ IsNewest(threads[t].token)'
                                    => threads'[t].asOf = version'
            <4> TAKE t \in Threads
            <4>1. IsNewest(threads[t].token)' => IsNewest(threads[t].token)
                BY <1>5, <3>1 DEF IsNewest
            <4> QED
                BY <1>5, <2>1, <3>1, <4>1 DEF Fresh, NewestIsPresent
        <3> QED
            BY <3>2, <3>3 DEF NewestIsPresent
    <2>5. KeysAreFresh'
        <3> SUFFICES ASSUME NEW t \in Threads, threads'[t].pc # "idle"
                     PROVE  /\ threads'[t].token \in DOMAIN entries'
                                  => entries'[threads'[t].token].asOf >= threads'[t].since
                            /\ \A u \in Threads :
                                  threads'[u].pc = "store" /\ threads'[u].token = threads'[t].token
                                     => threads'[u].asOf >= threads'[t].since
            BY DEF KeysAreFresh
        <3> QED
            BY <1>4, <1>5, <2>1, <2>2 DEF Fresh, KeysAreFresh
    <2>6. AnsweredIsFresh'
        BY <1>5, <2>1 DEF Fresh, AnsweredIsFresh
    <2> QED
        BY <2>3, <2>4, <2>5, <2>6 DEF Fresh
<1> QED
    BY <1>7, <1>8 DEF IInv

LEMMA ComputeIInv ==
    ASSUME IInv, NEW t \in Threads, Compute(t)
    PROVE  IInv'
<1> DEFINE me == [threads[t] EXCEPT !.pc = "store", !.asOf = version, !.life = TTL]
<1>1. TypeOK /\ NothingAhead
    BY DEF IInv
<1>2. /\ threads[t].pc = "compute"
      /\ threads' = [threads EXCEPT ![t] = me]
      /\ entries' = entries /\ UNCHANGED tables
    BY <1>1 DEF Compute, TypeOK
<1>3. me \in Thread
    <2>1. threads[t] \in Thread /\ version \in Nat /\ TTL \in 0 .. TTL
        BY <1>1 DEF TypeOK
    <2> QED
        BY <2>1 DEF Thread
<1>4. /\ threads'[t].pc = "store" /\ threads'[t].asOf = version
      /\ threads'[t].token = threads[t].token /\ threads'[t].since = threads[t].since
    BY <1>1, <1>2 DEF TypeOK, Thread
<1>5. \A u \in Threads \ {t} : threads'[u] = threads[u]
    BY <1>1, <1>2 DEF TypeOK
<1>6. TypeOK'
    BY <1>1, <1>2, <1>3 DEF TypeOK, tables
<1>7. NothingAhead'
    <2>1. \A u \in Threads : threads'[u].token <= starts /\ threads'[u].since <= version
        BY <1>1, <1>4, <1>5 DEF NothingAhead
    <2> QED
        BY <1>1, <1>2, <2>1 DEF NothingAhead, tables
<1>8. ASSUME orderly' PROVE Fresh'
    <2>1. Fresh
        BY <1>2, <1>8 DEF IInv, tables
    <2>2. /\ generated' = generated /\ version' = version
          /\ starts' = starts /\ jobs' = jobs
        BY <1>2 DEF tables
    <2>3. JobIsAhead'
        <3>1. \A u \in Threads : threads'[u].token = threads[u].token
            BY <1>4, <1>5
        <3> QED
            BY <1>2, <2>1, <2>2, <3>1 DEF Fresh, JobIsAhead, Running
    <2>4. NewestIsPresent'
        <3>1. ASSUME NEW u \in Threads, threads'[u].pc = "store", IsNewest(threads[u].token)'
              PROVE  threads'[u].asOf = version
            <4>1. CASE u = t
                BY <1>4, <4>1
            <4>2. CASE u # t
                <5>1. threads'[u] = threads[u]
                    BY <1>5, <4>2
                <5>2. IsNewest(threads[u].token)
                    BY <2>2, <3>1, <5>1 DEF IsNewest
                <5> QED
                    BY <2>1, <3>1, <5>1, <5>2 DEF Fresh, NewestIsPresent
            <4> QED
                BY <4>1, <4>2
        <3> QED
            BY <1>2, <2>1, <2>2, <3>1 DEF Fresh, NewestIsPresent, IsNewest
    <2>5. KeysAreFresh'
        <3> SUFFICES ASSUME NEW u \in Threads, threads'[u].pc # "idle"
                     PROVE  /\ threads'[u].token \in DOMAIN entries'
                                  => entries'[threads'[u].token].asOf >= threads'[u].since
                            /\ \A w \in Threads :
                                  threads'[w].pc = "store" /\ threads'[w].token = threads'[u].token
                                     => threads'[w].asOf >= threads'[u].since
            BY DEF KeysAreFresh
        <3>1. /\ threads[u].pc # "idle" /\ threads'[u].token = threads[u].token
              /\ threads'[u].since = threads[u].since /\ threads[u].since <= version
            BY <1>1, <1>2, <1>4, <1>5 DEF NothingAhead
        <3>2. version \in Nat /\ threads[u].since \in Nat
            BY <1>1 DEF TypeOK, Thread
        <3>3. ASSUME NEW w \in Threads, threads'[w].pc = "store",
                     threads'[w].token = threads'[u].token
              PROVE  threads'[w].asOf >= threads'[u].since
            <4>1. CASE w = t
                BY <1>4, <3>1, <3>2, <4>1
            <4>2. CASE w # t
                BY <1>5, <2>1, <3>1, <3>3, <4>2 DEF Fresh, KeysAreFresh
            <4> QED
                BY <4>1, <4>2
        <3> QED
            BY <1>2, <2>1, <3>1, <3>3 DEF Fresh, KeysAreFresh
    <2>6. AnsweredIsFresh'
        BY <1>4, <1>5, <2>1 DEF Fresh, AnsweredIsFresh
    <2> QED
        BY <2>3, <2>4, <2>5, <2>6 DEF Fresh
<1> QED
    BY <1>6, <1>7, <1>8 DEF IInv

LEMMA ReadTokenIInv ==
    ASSUME IInv, NEW t \in Threads, ReadToken(t)
    PROVE  IInv'
<1>1. TypeOK /\ NothingAhead
    BY DEF IInv
<1>2. PICK newest \in Stamps :
         /\ IsNewest(newest)
         /\ threads' = [threads EXCEPT ![t] =
                [pc |-> "lookup", token |-> newest, since |-> version, asOf |-> 0, life |-> 0]]
    BY DEF ReadToken
<1>3. entries' = entries /\ UNCHANGED tables
    BY DEF ReadToken
<1> DEFINE me == [pc |-> "lookup", token |-> newest, since |-> version, asOf |-> 0, life |-> 0]
<1>4. me \in Thread /\ me.pc = "lookup" /\ me.token = newest /\ me.since = version
    <2>1. version \in Nat /\ 0 \in 0 .. TTL /\ 0 \in Nat
        BY <1>1 DEF TypeOK
    <2> QED
        BY <1>2, <2>1 DEF Thread
<1>5. threads' = [threads EXCEPT ![t] = me]
    BY <1>2
<1> HIDE DEF me
<1>6. threads'[t] = me /\ \A u \in Threads \ {t} : threads'[u] = threads[u]
    BY <1>1, <1>5 DEF TypeOK
<1>7. TypeOK'
    BY <1>1, <1>3, <1>4, <1>5 DEF TypeOK, tables
<1>8. newest <= starts
    BY <1>1, <1>2 DEF NothingAhead, IsNewest, TypeOK
<1>9. NothingAhead'
    <2>1. \A u \in Threads : threads'[u].token <= starts /\ threads'[u].since <= version
        BY <1>1, <1>4, <1>6, <1>8 DEF NothingAhead, TypeOK
    <2> QED
        BY <1>1, <1>3, <2>1 DEF NothingAhead, tables
<1>10. ASSUME orderly' PROVE Fresh'
    <2>1. Fresh
        BY <1>3, <1>10 DEF IInv, tables
    <2>2. /\ generated' = generated /\ version' = version
          /\ starts' = starts /\ jobs' = jobs
        BY <1>3 DEF tables
    <2>3. JobIsAhead'
        <3>1. ASSUME NEW j \in Jobs, Running(j)
              PROVE  newest < starts
            <4>1. 0 < starts
                BY <1>1, <2>1, <3>1 DEF Fresh, JobIsAhead, TypeOK, Thread
            <4> QED
                BY <1>2, <2>1, <3>1, <4>1 DEF Fresh, JobIsAhead, IsNewest
        <3>2. \A j \in Jobs : Running(j) => \A u \in Threads : threads'[u].token < starts
            BY <1>4, <1>6, <2>1, <3>1 DEF Fresh, JobIsAhead
        <3> QED
            BY <1>3, <2>1, <2>2, <3>2 DEF Fresh, JobIsAhead, Running
    <2>4. NewestIsPresent'
        <3>1. ASSUME NEW u \in Threads, threads'[u].pc = "store", IsNewest(threads[u].token)'
              PROVE  threads'[u].asOf = version
            <4>1. threads'[u] = threads[u]
                BY <1>4, <1>6, <3>1
            <4>2. IsNewest(threads[u].token)
                BY <2>2, <3>1, <4>1 DEF IsNewest
            <4> QED
                BY <2>1, <3>1, <4>1, <4>2 DEF Fresh, NewestIsPresent
        <3> QED
            BY <1>3, <2>1, <2>2, <3>1 DEF Fresh, NewestIsPresent, IsNewest
    <2>5. KeysAreFresh'
        <3>1. \A w \in Threads : threads'[w].pc = "store" => threads'[w] = threads[w]
            BY <1>4, <1>6
        <3> SUFFICES ASSUME NEW u \in Threads, threads'[u].pc # "idle"
                     PROVE  /\ threads'[u].token \in DOMAIN entries
                                  => entries[threads'[u].token].asOf >= threads'[u].since
                            /\ \A w \in Threads :
                                  threads[w].pc = "store" /\ threads[w].token = threads'[u].token
                                     => threads[w].asOf >= threads'[u].since
            BY <1>3, <3>1 DEF KeysAreFresh
        <3>2. CASE u = t
            <4>1. threads'[u].token = newest /\ threads'[u].since = version /\ version \in Nat
                BY <1>1, <1>4, <1>6, <3>2 DEF TypeOK
            <4> QED
                BY <1>2, <2>1, <4>1 DEF Fresh, NewestIsPresent
        <3>3. CASE u # t
            BY <1>6, <2>1, <3>3 DEF Fresh, KeysAreFresh
        <3> QED
            BY <3>2, <3>3
    <2>6. AnsweredIsFresh'
        BY <1>4, <1>6, <2>1 DEF Fresh, AnsweredIsFresh
    <2> QED
        BY <2>3, <2>4, <2>5, <2>6 DEF Fresh
<1> QED
    BY <1>7, <1>9, <1>10 DEF IInv

LEMMA StoreIInv ==
    ASSUME IInv, NEW t \in Threads, Store(t)
    PROVE  IInv'
<1>1. TypeOK /\ NothingAhead
    BY DEF IInv
<1> DEFINE me == [threads[t] EXCEPT !.pc = "answered"]
<1>2. PICK key \in Stamps, value \in Entry :
         key = threads[t].token /\ value = [asOf |-> threads[t].asOf, life |-> threads[t].life]
    BY <1>1 DEF TypeOK, Thread, Entry
<1>3. value.asOf = threads[t].asOf
    BY <1>2
<1>4. /\ threads[t].pc = "store" /\ UNCHANGED tables
      /\ threads' = [threads EXCEPT ![t] = me]
      /\ \E gone \in Evictions :
            entries' = [k \in (DOMAIN entries \ gone) \cup {key} |->
                           IF k = key THEN value ELSE entries[k]]
    BY <1>1, <1>2 DEF Store, KeyOf, TypeOK
<1>5. PICK gone \in Evictions :
         entries' = [k \in (DOMAIN entries \ gone) \cup {key} |->
                        IF k = key THEN value ELSE entries[k]]
    BY <1>4
<1>6. /\ key \in DOMAIN entries' /\ entries'[key] = value
      /\ DOMAIN entries' \subseteq DOMAIN entries \cup {key}
      /\ \A k \in DOMAIN entries' \ {key} : k \in DOMAIN entries /\ entries'[k] = entries[k]
    BY <1>5
<1>7. /\ me \in Thread /\ me.pc = "answered" /\ me.asOf = threads[t].asOf
      /\ me.token = threads[t].token /\ me.since = threads[t].since
    BY <1>1 DEF TypeOK, Thread
<1>8. threads'[t] = me /\ \A u \in Threads \ {t} : threads'[u] = threads[u]
    BY <1>1, <1>4 DEF TypeOK
<1> HIDE DEF me
<1>9. TypeOK'
    <2>1. threads' \in [Threads -> Thread]
        BY <1>1, <1>4, <1>7 DEF TypeOK
    <2>2. \A k \in DOMAIN entries' : k \in Stamps /\ entries'[k] \in Entry
        BY <1>1, <1>2, <1>6 DEF TypeOK
    <2>3. entries' = [k \in DOMAIN entries' |-> entries'[k]]
        BY <1>5
    <2>4. entries' \in [DOMAIN entries' -> Entry]
        BY <2>2, <2>3
    <2> QED
        BY <1>1, <1>4, <2>1, <2>2, <2>4 DEF TypeOK, tables
<1>10. \A u \in Threads : threads'[u].token = threads[u].token /\ threads'[u].since = threads[u].since
    BY <1>7, <1>8
<1>11. NothingAhead'
    <2>1. \A k \in DOMAIN entries' : k <= starts
        BY <1>1, <1>2, <1>6 DEF NothingAhead
    <2> QED
        BY <1>1, <1>4, <1>10, <2>1 DEF NothingAhead, tables
<1>12. ASSUME orderly' PROVE Fresh'
    <2>1. Fresh
        BY <1>4, <1>12 DEF IInv, tables
    <2>2. /\ generated' = generated /\ version' = version
          /\ starts' = starts /\ jobs' = jobs
        BY <1>4 DEF tables
    <2>3. JobIsAhead'
        <3>1. \A j \in Jobs : Running(j) => \A k \in DOMAIN entries' : k < starts
            BY <1>2, <1>6, <2>1 DEF Fresh, JobIsAhead
        <3> QED
            BY <1>10, <2>1, <2>2, <3>1 DEF Fresh, JobIsAhead, Running
    <2>4. \A u \in Threads : threads'[u].pc = "store" => threads'[u] = threads[u]
        BY <1>7, <1>8
    <2>5. NewestIsPresent'
        <3>1. ASSUME NEW k \in DOMAIN entries', IsNewest(k)'
              PROVE  entries'[k].asOf = version
            <4>1. PICK s \in Stamps : s = k
                BY <1>9 DEF TypeOK
            <4>2. IsNewest(s)
                BY <2>2, <3>1, <4>1 DEF IsNewest
            <4>3. CASE s = key
                <5>1. IsNewest(threads[t].token)
                    BY <1>2, <4>2, <4>3
                <5> QED
                    BY <1>3, <1>4, <1>6, <2>1, <4>1, <4>3, <5>1 DEF Fresh, NewestIsPresent
            <4>4. CASE s # key
                BY <1>6, <2>1, <4>1, <4>2, <4>4 DEF Fresh, NewestIsPresent
            <4> QED
                BY <4>3, <4>4
        <3>2. ASSUME NEW u \in Threads, threads'[u].pc = "store", IsNewest(threads[u].token)'
              PROVE  threads'[u].asOf = version
            <4>1. IsNewest(threads[u].token)
                BY <2>2, <2>4, <3>2 DEF IsNewest
            <4> QED
                BY <2>1, <2>4, <3>2, <4>1 DEF Fresh, NewestIsPresent
        <3> QED
            BY <2>2, <3>1, <3>2 DEF NewestIsPresent
    <2>6. KeysAreFresh'
        <3> SUFFICES ASSUME NEW u \in Threads, threads'[u].pc # "idle"
                     PROVE  /\ threads'[u].token \in DOMAIN entries'
                                  => entries'[threads'[u].token].asOf >= threads'[u].since
                            /\ \A w \in Threads :
                                  threads'[w].pc = "store" /\ threads'[w].token = threads'[u].token
                                     => threads'[w].asOf >= threads'[u].since
            BY DEF KeysAreFresh
        <3>1. threads[u].pc # "idle"
            BY <1>4, <1>8
        <3>2. threads[u].token = key => value.asOf >= threads[u].since
            BY <1>2, <1>3, <1>4, <2>1, <3>1 DEF Fresh, KeysAreFresh
        <3> QED
            BY <1>6, <1>10, <2>1, <2>4, <3>1, <3>2 DEF Fresh, KeysAreFresh
    <2>7. AnsweredIsFresh'
        <3>1. threads[t].asOf >= threads[t].since
            BY <1>4, <2>1 DEF Fresh, KeysAreFresh
        <3> QED
            BY <1>7, <1>8, <2>1, <3>1 DEF Fresh, AnsweredIsFresh
    <2> QED
        BY <2>3, <2>5, <2>6, <2>7 DEF Fresh
<1> QED
    BY <1>9, <1>11, <1>12 DEF IInv

-----------------------------------------------------------------------------
LEMMA NextIInv == IInv /\ [Next]_vars => IInv'
<1> SUFFICES ASSUME IInv, [Next]_vars PROVE IInv'
    OBVIOUS
<1>1. ASSUME NEW t \in Threads, ReadToken(t) \/ Request(t) PROVE IInv'
    <2>1. CASE ComputeFails(t) \/ Finish(t)
        BY <2>1, RestingIInv DEF ComputeFails, Finish
    <2> QED
        BY <1>1, <2>1, ReadTokenIInv, HitIInv, MissesIInv, ComputeIInv, StoreIInv DEF Request
<1>2. CASE UNCHANGED vars
    BY <1>2 DEF vars, IInv, TypeOK, NothingAhead, Fresh, JobIsAhead, NewestIsPresent,
                KeysAreFresh, AnsweredIsFresh, Running, IsNewest
<1> QED
    BY <1>1, <1>2, StartRebuildIInv, CommitRebuildIInv, AbortRebuildIInv, TickIInv DEF Next

LEMMA SpecIInv == Spec => []IInv
<1>1. Init => IInv
    BY InitIInv
<1>2. IInv /\ [Next]_vars => IInv'
    BY NextIInv
<1> QED
    BY <1>1, <1>2, PTL DEF Spec

\* The types of the cache, for every number of threads, jobs, buckets and entries.
THEOREM TypeCorrect == Spec => []TypeOK
<1>1. IInv => TypeOK
    BY DEF IInv
<1> QED
    BY <1>1, SpecIInv, PTL

\* The freshness token does its work: get_or_compute of statistics_cache.py never
\* returns an answer older than the rollups that its request found, as long as
\* jobs run one after the other and no bucket loses its rows.
THEOREM CurrentAnswers == Spec => []AnswersAreCurrent
<1>1. IInv => AnswersAreCurrent
    BY DEF IInv, Fresh, AnsweredIsFresh, AnswersAreCurrent
<1> QED
    BY <1>1, SpecIInv, PTL

-----------------------------------------------------------------------------
(* The bound of the cache.                                                 *)

LEMMA FiniteKeys ==
    ASSUME TypeOK
    PROVE  IsFiniteSet(DOMAIN entries) /\ Cardinality(DOMAIN entries) \in Nat
<1>1. IsFiniteSet(Stamps)
    BY FS_Interval
<1> QED
    BY <1>1, FS_Subset, FS_CardinalityType DEF TypeOK

LEMMA FewerKeys ==
    ASSUME TypeOK, Bounded, NEW keys \in SUBSET DOMAIN entries
    PROVE  Cardinality(keys) <= MaxEntries
<1>1. IsFiniteSet(keys) /\ Cardinality(keys) <= Cardinality(DOMAIN entries)
    BY FiniteKeys, FS_Subset
<1>2. \A m, n \in Nat : m <= n /\ n <= MaxEntries => m <= MaxEntries
    OBVIOUS
<1>3. Cardinality(keys) \in Nat
    BY <1>1, FS_CardinalityType
<1> QED
    BY <1>1, <1>2, <1>3, FiniteKeys DEF Bounded

\* At the limit one key goes before one comes.
LEMMA StoreBounded ==
    ASSUME TypeOK, Bounded, NEW t \in Threads, Store(t)
    PROVE  Bounded'
<1>1. PICK gone \in Evictions : DOMAIN entries' = (DOMAIN entries \ gone) \cup {threads[t].token}
    BY DEF Store, KeyOf
<1> DEFINE keys == DOMAIN entries \ gone
<1>2. IsFiniteSet(keys) /\ Cardinality(keys) \in Nat
    BY FiniteKeys, FS_Subset, FS_CardinalityType
<1>3. Cardinality(keys) < MaxEntries
    <2>1. CASE IsFull(Cardinality(DOMAIN entries))
        <3>1. PICK k \in DOMAIN entries : gone = {k}
            BY <1>1, <2>1 DEF Evictions
        <3>2. Cardinality(keys) = Cardinality(DOMAIN entries) - 1
            BY <3>1, FiniteKeys, FS_RemoveElement
        <3>3. \A n \in Nat : n <= MaxEntries => n - 1 < MaxEntries
            OBVIOUS
        <3> QED
            BY <3>2, <3>3, FiniteKeys DEF Bounded
    <2>2. CASE ~ IsFull(Cardinality(DOMAIN entries))
        <3>1. keys = DOMAIN entries
            BY <1>1, <2>2 DEF Evictions
        <3>2. \A n \in Nat : ~ (n >= MaxEntries) => n < MaxEntries
            OBVIOUS
        <3> QED
            BY <2>2, <3>1, <3>2, FiniteKeys DEF IsFull
    <2> QED
        BY <2>1, <2>2
<1>4. DOMAIN entries' = keys \cup {threads[t].token}
    BY <1>1
<1> HIDE DEF keys
<1>5. \/ Cardinality(DOMAIN entries') = Cardinality(keys)
      \/ Cardinality(DOMAIN entries') = Cardinality(keys) + 1
    BY <1>2, <1>4, FS_AddElement
<1>6. \A n \in Nat : n < MaxEntries => n <= MaxEntries /\ n + 1 <= MaxEntries
    OBVIOUS
<1> QED
    BY <1>2, <1>3, <1>5, <1>6 DEF Bounded

LEMMA InitBounded == Init => Bounded
<1> SUFFICES ASSUME Init PROVE Bounded
    OBVIOUS
<1>1. DOMAIN entries = {}
    BY DEF Init
<1> QED
    BY <1>1, FS_EmptySet DEF Bounded

LEMMA NextBounded == TypeOK /\ Bounded /\ [Next]_vars => Bounded'
<1> SUFFICES ASSUME TypeOK, Bounded, [Next]_vars PROVE Bounded'
    OBVIOUS
<1>1. ASSUME NEW t \in Threads, Store(t) PROVE Bounded'
    BY <1>1, StoreBounded
<1>2. ASSUME DOMAIN entries' \subseteq DOMAIN entries PROVE Bounded'
    BY <1>2, FewerKeys DEF Bounded
<1>3. ASSUME NEW j \in Jobs, NEW bs, StartRebuild(j, bs) \/ CommitRebuild(j, bs) \/ AbortRebuild(j)
      PROVE  entries' = entries
    BY <1>3 DEF StartRebuild, CommitRebuild, AbortRebuild, service
<1>4. ASSUME NEW t \in Threads, ReadToken(t) \/ Hit(t) \/ Misses(t) \/ Compute(t)
                                   \/ ComputeFails(t) \/ Finish(t)
      PROVE  DOMAIN entries' \subseteq DOMAIN entries
    BY <1>4 DEF ReadToken, Hit, Misses, Compute, ComputeFails, Finish
<1>5. CASE Tick \/ UNCHANGED vars
    BY <1>2, <1>5 DEF Tick, vars
<1> QED
    BY <1>1, <1>2, <1>3, <1>4, <1>5 DEF Next, Request

\* _evict_if_needed of statistics_cache.py keeps the cache within max_entries,
\* whatever number of threads stores at the limit.
THEOREM CacheBounded == Spec => []Bounded
<1>1. Init => Bounded
    BY InitBounded
<1>2. TypeOK /\ Bounded /\ [Next]_vars => Bounded'
    BY NextBounded
<1> QED
    BY <1>1, <1>2, TypeCorrect, PTL DEF Spec

=============================================================================
