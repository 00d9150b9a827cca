-------------------------- MODULE Campaigns_proofs --------------------------
(***************************************************************************)
(* What Campaigns guarantees for every number of articles, endpoints,      *)
(* schedulers and commands.  The invariants of the rows are not inductive: *)
(* a runner writes a status it decided on several steps before, so the     *)
(* inductive invariant says what each pc still knows (RunnersKnow).        *)
(***************************************************************************)
EXTENDS Campaigns, FiniteSetTheorems, TLAPS

USE DEF Ids, Terminal, Status, ObservationWindow, Outcomes, Working

\* What a process that has read a row still knows when it acts on it, although
\* every other process has been running since: the row exists, the decision to
\* expire or complete it stands, and `current' is not in the future.
Know(r) ==
    /\ run[r].now <= clock
    /\ \A c \in run[r].queue : status[c] # "unused"
    /\ run[r].pc \in Working => status[run[r].id] # "unused"
    /\ run[r].pc = "expire" => run[r].now >= campaign[run[r].id].expires
    /\ run[r].pc = "complete" =>
         Cardinality(VisibleOn(campaign[run[r].id].article)) >= campaign[run[r].id].stop

RunnersKnow ==
    /\ \A r \in Runners : Know(r)
    /\ \A s \in Setters : setter[s].pc = "write" => status[setter[s].id] # "unused"

IInv == /\ TypeOK
        /\ RunnersKnow
        /\ CompletedIsVisible
        /\ ExpiredIsOver

LEMMA BlankType == Blank \in Campaign
BY ConstantsAssumption DEF Blank, Campaign

LEMMA InitIInv == Init => IInv
<1> SUFFICES ASSUME Init PROVE IInv
    OBVIOUS
<1>1. TypeOK
    BY BlankType, ConstantsAssumption
    DEF Init, TypeOK, IdleRun, RunState, IdleSetter, SetterState
<1>2. RunnersKnow
    BY DEF Init, RunnersKnow, Know, IdleRun, IdleSetter
<1>3. CompletedIsVisible /\ ExpiredIsOver
    BY DEF Init, CompletedIsVisible, ExpiredIsOver
<1> QED
    BY <1>1, <1>2, <1>3 DEF IInv

-----------------------------------------------------------------------------
LEMMA BetweenType ==
    ASSUME NEW Q \in SUBSET Ids, NEW n \in 0 .. MaxClock
    PROVE  Between(Q, n) \in RunState /\ Between(Q, n).pc = "next"
BY ConstantsAssumption DEF Between, RunState

LEMMA DownType == DownRun \in RunState /\ DownRun.pc = "down"
BY ConstantsAssumption DEF DownRun, IdleRun, RunState

LEMMA IdleType == IdleRun \in RunState /\ IdleRun.pc = "idle"
BY ConstantsAssumption DEF IdleRun, RunState

LEMMA DoneType == DoneRun \in RunState /\ DoneRun.pc = "done"
BY ConstantsAssumption DEF DoneRun, IdleRun, RunState

\* An endpoint that has shown the article in one of the rows o.
Shown(o) == \E i \in DOMAIN o : o[i].outcome = "present"

\* The rows o with one more.
LEMMA OneMoreRow ==
    ASSUME NEW o \in Seq(Observation), NEW at \in Nat, NEW outcome \in Outcomes
    PROVE  /\ Append(o, [at |-> at, outcome |-> outcome]) \in Seq(Observation)
           /\ Shown(o) => Shown(Append(o, [at |-> at, outcome |-> outcome]))
<1>1. [at |-> at, outcome |-> outcome] \in Observation
    BY DEF Observation
<1>2. PICK row \in Observation : row = [at |-> at, outcome |-> outcome]
    BY <1>1
<1>3. Append(o, row) \in Seq(Observation)
    OBVIOUS
<1>4. \A i \in DOMAIN o : i \in DOMAIN Append(o, row) /\ Append(o, row)[i] = o[i]
    OBVIOUS
<1> QED
    BY <1>2, <1>3, <1>4 DEF Shown

\* The local state of one runner is replaced by another of the right type.
LEMMA RunnerType ==
    ASSUME TypeOK, NEW r \in Runners, NEW v \in RunState,
           v.pc \in Working => v.id \in Ids,
           run' = [run EXCEPT ![r] = v]
    PROVE  /\ run' \in [Runners -> RunState]
           /\ \A q \in Runners : run'[q].pc \in Working => run'[q].id \in Ids
BY DEF TypeOK

LEMMA RecordTypes ==
    ASSUME TypeOK, NEW r \in Runners, NEW e \in Endpoints, Record(r, e)
    PROVE  /\ run[r].id \in Ids /\ run[r].asked \in Nat
           /\ campaign[run[r].id].article \in Articles
<1>1. run[r] \in RunState /\ run[r].id \in Ids
    BY DEF TypeOK, Record
<1>2. campaign[run[r].id] \in Campaign
    BY <1>1 DEF TypeOK
<1>3. run[r].asked \in 0 .. MaxClock
    BY <1>1 DEF RunState
<1> QED
    BY <1>1, <1>2, <1>3, ConstantsAssumption DEF Campaign

\* Every step keeps the types.
LEMMA TypeStep == TypeOK /\ [Next]_vars => TypeOK'
<1> SUFFICES ASSUME TypeOK, [Next]_vars PROVE TypeOK'
    OBVIOUS
<1> USE ConstantsAssumption
<1>1. CASE Create
  <2> PICK a \in Articles, T \in SUBSET Endpoints, i \in Intervals, ttl \in Ttls :
           \E k \in 1 .. Cardinality(T) : CreateCampaign(a, T, k, i, ttl)
      BY <1>1 DEF Create
  <2> PICK k \in 1 .. Cardinality(T) : CreateCampaign(a, T, k, i, ttl)
      OBVIOUS
  <2>1. k \in Nat /\ clock + ttl \in Nat
      BY FS_Subset, FS_CardinalityType DEF TypeOK
  <2>2. [article |-> a, targets |-> T, stop |-> k, interval |-> i,
         expires |-> clock + ttl] \in Campaign
      BY <2>1 DEF Campaign
  <2> QED
      BY <2>2 DEF CreateCampaign, TypeOK
<1>2. CASE \E s \in Setters, c \in Ids, st \in {"active", "disabled"} : ReadStatus(s, c, st)
    BY <1>2 DEF ReadStatus, TypeOK, SetterState, rows
<1>3. CASE \E s \in Setters : WriteStatus(s)
  <2> PICK s \in Setters : WriteStatus(s)
      BY <1>3
  <2>1. setter[s].id \in Ids /\ setter[s].to \in Status
      BY DEF WriteStatus, TypeOK, SetterState
  <2> QED
      BY <2>1 DEF WriteStatus, TypeOK, SetterState, IdleSetter
<1>4. CASE \E s \in Servers : SetServerEnabled(s)
    BY <1>4 DEF SetServerEnabled, TypeOK, rows
<1>5. CASE \E r \in Schedulers : StartPass(r)
  <2> PICK r \in Schedulers : StartPass(r)
      BY <1>5
  <2>1. Lowest({c \in Ids : status[c] = "active"}, BatchLimit) \in SUBSET Ids
      BY DEF Lowest
  <2>2. Between(Lowest({c \in Ids : status[c] = "active"}, BatchLimit), clock) \in RunState
      BY <2>1, BetweenType DEF TypeOK
  <2> QED
      BY <2>2 DEF StartPass, TypeOK, rows, Between, Runners
<1>6. CASE \E r \in Operators, c \in Ids : StartOne(r, c)
  <2> PICK r \in Operators, c \in Ids : StartOne(r, c)
      BY <1>6
  <2>1. Between({c}, clock) \in RunState
      BY BetweenType DEF TypeOK
  <2> QED
      BY <2>1 DEF StartOne, TypeOK, rows, Between, Runners
<1>7. CASE \E r \in Runners : Step(r)
  <2> PICK r \in Runners : Step(r)
      BY <1>7
  <2>1. CASE \E c \in Ids : Load(r, c)
    <3> PICK c \in Ids : Load(r, c)
        BY <2>1
    <3> PICK label \in {"next", "expire", "cycle"} : Take(r, c, label)
        BY DEF Load, Expired
    <3> DEFINE v == [run[r] EXCEPT !.pc = label, !.id = c, !.queue = @ \ {c}]
    <3>3. run[r] \in RunState
        BY DEF TypeOK
    <3>1. v \in RunState /\ v.id \in Ids
        BY <3>3 DEF RunState
    <3>2. run' = [run EXCEPT ![r] = v]
        BY DEF Take
    <3> QED
        BY <3>1, <3>2, RunnerType DEF Load, Expired, TypeOK, rows
  <2>2. CASE \E e \in Endpoints : Ask(r, e)
    <3> PICK e \in Endpoints : Ask(r, e)
        BY <2>2
    <3>1. CASE Raise(r)
        BY <3>1, DownType, RunnerType DEF Ask, Raise, TypeOK, rows
    <3> DEFINE v == [run[r] EXCEPT !.pc = "record", !.asked = clock]
    <3>2. CASE run' = [run EXCEPT ![r].pc = "record", ![r].asked = clock]
      <4>3. run[r] \in RunState /\ clock \in 0 .. MaxClock
          BY DEF TypeOK
      <4>4. run[r].id \in Ids
          BY DEF Ask, TypeOK, Working
      <4>1. v \in RunState /\ v.id \in Ids
          BY <4>3, <4>4 DEF RunState
      <4>2. run' = [run EXCEPT ![r] = v]
          BY <3>2
      <4> QED
          BY <4>1, <4>2, RunnerType DEF Ask, TypeOK, rows
    <3> QED
        BY <3>1, <3>2 DEF Ask
  <2>10. CASE \E e \in Endpoints : Record(r, e)
    <3> PICK e \in Endpoints : Record(r, e)
        BY <2>10
    <3>1. CASE Raise(r) /\ UNCHANGED obs
        BY <3>1, DownType, RunnerType DEF Record, Raise, TypeOK, rows
    <3> DEFINE a == campaign[run[r].id].article
               v == [run[r] EXCEPT !.pc = "probe", !.due = @ \ {e}, !.asked = 0]
    <3>2. ASSUME NEW outcome \in Outcomes,
                 obs' = [obs EXCEPT ![a][e] =
                             Append(@, [at |-> run[r].asked, outcome |-> outcome])],
                 run' = [run EXCEPT ![r].pc = "probe", ![r].due = @ \ {e}, ![r].asked = 0]
          PROVE  TypeOK'
      <4>1. a \in Articles /\ run[r].asked \in Nat /\ run[r].id \in Ids
          BY RecordTypes
      <4>2. PICK o \in Seq(Observation) : o = obs[a][e]
          BY <4>1 DEF TypeOK
      <4>3. PICK p \in Seq(Observation) :
                p = Append(o, [at |-> run[r].asked, outcome |-> outcome])
          BY <4>1, OneMoreRow
      <4>4. obs' = [obs EXCEPT ![a][e] = p]
          BY <3>2, <4>2, <4>3
      <4>5. obs' \in [Articles -> [Endpoints -> Seq(Observation)]]
          BY <4>1, <4>4 DEF TypeOK
      <4>6. v \in RunState /\ v.id \in Ids
        <5>1. run[r] \in RunState /\ 0 \in 0 .. MaxClock
            BY DEF TypeOK
        <5>2. run[r].due \ {e} \in SUBSET Endpoints
            BY <5>1 DEF RunState
        <5> QED
            BY <4>1, <5>1, <5>2 DEF RunState
      <4>7. run' = [run EXCEPT ![r] = v]
          BY <3>2
      <4> HIDE DEF v, a
      <4>8. run' \in [Runners -> RunState] /\ \A q \in Runners :
                run'[q].pc \in Working => run'[q].id \in Ids
          BY <4>6, <4>7, RunnerType
      <4> QED
          BY <4>5, <4>8 DEF Record, TypeOK, rows
    <3> QED
        BY <3>1, <3>2 DEF Record
  <2>3. ASSUME NEW st \in Terminal, run[r].pc \in Working, Close(r, st)
        PROVE  TypeOK'
    <3>1. Between(run[r].queue, run[r].now) \in RunState
        BY BetweenType DEF TypeOK, RunState
    <3>2. run' \in [Runners -> RunState] /\ \A q \in Runners :
              run'[q].pc \in Working => run'[q].id \in Ids
      <4>1. CASE Raise(r)
          BY <4>1, DownType, RunnerType DEF Raise
      <4>2. CASE Advance(r)
          BY <4>2, <3>1, RunnerType DEF Advance, Between
      <4> QED
          BY <2>3, <4>1, <4>2 DEF Close
    <3>3. status' \in [Ids -> Status]
        BY <2>3 DEF Close, TypeOK
    <3> QED
        BY <2>3, <3>2, <3>3 DEF Close, TypeOK
  <2>4. CASE Expire(r)
      BY <2>4, <2>3 DEF Expire
  <2>5. CASE Complete(r)
      BY <2>5, <2>3 DEF Complete
  <2>6. CASE SelectDue(r)
    <3>1. CASE Raise(r)
        BY <2>6, <3>1, DownType, RunnerType DEF SelectDue, Raise, TypeOK, rows
    <3> DEFINE due == {e \in campaign[run[r].id].targets : DueAt(run[r].id, e, run[r].now)}
               v == [run[r] EXCEPT !.pc = "probe", !.due = due]
    <3>2. CASE run' = [run EXCEPT ![r].pc = "probe", ![r].due = due]
      <4>1. run[r].id \in Ids /\ due \in SUBSET Endpoints
          BY <2>6 DEF SelectDue, TypeOK, Campaign
      <4> HIDE DEF due
      <4>2. run[r] \in RunState
          BY DEF TypeOK
      <4>3. v \in RunState /\ v.id \in Ids
          BY <4>1, <4>2 DEF RunState
      <4>4. run' = [run EXCEPT ![r] = v]
          BY <3>2
      <4> QED
          BY <2>6, <4>3, <4>4, RunnerType DEF SelectDue, TypeOK, rows
    <3> QED
        BY <2>6, <3>1, <3>2 DEF SelectDue
  <2>7. CASE Tally(r)
    <3>1. Between(run[r].queue, run[r].now) \in RunState
        BY BetweenType DEF TypeOK, RunState
    <3>2. CASE Advance(r)
        BY <2>7, <3>1, <3>2, RunnerType DEF Tally, VisibleEnough, Advance, Between, TypeOK, rows
    <3> DEFINE v == [run[r] EXCEPT !.pc = "complete"]
    <3>3. CASE Goto(r, "complete")
      <4>3. run[r] \in RunState
          BY DEF TypeOK
      <4>4. run[r].id \in Ids
          BY <2>7 DEF Tally, TypeOK
      <4>1. v \in RunState /\ v.id \in Ids
          BY <4>3, <4>4 DEF RunState
      <4>2. run' = [run EXCEPT ![r] = v]
          BY <3>3 DEF Goto
      <4> QED
          BY <2>7, <4>1, <4>2, RunnerType DEF Tally, VisibleEnough, TypeOK, rows
    <3> QED
        BY <2>7, <3>2, <3>3 DEF Tally, VisibleEnough
  <2>8. CASE Finish(r)
      BY <2>8, DoneType DEF Finish, TypeOK, rows
  <2>9. CASE Rest(r) \/ Restart(r)
      BY <2>9, IdleType DEF Rest, Restart, TypeOK, rows
  <2> QED
      BY <2>1, <2>2, <2>4, <2>5, <2>6, <2>7, <2>8, <2>9, <2>10 DEF Step
<1>8. CASE \E r \in Runners : Crash(r)
    BY <1>8, DownType DEF Crash, Raise, TypeOK, rows
<1>9. CASE Tick
    BY <1>9 DEF Tick, TypeOK, rows, RunState
<1>10. CASE UNCHANGED vars
    BY <1>10 DEF vars, rows, TypeOK
<1> QED
    BY <1>1, <1>2, <1>3, <1>4, <1>5, <1>6, <1>7, <1>8, <1>9, <1>10 DEF Next

-----------------------------------------------------------------------------
\* What no step of any process takes back: a row that exists keeps its columns,
\* an article that was seen stays seen, the clock does not go back.
Progress ==
    /\ \A c \in Ids : status[c] # "unused" =>
           status'[c] # "unused" /\ campaign'[c] = campaign[c]
    /\ \A a \in Articles, e \in Endpoints : Shown(obs[a][e]) => Shown(obs'[a][e])
    /\ clock <= clock'

LEMMA StepProgress == IInv /\ [Next]_vars => Progress
<1> SUFFICES ASSUME IInv, [Next]_vars PROVE Progress
    OBVIOUS
<1> USE ConstantsAssumption DEF IInv, Progress
<1>1. CASE Create
    BY <1>1 DEF Create, CreateCampaign, TypeOK
<1>2. CASE \E s \in Setters, c \in Ids, st \in {"active", "disabled"} : ReadStatus(s, c, st)
    BY <1>2 DEF ReadStatus, TypeOK, rows
<1>3. CASE \E s \in Setters : WriteStatus(s)
  <2> PICK s \in Setters : WriteStatus(s)
      BY <1>3
  <2>1. setter[s].to \in {"active", "disabled"}
      BY DEF WriteStatus, TypeOK, SetterState
  <2>2. campaign' = campaign /\ obs' = obs /\ clock' = clock
      BY DEF WriteStatus
  <2>3. CASE status' = status
      BY <2>2, <2>3 DEF TypeOK
  <2>4. CASE status' = [status EXCEPT ![setter[s].id] = setter[s].to]
      BY <2>1, <2>2, <2>4 DEF TypeOK
  <2> QED
      BY <2>3, <2>4 DEF WriteStatus
<1>4. CASE \E s \in Servers : SetServerEnabled(s)
    BY <1>4 DEF SetServerEnabled, TypeOK, rows
<1>5. CASE \E r \in Schedulers : StartPass(r)
    BY <1>5 DEF StartPass, TypeOK, rows
<1>6. CASE \E r \in Operators, c \in Ids : StartOne(r, c)
    BY <1>6 DEF StartOne, TypeOK, rows
<1>7. CASE \E r \in Runners : Step(r)
  <2> PICK r \in Runners : Step(r)
      BY <1>7
  <2>1. CASE \E c \in Ids : Load(r, c)
      BY <2>1 DEF Load, Expired, TypeOK, rows
  <2>2. CASE \E e \in Endpoints : Record(r, e)
    <3> PICK e \in Endpoints : Record(r, e)
        BY <2>2
    <3> DEFINE a == campaign[run[r].id].article
    <3>1. UNCHANGED <<status, campaign, clock>>
        BY DEF Record, rows
    <3>2. CASE UNCHANGED obs
        BY <3>1, <3>2 DEF TypeOK
    <3>3. ASSUME NEW outcome \in Outcomes,
                 obs' = [obs EXCEPT ![a][e] =
                             Append(@, [at |-> run[r].asked, outcome |-> outcome])]
          PROVE  \A b \in Articles, d \in Endpoints : Shown(obs[b][d]) => Shown(obs'[b][d])
      <4>1. a \in Articles /\ run[r].asked \in Nat
          BY RecordTypes
      <4>2. PICK o \in Seq(Observation) : o = obs[a][e]
          BY <4>1 DEF TypeOK
      <4>3. PICK p : /\ p = Append(o, [at |-> run[r].asked, outcome |-> outcome])
                     /\ Shown(o) => Shown(p)
          BY <4>1, OneMoreRow
      <4>4. obs' = [obs EXCEPT ![a][e] = p]
          BY <3>3, <4>2, <4>3
      <4> QED
          BY <4>1, <4>2, <4>3, <4>4 DEF TypeOK
    <3>4. \/ UNCHANGED obs
          \/ \E outcome \in Outcomes :
                obs' = [obs EXCEPT ![a][e] =
                            Append(@, [at |-> run[r].asked, outcome |-> outcome])]
        BY DEF Record
    <3>5. \A b \in Articles, d \in Endpoints : Shown(obs[b][d]) => Shown(obs'[b][d])
        BY <3>3, <3>4
    <3> QED
        BY <3>1, <3>5 DEF TypeOK
  <2>3. CASE Expire(r) \/ Complete(r)
    <3> PICK st \in Terminal : Close(r, st)
        BY <2>3 DEF Expire, Complete
    <3>1. campaign' = campaign /\ obs' = obs /\ clock' = clock
        BY DEF Close
    <3>2. CASE status' = status
        BY <3>1, <3>2 DEF TypeOK
    <3>3. CASE status' = [status EXCEPT ![run[r].id] = st]
        BY <3>1, <3>3 DEF TypeOK
    <3> QED
        BY <3>2, <3>3 DEF Close
  <2>4. CASE \/ SelectDue(r) \/ Tally(r) \/ Finish(r) \/ Rest(r) \/ Restart(r)
             \/ \E e \in Endpoints : Ask(r, e)
      BY <2>4 DEF SelectDue, Ask, Tally, Finish, Rest, Restart, TypeOK, rows
  <2> QED
      BY <2>1, <2>2, <2>3, <2>4 DEF Step
<1>8. CASE \E r \in Runners : Crash(r)
    BY <1>8 DEF Crash, TypeOK, rows
<1>9. CASE Tick
    BY <1>9 DEF Tick, TypeOK, rows
<1>10. CASE UNCHANGED vars
    BY <1>10 DEF vars, rows, TypeOK
<1> QED
    BY <1>1, <1>2, <1>3, <1>4, <1>5, <1>6, <1>7, <1>8, <1>9, <1>10 DEF Next

\* VisibleOn(a) of the rows O.
Visible(O, a) == {e \in Endpoints : Shown(O[a][e])}

LEMMA VisibleGrows ==
    ASSUME Progress, NEW a \in Articles
    PROVE  /\ Cardinality(VisibleOn(a)) <= Cardinality(VisibleOn(a)')
           /\ Cardinality(VisibleOn(a)) \in Nat /\ Cardinality(VisibleOn(a)') \in Nat
<1>1. VisibleOn(a) \subseteq VisibleOn(a)' /\ VisibleOn(a)' \subseteq Endpoints
    BY DEF Progress, VisibleOn, Shown
<1> QED
    BY <1>1, FS_Subset, FS_CardinalityType, ConstantsAssumption

\* A runner that does not move keeps what it knows.
LEMMA KnowKept ==
    ASSUME TypeOK, TypeOK', Progress, NEW r \in Runners, Know(r), run'[r] = run[r]
    PROVE  Know(r)'
<1>1. run'[r].now <= clock'
    BY DEF Know, Progress, TypeOK, RunState
<1>2. \A c \in run'[r].queue : status'[c] # "unused"
    BY DEF Know, Progress, TypeOK, RunState
<1> DEFINE c == run[r].id
<1>3. ASSUME run[r].pc \in Working
      PROVE  c \in Ids /\ status[c] # "unused" /\ status'[c] # "unused"
             /\ campaign'[c] = campaign[c] /\ campaign[c] \in Campaign
    BY <1>3 DEF Know, Progress, TypeOK
<1>4. run'[r].pc = "expire" => run'[r].now >= campaign'[run'[r].id].expires
    BY <1>3 DEF Know
<1>5. ASSUME run[r].pc = "complete"
      PROVE  Cardinality(Visible(obs', campaign[c].article)) >= campaign[c].stop
  <2>1. campaign[c].article \in Articles /\ campaign[c].stop \in Nat
      BY <1>3, <1>5 DEF Campaign
  <2>2. PICK a \in Articles : a = campaign[c].article
      BY <2>1
  <2>3. Cardinality(VisibleOn(a)) >= campaign[c].stop
      BY <1>5, <2>2 DEF Know
  <2>4. Cardinality(VisibleOn(a)') >= campaign[c].stop
      BY <2>1, <2>3, VisibleGrows
  <2> QED
      BY <2>2, <2>4 DEF VisibleOn, Visible, Shown
<1> QED
    BY <1>1, <1>2, <1>3, <1>4, <1>5 DEF Know, VisibleOn, Visible, Shown

\* A runner that has just been given other work, or none.
LEMMA KnowBetween ==
    ASSUME NEW r \in Runners, TypeOK', NEW Q \in SUBSET Ids, NEW n \in 0 .. MaxClock,
           n <= clock', \A c \in Q : status'[c] # "unused",
           run'[r] = Between(Q, n)
    PROVE  Know(r)'
<1>1. run'[r].pc = "next" /\ run'[r].now = n /\ run'[r].queue = Q
    BY DEF Between
<1> QED
    BY <1>1 DEF Know

LEMMA KnowNothing ==
    ASSUME NEW r \in Runners, TypeOK', run'[r] \in {IdleRun, DoneRun, DownRun}
    PROVE  Know(r)'
<1>1. /\ run'[r].pc \in {"idle", "done", "down"}
      /\ run'[r].queue = {} /\ run'[r].now = 0
    BY DEF IdleRun, DoneRun, DownRun
<1>2. clock' \in 0 .. MaxClock
    BY DEF TypeOK
<1> QED
    BY <1>1, <1>2 DEF Know

\* Every step keeps what the processes know.
LEMMA KnowStep == IInv /\ [Next]_vars => RunnersKnow'
<1> SUFFICES ASSUME IInv, [Next]_vars PROVE RunnersKnow'
    OBVIOUS
<1> USE ConstantsAssumption
<1>1. TypeOK /\ TypeOK' /\ Progress
    BY TypeStep, StepProgress DEF IInv
<1>2. \A r \in Runners : Know(r)
    BY DEF IInv, RunnersKnow
<1>3. \A s \in Setters : setter'[s].pc = "write" => status'[setter'[s].id] # "unused"
  <2> SUFFICES ASSUME NEW s \in Setters, setter'[s].pc = "write"
               PROVE  status'[setter'[s].id] # "unused"
      OBVIOUS
  <2>1. CASE setter'[s] = setter[s]
      BY <1>1, <2>1 DEF IInv, RunnersKnow, Progress, TypeOK
  <2>2. CASE \E c \in Ids, st \in {"active", "disabled"} : ReadStatus(s, c, st)
      BY <1>1, <2>2 DEF ReadStatus, rows, TypeOK
  <2>3. CASE WriteStatus(s)
      BY <1>1, <2>3 DEF WriteStatus, IdleSetter, TypeOK
  <2>4. setter' = setter \/ (\E q \in Setters : WriteStatus(q) \/
            \E c \in Ids, st \in {"active", "disabled"} : ReadStatus(q, c, st))
    <3>1. ASSUME NEW r \in Runners, Step(r)
          PROVE  setter' = setter
      <4>1. CASE \E c \in Ids : Load(r, c)
          BY <4>1 DEF Load, Expired
      <4>2. CASE \E e \in Endpoints : Ask(r, e) \/ Record(r, e)
          BY <4>2 DEF Ask, Record
      <4>3. CASE Expire(r) \/ Complete(r)
          BY <4>3 DEF Expire, Complete, Close
      <4>4. CASE SelectDue(r) \/ Tally(r) \/ Finish(r) \/ Rest(r) \/ Restart(r)
          BY <4>4 DEF SelectDue, Tally, Finish, Rest, Restart
      <4> QED
          BY <3>1, <4>1, <4>2, <4>3, <4>4 DEF Step
    <3>2. CASE Create
        BY <3>2 DEF Create, CreateCampaign
    <3>3. CASE \/ \E q \in Servers : SetServerEnabled(q)
               \/ \E r \in Schedulers : StartPass(r)
               \/ \E r \in Operators, c \in Ids : StartOne(r, c)
        BY <3>3 DEF SetServerEnabled, StartPass, StartOne
    <3>4. CASE Tick \/ UNCHANGED vars \/ \E r \in Runners : Crash(r)
        BY <3>4 DEF Tick, vars, Crash
    <3> QED
        BY <3>1, <3>2, <3>3, <3>4 DEF Next
  <2>5. ASSUME NEW q \in Setters, q # s,
               WriteStatus(q) \/
               \E c \in Ids, st \in {"active", "disabled"} : ReadStatus(q, c, st)
        PROVE  setter'[s] = setter[s]
      BY <1>1, <2>5 DEF WriteStatus, ReadStatus, TypeOK
  <2> QED
      BY <2>1, <2>2, <2>3, <2>4, <2>5
<1>4. ASSUME NEW r \in Runners, run' = run
      PROVE  Know(r)'
    BY <1>1, <1>2, <1>4, KnowKept
<1>5. ASSUME NEW r \in Runners, NEW q \in Runners, q # r,
             NEW v, run' = [run EXCEPT ![r] = v]
      PROVE  Know(q)'
    BY <1>1, <1>2, <1>5, KnowKept DEF TypeOK
<1>6. ASSUME NEW r \in Schedulers, StartPass(r)
      PROVE  \A q \in Runners : Know(q)'
  <2> DEFINE Q == Lowest({c \in Ids : status[c] = "active"}, BatchLimit)
  <2>1. Q \in SUBSET Ids /\ \A c \in Q : status[c] # "unused"
      BY DEF Lowest
  <2>2. run' = [run EXCEPT ![r] = Between(Q, clock)] /\ clock' = clock /\ status' = status
        /\ r \in Runners
      BY <1>6 DEF StartPass, rows, Runners
  <2> HIDE DEF Q
  <2>3. run'[r] = Between(Q, clock) /\ clock \in 0 .. MaxClock /\ clock <= clock'
      BY <1>1, <2>2 DEF TypeOK
  <2>4. Know(r)'
      BY <1>1, <2>1, <2>2, <2>3, KnowBetween
  <2> QED
      BY <1>5, <2>2, <2>4
<1>7. ASSUME NEW r \in Operators, NEW c \in Ids, StartOne(r, c)
      PROVE  \A q \in Runners : Know(q)'
  <2>1. run' = [run EXCEPT ![r] = Between({c}, clock)] /\ clock' = clock
        /\ status' = status /\ r \in Runners /\ status[c] # "unused"
      BY <1>7 DEF StartOne, rows, Runners
  <2>2. run'[r] = Between({c}, clock) /\ clock \in 0 .. MaxClock /\ clock <= clock'
      BY <1>1, <2>1 DEF TypeOK
  <2>3. Know(r)'
      BY <1>1, <2>1, <2>2, KnowBetween
  <2> QED
      BY <1>5, <2>1, <2>3
<1>8. ASSUME NEW r \in Runners, Raise(r)
      PROVE  \A q \in Runners : Know(q)'
  <2>1. Know(r)'
      BY <1>1, <1>8, KnowNothing DEF Raise, TypeOK
  <2> QED
      BY <1>5, <1>8, <2>1 DEF Raise
<1>9. ASSUME NEW r \in Runners, Advance(r)
      PROVE  \A q \in Runners : Know(q)'
  <2>1. run[r].queue \in SUBSET Ids /\ run[r].now \in 0 .. MaxClock
        /\ \A c \in run[r].queue : status'[c] # "unused"
      BY <1>1, <1>2 DEF TypeOK, RunState, Know, Progress
  <2>2. run[r].now <= clock'
      BY <1>1, <1>2 DEF TypeOK, RunState, Know, Progress
  <2>3. Know(r)'
      BY <1>1, <1>9, <2>1, <2>2, KnowBetween DEF Advance, TypeOK
  <2> QED
      BY <1>5, <1>9, <2>3 DEF Advance
<1>10. ASSUME NEW r \in Runners, Step(r)
       PROVE  \A q \in Runners : Know(q)'
  <2>1. ASSUME NEW c \in Ids, Load(r, c)
        PROVE  \A q \in Runners : Know(q)'
    <3> PICK label \in {"next", "expire", "cycle"} :
             /\ Take(r, c, label)
             /\ label = "expire" => run[r].now >= campaign[c].expires
        BY <2>1 DEF Load, Expired
    <3> DEFINE v == [run[r] EXCEPT !.pc = label, !.id = c, !.queue = @ \ {c}]
    <3>1. run' = [run EXCEPT ![r] = v]
        BY DEF Take
    <3>2. c \in run[r].queue /\ status' = status /\ campaign' = campaign /\ clock' = clock
        BY <2>1 DEF Load, Expired, IsFirst, rows
    <3>3. run'[r] = v /\ run[r] \in RunState
        BY <1>1, <3>1 DEF TypeOK
    <3>4. /\ run'[r].now = run[r].now /\ run'[r].pc = label /\ run'[r].id = c
          /\ run'[r].queue = run[r].queue \ {c}
        BY <3>3 DEF RunState
    <3> HIDE DEF v
    <3>5. Know(r)'
        BY <1>2, <3>2, <3>4 DEF Know
    <3> QED
        BY <1>5, <3>1, <3>5
  <2>2. ASSUME NEW e \in Endpoints, Ask(r, e) \/ Record(r, e)
        PROVE  \A q \in Runners : Know(q)'
    <3>1. CASE Raise(r)
        BY <1>8, <3>1
    <3>2. ASSUME NEW label \in {"probe", "record"}, NEW due, NEW asked,
                 run' = [run EXCEPT ![r] =
                     [run[r] EXCEPT !.pc = label, !.due = due, !.asked = asked]]
          PROVE  \A q \in Runners : Know(q)'
      <4> DEFINE v == [run[r] EXCEPT !.pc = label, !.due = due, !.asked = asked]
      <4>1. run' = [run EXCEPT ![r] = v]
          BY <3>2
      <4>2. run[r] \in RunState /\ run[r].pc \in {"probe", "record"} /\ run'[r] = v
          BY <1>1, <2>2, <4>1 DEF TypeOK, Ask, Record
      <4>3. /\ run'[r].now = run[r].now /\ run'[r].pc = label /\ run'[r].id = run[r].id
            /\ run'[r].queue = run[r].queue
          BY <4>2 DEF RunState
      <4>4. status' = status /\ clock' = clock
          BY <2>2 DEF Ask, Record, rows
      <4> HIDE DEF v
      <4>5. Know(r)'
          BY <1>2, <4>2, <4>3, <4>4 DEF Know
      <4> QED
          BY <1>5, <4>1, <4>5
    <3>3. CASE run' = [run EXCEPT ![r].pc = "record", ![r].asked = clock]
      <4>1. run[r] \in RunState
          BY <1>1 DEF TypeOK
      <4>2. [run[r] EXCEPT !.pc = "record", !.asked = clock] =
                [run[r] EXCEPT !.pc = "record", !.due = run[r].due, !.asked = clock]
          BY <4>1 DEF RunState
      <4>3. run' = [run EXCEPT ![r] = [run[r] EXCEPT !.pc = "record", !.asked = clock]]
          BY <3>3
      <4> QED
          BY <3>2, <4>2, <4>3
    <3>4. CASE run' = [run EXCEPT ![r].pc = "probe", ![r].due = @ \ {e}, ![r].asked = 0]
      <4>1. run' = [run EXCEPT ![r] =
                [run[r] EXCEPT !.pc = "probe", !.due = run[r].due \ {e}, !.asked = 0]]
          BY <3>4
      <4> QED
          BY <3>2, <4>1
    <3> QED
        BY <2>2, <3>1, <3>3, <3>4 DEF Ask, Record
  <2>3. CASE Expire(r) \/ Complete(r)
      BY <1>8, <1>9, <2>3 DEF Expire, Complete, Close
  <2>4. CASE SelectDue(r)
    <3> DEFINE due == {e \in campaign[run[r].id].targets : DueAt(run[r].id, e, run[r].now)}
    <3>1. CASE Raise(r)
        BY <1>8, <3>1
    <3>2. CASE run' = [run EXCEPT ![r].pc = "probe", ![r].due = due]
      <4> HIDE DEF due
      <4> DEFINE v == [run[r] EXCEPT !.pc = "probe", !.due = due]
      <4>1. run' = [run EXCEPT ![r] = v]
          BY <3>2
      <4>2. /\ run'[r].now = run[r].now /\ run'[r].pc = "probe" /\ run'[r].id = run[r].id
            /\ run'[r].queue = run[r].queue
          BY <1>1, <3>2 DEF TypeOK, RunState
      <4>3. status' = status /\ clock' = clock /\ run[r].pc = "cycle"
          BY <2>4 DEF SelectDue, rows
      <4> HIDE DEF v
      <4>4. Know(r)'
          BY <1>2, <4>2, <4>3 DEF Know
      <4> QED
          BY <1>5, <4>1, <4>4
    <3> QED
        BY <2>4, <3>1, <3>2 DEF SelectDue
  <2>5. CASE Tally(r)
    <3>1. CASE Advance(r)
        BY <1>9, <3>1
    <3>2. CASE /\ Cardinality(VisibleOn(campaign[run[r].id].article)) >= campaign[run[r].id].stop
               /\ Goto(r, "complete")
      <4> DEFINE v == [run[r] EXCEPT !.pc = "complete"]
      <4>1. run' = [run EXCEPT ![r] = v]
          BY <3>2 DEF Goto
      <4>2. /\ run'[r].now = run[r].now /\ run'[r].pc = "complete" /\ run'[r].id = run[r].id
            /\ run'[r].queue = run[r].queue
        <5>1. run[r] \in RunState /\ run'[r] = v
            BY <1>1, <4>1 DEF TypeOK
        <5> QED
            BY <5>1 DEF RunState
      <4>3. status' = status /\ campaign' = campaign /\ obs' = obs /\ clock' = clock
            /\ run[r].pc = "probe"
          BY <2>5 DEF Tally, VisibleEnough, rows
      <4> HIDE DEF v
      <4>4. Know(r)'
          BY <1>2, <3>2, <4>2, <4>3 DEF Know, VisibleOn
      <4> QED
          BY <1>5, <4>1, <4>4
    <3> QED
        BY <2>5, <3>1, <3>2 DEF Tally, VisibleEnough
  <2>6. CASE Finish(r) \/ Rest(r) \/ Restart(r)
    <3>1. PICK v \in {IdleRun, DoneRun} : run' = [run EXCEPT ![r] = v]
        BY <2>6 DEF Finish, Rest, Restart
    <3>2. Know(r)'
        BY <1>1, <3>1, KnowNothing DEF TypeOK
    <3> QED
        BY <1>5, <3>1, <3>2
  <2> QED
      BY <1>10, <2>1, <2>2, <2>3, <2>4, <2>5, <2>6 DEF Step
<1>11. ASSUME NEW r \in Runners, Crash(r)
       PROVE  \A q \in Runners : Know(q)'
    BY <1>8, <1>11 DEF Crash
<1>12. CASE run' = run
    BY <1>3, <1>4, <1>12 DEF RunnersKnow
<1>13. \/ run' = run
       \/ \E r \in Schedulers : StartPass(r)
       \/ \E r \in Operators, c \in Ids : StartOne(r, c)
       \/ \E r \in Runners : Step(r) \/ Crash(r)
    BY DEF Next, vars, Create, CreateCampaign, ReadStatus, WriteStatus, SetServerEnabled, Tick
<1>14. \A q \in Runners : Know(q)'
    BY <1>4, <1>6, <1>7, <1>10, <1>11, <1>13
<1> QED
    BY <1>3, <1>14 DEF RunnersKnow

-----------------------------------------------------------------------------
\* The status of a row changes only in Create, WriteStatus, Expire, Complete.
StatusStep ==
    \/ status' = status
    \/ Create
    \/ \E s \in Setters : WriteStatus(s)
    \/ \E r \in Runners : Expire(r) \/ Complete(r)

LEMMA StatusSteps == [Next]_vars => StatusStep
BY DEF StatusStep, Next, vars, rows, ReadStatus, SetServerEnabled, StartPass, StartOne, Step,
       Load, Ask, Record, SelectDue, Tally, Finish, Rest, Restart, Crash, Tick

\* Rows that are already completed stay visible; a row that becomes completed
\* is closed by a runner that knows it is visible.
LEMMA VisibleStep == IInv /\ [Next]_vars => CompletedIsVisible'
<1> SUFFICES ASSUME IInv, [Next]_vars,
                    NEW c \in Ids, status'[c] = "completed"
             PROVE  Cardinality(Visible(obs', campaign'[c].article)) >= campaign'[c].stop
    BY DEF CompletedIsVisible, VisibleOn, Visible, Shown
<1>1. TypeOK /\ TypeOK' /\ Progress
    BY TypeStep, StepProgress DEF IInv
<1>2. status[c] # "unused" /\ Cardinality(VisibleOn(campaign[c].article)) >= campaign[c].stop
  <2>1. CASE status[c] = "completed"
      BY <2>1 DEF IInv, CompletedIsVisible
  <2>2. CASE status[c] # "completed"
    <3>1. ~ Create
        BY <1>1, <2>2 DEF Create, CreateCampaign, TypeOK
    <3>2. ASSUME NEW s \in Setters, WriteStatus(s) PROVE FALSE
        BY <1>1, <2>2, <3>2 DEF WriteStatus, TypeOK, SetterState
    <3>3. PICK r \in Runners : Expire(r) \/ Complete(r)
        BY <2>2, <3>1, <3>2, StatusSteps DEF StatusStep
    <3>4. run[r].id = c /\ run[r].pc = "complete"
        BY <1>1, <2>2, <3>3 DEF Expire, Complete, Close, TypeOK
    <3> QED
        BY <3>4 DEF IInv, RunnersKnow, Know
  <2> QED
      BY <2>1, <2>2
<1>3. campaign'[c] = campaign[c] /\ campaign[c] \in Campaign
    BY <1>1, <1>2 DEF Progress, TypeOK
<1>4. PICK a \in Articles : a = campaign[c].article
    BY <1>3 DEF Campaign
<1>5. campaign[c].stop \in Nat
    BY <1>3 DEF Campaign
<1>6. Cardinality(VisibleOn(a)') >= campaign[c].stop
    BY <1>1, <1>2, <1>4, <1>5, VisibleGrows
<1> QED
    BY <1>3, <1>4, <1>6 DEF VisibleOn, Visible, Shown

LEMMA ExpiredStep == IInv /\ [Next]_vars => ExpiredIsOver'
<1> SUFFICES ASSUME IInv, [Next]_vars,
                    NEW c \in Ids, status'[c] = "expired"
             PROVE  clock' >= campaign'[c].expires
    BY DEF ExpiredIsOver
<1>1. TypeOK /\ TypeOK' /\ Progress
    BY TypeStep, StepProgress DEF IInv
<1>2. status[c] # "unused" /\ clock >= campaign[c].expires
  <2>1. CASE status[c] = "expired"
      BY <2>1 DEF IInv, ExpiredIsOver
  <2>2. CASE status[c] # "expired"
    <3>1. ~ Create
        BY <1>1, <2>2 DEF Create, CreateCampaign, TypeOK
    <3>2. ASSUME NEW s \in Setters, WriteStatus(s) PROVE FALSE
        BY <1>1, <2>2, <3>2 DEF WriteStatus, TypeOK, SetterState
    <3>3. PICK r \in Runners : Expire(r) \/ Complete(r)
        BY <2>2, <3>1, <3>2, StatusSteps DEF StatusStep
    <3>4. run[r].id = c /\ run[r].pc = "expire" /\ c \in Ids
        BY <1>1, <2>2, <3>3 DEF Expire, Complete, Close, TypeOK
    <3>5. run[r].now >= campaign[c].expires /\ run[r].now <= clock /\ status[c] # "unused"
        BY <3>4 DEF IInv, RunnersKnow, Know
    <3>6. run[r].now \in Nat /\ clock \in Nat /\ campaign[c].expires \in Nat
        BY <1>1, <3>4 DEF TypeOK, RunState, Campaign
    <3> QED
        BY <3>5, <3>6
  <2> QED
      BY <2>1, <2>2
<1>3. campaign'[c] = campaign[c] /\ campaign[c] \in Campaign /\ clock <= clock'
    BY <1>1, <1>2 DEF Progress, TypeOK
<1>4. campaign[c].expires \in Nat
    BY <1>3 DEF Campaign
<1>5. clock \in Nat /\ clock' \in Nat
    BY <1>1 DEF TypeOK
<1> QED
    BY <1>2, <1>3, <1>4, <1>5

LEMMA IInvStep == IInv /\ [Next]_vars => IInv'
BY TypeStep, KnowStep, VisibleStep, ExpiredStep DEF IInv

THEOREM Invariance == Spec => []IInv
<1> QED
    BY InitIInv, IInvStep, PTL DEF Spec

\* Types of the campaign rows and of every process.
THEOREM TypeCorrect == Spec => []TypeOK
<1>1. IInv => TypeOK
    BY DEF IInv
<1> QED
    BY <1>1, Invariance, PTL


\* A completed campaign's article is visible on as many endpoints as asked for.
THEOREM CompletedVisible == Spec => []CompletedIsVisible
<1>1. IInv => CompletedIsVisible
    BY DEF IInv
<1> QED
    BY <1>1, Invariance, PTL

\* A campaign is expired only when its time to live is over.
THEOREM ExpiredOver == Spec => []ExpiredIsOver
<1>1. IInv => ExpiredIsOver
    BY DEF IInv
<1> QED
    BY <1>1, Invariance, PTL

-----------------------------------------------------------------------------
(* One runner keeps its distance from the exchanges it recorded.           *)

\* When the pass began, the interval of its campaign had passed for e.
HasRested(r, e) ==
    LET c == run[r].id
        o == obs[campaign[c].article][e]
    IN  \A i \in DOMAIN o : run[r].now >= o[i].at + campaign[c].interval

Probing == {"probe", "record"}

DueHaveRested ==
    \A r \in Runners : run[r].pc \in Probing => \A e \in run[r].due : HasRested(r, e)

PInv == IInv /\ DueHaveRested

LEMMA FailuresType ==
    ASSUME NEW o \in Seq(Observation)
    PROVE  Failures(o) \in 0 .. ObservationWindow
<1> DEFINE trailing == {i \in DOMAIN o :
                \A j \in DOMAIN o : NotAfter(o, j, i) => o[j].outcome = "error"}
<1>1. IsFiniteSet(DOMAIN o)
    <2>1. DOMAIN o = 1 .. Len(o) /\ Len(o) \in Nat
        OBVIOUS
    <2> QED
        BY <2>1, FS_Interval
<1>2. trailing \subseteq DOMAIN o
    OBVIOUS
<1> HIDE DEF trailing
<1>3. Cardinality(trailing) \in Nat
    BY <1>1, <1>2, FS_Subset, FS_CardinalityType
<1>4. Smaller(ObservationWindow, Cardinality(trailing)) \in 0 .. ObservationWindow
    BY <1>3 DEF Smaller
<1> QED
    BY <1>4 DEF Failures, trailing

LEMMA DelayIsInterval ==
    ASSUME NEW interval \in Intervals, NEW failures \in 0 .. ObservationWindow
    PROVE  Delay(interval, failures) \in Nat /\ Delay(interval, failures) >= interval
<1>1. interval \in Nat \ {0} /\ MaxBackoff \in Nat /\ interval <= MaxBackoff
    BY ConstantsAssumption
<1>2. CASE failures = 0
    BY <1>1, <1>2 DEF Delay
<1>3. CASE failures # 0
    <2>1. Smaller(failures, 8) \in 1 .. 8
        BY <1>3 DEF Smaller
    <2>2. Factor[Smaller(failures, 8)] \in Nat \ {0}
        BY <2>1 DEF Factor
    <2>3. \A a, b \in Nat \ {0} : a * b \in Nat /\ a <= a * b
        OBVIOUS
    <2>4. PICK backoff \in Nat : /\ backoff = interval * Factor[Smaller(failures, 8)]
                                 /\ interval <= backoff
        BY <1>1, <2>2, <2>3
    <2>5. Delay(interval, failures) = Smaller(backoff, MaxBackoff)
        BY <1>3, <2>4 DEF Delay
    <2> QED
        BY <1>1, <2>4, <2>5 DEF Smaller
<1> QED
    BY <1>2, <1>3

\* Who is due has rested.
LEMMA DueRested ==
    ASSUME TypeOK, NEW r \in Runners, run[r].id \in Ids, NEW e \in Endpoints,
           DueAt(run[r].id, e, run[r].now)
    PROVE  HasRested(r, e)
<1> DEFINE c == run[r].id
           o == obs[campaign[c].article][e]
<1>1. /\ campaign[c] \in Campaign /\ run[r] \in RunState
      /\ obs \in [Articles -> [Endpoints -> Seq(Observation)]]
    BY DEF TypeOK
<1>2. campaign[c].interval \in Intervals /\ o \in Seq(Observation) /\ run[r].now \in Nat
    <2>1. campaign[c].interval \in Intervals /\ campaign[c].article \in Articles
        BY <1>1 DEF Campaign
    <2>2. run[r].now \in Nat
        BY <1>1, ConstantsAssumption DEF RunState
    <2> QED
        BY <1>1, <2>1, <2>2
<1>3. Failures(o) \in 0 .. ObservationWindow
    BY <1>2, FailuresType
<1>4. PICK now \in Nat : now = run[r].now
    BY <1>2
<1>5. PICK interval \in Nat : interval = campaign[c].interval
    BY <1>2, ConstantsAssumption
<1>6. PICK delay \in Nat : delay = Delay(campaign[c].interval, Failures(o)) /\ delay >= interval
    BY <1>2, <1>3, <1>5, DelayIsInterval
<1>7. \A i \in DOMAIN o : o[i].at \in Nat /\ now >= o[i].at + delay
    <2>1. \A i \in DOMAIN o : now >= o[i].at + delay
        BY <1>4, <1>6 DEF DueAt
    <2>2. \A i \in DOMAIN o : o[i] \in Observation
        BY <1>2
    <2> QED
        BY <2>1, <2>2 DEF Observation
<1>8. \A i \in DOMAIN o : now >= o[i].at + interval
    <2>1. \A i, d, n, l \in Nat : d >= i /\ n >= l + d => n >= l + i
        OBVIOUS
    <2> QED
        BY <1>6, <1>7, <2>1
<1> QED
    BY <1>4, <1>5, <1>8 DEF HasRested

\* A step that leaves the observations, and the campaigns that exist, alone.
LEMMA UnprobedPInv ==
    ASSUME PInv, IInv', UNCHANGED obs, Progress,
           \A r \in Runners : run'[r].pc \in Probing =>
               /\ run[r].pc \in Probing /\ run'[r].id = run[r].id
               /\ run'[r].now = run[r].now /\ run'[r].due \subseteq run[r].due
    PROVE  PInv'
<1> SUFFICES ASSUME NEW r \in Runners, run'[r].pc \in Probing, NEW e \in run'[r].due
             PROVE  HasRested(r, e)'
    BY DEF PInv, DueHaveRested
<1>1. run[r].pc \in Probing /\ e \in run[r].due /\ run'[r].id = run[r].id
      /\ run'[r].now = run[r].now
    OBVIOUS
<1>2. HasRested(r, e)
    BY <1>1 DEF PInv, DueHaveRested
<1>3. campaign'[run[r].id] = campaign[run[r].id]
    BY <1>1 DEF PInv, IInv, TypeOK, RunnersKnow, Know, Progress, Probing
<1> QED
    BY <1>1, <1>2, <1>3 DEF HasRested

LEMMA StepPInv ==
    ASSUME PInv, IInv', Progress, NEW r, Runners = {r}, Step(r)
    PROVE  PInv'
<1> USE DEF RunState
<1>1. TypeOK /\ run[r] \in RunState /\ r \in Runners
      /\ (run[r].pc \in Working => run[r].id \in Ids)
    BY DEF PInv, IInv, TypeOK
<1>2. CASE \E c \in Ids : Load(r, c)
    <2> PICK c \in Ids : Load(r, c)
        BY <1>2
    <2>1. run'[r].pc \in {"next", "expire", "cycle"} /\ UNCHANGED obs
        BY <1>1 DEF Load, Take, TypeOK
    <2> QED
        BY <2>1, UnprobedPInv DEF Probing
<1>3. CASE SelectDue(r)
    <2>1. UNCHANGED <<obs, campaign>>
        BY <1>3 DEF SelectDue, rows
    <2>2. CASE Raise(r)
        <3>1. run'[r].pc = "down"
            BY <1>1, <2>2 DEF Raise, DownRun, TypeOK
        <3> QED
            BY <2>1, <3>1, UnprobedPInv DEF Probing
    <2>3. CASE ~ Raise(r)
        <3> DEFINE due == {e \in campaign[run[r].id].targets : DueAt(run[r].id, e, run[r].now)}
        <3>1. run' = [run EXCEPT ![r].pc = "probe", ![r].due = due] /\ run[r].id \in Ids
            BY <1>1, <1>3, <2>3 DEF SelectDue
        <3>2. run'[r].due = due /\ run'[r].id = run[r].id /\ run'[r].now = run[r].now
            BY <1>1, <3>1 DEF TypeOK
        <3>3. \A e \in due : e \in Endpoints
            BY <1>1, <3>1 DEF TypeOK, Campaign
        <3>4. \A e \in due : HasRested(r, e)
            BY <1>1, <3>1, <3>3, DueRested
        <3> HIDE DEF due
        <3>5. \A e \in run'[r].due : HasRested(r, e)'
            BY <2>1, <3>2, <3>4 DEF HasRested
        <3> QED
            BY <3>5 DEF PInv, DueHaveRested
    <2> QED
        BY <2>2, <2>3
<1>4. CASE \E e \in Endpoints : Ask(r, e) \/ Record(r, e)
    <2> PICK e \in Endpoints : Ask(r, e) \/ Record(r, e)
        BY <1>4
    <2>1. UNCHANGED campaign
        BY DEF Ask, Record, rows
    <2>2. CASE Raise(r) /\ UNCHANGED obs
        <3>1. run'[r].pc = "down"
            BY <1>1, <2>2 DEF Raise, DownRun, TypeOK
        <3> QED
            BY <2>2, <3>1, UnprobedPInv DEF Probing
    <2>3. CASE run' = [run EXCEPT ![r].pc = "record", ![r].asked = clock] /\ Ask(r, e)
        <3>1. /\ run'[r].due = run[r].due /\ run'[r].id = run[r].id
              /\ run'[r].now = run[r].now /\ run[r].pc = "probe" /\ UNCHANGED obs
            BY <1>1, <2>3 DEF TypeOK, Ask
        <3> QED
            BY <3>1, UnprobedPInv DEF Probing
    <2>4. CASE /\ run' = [run EXCEPT ![r].pc = "probe", ![r].due = @ \ {e}, ![r].asked = 0]
               /\ Record(r, e)
        <3> DEFINE a == campaign[run[r].id].article
        <3>1. /\ run'[r].due = run[r].due \ {e} /\ run'[r].id = run[r].id
              /\ run'[r].now = run[r].now /\ run[r].pc = "record" /\ a \in Articles
              /\ run[r].due \subseteq Endpoints
          <4>1. a \in Articles /\ run[r].pc = "record"
              BY <1>1, <2>4, RecordTypes DEF Record
          <4> HIDE DEF a
          <4> QED
              BY <1>1, <2>4, <4>1 DEF TypeOK
        <3>2. \A d \in Endpoints \ {e} : obs'[a][d] = obs[a][d]
          <4>1. obs' = obs \/ \E x : obs' = [obs EXCEPT ![a][e] = x]
              BY <2>4 DEF Record
          <4> HIDE DEF a
          <4> QED
              BY <1>1, <3>1, <4>1 DEF TypeOK
        <3>3. \A d \in run[r].due : HasRested(r, d)
            BY <1>1, <3>1 DEF PInv, DueHaveRested, Probing
        <3>4. \A d \in run'[r].due : HasRested(r, d)'
            BY <2>1, <3>1, <3>2, <3>3 DEF HasRested
        <3> QED
            BY <3>4 DEF PInv, DueHaveRested
    <2> QED
        BY <2>2, <2>3, <2>4 DEF Ask, Record
<1>5. CASE \/ Expire(r) \/ Complete(r) \/ Tally(r) \/ Finish(r) \/ Rest(r) \/ Restart(r)
    <2>1. UNCHANGED obs
        BY <1>5 DEF Expire, Complete, Close, Tally, Finish, Rest, Restart
    <2>2. run'[r].pc \notin Probing
        BY <1>1, <1>5 DEF Probing, Expire, Complete, Close, Tally, Finish, Rest, Restart, TypeOK,
              Raise, Advance, Goto, Between, DownRun, IdleRun, DoneRun
    <2> QED
        BY <2>1, <2>2, UnprobedPInv
<1> QED
    BY <1>2, <1>3, <1>4, <1>5 DEF Step

LEMMA PInvStep ==
    ASSUME NEW r, Runners = {r}, PInv, [Next]_vars
    PROVE  PInv'
<1>1. IInv' /\ Progress /\ TypeOK
    BY IInvStep, StepProgress DEF PInv, IInv
<1>2. CASE Step(r)
    BY <1>1, <1>2, StepPInv
<1>3. CASE UNCHANGED <<obs, run>>
    BY <1>1, <1>3, UnprobedPInv
<1>4. ASSUME NEW q \in Runners, StartPass(q) \/ (\E c \in Ids : StartOne(q, c)) \/ Crash(q)
      PROVE  PInv'
    <2>1. UNCHANGED obs
        BY <1>4 DEF StartPass, StartOne, Crash
    <2>2. run'[q].pc \notin Probing /\ \A x \in Runners : x = q
        BY <1>1, <1>4 DEF Probing, StartPass, StartOne, Crash, Raise, DownRun, IdleRun,
              Between, TypeOK
    <2> QED
        BY <1>1, <2>1, <2>2, UnprobedPInv
<1>5. CASE \E q \in Schedulers : StartPass(q)
    BY <1>4, <1>5 DEF Runners
<1>6. CASE \E q \in Operators, c \in Ids : StartOne(q, c)
    BY <1>4, <1>6 DEF Runners
<1>7. CASE \E q \in Runners : Crash(q)
    BY <1>4, <1>7
<1>8. CASE \/ Create \/ Tick \/ UNCHANGED vars \/ (\E s \in Servers : SetServerEnabled(s))
           \/ (\E s \in Setters : WriteStatus(s))
           \/ (\E s \in Setters, c \in Ids, st \in {"active", "disabled"} : ReadStatus(s, c, st))
    <2>1. UNCHANGED <<obs, run>>
        BY <1>8 DEF Create, CreateCampaign, Tick, vars, SetServerEnabled, WriteStatus, ReadStatus
    <2> QED
        BY <1>3, <2>1
<1> QED
    BY <1>2, <1>5, <1>6, <1>7, <1>8 DEF Next

\* due_propagation_endpoints and probe_and_record_presence: one runner asks an
\* endpoint for an article no sooner than the campaign's interval after every
\* exchange it recorded, for every number of campaigns, endpoints, crashes and
\* restarts; an exchange that ended before its record leaves no distance to keep.
THEOREM ProbesKeepDistance ==
    ASSUME NEW CONSTANT only, Runners = {only}
    PROVE  Spec => ProbesAreSpaced
<1>1. Init => PInv
    BY InitIInv DEF Init, IdleRun, PInv, DueHaveRested, Probing
<1>2. PInv /\ [Next]_vars => PInv'
    BY PInvStep
<1>3. ASSUME PInv, NEW r \in Runners, NEW e \in Endpoints, Asks(r, e)
      PROVE  LET c == run[r].id
                 o == obs[campaign[c].article][e]
             IN  \A i \in DOMAIN o : clock >= o[i].at + campaign[c].interval
    <2> DEFINE c == run[r].id
               o == obs[campaign[c].article][e]
    <2>1. HasRested(r, e)
        BY <1>3 DEF PInv, DueHaveRested, Asks, Probing, IsFirst
    <2>2. run[r].now \in Int /\ run[r].now <= clock /\ clock \in Int
        BY <1>3 DEF PInv, IInv, RunnersKnow, Know, TypeOK, RunState
    <2>3. /\ campaign[c] \in Campaign
          /\ obs \in [Articles -> [Endpoints -> Seq(Observation)]]
        BY <1>3 DEF PInv, IInv, TypeOK, Asks
    <2>4. campaign[c].interval \in Int /\ o \in Seq(Observation)
        <3>1. campaign[c].interval \in Intervals /\ campaign[c].article \in Articles
            BY <2>3 DEF Campaign
        <3>2. \A i \in Intervals : i \in Int
            BY ConstantsAssumption
        <3> QED
            BY <2>3, <3>1, <3>2
    <2>5. PICK interval \in Int, now \in Int, present \in Int :
              interval = campaign[c].interval /\ now = run[r].now /\ present = clock
        BY <2>2, <2>4
    <2>6. \A i \in DOMAIN o : o[i].at \in Int /\ now >= o[i].at + interval
        <3>1. \A i \in DOMAIN o : now >= o[i].at + interval
            BY <2>1, <2>5 DEF HasRested
        <3>2. \A i \in DOMAIN o : o[i] \in Observation
            BY <2>4
        <3> HIDE DEF o
        <3>3. \A i \in DOMAIN o : o[i].at \in Int
            BY <3>2 DEF Observation
        <3> QED
            BY <3>1, <3>3
    <2>7. \A i \in DOMAIN o : present >= o[i].at + interval
        BY <2>2, <2>5, <2>6
    <2> QED
        BY <2>5, <2>7
<1>4. PInv /\ [Next]_vars => \A r \in Runners, e \in Endpoints : Asks(r, e) =>
          LET c == run[r].id
              o == obs[campaign[c].article][e]
          IN  \A i \in DOMAIN o : clock >= o[i].at + campaign[c].interval
    BY <1>3
<1> QED
    BY <1>1, <1>2, <1>4, PTL DEF Spec, ProbesAreSpaced
=============================================================================
