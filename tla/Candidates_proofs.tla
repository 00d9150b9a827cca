------------------------- MODULE Candidates_proofs -------------------------
(***************************************************************************)
(* What Candidates guarantees for every number of hosts, sources and       *)
(* commands.  Commands act on rows they read before, so the inductive      *)
(* invariant adds what each of them still knows (CommandsKnow) and that a  *)
(* provenance row belongs to an existing server.                           *)
(***************************************************************************)
EXTENDS Candidates, FiniteSetTheorems, TLAPS

USE ConstantsAssumption
USE DEF EnabledBy, ServerState, Decision, Provenance, Classes, NoHost

CommandsKnow ==
    /\ \A i \in Importers : import[i].pc = "attach" => server[import[i].host] # "absent"
    /\ \A d \in Deciders : decide[d].pc = "write" => HasProvenance(decide[d].host)
    /\ \A p \in Promoters : promo[p].pc \in {"policy", "write"} => HasProvenance(promo[p].host)
    /\ \A p \in Promoters : promo[p].pc = "write" =>
           Cardinality(Reachable(promo[p].host)) >= MinReachable
    /\ \A q \in Qualifiers : \A h \in batch[q] : HasProvenance(h)

ProvenanceHasServer == \A h \in Hosts : HasProvenance(h) => server[h] # "absent"

IInv == /\ TypeOK
        /\ CommandsKnow
        /\ ProvenanceHasServer
        /\ RejectedIsOff
        /\ PromotedWasReachable
        /\ OnlyCandidatesAreJudged

LEMMA IdleTypes ==
    /\ IdleImport \in ImportState /\ IdleImport.pc = "idle"
    /\ IdleDecide \in DecideState /\ IdleDecide.pc = "idle"
    /\ IdlePromo \in PromoState /\ IdlePromo.pc = "idle"
BY DEF IdleImport, ImportState, IdleDecide, DecideState, IdlePromo, PromoState

LEMMA InitIInv == Init => IInv
<1> SUFFICES ASSUME Init PROVE IInv
    OBVIOUS
<1>1. TypeOK
    BY IdleTypes DEF Init, TypeOK, DecideState, PromoState, CycleState
<1>2. CommandsKnow /\ ProvenanceHasServer
    BY IdleTypes DEF Init, CommandsKnow, ProvenanceHasServer, HasProvenance
<1>3. RejectedIsOff /\ PromotedWasReachable /\ OnlyCandidatesAreJudged
    BY DEF Init, RejectedIsOff, PromotedWasReachable, OnlyCandidatesAreJudged, Enabled
<1> QED
    BY <1>1, <1>2, <1>3 DEF IInv

-----------------------------------------------------------------------------
\* A candidate was probed: the rest of the batch is left, or nothing.
LEMMA QualifyBatch ==
    ASSUME TypeOK, NEW q \in Qualifiers, NEW h \in Hosts, Qualify(q, h)
    PROVE  /\ cycle' \in [Qualifiers -> CycleState]
           /\ batch' \in [Qualifiers -> SUBSET Hosts]
           /\ \A r \in Qualifiers : batch'[r] \subseteq batch[r]
<1>1. batch \in [Qualifiers -> SUBSET Hosts] /\ cycle \in [Qualifiers -> CycleState]
    BY DEF TypeOK
<1>2. \E rest \in SUBSET batch[q] : batch' = [batch EXCEPT ![q] = rest]
    <2>1. batch[q] \ {h} \in SUBSET batch[q] /\ {} \in SUBSET batch[q]
        OBVIOUS
    <2> QED
        BY <2>1 DEF Qualify
<1>3. \E label \in CycleState : cycle' = [cycle EXCEPT ![q] = label]
    <2>1. (IF batch[q] = {h} THEN "idle" ELSE cycle[q]) \in CycleState /\ "failed" \in CycleState
        BY <1>1 DEF CycleState
    <2> QED
        BY <2>1 DEF Qualify
<1> QED
    BY <1>1, <1>2, <1>3

\* Every step keeps the types.
LEMMA TypeStep == TypeOK /\ [Next]_vars => TypeOK'
<1> SUFFICES ASSUME TypeOK, [Next]_vars PROVE TypeOK'
    OBVIOUS
<1> USE DEF TypeOK
<1>1. ASSUME NEW i \in Importers, NEW s \in Sources, NEW todo \in SUBSET Hosts,
             NEW snapshot \in BOOLEAN, NEW activate \in BOOLEAN,
             BeginImport(i, s, todo, snapshot, activate)
      PROVE  TypeOK'
  <2>1. [pc |-> "look", source |-> s, todo |-> todo, host |-> NoHost, existed |-> FALSE,
         activate |-> activate] \in ImportState
      BY DEF ImportState
  <2>2. provenance' \in [Hosts -> [Sources -> Provenance]]
      BY <1>1 DEF BeginImport
  <2> QED
      BY <1>1, <2>1, <2>2 DEF BeginImport
<1>2. ASSUME NEW i \in Importers, NEW v \in ImportState,
             v.pc \in {"ensure", "attach"} => v.host \in Hosts,
             import' = [import EXCEPT ![i] = v]
      PROVE  /\ import' \in [Importers -> ImportState]
             /\ \A j \in Importers :
                    import'[j].pc \in {"ensure", "attach"} => import'[j].host \in Hosts
    BY <1>2
<1>3. ASSUME NEW i \in Importers, NEW h \in Hosts, LookUp(i, h)
      PROVE  TypeOK'
  <2> DEFINE v == [import[i] EXCEPT !.pc = "ensure", !.host = h,
                       !.existed = (server[h] # "absent"), !.todo = @ \ {h}]
  <2>0. import[i] \in ImportState
      OBVIOUS
  <2>1. v \in ImportState /\ v.host \in Hosts
      BY <2>0 DEF ImportState
  <2>2. import' = [import EXCEPT ![i] = v]
      BY <1>3 DEF LookUp
  <2> QED
      BY <1>2, <1>3, <2>1, <2>2 DEF LookUp
<1>4. ASSUME NEW i \in Importers, EnsureEndpoint(i)
      PROVE  TypeOK'
  <2> DEFINE v == [import[i] EXCEPT !.pc = "attach"]
  <2>0. import[i] \in ImportState /\ import[i].host \in Hosts
      BY <1>4 DEF EnsureEndpoint
  <2>1. v \in ImportState /\ v.host \in Hosts
      BY <2>0 DEF ImportState
  <2>2. import' = [import EXCEPT ![i] = v]
      BY <1>4 DEF EnsureEndpoint
  <2>3. server' \in [Hosts -> ServerState]
      BY <1>4 DEF EnsureEndpoint
  <2> QED
      BY <1>2, <1>4, <2>1, <2>2, <2>3 DEF EnsureEndpoint
<1>5. ASSUME NEW i \in Importers, Attach(i)
      PROVE  TypeOK'
  <2> DEFINE v == [import[i] EXCEPT !.pc = "look", !.host = NoHost, !.existed = FALSE]
  <2>0. import[i] \in ImportState
      OBVIOUS
  <2>1. v \in ImportState /\ v.pc = "look"
      BY <2>0 DEF ImportState
  <2>2. import' = [import EXCEPT ![i] = v]
      BY <1>5 DEF Attach
  <2>3. server' \in [Hosts -> ServerState] /\ import[i].source \in Sources
      BY <1>5 DEF Attach, ImportState
  <2>4. provenance' \in [Hosts -> [Sources -> Provenance]]
      BY <1>5, <2>3 DEF Attach
  <2> QED
      BY <1>2, <1>5, <2>1, <2>2, <2>3, <2>4 DEF Attach
<1>6. ASSUME NEW i \in Importers, EndImport(i) \/ CrashImport(i)
      PROVE  TypeOK'
    BY <1>2, <1>6, IdleTypes DEF EndImport, CrashImport
<1>7. ASSUME NEW h \in Hosts,
             AddEndpoint(h) \/ \E on \in BOOLEAN : SetServerEnabled(h, on)
      PROVE  TypeOK'
    BY <1>7 DEF AddEndpoint, SetServerEnabled, commands
<1>8. ASSUME NEW s \in Sources, SetSourceEnabled(s)
      PROVE  TypeOK'
    BY <1>8 DEF SetSourceEnabled, commands
<1>9. ASSUME NEW d \in Deciders, NEW h \in Hosts,
             NEW st \in {"pending", "rejected", "ignored"}, CheckStatus(d, h, st)
      PROVE  TypeOK'
  <2>1. [pc |-> "write", host |-> h, to |-> st] \in DecideState
      BY DEF DecideState
  <2> QED
      BY <1>9, <2>1 DEF CheckStatus
<1>10. ASSUME NEW d \in Deciders, WriteDecision(d)
       PROVE  TypeOK'
  <2>1. decide[d] \in DecideState /\ decide[d].host \in Hosts
      BY <1>10 DEF WriteDecision
  <2>2. decision' \in [Hosts -> Decision] /\ server' \in [Hosts -> ServerState]
      BY <1>10, <2>1 DEF WriteDecision, DecideState
  <2> QED
      BY <1>10, <2>2, IdleTypes DEF WriteDecision
<1>15. ASSUME NEW p \in Promoters, NEW h \in Hosts, CheckProvenance(p, h)
       PROVE  TypeOK'
  <2>1. [pc |-> "policy", host |-> h] \in PromoState
      BY DEF PromoState
  <2> QED
      BY <1>15, <2>1 DEF CheckProvenance
<1>16. ASSUME NEW p \in Promoters, CheckPolicy(p)
       PROVE  TypeOK'
  <2> DEFINE v == [promo[p] EXCEPT !.pc = "write"]
  <2>1. promo[p] \in PromoState /\ promo[p].host \in Hosts
      BY <1>16 DEF CheckPolicy
  <2>2. v \in PromoState /\ v.host \in Hosts
      BY <2>1 DEF PromoState
  <2>3. promo' = [promo EXCEPT ![p] = v] \/ promo' = [promo EXCEPT ![p] = IdlePromo]
      BY <1>16 DEF CheckPolicy
  <2> HIDE DEF v
  <2> QED
      BY <1>16, <2>2, <2>3, IdleTypes DEF CheckPolicy
<1>17. ASSUME NEW p \in Promoters, Promote(p)
       PROVE  TypeOK'
  <2>1. server' \in [Hosts -> ServerState] /\ decision' \in [Hosts -> Decision]
      BY <1>17 DEF Promote
  <2> QED
      BY <1>17, <2>1, IdleTypes DEF Promote
<1>11. ASSUME NEW q \in Qualifiers, StartCycle(q) \/ RefreshFails(q) \/ ReadDue(q)
       PROVE  TypeOK'
  <2>1. cycle' \in [Qualifiers -> CycleState]
      BY <1>11 DEF StartCycle, RefreshFails, ReadDue, CycleState
  <2>2. DueCandidates \in SUBSET Hosts
      BY DEF DueCandidates, Due
  <2>3. batch' \in [Qualifiers -> SUBSET Hosts]
      BY <1>11, <2>2 DEF StartCycle, RefreshFails, ReadDue
  <2> QED
      BY <1>11, <2>1, <2>3 DEF StartCycle, RefreshFails, ReadDue
<1>12. ASSUME NEW q \in Qualifiers, NEW h \in Hosts, Qualify(q, h), ~ UNCHANGED quals
       PROVE  TypeOK'
  <2>1. PICK class \in Classes :
             quals' = [quals EXCEPT ![h] = Append(@, [at |-> clock, class |-> class])]
      BY <1>12 DEF Qualify
  <2>2. [at |-> clock, class |-> class] \in Qualification
      BY DEF Qualification
  <2>3. Append(quals[h], [at |-> clock, class |-> class]) \in Seq(Qualification)
      BY <2>2
  <2>4. cycle' \in [Qualifiers -> CycleState] /\ batch' \in [Qualifiers -> SUBSET Hosts]
      BY <1>12, QualifyBatch
  <2> QED
      BY <1>12, <2>1, <2>3, <2>4 DEF Qualify
<1>18. ASSUME NEW q \in Qualifiers, NEW h \in Hosts, Qualify(q, h), UNCHANGED quals
       PROVE  TypeOK'
  <2>1. cycle' \in [Qualifiers -> CycleState] /\ batch' \in [Qualifiers -> SUBSET Hosts]
      BY <1>18, QualifyBatch
  <2> QED
      BY <1>18, <2>1 DEF Qualify
<1>13. CASE Tick
  <2>1. quals' \in [Hosts -> Seq(Qualification)]
      BY <1>13 DEF Tick
  <2> QED
      BY <1>13, <2>1 DEF Tick, commands
<1>14. CASE UNCHANGED vars
    BY <1>14 DEF vars
<1> HIDE DEF TypeOK
<1> QED
    BY <1>1, <1>3, <1>4, <1>5, <1>6, <1>7, <1>8, <1>9, <1>10, <1>11, <1>12, <1>13, <1>14,
       <1>15, <1>16, <1>17, <1>18
    DEF Next, ImportStep, QualifyStep

-----------------------------------------------------------------------------
\* What no step takes back: a server or a provenance row is never deleted, a
\* result is only appended.
Grows ==
    /\ \A h \in Hosts : server[h] # "absent" => server'[h] # "absent"
    /\ \A h \in Hosts, s \in Sources : provenance[h][s] # "none" => provenance'[h][s] # "none"
    /\ \A h \in Hosts : \/ quals'[h] = quals[h]
                        \/ \E x \in Qualification : quals'[h] = Append(quals[h], x)

LEMMA ServerGrows ==
    TypeOK /\ [Next]_vars => \A h \in Hosts : server[h] # "absent" => server'[h] # "absent"
<1> SUFFICES ASSUME TypeOK, [Next]_vars, NEW h \in Hosts, server[h] # "absent"
             PROVE  server'[h] # "absent"
    OBVIOUS
<1> USE DEF TypeOK
<1>1. ASSUME NEW i \in Importers, EnsureEndpoint(i) \/ Attach(i)
      PROVE  server'[h] # "absent"
    BY <1>1 DEF EnsureEndpoint, Attach
<1>2. ASSUME NEW g \in Hosts, AddEndpoint(g) \/ \E on \in BOOLEAN : SetServerEnabled(g, on)
      PROVE  server'[h] # "absent"
    BY <1>2 DEF AddEndpoint, SetServerEnabled
<1>3. ASSUME NEW d \in Deciders, WriteDecision(d)
      PROVE  server'[h] # "absent"
    BY <1>3 DEF WriteDecision
<1>4. ASSUME NEW p \in Promoters, Promote(p)
      PROVE  server'[h] # "absent"
    BY <1>4 DEF Promote
<1> HIDE DEF TypeOK
<1>5. CASE server' = server
    BY <1>5
<1> QED
    BY <1>1, <1>2, <1>3, <1>4, <1>5
    DEF Next, vars, commands, ImportStep, QualifyStep, BeginImport, LookUp, EndImport,
        CrashImport, SetSourceEnabled, CheckStatus, CheckProvenance, CheckPolicy,
        StartCycle, RefreshFails, ReadDue, Qualify, Tick

\* Only BeginImport and Attach write server_sources.
LEMMA ProvenanceWriters ==
    ASSUME [Next]_vars
    PROVE  \/ provenance' = provenance
           \/ \E i \in Importers : Attach(i)
           \/ \E i \in Importers, s \in Sources, todo \in SUBSET Hosts,
                 snapshot \in BOOLEAN, activate \in BOOLEAN :
                     BeginImport(i, s, todo, snapshot, activate)
BY DEF Next, vars, commands, ImportStep, QualifyStep, LookUp, EnsureEndpoint, EndImport,
       CrashImport, AddEndpoint, SetServerEnabled, SetSourceEnabled, CheckStatus,
       WriteDecision, CheckProvenance, CheckPolicy, Promote, StartCycle,
        RefreshFails, ReadDue, Qualify, Tick

LEMMA QualsWriters ==
    ASSUME [Next]_vars
    PROVE  quals' = quals \/ \E q \in Qualifiers, h \in Hosts : Qualify(q, h)
BY DEF Next, vars, commands, ImportStep, QualifyStep, BeginImport, LookUp, EnsureEndpoint,
       Attach, EndImport, CrashImport, AddEndpoint, SetServerEnabled, SetSourceEnabled,
       CheckStatus, WriteDecision, CheckProvenance, CheckPolicy, Promote, StartCycle, RefreshFails,
       ReadDue, Tick

LEMMA DecisionWriters ==
    ASSUME [Next]_vars
    PROVE  \/ decision' = decision
           \/ \E d \in Deciders : WriteDecision(d)
           \/ \E p \in Promoters : Promote(p)
BY DEF Next, vars, commands, ImportStep, QualifyStep, BeginImport, LookUp, EnsureEndpoint,
       Attach, EndImport, CrashImport, AddEndpoint, SetServerEnabled, SetSourceEnabled,
       CheckStatus, CheckProvenance, CheckPolicy, StartCycle, RefreshFails, ReadDue,
       Qualify, Tick

LEMMA StepGrows == TypeOK /\ [Next]_vars => Grows
<1> SUFFICES ASSUME TypeOK, [Next]_vars PROVE Grows
    OBVIOUS
<1>1. \A h \in Hosts, s \in Sources : provenance[h][s] # "none" => provenance'[h][s] # "none"
  <2>1. CASE \E i \in Importers : Attach(i)
      BY <2>1 DEF Attach, TypeOK, ImportState
  <2>2. CASE \E i \in Importers, s \in Sources, todo \in SUBSET Hosts,
                snapshot \in BOOLEAN, activate \in BOOLEAN :
                    BeginImport(i, s, todo, snapshot, activate)
      BY <2>2 DEF BeginImport, TypeOK
  <2> QED
      BY <2>1, <2>2, ProvenanceWriters
<1>2. \A h \in Hosts : \/ quals'[h] = quals[h]
                       \/ \E x \in Qualification : quals'[h] = Append(quals[h], x)
  <2>1. ASSUME NEW q \in Qualifiers, NEW g \in Hosts, Qualify(q, g), ~ UNCHANGED quals,
               NEW h \in Hosts
        PROVE  \/ quals'[h] = quals[h]
               \/ \E x \in Qualification : quals'[h] = Append(quals[h], x)
    <3>1. PICK class \in Classes :
               quals' = [quals EXCEPT ![g] = Append(@, [at |-> clock, class |-> class])]
        BY <2>1 DEF Qualify
    <3>2. [at |-> clock, class |-> class] \in Qualification
        BY DEF Qualification, TypeOK
    <3> QED
        BY <3>1, <3>2 DEF TypeOK
  <2> QED
      BY <2>1, QualsWriters
<1> QED
    BY <1>1, <1>2, ServerGrows DEF Grows

LEMMA ProvenanceGrows ==
    ASSUME Grows, NEW h \in Hosts, HasProvenance(h)
    PROVE  HasProvenance(h)'
BY DEF Grows, HasProvenance

LEMMA ReachableFinite ==
    ASSUME NEW S \in Seq(Qualification)
    PROVE  IsFiniteSet({k \in DOMAIN S : S[k].class = "reachable"})
<1>1. IsFiniteSet(1 .. Len(S))
    BY FS_Interval
<1> QED
    BY <1>1, FS_Subset

LEMMA ReachableGrows ==
    ASSUME TypeOK, TypeOK', Grows, NEW h \in Hosts
    PROVE  /\ Cardinality(Reachable(h)) \in Nat /\ Cardinality(Reachable(h)') \in Nat
           /\ Cardinality(Reachable(h)) <= Cardinality(Reachable(h)')
<1>1. quals[h] \in Seq(Qualification) /\ quals'[h] \in Seq(Qualification)
    BY DEF TypeOK
<1>2. Reachable(h) \subseteq Reachable(h)'
  <2>1. CASE quals'[h] = quals[h]
      BY <2>1 DEF Reachable
  <2>2. ASSUME NEW x \in Qualification, quals'[h] = Append(quals[h], x),
               NEW k \in DOMAIN quals[h]
        PROVE  k \in DOMAIN quals'[h] /\ quals'[h][k] = quals[h][k]
      BY <1>1, <2>2
  <2>3. ASSUME NEW x \in Qualification, quals'[h] = Append(quals[h], x),
               NEW k \in Reachable(h)
        PROVE  k \in Reachable(h)'
    <3>1. k \in DOMAIN quals[h] /\ quals[h][k].class = "reachable"
        BY <2>3 DEF Reachable
    <3>2. k \in DOMAIN quals'[h] /\ quals'[h][k] = quals[h][k]
        BY <2>2, <2>3, <3>1
    <3> QED
        BY <3>1, <3>2 DEF Reachable
  <2> QED
      BY <2>1, <2>3 DEF Grows
<1>3. IsFiniteSet(Reachable(h)) /\ IsFiniteSet(Reachable(h)')
    BY <1>1, ReachableFinite DEF Reachable
<1> QED
    BY <1>2, <1>3, FS_Subset, FS_CardinalityType

LEMMA EnoughStaysEnough ==
    ASSUME TypeOK, TypeOK', Grows, NEW h \in Hosts, Cardinality(Reachable(h)) >= MinReachable
    PROVE  Cardinality(Reachable(h)') >= MinReachable
<1>1. \A a, b, c \in Nat : a <= b /\ a >= c => b >= c
    OBVIOUS
<1>2. MinReachable \in Nat
    BY ConstantsAssumption
<1>3. /\ Cardinality(Reachable(h)) \in Nat /\ Cardinality(Reachable(h)') \in Nat
      /\ Cardinality(Reachable(h)) <= Cardinality(Reachable(h)')
    BY ReachableGrows
<1> QED
    BY <1>1, <1>2, <1>3

-----------------------------------------------------------------------------
\* What a command read still holds when it writes.

LEMMA ImportsKnow ==
    ASSUME IInv, [Next]_vars, Grows, NEW i \in Importers, import'[i].pc = "attach"
    PROVE  server'[import'[i].host] # "absent"
<1> USE DEF IInv, TypeOK
<1>1. CASE import'[i] = import[i]
  <2>1. import[i].host \in Hosts /\ server[import[i].host] # "absent"
      BY <1>1 DEF CommandsKnow
  <2> QED
      BY <1>1, <2>1 DEF Grows
<1>2. CASE EnsureEndpoint(i)
  <2>1. import[i].host \in Hosts /\ import'[i].host = import[i].host
      BY <1>2 DEF EnsureEndpoint, ImportState
  <2> QED
      BY <1>2, <2>1 DEF EnsureEndpoint
<1>3. \/ import'[i] = import[i] \/ import'[i].pc # "attach" \/ EnsureEndpoint(i)
  <2>1. ASSUME NEW j \in Importers, NEW h \in Hosts,
               LookUp(j, h) \/ Attach(j) \/ EndImport(j) \/ CrashImport(j)
        PROVE  import'[i] = import[i] \/ import'[i].pc # "attach"
      BY <2>1, IdleTypes DEF LookUp, Attach, EndImport, CrashImport, ImportState
  <2>5. ASSUME NEW j \in Importers, Attach(j) \/ EndImport(j) \/ CrashImport(j)
        PROVE  import'[i] = import[i] \/ import'[i].pc # "attach"
      BY <2>5, IdleTypes DEF Attach, EndImport, CrashImport, ImportState
  <2>2. ASSUME NEW j \in Importers, EnsureEndpoint(j)
        PROVE  import'[i] = import[i] \/ EnsureEndpoint(i)
      BY <2>2 DEF EnsureEndpoint
  <2>3. ASSUME NEW j \in Importers, NEW s \in Sources, NEW todo \in SUBSET Hosts,
               NEW snapshot \in BOOLEAN, NEW activate \in BOOLEAN,
               BeginImport(j, s, todo, snapshot, activate)
        PROVE  import'[i] = import[i] \/ import'[i].pc # "attach"
      BY <2>3 DEF BeginImport
  <2>4. CASE import' = import
      BY <2>4
  <2> HIDE DEF IInv, TypeOK
  <2> QED
      BY <2>1, <2>2, <2>3, <2>4, <2>5
      DEF Next, vars, commands, ImportStep, QualifyStep, AddEndpoint, SetServerEnabled,
          SetSourceEnabled, CheckStatus, WriteDecision, CheckProvenance, CheckPolicy,
          Promote, StartCycle, RefreshFails, ReadDue, Qualify, Tick
<1> QED
    BY <1>1, <1>2, <1>3

\* The other three kinds of process write their local state only when they
\* read.
LEMMA DecideWriters ==
    ASSUME IInv, [Next]_vars, NEW d \in Deciders, decide'[d].pc = "write"
    PROVE  \/ decide'[d] = decide[d]
           \/ \E h \in Hosts : decide'[d].host = h /\ HasProvenance(h)
<1> USE DEF IInv, TypeOK
<1>1. ASSUME NEW e \in Deciders, NEW h \in Hosts,
             NEW st \in {"pending", "rejected", "ignored"}, CheckStatus(e, h, st)
      PROVE  \/ decide'[d] = decide[d]
             \/ \E g \in Hosts : decide'[d].host = g /\ HasProvenance(g)
    BY <1>1 DEF CheckStatus, Decidable
<1>2. ASSUME NEW e \in Deciders, WriteDecision(e)
      PROVE  decide'[d] = decide[d]
    BY <1>2, IdleTypes DEF WriteDecision
<1>3. CASE decide' = decide
    BY <1>3
<1> HIDE DEF IInv, TypeOK
<1> QED
    BY <1>1, <1>2, <1>3
    DEF Next, vars, commands, ImportStep, QualifyStep, BeginImport, LookUp, EnsureEndpoint,
        Attach, EndImport, CrashImport, AddEndpoint, SetServerEnabled, SetSourceEnabled,
        CheckProvenance, CheckPolicy, Promote, StartCycle,
        RefreshFails, ReadDue, Qualify, Tick

LEMMA PromoWriters ==
    ASSUME IInv, [Next]_vars, NEW p \in Promoters, promo'[p].pc \in {"policy", "write"}
    PROVE  \/ promo'[p] = promo[p]
           \/ /\ promo'[p].pc = "policy"
              /\ \E h \in Hosts : promo'[p].host = h /\ HasProvenance(h)
           \/ /\ promo[p].pc = "policy" /\ promo'[p].host = promo[p].host
              /\ PromotionPolicy(promo[p].host)
<1> USE DEF IInv, TypeOK
<1>1. ASSUME NEW r \in Promoters, NEW h \in Hosts, CheckProvenance(r, h)
      PROVE  \/ promo'[p] = promo[p]
             \/ /\ promo'[p].pc = "policy"
                /\ \E g \in Hosts : promo'[p].host = g /\ HasProvenance(g)
    BY <1>1 DEF CheckProvenance, ActiveProvenance, HasProvenance
<1>2. ASSUME NEW r \in Promoters, CheckPolicy(r)
      PROVE  \/ promo'[p] = promo[p]
             \/ /\ promo[p].pc = "policy" /\ promo'[p].host = promo[p].host
                /\ PromotionPolicy(promo[p].host)
    BY <1>2, IdleTypes DEF CheckPolicy, PromoState
<1>3. ASSUME NEW r \in Promoters, Promote(r)
      PROVE  promo'[p] = promo[p]
    BY <1>3, IdleTypes DEF Promote
<1>4. CASE promo' = promo
    BY <1>4
<1> HIDE DEF IInv, TypeOK
<1> QED
    BY <1>1, <1>2, <1>3, <1>4
    DEF Next, vars, commands, ImportStep, QualifyStep, BeginImport, LookUp, EnsureEndpoint,
        Attach, EndImport, CrashImport, AddEndpoint, SetServerEnabled, SetSourceEnabled,
        CheckStatus, WriteDecision, StartCycle, RefreshFails, ReadDue, Qualify, Tick

LEMMA BatchWriters ==
    ASSUME IInv, [Next]_vars, NEW q \in Qualifiers, NEW h \in batch'[q]
    PROVE  h \in Hosts /\ HasProvenance(h)
<1> USE DEF IInv, TypeOK
<1>1. ASSUME NEW r \in Qualifiers, ReadDue(r)
      PROVE  h \in Hosts /\ HasProvenance(h)
    BY <1>1
    DEF ReadDue, DueCandidates, Due, Eligible, ActiveProvenance, HasProvenance, CommandsKnow
<1>2. ASSUME NEW r \in Qualifiers, NEW g \in Hosts, Qualify(r, g)
      PROVE  h \in Hosts /\ HasProvenance(h)
    BY <1>2, QualifyBatch DEF CommandsKnow
<1>3. CASE batch' = batch
    BY <1>3 DEF CommandsKnow
<1> HIDE DEF IInv, TypeOK
<1> QED
    BY <1>1, <1>2, <1>3
    DEF Next, vars, commands, ImportStep, QualifyStep, BeginImport, LookUp, EnsureEndpoint,
        Attach, EndImport, CrashImport, AddEndpoint, SetServerEnabled, SetSourceEnabled,
        CheckStatus, WriteDecision, CheckProvenance, CheckPolicy, Promote,
        StartCycle, RefreshFails, Tick

\* A promotion policy that holds was computed from that many good results.
LEMMA PolicyCounts ==
    ASSUME TypeOK, NEW h \in Hosts, PromotionPolicy(h)
    PROVE  Cardinality(Reachable(h)) >= MinReachable
<1>1. IsFiniteSet(Reachable(h))
    BY ReachableFinite DEF TypeOK, Reachable
<1>2. /\ Cardinality(Fresh(h) \cap Reachable(h)) \in Nat
      /\ Cardinality(Reachable(h)) \in Nat
      /\ Cardinality(Fresh(h) \cap Reachable(h)) <= Cardinality(Reachable(h))
    BY <1>1, FS_Subset, FS_CardinalityType
<1> QED
    BY <1>2 DEF PromotionPolicy

LEMMA CommandsKnowStep ==
    ASSUME IInv, [Next]_vars
    PROVE  CommandsKnow'
<1>1. TypeOK /\ TypeOK' /\ Grows
    BY TypeStep, StepGrows DEF IInv
<1>2. ASSUME NEW d \in Deciders, decide'[d].pc = "write"
      PROVE  HasProvenance(decide[d].host)'
  <2>1. PICK h \in Hosts : decide'[d].host = h
      BY <1>1, <1>2 DEF TypeOK
  <2>2. HasProvenance(h)
    <3>1. CASE decide'[d] = decide[d]
        BY <1>2, <2>1, <3>1 DEF IInv, CommandsKnow
    <3> QED
        BY <1>2, <2>1, <3>1, DecideWriters
  <2>3. HasProvenance(h)'
      BY <1>1, <2>2, ProvenanceGrows
  <2> QED
      BY <2>1, <2>3 DEF HasProvenance
<1>3. ASSUME NEW p \in Promoters, promo'[p].pc \in {"policy", "write"}
      PROVE  /\ HasProvenance(promo[p].host)'
             /\ promo'[p].pc = "write" =>
                    (Cardinality(Reachable(promo[p].host)) >= MinReachable)'
  <2>1. PICK h \in Hosts : promo'[p].host = h
      BY <1>1, <1>3 DEF TypeOK
  <2>2. HasProvenance(h)
    <3>1. CASE promo[p].pc \in {"policy", "write"} /\ promo[p].host = h
        BY <3>1 DEF IInv, CommandsKnow
    <3> QED
        BY <1>3, <2>1, <3>1, PromoWriters
  <2>3. promo'[p].pc = "write" => Cardinality(Reachable(h)) >= MinReachable
    <3>1. CASE promo[p].pc = "write" /\ promo[p].host = h
        BY <3>1 DEF IInv, CommandsKnow
    <3>2. CASE PromotionPolicy(h)
        BY <1>1, <3>2, PolicyCounts
    <3> QED
        BY <1>3, <2>1, <3>1, <3>2, PromoWriters
  <2>4. HasProvenance(h)'
      BY <1>1, <2>2, ProvenanceGrows
  <2>5. promo'[p].pc = "write" => Cardinality(Reachable(h)') >= MinReachable
      BY <1>1, <2>3, EnoughStaysEnough
  <2> QED
      BY <2>1, <2>4, <2>5 DEF HasProvenance, Reachable
<1>4. ASSUME NEW q \in Qualifiers, NEW h \in batch'[q]
      PROVE  HasProvenance(h)'
    BY <1>1, <1>4, BatchWriters, ProvenanceGrows
<1>5. \A i \in Importers : import'[i].pc = "attach" => server'[import'[i].host] # "absent"
    BY <1>1, ImportsKnow
<1> QED
    BY <1>2, <1>3, <1>4, <1>5 DEF CommandsKnow

-----------------------------------------------------------------------------
\* The named parts of the invariant.

LEMMA ProvenanceHasServerStep ==
    ASSUME IInv, [Next]_vars
    PROVE  ProvenanceHasServer'
<1>1. TypeOK /\ TypeOK' /\ Grows
    BY TypeStep, StepGrows DEF IInv
<1>2. ASSUME NEW h \in Hosts, HasProvenance(h)'
      PROVE  HasProvenance(h) \/ server'[h] # "absent"
  <2>1. ASSUME NEW i \in Importers, Attach(i)
        PROVE  HasProvenance(h) \/ server'[h] # "absent"
    <3>1. CASE import[i].host = h
        BY <1>1, <2>1, <3>1 DEF Attach, IInv, CommandsKnow, Grows
    <3>2. CASE import[i].host # h
        BY <1>1, <1>2, <2>1, <3>2 DEF Attach, HasProvenance, TypeOK
    <3> QED
        BY <3>1, <3>2
  <2>2. CASE \E i \in Importers, s \in Sources, todo \in SUBSET Hosts,
                snapshot \in BOOLEAN, activate \in BOOLEAN :
                    BeginImport(i, s, todo, snapshot, activate)
      BY <1>1, <1>2, <2>2 DEF BeginImport, HasProvenance, TypeOK
  <2>3. CASE provenance' = provenance
      BY <1>2, <2>3 DEF HasProvenance
  <2> QED
      BY <2>1, <2>2, <2>3, ProvenanceWriters
<1> QED
    BY <1>1, <1>2 DEF ProvenanceHasServer, IInv, Grows

LEMMA OnlyCandidatesAreJudgedStep ==
    ASSUME IInv, [Next]_vars
    PROVE  OnlyCandidatesAreJudged'
<1>1. TypeOK /\ TypeOK' /\ Grows
    BY TypeStep, StepGrows DEF IInv
<1>2. ASSUME NEW h \in Hosts, decision'[h] # "none"
      PROVE  HasProvenance(h)
  <2>1. CASE \E d \in Deciders : WriteDecision(d)
      BY <1>1, <1>2, <2>1 DEF WriteDecision, IInv, CommandsKnow, OnlyCandidatesAreJudged, TypeOK
  <2>2. CASE \E p \in Promoters : Promote(p)
      BY <1>1, <1>2, <2>2 DEF Promote, IInv, CommandsKnow, OnlyCandidatesAreJudged, TypeOK
  <2>3. CASE decision' = decision
      BY <1>2, <2>3 DEF IInv, OnlyCandidatesAreJudged
  <2> QED
      BY <2>1, <2>2, <2>3, DecisionWriters
<1>3. ASSUME NEW h \in Hosts, quals'[h] # <<>>
      PROVE  HasProvenance(h)
  <2>1. CASE \E q \in Qualifiers, g \in Hosts : Qualify(q, g)
      BY <1>1, <1>3, <2>1 DEF Qualify, IInv, CommandsKnow, OnlyCandidatesAreJudged, TypeOK
  <2>2. CASE quals' = quals
      BY <1>3, <2>2 DEF IInv, OnlyCandidatesAreJudged
  <2> QED
      BY <2>1, <2>2, QualsWriters
<1> QED
    BY <1>1, <1>2, <1>3, ProvenanceGrows DEF OnlyCandidatesAreJudged

LEMMA PromotedWasReachableStep ==
    ASSUME IInv, [Next]_vars
    PROVE  PromotedWasReachable'
<1>1. TypeOK /\ TypeOK' /\ Grows
    BY TypeStep, StepGrows DEF IInv
<1>2. ASSUME NEW h \in Hosts, decision'[h] = "promoted"
      PROVE  Cardinality(Reachable(h)) >= MinReachable
  <2>1. CASE \E d \in Deciders : WriteDecision(d)
      BY <1>1, <1>2, <2>1 DEF WriteDecision, IInv, PromotedWasReachable, TypeOK, DecideState
  <2>2. CASE \E p \in Promoters : Promote(p)
      BY <1>1, <1>2, <2>2 DEF Promote, IInv, CommandsKnow, PromotedWasReachable, TypeOK
  <2>3. CASE decision' = decision
      BY <1>2, <2>3 DEF IInv, PromotedWasReachable
  <2> QED
      BY <2>1, <2>2, <2>3, DecisionWriters
<1>3. ASSUME NEW h \in Hosts, decision'[h] = "promoted"
      PROVE  Cardinality(Reachable(h)') >= MinReachable
    BY <1>1, <1>2, <1>3, EnoughStaysEnough
<1> QED
    BY <1>3 DEF PromotedWasReachable, Reachable

\* The step that could break RejectedIsOff is EnsureEndpoint: its new row is
\* enabled, but a server that was not there has never been decided about.
LEMMA RejectedIsOffStep ==
    ASSUME IInv, [Next]_vars
    PROVE  RejectedIsOff'
<1>1. TypeOK /\ TypeOK'
    BY TypeStep DEF IInv
<1> SUFFICES ASSUME NEW h \in Hosts, decision'[h] \in {"rejected", "ignored"},
                    server'[h] \in EnabledBy
             PROVE  server'[h] = "operator"
    BY DEF RejectedIsOff, Enabled
<1>2. CASE \E d \in Deciders : WriteDecision(d)
    BY <1>1, <1>2 DEF WriteDecision, Disables, IInv, RejectedIsOff, Enabled, TypeOK, DecideState
<1>3. CASE \E p \in Promoters : Promote(p)
    BY <1>1, <1>3 DEF Promote, IInv, RejectedIsOff, Enabled, TypeOK
<1>4. CASE decision' = decision /\ server'[h] = server[h]
    BY <1>4 DEF IInv, RejectedIsOff, Enabled
<1>5. CASE \E i \in Importers : EnsureEndpoint(i)
  <2>1. HasProvenance(h) => server[h] # "absent"
      BY DEF IInv, ProvenanceHasServer
  <2>2. decision[h] \in {"rejected", "ignored"} /\ server[h] # "absent"
      BY <1>5, <2>1 DEF EnsureEndpoint, IInv, OnlyCandidatesAreJudged
  <2>3. server'[h] = server[h]
      BY <1>1, <1>5, <2>2 DEF EnsureEndpoint, TypeOK
  <2> QED
      BY <1>5, <2>3, <1>4 DEF EnsureEndpoint
<1>6. CASE \E i \in Importers : Attach(i)
    BY <1>1, <1>4, <1>6 DEF Attach, TypeOK
<1>7. CASE \E g \in Hosts : AddEndpoint(g) \/ \E on \in BOOLEAN : SetServerEnabled(g, on)
    BY <1>1, <1>4, <1>7 DEF AddEndpoint, SetServerEnabled, TypeOK
<1>8. CASE decision' = decision /\ server' = server
    BY <1>4, <1>8
<1> QED
    BY <1>2, <1>3, <1>5, <1>6, <1>7, <1>8
    DEF Next, vars, commands, ImportStep, QualifyStep, BeginImport, LookUp, EndImport,
        CrashImport, SetSourceEnabled, CheckStatus, CheckProvenance, CheckPolicy,
        StartCycle, RefreshFails, ReadDue, Qualify, Tick

-----------------------------------------------------------------------------
\* The strengthened invariant holds in every behaviour.
THEOREM Invariance == Spec => []IInv
<1>1. Init => IInv
    BY InitIInv
<1>2. IInv /\ [Next]_vars => IInv'
  <2> SUFFICES ASSUME IInv, [Next]_vars PROVE IInv'
      OBVIOUS
  <2>1. TypeOK'
      BY TypeStep DEF IInv
  <2> QED
      BY <2>1, CommandsKnowStep, ProvenanceHasServerStep, RejectedIsOffStep,
         PromotedWasReachableStep, OnlyCandidatesAreJudgedStep DEF IInv
<1> QED
    BY <1>1, <1>2, PTL DEF Spec

\* The rows and the local state of every command keep their types (the model's
\* reading of the schema in storage.py).
THEOREM TypeCorrect == Spec => []TypeOK
<1>1. IInv => TypeOK
    BY DEF IInv
<1> QED
    BY <1>1, Invariance, PTL

\* set_candidate_status against imports, qualifications and promotions: a
\* rejected or ignored server is only ever on because an operator said so.
THEOREM RejectionHolds == Spec => []RejectedIsOff
<1>1. IInv => RejectedIsOff
    BY DEF IInv
<1> QED
    BY <1>1, Invariance, PTL

\* promote_candidate reads its results outside of the transaction that
\* promotes; nothing it read can go away meanwhile.
THEOREM PromotionEarned == Spec => []PromotedWasReachable
<1>1. IInv => PromotedWasReachable
    BY DEF IInv
<1> QED
    BY <1>1, Invariance, PTL

\* Decisions and results exist only for servers some source named.
THEOREM CandidatesOnly == Spec => []OnlyCandidatesAreJudged
<1>1. IInv => OnlyCandidatesAreJudged
    BY DEF IInv
<1> QED
    BY <1>1, Invariance, PTL

-----------------------------------------------------------------------------
(* What an import leaves switched on.                                      *)

\* Importer i has inserted h and will switch it off.
WillDisable(i, h) == import[i].pc = "attach" /\ import[i].host = h /\ DisablesNew(i)

\* What an importer found is still there, and a server that the default of its
\* row switched on is in the hands of an importer - unless one was killed.
DefaultsAreInHand ==
    /\ \A i \in Importers : import[i].pc = "ensure" /\ import[i].existed
                               => server[import[i].host] # "absent"
    /\ crashes = 0 => \A h \in Hosts : server[h] = "import" => \E i \in Importers : WillDisable(i, h)

\* A step that changes no importer, and no server but to what another command
\* makes of it.
LEMMA OthersInHand ==
    ASSUME TypeOK, DefaultsAreInHand, import' = import, crashes' = crashes,
           \A h \in Hosts : /\ server[h] # "absent" => server'[h] # "absent"
                            /\ server'[h] = "import" => server[h] = "import"
    PROVE  DefaultsAreInHand'
BY DEF TypeOK, DefaultsAreInHand, WillDisable, DisablesNew

LEMMA LookUpInHand ==
    ASSUME TypeOK, DefaultsAreInHand, NEW i \in Importers, NEW g \in Hosts, LookUp(i, g)
    PROVE  DefaultsAreInHand'
<1>1. /\ import[i].pc = "look" /\ server' = server /\ crashes' = crashes
      /\ import'[i].pc = "ensure" /\ import'[i].host = g
      /\ import'[i].existed = (server[g] # "absent")
      /\ \A j \in Importers \ {i} : import'[j] = import[j]
    BY DEF LookUp, TypeOK, ImportState
<1>2. \A j \in Importers : import'[j].pc = "ensure" /\ import'[j].existed
                              => server'[import'[j].host] # "absent"
    BY <1>1 DEF DefaultsAreInHand
<1>3. \A j \in Importers, h \in Hosts : WillDisable(j, h) => WillDisable(j, h)'
    BY <1>1 DEF WillDisable, DisablesNew
<1> QED
    BY <1>1, <1>2, <1>3 DEF DefaultsAreInHand

LEMMA EnsureInHand ==
    ASSUME TypeOK, DefaultsAreInHand, NEW i \in Importers, EnsureEndpoint(i)
    PROVE  DefaultsAreInHand'
<1>0. PICK g \in Hosts : g = import[i].host
    BY DEF EnsureEndpoint, TypeOK
<1> DEFINE set == IF server[g] # "absent" THEN server[g]
                  ELSE IF import[i].activate THEN "operator" ELSE "import"
<1>1. import[i].pc = "ensure" /\ g = import[i].host /\ crashes' = crashes
    BY <1>0 DEF EnsureEndpoint
<1>2. /\ import'[i].pc = "attach" /\ import'[i].host = g
      /\ import'[i].existed = import[i].existed /\ import'[i].activate = import[i].activate
      /\ \A j \in Importers \ {i} : import'[j] = import[j]
    BY <1>0 DEF EnsureEndpoint, TypeOK, ImportState
<1>3. server'[g] = set /\ \A h \in Hosts \ {g} : server'[h] = server[h]
    BY <1>1 DEF EnsureEndpoint, TypeOK
<1>4. \A j \in Importers : import'[j].pc = "ensure" /\ import'[j].existed
                              => server'[import'[j].host] # "absent"
    <2> SUFFICES ASSUME NEW j \in Importers, import'[j].pc = "ensure", import'[j].existed
                 PROVE  server'[import'[j].host] # "absent"
        OBVIOUS
    <2>1. import'[j] = import[j] /\ import[j].host \in Hosts
        BY <1>2 DEF TypeOK
    <2> QED
        BY <1>3, <2>1 DEF DefaultsAreInHand
<1>5. \A j \in Importers, h \in Hosts : WillDisable(j, h) => WillDisable(j, h)'
    BY <1>1, <1>2 DEF WillDisable, DisablesNew
<1>6. server'[g] = "import" /\ server[g] # "import" => WillDisable(i, g)'
    <2> SUFFICES ASSUME server'[g] = "import", server[g] # "import" PROVE WillDisable(i, g)'
        OBVIOUS
    <2>1. server[g] = "absent" /\ ~ import[i].activate
        BY <1>3
    <2>2. ~ import[i].existed
        BY <1>1, <2>1 DEF DefaultsAreInHand
    <2> QED
        BY <1>2, <2>1, <2>2 DEF WillDisable, DisablesNew
<1> HIDE DEF set
<1>7. ASSUME NEW h \in Hosts, crashes' = 0, server'[h] = "import"
      PROVE  \E j \in Importers : WillDisable(j, h)'
    <2>1. CASE server[h] = "import"
        BY <1>1, <1>5, <1>7, <2>1 DEF DefaultsAreInHand
    <2>2. CASE server[h] # "import"
        BY <1>3, <1>6, <1>7, <2>2
    <2> QED
        BY <2>1, <2>2
<1> QED
    BY <1>4, <1>7 DEF DefaultsAreInHand

LEMMA AttachInHand ==
    ASSUME TypeOK, DefaultsAreInHand, NEW i \in Importers, Attach(i)
    PROVE  DefaultsAreInHand'
<1> DEFINE g == import[i].host
<1>1. /\ import[i].pc = "attach" /\ g \in Hosts /\ crashes' = crashes
      /\ import'[i].pc = "look" /\ \A j \in Importers \ {i} : import'[j] = import[j]
    BY DEF Attach, TypeOK, ImportState
<1>2. /\ \A h \in Hosts \ {g} : server'[h] = server[h]
      /\ server'[g] = IF DisablesNew(i) THEN "off" ELSE server[g]
    BY <1>1 DEF Attach, TypeOK
<1>3. \A j \in Importers : import'[j].pc = "ensure" /\ import'[j].existed
                              => server'[import'[j].host] # "absent"
    <2> SUFFICES ASSUME NEW j \in Importers, import'[j].pc = "ensure", import'[j].existed
                 PROVE  server'[import'[j].host] # "absent"
        OBVIOUS
    <2>1. import'[j] = import[j] /\ import[j].host \in Hosts
        BY <1>1 DEF TypeOK
    <2> QED
        BY <1>2, <2>1 DEF DefaultsAreInHand
<1>4. ASSUME NEW h \in Hosts, crashes' = 0, server'[h] = "import"
      PROVE  \E j \in Importers : WillDisable(j, h)'
    <2>1. server[h] = "import" /\ ~ (h = g /\ DisablesNew(i))
        BY <1>2, <1>4
    <2>2. PICK j \in Importers : WillDisable(j, h)
        BY <1>1, <1>4, <2>1 DEF DefaultsAreInHand
    <2>3. j # i
        BY <2>1, <2>2 DEF WillDisable
    <2>4. WillDisable(j, h)'
        BY <1>1, <2>2, <2>3 DEF WillDisable, DisablesNew
    <2> QED
        BY <2>4
<1> QED
    BY <1>3, <1>4 DEF DefaultsAreInHand

\* An import begins, or one ends that holds no host.
LEMMA IdleInHand ==
    ASSUME TypeOK, DefaultsAreInHand, NEW i \in Importers,
           import[i].pc # "attach", import'[i].pc # "ensure",
           \A j \in Importers \ {i} : import'[j] = import[j],
           server' = server, crashes' = crashes
    PROVE  DefaultsAreInHand'
<1>1. \A j \in Importers, h \in Hosts : WillDisable(j, h) => WillDisable(j, h)'
    BY DEF WillDisable, DisablesNew
<1>2. \A j \in Importers : import'[j].pc = "ensure" /\ import'[j].existed
                              => server'[import'[j].host] # "absent"
    BY DEF DefaultsAreInHand
<1> QED
    BY <1>1, <1>2 DEF DefaultsAreInHand

LEMMA CrashInHand ==
    ASSUME TypeOK, DefaultsAreInHand, NEW i \in Importers, CrashImport(i)
    PROVE  DefaultsAreInHand'
<1>1. /\ crashes' # 0 /\ server' = server
      /\ import'[i].pc = "idle" /\ \A j \in Importers \ {i} : import'[j] = import[j]
    BY IdleTypes DEF CrashImport, TypeOK
<1> QED
    BY <1>1 DEF DefaultsAreInHand

LEMMA NextInHand == TypeOK /\ DefaultsAreInHand /\ [Next]_vars => DefaultsAreInHand'
<1> SUFFICES ASSUME TypeOK, DefaultsAreInHand, [Next]_vars PROVE DefaultsAreInHand'
    OBVIOUS
<1>1. ASSUME NEW i \in Importers, NEW s \in Sources, NEW todo \in SUBSET Hosts,
             NEW snapshot \in BOOLEAN, NEW activate \in BOOLEAN,
             BeginImport(i, s, todo, snapshot, activate)
      PROVE  DefaultsAreInHand'
    <2>1. /\ import[i].pc = "idle" /\ import'[i].pc = "look" /\ server' = server
          /\ crashes' = crashes /\ \A j \in Importers \ {i} : import'[j] = import[j]
        BY <1>1 DEF BeginImport, TypeOK
    <2> QED
        BY <2>1, IdleInHand
<1>2. ASSUME NEW i \in Importers, EndImport(i) PROVE DefaultsAreInHand'
    <2>1. /\ import[i].pc = "look" /\ import'[i].pc = "idle" /\ server' = server
          /\ crashes' = crashes /\ \A j \in Importers \ {i} : import'[j] = import[j]
        BY <1>2, IdleTypes DEF EndImport, TypeOK
    <2> QED
        BY <2>1, IdleInHand
<1>3. ASSUME NEW i \in Importers, ImportStep(i) PROVE DefaultsAreInHand'
    BY <1>2, <1>3, LookUpInHand, EnsureInHand, AttachInHand DEF ImportStep
<1>4. ASSUME import' = import, crashes' = crashes,
             \A h \in Hosts : server'[h] = "import" => server[h] = "import"
      PROVE  DefaultsAreInHand'
    BY <1>4, ServerGrows, OthersInHand
<1>5. ASSUME NEW h \in Hosts, AddEndpoint(h) \/ \E on \in BOOLEAN : SetServerEnabled(h, on)
      PROVE  DefaultsAreInHand'
    BY <1>4, <1>5 DEF AddEndpoint, SetServerEnabled, commands, TypeOK
<1>6. ASSUME NEW d \in Deciders, WriteDecision(d) PROVE DefaultsAreInHand'
    BY <1>4, <1>6 DEF WriteDecision, TypeOK
<1>7. ASSUME NEW p \in Promoters, Promote(p) PROVE DefaultsAreInHand'
    BY <1>4, <1>7 DEF Promote, TypeOK
<1>8. ASSUME import' = import, crashes' = crashes, server' = server PROVE DefaultsAreInHand'
    BY <1>4, <1>8
<1> QED
    BY <1>1, <1>3, <1>5, <1>6, <1>7, <1>8, CrashInHand
    DEF Next, vars, commands, QualifyStep, SetSourceEnabled, CheckStatus, CheckProvenance,
        CheckPolicy, StartCycle, RefreshFails, ReadDue, Qualify, Tick

\* import_seeds of discovery.py: an import that was not killed leaves no server on
\* that only the default of its new row enabled, whatever imports overlap.
THEOREM DefaultsDisabled == Spec => [](crashes = 0 => ImportDefaultsDisabled)
<1>1. Init => DefaultsAreInHand
    BY IdleTypes DEF Init, DefaultsAreInHand
<1>2. TypeOK /\ DefaultsAreInHand /\ [Next]_vars => DefaultsAreInHand'
    BY NextInHand
<1>3. DefaultsAreInHand => (crashes = 0 => ImportDefaultsDisabled)
    BY DEF DefaultsAreInHand, ImportDefaultsDisabled, WillDisable
<1> QED
    BY <1>1, <1>2, <1>3, TypeCorrect, PTL DEF Spec
=============================================================================
