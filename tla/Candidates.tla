------------------------------ MODULE Candidates ------------------------------
(***************************************************************************)
(* Discovery and candidate qualification.  Importers bring hosts in from   *)
(* sources, qualification runs probe the disabled ones, an operator        *)
(* rejects, resets or promotes them.  Each of these is a process of its    *)
(* own on one SQLite file and does its work in several transactions.       *)
(*                                                                         *)
(* src/src/nntpintel/discovery.py, candidates.py, storage.py (servers).    *)
(***************************************************************************)
EXTENDS Integers, Sequences, FiniteSets

CONSTANTS
    Hosts,          \* hosts, numbered; one endpoint each
    Sources,        \* registered discovery sources
    Importers,      \* import-seeds, refresh-source, a candidate cycle's refresh
    Deciders,       \* set-candidate-status commands
    Promoters,      \* promote-candidate commands
    Qualifiers,     \* qualify_candidates, alone or in a candidate cycle
    Limit,          \* candidates per qualification run
    MinAge,         \* min_age_seconds, in ticks
    Freshness,      \* freshness_seconds, in ticks
    MinReachable,   \* min_reachable
    MaxQuals,       \* bound: qualifications of one host
    MaxClock,       \* bound: length of a behaviour in ticks
    MaxCrashes      \* bound: importers killed in a behaviour

ASSUME ConstantsAssumption ==
    /\ Hosts \subseteq Nat /\ IsFiniteSet(Hosts) /\ Sources # {}
    /\ Limit \in Nat /\ MinAge \in Nat /\ Freshness \in Nat \ {0}
    /\ MinReachable \in Nat \ {0}
    /\ MaxQuals \in Nat /\ MaxClock \in Nat /\ MaxCrashes \in Nat

\* Who last set servers.enabled = 1: the default of an import's new row, an
\* operator (add-endpoint, --activate, set-server-enabled), or a promotion.
EnabledBy == {"import", "operator", "promotion"}
ServerState == {"absent", "off"} \cup EnabledBy
Decision == {"none", "pending", "rejected", "ignored", "promoted"}
Provenance == {"none", "inactive", "active"}
Classes == {"reachable", "other"}
CycleState == {"idle", "refresh", "qualify", "failed"}
Never == -1

VARIABLES
    server,         \* [Hosts -> ServerState]: the servers row and its enabled
    decision,       \* [Hosts -> Decision]: candidate_decisions.status
    provenance,     \* [Hosts -> [Sources -> Provenance]]: server_sources
    sourceOn,       \* [Sources -> BOOLEAN]: discovery_sources.enabled
    quals,          \* [Hosts -> Seq(qualification)], in order of observed_at
    import,         \* [Importers -> local state of import_seeds]
    decide,         \* [Deciders -> local state of set_candidate_status]
    promo,          \* [Promoters -> local state of promote_candidate]
    batch,          \* [Qualifiers -> SUBSET Hosts]: candidates read, not yet probed
    cycle,          \* [Qualifiers -> CycleState]: how far a qualification run is
    clock,
    crashes

vars == <<server, decision, provenance, sourceOn, quals, import, decide, promo,
          batch, cycle, clock, crashes>>
commands == <<import, decide, promo, batch, cycle>>

\* A host an import never has in hand; the value of an idle process.
NoHost == -1
IdleImport == [pc |-> "idle", source |-> CHOOSE s \in Sources : TRUE, todo |-> {},
               host |-> NoHost, existed |-> FALSE, activate |-> FALSE]
IdleDecide == [pc |-> "idle", host |-> NoHost, to |-> "pending"]
IdlePromo == [pc |-> "idle", host |-> NoHost]

Init ==
    /\ server = [h \in Hosts |-> "absent"]
    /\ decision = [h \in Hosts |-> "none"]
    /\ provenance = [h \in Hosts |-> [s \in Sources |-> "none"]]
    /\ sourceOn = [s \in Sources |-> TRUE]
    /\ quals = [h \in Hosts |-> <<>>]
    /\ import = [i \in Importers |-> IdleImport]
    /\ decide = [d \in Deciders |-> IdleDecide]
    /\ promo = [p \in Promoters |-> IdlePromo]
    /\ batch = [q \in Qualifiers |-> {}]
    /\ cycle = [q \in Qualifiers |-> "idle"]
    /\ clock = 0
    /\ crashes = 0

-----------------------------------------------------------------------------
Enabled(h) == server[h] \in EnabledBy

\* _has_candidate_provenance, with and without active_only.
HasProvenance(h) == \E s \in Sources : provenance[h][s] # "none"
ActiveProvenance(h) == \E s \in Sources : provenance[h][s] = "active" /\ sourceOn[s]

\* COALESCE(cd.status, 'pending') = 'pending'
Pending(h) == decision[h] \in {"none", "pending"}

LastAt(h) == IF quals[h] = <<>> THEN Never ELSE quals[h][Len(quals[h])].at

\* The WHERE clause of due_candidates, without the age of the last result.
Eligible(h) == server[h] = "off" /\ Pending(h) /\ ActiveProvenance(h)

Due == {h \in Hosts : /\ Eligible(h)
                      /\ LastAt(h) = Never \/ LastAt(h) <= clock - MinAge}

\* Mutant: the order reversed.  (An operator marked "Mutant" is a fault that a
\* run must notice when it takes the place of the next one; no action uses it.)
NewestFirst(g, h) == LastAt(g) > LastAt(h) \/ (LastAt(g) = LastAt(h) /\ g < h)

\* ORDER BY never qualified first, then the oldest result, then the id.
Before(g, h) == LastAt(g) < LastAt(h) \/ (LastAt(g) = LastAt(h) /\ g < h)

DueCandidates == {h \in Due : Cardinality({g \in Due : Before(g, h)}) < Limit}

\* Indices of the results promote_candidate looks at, and of the good ones.
Fresh(h) == {k \in DOMAIN quals[h] : quals[h][k].at >= clock - Freshness}
Reachable(h) == {k \in DOMAIN quals[h] : quals[h][k].class = "reachable"}

\* Mutant: only the latest result counts.
LatestReachable(h) == Len(quals[h]) \in Fresh(h) \cap Reachable(h)

PromotionPolicy(h) ==
    /\ Cardinality(Fresh(h) \cap Reachable(h)) >= MinReachable
    /\ Len(quals[h]) \in Fresh(h) \cap Reachable(h)

-----------------------------------------------------------------------------
\* import_seeds, first transaction: a snapshot deactivates all that the source
\* named before.
BeginImport(i, s, todo, snapshot, activate) ==
    /\ import[i].pc = "idle"
    /\ provenance' = IF snapshot
           THEN [h \in Hosts |-> [provenance[h] EXCEPT
                    ![s] = IF @ = "active" THEN "inactive" ELSE @]]
           ELSE provenance
    /\ import' = [import EXCEPT ![i] = [pc |-> "look", source |-> s, todo |-> todo,
                      host |-> NoHost, existed |-> FALSE, activate |-> activate]]
    /\ UNCHANGED <<server, decision, sourceOn, quals, decide, promo, batch, cycle, clock, crashes>>

\* existed = _server_id(storage, seed.host) is not None
LookUp(i, h) ==
    /\ import[i].pc = "look" /\ h \in import[i].todo
    /\ import' = [import EXCEPT ![i].pc = "ensure", ![i].host = h,
                                ![i].existed = server[h] # "absent", ![i].todo = @ \ {h}]
    /\ UNCHANGED <<server, decision, provenance, sourceOn, quals, decide, promo, batch, cycle,
                   clock, crashes>>

\* storage.ensure_endpoint: INSERT OR IGNORE, committed; a new servers row has
\* the column's default, enabled = 1.
EnsureEndpoint(i) ==
    LET h == import[i].host IN
    /\ import[i].pc = "ensure"
    /\ server' = [server EXCEPT ![h] =
           IF @ # "absent" THEN @ ELSE IF import[i].activate THEN "operator" ELSE "import"]
    /\ import' = [import EXCEPT ![i].pc = "attach"]
    /\ UNCHANGED <<decision, provenance, sourceOn, quals, decide, promo, batch, cycle, clock,
                   crashes>>

\* Mutant: whether the host existed is looked up after ensure_endpoint.
DisablesMissing(i) == server[import[i].host] = "absent" /\ ~ import[i].activate

\* if not existed and not activate
DisablesNew(i) == ~ import[i].existed /\ ~ import[i].activate

\* Mutant: the next seed starts with the state of the last one.
AttachAgain(i) ==
    /\ import[i].pc = "attach"
    /\ provenance' = [provenance EXCEPT ![import[i].host][import[i].source] = "active"]
    /\ import' = [import EXCEPT ![i].host = NoHost]
    /\ UNCHANGED <<server, decision, sourceOn, quals, decide, promo, batch, cycle, clock, crashes>>

\* The seed's last transaction: disable a server that was not there at LookUp,
\* and record where it comes from.
Attach(i) ==
    LET h == import[i].host IN
    /\ import[i].pc = "attach"
    /\ server' = IF DisablesNew(i) THEN [server EXCEPT ![h] = "off"] ELSE server
    /\ provenance' = [provenance EXCEPT ![h][import[i].source] = "active"]
    /\ import' = [import EXCEPT ![i].pc = "look", ![i].host = NoHost, ![i].existed = FALSE]
    /\ UNCHANGED <<decision, sourceOn, quals, decide, promo, batch, cycle, clock, crashes>>

EndImport(i) ==
    /\ import[i].pc = "look" /\ import[i].todo = {}
    /\ import' = [import EXCEPT ![i] = IdleImport]
    /\ UNCHANGED <<server, decision, provenance, sourceOn, quals, decide, promo, batch, cycle,
                   clock, crashes>>

\* The importer is killed between two transactions.
CrashImport(i) ==
    /\ crashes < MaxCrashes
    /\ import[i].pc # "idle"
    /\ import' = [import EXCEPT ![i] = IdleImport]
    /\ crashes' = crashes + 1
    /\ UNCHANGED <<server, decision, provenance, sourceOn, quals, decide, promo, batch, cycle,
                   clock>>

-----------------------------------------------------------------------------
\* add-endpoint
AddEndpoint(h) ==
    /\ server[h] = "absent"
    /\ server' = [server EXCEPT ![h] = "operator"]
    /\ UNCHANGED <<decision, provenance, sourceOn, quals, commands, clock, crashes>>

\* set_server_enabled
SetServerEnabled(h, on) ==
    /\ server[h] # "absent"
    /\ server' = [server EXCEPT ![h] = IF on THEN "operator" ELSE "off"]
    /\ UNCHANGED <<decision, provenance, sourceOn, quals, commands, clock, crashes>>

\* set_source_enabled
SetSourceEnabled(s) ==
    /\ sourceOn' = [sourceOn EXCEPT ![s] = ~ @]
    /\ UNCHANGED <<server, decision, provenance, quals, commands, clock, crashes>>

\* Mutant: any server can be decided about.
KnownServer(h) == server[h] # "absent" /\ decision[h] # "promoted"

\* The checks of set_candidate_status.
Decidable(h) == server[h] # "absent" /\ HasProvenance(h) /\ decision[h] # "promoted"

\* set_candidate_status reads: known server, some provenance (never deleted),
\* not promoted.
CheckStatus(d, h, st) ==
    /\ decide[d].pc = "idle"
    /\ Decidable(h)
    /\ decide' = [decide EXCEPT ![d] = [pc |-> "write", host |-> h, to |-> st]]
    /\ UNCHANGED <<server, decision, provenance, sourceOn, quals, import, promo, batch, cycle,
                   clock, crashes>>

\* Mutant: an ignored server keeps running.
DisablesRejected(st) == st = "rejected"

Disables(st) == st \in {"rejected", "ignored"}

\* set_candidate_status writes, in a second connection.
WriteDecision(d) ==
    LET h == decide[d].host  st == decide[d].to IN
    /\ decide[d].pc = "write"
    /\ decision' = [decision EXCEPT ![h] = st]
    /\ server' = IF Disables(st) THEN [server EXCEPT ![h] = "off"] ELSE server
    /\ decide' = [decide EXCEPT ![d] = IdleDecide]
    /\ UNCHANGED <<provenance, sourceOn, quals, import, promo, batch, cycle, clock, crashes>>

\* promote_candidate, first connection: active provenance.
CheckProvenance(p, h) ==
    /\ promo[p].pc = "idle"
    /\ server[h] # "absent" /\ ActiveProvenance(h)
    /\ promo' = [promo EXCEPT ![p] = [pc |-> "policy", host |-> h]]
    /\ UNCHANGED <<server, decision, provenance, sourceOn, quals, import, decide, batch, cycle,
                   clock, crashes>>

\* Second connection: decision and results are read outside of a transaction;
\* the command ends with an error when the policy does not hold.
CheckPolicy(p) ==
    LET h == promo[p].host IN
    /\ promo[p].pc = "policy"
    /\ promo' = [promo EXCEPT ![p] = IF Pending(h) /\ PromotionPolicy(h)
                                     THEN [@ EXCEPT !.pc = "write"] ELSE IdlePromo]
    /\ UNCHANGED <<server, decision, provenance, sourceOn, quals, import, decide, batch, cycle,
                   clock, crashes>>

\* Second connection, the transaction.
Promote(p) ==
    LET h == promo[p].host IN
    /\ promo[p].pc = "write"
    /\ server' = [server EXCEPT ![h] = "promotion"]
    /\ decision' = [decision EXCEPT ![h] = "promoted"]
    /\ promo' = [promo EXCEPT ![p] = IdlePromo]
    /\ UNCHANGED <<provenance, sourceOn, quals, import, decide, batch, cycle, clock, crashes>>

\* run_candidate_cycle inserts its run row and refreshes the source; the refresh
\* is an import of its own (an Importer).
StartCycle(q) ==
    /\ cycle[q] \in {"idle", "failed"}
    /\ cycle' = [cycle EXCEPT ![q] = "refresh"]
    /\ UNCHANGED <<server, decision, provenance, sourceOn, quals, import, decide, promo,
                   batch, clock, crashes>>

\* The refresh raises: the cycle has failed before it qualified anything.
RefreshFails(q) ==
    /\ cycle[q] = "refresh"
    /\ cycle' = [cycle EXCEPT ![q] = "failed"]
    /\ UNCHANGED <<server, decision, provenance, sourceOn, quals, import, decide, promo,
                   batch, clock, crashes>>

\* qualify_candidates, in a cycle or as a command: the candidates are read once ...
ReadDue(q) ==
    /\ cycle[q] # "qualify"
    /\ batch' = [batch EXCEPT ![q] = DueCandidates]
    /\ cycle' = [cycle EXCEPT ![q] = IF DueCandidates = {} THEN "idle" ELSE "qualify"]
    /\ UNCHANGED <<server, decision, provenance, sourceOn, quals, import, decide, promo,
                   clock, crashes>>

\* ... then one after the other is probed and its result recorded, unless the
\* probe raises what it does not catch (a UnicodeError for a host like `a..b')
\* or the process is killed before the INSERT: no result, and the rest of the
\* candidates is dropped.  (Bound: of a host with MaxQuals results no more are
\* kept.)
Qualify(q, h) ==
    /\ h \in batch[q]
    /\ \/ /\ \/ /\ Len(quals[h]) < MaxQuals
                /\ \E class \in Classes :
                      quals' = [quals EXCEPT ![h] = Append(@, [at |-> clock, class |-> class])]
             \/ Len(quals[h]) >= MaxQuals /\ UNCHANGED quals
          /\ batch' = [batch EXCEPT ![q] = @ \ {h}]
          /\ cycle' = [cycle EXCEPT ![q] = IF batch[q] = {h} THEN "idle" ELSE @]
       \/ /\ batch' = [batch EXCEPT ![q] = {}]
          /\ cycle' = [cycle EXCEPT ![q] = "failed"]
          /\ UNCHANGED quals
    /\ UNCHANGED <<server, decision, provenance, sourceOn, import, decide, promo,
                   clock, crashes>>

Tick ==
    /\ clock < MaxClock
    /\ clock' = clock + 1
    /\ UNCHANGED <<server, decision, provenance, sourceOn, quals, commands, crashes>>

-----------------------------------------------------------------------------
ImportStep(i) ==
    \/ \E h \in Hosts : LookUp(i, h)
    \/ EnsureEndpoint(i) \/ Attach(i) \/ EndImport(i)

QualifyStep(q) ==
    \/ StartCycle(q) \/ RefreshFails(q) \/ ReadDue(q)
    \/ \E h \in Hosts : Qualify(q, h)

Next ==
    \/ \E i \in Importers, s \in Sources, todo \in SUBSET Hosts, snapshot, activate \in BOOLEAN :
           BeginImport(i, s, todo, snapshot, activate)
    \/ \E i \in Importers : ImportStep(i)
    \/ \E i \in Importers : CrashImport(i)
    \/ \E h \in Hosts : AddEndpoint(h)
    \/ \E h \in Hosts, on \in BOOLEAN : SetServerEnabled(h, on)
    \/ \E s \in Sources : SetSourceEnabled(s)
    \/ \E d \in Deciders, h \in Hosts, st \in {"pending", "rejected", "ignored"} :
           CheckStatus(d, h, st)
    \/ \E d \in Deciders : WriteDecision(d)
    \/ \E p \in Promoters, h \in Hosts : CheckProvenance(p, h)
    \/ \E p \in Promoters : CheckPolicy(p) \/ Promote(p)
    \/ \E q \in Qualifiers : QualifyStep(q)
    \/ Tick

Spec == Init /\ [][Next]_vars

\* A command that has started goes on, and the scheduler keeps running
\* candidate cycles, also after one that failed.
Fairness ==
    /\ \A i \in Importers : WF_vars(ImportStep(i))
    /\ \A q \in Qualifiers : WF_vars(QualifyStep(q))

FairSpec == Spec /\ Fairness

-----------------------------------------------------------------------------
Qualification == [at : 0 .. MaxClock, class : Classes]
ImportState == [pc : {"idle", "look", "ensure", "attach"}, source : Sources,
                todo : SUBSET Hosts, host : Hosts \cup {NoHost}, existed : BOOLEAN,
                activate : BOOLEAN]
DecideState == [pc : {"idle", "write"}, host : Hosts \cup {NoHost},
                to : {"pending", "rejected", "ignored"}]
PromoState == [pc : {"idle", "policy", "write"}, host : Hosts \cup {NoHost}]

\* Types of the rows and of the commands' local state; a command past its
\* reads has a host in hand.
TypeOK ==
    /\ server \in [Hosts -> ServerState]
    /\ decision \in [Hosts -> Decision]
    /\ provenance \in [Hosts -> [Sources -> Provenance]]
    /\ sourceOn \in [Sources -> BOOLEAN]
    /\ quals \in [Hosts -> Seq(Qualification)]
    /\ import \in [Importers -> ImportState]
    /\ \A i \in Importers : import[i].pc \in {"ensure", "attach"} => import[i].host \in Hosts
    /\ decide \in [Deciders -> DecideState]
    /\ \A d \in Deciders : decide[d].pc = "write" => decide[d].host \in Hosts
    /\ promo \in [Promoters -> PromoState]
    /\ \A p \in Promoters : promo[p].pc \in {"policy", "write"} => promo[p].host \in Hosts
    /\ batch \in [Qualifiers -> SUBSET Hosts]
    /\ cycle \in [Qualifiers -> CycleState]
    /\ clock \in 0 .. MaxClock
    /\ crashes \in 0 .. MaxCrashes

\* A server an operator rejected or ignored is off unless an operator turned it
\* on again: no import, qualification or promotion that overlaps the decision
\* leaves it enabled.
RejectedIsOff ==
    \A h \in Hosts : decision[h] \in {"rejected", "ignored"} /\ Enabled(h)
                         => server[h] = "operator"

\* A promoted candidate was found reachable at least min_reachable times,
\* although its results were read before the write.
PromotedWasReachable ==
    \A h \in Hosts : decision[h] = "promoted" => Cardinality(Reachable(h)) >= MinReachable

\* Nothing is decided about, and no result kept of, a server that no source
\* ever named (a server of add-endpoint is not a candidate).
OnlyCandidatesAreJudged ==
    \A h \in Hosts : decision[h] # "none" \/ quals[h] # <<>> => HasProvenance(h)

\* tests/test_discovery.py:21 "defaults_disabled": once no import is under
\* way, no server is enabled merely because an import inserted its row.
ImportDefaultsDisabled ==
    (\A i \in Importers : import[i].pc = "idle") => \A h \in Hosts : server[h] # "import"

\* Once no refresh and no exchange raises any more, a candidate that has never
\* been probed is qualified, or stops being one: candidates with older results,
\* and runs that failed before, do not starve it.  (A host whose exchange raises
\* every time has no result, is first in every batch and ends it: it starves the
\* others, and the premise leaves it out.)
CandidatesAreQualified ==
    <>[](\A q \in Qualifiers : cycle[q] # "failed") =>
        \A h \in Hosts : (Eligible(h) /\ quals[h] = <<>>)
                             ~> (quals[h] # <<>> \/ ~ Eligible(h))
=============================================================================
