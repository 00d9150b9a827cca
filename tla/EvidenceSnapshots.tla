-------------------------- MODULE EvidenceSnapshots --------------------------
(***************************************************************************)
(* capture_topology_snapshots: after campaigns, the collector exports the  *)
(* evidence of each conclusion as a bundle and stores those it has not     *)
(* stored before.  The evidence changes meanwhile: another process probes, *)
(* and the evidence and the risk of one bundle are read one after the      *)
(* other.  Timelines compare the stored bundles of a conclusion.           *)
(*                                                                         *)
(* A fingerprint is the content it is computed from.  Times and ids of     *)
(* rows, which order a timeline, are left out.                             *)
(*                                                                         *)
(* src/src/nntpintel/propagation_topology_snapshots.py, and _conclusions,  *)
(* _evidence, _explain, _export, _compare, _semantic_changes,              *)
(* _change_significance (.py).                                             *)
(***************************************************************************)
EXTENDS TopologyRisk, TopologyHistory, Sequences

CONSTANTS
    Capturers,          \* processes that capture
    Watched,            \* what an instance may follow: sequences of conclusions
    MaxPasses           \* bound: captures that begin

\* The kinds of conclusions: VALID_KINDS without incidents.
Kinds == {"server", "edge", "community", "risk"}

ASSUME WatchedAssumption ==
    \A w \in Watched : w \in Seq(Range(w)) /\ \A ref \in Range(w) : ref[1] \in Kinds

VARIABLES
    table,              \* the bundles in topology_evidence_snapshots, by conclusion_ref
    capture,            \* [Capturers -> local state]
    passes              \* captures that began

vars == <<day, ahead, targeted, visible, latest, comparable, incidents, changes,
          table, capture, passes>>

\* steady: nothing changed since the capture began.
Idle == [pc |-> "idle", todo |-> <<>>, steady |-> TRUE, read |-> <<>>, bundle |-> <<>>]
Down == [Idle EXCEPT !.pc = "down"]

\* The conclusions that this instance follows, and their order in the index.
Conclusions == DOMAIN table
Index == CHOOSE w \in Watched : Range(w) = Conclusions

SnapshotsInit ==
    /\ Init
    /\ \E w \in Watched : table = [ref \in Range(w) |-> {}]
    /\ capture = [c \in Capturers |-> Idle]
    /\ passes = 0

-----------------------------------------------------------------------------
(* Conclusions and their bundles.                                          *)

\* The community with a number, if there is one.
Numbered(cs, n) == {c \in cs : CommunityId(cs, Min(c)) = n}

\* The edge of a conclusion about one, if there is one.
EdgeOf(g, ref) == {e \in g : <<e.from, e.to>> = <<ref[2], ref[3]>>}

\* explain_topology_ref finds the conclusion.
Explained(ref) ==
    CASE ref[1] \in {"server", "risk"} -> ref[2] \in Nodes
      [] ref[1] = "edge" -> EdgeOf(graph, ref) # {}
      [] ref[1] = "community" -> Numbered(communities, ref[2]) # {}

\* topology_evidence and topology_data_quality, which are read first: the
\* articles behind servers and edges.
ServerEvidence(s) == [asked |-> targeted[s], seen |-> visible[s]]
FirstRead(ref) ==
    CASE ref[1] = "server" -> [provenance |-> ServerEvidence(ref[2]), age |-> Age(ref[2]),
                               coverage |-> Coverage(ref[2]), freshness |-> Freshness(ref[2])]
      [] ref[1] = "risk" -> ServerEvidence(ref[2])
      [] ref[1] = "edge" -> CHOOSE e \in EdgeOf(graph, ref) : TRUE
      [] ref[1] = "community" -> [s \in Nodes |-> ServerEvidence(s)]

\* topology_risk, which is read last.
RiskRow(cs, g, s) ==
    LET score == ServerRisk(cs, g, s)
    IN  [score |-> score, level |-> RiskLevel(score), evidence |-> LevelOf(g, s),
         coverage |-> Coverage(s), freshness |-> Freshness(s)]
CommunityRow(cs, g, c) ==
    LET score == CommunityRisk(cs, g, c)
    IN  [score |-> score, level |-> RiskLevel(score), evidence |-> CommunityLevel(g, c),
         members |-> c]

\* canonical_evidence_payload: all but the time of the export.
Canonical(ref, read, risk) == [ref |-> ref, read |-> read, risk |-> risk]

\* The bundle of a conclusion of which `read' was read first.
Bundle(ref, read) ==
    LET g == graph  cs == communities
    IN  CASE ref[1] \in {"server", "risk"} -> Canonical(ref, read, RiskRow(cs, g, ref[2]))
          [] ref[1] = "edge" -> Canonical(ref, read, <<>>)
          [] ref[1] = "community" ->
                LET c == CHOOSE c \in Numbered(cs, ref[2]) : TRUE
                IN  Canonical(ref, [s \in c \cap DOMAIN read |-> read[s]],
                              CommunityRow(cs, g, c))

-----------------------------------------------------------------------------
(* Capture.                                                                *)

\* The conclusions of the index that there are now, in its order.
Listed ==
    LET upto[n \in 0 .. Len(Index)] ==
            IF n = 0 THEN <<>>
            ELSE IF Explained(Index[n]) THEN Append(upto[n - 1], Index[n])
            ELSE upto[n - 1]
    IN  upto[Len(Index)]

\* The index of conclusions is read once, before the first capture.
Begin(c) ==
    /\ capture[c].pc = "idle"
    /\ passes < MaxPasses /\ passes' = passes + 1
    /\ capture' = [capture EXCEPT ![c] =
           [Idle EXCEPT !.pc = "next", !.todo = Listed]]
    /\ UNCHANGED <<known, table>>

\* The next conclusion.  Evidence finds servers and edges, risk finds the others.
ReadEvidence(c) ==
    /\ capture[c].pc = "next" /\ capture[c].todo # <<>>
    /\ LET ref == Head(capture[c].todo)
       IN  capture' = IF ref[1] \in {"server", "edge"} => Explained(ref)
                      THEN [capture EXCEPT ![c].pc = "risk", ![c].read = FirstRead(ref)]
                      ELSE [capture EXCEPT ![c].todo = Tail(@)]
    /\ UNCHANGED <<known, table, passes>>

\* Mutant: one bundle of each conclusion is enough.
StoredOnce(bundle) == table[bundle.ref] # {}

Stored(bundle) == bundle \in table[bundle.ref]

\* The bundle is complete; the look whether it is stored already.
ReadRisk(c) ==
    /\ capture[c].pc = "risk"
    /\ LET ref == Head(capture[c].todo)
           found == ref[1] \in {"risk", "community"} => Explained(ref)
           bundle == Bundle(ref, capture[c].read)
       IN  capture' = IF found /\ ~ Stored(bundle)
                      THEN [capture EXCEPT ![c].pc = "insert", ![c].bundle = bundle,
                                           ![c].read = <<>>]
                      ELSE [capture EXCEPT ![c].pc = "next", ![c].todo = Tail(@),
                                           ![c].read = <<>>]
    /\ UNCHANGED <<known, table, passes>>

\* The insert, unless UNIQUE(conclusion_ref, fingerprint) refuses it: then the
\* exception ends the process.
Insert(c) ==
    /\ capture[c].pc = "insert"
    /\ LET bundle == capture[c].bundle
       IN  IF Stored(bundle)
           THEN capture' = [capture EXCEPT ![c] = Down] /\ UNCHANGED table
           ELSE /\ table' = [table EXCEPT ![bundle.ref] = @ \cup {bundle}]
                /\ capture' = [capture EXCEPT ![c].pc = "next", ![c].todo = Tail(@),
                                              ![c].bundle = <<>>]
    /\ UNCHANGED <<known, passes>>

Finish(c) ==
    /\ capture[c].pc = "next" /\ capture[c].todo = <<>>
    /\ capture' = [capture EXCEPT ![c] = Idle]
    /\ UNCHANGED <<known, table, passes>>

\* The service manager starts the process again.
Restart(c) ==
    /\ capture[c].pc = "down"
    /\ capture' = [capture EXCEPT ![c] = Idle]
    /\ UNCHANGED <<known, table, passes>>

Next ==
    \/ /\ Learn
       /\ capture' = [c \in Capturers |-> IF capture[c].pc \in {"idle", "down"} THEN capture[c]
                                          ELSE [capture[c] EXCEPT !.steady = FALSE]]
       /\ UNCHANGED <<table, passes>>
    \/ \E c \in Capturers : \/ Begin(c) \/ ReadEvidence(c) \/ ReadRisk(c)
                            \/ Insert(c) \/ Finish(c) \/ Restart(c)

Spec == SnapshotsInit /\ [][Next]_vars

-----------------------------------------------------------------------------
(* The timeline and what it says of each change.                           *)

\* SCALAR_FIELDS: what a bundle has for each code, in the order of its paths.
Fields(b) ==
    CASE b.ref[1] = "server" ->
            [risk |-> <<b.risk.score>>, risk_level |-> <<b.risk.level>>,
             evidence_level |-> <<b.risk.evidence>>,
             coverage |-> <<b.risk.coverage, b.read.coverage>>,
             freshness |-> <<b.risk.freshness, b.read.freshness>>]
      [] b.ref[1] = "risk" ->
            [risk |-> <<b.risk.score>>, risk_level |-> <<b.risk.level>>,
             evidence_level |-> <<b.risk.evidence>>,
             coverage |-> <<b.risk.coverage>>, freshness |-> <<b.risk.freshness>>]
      [] b.ref[1] = "edge" -> [edge_confidence |-> <<b.read.conf>>,
                               sample_count |-> <<b.read.samples>>]
      [] b.ref[1] = "community" ->
            [risk |-> <<b.risk.score>>, risk_level |-> <<b.risk.level>>,
             evidence_level |-> <<b.risk.evidence>>,
             member_count |-> <<Cardinality(b.risk.members)>>]

\* Of the paths of a code the first that changed counts.
Differs(x, y) == {n \in DOMAIN x : x[n] # y[n]}
Elevated == {"high", "critical"}

\* Mutant: any jump of the score is critical.
RiskChangeOfJumps(x, y) ==
    IF (x < 750 /\ y >= 750) \/ y - x >= 250 \/ x - y >= 250 THEN 3
    ELSE IF x < 500 /\ y >= 500 THEN 2
    ELSE IF y - x >= 100 \/ x - y >= 100 THEN 1 ELSE 0

\* From 0 (informational) to 3 (critical).
RiskChange(x, y) ==
    IF x < 750 /\ y >= 750 THEN 3
    ELSE IF (x < 500 /\ y >= 500) \/ y - x >= 250 \/ x - y >= 250 THEN 2
    ELSE IF y - x >= 100 \/ x - y >= 100 THEN 1 ELSE 0

LevelChange(x, y) ==
    IF y = "critical" THEN 3
    ELSE IF y = "high" /\ x \notin Elevated THEN 2
    ELSE IF x \in Elevated /\ y \notin Elevated THEN 1 ELSE 0

EvidenceChange(x, y) ==
    IF y = "low" THEN 2 ELSE IF y = "limited" /\ x # "low" THEN 1 ELSE 0

FreshnessChange(x, y) ==
    IF y \in {"very_stale", "no_valid_presence"} THEN 2 ELSE IF y = "stale" THEN 1 ELSE 0

\* The thresholds of coverage are points of a hundred, its values a share of one.
CoverageChange(x, y) == IF y - x <= -25000 THEN 2
                        ELSE IF y - x <= -10000 \/ y - x >= 10000 THEN 1 ELSE 0

ConfidenceChange(x, y) == IF y - x <= -200 THEN 2 ELSE IF y - x <= -100 THEN 1 ELSE 0

Severity(code, x, y) ==
    CASE code = "risk" -> RiskChange(x, y)
      [] code = "risk_level" -> LevelChange(x, y)
      [] code = "evidence_level" -> EvidenceChange(x, y)
      [] code = "freshness" -> FreshnessChange(x, y)
      [] code = "coverage" -> CoverageChange(x, y)
      [] code = "edge_confidence" -> ConfidenceChange(x, y)
      [] OTHER -> 0

\* classify_change_significance: the greatest of all changes.
Significance(b, c) ==
    LET before == Fields(b)  after == Fields(c)
        changed == {code \in DOMAIN before : before[code] # after[code]}
    IN  Greatest([code \in changed |->
                     LET n == Min(Differs(before[code], after[code]))
                     IN  Severity(code, before[code][n], after[code][n])],
                 changed)

-----------------------------------------------------------------------------
\* A pass during which nothing changed leaves the present bundle of every
\* conclusion in the table, whatever earlier passes stored and whichever other
\* process captures at the same time.
CaptureIsComplete ==
    [][\A c \in Capturers :
          Finish(c) /\ capture[c].steady
          => \A ref \in Conclusions : Explained(ref) =>
                Bundle(ref, FirstRead(ref)) \in table[ref]]_vars

\* A change is classified as critical exactly when the risk enters the level
\* "critical": scores and levels have thresholds of their own, in
\* propagation_topology_risk.py:13 and in
\* propagation_topology_change_significance.py:41.  tests/
\* test_propagation_topology_change_significance.py:4
\* "test_significance_marks_critical_risk_crossing".
CrossingsAreCritical ==
    \A ref \in {r \in Conclusions : r[1] # "edge"} : \A x, y \in table[ref] :
        (Significance(x, y) = 3) <=> (x.risk.level # "critical" /\ y.risk.level = "critical")
=============================================================================
