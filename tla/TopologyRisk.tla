---------------------------- MODULE TopologyRisk ----------------------------
(***************************************************************************)
(* What the inferred topology is worth: how good the evidence is, which    *)
(* servers join communities, how far incidents reach, and the risk that    *)
(* reports rank servers and communities by.                                *)
(*                                                                         *)
(* src/src/nntpintel/propagation_topology_quality.py, _cross_cluster.py,   *)
(* _risk.py, _overview.py, and the read side of _incidents.py.             *)
(***************************************************************************)
EXTENDS Topology

-----------------------------------------------------------------------------
(* Data quality.                                                           *)

Coverage(s) == IF targeted[s] = 0 THEN 0 ELSE Thousandths(visible[s], targeted[s])

Age(s) == day - latest[s]

Freshness(s) == IF latest[s] = 0 THEN "no_valid_presence"
                ELSE IF Age(s) >= VeryStaleDays THEN "very_stale"
                ELSE IF Age(s) >= StaleDays THEN "stale"
                ELSE "fresh"

\* Every article of the model is asked of two servers.
Articles == SumOver(targeted, Servers) \div 2

QualityScore(g) ==
    LET low == {s \in Nodes : Coverage(s) < 500}
        stale == {s \in Nodes : Freshness(s) \in {"stale", "very_stale"}}
        missing == {s \in Nodes : Freshness(s) = "no_valid_presence"}
    IN  Max({0, 100 - AtMost(35, 8 * Cardinality(low))
                    - AtMost(25, 6 * Cardinality(stale))
                    - AtMost(20, 10 * Cardinality(missing))
                    - (IF Articles > 0 /\ Thousandths(comparable, Articles) < 500
                       THEN 15 ELSE 0)
                    - (IF 2 * Cardinality(Strong(g)) < Cardinality(g) THEN 10 ELSE 0)})

EvidenceLevel(coverage, freshness, quality) ==
    IF freshness \in {"very_stale", "no_valid_presence"} \/ coverage < 500 \/ quality < 40
    THEN "low"
    ELSE IF freshness = "stale" \/ coverage < 750 \/ quality < 60 THEN "limited"
    ELSE IF coverage >= 900 /\ freshness = "fresh" /\ quality >= 80 THEN "high"
    ELSE "moderate"

-----------------------------------------------------------------------------
(* Between communities.                                                    *)

\* The edges of a server that lead to another community.
CrossAt(cs, g, s) == {e \in Touching(CrossEdges(cs, g), s) :
                        CommunityId(cs, e.from) # 0 /\ CommunityId(cs, e.to) # 0}
IsGateway(cs, g, s) == CrossAt(cs, g, s) # {}

OpenAt(s) == incidents[s].critical + incidents[s].warning
OpenIn(c) == SumOver([s \in c |-> OpenAt(s)], c)
Affected(cs) == {c \in cs : OpenIn(c) > 0}

\* incident_scope, by what it adds to a risk.
ScopeScore(cs) == CASE Cardinality(Affected(cs)) = 0 -> 0
                    [] Cardinality(Affected(cs)) = 1 -> 450
                    [] OTHER -> 1000

-----------------------------------------------------------------------------
(* Risk.                                                                   *)

IncidentScore(i) ==
    LET open == IF i.critical > 0
                THEN AtMost(1000, 850 + 50 * (i.critical - 1) + 30 * i.warning)
                ELSE IF i.warning > 0 THEN AtMost(800, 550 + 50 * (i.warning - 1))
                ELSE 0
    IN  IF i.recovering > 0 /\ open > 0 THEN Max({250, open - 150}) ELSE open

GatewayScore(cs, g, s) ==
    LET most == Greatest([t \in Nodes |-> Cardinality(CrossAt(cs, g, t))], Nodes)
        mine == CrossAt(cs, g, s)
        strongest == Max({e.conf : e \in mine})
    IN  IF mine = {} THEN 0
        ELSE Rounded(65000 * Cardinality(mine) + 35 * strongest * most, 100 * most)

\* Mutant: weak evidence lowers the risk.
RiskOfWeakEvidence(cs, g, s) ==
    LET risk == 40 * IncidentScore(incidents[s]) + 20 * Resilience(cs, g)[s]
                + 20 * Impact(g)[s] + 15 * GatewayScore(cs, g, s) + 5 * ScopeScore(cs)
    IN  IF Freshness(s) = "fresh" THEN Rounded(risk, 100) ELSE Rounded(risk, 125)

\* risk_score of a server.
ServerRisk(cs, g, s) ==
    Rounded(40 * IncidentScore(incidents[s]) + 20 * Resilience(cs, g)[s]
            + 20 * Impact(g)[s] + 15 * GatewayScore(cs, g, s) + 5 * ScopeScore(cs), 100)

\* risk_score of a community.
CommunityRisk(cs, g, c) ==
    LET risk == [s \in c |-> ServerRisk(cs, g, s)]
        n == Cardinality(c)
        pressure == AtMost(1000, 350 * OpenIn(c)
                                 + 150 * Cardinality({s \in c : OpenAt(s) > 0}))
    IN  Rounded(55 * Greatest(risk, c) * n + 20 * SumOver(risk, c)
                + 15 * pressure * n
                + 10000 * Cardinality({s \in c : IsGateway(cs, g, s)}),
                100 * n)

RiskLevel(score) == CASE score >= 750 -> "critical"
                      [] score >= 500 /\ score < 750 -> "high"
                      [] score >= 250 /\ score < 500 -> "moderate"
                      [] OTHER -> "low"

LevelOf(g, s) == EvidenceLevel(Coverage(s), Freshness(s), QualityScore(g))
EvidenceRank == [low |-> 0, limited |-> 1, moderate |-> 2, high |-> 3]

\* A community's evidence is that of its weakest member.
CommunityLevel(g, c) ==
    LET levels == {LevelOf(g, s) : s \in c}
    IN  CHOOSE l \in levels : \A m \in levels : EvidenceRank[l] <= EvidenceRank[m]

-----------------------------------------------------------------------------
\* propagation_topology_risk.py:192 "Evidence quality is reported separately and
\* never increases or decreases the risk score": when all that changes is what
\* articles a server missed or what day it is, no risk changes, although impact,
\* communities, cross edges and incidents are all computed anew, with new
\* numbers for the communities when a server is asked for the first time.
RiskIgnoresQuality ==
    [][changes' = changes + 1 /\ UNCHANGED <<ahead, incidents>> =>
          \A g \in {graph}, h \in {graph'}, cs \in {communities}, ds \in {communities'} :
             /\ \A s \in Nodes : ServerRisk(ds, h, s)' = ServerRisk(cs, g, s)
             /\ \A c \in cs : c \in ds /\ CommunityRisk(ds, h, c)' = CommunityRisk(cs, g, c)
      ]_known
=============================================================================
