------------------------------ MODULE Topology ------------------------------
(***************************************************************************)
(* What NNTPIntel infers from the order in which servers show articles: a  *)
(* graph of observed precedence, its communities, what a removal would     *)
(* break, which servers join communities, and a risk for each server and   *)
(* community.  Nothing of it is stored: every report computes it anew from *)
(* the observations, which grow while campaigns run.                       *)
(*                                                                         *)
(* Confidence and coverage are in thousandths, scores in tenths of a point *)
(* of a hundred.  A server's number is its place in the order of hosts.    *)
(*                                                                         *)
(* src/src/nntpintel/propagation_topology.py, and propagation_topology_ +  *)
(* impact, communities, resilience, cross_cluster, quality, risk, history, *)
(* anomalies, incidents (.py).                                             *)
(***************************************************************************)
EXTENDS Integers, FiniteSets, FiniteSetsExt, Functions

CONSTANTS
    ServerCount,
    MinSamples,         \* MIN_TOPOLOGY_SAMPLES
    MinConfidence,      \* MIN_TOPOLOGY_CONFIDENCE
    StrongConfidence,   \* COMMUNITY_MIN_CONFIDENCE, STRONG_CONFIDENCE
    StaleDays,          \* STALE_HOURS
    VeryStaleDays,      \* VERY_STALE_HOURS
    Window,             \* days of history
    MinChurn,           \* MIN_CHURN_EVENTS
    Histories,          \* what campaigns may have found already, as values of ahead
    Campaigns,          \* what more they may find: <<a, b, a first, b first, ties>>
    Missing,            \* the <<a, b>> of which b may miss what a shows
    OpenIncidents,      \* the incidents that a server may come to have open: <<server, open>>
    MaxDay,             \* bound: days
    MaxChanges          \* bound: changes of what is known

ASSUME ConstantsAssumption ==
    /\ ServerCount \in Nat \ {0} /\ MinSamples \in Nat \ {0}
    /\ MinConfidence \in 500 .. 1000 /\ StrongConfidence \in 500 .. 1000
    /\ StaleDays \in Nat /\ VeryStaleDays \in Nat /\ StaleDays <= VeryStaleDays
    /\ Window \in Nat \ {0} /\ MinChurn \in Nat \ {0}
    /\ MaxDay \in Nat \ {0} /\ MaxChanges \in Nat

Servers == 1 .. ServerCount
Days == 1 .. MaxDay
Pairs == {p \in Servers \X Servers : p[1] # p[2]}
Opposite(p) == <<p[2], p[1]>>

ASSUME InstanceAssumption ==
    /\ Histories \subseteq [Days -> [Pairs -> Nat]]
    /\ Campaigns \subseteq Servers \X Servers \X Nat \X Nat \X Nat
    /\ \A c \in Campaigns : c[1] # c[2]
    /\ Missing \subseteq Pairs
    /\ OpenIncidents \subseteq Servers \X [critical : Nat, warning : Nat, recovering : Nat]

VARIABLES
    day,
    ahead,      \* [Days -> [Pairs -> Nat]]: articles of the campaigns created that
                \* day which the first server of the pair showed before the second
    targeted,   \* [Servers -> Nat]: articles that campaigns ask the server for
    visible,    \* [Servers -> Nat]: those of them that it showed
    latest,     \* [Servers -> Days \cup {0}]: the last day it showed any
    comparable, \* articles that two servers or more showed
    incidents,  \* [Servers -> open topology incidents that operators see]
    changes     \* how often any of these changed

known == <<day, ahead, targeted, visible, latest, comparable, incidents, changes>>

None == [critical |-> 0, warning |-> 0, recovering |-> 0]

\* The sum of f over S.
SumOver(f, S) == FoldFunctionOnSet(+, 0, f, S)

Touches(p, s) == s \in {p[1], p[2]}
Total == [p \in Pairs |-> SumOver([d \in Days |-> ahead[d][p]], Days)]

\* The days on which campaigns found anything that is in S.
Found(S) == {0} \cup {d \in Days : \E p \in S : ahead[d][p] > 0}

Init ==
    /\ ahead \in Histories
    /\ day = Max({1} \cup Found(Pairs))
    /\ targeted = [s \in Servers |-> SumOver(Total, {p \in Pairs : Touches(p, s)})]
    /\ visible = targeted
    /\ latest = [s \in Servers |-> Max(Found({p \in Pairs : Touches(p, s)}))]
    /\ comparable = SumOver(Total, Pairs)
    /\ incidents = [s \in Servers |-> None]
    /\ changes = 0

-----------------------------------------------------------------------------
(* What changes the answers.                                               *)

Change == changes < MaxChanges /\ changes' = changes + 1

\* The function f with n more at each element of S.
Plus(f, S, n) == [x \in DOMAIN f |-> IF x \in S THEN f[x] + n ELSE f[x]]

\* Campaigns of today that ask a and b for articles which both show.
Measure(a, b, aFirst, bFirst, ties) ==
    LET articles == aFirst + bFirst + ties
    IN  /\ Change
        /\ ahead' = [ahead EXCEPT ![day][<<a, b>>] = @ + aFirst,
                                  ![day][<<b, a>>] = @ + bFirst]
        /\ targeted' = Plus(targeted, {a, b}, articles)
        /\ visible' = Plus(visible, {a, b}, articles)
        /\ latest' = [latest EXCEPT ![a] = day, ![b] = day]
        /\ comparable' = comparable + articles
        /\ UNCHANGED <<day, incidents>>

\* A campaign asks a and b for an article that only a has.
Miss(a, b) ==
    /\ Change
    /\ targeted' = Plus(targeted, {a, b}, 1)
    /\ visible' = Plus(visible, {a}, 1)
    /\ latest' = [latest EXCEPT ![a] = day]
    /\ UNCHANGED <<day, ahead, comparable, incidents>>

NextDay ==
    /\ day < MaxDay
    /\ Change
    /\ day' = day + 1
    /\ UNCHANGED <<ahead, targeted, visible, latest, comparable, incidents>>

\* TopologyIncidents: an incident opens, recovers or is resolved.
ChangeIncidents(s, open) ==
    /\ open # incidents[s]
    /\ Change
    /\ targeted[s] > 0
    /\ incidents' = [incidents EXCEPT ![s] = open]
    /\ UNCHANGED <<day, ahead, targeted, visible, latest, comparable>>

Learn ==
    \/ \E c \in Campaigns : Measure(c[1], c[2], c[3], c[4], c[5])
    \/ \E p \in Missing : Miss(p[1], p[2])
    \/ NextDay
    \/ \E o \in OpenIncidents : ChangeIncidents(o[1], o[2])

-----------------------------------------------------------------------------
(* The graph.                                                              *)

\* round(): no half occurs with less than sixteen articles.
Rounded(n, d) == (2 * n + d) \div (2 * d)
Thousandths(n, d) == Rounded(1000 * n, d)
AtMost(bound, n) == IF n > bound THEN bound ELSE n

\* How often each server of a pair was first, from the counts n.
PairCount(n, p) == [from |-> p[1], to |-> p[2], first |-> n[p], second |-> n[Opposite(p)]]

Directional(r) == r.first + r.second
Confidence(r) == Thousandths(r.first, Directional(r))

\* left_first >= right_first decides the direction of a pair.
Leads(r) == r.first > r.second \/ (r.first = r.second /\ r.from < r.to)

IsEdge(r) == Directional(r) >= MinSamples /\ Leads(r) /\ Confidence(r) >= MinConfidence

\* The edges that the counts n show.
Graph(n) == {[from |-> r.from, to |-> r.to, conf |-> Confidence(r), samples |-> Directional(r)]
                : r \in {r \in {PairCount(n, p) : p \in Pairs} : IsEdge(r)}}

Nodes == {s \in Servers : targeted[s] > 0}

Touching(edges, s) == {e \in edges : s \in {e.from, e.to}}

-----------------------------------------------------------------------------
(* Impact.                                                                 *)

Greatest(f, S) == Max({0} \cup {f[x] : x \in S})

Weight(g, s) == MapThenSumSet(LAMBDA e : e.conf, Touching(g, s))
Degree(g, s) == Cardinality(Touching(g, s))
Out(g, s) == Cardinality({e \in g : e.from = s})

\* bridge_score: how balanced the directions of a server's edges are.
Balance(g, s) == IF Degree(g, s) = 0 THEN 0
                 ELSE Thousandths(Min({Out(g, s), Degree(g, s) - Out(g, s)}), Degree(g, s))

Impact(g) ==
    LET degree == [s \in Servers |-> Degree(g, s)]
        weight == [s \in Servers |-> Weight(g, s)]
        maxDegree == Greatest(degree, Servers)
        maxWeight == Greatest(weight, Servers)
    IN  [s \in Servers |->
            IF g = {} THEN 0
            ELSE Rounded(20 * (450 * degree[s] * maxWeight + 400 * weight[s] * maxDegree)
                            + 3 * Balance(g, s) * maxDegree * maxWeight,
                         20 * maxDegree * maxWeight)]

-----------------------------------------------------------------------------
(* Communities and resilience.                                             *)

\* Mutant: links lead from the first to the second server only.
LinkedOneWay(links, s, t) == \E e \in links : e.from = s /\ e.to = t

\* Edges have no direction here.
Linked(links, s, t) == \E e \in links : {e.from, e.to} = {s, t}

\* The breadth-first search from s within nodes.
Reached(nodes, links, s) ==
    LET after[k \in 0 .. Cardinality(nodes)] ==
            IF k = 0 THEN {s}
            ELSE UNION {{r} \cup {t \in nodes : Linked(links, r, t)} : r \in after[k - 1]}
    IN  after[Cardinality(nodes)]

Components(nodes, links) == {Reached(nodes, links, s) : s \in nodes}

Strong(g) == {e \in g : e.conf >= StrongConfidence}
Communities(nodes, g) == Components(nodes, Strong(g))

\* Communities are numbered in the order of their first hosts.
HomeOf(cs, s) == CHOOSE c \in cs : s \in c
CommunityId(cs, s) == IF s \notin UNION cs THEN 0
                      ELSE Cardinality({d \in cs : Min(d) <= Min(HomeOf(cs, s))})

\* The ends of an edge are asked for articles, so each is in a community.
CrossEdges(cs, g) == {e \in g : ~ \E c \in cs : {e.from, e.to} \subseteq c}

\* Mutant: a removal that splits a community in two does not count.
PiecesLost(before, after) == Max({0, before - after})

\* fragmentation_delta
PiecesAdded(before, after) == Max({0, after - before})

\* How many more pieces a community falls into without one of its servers ...
NodeBreaks(cs, g, s) ==
    LET c == HomeOf(cs, s)
    IN  PiecesAdded(Cardinality(Components(c, Strong(g))),
                    Cardinality(Components(c \ {s}, Strong(g))))

\* ... and without one of the edges inside of it.
EdgeBreaks(cs, g, e) ==
    LET c == HomeOf(cs, e.from)
    IN  IF e.conf < StrongConfidence \/ e.to \notin c THEN 0
        ELSE PiecesAdded(Cardinality(Components(c, Strong(g))),
                         Cardinality(Components(c, Strong(g) \ {e})))

Resilience(cs, g) ==
    LET cross == CrossEdges(cs, g)
        all == Max({1, Cardinality(cross)})
        impact == Impact(g)
    IN  [s \in UNION cs |->
            Rounded(20 * (550 * AtMost(1, NodeBreaks(cs, g, s)) * all
                          + 300 * Cardinality(Touching(cross, s)))
                       + 3 * impact[s] * all,
                    20 * all)]

EdgeResilience(cs, g, e) ==
    AtMost(1000, 650 * AtMost(1, EdgeBreaks(cs, g, e))
                 + (IF e \in CrossEdges(cs, {e}) THEN 250 ELSE 0)
                 + Rounded(e.conf, 10))

-----------------------------------------------------------------------------
(* The communities and the graph of one moment.                            *)

graph == Graph(Total)
communities == Communities(Nodes, graph)

\* The links, of those given, that lead out of a part.
Leaving(links, part) == {e \in links : (e.from \in part) # (e.to \in part)}

\* Each server is in one community.  A community hangs together by edges of
\* strong confidence, and none of those leads out of it: whatever part of it
\* one takes, a strong edge crosses to the rest, and never to another one.
CommunitiesHangTogether ==
    LET g == graph  strong == Strong(g)  cs == Communities(Nodes, g)
    IN  /\ UNION cs = Nodes
        /\ \A c, d \in cs : c # d => c \cap d = {}
        /\ \A c \in cs : /\ Leaving(strong, c) = {}
                         /\ \A part \in (SUBSET c) \ {{}, c} : Leaving(strong, part) # {}

\* A server is scored as critical (critical_node_count) if and only if the rest
\* of its community falls apart without it, and an edge (critical_edge_count)
\* if and only if it is the only one between two parts of a community, however
\* the other terms of the score turn out.  tests/
\* test_propagation_topology_resilience.py:63
\* "test_topology_resilience_detects_articulation_and_boundary".
CriticalMeansCut ==
    LET g == graph  strong == Strong(g)  cs == Communities(Nodes, g)
        resilience == Resilience(cs, g)
    IN  /\ \A c \in cs : \A s \in c :
              (resilience[s] >= 500)
                 <=> \E part \in (SUBSET (c \ {s})) \ {{}, c \ {s}} :
                        Leaving(strong \ Touching(strong, s), part) = {}
        /\ \A e \in g :
              (EdgeResilience(cs, g, e) >= 500)
                 <=> \E c \in cs : \E part \in SUBSET c : Leaving(strong, part) = {e}
=============================================================================
