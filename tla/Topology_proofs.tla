--------------------------- MODULE Topology_proofs ---------------------------
(***************************************************************************)
(* What Topology, TopologyRisk, TopologyHistory and EvidenceSnapshots      *)
(* guarantee for every number of servers, days, articles, processes that   *)
(* capture and conclusions, and for all thresholds that the constants      *)
(* admit.                                                                  *)
(*                                                                         *)
(* Reports compute everything anew from what is known, so what they say    *)
(* holds in every state in which the facts fit together (KInv): whoever    *)
(* is an end of an edge was asked for articles, and only servers that were *)
(* have incidents.  From it follow that the search finds the components,   *)
(* that removals break what scores say, that events replay the graphs and  *)
(* that scores are natural numbers.                                        *)
(*                                                                         *)
(* What captures do follows from an invariant (SInv) that says of each one *)
(* what it is at and, while nothing changed since it began, that it has    *)
(* done or still has to do each conclusion (SteadyInv).                    *)
(***************************************************************************)
EXTENDS EvidenceSnapshots, FiniteSetTheorems, SequenceTheorems, TLAPS

-----------------------------------------------------------------------------
(* Natural numbers and functions that are given by recursion.              *)

\* Every set of natural numbers that is not empty has a least one.
LEMMA Least ==
    ASSUME NEW T, T \subseteq Nat, T # {}
    PROVE  \E n \in T : \A m \in T : n <= m
<1>1. IsWellFoundedOn({ss \in Nat \X Nat : ss[1] < ss[2]}, Nat)
  BY NatLessThanWellFounded DEF OpToRel
<1>2. \E x \in T : \A y \in T : ~ (<<y, x>> \in {ss \in Nat \X Nat : ss[1] < ss[2]})
  BY <1>1, WFMin, Zenon
<1>3. PICK x \in T : \A y \in T : <<y, x>> \notin {ss \in Nat \X Nat : ss[1] < ss[2]}
  BY <1>2
<1>4. ASSUME NEW y \in T PROVE x <= y
  <2>1. x \in Nat /\ y \in Nat
    OBVIOUS
  <2>2. ~ (y < x)
    BY <1>3, <2>1
  <2>3. QED
    BY <2>1, <2>2
<1>5. QED
  BY <1>4

\* Induction up to N, over a set.
LEMMA Induction ==
    ASSUME NEW N \in Nat, NEW T, 0 \in T,
           \A n \in 1 .. N : n - 1 \in T => n \in T
    PROVE  0 .. N \subseteq T
<1> DEFINE Rest == {n \in 0 .. N : n \notin T}
<1>1. SUFFICES ASSUME Rest # {} PROVE FALSE
  OBVIOUS
<1>2. Rest \subseteq Nat
  OBVIOUS
<1>3. PICK n \in Rest : \A m \in Rest : n <= m
  <2> HIDE DEF Rest
  <2> QED BY <1>1, <1>2, Least
<1>4. n \in 1 .. N /\ n - 1 \in T
  BY <1>3
<1>5. QED
  BY <1>4

\* f starts with v0 and goes on with the steps G.
Iterates(V, v0, N, G, f) ==
    /\ f \in [0 .. N -> V]
    /\ f[0] = v0
    /\ \A n \in 1 .. N : f[n] = G[n][f[n - 1]]

\* There is such a function.
LEMMA Recursion ==
    ASSUME NEW V, NEW v0 \in V, NEW N \in Nat, NEW G \in [1 .. N -> [V -> V]]
    PROVE  \E f : Iterates(V, v0, N, G, f)
<1> DEFINE Runs(n, f) == f[0] = v0 /\ \A i \in 1 .. n : f[i] = G[i][f[i - 1]]
           T == {n \in 0 .. N : \E f \in [0 .. n -> V] : Runs(n, f)}
<1>1. 0 \in T
  <2>1. [i \in 0 .. 0 |-> v0] \in [0 .. 0 -> V] /\ Runs(0, [i \in 0 .. 0 |-> v0])
    OBVIOUS
  <2>2. \E f \in [0 .. 0 -> V] : Runs(0, f)
    <3> HIDE DEF Runs
    <3> QED BY <2>1
  <2>3. QED BY <2>2
<1>2. ASSUME NEW n \in 1 .. N, n - 1 \in T PROVE n \in T
  <2>1. PICK f \in [0 .. n - 1 -> V] : Runs(n - 1, f)
    BY <1>2
  <2> DEFINE g == [i \in 0 .. n |-> IF i = n THEN G[n][f[n - 1]] ELSE f[i]]
  <2>2. G[n][f[n - 1]] \in V
    OBVIOUS
  <2>3. g \in [0 .. n -> V]
    BY <2>2
  <2>4. g[0] = v0
    BY <2>1
  <2>5. ASSUME NEW i \in 1 .. n PROVE g[i] = G[i][g[i - 1]]
    <3>1. CASE i = n
      BY <3>1
    <3>2. CASE i # n
      <4>1. i \in 1 .. n - 1 /\ i - 1 \in 0 .. n - 1
        BY <3>2
      <4>2. f[i] = G[i][f[i - 1]]
        BY <2>1, <4>1
      <4>3. QED BY <4>1, <4>2, <3>2
    <3>3. QED BY <3>1, <3>2
  <2>6. Runs(n, g)
    BY <2>4, <2>5
  <2>7. \E h \in [0 .. n -> V] : Runs(n, h)
    <3> HIDE DEF g, Runs
    <3> QED BY <2>3, <2>6
  <2>8. QED
    <3> HIDE DEF Runs
    <3> QED BY <2>7
<1>3. N \in T
  <2> HIDE DEF T
  <2>1. 0 .. N \subseteq T
    BY <1>1, <1>2, Induction
  <2> QED BY <2>1
<1>4. QED
  BY <1>3 DEF Iterates

-----------------------------------------------------------------------------
(* Sums over finite sets.                                                  *)

Pick(s) == CHOOSE x \in s : TRUE

\* The element of a part that sums take next is one of its elements.
LEMMA PickMember == ASSUME NEW s, s # {} PROVE Pick(s) \in s
BY DEF Pick

\* h gives the sum of f over every part of S.
Sums(S, f, h) ==
    /\ h[{}] = 0
    /\ \A s \in SUBSET S : s # {} => h[s] = f[Pick(s)] + h[s \ {Pick(s)}]

\* Sizes of the parts of a finite set.
LEMMA PartSize ==
    ASSUME NEW S, IsFiniteSet(S), NEW s \in SUBSET S
    PROVE  /\ Cardinality(S) \in Nat
           /\ Cardinality(s) \in Nat
           /\ Cardinality(s) <= Cardinality(S)
           /\ Cardinality(s) = 0 <=> s = {}
BY FS_Subset, FS_CardinalityType, FS_EmptySet

\* A part without the element that is taken next is smaller by one.
LEMMA WithoutPick ==
    ASSUME NEW S, IsFiniteSet(S), NEW s \in SUBSET S, s # {}
    PROVE  /\ Pick(s) \in s
           /\ s \ {Pick(s)} \in SUBSET S
           /\ Cardinality(s) >= 1
           /\ Cardinality(s \ {Pick(s)}) = Cardinality(s) - 1
<1>1. Pick(s) \in s
  BY PickMember
<1>2. IsFiniteSet(s)
  BY FS_Subset
<1>3. Cardinality(s \ {Pick(s)}) = Cardinality(s) - 1
  BY <1>1, <1>2, FS_RemoveElement
<1>4. QED
  BY <1>1, <1>3, PartSize

\* There is a function that gives the sum of every part, by induction on its size.
LEMMA SumsExist ==
    ASSUME NEW S, IsFiniteSet(S), NEW f, \A x \in S : f[x] \in Nat
    PROVE  \E h \in [SUBSET S -> Nat] : Sums(S, f, h)
<1> DEFINE N == Cardinality(S)
           Small(k) == {s \in SUBSET S : Cardinality(s) <= k}
           Works(k, h) == /\ h \in [Small(k) -> Nat]
                          /\ h[{}] = 0
                          /\ \A s \in Small(k) : s # {} => h[s] = f[Pick(s)] + h[s \ {Pick(s)}]
           T == {k \in 0 .. N : \E h : Works(k, h)}
<1>1. N \in Nat
  BY PartSize
<1>2. Cardinality({}) = 0
  BY FS_EmptySet
<1>3. 0 \in T
  <2> DEFINE h == [s \in Small(0) |-> 0]
  <2>1. \A s \in Small(0) : s = {}
    BY PartSize
  <2>2. {} \in Small(0)
    BY <1>2
  <2>3. Works(0, h)
    <3> HIDE DEF Small
    <3> QED BY <2>1, <2>2
  <2>4. QED
    <3> HIDE DEF Works
    <3> QED BY <1>1, <2>3
<1>4. ASSUME NEW k \in 1 .. N, k - 1 \in T PROVE k \in T
  <2>1. PICK h : Works(k - 1, h)
    BY <1>4
  <2> DEFINE g == [s \in Small(k) |-> IF s = {} THEN 0 ELSE f[Pick(s)] + h[s \ {Pick(s)}]]
  <2>2. ASSUME NEW s \in Small(k), s # {}
        PROVE  /\ f[Pick(s)] \in Nat
               /\ s \ {Pick(s)} \in Small(k - 1) /\ s \ {Pick(s)} \in Small(k)
    <3>1. /\ Pick(s) \in s /\ s \ {Pick(s)} \in SUBSET S /\ s \in SUBSET S
          /\ Cardinality(s \ {Pick(s)}) = Cardinality(s) - 1
      BY <2>2, WithoutPick
    <3>2. Cardinality(s \ {Pick(s)}) <= k - 1 /\ Cardinality(s \ {Pick(s)}) <= k
      BY <3>1, <1>1, PartSize
    <3>3. QED BY <3>1, <3>2
  <2>3. {} \in Small(k) /\ {} \in Small(k - 1)
    BY <1>2
  <2>4. \A s \in Small(k - 1) : h[s] \in Nat
    BY <2>1
  <2>5. g \in [Small(k) -> Nat]
    <3>1. ASSUME NEW s \in Small(k) PROVE (IF s = {} THEN 0 ELSE f[Pick(s)] + h[s \ {Pick(s)}]) \in Nat
      <4> HIDE DEF Small
      <4>1. CASE s = {}
        BY <4>1
      <4>2. CASE s # {}
        <5>1. f[Pick(s)] \in Nat /\ h[s \ {Pick(s)}] \in Nat
          BY <2>2, <2>4, <4>2
        <5>2. QED BY <5>1
      <4>3. QED BY <4>1, <4>2
    <3> HIDE DEF Small
    <3>2. QED BY <3>1
  <2>6. \A s \in Small(k - 1) : s \in Small(k)
    <3> SUFFICES ASSUME NEW s \in SUBSET S, Cardinality(s) <= k - 1 PROVE Cardinality(s) <= k
      OBVIOUS
    <3>1. Cardinality(s) \in Nat
      BY PartSize
    <3>2. QED BY <3>1
  <2>7. ASSUME NEW s \in Small(k - 1) PROVE g[s] = h[s]
    <3>1. s \in Small(k) /\ (s # {} => h[s] = f[Pick(s)] + h[s \ {Pick(s)}]) /\ h[{}] = 0
      BY <2>1, <2>6
    <3> HIDE DEF Small
    <3>2. QED BY <3>1
  <2>8. Works(k, g)
    <3>1. \A s \in Small(k) : s # {} => g[s] = f[Pick(s)] + g[s \ {Pick(s)}]
      <4> SUFFICES ASSUME NEW s \in Small(k), s # {}
                   PROVE  g[s] = f[Pick(s)] + g[s \ {Pick(s)}]
        OBVIOUS
      <4>1. g[s \ {Pick(s)}] = h[s \ {Pick(s)}]
        BY <2>2, <2>7
      <4>2. g[s] = f[Pick(s)] + h[s \ {Pick(s)}]
        <5> HIDE DEF Small
        <5> QED OBVIOUS
      <4>3. QED BY <4>1, <4>2
    <3>2. g[{}] = 0
      <4> HIDE DEF Small
      <4> QED BY <2>3
    <3> HIDE DEF g, Small
    <3>3. QED BY <2>5, <3>1, <3>2
  <2>9. QED
    <3> HIDE DEF Works
    <3> QED BY <2>8
<1>5. N \in T
  <2> HIDE DEF T
  <2>1. 0 .. N \subseteq T
    BY <1>1, <1>3, <1>4, Induction
  <2>2. QED BY <1>1, <2>1
<1>6. PICK h : Works(N, h)
  BY <1>5
<1>7. Small(N) = SUBSET S
  BY PartSize
<1>8. QED
  BY <1>6, <1>7 DEF Sums

\* There is only one such function.
LEMMA SumsAgree ==
    ASSUME NEW S, IsFiniteSet(S), NEW f, NEW g, NEW h, Sums(S, f, g), Sums(S, f, h)
    PROVE  \A s \in SUBSET S : g[s] = h[s]
<1> DEFINE N == Cardinality(S)
           T == {k \in 0 .. N : \A s \in SUBSET S : Cardinality(s) = k => g[s] = h[s]}
<1>1. N \in Nat
  BY PartSize
<1>2. 0 \in T
  <2>1. \A s \in SUBSET S : Cardinality(s) = 0 => s = {}
    BY PartSize
  <2>2. QED BY <1>1, <2>1 DEF Sums
<1>3. ASSUME NEW k \in 1 .. N, k - 1 \in T PROVE k \in T
  <2> SUFFICES ASSUME NEW s \in SUBSET S, Cardinality(s) = k PROVE g[s] = h[s]
    OBVIOUS
  <2>1. s # {}
    BY <1>1, PartSize
  <2>2. s \ {Pick(s)} \in SUBSET S /\ Cardinality(s \ {Pick(s)}) = k - 1
    BY <2>1, WithoutPick
  <2>3. g[s \ {Pick(s)}] = h[s \ {Pick(s)}]
    BY <1>3, <2>2
  <2>4. QED BY <2>1, <2>3 DEF Sums
<1>4. 0 .. N \subseteq T
  <2> HIDE DEF T
  <2> QED BY <1>1, <1>2, <1>3, Induction
<1>5. ASSUME NEW s \in SUBSET S PROVE g[s] = h[s]
  <2>1. Cardinality(s) \in 0 .. N
    BY PartSize
  <2>2. QED BY <1>4, <2>1
<1>6. QED BY <1>5

\* What a sum of naturals says of them.
LEMMA SumsBound ==
    ASSUME NEW S, IsFiniteSet(S), NEW f, \A x \in S : f[x] \in Nat,
           NEW h \in [SUBSET S -> Nat], Sums(S, f, h)
    PROVE  /\ \A x \in S : f[x] <= h[S]
           /\ (\A x \in S : f[x] = 0) => h[S] = 0
<1> DEFINE N == Cardinality(S)
           Bounds(s) == \A x \in s : f[x] <= h[s]
           Zero(s) == (\A x \in s : f[x] = 0) => h[s] = 0
           T == {k \in 0 .. N : \A s \in SUBSET S : Cardinality(s) = k => Bounds(s) /\ Zero(s)}
<1>1. N \in Nat
  BY PartSize
<1>2. 0 \in T
  <2>1. ASSUME NEW s \in SUBSET S, Cardinality(s) = 0 PROVE Bounds(s) /\ Zero(s)
    <3>1. s = {}
      BY <2>1, PartSize
    <3>2. QED BY <3>1 DEF Sums
  <2>2. QED BY <1>1, <2>1
<1>3. ASSUME NEW k \in 1 .. N, k - 1 \in T PROVE k \in T
  <2> SUFFICES ASSUME NEW s \in SUBSET S, Cardinality(s) = k PROVE Bounds(s) /\ Zero(s)
    OBVIOUS
  <2> DEFINE r == s \ {Pick(s)}
  <2>1. s # {}
    BY <1>1, PartSize
  <2>2. r \in SUBSET S /\ Cardinality(r) = k - 1 /\ Pick(s) \in s
    BY <2>1, WithoutPick
  <2>3. Bounds(r) /\ Zero(r)
    BY <1>3, <2>2
  <2>4. h[s] = f[Pick(s)] + h[r]
    BY <2>1 DEF Sums
  <2>5. f[Pick(s)] \in Nat /\ h[r] \in Nat /\ h[s] \in Nat
    BY <2>2
  <2>6. ASSUME NEW x \in s PROVE f[x] <= h[s]
    <3>1. CASE x = Pick(s)
      BY <3>1, <2>4, <2>5
    <3>2. CASE x # Pick(s)
      <4>1. x \in r /\ f[x] \in Nat
        BY <3>2
      <4>2. f[x] <= h[r]
        BY <2>3, <4>1
      <4> HIDE DEF r
      <4>3. QED BY <2>4, <2>5, <4>1, <4>2
    <3>3. QED BY <3>1, <3>2
  <2>7. ASSUME \A x \in s : f[x] = 0 PROVE h[s] = 0
    <3>1. h[r] = 0 /\ f[Pick(s)] = 0
      BY <2>2, <2>3, <2>7
    <3> HIDE DEF r
    <3>2. QED BY <2>4, <3>1
  <2>8. QED BY <2>6, <2>7
<1>4. 0 .. N \subseteq T
  <2> HIDE DEF T
  <2> QED BY <1>1, <1>2, <1>3, Induction
<1>5. Bounds(S) /\ Zero(S)
  <2>1. N \in T
    BY <1>1, <1>4
  <2>2. QED BY <2>1
<1>6. QED BY <1>5

-----------------------------------------------------------------------------
(* Searches.                                                               *)

\* One round of the search: X and all that is linked to it.
Spread(nodes, links, X) == UNION {{r} \cup {t \in nodes : Linked(links, r, t)} : r \in X}
Closed(nodes, links, X) == \A r \in X, t \in nodes : Linked(links, r, t) => t \in X

\* Who is in the next round: X, and the nodes linked to it.
LEMMA SpreadMember ==
    ASSUME NEW nodes, NEW links, NEW X, NEW t
    PROVE  t \in Spread(nodes, links, X)
              <=> (t \in X \/ (t \in nodes /\ \E r \in X : Linked(links, r, t)))
BY DEF Spread

\* A round adds nothing if and only if X is closed.
LEMMA SpreadClosed ==
    ASSUME NEW nodes, NEW links, NEW X, X \subseteq nodes
    PROVE  /\ X \subseteq Spread(nodes, links, X)
           /\ Spread(nodes, links, X) \subseteq nodes
           /\ Spread(nodes, links, X) = X <=> Closed(nodes, links, X)
<1>1. X \subseteq Spread(nodes, links, X) /\ Spread(nodes, links, X) \subseteq nodes
  BY SpreadMember
<1>2. ASSUME Closed(nodes, links, X) PROVE Spread(nodes, links, X) \subseteq X
  BY <1>2, SpreadMember DEF Closed
<1>3. ASSUME Spread(nodes, links, X) = X PROVE Closed(nodes, links, X)
  BY <1>3, SpreadMember DEF Closed
<1>4. QED
  BY <1>1, <1>2, <1>3

\* The rounds of the breadth-first search.
Rounds(nodes, links, s, f) ==
    /\ f \in [0 .. Cardinality(nodes) -> SUBSET nodes]
    /\ f[0] = {s}
    /\ \A k \in 1 .. Cardinality(nodes) : f[k] = Spread(nodes, links, f[k - 1])

\* infer_topology_communities searches in such rounds, as many as there are nodes.
LEMMA ReachedRounds ==
    ASSUME NEW nodes, IsFiniteSet(nodes), NEW links, NEW s \in nodes
    PROVE  \E f : /\ Rounds(nodes, links, s, f)
                  /\ Reached(nodes, links, s) = f[Cardinality(nodes)]
<1> DEFINE N == Cardinality(nodes)
           G == [k \in 1 .. N |-> [X \in SUBSET nodes |-> Spread(nodes, links, X)]]
           Def(h) == [k \in 0 .. N |->
                         IF k = 0 THEN {s}
                         ELSE UNION {{r} \cup {t \in nodes : Linked(links, r, t)} : r \in h[k - 1]}]
           after == CHOOSE h : h = Def(h)
<1>1. N \in Nat
  BY FS_CardinalityType
<1>2. G \in [1 .. N -> [SUBSET nodes -> SUBSET nodes]]
  BY SpreadClosed
<1>3. {s} \in SUBSET nodes
  OBVIOUS
<1>4. PICK f : Iterates(SUBSET nodes, {s}, N, G, f)
  <2> HIDE DEF N, G
  <2> QED BY <1>1, <1>2, <1>3, Recursion
<1>5. \A k \in 1 .. N : f[k] = Spread(nodes, links, f[k - 1])
  <2> SUFFICES ASSUME NEW k \in 1 .. N PROVE f[k] = Spread(nodes, links, f[k - 1])
    OBVIOUS
  <2> HIDE DEF N
  <2>1. k - 1 \in 0 .. N /\ f[k - 1] \in SUBSET nodes
    BY <1>1, <1>4 DEF Iterates
  <2>2. f[k] = G[k][f[k - 1]]
    BY <1>4 DEF Iterates
  <2> QED BY <2>1, <2>2
<1>6. f = Def(f)
  <2> HIDE DEF N
  <2>1. \A k \in 0 .. N : f[k] = Def(f)[k]
    BY <1>1, <1>4, <1>5 DEF Spread, Iterates
  <2>2. f \in [0 .. N -> SUBSET nodes]
    BY <1>4 DEF Iterates
  <2>3. QED BY <2>1, <2>2
<1>7. after = Def(after)
  <2> HIDE DEF Def
  <2> QED BY <1>6
<1>8. \A k \in 0 .. N : after[k] = f[k]
  <2> DEFINE T == {k \in 0 .. N : after[k] = f[k]}
  <2> HIDE DEF N, after
  <2>1. 0 \in T
    BY <1>1, <1>6, <1>7
  <2>2. ASSUME NEW k \in 1 .. N, k - 1 \in T PROVE k \in T
    <3>1. k \in 0 .. N /\ k # 0 /\ after[k - 1] = f[k - 1]
      BY <1>1, <2>2
    <3>2. after[k] = Def(after)[k] /\ f[k] = Def(f)[k]
      BY <1>6, <1>7, Zenon
    <3>3. Def(after)[k] = UNION {{r} \cup {t \in nodes : Linked(links, r, t)} : r \in after[k - 1]}
      BY <3>1
    <3>4. Def(f)[k] = UNION {{r} \cup {t \in nodes : Linked(links, r, t)} : r \in f[k - 1]}
      BY <3>1
    <3>5. after[k] = f[k]
      <4> HIDE DEF Def
      <4> QED BY <3>1, <3>2, <3>3, <3>4, Zenon
    <3>6. QED BY <3>1, <3>5
  <2>3. 0 .. N \subseteq T
    <3> HIDE DEF T
    <3> QED BY <1>1, <2>1, <2>2, Induction
  <2>4. QED BY <2>3
<1>9. Reached(nodes, links, s) = f[N]
  <2>1. Reached(nodes, links, s) = after[N]
    BY Zenon DEF Reached
  <2>2. QED
    <3> HIDE DEF N, after
    <3> QED BY <1>1, <1>8, <2>1
<1>10. QED
  BY <1>4, <1>5, <1>9 DEF Rounds, Iterates
 
\* A round that adds anything adds a node at least.
LEMMA SpreadGrows ==
    ASSUME NEW nodes, IsFiniteSet(nodes), NEW links, NEW X \in SUBSET nodes,
           ~ Closed(nodes, links, X)
    PROVE  Cardinality(Spread(nodes, links, X)) > Cardinality(X)
<1>1. X \subseteq Spread(nodes, links, X) /\ Spread(nodes, links, X) \subseteq nodes
      /\ Spread(nodes, links, X) # X
  BY SpreadClosed
<1>2. IsFiniteSet(Spread(nodes, links, X))
  BY <1>1, FS_Subset
<1>3. /\ Cardinality(X) <= Cardinality(Spread(nodes, links, X))
      /\ Cardinality(X) # Cardinality(Spread(nodes, links, X))
      /\ IsFiniteSet(X)
  BY <1>1, <1>2, FS_Subset
<1>4. Cardinality(X) \in Nat /\ Cardinality(Spread(nodes, links, X)) \in Nat
  BY <1>2, <1>3, FS_CardinalityType
<1>5. QED
  BY <1>3, <1>4

\* The search finds the least set with s that is closed under links.
LEMMA ReachedIsClosed ==
    ASSUME NEW nodes, IsFiniteSet(nodes), NEW links, NEW s \in nodes
    PROVE  /\ s \in Reached(nodes, links, s)
           /\ Reached(nodes, links, s) \subseteq nodes
           /\ Closed(nodes, links, Reached(nodes, links, s))
<1> DEFINE N == Cardinality(nodes)
<1>1. N \in Nat
  BY FS_CardinalityType
<1>2. PICK f : Rounds(nodes, links, s, f) /\ Reached(nodes, links, s) = f[N]
  BY ReachedRounds
<1> HIDE DEF N
<1>3. /\ \A k \in 0 .. N : f[k] \subseteq nodes
      /\ f[0] = {s}
      /\ \A k \in 1 .. N : f[k] = Spread(nodes, links, f[k - 1])
  BY <1>2 DEF Rounds, N
<1>4. \A k \in 0 .. N : IsFiniteSet(f[k]) /\ Cardinality(f[k]) \in Nat
  BY <1>3, FS_Subset, FS_CardinalityType
<1> DEFINE T == {k \in 0 .. N : s \in f[k] /\ (Closed(nodes, links, f[k]) \/ Cardinality(f[k]) > k)}
<1>5. 0 \in T
  <2>1. Cardinality(f[0]) = 1
    BY <1>3, FS_Singleton
  <2>2. QED BY <1>1, <1>3, <2>1
<1>6. ASSUME NEW k \in 1 .. N, k - 1 \in T PROVE k \in T
  <2>1. /\ k - 1 \in 0 .. N /\ s \in f[k - 1] /\ f[k - 1] \subseteq nodes
        /\ f[k] = Spread(nodes, links, f[k - 1])
    BY <1>1, <1>3, <1>6
  <2>2. s \in f[k]
    BY <2>1, SpreadClosed
  <2>3. CASE Closed(nodes, links, f[k - 1])
    <3>1. f[k] = f[k - 1]
      BY <2>1, <2>3, SpreadClosed
    <3>2. QED BY <1>6, <2>2, <2>3, <3>1
  <2>4. CASE ~ Closed(nodes, links, f[k - 1])
    <3>1. Cardinality(f[k - 1]) > k - 1
      BY <1>6, <2>4
    <3>2. Cardinality(f[k]) > Cardinality(f[k - 1])
      BY <2>1, <2>4, SpreadGrows
    <3>3. Cardinality(f[k]) \in Nat /\ Cardinality(f[k - 1]) \in Nat
      BY <1>4, <2>1
    <3>4. Cardinality(f[k]) > k
      BY <3>1, <3>2, <3>3
    <3>5. QED BY <2>2, <3>4
  <2>5. QED BY <2>3, <2>4
<1>7. N \in T
  <2> HIDE DEF T
  <2>1. 0 .. N \subseteq T
    BY <1>1, <1>5, <1>6, Induction
  <2>2. QED BY <1>1, <2>1
<1>8. Cardinality(f[N]) <= N
  BY <1>1, <1>3, FS_Subset DEF N
<1>9. N \in 0 .. N
  BY <1>1
<1>10. Closed(nodes, links, f[N])
  BY <1>1, <1>4, <1>7, <1>8, <1>9
<1>11. QED
  BY <1>2, <1>3, <1>7, <1>9, <1>10

\* Whatever has s and is closed has all that the search reaches.
LEMMA ReachedIsLeast ==
    ASSUME NEW nodes, IsFiniteSet(nodes), NEW links, NEW s \in nodes,
           NEW X, s \in X, Closed(nodes, links, X)
    PROVE  Reached(nodes, links, s) \subseteq X
<1> DEFINE N == Cardinality(nodes)
<1>1. N \in Nat
  BY FS_CardinalityType
<1>2. PICK f : Rounds(nodes, links, s, f) /\ Reached(nodes, links, s) = f[N]
  BY ReachedRounds
<1> HIDE DEF N
<1>3. /\ f[0] = {s}
      /\ \A k \in 1 .. N : f[k] = Spread(nodes, links, f[k - 1])
  BY <1>2 DEF Rounds, N
<1> DEFINE T == {k \in 0 .. N : f[k] \subseteq X}
<1>4. 0 \in T
  BY <1>1, <1>3
<1>5. ASSUME NEW k \in 1 .. N, k - 1 \in T PROVE k \in T
  <2>1. f[k - 1] \subseteq X /\ f[k] = Spread(nodes, links, f[k - 1])
    BY <1>3, <1>5
  <2>2. f[k] \subseteq X
    BY <2>1, SpreadMember DEF Closed
  <2>3. QED BY <2>2
<1>6. N \in T
  <2> HIDE DEF T
  <2>1. 0 .. N \subseteq T
    BY <1>1, <1>4, <1>5, Induction
  <2>2. QED BY <1>1, <2>1
<1>7. QED
  BY <1>2, <1>6

-----------------------------------------------------------------------------
(* Components.                                                             *)

\* Links have no direction.
LEMMA LinkedBothWays ==
    ASSUME NEW links, NEW s, NEW t, Linked(links, s, t)
    PROVE  Linked(links, t, s)
BY DEF Linked

\* The search leads to the same nodes from any of them.
LEMMA SameComponent ==
    ASSUME NEW nodes, IsFiniteSet(nodes), NEW links, NEW s \in nodes,
           NEW t \in Reached(nodes, links, s)
    PROVE  Reached(nodes, links, t) = Reached(nodes, links, s)
<1> DEFINE S == Reached(nodes, links, s)
           T == Reached(nodes, links, t)
<1>1. t \in nodes /\ S \subseteq nodes /\ s \in S /\ Closed(nodes, links, S)
  BY ReachedIsClosed
<1>2. T \subseteq S
  BY <1>1, ReachedIsLeast
<1>3. t \in T /\ Closed(nodes, links, T)
  BY <1>1, ReachedIsClosed
<1>4. s \in T
  <2> SUFFICES ASSUME s \notin T PROVE FALSE
    OBVIOUS
  <2>1. Closed(nodes, links, S \ T)
    <3> SUFFICES ASSUME NEW r \in S \ T, NEW u \in nodes, Linked(links, r, u)
                 PROVE  u \in S \ T
      BY DEF Closed
    <3>1. u \in S
      BY <1>1 DEF Closed
    <3>2. u \in T => r \in T
      BY <1>1, <1>3, LinkedBothWays DEF Closed
    <3>3. QED BY <3>1, <3>2
  <2>2. s \in S \ T
    BY <1>1
  <2>3. S \subseteq S \ T
    <3> HIDE DEF T
    <3> QED BY <2>1, <2>2, ReachedIsLeast
  <2>4. QED BY <1>3, <2>3
<1>5. S \subseteq T
  BY <1>3, <1>4, ReachedIsLeast
<1>6. QED
  BY <1>2, <1>5

\* The components are a partition.
LEMMA ComponentsPartition ==
    ASSUME NEW nodes, IsFiniteSet(nodes), NEW links
    PROVE  /\ UNION Components(nodes, links) = nodes
           /\ \A c, d \in Components(nodes, links) : c \cap d # {} => c = d
           /\ \A c \in Components(nodes, links) : \A s \in c :
                 c = Reached(nodes, links, s) /\ s \in nodes
<1>1. \A s \in nodes : s \in Reached(nodes, links, s) /\ Reached(nodes, links, s) \subseteq nodes
  BY ReachedIsClosed
<1>2. UNION Components(nodes, links) = nodes
  BY <1>1 DEF Components
<1>3. ASSUME NEW c \in Components(nodes, links), NEW s \in c
      PROVE  c = Reached(nodes, links, s) /\ s \in nodes
  BY <1>1, SameComponent DEF Components
<1>4. QED
  BY <1>2, <1>3

-----------------------------------------------------------------------------
(* Sums, as the model takes them.                                          *)

\* Folding over a set gives its sum, in whatever order.
LEMMA SumOverIs ==
    ASSUME NEW S, IsFiniteSet(S), NEW f, \A x \in S : f[x] \in Nat
    PROVE  \E h \in [SUBSET S -> Nat] : Sums(S, f, h) /\ SumOver(f, S) = h[S]
<1> DEFINE Def(h) == [s \in SUBSET S |-> IF s = {} THEN 0 ELSE f[Pick(s)] + h[s \ {Pick(s)}]]
           iter == CHOOSE h : h = Def(h)
<1>1. PICK h \in [SUBSET S -> Nat] : Sums(S, f, h)
  BY SumsExist
<1>2. h = Def(h)
  <2>1. \A s \in SUBSET S : h[s] = Def(h)[s]
    BY <1>1 DEF Sums
  <2>2. QED BY <2>1
<1>3. iter = Def(iter)
  <2> HIDE DEF Def
  <2> QED BY <1>2
<1>4. Sums(S, f, iter)
  <2> HIDE DEF iter
  <2>1. iter[{}] = 0
    <3>1. Def(iter)[{}] = 0
      OBVIOUS
    <3> HIDE DEF Def
    <3>2. QED BY <1>3, <3>1
  <2>2. ASSUME NEW s \in SUBSET S, s # {} PROVE iter[s] = f[Pick(s)] + iter[s \ {Pick(s)}]
    <3>1. Def(iter)[s] = f[Pick(s)] + iter[s \ {Pick(s)}]
      BY <2>2
    <3> HIDE DEF Def
    <3>2. QED BY <1>3, <3>1
  <2>3. QED BY <2>1, <2>2 DEF Sums
<1>5. iter[S] = h[S]
  <2> HIDE DEF iter
  <2> QED BY <1>1, <1>4, SumsAgree
<1>6. SumOver(f, S) = iter[S]
  BY Zenon DEF SumOver, FoldFunctionOnSet, MapThenFoldSet, Pick
<1>7. QED
  <2> HIDE DEF iter
  <2> QED BY <1>1, <1>5, <1>6

\* The weight of a server is the sum of the confidence of its edges.
LEMMA WeightIs ==
    ASSUME NEW S, IsFiniteSet(S), \A e \in S : e.conf \in Nat
    PROVE  MapThenSumSet(LAMBDA e : e.conf, S) = SumOver([e \in S |-> e.conf], S)
<1> DEFINE f == [e \in S |-> e.conf]
           Def(h) == [s \in SUBSET S |-> IF s = {} THEN 0 ELSE Pick(s).conf + h[s \ {Pick(s)}]]
           iter == CHOOSE h : h = Def(h)
<1>1. PICK h \in [SUBSET S -> Nat] : Sums(S, f, h) /\ SumOver(f, S) = h[S]
  <2>1. \A e \in S : f[e] \in Nat
    OBVIOUS
  <2> HIDE DEF f
  <2> QED BY <2>1, SumOverIs
<1>1a. \A s \in SUBSET S : s # {} => f[Pick(s)] = Pick(s).conf
  BY PickMember
<1>2. h = Def(h)
  <2>1. \A s \in SUBSET S : h[s] = Def(h)[s]
    <3> HIDE DEF f
    <3> QED BY <1>1, <1>1a DEF Sums
  <2>2. QED BY <2>1
<1>3. iter = Def(iter)
  <2> HIDE DEF Def
  <2> QED BY <1>2
<1>4. Sums(S, f, iter)
  <2> HIDE DEF iter, f
  <2>1. iter[{}] = 0
    <3>1. Def(iter)[{}] = 0
      OBVIOUS
    <3> HIDE DEF Def
    <3>2. QED BY <1>3, <3>1
  <2>2. ASSUME NEW s \in SUBSET S, s # {} PROVE iter[s] = f[Pick(s)] + iter[s \ {Pick(s)}]
    <3>1. Def(iter)[s] = Pick(s).conf + iter[s \ {Pick(s)}]
      BY <2>2
    <3> HIDE DEF Def
    <3>2. QED BY <1>1a, <1>3, <2>2, <3>1
  <2>3. QED BY <2>1, <2>2 DEF Sums
<1>5. iter[S] = h[S]
  <2> HIDE DEF iter
  <2> QED BY <1>1, <1>4, SumsAgree
<1>6. MapThenSumSet(LAMBDA e : e.conf, S) = iter[S]
  BY Zenon DEF MapThenSumSet, MapThenFoldSet, Pick
<1>7. QED
  <2> HIDE DEF iter, f
  <2>1. MapThenSumSet(LAMBDA e : e.conf, S) = SumOver(f, S)
    BY <1>1, <1>5, <1>6, Zenon
  <2> USE DEF f
  <2> QED BY <2>1, Zenon

\* A sum of naturals.
LEMMA SumFacts ==
    ASSUME NEW S, IsFiniteSet(S), NEW f, \A x \in S : f[x] \in Nat
    PROVE  /\ SumOver(f, S) \in Nat
           /\ \A x \in S : f[x] <= SumOver(f, S)
           /\ (\A x \in S : f[x] = 0) => SumOver(f, S) = 0
<1>1. PICK h \in [SUBSET S -> Nat] : Sums(S, f, h) /\ SumOver(f, S) = h[S]
  BY SumOverIs
<1>2. (\A x \in S : f[x] <= h[S]) /\ ((\A x \in S : f[x] = 0) => h[S] = 0)
  BY <1>1, SumsBound
<1>3. QED
  BY <1>1, <1>2

-----------------------------------------------------------------------------
(* The greatest and the least of a finite set of integers.                 *)

\* A finite set of integers that is not empty has a greatest one.
LEMMA MaxExists ==
    ASSUME NEW S \in SUBSET Int, IsFiniteSet(S), S # {}
    PROVE  \E m \in S : \A x \in S : m >= x
<1> DEFINE N == Cardinality(S)
           HasMax(s) == s # {} => \E m \in s : \A x \in s : m >= x
           T == {k \in 0 .. N : \A s \in SUBSET S : Cardinality(s) = k => HasMax(s)}
<1>1. N \in Nat
  BY FS_CardinalityType
<1>2. 0 \in T
  <2>1. ASSUME NEW s \in SUBSET S, Cardinality(s) = 0 PROVE HasMax(s)
    <3>1. s = {}
      BY <2>1, PartSize
    <3>2. QED BY <3>1
  <2>2. QED BY <1>1, <2>1
<1>3. ASSUME NEW k \in 1 .. N, k - 1 \in T PROVE k \in T
  <2> SUFFICES ASSUME NEW s \in SUBSET S, Cardinality(s) = k PROVE HasMax(s)
    OBVIOUS
  <2> DEFINE r == s \ {Pick(s)}
  <2>1. s # {}
    BY <1>1, PartSize
  <2>2. Pick(s) \in s /\ r \in SUBSET S /\ Cardinality(r) = k - 1
    BY <2>1, WithoutPick
  <2>3. HasMax(r)
    BY <1>3, <2>2
  <2>4. CASE r = {}
    <3>1. \A x \in s : x = Pick(s)
      BY <2>4
    <3>2. Pick(s) \in Int
      BY <2>2
    <3>3. \A x \in s : Pick(s) >= x
      BY <3>1, <3>2
    <3>4. QED BY <2>2, <3>3
  <2>5. CASE r # {}
    <3>1. PICK m \in r : \A x \in r : m >= x
      BY <2>3, <2>5
    <3>2. CASE m >= Pick(s)
      <4>1. \A x \in s : m >= x
        BY <3>1, <3>2
      <4>2. QED BY <3>1, <4>1
    <3>3. CASE ~ (m >= Pick(s))
      <4>1. \A x \in s : Pick(s) >= x
        <5> SUFFICES ASSUME NEW x \in s PROVE Pick(s) >= x
          OBVIOUS
        <5>1. x \in Int /\ m \in Int /\ Pick(s) \in Int
          BY <2>2, <3>1
        <5>2. x = Pick(s) \/ m >= x
          BY <3>1
        <5>3. QED BY <3>3, <5>1, <5>2
      <4>2. QED BY <2>2, <4>1
    <3>4. QED BY <3>2, <3>3
  <2>6. QED BY <2>4, <2>5
<1>4. N \in T
  <2> HIDE DEF T
  <2>1. 0 .. N \subseteq T
    BY <1>1, <1>2, <1>3, Induction
  <2>2. QED BY <1>1, <2>1
<1>5. QED
  BY <1>4

\* Max is it.
LEMMA MaxFacts ==
    ASSUME NEW S \in SUBSET Int, IsFiniteSet(S), S # {}
    PROVE  Max(S) \in S /\ \A x \in S : x <= Max(S)
<1>1. \E m \in S : \A x \in S : m >= x
  BY MaxExists
<1>2. Max(S) \in S /\ \A x \in S : Max(S) >= x
  BY <1>1 DEF Max
<1>3. QED
  BY <1>2

\* Min is the least.
LEMMA MinFacts ==
    ASSUME NEW S \in SUBSET Nat, S # {}
    PROVE  Min(S) \in S /\ \A x \in S : Min(S) <= x
<1>1. \E m \in S : \A x \in S : m <= x
  BY Least
<1>2. QED
  BY <1>1 DEF Min

\* The greatest of two.
LEMMA MaxOfTwo ==
    ASSUME NEW x \in Int, NEW y \in Int
    PROVE  Max({x, y}) = IF x >= y THEN x ELSE y
<1>1. IsFiniteSet({x, y})
  <2>1. IsFiniteSet({x} \cup {y})
    BY FS_Singleton, FS_Union
  <2>2. {x, y} = {x} \cup {y}
    OBVIOUS
  <2>3. QED BY <2>1, <2>2
<1>2. Max({x, y}) \in {x, y} /\ x <= Max({x, y}) /\ y <= Max({x, y})
  BY <1>1, MaxFacts
<1>3. QED
  BY <1>2

-----------------------------------------------------------------------------
(* What is known.                                                          *)

\* How often the first server of a pair was before the second.
Counts == [Pairs -> Nat]
Open == [critical : Nat, warning : Nat, recovering : Nat]

\* The types of what is known.
KnownType ==
    /\ day \in Days
    /\ ahead \in [Days -> Counts]
    /\ targeted \in [Servers -> Nat] /\ visible \in [Servers -> Nat]
    /\ latest \in [Servers -> Nat]
    /\ comparable \in Nat
    /\ incidents \in [Servers -> Open]
    /\ changes \in Nat

\* Who showed an article before another one was asked for it, and so was that other.
FoundIsAsked ==
    \A d \in Days, p \in Pairs :
        ahead[d][p] > 0 => targeted[p[1]] > 0 /\ targeted[p[2]] > 0

\* Only a server that was asked for articles has incidents.
IncidentsAreAsked == \A s \in Servers : targeted[s] = 0 => incidents[s] = None

\* The inductive invariant of what is known.
KInv == KnownType /\ FoundIsAsked /\ IncidentsAreAsked

\* Servers, days and pairs are finite; days and servers are numbers.
LEMMA FiniteServers ==
    /\ IsFiniteSet(Servers) /\ IsFiniteSet(Days)
    /\ IsFiniteSet(Pairs) /\ Pairs \subseteq Servers \X Servers
    /\ Servers \subseteq Nat /\ Days \subseteq Nat /\ 1 \in Days
    /\ IsFiniteSet(Nodes) /\ Nodes \subseteq Servers
<1>1. ServerCount \in Int /\ MaxDay \in Int /\ MaxDay >= 1
  BY ConstantsAssumption
<1>2. IsFiniteSet(Servers) /\ IsFiniteSet(Days)
  BY <1>1, FS_Interval DEF Servers, Days
<1>3. IsFiniteSet(Servers \X Servers)
  BY <1>2, FS_Product
<1>4. Pairs \subseteq Servers \X Servers /\ Nodes \subseteq Servers
  BY DEF Pairs, Nodes
<1>5. IsFiniteSet(Pairs) /\ IsFiniteSet(Nodes)
  BY <1>2, <1>3, <1>4, FS_Subset
<1>6. Servers \subseteq Nat /\ Days \subseteq Nat /\ 1 \in Days
  BY <1>1 DEF Servers, Days
<1>7. QED
  BY <1>2, <1>4, <1>5, <1>6

\* A pair is two servers; so is its opposite.
LEMMA PairFacts ==
    ASSUME NEW p \in Pairs
    PROVE  /\ p[1] \in Servers /\ p[2] \in Servers /\ p[1] # p[2]
           /\ p = <<p[1], p[2]>> /\ Opposite(p) \in Pairs
BY DEF Pairs, Opposite

\* No incident is a number of open incidents of each kind.
LEMMA NoneIsOpen == None \in Open
BY DEF None, Open

\* The sum over days of what was found.
LEMMA TotalFacts ==
    ASSUME ahead \in [Days -> Counts]
    PROVE  /\ Total \in Counts
           /\ \A p \in Pairs : Total[p] > 0 => \E d \in Days : ahead[d][p] > 0
           /\ \A p \in Pairs : \A d \in Days : ahead[d][p] <= Total[p]
<1>1. IsFiniteSet(Days)
  BY FiniteServers
<1>2. ASSUME NEW p \in Pairs
      PROVE  /\ Total[p] \in Nat
             /\ Total[p] > 0 => \E d \in Days : ahead[d][p] > 0
             /\ \A d \in Days : ahead[d][p] <= Total[p]
  <2> DEFINE f == [d \in Days |-> ahead[d][p]]
  <2>1. \A d \in Days : f[d] \in Nat /\ f[d] = ahead[d][p]
    BY DEF Counts
  <2>2. Total[p] = SumOver(f, Days)
    BY DEF Total
  <2> HIDE DEF f
  <2>3. /\ SumOver(f, Days) \in Nat
        /\ \A d \in Days : f[d] <= SumOver(f, Days)
        /\ (\A d \in Days : f[d] = 0) => SumOver(f, Days) = 0
    BY <1>1, <2>1, SumFacts
  <2>4. Total[p] > 0 => \E d \in Days : f[d] > 0
    <3> SUFFICES ASSUME Total[p] > 0, ~ \E d \in Days : f[d] > 0 PROVE FALSE
      OBVIOUS
    <3>1. \A d \in Days : f[d] = 0
      BY <2>1
    <3>2. QED BY <2>2, <2>3, <3>1
  <2>5. QED BY <2>1, <2>2, <2>3, <2>4
<1>3. Total \in Counts
  <2>1. Total = [p \in Pairs |-> Total[p]]
    BY DEF Total
  <2>2. QED BY <1>2, <2>1 DEF Counts
<1>4. QED
  BY <1>2, <1>3

\* The days on which anything was found have a greatest one.
LEMMA FoundDays ==
    ASSUME NEW S
    PROVE  /\ Found(S) \in SUBSET Int /\ IsFiniteSet(Found(S)) /\ Found(S) # {}
           /\ Max(Found(S)) \in Nat
           /\ Max({1} \cup Found(S)) \in Days
<1>0. (\A d \in Days : d \in Nat) /\ 1 \in Days
  BY FiniteServers
<1>1. Found(S) \subseteq {0} \cup Days /\ 0 \in Found(S)
  BY DEF Found
<1>8. \A x \in Found(S) : x \in Int
  <2> SUFFICES ASSUME NEW x \in Found(S) PROVE x \in Int
    OBVIOUS
  <2>1. x = 0 \/ x \in Days
    BY <1>1
  <2>2. QED BY <1>0, <2>1
<1>2. IsFiniteSet({0} \cup Days) /\ IsFiniteSet({1} \cup Days)
  BY FiniteServers, FS_Singleton, FS_Union
<1>3. IsFiniteSet(Found(S))
  BY <1>1, <1>2, FS_Subset
<1>4. Max(Found(S)) \in Found(S)
  BY <1>1, <1>3, FiniteServers, MaxFacts
<1>5. IsFiniteSet({1} \cup Found(S))
  BY <1>3, FS_Singleton, FS_Union
<1>6. Max({1} \cup Found(S)) \in {1} \cup Found(S) /\ 1 <= Max({1} \cup Found(S))
  <2> DEFINE F == {1} \cup Found(S)
  <2>1. F \in SUBSET Int /\ 1 \in F
    <3>1. \A x \in F : x \in Int
      BY <1>1, FiniteServers
    <3>2. QED BY <3>1
  <2>2. IsFiniteSet(F)
    BY <1>5
  <2>3. Max(F) \in F /\ 1 <= Max(F)
    <3> HIDE DEF F
    <3> QED BY <2>1, <2>2, MaxFacts
  <2>4. QED BY <2>3
<1>7. Max({1} \cup Found(S)) \in Days /\ Max(Found(S)) \in Nat
  <2>1. Max({1} \cup Found(S)) # 0
    BY <1>6
  <2>2. Max(Found(S)) \in {0} \cup Days /\ Max({1} \cup Found(S)) \in {0, 1} \cup Days
    BY <1>1, <1>4, <1>6
  <2>3. Max({1} \cup Found(S)) \in Days
    BY <1>0, <2>1, <2>2
  <2>4. Max(Found(S)) = 0 \/ Max(Found(S)) \in Days
    BY <2>2
  <2>5. Max(Found(S)) \in Nat
    BY <1>0, <2>4
  <2>6. QED BY <2>3, <2>5
<1>9. QED
  BY <1>1, <1>3, <1>7, <1>8

\* What campaigns found before is found of servers that were asked.
LEMMA InitKInv == Init => KInv
<1> SUFFICES ASSUME Init PROVE KInv
  OBVIOUS
<1>1. ahead \in [Days -> Counts]
  BY InstanceAssumption DEF Init, Counts
<1>2. Total \in Counts
  BY <1>1, TotalFacts
<1>3. ASSUME NEW s \in Servers
      PROVE  /\ targeted[s] \in Nat
             /\ \A p \in Pairs : Touches(p, s) /\ Total[p] > 0 => targeted[s] > 0
  <2> DEFINE P == {p \in Pairs : Touches(p, s)}
  <2>1. IsFiniteSet(P) /\ \A p \in P : Total[p] \in Nat
    BY <1>2, FiniteServers, FS_Subset DEF Counts
  <2>2. targeted[s] = SumOver(Total, P)
    BY DEF Init
  <2>3. SumOver(Total, P) \in Nat /\ \A p \in P : Total[p] <= SumOver(Total, P)
    <3> HIDE DEF P
    <3> QED BY <2>1, SumFacts
  <2>4. ASSUME NEW p \in Pairs, Touches(p, s), Total[p] > 0 PROVE targeted[s] > 0
    <3>1. Total[p] \in Nat /\ Total[p] <= SumOver(Total, P)
      BY <2>1, <2>3, <2>4
    <3> HIDE DEF P
    <3>2. QED BY <2>2, <2>3, <2>4, <3>1
  <2>5. targeted[s] \in Nat
    BY <2>2, <2>3
  <2>6. QED BY <2>4, <2>5
<1>4. targeted \in [Servers -> Nat] /\ visible \in [Servers -> Nat]
  <2>1. targeted = [s \in Servers |-> targeted[s]] /\ visible = targeted
    BY DEF Init
  <2>2. QED BY <1>3, <2>1
<1>5. latest \in [Servers -> Nat] /\ day \in Days
  BY FoundDays DEF Init
<1>6. comparable \in Nat
  <2>1. \A p \in Pairs : Total[p] \in Nat
    BY <1>2 DEF Counts
  <2>2. QED BY <2>1, FiniteServers, SumFacts DEF Init
<1>7. incidents \in [Servers -> Open] /\ \A s \in Servers : incidents[s] = None
  BY NoneIsOpen DEF Init
<1>8. FoundIsAsked
  <2> SUFFICES ASSUME NEW d \in Days, NEW p \in Pairs, ahead[d][p] > 0
               PROVE  targeted[p[1]] > 0 /\ targeted[p[2]] > 0
    BY DEF FoundIsAsked
  <2>1. ahead[d][p] \in Nat /\ Total[p] \in Nat /\ ahead[d][p] <= Total[p]
    BY <1>1, <1>2, TotalFacts DEF Counts
  <2>2. Total[p] > 0
    BY <2>1
  <2>3. p[1] \in Servers /\ p[2] \in Servers /\ Touches(p, p[1]) /\ Touches(p, p[2])
    BY PairFacts DEF Touches
  <2>4. QED BY <1>3, <2>2, <2>3
<1>9. QED
  BY <1>1, <1>4, <1>5, <1>6, <1>7, <1>8 DEF KInv, KnownType, IncidentsAreAsked, Init

\* Everyone who was asked remains so, and whatever was found remains found.
Grows ==
    /\ \A s \in Servers : targeted[s] > 0 => targeted'[s] > 0

\* Adding to the counts of some servers.
LEMMA PlusType ==
    ASSUME NEW f \in [Servers -> Nat], NEW S, NEW n \in Nat
    PROVE  /\ Plus(f, S, n) \in [Servers -> Nat]
           /\ \A s \in Servers : Plus(f, S, n)[s] = IF s \in S THEN f[s] + n ELSE f[s]
BY DEF Plus

\* A campaign asks both servers before it finds anything of them.
LEMMA MeasureKInv ==
    ASSUME KInv, NEW c \in Campaigns, Measure(c[1], c[2], c[3], c[4], c[5])
    PROVE  KInv' /\ Grows
<1> DEFINE a == c[1]
           b == c[2]
           articles == c[3] + c[4] + c[5]
<1>1. a \in Servers /\ b \in Servers /\ a # b /\ c[3] \in Nat /\ c[4] \in Nat /\ c[5] \in Nat
  BY InstanceAssumption
<1>2. articles \in Nat /\ (c[3] > 0 => articles > 0) /\ (c[4] > 0 => articles > 0)
  BY <1>1
<1>3. /\ <<a, b>> \in Pairs /\ <<b, a>> \in Pairs /\ <<a, b>> # <<b, a>>
  BY <1>1 DEF Pairs
<1>4. /\ targeted' = Plus(targeted, {a, b}, articles)
      /\ visible' = Plus(visible, {a, b}, articles)
      /\ latest' = [latest EXCEPT ![a] = day, ![b] = day]
      /\ comparable' = comparable + articles
      /\ changes' = changes + 1
      /\ day' = day /\ incidents' = incidents
  BY DEF Measure, Change
<1>5. /\ day \in Days /\ ahead \in [Days -> Counts] /\ targeted \in [Servers -> Nat]
      /\ visible \in [Servers -> Nat] /\ latest \in [Servers -> Nat] /\ comparable \in Nat
      /\ incidents \in [Servers -> Open] /\ changes \in Nat
  BY DEF KInv, KnownType
<1> DEFINE today == [[ahead[day] EXCEPT ![<<a, b>>] = @ + c[3]] EXCEPT ![<<b, a>>] = @ + c[4]]
<1>6. ahead' = [ahead EXCEPT ![day] = today]
  <2>1. ahead' = [ahead EXCEPT ![day][<<a, b>>] = @ + c[3], ![day][<<b, a>>] = @ + c[4]]
    BY DEF Measure
  <2>2. ahead[day] \in Counts
    BY <1>5
  <2> DEFINE p == <<a, b>>
             q == <<b, a>>
  <2>3. p # q
    BY <1>3
  <2>4. ahead' = [ahead EXCEPT ![day][p] = @ + c[3], ![day][q] = @ + c[4]]
    BY <2>1
  <2> HIDE DEF a, b, p, q
  <2>5. ahead' = [ahead EXCEPT ![day] = [[ahead[day] EXCEPT ![p] = @ + c[3]] EXCEPT ![q] = @ + c[4]]]
    BY <1>5, <2>2, <2>3, <2>4
  <2> USE DEF p, q
  <2>6. QED BY <2>5 DEF a, b
<1>7. /\ today \in Counts
      /\ \A p \in Pairs : today[p] > 0 =>
            ahead[day][p] > 0 \/ (p \in {<<a, b>>, <<b, a>>} /\ articles > 0)
  <2>1. ahead[day] \in [Pairs -> Nat]
    BY <1>5 DEF Counts
  <2> HIDE DEF a, b, articles
  <2>2. QED BY <1>1, <1>2, <1>3, <2>1 DEF Counts
<1> HIDE DEF a, b, articles, today
<1>8. /\ targeted' \in [Servers -> Nat] /\ visible' \in [Servers -> Nat]
      /\ \A s \in Servers : targeted'[s] = IF s \in {a, b} THEN targeted[s] + articles ELSE targeted[s]
  BY <1>2, <1>4, <1>5, PlusType
<1>9. \A s \in Servers : /\ targeted[s] \in Nat /\ targeted'[s] >= targeted[s]
                         /\ s \in {a, b} /\ articles > 0 => targeted'[s] > 0
  BY <1>2, <1>5, <1>8
<1>10. KnownType'
  <2>1. day \in Nat
    BY <1>5, FiniteServers
  <2>2. latest' \in [Servers -> Nat]
    BY <1>1, <1>4, <1>5, <2>1
  <2>3. ahead' \in [Days -> Counts]
    BY <1>5, <1>6, <1>7
  <2>4. comparable' \in Nat /\ changes' \in Nat
    BY <1>2, <1>4, <1>5
  <2>5. QED BY <1>4, <1>5, <1>8, <2>2, <2>3, <2>4 DEF KnownType
<1>11. FoundIsAsked'
  <2> SUFFICES ASSUME NEW d \in Days, NEW p \in Pairs, ahead'[d][p] > 0
               PROVE  targeted'[p[1]] > 0 /\ targeted'[p[2]] > 0
    BY DEF FoundIsAsked
  <2>1. p[1] \in Servers /\ p[2] \in Servers
    BY PairFacts
  <2>2. ahead[d][p] > 0 \/ (p \in {<<a, b>>, <<b, a>>} /\ articles > 0)
    BY <1>5, <1>6, <1>7
  <2>3. CASE ahead[d][p] > 0
    <3>1. targeted[p[1]] > 0 /\ targeted[p[2]] > 0
      BY <2>3 DEF KInv, FoundIsAsked
    <3>2. \A s \in Servers : targeted[s] > 0 => targeted'[s] > 0
      BY <1>8, <1>9
    <3>3. QED BY <2>1, <3>1, <3>2
  <2>4. CASE p \in {<<a, b>>, <<b, a>>} /\ articles > 0
    <3>1. p[1] \in {a, b} /\ p[2] \in {a, b}
      BY <2>4
    <3>2. QED BY <1>9, <2>1, <2>4, <3>1
  <2>5. QED BY <2>2, <2>3, <2>4
<1>12. Grows
  BY <1>8, <1>9 DEF Grows
<1>13. IncidentsAreAsked'
  <2>1. \A s \in Servers : targeted'[s] = 0 => targeted[s] = 0
    BY <1>8, <1>9
  <2>2. QED BY <1>4, <2>1 DEF IncidentsAreAsked, KInv
<1>14. QED
  BY <1>10, <1>11, <1>12, <1>13 DEF KInv

\* A server that misses an article was asked for it.
LEMMA MissKInv ==
    ASSUME KInv, NEW p \in Missing, Miss(p[1], p[2])
    PROVE  KInv' /\ Grows
<1>1. p[1] \in Servers /\ p[2] \in Servers
  BY InstanceAssumption, PairFacts
<1>2. /\ day \in Days /\ ahead \in [Days -> Counts] /\ targeted \in [Servers -> Nat]
      /\ visible \in [Servers -> Nat] /\ latest \in [Servers -> Nat] /\ comparable \in Nat
      /\ incidents \in [Servers -> Open] /\ changes \in Nat
      /\ FoundIsAsked /\ IncidentsAreAsked
  BY DEF KInv, KnownType
<1>3. /\ targeted' = Plus(targeted, {p[1], p[2]}, 1)
      /\ visible' = Plus(visible, {p[1]}, 1)
      /\ latest' = [latest EXCEPT ![p[1]] = day]
      /\ changes' = changes + 1
      /\ UNCHANGED <<day, ahead, comparable, incidents>>
  BY DEF Miss, Change
<1>4. /\ targeted' \in [Servers -> Nat] /\ visible' \in [Servers -> Nat]
      /\ \A s \in Servers : targeted[s] \in Nat /\ targeted'[s] >= targeted[s]
  BY <1>2, <1>3, PlusType
<1>5. day \in Nat
  BY <1>2, FiniteServers
<1>6. KnownType'
  <2>1. latest' \in [Servers -> Nat] /\ changes' \in Nat
    BY <1>1, <1>2, <1>3, <1>5
  <2>2. QED BY <1>2, <1>3, <1>4, <2>1 DEF KnownType
<1>7. Grows /\ \A s \in Servers : targeted'[s] = 0 => targeted[s] = 0
  BY <1>4 DEF Grows
<1>8. FoundIsAsked'
  BY <1>2, <1>3, <1>7, PairFacts DEF FoundIsAsked, Grows
<1>9. IncidentsAreAsked'
  BY <1>2, <1>3, <1>7 DEF IncidentsAreAsked
<1>10. QED
  BY <1>6, <1>7, <1>8, <1>9 DEF KInv

\* Whatever changes what is known.
LEMMA LearnKInv ==
    ASSUME KInv, Learn
    PROVE  KInv' /\ Grows
<1>1. CASE \E c \in Campaigns : Measure(c[1], c[2], c[3], c[4], c[5])
  BY <1>1, MeasureKInv
<1>2. CASE \E p \in Missing : Miss(p[1], p[2])
  BY <1>2, MissKInv
<1>3. CASE NextDay
  <2>0. day < MaxDay /\ day' = day + 1 /\ changes' = changes + 1 /\ day \in 1 .. MaxDay /\ changes \in Nat
    BY <1>3 DEF NextDay, Change, KInv, KnownType, Days
  <2>1. day' \in Days /\ changes' \in Nat
    BY <2>0, ConstantsAssumption DEF Days
  <2>2. QED
    BY <1>3, <2>1 DEF NextDay, KInv, KnownType, FoundIsAsked, IncidentsAreAsked, Grows
<1>4. CASE \E o \in OpenIncidents : ChangeIncidents(o[1], o[2])
  <2>1. PICK o \in OpenIncidents : ChangeIncidents(o[1], o[2])
    BY <1>4
  <2>2. o[1] \in Servers /\ o[2] \in Open
    BY InstanceAssumption DEF Open
  <2>3. incidents' \in [Servers -> Open] /\ changes' \in Nat
    BY <2>1, <2>2 DEF ChangeIncidents, Change, KInv, KnownType
  <2>4. IncidentsAreAsked'
    BY <2>1, <2>2 DEF ChangeIncidents, KInv, KnownType, IncidentsAreAsked
  <2>5. QED
    BY <2>1, <2>3, <2>4 DEF ChangeIncidents, KInv, KnownType, FoundIsAsked, Grows
<1>5. QED
  BY <1>1, <1>2, <1>3, <1>4 DEF Learn

\* KInv is about nothing but what is known.
LEMMA SameKInv ==
    ASSUME KInv, UNCHANGED known
    PROVE  KInv' /\ Grows
BY DEF KInv, KnownType, FoundIsAsked, IncidentsAreAsked, known, Grows

-----------------------------------------------------------------------------
(* Links, parts and components.                                            *)

\* No link leads from a node to something else.
Within(nodes, links) == \A e \in links : e.from \in nodes <=> e.to \in nodes

\* A part is closed if and only if no link leaves it.
LEMMA ClosedOrLeft ==
    ASSUME NEW nodes, NEW links, Within(nodes, links), NEW X \in SUBSET nodes
    PROVE  Closed(nodes, links, X) <=> Leaving(links, X) = {}
<1>1. ASSUME Closed(nodes, links, X), NEW e \in Leaving(links, X) PROVE FALSE
  <2>1. e \in links /\ (e.from \in X) # (e.to \in X)
    BY <1>1 DEF Leaving
  <2>2. e.from \in nodes /\ e.to \in nodes
    BY <2>1 DEF Within
  <2>3. Linked(links, e.from, e.to) /\ Linked(links, e.to, e.from)
    BY <2>1 DEF Linked
  <2>4. QED
    BY <1>1, <2>1, <2>2, <2>3 DEF Closed
<1>2. ASSUME Leaving(links, X) = {} PROVE Closed(nodes, links, X)
  <2> SUFFICES ASSUME NEW r \in X, NEW t \in nodes, Linked(links, r, t) PROVE t \in X
    BY DEF Closed
  <2>1. PICK e \in links : {e.from, e.to} = {r, t}
    BY DEF Linked
  <2>2. (e.from \in X) <=> (e.to \in X)
    BY <1>2 DEF Leaving
  <2>3. (e.from = r /\ e.to = t) \/ (e.from = t /\ e.to = r)
    BY <2>1
  <2>4. QED
    BY <2>2, <2>3
<1>3. QED
  BY <1>1, <1>2

\* A part of a component that is closed is nothing or all of it.
LEMMA NoClosedPart ==
    ASSUME NEW nodes, IsFiniteSet(nodes), NEW links, NEW c \in Components(nodes, links),
           NEW X \in SUBSET c, Closed(nodes, links, X)
    PROVE  X = {} \/ X = c
<1>1. c \subseteq nodes /\ \A s \in c : c = Reached(nodes, links, s)
  BY ComponentsPartition
<1>2. ASSUME NEW s \in X PROVE c \subseteq X
  <2>1. s \in nodes /\ c = Reached(nodes, links, s)
    BY <1>1
  <2>2. QED
    BY <1>2, <2>1, ReachedIsLeast
<1>3. QED
  BY <1>2

\* Components are parts that are closed, and not empty.
LEMMA ComponentsClosed ==
    ASSUME NEW nodes, IsFiniteSet(nodes), NEW links, NEW c \in Components(nodes, links)
    PROVE  c # {} /\ c \subseteq nodes /\ IsFiniteSet(c) /\ Closed(nodes, links, c)
<1>1. PICK s \in nodes : c = Reached(nodes, links, s)
  BY DEF Components
<1>2. s \in c /\ c \subseteq nodes /\ Closed(nodes, links, c)
  BY <1>1, ReachedIsClosed
<1>3. QED
  BY <1>2, FS_Subset

-----------------------------------------------------------------------------
(* The graph.                                                              *)

Edge == [from : Servers, to : Servers, conf : 0 .. 1000, samples : Nat]

\* Division and its bounds.
LEMMA Division ==
    ASSUME NEW n \in Nat, NEW d \in Nat \ {0}
    PROVE  /\ n \div d \in Nat
           /\ \A q \in Nat : n < d * (q + 1) => n \div d <= q
           /\ \A q \in Nat : d * q <= n => q <= n \div d
OBVIOUS

\* Rounding keeps to bounds that are whole.
LEMMA RoundedFacts ==
    ASSUME NEW n \in Nat, NEW d \in Nat \ {0}
    PROVE  /\ Rounded(n, d) \in Nat
           /\ \A q \in Nat : n <= d * q => Rounded(n, d) <= q
           /\ \A q \in Nat : d * q <= n => q <= Rounded(n, d)
<1>1. 2 * n + d \in Nat /\ 2 * d \in Nat \ {0}
  OBVIOUS
<1>2. Rounded(n, d) \in Nat
  BY <1>1, Division DEF Rounded
<1>3. ASSUME NEW q \in Nat, n <= d * q PROVE Rounded(n, d) <= q
  <2>1. 2 * n + d < (2 * d) * (q + 1)
    BY <1>3
  <2>2. QED BY <1>1, <2>1, Division DEF Rounded
<1>4. ASSUME NEW q \in Nat, d * q <= n PROVE q <= Rounded(n, d)
  <2>1. (2 * d) * q <= 2 * n + d
    BY <1>4
  <2>2. QED BY <1>1, <2>1, Division DEF Rounded
<1>5. QED
  BY <1>2, <1>3, <1>4

\* Edges lead from one server to another that was found with it.
LEMMA GraphFacts ==
    ASSUME NEW n \in Counts
    PROVE  /\ Graph(n) \subseteq Edge
           /\ IsFiniteSet(Graph(n))
           /\ \A e \in Graph(n) :
                 /\ <<e.from, e.to>> \in Pairs
                 /\ n[<<e.from, e.to>>] > 0 \/ n[<<e.to, e.from>>] > 0
<1> DEFINE E(r) == [from |-> r.from, to |-> r.to, conf |-> Confidence(r), samples |-> Directional(r)]
           F == [p \in Pairs |-> E(PairCount(n, p))]
           R == {F[p] : p \in Pairs}
<1>1. ASSUME NEW p \in Pairs, IsEdge(PairCount(n, p))
      PROVE  /\ F[p] \in Edge /\ F[p].from = p[1] /\ F[p].to = p[2]
             /\ n[p] > 0 \/ n[Opposite(p)] > 0
  <2> DEFINE r == PairCount(n, p)
  <2>1. /\ r.from = p[1] /\ r.to = p[2] /\ r.first = n[p] /\ r.second = n[Opposite(p)]
        /\ p[1] \in Servers /\ p[2] \in Servers
        /\ r.first \in Nat /\ r.second \in Nat
    BY PairFacts DEF PairCount, Counts
  <2>2. Directional(r) = r.first + r.second /\ Directional(r) >= MinSamples
    BY <1>1 DEF Directional, IsEdge
  <2> HIDE DEF r
  <2>3. Directional(r) \in Nat \ {0} /\ r.first <= Directional(r)
    BY <2>1, <2>2, ConstantsAssumption
  <2>4. 1000 * r.first \in Nat /\ 1000 * r.first <= Directional(r) * 1000
    BY <2>1, <2>3
  <2>5. Confidence(r) \in 0 .. 1000
    <3> DEFINE a == 1000 * r.first
               d == Directional(r)
    <3>1. a \in Nat /\ d \in Nat \ {0} /\ a <= d * 1000
      BY <2>3, <2>4
    <3>2. Confidence(r) = Rounded(a, d)
      BY DEF Confidence, Thousandths
    <3> HIDE DEF a, d
    <3>3. Rounded(a, d) \in Nat /\ Rounded(a, d) <= 1000
      BY <3>1, RoundedFacts
    <3>4. QED BY <3>2, <3>3
  <2>6. n[p] > 0 \/ n[Opposite(p)] > 0
    BY <2>1, <2>2, <2>3
  <2>7. F[p] = E(r)
    BY DEF r
  <2>8. QED
    BY <2>1, <2>3, <2>5, <2>6, <2>7 DEF Edge
<1>2. ASSUME NEW e \in Graph(n) PROVE \E p \in Pairs : IsEdge(PairCount(n, p)) /\ e = F[p]
  BY DEF Graph
<1>3. IsFiniteSet(R)
  <2>1. F \in Surjection(Pairs, R)
    <3> HIDE DEF F
    <3>1. F = [p \in Pairs |-> F[p]]
      BY DEF F
    <3>2. QED BY <3>1 DEF Surjection
  <2>2. QED
    <3> HIDE DEF F, R
    <3> QED BY <2>1, FiniteServers, FS_Surjection
<1>4. Graph(n) \subseteq R
  <2> HIDE DEF F
  <2> QED BY <1>2
<1>5. IsFiniteSet(Graph(n))
  <2> HIDE DEF R
  <2> QED BY <1>3, <1>4, FS_Subset
<1>6. ASSUME NEW e \in Graph(n)
      PROVE  /\ e \in Edge /\ <<e.from, e.to>> \in Pairs
             /\ n[<<e.from, e.to>>] > 0 \/ n[<<e.to, e.from>>] > 0
  <2>1. PICK p \in Pairs : IsEdge(PairCount(n, p)) /\ e = F[p]
    BY <1>2
  <2> HIDE DEF F
  <2>2. /\ e \in Edge /\ e.from = p[1] /\ e.to = p[2]
        /\ n[p] > 0 \/ n[Opposite(p)] > 0
    BY <1>1, <2>1
  <2>3. p = <<e.from, e.to>> /\ Opposite(p) = <<e.to, e.from>>
    BY <2>2, PairFacts DEF Opposite
  <2>4. QED
    BY <2>2, <2>3
<1>7. QED
  BY <1>5, <1>6

\* The ends of an edge were asked for articles.
LEMMA GraphEnds ==
    ASSUME KInv
    PROVE  /\ graph \subseteq Edge /\ IsFiniteSet(graph)
           /\ \A e \in graph : e.from \in Nodes /\ e.to \in Nodes /\ e.from # e.to
<1>1. ahead \in [Days -> Counts] /\ FoundIsAsked
  BY DEF KInv, KnownType
<1>2. Total \in Counts
  BY <1>1, TotalFacts
<1>3. graph \subseteq Edge /\ IsFiniteSet(graph)
  BY <1>2, GraphFacts DEF graph
<1>4. ASSUME NEW p \in Pairs, Total[p] > 0 PROVE p[1] \in Nodes /\ p[2] \in Nodes
  BY <1>1, <1>4, TotalFacts, PairFacts DEF FoundIsAsked, Nodes
<1>5. ASSUME NEW e \in graph PROVE e.from \in Nodes /\ e.to \in Nodes /\ e.from # e.to
  <2> DEFINE p == <<e.from, e.to>>
  <2>1. p \in Pairs /\ (Total[p] > 0 \/ Total[<<e.to, e.from>>] > 0)
    BY <1>2, GraphFacts DEF graph
  <2>2. <<e.to, e.from>> \in Pairs /\ e.from # e.to
    BY <2>1 DEF Pairs
  <2>3. CASE Total[p] > 0
    BY <1>4, <2>1, <2>2, <2>3
  <2>4. CASE Total[<<e.to, e.from>>] > 0
    BY <1>4, <2>2, <2>4
  <2>5. QED BY <2>1, <2>3, <2>4
<1>6. QED
  BY <1>3, <1>5

-----------------------------------------------------------------------------
(* Communities.                                                            *)

\* In every state that KInv admits communities hang together.
LEMMA HangTogether == KInv => CommunitiesHangTogether
<1> SUFFICES ASSUME KInv PROVE CommunitiesHangTogether
  OBVIOUS
<1> DEFINE strong == Strong(graph)
           cs == Components(Nodes, strong)
<1>1. IsFiniteSet(Nodes)
  BY FiniteServers
<1>2. Within(Nodes, strong)
  BY GraphEnds DEF Within, Strong
<1>3. /\ UNION cs = Nodes
      /\ \A c, d \in cs : c # d => c \cap d = {}
  <2> HIDE DEF strong
  <2> QED BY <1>1, ComponentsPartition
<1>4. ASSUME NEW c \in cs
      PROVE  /\ Leaving(strong, c) = {}
             /\ \A part \in (SUBSET c) \ {{}, c} : Leaving(strong, part) # {}
  <2> HIDE DEF strong
  <2>1. c \in SUBSET Nodes /\ Closed(Nodes, strong, c)
    BY <1>1, ComponentsClosed
  <2>2. Leaving(strong, c) = {}
    BY <1>2, <2>1, ClosedOrLeft
  <2>3. ASSUME NEW part \in (SUBSET c) \ {{}, c}, Leaving(strong, part) = {} PROVE FALSE
    <3>1. part \in SUBSET Nodes /\ part \in SUBSET c
      BY <2>1
    <3>2. Closed(Nodes, strong, part)
      BY <1>2, <2>3, <3>1, ClosedOrLeft
    <3>3. QED BY <1>1, <2>3, <3>1, <3>2, NoClosedPart
  <2>4. QED BY <2>2, <2>3
<1>5. QED
  <2> HIDE DEF strong, cs
  <2>1. Communities(Nodes, graph) = cs
    BY DEF Communities, strong, cs
  <2>2. Strong(graph) = strong
    BY DEF strong
  <2>3. QED BY <1>3, <1>4, <2>1, <2>2 DEF CommunitiesHangTogether

-----------------------------------------------------------------------------
(* History.                                                                *)

\* The edges of a day are pairs, and none is there outside of the window.
LEMMA EdgesOnPairs ==
    ASSUME KInv, NEW d
    PROVE  EdgesOn(d) \in SUBSET Pairs /\ (d \notin Shown => EdgesOn(d) = {})
<1>1. CASE d \in Shown
  <2>1. ahead[d] \in Counts
    BY <1>1 DEF Shown, KInv, KnownType
  <2>2. \A e \in Snapshot(d) : <<e.from, e.to>> \in Pairs
    BY <1>1, <2>1, GraphFacts DEF Snapshot
  <2>3. QED BY <1>1, <2>2 DEF EdgesOn
<1>2. CASE d \notin Shown
  BY <1>2 DEF EdgesOn, Snapshot
<1>3. QED BY <1>1, <1>2

\* The day's events lead from the edges of the day before to those of the day.
LEMMA EventsStep ==
    ASSUME NEW n, n \in Shown
    PROVE  (EdgesOn(n - 1) \ Disappeared(n)) \cup Appeared(n) = EdgesOn(n)
BY DEF Disappeared, Appeared

\* By induction on the day, events leave the edges of that day.
LEMMA ReplayedIsEdges ==
    ASSUME KInv, NEW d \in Nat
    PROVE  Replayed(d) = EdgesOn(d)
<1> DEFINE Def(h) == [n \in 0 .. d |-> IF n \notin Shown THEN {}
                                       ELSE (h[n - 1] \ Disappeared(n)) \cup Appeared(n)]
           after == CHOOSE h : h = Def(h)
           f == [n \in 0 .. d |-> EdgesOn(n)]
<1>1. 0 \notin Shown
  BY FiniteServers DEF Shown, Days
<1>2. f = Def(f)
  <2> SUFFICES ASSUME NEW n \in 0 .. d PROVE f[n] = Def(f)[n]
    OBVIOUS
  <2>1. CASE n \notin Shown
    BY <2>1, EdgesOnPairs
  <2>2. CASE n \in Shown
    <3>1. n - 1 \in 0 .. d
      BY <1>1, <2>2
    <3>2. f[n] = EdgesOn(n) /\ f[n - 1] = EdgesOn(n - 1)
      BY <3>1
    <3>3. Def(f)[n] = (f[n - 1] \ Disappeared(n)) \cup Appeared(n)
      BY <2>2
    <3> HIDE DEF f, Def
    <3>4. QED BY <2>2, <3>2, <3>3, EventsStep
  <2>3. QED BY <2>1, <2>2
<1>3. after = Def(after)
  <2> HIDE DEF Def
  <2> QED BY <1>2
<1> DEFINE T == {n \in 0 .. d : after[n] = EdgesOn(n)}
<1>4. ASSUME NEW n \in 0 .. d
      PROVE  after[n] = IF n \notin Shown THEN {}
                        ELSE (after[n - 1] \ Disappeared(n)) \cup Appeared(n)
  <2> HIDE DEF after
  <2>1. Def(after)[n] = IF n \notin Shown THEN {}
                        ELSE (after[n - 1] \ Disappeared(n)) \cup Appeared(n)
    OBVIOUS
  <2> HIDE DEF Def
  <2>2. QED BY <1>3, <2>1
<1> HIDE DEF after
<1>5. 0 \in T
  <2>1. EdgesOn(0) = {}
    BY <1>1, EdgesOnPairs
  <2>2. 0 \in 0 .. d
    OBVIOUS
  <2>3. after[0] = IF 0 \notin Shown THEN {}
                   ELSE (after[0 - 1] \ Disappeared(0)) \cup Appeared(0)
    BY <1>4, <2>2
  <2>4. after[0] = {}
    BY <1>1, <2>3
  <2>5. QED BY <2>1, <2>2, <2>4
<1>6. ASSUME NEW n \in 1 .. d, n - 1 \in T PROVE n \in T
  <2>1. n \in 0 .. d /\ after[n - 1] = EdgesOn(n - 1)
    BY <1>6
  <2>2. CASE n \notin Shown
    BY <1>4, <2>1, <2>2, EdgesOnPairs
  <2>3. CASE n \in Shown
    BY <1>4, <2>1, <2>3, EventsStep
  <2>4. QED BY <2>2, <2>3
<1>7. after[d] = EdgesOn(d)
  <2>1. 0 .. d \subseteq T
    <3> HIDE DEF T
    <3> QED BY <1>5, <1>6, Induction
  <2>2. QED BY <2>1
<1>8. Replayed(d) = after[d]
  BY Zenon DEF Replayed, after
<1>9. QED BY <1>7, <1>8

\* In every state that KInv admits the events replay the history.
LEMMA Replays == KInv => EventsReplay
<1> SUFFICES ASSUME KInv, NEW d \in Shown
             PROVE  /\ Replayed(d) = EdgesOn(d)
                    /\ d - 1 \in Shown => /\ Appeared(d) \cap Replayed(d - 1) = {}
                                          /\ Disappeared(d) \subseteq Replayed(d - 1)
  BY DEF EventsReplay
<1>1. d \in Nat /\ d - 1 \in Nat
  BY ConstantsAssumption DEF Shown, Days
<1>2. Replayed(d) = EdgesOn(d) /\ Replayed(d - 1) = EdgesOn(d - 1)
  BY <1>1, ReplayedIsEdges
<1>3. QED
  BY <1>2 DEF Appeared, Disappeared

\* Only the signal of a reversal is critical.
LEMMA CriticalIsReversal ==
    ASSUME NEW d, NEW x \in SignalsOn(d), x.severity = "critical"
    PROVE  \E p \in Reversed(d) : x.server = p[1]
BY DEF SignalsOn, Signal

\* Signals are of the latest day that has any, hence nothing disappears after it.
LEMMA ReversedSignals == KInv => CriticalMeansReversed
<1> SUFFICES ASSUME KInv, NEW x \in Signals, x.severity = "critical"
             PROVE  \E d \in Shown, t \in Servers :
                       /\ <<x.server, t>> \in Replayed(d - 1) /\ <<t, x.server>> \in Replayed(d)
                       /\ \A later \in Shown : later > d => Disappeared(later) = {}
  BY DEF CriticalMeansReversed
<1> DEFINE d == Max(Dated)
<1>1. Dated # {} /\ x \in SignalsOn(d)
  BY DEF Signals
<1>2. d \in Dated /\ \A later \in Dated : later <= d
  <2>1. Dated \subseteq Days
    BY DEF Dated, Shown
  <2>2. IsFiniteSet(Dated) /\ Dated \in SUBSET Int
    <3>1. \A y \in Days : y \in Int
      BY FiniteServers
    <3>2. QED BY <2>1, <3>1, FiniteServers, FS_Subset
  <2>3. QED BY <1>1, <2>2, MaxFacts
<1> HIDE DEF d
<1>3. d \in Shown
  BY <1>2 DEF Dated
<1>4. d \in Nat /\ d - 1 \in Nat /\ \A later \in Shown : later \in Nat
  BY <1>3, ConstantsAssumption DEF Shown, Days
<1>5. PICK p \in Reversed(d) : x.server = p[1]
  BY <1>1, CriticalIsReversal
<1>6. p \in EdgesOn(d - 1) /\ Opposite(p) \in EdgesOn(d)
  BY <1>5 DEF Reversed, Disappeared, Appeared
<1>7. p \in Pairs
  BY <1>6, EdgesOnPairs
<1>8. /\ p[2] \in Servers /\ <<x.server, p[2]>> = p /\ <<p[2], x.server>> = Opposite(p)
  BY <1>5, <1>7, PairFacts DEF Opposite
<1>9. <<x.server, p[2]>> \in Replayed(d - 1) /\ <<p[2], x.server>> \in Replayed(d)
  BY <1>4, <1>6, <1>8, ReplayedIsEdges
<1>10. ASSUME NEW later \in Shown, later > d PROVE Disappeared(later) = {}
  <2>1. later \notin Dated
    BY <1>2, <1>4, <1>10
  <2>2. QED BY <2>1 DEF Dated
<1>11. QED
  BY <1>3, <1>8, <1>9, <1>10

-----------------------------------------------------------------------------
(* What every state knows.                                                 *)

\* Steps of captures change nothing that is known.
LEMMA NextKnown ==
    ASSUME KInv, [Next]_vars
    PROVE  KInv' /\ Grows
<1>1. CASE Learn
  BY <1>1, LearnKInv
<1>2. CASE UNCHANGED known
  BY <1>2, SameKInv
<1>3. CASE UNCHANGED vars
  BY <1>3, SameKInv DEF vars, known
<1>4. ASSUME NEW c \in Capturers,
             Begin(c) \/ ReadEvidence(c) \/ ReadRisk(c) \/ Insert(c) \/ Finish(c) \/ Restart(c)
      PROVE  UNCHANGED known
  BY <1>4 DEF Begin, ReadEvidence, ReadRisk, Insert, Finish, Restart
<1>5. QED
  BY <1>1, <1>2, <1>3, <1>4 DEF Next

\* Whatever campaigns find and whenever incidents open: who showed an article
\* before another was asked for it, as was the other (campaign targets), and
\* only servers that were asked have incidents.
THEOREM KnownIsSound == Spec => []KInv
<1>1. SnapshotsInit => KInv
  BY InitKInv DEF SnapshotsInit
<1>2. KInv /\ [Next]_vars => KInv'
  BY NextKnown
<1>3. QED
  BY <1>1, <1>2, PTL DEF Spec

\* Each server is in one community, and no strong edge leads out of one but one
\* crosses between any two parts of it: the breadth-first search of
\* infer_topology_communities finds the components, no more and no less.
THEOREM Together == Spec => []CommunitiesHangTogether
BY KnownIsSound, HangTogether, PTL

\* The events of topology history lead from the graph of any day to the one of any
\* later day, however edges appeared, reversed and vanished between.
THEOREM HistoryReplays == Spec => []EventsReplay
BY KnownIsSound, Replays, PTL

\* A critical signal of topology anomalies names a server that led another one
\* the day before, and that is led by it on the day of the signal.
THEOREM CriticalSignalsReverse == Spec => []CriticalMeansReversed
BY KnownIsSound, ReversedSignals, PTL

-----------------------------------------------------------------------------
(* Pieces.                                                                 *)

\* Components are finitely many.
LEMMA FiniteComponents ==
    ASSUME NEW nodes, IsFiniteSet(nodes), NEW links
    PROVE  /\ IsFiniteSet(Components(nodes, links))
           /\ Components(nodes, links) \subseteq SUBSET nodes
           /\ Cardinality(Components(nodes, links)) \in Nat
<1>1. Components(nodes, links) \subseteq SUBSET nodes
  BY ReachedIsClosed DEF Components
<1>2. IsFiniteSet(SUBSET nodes)
  BY FS_SUBSET
<1>3. QED
  BY <1>1, <1>2, FS_Subset, FS_CardinalityType

\* There are several components if and only if a part of the nodes is closed.
LEMMA SeveralPieces ==
    ASSUME NEW nodes, IsFiniteSet(nodes), NEW links
    PROVE  Cardinality(Components(nodes, links)) > 1
              <=> \E X \in (SUBSET nodes) \ {{}, nodes} : Closed(nodes, links, X)
<1> DEFINE C == Components(nodes, links)
<1>1. IsFiniteSet(C) /\ Cardinality(C) \in Nat
  BY FiniteComponents
<1>2. ASSUME Cardinality(C) > 1
      PROVE  \E X \in (SUBSET nodes) \ {{}, nodes} : Closed(nodes, links, X)
  <2>1. C # {}
    BY <1>2, FS_EmptySet
  <2>2. PICK c \in C : TRUE
    BY <2>1
  <2>3. C # {c}
    <3>1. Cardinality({c}) = 1
      BY FS_Singleton
    <3>2. QED BY <1>2, <3>1
  <2>4. PICK d \in C : d # c
    BY <2>2, <2>3
  <2>5. c \cap d = {}
    BY <2>4, ComponentsPartition
  <2>6. /\ c # {} /\ c \subseteq nodes /\ Closed(nodes, links, c)
        /\ d # {} /\ d \subseteq nodes
    BY ComponentsClosed
  <2>7. c # nodes
    BY <2>5, <2>6
  <2>8. QED BY <2>6, <2>7
<1>3. ASSUME NEW X \in (SUBSET nodes) \ {{}, nodes}, Closed(nodes, links, X)
      PROVE  Cardinality(C) > 1
  <2>1. PICK s \in X, t \in nodes \ X : s \in nodes
    BY <1>3
  <2> DEFINE c == Reached(nodes, links, s)
             d == Reached(nodes, links, t)
  <2>2. c \in C /\ d \in C
    BY <2>1 DEF Components
  <2>3. c \subseteq X /\ t \in d
    BY <1>3, <2>1, ReachedIsLeast, ReachedIsClosed
  <2>4. c # d
    BY <2>1, <2>3
  <2> HIDE DEF C, c, d
  <2>5. Cardinality(C) # 0 /\ Cardinality(C) # 1
    BY <1>1, <2>2, <2>4, FS_EmptySet, FS_Singleton
  <2>6. QED BY <1>1, <2>5
<1>4. QED
  BY <1>2, <1>3

\* A component is one piece.
LEMMA OnePiece ==
    ASSUME NEW nodes, IsFiniteSet(nodes), NEW links, NEW c \in Components(nodes, links)
    PROVE  Cardinality(Components(c, links)) = 1
<1>1. c # {} /\ c \subseteq nodes /\ IsFiniteSet(c) /\ Closed(nodes, links, c)
  BY ComponentsClosed
<1>2. ASSUME NEW X \in (SUBSET c) \ {{}, c}, Closed(c, links, X) PROVE FALSE
  <2>1. Closed(nodes, links, X)
    BY <1>1, <1>2 DEF Closed
  <2>2. QED BY <2>1, NoClosedPart
<1>3. ~ (Cardinality(Components(c, links)) > 1)
  BY <1>1, <1>2, SeveralPieces
<1>4. Cardinality(Components(c, links)) \in Nat /\ IsFiniteSet(Components(c, links))
  BY <1>1, FiniteComponents
<1>5. Components(c, links) # {}
  BY <1>1 DEF Components
<1>6. Cardinality(Components(c, links)) # 0
  BY <1>4, <1>5, FS_EmptySet
<1>7. QED
  BY <1>3, <1>4, <1>6

\* A community is one piece before a removal.
LEMMA PiecesAddedIs ==
    ASSUME NEW n \in Nat
    PROVE  AtMost(1, PiecesAdded(1, n)) = IF n > 1 THEN 1 ELSE 0
<1>1. n - 1 \in Int /\ Max({0, n - 1}) = IF 0 >= n - 1 THEN 0 ELSE n - 1
  BY MaxOfTwo
<1>2. QED
  BY <1>1 DEF PiecesAdded, AtMost

-----------------------------------------------------------------------------
(* What a removal breaks.                                                  *)

\* The community of a server is the one that has it.
LEMMA HomeIs ==
    ASSUME KInv, NEW c \in communities, NEW s \in c
    PROVE  HomeOf(communities, s) = c
<1>1. CommunitiesHangTogether
  BY HangTogether
<1>2. \A d \in communities : s \in d => d = c
  BY <1>1 DEF CommunitiesHangTogether, communities
<1>3. QED
  BY <1>2 DEF HomeOf

\* A community is one piece, which no strong edge leaves.
LEMMA CommunityFacts ==
    ASSUME KInv, NEW c \in communities
    PROVE  /\ c # {} /\ c \subseteq Nodes /\ IsFiniteSet(c)
           /\ Leaving(Strong(graph), c) = {}
           /\ Cardinality(Components(c, Strong(graph))) = 1
           /\ \A part \in (SUBSET c) \ {{}, c} : Leaving(Strong(graph), part) # {}
<1>1. IsFiniteSet(Nodes) /\ c \in Components(Nodes, Strong(graph))
  BY FiniteServers DEF communities, Communities
<1>2. c # {} /\ c \subseteq Nodes /\ IsFiniteSet(c)
  BY <1>1, ComponentsClosed
<1>3. CommunitiesHangTogether
  BY HangTogether
<1>4. QED
  BY <1>1, <1>2, <1>3, OnePiece DEF CommunitiesHangTogether, communities

\* Removing a server breaks its community if some part of the rest is left alone.
LEMMA NodeCuts ==
    ASSUME KInv, NEW c \in communities, NEW s \in c
    PROVE  AtMost(1, NodeBreaks(communities, graph, s))
              = IF \E part \in (SUBSET (c \ {s})) \ {{}, c \ {s}} :
                       Leaving(Strong(graph) \ Touching(Strong(graph), s), part) = {}
                THEN 1 ELSE 0
<1> DEFINE strong == Strong(graph)
           rest == c \ {s}
           links == strong \ Touching(strong, s)
           n == Cardinality(Components(rest, strong))
<1>1. IsFiniteSet(rest) /\ Leaving(strong, c) = {}
  BY CommunityFacts, FS_Subset
<1> HIDE DEF strong
<1>2. Within(rest, links)
  BY <1>1 DEF Within, Touching, Leaving
<1>3. ASSUME NEW X \in SUBSET rest
      PROVE  Closed(rest, strong, X) <=> Leaving(links, X) = {}
  <2>1. \A r \in rest, t \in rest : Linked(strong, r, t) <=> Linked(links, r, t)
    BY DEF Linked, Touching
  <2>2. Closed(rest, strong, X) <=> Closed(rest, links, X)
    BY <2>1 DEF Closed
  <2> HIDE DEF rest, links
  <2>3. QED
    BY <1>2, <2>2, ClosedOrLeft
<1>4. n > 1 <=> \E X \in (SUBSET rest) \ {{}, rest} : Leaving(links, X) = {}
  <2>1. n > 1 <=> \E X \in (SUBSET rest) \ {{}, rest} : Closed(rest, strong, X)
    <3> HIDE DEF rest
    <3> QED BY <1>1, SeveralPieces
  <2> HIDE DEF n, links, rest
  <2>2. QED BY <1>3, <2>1
<1>5. NodeBreaks(communities, graph, s) = PiecesAdded(1, n)
  BY HomeIs, CommunityFacts DEF NodeBreaks, strong
<1>6. n \in Nat
  <2> HIDE DEF rest
  <2> QED BY <1>1, FiniteComponents
<1>7. AtMost(1, NodeBreaks(communities, graph, s)) = IF n > 1 THEN 1 ELSE 0
  <2> HIDE DEF n
  <2> QED BY <1>5, <1>6, PiecesAddedIs
<1>8. QED
  <2> HIDE DEF n
  <2>1. AtMost(1, NodeBreaks(communities, graph, s))
           = IF \E X \in (SUBSET rest) \ {{}, rest} : Leaving(links, X) = {} THEN 1 ELSE 0
    BY <1>4, <1>7
  <2>2. QED BY <2>1 DEF strong

\* An edge is strong by its confidence.
LEMMA StrongMeans ==
    ASSUME NEW g, NEW e \in g, e.conf \in 0 .. 1000, StrongConfidence \in 500 .. 1000
    PROVE  /\ e.conf \in Int /\ StrongConfidence \in Int
           /\ e \in Strong(g) <=> e.conf >= StrongConfidence
BY DEF Strong

\* Removing an edge breaks a community if it is the only one that leaves some part.
LEMMA EdgeCuts ==
    ASSUME KInv, NEW e \in graph
    PROVE  AtMost(1, EdgeBreaks(communities, graph, e))
              = IF \E c \in communities : \E part \in SUBSET c : Leaving(Strong(graph), part) = {e}
                THEN 1 ELSE 0
<1> DEFINE strong == Strong(graph)
           Cuts == \E c \in communities : \E part \in SUBSET c : Leaving(strong, part) = {e}
<1>1. /\ e.from \in Nodes /\ e.to \in Nodes /\ e.conf \in 0 .. 1000
      /\ UNION communities = Nodes
      /\ StrongConfidence \in 500 .. 1000
  BY GraphEnds, HangTogether, ConstantsAssumption DEF CommunitiesHangTogether, communities, Edge
<1>2. PICK c \in communities : e.from \in c
  BY <1>1
<1>3. HomeOf(communities, e.from) = c
  BY <1>2, HomeIs
<1>4. \A d \in communities : e.from \in d => d = c
  BY <1>2, HomeIs
<1>5. /\ IsFiniteSet(c) /\ c # {}
      /\ Cardinality(Components(c, strong)) = 1
      /\ \A part \in (SUBSET c) \ {{}, c} : Leaving(strong, part) # {}
      /\ \A d \in communities : Leaving(strong, d) = {}
  BY CommunityFacts
<1>6. CASE e \notin strong
  <2>0. e.conf \in Int /\ StrongConfidence \in Int /\ ~ (e.conf >= StrongConfidence)
    BY <1>1, <1>6, StrongMeans
  <2>1. e.conf < StrongConfidence
    BY <2>0
  <2>2. EdgeBreaks(communities, graph, e) = 0
    BY <2>1 DEF EdgeBreaks
  <2>3. ~ Cuts
    BY <1>6 DEF Leaving
  <2>4. AtMost(1, EdgeBreaks(communities, graph, e)) = 0
    BY <2>2 DEF AtMost
  <2>5. QED BY <2>3, <2>4
<1>7. CASE e \in strong
  <2> DEFINE links == strong \ {e}
             n == Cardinality(Components(c, links))
  <2>0. e.conf \in Int /\ StrongConfidence \in Int /\ e.conf >= StrongConfidence
    BY <1>1, <1>7, StrongMeans
  <2>1. ~ (e.conf < StrongConfidence)
    BY <2>0
  <2> HIDE DEF strong
  <2>2. e.to \in c
    BY <1>2, <1>5, <1>7 DEF Leaving
  <2>3. Within(c, links)
    BY <1>5 DEF Within, Leaving
  <2>4. n \in Nat
    <3> HIDE DEF links
    <3> QED BY <1>5, FiniteComponents
  <2>5. n > 1 <=> \E X \in (SUBSET c) \ {{}, c} : Leaving(links, X) = {}
    <3> HIDE DEF links
    <3>1. n > 1 <=> \E X \in (SUBSET c) \ {{}, c} : Closed(c, links, X)
      BY <1>5, SeveralPieces
    <3>2. \A X \in SUBSET c : Closed(c, links, X) <=> Leaving(links, X) = {}
      BY <2>3, ClosedOrLeft
    <3> HIDE DEF n
    <3>3. QED BY <3>1, <3>2
  <2>6. ASSUME NEW X \in (SUBSET c) \ {{}, c}, Leaving(links, X) = {} PROVE Cuts
    <3>1. Leaving(strong, X) \subseteq {e} /\ Leaving(strong, X) # {}
      BY <1>5, <2>6 DEF Leaving
    <3>2. Leaving(strong, X) = {e} /\ X \in SUBSET c
      BY <3>1
    <3>3. QED BY <3>2
  <2>7. ASSUME Cuts PROVE \E X \in (SUBSET c) \ {{}, c} : Leaving(links, X) = {}
    <3>1. PICK d \in communities : \E part \in SUBSET d : Leaving(strong, part) = {e}
      BY <2>7
    <3>2. PICK part \in SUBSET d : Leaving(strong, part) = {e}
      BY <3>1
    <3>3. e.from \in d \/ e.to \in d
      BY <3>2 DEF Leaving
    <3>4. e.from \in d
      BY <1>5, <1>7, <3>3 DEF Leaving
    <3>5. d = c
      BY <1>4, <3>4
    <3>6. part # {} /\ part # c
      BY <1>5, <3>2 DEF Leaving
    <3>7. Leaving(links, part) = {}
      BY <3>2 DEF Leaving
    <3>8. QED BY <3>5, <3>6, <3>7
  <2>8. n > 1 <=> Cuts
    <3> HIDE DEF n, links, Cuts
    <3> QED BY <2>5, <2>6, <2>7
  <2>9. EdgeBreaks(communities, graph, e) = PiecesAdded(1, n)
    BY <1>3, <1>5, <2>1, <2>2 DEF EdgeBreaks, strong
  <2> HIDE DEF n, Cuts
  <2>10. AtMost(1, EdgeBreaks(communities, graph, e)) = IF n > 1 THEN 1 ELSE 0
    BY <2>4, <2>9, PiecesAddedIs
  <2>11. AtMost(1, EdgeBreaks(communities, graph, e)) = IF Cuts THEN 1 ELSE 0
    BY <2>8, <2>10
  <2>12. QED BY <2>11 DEF Cuts, strong
<1>8. QED
  BY <1>6, <1>7

-----------------------------------------------------------------------------
(* Scores.                                                                 *)

\* Greatest bounds all values and is one of them, or 0.
LEMMA GreatestFacts ==
    ASSUME NEW S, IsFiniteSet(S), NEW f, \A x \in S : f[x] \in Nat
    PROVE  /\ Greatest(f, S) \in Nat
           /\ Greatest(f, S) \in {0} \cup {f[x] : x \in S}
           /\ \A x \in S : f[x] <= Greatest(f, S)
<1> DEFINE F == [x \in S |-> f[x]]
           R == {f[x] : x \in S}
           V == {0} \cup R
<1>1. IsFiniteSet(R)
  <2>1. F \in Surjection(S, R)
    BY DEF Surjection
  <2> HIDE DEF F, R
  <2>2. QED BY <2>1, FS_Surjection
<1>2. IsFiniteSet(V)
  <2> HIDE DEF R
  <2> QED BY <1>1, FS_Singleton, FS_Union
<1>3. V \in SUBSET Nat /\ V \in SUBSET Int /\ V # {}
  OBVIOUS
<1>4. Max(V) \in V /\ \A x \in V : x <= Max(V)
  <2> HIDE DEF V
  <2> QED BY <1>2, <1>3, MaxFacts
<1>5. Greatest(f, S) = Max(V)
  BY DEF Greatest
<1>6. \A x \in S : f[x] \in V
  OBVIOUS
<1>7. QED
  <2>1. Greatest(f, S) \in Nat
    BY <1>3, <1>4, <1>5
  <2>2. \A x \in S : f[x] <= Greatest(f, S)
    <3> HIDE DEF V
    <3> QED BY <1>4, <1>5, <1>6
  <2>3. QED BY <1>4, <1>5, <2>1, <2>2

\* What a graph is made of.
IsGraph(g) == g \subseteq Edge /\ IsFiniteSet(g) /\ \A e \in g : e.conf > 0

\* The graph is one; so is what is taken from it.
LEMMA GraphIsGraph ==
    ASSUME KInv
    PROVE  IsGraph(graph)
<1>1. \A e \in graph : e.conf >= MinConfidence
  BY DEF graph, Graph, IsEdge
<1>2. MinConfidence \in Nat /\ MinConfidence >= 500
  BY ConstantsAssumption
<1>3. graph \subseteq Edge /\ IsFiniteSet(graph)
  BY GraphEnds
<1>4. \A e \in graph : e.conf > 0
  BY <1>1, <1>2, <1>3 DEF Edge
<1>5. QED
  BY <1>3, <1>4 DEF IsGraph

\* What degree, weight and direction of a server's edges are at most.
LEMMA TouchingFacts ==
    ASSUME NEW g, IsGraph(g), NEW s
    PROVE  /\ IsFiniteSet(Touching(g, s)) /\ Touching(g, s) \subseteq g
           /\ Degree(g, s) \in Nat /\ Out(g, s) \in Nat /\ Out(g, s) <= Degree(g, s)
           /\ Cardinality(Touching(g, s)) <= Cardinality(g)
           /\ Cardinality(g) \in Nat
           /\ Weight(g, s) \in Nat
           /\ \A e \in Touching(g, s) : e.conf <= Weight(g, s) /\ Degree(g, s) > 0
<1> DEFINE T == Touching(g, s)
           O == {e \in g : e.from = s}
           f == [e \in T |-> e.conf]
<1>1. T \subseteq g /\ O \subseteq T /\ IsFiniteSet(g)
  BY DEF Touching, IsGraph
<1>2. /\ IsFiniteSet(T) /\ IsFiniteSet(O) /\ Cardinality(O) <= Cardinality(T)
      /\ Cardinality(T) <= Cardinality(g)
  <2> HIDE DEF T, O
  <2>1. IsFiniteSet(T) /\ Cardinality(T) <= Cardinality(g)
    BY <1>1, FS_Subset
  <2>2. IsFiniteSet(O) /\ Cardinality(O) <= Cardinality(T)
    BY <1>1, <2>1, FS_Subset
  <2>3. QED BY <2>1, <2>2
<1>3. \A e \in T : e.conf \in Nat
  BY <1>1 DEF IsGraph, Edge
<1>4. Weight(g, s) = SumOver(f, T)
  <2>1. MapThenSumSet(LAMBDA e : e.conf, T) = SumOver([e \in T |-> e.conf], T)
    <3> HIDE DEF T
    <3> QED BY <1>2, <1>3, WeightIs, Zenon
  <2>2. QED BY <2>1, Zenon DEF Weight
<1>5. \A e \in T : f[e] \in Nat /\ f[e] = e.conf
  BY <1>3
<1>6. SumOver(f, T) \in Nat /\ \A e \in T : f[e] <= SumOver(f, T)
  <2> HIDE DEF f, T
  <2> QED BY <1>2, <1>5, SumFacts
<1>7. T # {} => Cardinality(T) # 0
  <2> HIDE DEF T
  <2> QED BY <1>2, FS_EmptySet
<1>8. Cardinality(T) \in Nat /\ Cardinality(O) \in Nat /\ Cardinality(g) \in Nat
  BY <1>1, <1>2, FS_CardinalityType
<1>9. Degree(g, s) = Cardinality(T) /\ Out(g, s) = Cardinality(O)
  BY DEF Degree, Out
<1> HIDE DEF T, O, f
<1>10. \A e \in T : e.conf <= Weight(g, s) /\ Degree(g, s) > 0
  BY <1>4, <1>5, <1>6, <1>7, <1>8, <1>9
<1>11. QED
  BY <1>1, <1>2, <1>4, <1>6, <1>8, <1>9, <1>10 DEF T

\* bridge_score is a share.
LEMMA BalanceFacts ==
    ASSUME NEW g, IsGraph(g), NEW s
    PROVE  Balance(g, s) \in Nat /\ Balance(g, s) <= 1000
<1> DEFINE o == Out(g, s)
           d == Degree(g, s)
           m == Min({o, d - o})
<1>1. o \in Nat /\ d \in Nat /\ o <= d
  BY TouchingFacts
<1> HIDE DEF o, d
<1>2. {o, d - o} \in SUBSET Nat
  BY <1>1
<1>3. m \in Nat /\ m <= o
  BY <1>2, MinFacts
<1> HIDE DEF m
<1>4. CASE d = 0
  BY <1>4 DEF Balance, d
<1>5. CASE d # 0
  <2>1. Balance(g, s) = Rounded(1000 * m, d)
    BY <1>5 DEF Balance, Thousandths, d, o, m
  <2>2. 1000 * m \in Nat /\ d \in Nat \ {0} /\ 1000 * m <= d * 1000
    BY <1>1, <1>3, <1>5
  <2> DEFINE n == 1000 * m
  <2>3. Rounded(n, d) \in Nat /\ Rounded(n, d) <= 1000
    <3> HIDE DEF n
    <3> QED BY <2>2, RoundedFacts DEF n
  <2>4. QED BY <2>1, <2>3
<1>6. QED
  BY <1>4, <1>5

\* The weights of impact_score add up to 1000.
LEMMA ImpactArithmetic ==
    ASSUME NEW d \in Nat, NEW w \in Nat, NEW b \in Nat, b <= 1000,
           NEW D \in Nat, d <= D, NEW W \in Nat, w <= W
    PROVE  /\ 20 * (450 * d * W + 400 * w * D) + 3 * b * D * W \in Nat
           /\ 20 * (450 * d * W + 400 * w * D) + 3 * b * D * W <= (20 * D * W) * 1000
<1>1. d * W <= D * W /\ w * D <= W * D /\ b * (D * W) <= 1000 * (D * W)
  <2>1. d * W <= D * W /\ w * D <= W * D
    OBVIOUS
  <2>2. D * W \in Nat
    OBVIOUS
  <2>3. b * (D * W) <= 1000 * (D * W)
    BY <2>2
  <2>4. QED BY <2>1, <2>3
<1> DEFINE x == d * W
           y == w * D
           z == D * W
           u == b * (D * W)
<1>2. x \in Nat /\ y \in Nat /\ z \in Nat /\ u \in Nat /\ W * D = z
  OBVIOUS
<1>3. /\ 450 * d * W = 450 * x /\ 400 * w * D = 400 * y /\ 3 * b * D * W = 3 * u
      /\ (20 * D * W) * 1000 = 20000 * z
  OBVIOUS
<1>4. x <= z /\ y <= z /\ u <= 1000 * z
  BY <1>1, <1>2
<1> HIDE DEF x, y, z, u
<1>5. 20 * (450 * x + 400 * y) + 3 * u \in Nat /\ 20 * (450 * x + 400 * y) + 3 * u <= 20000 * z
  BY <1>2, <1>4
<1>6. QED
  BY <1>3, <1>5

\* impact_score is a share.
LEMMA ImpactFacts ==
    ASSUME NEW g, IsGraph(g)
    PROVE  \A s \in Servers : Impact(g)[s] \in Nat /\ Impact(g)[s] <= 1000
<1> DEFINE degree == [s \in Servers |-> Degree(g, s)]
           weight == [s \in Servers |-> Weight(g, s)]
           D == Greatest(degree, Servers)
           W == Greatest(weight, Servers)
<1>1. \A s \in Servers : /\ degree[s] \in Nat /\ degree[s] = Degree(g, s)
                         /\ weight[s] \in Nat /\ weight[s] = Weight(g, s)
  BY TouchingFacts
<1>2. /\ D \in Nat /\ \A s \in Servers : degree[s] <= D
      /\ W \in Nat /\ \A s \in Servers : weight[s] <= W
  <2> HIDE DEF degree, weight
  <2> QED BY <1>1, FiniteServers, GreatestFacts
<1> SUFFICES ASSUME NEW s \in Servers
             PROVE  Impact(g)[s] \in Nat /\ Impact(g)[s] <= 1000
  OBVIOUS
<1> DEFINE n == 20 * (450 * degree[s] * W + 400 * weight[s] * D) + 3 * Balance(g, s) * D * W
<1>3. Impact(g)[s] = IF g = {} THEN 0 ELSE Rounded(n, 20 * D * W)
  BY DEF Impact
<1>4. CASE g = {}
  BY <1>3, <1>4
<1>5. CASE g # {}
  <2>1. PICK e \in g : e \in Edge /\ e.conf > 0
    BY <1>5 DEF IsGraph
  <2>2. e.from \in Servers /\ e.conf \in Nat /\ e \in Touching(g, e.from)
    BY <2>1 DEF Edge, Touching
  <2>3. D > 0 /\ W > 0
    <3>1. Degree(g, e.from) > 0 /\ e.conf <= Weight(g, e.from)
      BY <2>2, TouchingFacts
    <3>2. degree[e.from] <= D /\ weight[e.from] <= W
      BY <1>2, <2>2
    <3> HIDE DEF D, W
    <3>3. degree[e.from] > 0 /\ weight[e.from] >= e.conf /\ degree[e.from] \in Nat /\ weight[e.from] \in Nat
      BY <1>1, <2>2, <3>1
    <3> HIDE DEF degree, weight
    <3>4. QED BY <1>2, <2>1, <2>2, <3>2, <3>3
  <2> HIDE DEF D, W, degree, weight
  <2> DEFINE q == 20 * D * W
  <2>4. q \in Nat \ {0}
    BY <1>2, <2>3
  <2>5. n \in Nat /\ n <= q * 1000
    <3>1. Balance(g, s) \in Nat /\ Balance(g, s) <= 1000
      BY BalanceFacts
    <3>2. degree[s] \in Nat /\ weight[s] \in Nat /\ degree[s] <= D /\ weight[s] <= W
      BY <1>1, <1>2
    <3>3. QED BY <1>2, <3>1, <3>2, ImpactArithmetic
  <2>6. Impact(g)[s] = Rounded(n, q)
    BY <1>3, <1>5
  <2> HIDE DEF n, q
  <2>7. QED BY <2>4, <2>5, <2>6, RoundedFacts
<1>6. QED
  BY <1>4, <1>5

-----------------------------------------------------------------------------
(* Critical scores.                                                        *)

\* The score of a server whose removal breaks its community (b = 1) or does not,
\* which is at k of the cross edges and has impact i.
ResilienceScore(b, all, k, i) ==
    Rounded(20 * (550 * b * all + 300 * k) + 3 * i * all, 20 * all)

\* Without a break the other terms stay below 500, with one they start from 550.
LEMMA ResilienceArithmetic ==
    ASSUME NEW b \in {0, 1}, NEW k \in Nat, NEW all \in Nat \ {0}, k <= all,
           NEW i \in Nat, i <= 1000
    PROVE  /\ ResilienceScore(b, all, k, i) \in Nat
           /\ ResilienceScore(b, all, k, i) <= 1000
           /\ ResilienceScore(b, all, k, i) >= 500 <=> b = 1
<1> DEFINE n == 20 * (550 * b * all + 300 * k) + 3 * i * all
           q == 20 * all
           x == i * all
           y == b * all
<1>1. q \in Nat \ {0} /\ x \in Nat /\ y \in Nat /\ x <= 1000 * all
  OBVIOUS
<1>2. n = 20 * (550 * y + 300 * k) + 3 * x /\ (b = 0 => y = 0) /\ (b = 1 => y = all) /\ y <= all
  OBVIOUS
<1> HIDE DEF x, y
<1>3. n \in Nat /\ n <= q * 1000
  BY <1>1, <1>2
<1>4. b = 0 => n <= q * 450
  BY <1>1, <1>2
<1>5. b = 1 => q * 550 <= n
  BY <1>1, <1>2
<1> HIDE DEF n, q
<1>6. /\ Rounded(n, q) \in Nat /\ Rounded(n, q) <= 1000
      /\ b = 0 => Rounded(n, q) <= 450
      /\ b = 1 => 550 <= Rounded(n, q)
  BY <1>1, <1>3, <1>4, <1>5, RoundedFacts
<1>7. Rounded(n, q) >= 500 <=> b = 1
  BY <1>6
<1>8. QED
  BY <1>6, <1>7 DEF n, q, ResilienceScore

\* The cross edges of a server are some of all.
LEMMA CrossFacts ==
    ASSUME KInv, NEW cs, NEW s
    PROVE  LET cross == CrossEdges(cs, graph)
               all == Max({1, Cardinality(cross)})
           IN  /\ IsGraph(cross) /\ all \in Nat \ {0}
               /\ Cardinality(Touching(cross, s)) \in Nat
               /\ Cardinality(Touching(cross, s)) <= all
<1> DEFINE cross == CrossEdges(cs, graph)
           all == Max({1, Cardinality(cross)})
<1>1. IsGraph(graph) /\ cross \subseteq graph
  BY GraphIsGraph DEF CrossEdges
<1>2. IsGraph(cross)
  <2> HIDE DEF cross
  <2> QED BY <1>1, FS_Subset DEF IsGraph
<1> HIDE DEF cross
<1>3. Cardinality(Touching(cross, s)) \in Nat /\ Cardinality(Touching(cross, s)) <= Cardinality(cross)
      /\ Cardinality(cross) \in Nat
  BY <1>2, TouchingFacts, FS_CardinalityType
<1>4. all = IF 1 >= Cardinality(cross) THEN 1 ELSE Cardinality(cross)
  BY <1>3, MaxOfTwo
<1>5. QED
  BY <1>2, <1>3, <1>4 DEF cross

\* The resilience score of a server is a number up to 1000; it tells whether the
\* server's removal is counted as a break.
LEMMA ResilienceRange ==
    ASSUME KInv, NEW c \in communities, NEW s \in c
    PROVE  /\ Resilience(communities, graph)[s] \in Nat
           /\ Resilience(communities, graph)[s] <= 1000
           /\ Resilience(communities, graph)[s] >= 500
                 <=> AtMost(1, NodeBreaks(communities, graph, s)) = 1
<1> DEFINE cross == CrossEdges(communities, graph)
           all == Max({1, Cardinality(cross)})
           b == AtMost(1, NodeBreaks(communities, graph, s))
           k == Cardinality(Touching(cross, s))
           i == Impact(graph)[s]
           r == Resilience(communities, graph)[s]
<1>1. s \in UNION communities
  OBVIOUS
<1>2. r = ResilienceScore(b, all, k, i)
  BY <1>1 DEF Resilience, ResilienceScore
<1>3. k \in Nat /\ all \in Nat \ {0} /\ k <= all
  BY CrossFacts
<1>4. i \in Nat /\ i <= 1000
  <2>1. s \in Servers
    BY CommunityFacts, FiniteServers
  <2>2. QED BY <2>1, GraphIsGraph, ImpactFacts
<1>5. b \in {0, 1}
  BY NodeCuts
<1> HIDE DEF all, b, k, i, r
<1>7. r \in Nat /\ r <= 1000 /\ (r >= 500 <=> b = 1)
  <2>1. /\ ResilienceScore(b, all, k, i) \in Nat
        /\ ResilienceScore(b, all, k, i) <= 1000
        /\ ResilienceScore(b, all, k, i) >= 500 <=> b = 1
    BY <1>3, <1>4, <1>5, ResilienceArithmetic
  <2>2. QED BY <1>2, <2>1
<1>8. QED
  BY <1>7 DEF r, b

\* It tells whether the removal of the server breaks anything.
LEMMA ResilienceFacts ==
    ASSUME KInv, NEW c \in communities, NEW s \in c
    PROVE  /\ Resilience(communities, graph)[s] \in Nat
           /\ Resilience(communities, graph)[s] <= 1000
           /\ Resilience(communities, graph)[s] >= 500
                 <=> \E part \in (SUBSET (c \ {s})) \ {{}, c \ {s}} :
                        Leaving(Strong(graph) \ Touching(Strong(graph), s), part) = {}
<1> DEFINE b == AtMost(1, NodeBreaks(communities, graph, s))
           r == Resilience(communities, graph)[s]
           Cut == \E part \in (SUBSET (c \ {s})) \ {{}, c \ {s}} :
                     Leaving(Strong(graph) \ Touching(Strong(graph), s), part) = {}
<1>1. r \in Nat /\ r <= 1000 /\ (r >= 500 <=> b = 1)
  BY ResilienceRange
<1>2. b = IF Cut THEN 1 ELSE 0
  BY NodeCuts
<1> HIDE DEF b, r, Cut
<1>3. r >= 500 <=> Cut
  BY <1>1, <1>2
<1>4. QED
  BY <1>1, <1>3 DEF r, Cut

\* So does the score of an edge.
LEMMA EdgeResilienceFacts ==
    ASSUME KInv, NEW e \in graph
    PROVE  EdgeResilience(communities, graph, e) >= 500
              <=> \E c \in communities : \E part \in SUBSET c : Leaving(Strong(graph), part) = {e}
<1> DEFINE Cut == \E c \in communities : \E part \in SUBSET c : Leaving(Strong(graph), part) = {e}
           b == AtMost(1, EdgeBreaks(communities, graph, e))
           k == IF e \in CrossEdges(communities, {e}) THEN 250 ELSE 0
           v == Rounded(e.conf, 10)
<1>1. b = IF Cut THEN 1 ELSE 0
  BY EdgeCuts
<1>2. k \in {0, 250}
  OBVIOUS
<1>3. v \in Nat /\ v <= 100
  <2>1. e.conf \in Nat /\ e.conf <= 10 * 100 /\ 10 \in Nat \ {0}
    BY GraphEnds DEF Edge
  <2>2. QED BY <2>1, RoundedFacts
<1>4. EdgeResilience(communities, graph, e) = AtMost(1000, 650 * b + k + v)
  BY DEF EdgeResilience
<1> HIDE DEF b, k, v, Cut
<1>5. AtMost(1000, 650 * b + k + v) >= 500 <=> Cut
  BY <1>1, <1>2, <1>3 DEF AtMost
<1>6. QED
  BY <1>4, <1>5 DEF Cut

\* In every state that KInv admits critical scores mean cuts.
LEMMA Cuts == KInv => CriticalMeansCut
<1> SUFFICES ASSUME KInv PROVE CriticalMeansCut
  OBVIOUS
<1>2. ASSUME NEW c \in communities, NEW s \in c
      PROVE  Resilience(communities, graph)[s] >= 500
                <=> \E part \in (SUBSET (c \ {s})) \ {{}, c \ {s}} :
                       Leaving(Strong(graph) \ Touching(Strong(graph), s), part) = {}
  BY ResilienceFacts
<1>3. ASSUME NEW e \in graph
      PROVE  EdgeResilience(communities, graph, e) >= 500
                <=> \E c \in communities : \E part \in SUBSET c : Leaving(Strong(graph), part) = {e}
  BY EdgeResilienceFacts
<1>4. QED
  BY <1>2, <1>3, Zenon DEF CriticalMeansCut, communities

\* Scores are critical if and only if a removal breaks a community: the terms that
\* are not about it never add up to the threshold, nor do they undercut it, by
\* the weights and the rounding of the resilience scores.
THEOREM CriticalCuts == Spec => []CriticalMeansCut
BY KnownIsSound, Cuts, PTL

-----------------------------------------------------------------------------
(* Risk.                                                                   *)

\* Incidents add a natural number to a risk.
LEMMA IncidentScoreFacts ==
    ASSUME NEW i \in Open
    PROVE  IncidentScore(i) \in Nat
<1> DEFINE a == 850 + 50 * (i.critical - 1) + 30 * i.warning
           b == 550 + 50 * (i.warning - 1)
           open == IF i.critical > 0 THEN AtMost(1000, a)
                   ELSE IF i.warning > 0 THEN AtMost(800, b)
                   ELSE 0
<1>1. i.critical \in Nat /\ i.warning \in Nat /\ i.recovering \in Nat
  BY DEF Open
<1>2. (i.critical > 0 => a \in Nat) /\ (i.warning > 0 => b \in Nat)
  BY <1>1
<1>3. open \in Nat
  <2> HIDE DEF a, b
  <2> QED BY <1>1, <1>2 DEF AtMost
<1>4. IncidentScore(i) = IF i.recovering > 0 /\ open > 0 THEN Max({250, open - 150}) ELSE open
  BY DEF IncidentScore
<1> HIDE DEF open
<1>5. Max({250, open - 150}) = IF 250 >= open - 150 THEN 250 ELSE open - 150
  BY <1>3, MaxOfTwo
<1>6. QED
  BY <1>3, <1>4, <1>5

\* The edges of a server to other communities are a graph.
LEMMA CrossAtFacts ==
    ASSUME KInv, NEW s
    PROVE  /\ IsGraph(CrossAt(communities, graph, s))
           /\ Cardinality(CrossAt(communities, graph, s)) \in Nat
           /\ CrossAt(communities, graph, s) # {} => Cardinality(CrossAt(communities, graph, s)) > 0
<1> DEFINE x == CrossAt(communities, graph, s)
<1>1. x \subseteq graph /\ IsGraph(graph)
  BY GraphIsGraph DEF CrossAt, Touching, CrossEdges
<1> HIDE DEF x
<1>2. IsGraph(x) /\ IsFiniteSet(x)
  BY <1>1, FS_Subset DEF IsGraph
<1>3. Cardinality(x) \in Nat /\ (x # {} => Cardinality(x) # 0)
  BY <1>2, FS_CardinalityType, FS_EmptySet
<1>4. QED
  BY <1>2, <1>3 DEF x

\* The strongest of some edges has a confidence.
LEMMA MaxConfidence ==
    ASSUME NEW g, IsGraph(g), g # {}
    PROVE  Max({e.conf : e \in g}) \in Nat
<1> DEFINE V == {e.conf : e \in g}
           F == [e \in g |-> e.conf]
<1>1. F \in Surjection(g, V)
  BY DEF Surjection
<1>2. IsFiniteSet(V)
  <2> HIDE DEF F, V
  <2> QED BY <1>1, FS_Surjection DEF IsGraph
<1>3. V \in SUBSET Nat /\ V \in SUBSET Int /\ V # {}
  <2>1. \A e \in g : e.conf \in Nat
    BY DEF IsGraph, Edge
  <2>2. QED BY <2>1
<1> HIDE DEF V
<1>4. Max(V) \in V
  BY <1>2, <1>3, MaxFacts
<1>5. QED
  BY <1>3, <1>4 DEF V

\* Being a gateway adds a natural number to a risk.
LEMMA GatewayFacts ==
    ASSUME KInv, NEW s \in Nodes
    PROVE  GatewayScore(communities, graph, s) \in Nat
<1> DEFINE f == [t \in Nodes |-> Cardinality(CrossAt(communities, graph, t))]
           most == Greatest(f, Nodes)
           mine == CrossAt(communities, graph, s)
           strongest == Max({e.conf : e \in mine})
           n == Cardinality(mine)
<1>1. \A t \in Nodes : f[t] \in Nat
  BY CrossAtFacts
<1>2. most \in Nat /\ n <= most /\ n \in Nat
  <2>1. f[s] = n /\ f[s] \in Nat
    BY <1>1
  <2> HIDE DEF f, n
  <2>2. most \in Nat /\ f[s] <= most
    BY <1>1, FiniteServers, GreatestFacts
  <2>3. QED BY <2>1, <2>2
<1>3. GatewayScore(communities, graph, s)
         = IF mine = {} THEN 0 ELSE Rounded(65000 * n + 35 * strongest * most, 100 * most)
  BY DEF GatewayScore
<1>4. CASE mine = {}
  BY <1>3, <1>4
<1>5. CASE mine # {}
  <2>1. n > 0 /\ strongest \in Nat
    BY <1>5, CrossAtFacts, MaxConfidence
  <2> HIDE DEF n, strongest, most, mine
  <2> DEFINE a == 65000 * n + 35 * strongest * most
             d == 100 * most
  <2>2. a \in Nat /\ d \in Nat \ {0}
    BY <1>2, <2>1
  <2>3. GatewayScore(communities, graph, s) = Rounded(a, d)
    BY <1>3, <1>5
  <2> HIDE DEF a, d
  <2>4. QED BY <2>2, <2>3, RoundedFacts
<1>6. QED
  BY <1>4, <1>5

\* The risk of a server is a natural number.
LEMMA ServerRiskFacts ==
    ASSUME KInv, NEW s \in Nodes
    PROVE  ServerRisk(communities, graph, s) \in Nat
<1> DEFINE i == IncidentScore(incidents[s])
           r == Resilience(communities, graph)[s]
           m == Impact(graph)[s]
           w == GatewayScore(communities, graph, s)
           x == ScopeScore(communities)
           n == 40 * i + 20 * r + 20 * m + 15 * w + 5 * x
<1>1. s \in Servers /\ incidents[s] \in Open
  BY FiniteServers DEF KInv, KnownType
<1>2. i \in Nat
  BY <1>1, IncidentScoreFacts
<1>3. r \in Nat
  <2>1. PICK c \in communities : s \in c
    BY HangTogether DEF CommunitiesHangTogether, communities
  <2> HIDE DEF i, m, w, x, n, r
  <2>2. Resilience(communities, graph)[s] \in Nat
    BY <2>1, ResilienceRange
  <2>3. QED BY <2>2 DEF r
<1>4. m \in Nat
  BY <1>1, GraphIsGraph, ImpactFacts
<1>5. w \in Nat
  BY GatewayFacts
<1>6. x \in Nat
  BY DEF ScopeScore
<1>7. ServerRisk(communities, graph, s) = Rounded(n, 100)
  BY DEF ServerRisk
<1> HIDE DEF i, r, m, w, x
<1>8. n \in Nat /\ 100 \in Nat \ {0}
  BY <1>2, <1>3, <1>4, <1>5, <1>6
<1> HIDE DEF n
<1>9. QED
  BY <1>7, <1>8, RoundedFacts

\* Incidents of a community are those of its servers.
LEMMA OpenFacts ==
    ASSUME KInv, NEW c, c \subseteq Servers, IsFiniteSet(c)
    PROVE  /\ \A s \in c : OpenAt(s) \in Nat
           /\ OpenIn(c) \in Nat
           /\ (\A s \in c : OpenAt(s) = 0) => OpenIn(c) = 0
<1>1. \A s \in c : OpenAt(s) \in Nat
  <2>1. \A s \in c : incidents[s] \in Open
    BY DEF KInv, KnownType
  <2>2. QED BY <2>1 DEF OpenAt, Open
<1> DEFINE f == [s \in c |-> OpenAt(s)]
<1>2. \A s \in c : f[s] = OpenAt(s) /\ f[s] \in Nat
  BY <1>1
<1>3. OpenIn(c) = SumOver(f, c)
  BY DEF OpenIn
<1> HIDE DEF f
<1>4. SumOver(f, c) \in Nat /\ ((\A s \in c : f[s] = 0) => SumOver(f, c) = 0)
  BY <1>2, SumFacts
<1>5. QED
  BY <1>1, <1>2, <1>3, <1>4

\* The risk of a community is a natural number.
LEMMA CommunityRiskFacts ==
    ASSUME KInv, NEW c \in communities
    PROVE  CommunityRisk(communities, graph, c) \in Nat
<1> DEFINE risk == [s \in c |-> ServerRisk(communities, graph, s)]
           n == Cardinality(c)
           opened == {s \in c : OpenAt(s) > 0}
           p == 350 * OpenIn(c) + 150 * Cardinality(opened)
           pressure == AtMost(1000, p)
           gates == {s \in c : IsGateway(communities, graph, s)}
           most == Greatest(risk, c)
           sum == SumOver(risk, c)
           k == Cardinality(gates)
           total == 55 * most * n + 20 * sum + 15 * pressure * n + 10000 * k
<1>1. c # {} /\ c \subseteq Nodes /\ IsFiniteSet(c) /\ c \subseteq Servers
  BY CommunityFacts, FiniteServers
<1>2. n \in Nat \ {0}
  BY <1>1, FS_CardinalityType, FS_EmptySet
<1>3. \A s \in c : risk[s] \in Nat
  BY <1>1, ServerRiskFacts
<1>4. most \in Nat /\ sum \in Nat
  <2> HIDE DEF risk
  <2> QED BY <1>1, <1>3, GreatestFacts, SumFacts
<1>5. Cardinality(opened) \in Nat /\ k \in Nat
  <2>1. opened \subseteq c /\ gates \subseteq c
    OBVIOUS
  <2> HIDE DEF opened, gates
  <2>2. IsFiniteSet(opened) /\ IsFiniteSet(gates)
    BY <1>1, <2>1, FS_Subset
  <2>3. QED BY <2>2, FS_CardinalityType
<1>6. pressure \in Nat
  <2>1. p \in Nat
    <3> HIDE DEF opened
    <3> QED BY <1>1, <1>5, OpenFacts
  <2> HIDE DEF p
  <2>2. QED BY <2>1 DEF AtMost
<1>7. CommunityRisk(communities, graph, c) = Rounded(total, 100 * n)
  BY DEF CommunityRisk
<1> HIDE DEF most, n, sum, pressure, k
<1>8. total \in Nat /\ 100 * n \in Nat \ {0}
  BY <1>2, <1>4, <1>5, <1>6
<1> HIDE DEF total
<1>9. QED
  BY <1>7, <1>8, RoundedFacts

-----------------------------------------------------------------------------
(* Significance.                                                           *)

\* The level of a risk is critical from 750.
LEMMA LevelIsCritical ==
    ASSUME NEW n \in Int
    PROVE  RiskLevel(n) = "critical" <=> n >= 750
BY DEF RiskLevel

\* Only the codes of the risk are ever critical.
LEMMA SeverityFacts ==
    ASSUME NEW code, NEW x, NEW y
    PROVE  /\ Severity(code, x, y) \in 0 .. 3
           /\ Severity(code, x, y) = 3 => code \in {"risk", "risk_level"}
           /\ code = "risk" => Severity(code, x, y) = RiskChange(x, y)
           /\ code = "risk_level" => Severity(code, x, y) = LevelChange(x, y)
<1>1. /\ RiskChange(x, y) \in 0 .. 3 /\ LevelChange(x, y) \in 0 .. 3
      /\ EvidenceChange(x, y) \in 0 .. 2 /\ FreshnessChange(x, y) \in 0 .. 2
      /\ CoverageChange(x, y) \in 0 .. 2 /\ ConfidenceChange(x, y) \in 0 .. 2
  BY DEF RiskChange, LevelChange, EvidenceChange, FreshnessChange, CoverageChange, ConfidenceChange
<1>2. QED
  BY <1>1 DEF Severity

\* A bundle that tells of a risk.
Scored(b) ==
    /\ b.ref[1] \in {"server", "risk", "community"}
    /\ b.risk.score \in Int /\ b.risk.level = RiskLevel(b.risk.score)

Codes == {"risk", "risk_level", "evidence_level", "coverage", "freshness", "member_count"}

\* Bundles that tell of a risk have its score and its level.
LEMMA FieldsFacts ==
    ASSUME NEW b, Scored(b)
    PROVE  /\ {"risk", "risk_level"} \subseteq DOMAIN Fields(b) /\ DOMAIN Fields(b) \subseteq Codes
           /\ Fields(b)["risk"] = <<b.risk.score>> /\ Fields(b)["risk_level"] = <<b.risk.level>>
<1>1. CASE b.ref[1] = "server"
  BY <1>1 DEF Fields, Codes
<1>2. CASE b.ref[1] = "risk"
  BY <1>2 DEF Fields, Codes
<1>3. CASE b.ref[1] = "community"
  BY <1>3 DEF Fields, Codes
<1>4. QED
  BY <1>1, <1>2, <1>3 DEF Scored

\* Of one path that differs the first is that one.
LEMMA FirstDiffers ==
    ASSUME NEW x, NEW y, x # y
    PROVE  Min(Differs(<<x>>, <<y>>)) = 1
<1>1. Differs(<<x>>, <<y>>) = {1}
  BY DEF Differs
<1>2. Min({1}) \in {1}
  BY MinFacts
<1>3. QED
  BY <1>1, <1>2

\* A change is critical if and only if the risk enters the level.
LEMMA CrossingIsCritical ==
    ASSUME NEW b, NEW c, Scored(b), Scored(c)
    PROVE  Significance(b, c) = 3 <=> (b.risk.level # "critical" /\ c.risk.level = "critical")
<1> DEFINE before == Fields(b)
           after == Fields(c)
           changed == {code \in DOMAIN before : before[code] # after[code]}
           n(code) == Min(Differs(before[code], after[code]))
           f == [code \in changed |-> Severity(code, before[code][n(code)], after[code][n(code)])]
<1>1. Significance(b, c) = Greatest(f, changed)
  BY DEF Significance
<1>2. IsFiniteSet(changed)
  <2>1. IsFiniteSet(Codes)
    <3>1. IsFiniteSet({"risk"} \cup {"risk_level"} \cup {"evidence_level"} \cup {"coverage"}
                         \cup {"freshness"} \cup {"member_count"})
      BY FS_Singleton, FS_Union
    <3>2. Codes = {"risk"} \cup {"risk_level"} \cup {"evidence_level"} \cup {"coverage"}
                         \cup {"freshness"} \cup {"member_count"}
      BY DEF Codes
    <3>3. QED BY <3>1, <3>2
  <2>2. changed \subseteq Codes
    BY FieldsFacts
  <2> HIDE DEF changed
  <2>3. QED BY <2>1, <2>2, FS_Subset
<1>3. \A code \in changed : f[code] \in 0 .. 3 /\ (f[code] = 3 => code \in {"risk", "risk_level"})
  <2> HIDE DEF before, after, changed
  <2>1. \A code \in changed : f[code] = Severity(code, before[code][n(code)], after[code][n(code)])
    OBVIOUS
  <2> HIDE DEF f, n
  <2>2. QED BY <2>1, SeverityFacts
<1>4. /\ "risk" \in changed <=> b.risk.score # c.risk.score
      /\ "risk_level" \in changed <=> b.risk.level # c.risk.level
  BY FieldsFacts
<1>5. ASSUME "risk" \in changed PROVE f["risk"] = RiskChange(b.risk.score, c.risk.score)
  <2>1. before["risk"] = <<b.risk.score>> /\ after["risk"] = <<c.risk.score>>
    BY FieldsFacts
  <2>2. n("risk") = 1
    BY <1>4, <1>5, <2>1, FirstDiffers
  <2>3. f["risk"] = Severity("risk", before["risk"][n("risk")], after["risk"][n("risk")])
    BY <1>5
  <2> HIDE DEF f, n, before, after
  <2>4. QED BY <2>1, <2>2, <2>3, SeverityFacts
<1>6. ASSUME "risk_level" \in changed PROVE f["risk_level"] = LevelChange(b.risk.level, c.risk.level)
  <2>1. before["risk_level"] = <<b.risk.level>> /\ after["risk_level"] = <<c.risk.level>>
    BY FieldsFacts
  <2>2. n("risk_level") = 1
    BY <1>4, <1>6, <2>1, FirstDiffers
  <2>3. f["risk_level"] = Severity("risk_level", before["risk_level"][n("risk_level")],
                                   after["risk_level"][n("risk_level")])
    BY <1>6
  <2> HIDE DEF f, n, before, after
  <2>4. QED BY <2>1, <2>2, <2>3, SeverityFacts
<1> HIDE DEF f, changed
<1>7. /\ Greatest(f, changed) \in {0} \cup {f[x] : x \in changed}
      /\ \A x \in changed : f[x] <= Greatest(f, changed)
      /\ Greatest(f, changed) \in Nat
  <2>1. \A x \in changed : f[x] \in Nat
    BY <1>3
  <2>2. QED BY <1>2, <2>1, GreatestFacts
<1>8. b.risk.score \in Int /\ c.risk.score \in Int
  BY DEF Scored
<1>9. /\ b.risk.level = "critical" <=> b.risk.score >= 750
      /\ c.risk.level = "critical" <=> c.risk.score >= 750
  BY <1>8, LevelIsCritical DEF Scored
<1>10. ASSUME Greatest(f, changed) = 3
       PROVE  b.risk.level # "critical" /\ c.risk.level = "critical"
  <2>1. PICK code \in changed : f[code] = 3
    BY <1>7, <1>10
  <2>2. CASE code = "risk"
    <3>1. RiskChange(b.risk.score, c.risk.score) = 3
      BY <1>5, <2>1, <2>2
    <3>2. b.risk.score < 750 /\ c.risk.score >= 750
      BY <3>1 DEF RiskChange
    <3>3. QED BY <1>8, <1>9, <3>2
  <2>3. CASE code = "risk_level"
    <3>1. LevelChange(b.risk.level, c.risk.level) = 3 /\ b.risk.level # c.risk.level
      BY <1>4, <1>6, <2>1, <2>3
    <3>2. c.risk.level = "critical"
      BY <3>1 DEF LevelChange
    <3>3. QED BY <3>1, <3>2
  <2>4. QED BY <1>3, <2>1, <2>2, <2>3
<1>11. ASSUME b.risk.level # "critical", c.risk.level = "critical"
       PROVE  Greatest(f, changed) = 3
  <2>1. "risk_level" \in changed
    BY <1>4, <1>11
  <2>2. f["risk_level"] = 3
    BY <1>6, <1>11, <2>1 DEF LevelChange
  <2>3. 3 <= Greatest(f, changed)
    BY <1>7, <2>1, <2>2
  <2>4. Greatest(f, changed) <= 3
    BY <1>3, <1>7
  <2>5. QED BY <1>7, <2>3, <2>4
<1>12. QED
  BY <1>1, <1>10, <1>11

-----------------------------------------------------------------------------
(* Capture.                                                                *)

\* What is concluded changes only when what is known does.
LEMMA SameEvidence ==
    ASSUME UNCHANGED known
    PROVE  /\ Nodes' = Nodes /\ graph' = graph /\ communities' = communities
           /\ \A ref : (Explained(ref) <=> Explained(ref)') /\ FirstRead(ref)' = FirstRead(ref)
           /\ \A ref, read : Bundle(ref, read)' = Bundle(ref, read)
<1>1. /\ day' = day /\ ahead' = ahead /\ targeted' = targeted /\ visible' = visible
      /\ latest' = latest /\ comparable' = comparable /\ incidents' = incidents
  BY DEF known
<1>2. Nodes' = Nodes
  BY <1>1 DEF Nodes
<1>3. graph' = graph
  BY <1>1 DEF graph, Total
<1>4. communities' = communities
  BY <1>2, <1>3 DEF communities
<1>5. ASSUME NEW ref PROVE Explained(ref) <=> Explained(ref)'
  BY <1>2, <1>3, <1>4 DEF Explained
<1>6. ASSUME NEW s PROVE /\ Age(s)' = Age(s) /\ Coverage(s)' = Coverage(s)
                         /\ Freshness(s)' = Freshness(s) /\ ServerEvidence(s)' = ServerEvidence(s)
                         /\ OpenAt(s)' = OpenAt(s)
  BY <1>1 DEF Age, Coverage, Freshness, ServerEvidence, OpenAt
<1>7. ASSUME NEW ref PROVE FirstRead(ref)' = FirstRead(ref)
  <2>1. ([s \in Nodes |-> ServerEvidence(s)])' = [s \in Nodes |-> ServerEvidence(s)]
    BY <1>2, <1>6
  <2>2. (CHOOSE e \in EdgeOf(graph, ref) : TRUE)' = CHOOSE e \in EdgeOf(graph, ref) : TRUE
    BY <1>3
  <2>3. /\ Age(ref[2])' = Age(ref[2]) /\ Coverage(ref[2])' = Coverage(ref[2])
        /\ Freshness(ref[2])' = Freshness(ref[2])
        /\ ServerEvidence(ref[2])' = ServerEvidence(ref[2])
    BY <1>6
  <2>4. QED BY <2>1, <2>2, <2>3, Zenon DEF FirstRead
<1>8. ASSUME NEW g PROVE QualityScore(g)' = QualityScore(g)
  <2>1. {s \in Nodes : Coverage(s) < 500}' = {s \in Nodes : Coverage(s) < 500}
    BY <1>2, <1>6
  <2>2. {s \in Nodes : Freshness(s) \in {"stale", "very_stale"}}'
           = {s \in Nodes : Freshness(s) \in {"stale", "very_stale"}}
    BY <1>2, <1>6
  <2>3. {s \in Nodes : Freshness(s) = "no_valid_presence"}'
           = {s \in Nodes : Freshness(s) = "no_valid_presence"}
    BY <1>2, <1>6
  <2>4. Articles' = Articles /\ comparable' = comparable
    BY <1>1 DEF Articles
  <2>5. QED BY <2>1, <2>2, <2>3, <2>4, Zenon DEF QualityScore
<1>9. ASSUME NEW c PROVE OpenIn(c)' = OpenIn(c)
  BY <1>6 DEF OpenIn
<1>10. ASSUME NEW cs, NEW g, NEW s PROVE ServerRisk(cs, g, s)' = ServerRisk(cs, g, s)
  <2>1. ScopeScore(cs)' = ScopeScore(cs)
    BY <1>9 DEF ScopeScore, Affected
  <2>2. GatewayScore(cs, g, s)' = GatewayScore(cs, g, s)
    BY <1>2 DEF GatewayScore
  <2>3. QED BY <1>1, <2>1, <2>2 DEF ServerRisk
<1>11. ASSUME NEW cs, NEW g, NEW c PROVE CommunityRisk(cs, g, c)' = CommunityRisk(cs, g, c)
  BY <1>6, <1>9, <1>10 DEF CommunityRisk
<1>12. ASSUME NEW cs, NEW g, NEW s PROVE RiskRow(cs, g, s)' = RiskRow(cs, g, s)
  BY <1>6, <1>8, <1>10 DEF RiskRow, LevelOf
<1>13. ASSUME NEW cs, NEW g, NEW s PROVE CommunityRow(cs, g, s)' = CommunityRow(cs, g, s)
  BY <1>6, <1>8, <1>11 DEF CommunityRow, CommunityLevel, LevelOf
<1>14. ASSUME NEW ref, NEW read PROVE Bundle(ref, read)' = Bundle(ref, read)
  BY <1>3, <1>4, <1>12, <1>13 DEF Bundle
<1>15. QED
  BY <1>2, <1>3, <1>4, <1>5, <1>7, <1>14

-----------------------------------------------------------------------------
(* The index of conclusions.                                               *)

TableOfWatched ==
    /\ table = [ref \in DOMAIN table |-> table[ref]]
    /\ \E w \in Watched : Range(w) = Conclusions

\* The index lists every conclusion that the instance follows.
LEMMA IndexFacts ==
    ASSUME TableOfWatched
    PROVE  /\ Index \in Seq(Conclusions)
           /\ \A ref \in Conclusions : ref[1] \in Kinds /\ \E n \in 1 .. Len(Index) : Index[n] = ref
<1>1. Index \in Watched /\ Range(Index) = Conclusions
  BY DEF TableOfWatched, Index
<1>2. Index \in Seq(Conclusions) /\ \A ref \in Conclusions : ref[1] \in Kinds
  BY <1>1, WatchedAssumption
<1>3. DOMAIN Index = 1 .. Len(Index)
  BY <1>2
<1>4. QED
  BY <1>1, <1>2, <1>3 DEF Range

\* By induction on the index, a capture lists every conclusion that there is.
LEMMA ListedFacts ==
    ASSUME NEW R, Index \in Seq(R)
    PROVE  /\ Listed \in Seq(R)
           /\ \A n \in 1 .. Len(Index) : Explained(Index[n]) => Index[n] \in Range(Listed)
<1> DEFINE N == Len(Index)
           G == [n \in 1 .. N |->
                    [q \in Seq(R) |-> IF Explained(Index[n]) THEN Append(q, Index[n]) ELSE q]]
           Def(h) == [n \in 0 .. N |->
                         IF n = 0 THEN <<>>
                         ELSE IF Explained(Index[n]) THEN Append(h[n - 1], Index[n])
                         ELSE h[n - 1]]
           upto == CHOOSE h : h = Def(h)
<1>1. N \in Nat /\ <<>> \in Seq(R) /\ \A n \in 1 .. N : Index[n] \in R
  OBVIOUS
<1>2. G \in [1 .. N -> [Seq(R) -> Seq(R)]]
  OBVIOUS
<1>3. PICK f : Iterates(Seq(R), <<>>, N, G, f)
  <2> HIDE DEF N, G
  <2> QED BY <1>1, <1>2, Recursion
<1>4. /\ f \in [0 .. N -> Seq(R)] /\ f[0] = <<>>
      /\ \A n \in 1 .. N : f[n] = IF Explained(Index[n]) THEN Append(f[n - 1], Index[n])
                                  ELSE f[n - 1]
  <2>1. f \in [0 .. N -> Seq(R)] /\ f[0] = <<>> /\ \A n \in 1 .. N : f[n] = G[n][f[n - 1]]
    <3> HIDE DEF G, N
    <3> QED BY <1>3 DEF Iterates
  <2>2. ASSUME NEW n \in 1 .. N
        PROVE  f[n] = IF Explained(Index[n]) THEN Append(f[n - 1], Index[n]) ELSE f[n - 1]
    <3>1. f[n - 1] \in Seq(R) /\ f[n] = G[n][f[n - 1]]
      <4> HIDE DEF G, N
      <4> QED BY <1>1, <2>1
    <3>2. QED BY <3>1
  <2>3. QED BY <2>1, <2>2
<1>5. f = Def(f)
  <2> HIDE DEF N
  <2>1. ASSUME NEW n \in 0 .. N PROVE f[n] = Def(f)[n]
    <3>1. CASE n = 0
      BY <1>4, <3>1
    <3>2. CASE n # 0
      <4>1. n \in 1 .. N
        BY <1>1, <3>2
      <4>2. f[n] = IF Explained(Index[n]) THEN Append(f[n - 1], Index[n]) ELSE f[n - 1]
        BY <1>4, <4>1
      <4>3. Def(f)[n] = IF Explained(Index[n]) THEN Append(f[n - 1], Index[n]) ELSE f[n - 1]
        BY <3>2
      <4> HIDE DEF Def
      <4>4. QED BY <4>2, <4>3
    <3>3. QED BY <3>1, <3>2
  <2>2. QED BY <1>4, <2>1
<1>6. upto = Def(upto)
  <2> HIDE DEF Def
  <2> QED BY <1>5
<1>7. \A n \in 0 .. N : upto[n] = f[n]
  <2> DEFINE T == {n \in 0 .. N : upto[n] = f[n]}
  <2> HIDE DEF N, upto
  <2>0. \A n \in 0 .. N : /\ upto[n] = Def(upto)[n]
                          /\ Def(upto)[n] = IF n = 0 THEN <<>>
                                            ELSE IF Explained(Index[n])
                                            THEN Append(upto[n - 1], Index[n])
                                            ELSE upto[n - 1]
    <3>1. \A n \in 0 .. N : Def(upto)[n] = IF n = 0 THEN <<>>
                                           ELSE IF Explained(Index[n])
                                           THEN Append(upto[n - 1], Index[n])
                                           ELSE upto[n - 1]
      OBVIOUS
    <3> HIDE DEF Def
    <3>2. QED BY <1>6, <3>1
  <2> HIDE DEF Def
  <2>1. 0 \in T
    <3>1. 0 \in 0 .. N
      BY <1>1
    <3>2. QED BY <1>4, <2>0, <3>1
  <2>2. ASSUME NEW n \in 1 .. N, n - 1 \in T PROVE n \in T
    <3>1. n \in 0 .. N /\ n # 0 /\ upto[n - 1] = f[n - 1]
      BY <1>1, <2>2
    <3>2. upto[n] = IF Explained(Index[n]) THEN Append(upto[n - 1], Index[n]) ELSE upto[n - 1]
      BY <2>0, <3>1
    <3>3. upto[n] = f[n]
      <4>1. f[n] = IF Explained(Index[n]) THEN Append(f[n - 1], Index[n]) ELSE f[n - 1]
        BY <1>4
      <4>2. QED BY <3>1, <3>2, <4>1
    <3>4. QED BY <3>1, <3>3
  <2>3. 0 .. N \subseteq T
    <3> HIDE DEF T
    <3> QED BY <1>1, <2>1, <2>2, Induction
  <2>4. QED BY <2>3
<1>8. Listed = f[N]
  <2>1. Listed = upto[N]
    BY Zenon DEF Listed
  <2> HIDE DEF N, upto
  <2>2. QED BY <1>1, <1>7, <2>1
<1> HIDE DEF N
<1> DEFINE S == {n \in 0 .. N : \A k \in 1 .. n : Explained(Index[k]) => Index[k] \in Range(f[n])}
<1>9. 0 \in S
  BY <1>1
<1>10. ASSUME NEW n \in 1 .. N, n - 1 \in S PROVE n \in S
  <2>1. n - 1 \in 0 .. N /\ n \in 0 .. N /\ f[n - 1] \in Seq(R) /\ f[n] \in Seq(R) /\ Index[n] \in R
    BY <1>1, <1>4
  <2>2. /\ Range(f[n - 1]) \subseteq Range(f[n])
        /\ Explained(Index[n]) => Index[n] \in Range(f[n])
    <3>1. CASE ~ Explained(Index[n])
      BY <1>4, <3>1
    <3>2. CASE Explained(Index[n])
      <4>1. f[n] = Append(f[n - 1], Index[n])
        BY <1>4, <3>2
      <4> DEFINE q == f[n - 1]
                 e == Index[n]
      <4> HIDE DEF q, e
      <4>2. q \in Seq(R) /\ e \in R
        BY <2>1 DEF q, e
      <4>3. Range(q) \subseteq Range(Append(q, e)) /\ e \in Range(Append(q, e))
        <5>1. /\ DOMAIN q = 1 .. Len(q) /\ DOMAIN Append(q, e) = 1 .. Len(q) + 1
              /\ Append(q, e)[Len(q) + 1] = e /\ Len(q) \in Nat
              /\ \A k \in 1 .. Len(q) : Append(q, e)[k] = q[k]
          BY <4>2
        <5>2. \A k \in 1 .. Len(q) : k \in 1 .. Len(q) + 1
          BY <5>1
        <5>3. Len(q) + 1 \in 1 .. Len(q) + 1
          BY <5>1
        <5>4. QED BY <5>1, <5>2, <5>3, Zenon DEF Range
      <4>4. QED BY <4>1, <4>3 DEF q, e
    <3>3. QED BY <3>1, <3>2
  <2>3. \A k \in 1 .. n - 1 : Explained(Index[k]) => Index[k] \in Range(f[n - 1])
    BY <1>10
  <2>4. \A k \in 1 .. n : k = n \/ k \in 1 .. n - 1
    BY <1>1
  <2>5. \A k \in 1 .. n : Explained(Index[k]) => Index[k] \in Range(f[n])
    BY <2>2, <2>3, <2>4
  <2>6. QED BY <2>1, <2>5
<1>11. N \in S
  <2> HIDE DEF S
  <2>1. 0 .. N \subseteq S
    BY <1>1, <1>9, <1>10, Induction
  <2>2. QED BY <1>1, <2>1
<1>12. N \in 0 .. N
  BY <1>1
<1>13. QED
  BY <1>4, <1>8, <1>11, <1>12 DEF N

-----------------------------------------------------------------------------
(* Bundles.                                                                *)

\* What the table has of a conclusion.
RowOf(ref, b) == b.ref = ref /\ (ref[1] # "edge" => Scored(b))

\* There is what a conclusion is about.
Present(ref) ==
    /\ ref[1] \in {"server", "risk"} => ref[2] \in Nodes
    /\ ref[1] = "community" => Numbered(communities, ref[2]) # {}

\* A bundle is about its conclusion, and tells of a risk unless it is of an edge.
LEMMA BundleFacts ==
    ASSUME KInv, NEW ref, ref[1] \in Kinds, Present(ref), NEW read
    PROVE  RowOf(ref, Bundle(ref, read))
<1>1. CASE ref[1] \in {"server", "risk"}
  <2>1. Bundle(ref, read) = Canonical(ref, read, RiskRow(communities, graph, ref[2]))
    BY <1>1 DEF Bundle
  <2>2. ServerRisk(communities, graph, ref[2]) \in Nat
    BY <1>1, ServerRiskFacts DEF Present
  <2>3. QED BY <1>1, <2>1, <2>2 DEF RowOf, Scored, Canonical, RiskRow
<1>2. CASE ref[1] = "edge"
  BY <1>2 DEF Bundle, RowOf, Canonical
<1>3. CASE ref[1] = "community"
  <2> DEFINE c == CHOOSE c \in Numbered(communities, ref[2]) : TRUE
  <2>1. c \in communities
    BY <1>3 DEF Present, Numbered
  <2>2. Bundle(ref, read) = Canonical(ref, [s \in c \cap DOMAIN read |-> read[s]],
                                      CommunityRow(communities, graph, c))
    BY <1>3 DEF Bundle
  <2> HIDE DEF c
  <2>3. CommunityRisk(communities, graph, c) \in Nat
    BY <2>1, CommunityRiskFacts
  <2>4. QED BY <1>3, <2>2, <2>3 DEF RowOf, Scored, Canonical, CommunityRow
<1>4. QED
  BY <1>1, <1>2, <1>3 DEF Kinds

-----------------------------------------------------------------------------
(* Captures.                                                               *)

\* The local state of a capture has these fields.
IsLocal(r) == r = [pc |-> r.pc, todo |-> r.todo, steady |-> r.steady, read |-> r.read,
                   bundle |-> r.bundle]

\* What the table holds.
TableInv ==
    /\ TableOfWatched
    /\ \A ref \in Conclusions : \A b \in table[ref] : RowOf(ref, b)

\* Where a capture is, and what it holds.
LocalInv(r) ==
    /\ IsLocal(r)
    /\ r.pc \in {"idle", "down", "next", "risk", "insert"}
    /\ r.todo \in Seq(Conclusions)
    /\ r.pc \in {"risk", "insert"} => r.todo # <<>>
    /\ r.pc = "risk" /\ Head(r.todo)[1] = "server" => Head(r.todo)[2] \in Nodes
    /\ r.pc = "insert" => RowOf(Head(r.todo), r.bundle)

\* The present bundle of a conclusion is in the table.
Done(ref) == Explained(ref) => Bundle(ref, FirstRead(ref)) \in table[ref]

\* What a capture has done that nothing disturbed.
SteadyInv(r) ==
    r.steady /\ r.pc \in {"next", "risk", "insert"} =>
        /\ \A ref \in Conclusions : ref \in Range(r.todo) \/ Done(ref)
        /\ r.pc = "risk" => r.read = FirstRead(Head(r.todo))
        /\ r.pc = "insert" => r.bundle = Bundle(Head(r.todo), FirstRead(Head(r.todo)))

\* The inductive invariant of captures.
SInv ==
    /\ KInv /\ TableInv
    /\ capture = [c \in Capturers |-> capture[c]]
    /\ \A c \in Capturers : \A r \in {capture[c]} : LocalInv(r) /\ SteadyInv(r)

\* Captures start idle, with an empty table.
LEMMA InitSInv == SnapshotsInit => SInv
<1> SUFFICES ASSUME SnapshotsInit PROVE SInv
  OBVIOUS
<1>1. KInv
  BY InitKInv DEF SnapshotsInit
<1>2. TableInv
  <2>1. PICK w \in Watched : table = [ref \in Range(w) |-> {}]
    BY DEF SnapshotsInit
  <2>2. Conclusions = Range(w) /\ \A ref \in Conclusions : table[ref] = {}
    BY <2>1 DEF Conclusions
  <2>3. QED BY <2>1, <2>2 DEF TableInv, TableOfWatched, Conclusions
<1>3. \A c \in Capturers : capture[c] = Idle
  BY DEF SnapshotsInit
<1>4. LocalInv(Idle) /\ SteadyInv(Idle)
  BY DEF Idle, LocalInv, IsLocal, SteadyInv
<1>5. capture = [c \in Capturers |-> capture[c]]
  BY DEF SnapshotsInit
<1>6. QED
  BY <1>1, <1>2, <1>3, <1>4, <1>5 DEF SInv

\* A step that changes nothing known and keeps what the table has leaves the
\* other captures as they were.
LEMMA KeepsOthers ==
    ASSUME UNCHANGED known, Conclusions' = Conclusions,
           \A ref \in Conclusions : table[ref] \subseteq table'[ref],
           NEW r, LocalInv(r), SteadyInv(r)
    PROVE  LocalInv(r)' /\ SteadyInv(r)'
<1>1. /\ Nodes' = Nodes
      /\ \A ref : (Explained(ref) <=> Explained(ref)') /\ FirstRead(ref)' = FirstRead(ref)
      /\ \A ref, read : Bundle(ref, read)' = Bundle(ref, read)
  BY SameEvidence
<1>2. LocalInv(r)'
  BY <1>1 DEF LocalInv
<1>3. ASSUME NEW ref \in Conclusions, Done(ref) PROVE Done(ref)'
  <2>1. Bundle(ref, FirstRead(ref))' = Bundle(ref, FirstRead(ref))
    BY <1>1
  <2>2. QED BY <1>1, <1>3, <2>1 DEF Done
<1>4. SteadyInv(r)'
  <2> SUFFICES ASSUME r.steady, r.pc \in {"next", "risk", "insert"}
               PROVE  /\ \A ref \in Conclusions : ref \in Range(r.todo) \/ Done(ref)'
                      /\ r.pc = "risk" => r.read = FirstRead(Head(r.todo))'
                      /\ r.pc = "insert" => r.bundle = Bundle(Head(r.todo), FirstRead(Head(r.todo)))'
    BY DEF SteadyInv
  <2>1. Bundle(Head(r.todo), FirstRead(Head(r.todo)))' = Bundle(Head(r.todo), FirstRead(Head(r.todo)))
    BY <1>1
  <2>2. QED BY <1>1, <1>3, <2>1 DEF SteadyInv
<1>5. QED
  BY <1>2, <1>4

\* When one capture moves, and the table keeps what it has.
LEMMA OneMoves ==
    ASSUME SInv, UNCHANGED known, NEW c \in Capturers, NEW r,
           capture' = [capture EXCEPT ![c] = r],
           TableInv', Conclusions' = Conclusions,
           \A ref \in Conclusions : table[ref] \subseteq table'[ref],
           LocalInv(r)', SteadyInv(r)'
    PROVE  SInv'
<1>1. KInv'
  BY SameKInv DEF SInv
<1>2. ASSUME NEW d \in Capturers, NEW q \in {capture'[d]} PROVE LocalInv(q)' /\ SteadyInv(q)'
  <2>1. CASE d = c
    <3>1. q = r
      BY <2>1 DEF SInv
    <3>2. QED BY <3>1
  <2>2. CASE d # c
    <3>1. q = capture[d] /\ LocalInv(q) /\ SteadyInv(q)
      BY <2>2 DEF SInv
    <3>2. QED BY <3>1, KeepsOthers
  <2>3. QED BY <2>1, <2>2
<1>3. (capture = [d \in Capturers |-> capture[d]])'
  BY DEF SInv
<1>4. QED
  BY <1>1, <1>2, <1>3 DEF SInv

-----------------------------------------------------------------------------
(* The steps of a capture.                                                 *)

\* Updates of a local state.
LEMMA Updates ==
    ASSUME NEW q, IsLocal(q), NEW x
    PROVE  /\ [q EXCEPT !.pc = x] = [pc |-> x, todo |-> q.todo, steady |-> q.steady,
                                     read |-> q.read, bundle |-> q.bundle]
           /\ [q EXCEPT !.todo = x] = [pc |-> q.pc, todo |-> x, steady |-> q.steady,
                                       read |-> q.read, bundle |-> q.bundle]
           /\ [q EXCEPT !.read = x] = [pc |-> q.pc, todo |-> q.todo, steady |-> q.steady,
                                       read |-> x, bundle |-> q.bundle]
           /\ [q EXCEPT !.bundle = x] = [pc |-> q.pc, todo |-> q.todo, steady |-> q.steady,
                                         read |-> q.read, bundle |-> x]
<1>1. PICK p, t, s, r, u : q = [pc |-> p, todo |-> t, steady |-> s, read |-> r, bundle |-> u]
  BY DEF IsLocal
<1>2. q.pc = p /\ q.todo = t /\ q.steady = s /\ q.read = r /\ q.bundle = u
  BY <1>1
<1>3. [q EXCEPT !.pc = x] = [pc |-> x, todo |-> t, steady |-> s, read |-> r, bundle |-> u]
  BY <1>1
<1>4. [q EXCEPT !.todo = x] = [pc |-> p, todo |-> x, steady |-> s, read |-> r, bundle |-> u]
  BY <1>1
<1>5. [q EXCEPT !.read = x] = [pc |-> p, todo |-> t, steady |-> s, read |-> x, bundle |-> u]
  BY <1>1
<1>6. [q EXCEPT !.bundle = x] = [pc |-> p, todo |-> t, steady |-> s, read |-> r, bundle |-> x]
  BY <1>1
<1>7. QED
  BY <1>2, <1>3, <1>4, <1>5, <1>6

\* The same, by name.
SetPc(q, x) == [q EXCEPT !.pc = x]
SetTodo(q, x) == [q EXCEPT !.todo = x]
SetRead(q, x) == [q EXCEPT !.read = x]
SetBundle(q, x) == [q EXCEPT !.bundle = x]

\* Updates of two fields and of three.
LEMMA Rows ==
    ASSUME NEW q, IsLocal(q), NEW a, NEW x, NEW b
    PROVE  /\ SetRead(SetPc(q, a), b)
                 = [pc |-> a, todo |-> q.todo, steady |-> q.steady, read |-> b, bundle |-> q.bundle]
           /\ SetRead(SetBundle(SetPc(q, a), x), b)
                 = [pc |-> a, todo |-> q.todo, steady |-> q.steady, read |-> b, bundle |-> x]
           /\ SetRead(SetTodo(SetPc(q, a), x), b)
                 = [pc |-> a, todo |-> x, steady |-> q.steady, read |-> b, bundle |-> q.bundle]
           /\ SetBundle(SetTodo(SetPc(q, a), x), b)
                 = [pc |-> a, todo |-> x, steady |-> q.steady, read |-> q.read, bundle |-> b]
<1> DEFINE p == [q EXCEPT !.pc = a]
           s == [p EXCEPT !.bundle = x]
           t == [p EXCEPT !.todo = x]
<1>1. p = [pc |-> a, todo |-> q.todo, steady |-> q.steady, read |-> q.read, bundle |-> q.bundle]
  BY Updates
<1> HIDE DEF p
<1>2. /\ s = [pc |-> a, todo |-> q.todo, steady |-> q.steady, read |-> q.read, bundle |-> x]
      /\ t = [pc |-> a, todo |-> x, steady |-> q.steady, read |-> q.read, bundle |-> q.bundle]
      /\ [p EXCEPT !.read = b]
            = [pc |-> a, todo |-> q.todo, steady |-> q.steady, read |-> b, bundle |-> q.bundle]
  BY <1>1
<1> HIDE DEF s, t
<1>3. /\ [s EXCEPT !.read = b]
            = [pc |-> a, todo |-> q.todo, steady |-> q.steady, read |-> b, bundle |-> x]
      /\ [t EXCEPT !.read = b]
            = [pc |-> a, todo |-> x, steady |-> q.steady, read |-> b, bundle |-> q.bundle]
      /\ [t EXCEPT !.bundle = b]
            = [pc |-> a, todo |-> x, steady |-> q.steady, read |-> q.read, bundle |-> b]
  BY <1>2
<1>4. QED
  BY <1>2, <1>3 DEF p, s, t, SetPc, SetTodo, SetRead, SetBundle

\* What is left to do is the next conclusion and the rest.
LEMMA HeadAndTail ==
    ASSUME NEW R, NEW q \in Seq(R), q # <<>>
    PROVE  /\ Head(q) \in R /\ Tail(q) \in Seq(R)
           /\ \A x \in Range(q) : x = Head(q) \/ x \in Range(Tail(q))
<1>1. Head(q) \in R /\ Tail(q) \in Seq(R)
  OBVIOUS
<1>2. ASSUME NEW x \in Range(q), x # Head(q) PROVE x \in Range(Tail(q))
  <2>1. PICK n \in 1 .. Len(q) : q[n] = x
    BY DEF Range
  <2>2. n # 1 /\ n - 1 \in 1 .. Len(q) - 1
    BY <1>2, <2>1
  <2>3. n - 1 \in DOMAIN Tail(q) /\ Tail(q)[n - 1] = x
    BY <2>1, <2>2
  <2>4. QED BY <2>3 DEF Range
<1>3. QED
  BY <1>1, <1>2

\* When anything changes, captures that are under way are not steady any more.
LEMMA LearnSInv ==
    ASSUME SInv, Learn, UNCHANGED <<table, passes>>,
           capture' = [c \in Capturers |-> IF capture[c].pc \in {"idle", "down"} THEN capture[c]
                                           ELSE [capture[c] EXCEPT !.steady = FALSE]]
    PROVE  SInv'
<1>1. KInv' /\ Grows
  BY LearnKInv DEF SInv
<1>2. Conclusions' = Conclusions /\ TableInv'
  BY DEF SInv, TableInv, TableOfWatched, Conclusions
<1>3. \A s \in Nodes : s \in Nodes'
  BY <1>1 DEF Nodes, Grows
<1>4. ASSUME NEW c \in Capturers, NEW r \in {capture'[c]}
      PROVE  LocalInv(r)' /\ SteadyInv(r)'
  <2> DEFINE q == capture[c]
  <2>1. LocalInv(q)
    BY DEF SInv
  <2>2. CASE q.pc \in {"idle", "down"}
    <3>1. r = q
      BY <2>2
    <3>2. QED BY <1>2, <2>1, <2>2, <3>1 DEF LocalInv, SteadyInv
  <2>3. CASE q.pc \notin {"idle", "down"}
    <3>1. r = [q EXCEPT !.steady = FALSE] /\ IsLocal(q)
      BY <2>1, <2>3 DEF LocalInv
    <3> HIDE DEF q
    <3>2. r = [pc |-> q.pc, todo |-> q.todo, steady |-> FALSE, read |-> q.read, bundle |-> q.bundle]
      BY <3>1 DEF IsLocal
    <3>3. LocalInv(r)'
      BY <1>2, <1>3, <2>1, <3>2 DEF LocalInv, IsLocal
    <3>4. SteadyInv(r)'
      BY <3>2 DEF SteadyInv
    <3>5. QED BY <3>3, <3>4
  <2>4. QED BY <2>2, <2>3
<1>5. QED
  BY <1>1, <1>2, <1>4 DEF SInv

\* OneMoves, for a step that leaves the table as it is.
LEMMA Moves ==
    ASSUME SInv, UNCHANGED known, UNCHANGED table, NEW c \in Capturers, NEW r,
           capture' = [capture EXCEPT ![c] = r],
           LocalInv(r), SteadyInv(r)
    PROVE  SInv'
<1>1. Conclusions' = Conclusions /\ TableInv'
  BY DEF SInv, TableInv, TableOfWatched, Conclusions
<1>2. LocalInv(r)' /\ SteadyInv(r)'
  BY <1>1, KeepsOthers
<1>3. QED
  BY <1>1, <1>2, OneMoves

\* A capture begins with every conclusion that there is.
LEMMA BeginSInv ==
    ASSUME SInv, NEW c \in Capturers, Begin(c)
    PROVE  SInv'
<1>1. SUFFICES ASSUME NEW r, r = [Idle EXCEPT !.pc = "next", !.todo = Listed]
               PROVE  SInv'
  OBVIOUS
<1>2. capture' = [capture EXCEPT ![c] = r] /\ UNCHANGED known /\ UNCHANGED table
  BY <1>1 DEF Begin
<1>3. r = [pc |-> "next", todo |-> Listed, steady |-> TRUE, read |-> <<>>, bundle |-> <<>>]
  BY <1>1 DEF Idle
<1>4. TableOfWatched
  BY DEF SInv, TableInv
<1>5. Listed \in Seq(Conclusions)
  BY <1>4, IndexFacts, ListedFacts
<1>6. ASSUME NEW ref \in Conclusions, Explained(ref) PROVE ref \in Range(Listed)
  <2>1. PICK n \in 1 .. Len(Index) : Index[n] = ref
    BY <1>4, IndexFacts
  <2>2. QED BY <1>4, <1>6, <2>1, IndexFacts, ListedFacts
<1>7. LocalInv(r)
  BY <1>3, <1>5 DEF LocalInv, IsLocal
<1>8. SteadyInv(r)
  BY <1>3, <1>6 DEF SteadyInv, Done
<1>9. QED
  BY <1>2, <1>7, <1>8, Moves

\* What a capture that is at a conclusion has before it.
LEMMA AtHead ==
    ASSUME SInv, NEW c \in Capturers, NEW q, q = capture[c], q.todo # <<>>
    PROVE  /\ IsLocal(q) /\ LocalInv(q) /\ SteadyInv(q) /\ KInv
           /\ Head(q.todo) \in Conclusions /\ Head(q.todo)[1] \in Kinds
           /\ Tail(q.todo) \in Seq(Conclusions)
           /\ \A ref \in Range(q.todo) : ref = Head(q.todo) \/ ref \in Range(Tail(q.todo))
<1>1. LocalInv(q) /\ SteadyInv(q) /\ KInv /\ TableOfWatched
  BY DEF SInv, TableInv
<1>2. IsLocal(q) /\ q.todo \in Seq(Conclusions)
  BY <1>1 DEF LocalInv
<1>3. QED
  BY <1>1, <1>2, HeadAndTail, IndexFacts

\* A capture skips a conclusion of which it finds no evidence.
LEMMA ReadEvidenceSInv ==
    ASSUME SInv, NEW c \in Capturers, ReadEvidence(c)
    PROVE  SInv'
<1>1. SUFFICES ASSUME NEW q, q = capture[c] PROVE SInv'
  OBVIOUS
<1> DEFINE ref == Head(q.todo)
           found == ref[1] \in {"server", "edge"} => Explained(ref)
<1>2. /\ q.pc = "next" /\ q.todo # <<>> /\ UNCHANGED known /\ UNCHANGED table
      /\ capture' = IF found
                    THEN [capture EXCEPT ![c].pc = "risk", ![c].read = FirstRead(ref)]
                    ELSE [capture EXCEPT ![c].todo = Tail(@)]
  BY <1>1 DEF ReadEvidence
<1>3. /\ IsLocal(q) /\ LocalInv(q) /\ SteadyInv(q)
      /\ ref \in Conclusions /\ ref[1] \in Kinds
      /\ Tail(q.todo) \in Seq(Conclusions)
      /\ \A x \in Range(q.todo) : x = ref \/ x \in Range(Tail(q.todo))
  BY <1>1, <1>2, AtHead
<1>4. capture = [d \in Capturers |-> capture[d]]
  BY DEF SInv
<1>5. q.todo \in Seq(Conclusions)
  BY <1>3 DEF LocalInv
<1>6. CASE found
  <2>1. SUFFICES ASSUME NEW r, r = [pc |-> "risk", todo |-> q.todo, steady |-> q.steady,
                                    read |-> FirstRead(ref), bundle |-> q.bundle]
                 PROVE  SInv'
    OBVIOUS
  <2>2. capture' = [capture EXCEPT ![c] = r]
    <3>1. capture' = [capture EXCEPT ![c].pc = "risk", ![c].read = FirstRead(ref)]
      BY <1>2, <1>6
    <3> DEFINE read == FirstRead(ref)
    <3> HIDE DEF ref, read
    <3>2. capture' = [capture EXCEPT ![c] = SetRead(SetPc(q, "risk"), read)]
      BY <1>1, <1>4, <3>1 DEF read, SetPc, SetRead
    <3>3. SetRead(SetPc(q, "risk"), read) = r
      BY <1>3, <2>1, Rows DEF read
    <3>4. QED BY <3>2, <3>3
  <2>3. LocalInv(r)
    <3>1. ref[1] = "server" => ref[2] \in Nodes
      BY <1>6 DEF Explained
    <3>2. QED BY <1>2, <1>5, <2>1, <3>1 DEF LocalInv, IsLocal
  <2>4. SteadyInv(r)
    BY <1>2, <1>3, <2>1 DEF SteadyInv
  <2>5. QED
    BY <1>2, <2>2, <2>3, <2>4, Moves
<1>7. CASE ~ found
  <2>1. SUFFICES ASSUME NEW r, r = [pc |-> q.pc, todo |-> Tail(q.todo), steady |-> q.steady,
                                    read |-> q.read, bundle |-> q.bundle]
                 PROVE  SInv'
    OBVIOUS
  <2>2. capture' = [capture EXCEPT ![c] = r]
    <3>1. capture' = [capture EXCEPT ![c].todo = Tail(@)]
      BY <1>2, <1>7
    <3>2. capture' = [capture EXCEPT ![c] = [q EXCEPT !.todo = Tail(q.todo)]]
      BY <1>1, <1>4, <3>1
    <3>3. [q EXCEPT !.todo = Tail(q.todo)] = r
      BY <1>3, <2>1, Updates
    <3>4. QED BY <3>2, <3>3
  <2>3. LocalInv(r)
    BY <1>2, <1>3, <2>1 DEF LocalInv, IsLocal
  <2>4. SteadyInv(r)
    BY <1>2, <1>3, <1>7, <2>1 DEF SteadyInv, Done
  <2>5. QED
    BY <1>2, <2>2, <2>3, <2>4, Moves
<1>8. QED
  BY <1>6, <1>7

\* A capture goes on to insert the bundle unless it is stored.
LEMMA ReadRiskSInv ==
    ASSUME SInv, NEW c \in Capturers, ReadRisk(c)
    PROVE  SInv'
<1>1. SUFFICES ASSUME NEW q, q = capture[c] PROVE SInv'
  OBVIOUS
<1> DEFINE ref == Head(q.todo)
           found == ref[1] \in {"risk", "community"} => Explained(ref)
           bundle == Bundle(ref, q.read)
<1>2. /\ q.pc = "risk" /\ UNCHANGED known /\ UNCHANGED table
      /\ capture' = IF found /\ ~ Stored(bundle)
                    THEN [capture EXCEPT ![c].pc = "insert", ![c].bundle = bundle,
                                         ![c].read = <<>>]
                    ELSE [capture EXCEPT ![c].pc = "next", ![c].todo = Tail(@),
                                         ![c].read = <<>>]
  BY <1>1 DEF ReadRisk
<1>3. q.todo # <<>>
  BY <1>1, <1>2 DEF SInv, LocalInv
<1>4. /\ IsLocal(q) /\ LocalInv(q) /\ SteadyInv(q) /\ KInv
      /\ ref \in Conclusions /\ ref[1] \in Kinds
      /\ Tail(q.todo) \in Seq(Conclusions)
      /\ \A x \in Range(q.todo) : x = ref \/ x \in Range(Tail(q.todo))
  BY <1>1, <1>3, AtHead
<1>5. capture = [d \in Capturers |-> capture[d]]
  BY DEF SInv
<1>6. q.todo \in Seq(Conclusions) /\ (ref[1] = "server" => ref[2] \in Nodes)
  BY <1>2, <1>4 DEF LocalInv
<1>7. ASSUME found PROVE RowOf(ref, bundle)
  <2>1. Present(ref)
    BY <1>6, <1>7 DEF Present, Explained
  <2>2. QED BY <1>4, <2>1, BundleFacts
<1>8. q.steady => /\ \A x \in Conclusions : x \in Range(q.todo) \/ Done(x)
                  /\ q.read = FirstRead(ref)
  BY <1>2, <1>4 DEF SteadyInv
<1>9. CASE found /\ ~ Stored(bundle)
  <2>1. SUFFICES ASSUME NEW r, r = [pc |-> "insert", todo |-> q.todo, steady |-> q.steady,
                                    read |-> <<>>, bundle |-> bundle]
                 PROVE  SInv'
    OBVIOUS
  <2>2. capture' = [capture EXCEPT ![c] = r]
    <3>1. capture' = [capture EXCEPT ![c].pc = "insert", ![c].bundle = bundle, ![c].read = <<>>]
      BY <1>2, <1>9
    <3> HIDE DEF bundle
    <3>2. capture' = [capture EXCEPT ![c] =
                         SetRead(SetBundle(SetPc(q, "insert"), bundle), <<>>)]
      BY <1>1, <1>5, <3>1 DEF SetPc, SetBundle, SetRead
    <3>3. SetRead(SetBundle(SetPc(q, "insert"), bundle), <<>>) = r
      BY <1>4, <2>1, Rows
    <3>4. QED BY <3>2, <3>3
  <2>3. LocalInv(r)
    BY <1>3, <1>6, <1>7, <1>9, <2>1 DEF LocalInv, IsLocal
  <2>4. SteadyInv(r)
    BY <1>8, <2>1 DEF SteadyInv
  <2>5. QED
    BY <1>2, <2>2, <2>3, <2>4, Moves
<1>10. CASE ~ (found /\ ~ Stored(bundle))
  <2>1. SUFFICES ASSUME NEW r, r = [pc |-> "next", todo |-> Tail(q.todo), steady |-> q.steady,
                                    read |-> <<>>, bundle |-> q.bundle]
                 PROVE  SInv'
    OBVIOUS
  <2>2. capture' = [capture EXCEPT ![c] = r]
    <3>1. capture' = [capture EXCEPT ![c].pc = "next", ![c].todo = Tail(@), ![c].read = <<>>]
      BY <1>2, <1>10
    <3> DEFINE rest == Tail(q.todo)
    <3> HIDE DEF rest
    <3>2. capture' = [capture EXCEPT ![c].pc = "next", ![c].todo = rest, ![c].read = <<>>]
      BY <1>1, <3>1 DEF rest
    <3>3. capture' = [capture EXCEPT ![c] =
                         SetRead(SetTodo(SetPc(q, "next"), rest), <<>>)]
      BY <1>1, <1>5, <3>2 DEF SetPc, SetTodo, SetRead, SetBundle
    <3>4. r = [pc |-> "next", todo |-> rest, steady |-> q.steady, read |-> <<>>, bundle |-> q.bundle]
      BY <2>1 DEF rest
    <3>5. SetRead(SetTodo(SetPc(q, "next"), rest), <<>>) = r
      BY <1>4, <3>4, Rows
    <3>6. QED BY <3>3, <3>5
  <2>3. LocalInv(r)
    BY <1>4, <2>1 DEF LocalInv, IsLocal
  <2>4. ASSUME q.steady PROVE Done(ref)
    <3>1. CASE ~ found
      BY <3>1 DEF Done
    <3>2. CASE found
      <4>1. bundle.ref = ref /\ bundle \in table[bundle.ref]
        BY <1>7, <1>10, <3>2 DEF RowOf, Stored
      <4>2. bundle = Bundle(ref, FirstRead(ref))
        BY <1>8, <2>4
      <4>3. QED BY <4>1, <4>2 DEF Done
    <3>3. QED BY <3>1, <3>2
  <2>5. SteadyInv(r)
    BY <1>4, <1>8, <2>1, <2>4 DEF SteadyInv
  <2>6. QED
    BY <1>2, <2>2, <2>3, <2>5, Moves
<1>11. QED
  BY <1>9, <1>10

\* What is inserted belongs to its conclusion, and nothing is removed.
LEMMA InsertSInv ==
    ASSUME SInv, NEW c \in Capturers, Insert(c)
    PROVE  SInv'
<1>1. SUFFICES ASSUME NEW q, q = capture[c] PROVE SInv'
  OBVIOUS
<1> DEFINE ref == Head(q.todo)
           bundle == q.bundle
<1>2. /\ q.pc = "insert" /\ UNCHANGED known
      /\ \/ capture' = [capture EXCEPT ![c] = Down] /\ UNCHANGED table
         \/ /\ table' = [table EXCEPT ![bundle.ref] = @ \cup {bundle}]
            /\ capture' = [capture EXCEPT ![c].pc = "next", ![c].todo = Tail(@),
                                          ![c].bundle = <<>>]
  BY <1>1 DEF Insert
<1>3. q.todo # <<>>
  BY <1>1, <1>2 DEF SInv, LocalInv
<1>4. /\ IsLocal(q) /\ LocalInv(q) /\ SteadyInv(q) /\ KInv
      /\ ref \in Conclusions /\ ref[1] \in Kinds
      /\ Tail(q.todo) \in Seq(Conclusions)
      /\ \A x \in Range(q.todo) : x = ref \/ x \in Range(Tail(q.todo))
  BY <1>1, <1>3, AtHead
<1>5. capture = [d \in Capturers |-> capture[d]] /\ TableInv
  BY DEF SInv
<1>6. RowOf(ref, bundle) /\ bundle.ref = ref
  BY <1>2, <1>4 DEF LocalInv, RowOf
<1>7. q.steady => /\ \A x \in Conclusions : x \in Range(q.todo) \/ Done(x)
                  /\ bundle = Bundle(ref, FirstRead(ref))
  BY <1>2, <1>4 DEF SteadyInv
<1>8. CASE capture' = [capture EXCEPT ![c] = Down] /\ UNCHANGED table
  <2>1. SUFFICES ASSUME NEW r, r = Down PROVE SInv'
    OBVIOUS
  <2>2. r = [pc |-> "down", todo |-> <<>>, steady |-> TRUE, read |-> <<>>, bundle |-> <<>>]
    BY <2>1 DEF Down, Idle
  <2>3. LocalInv(r) /\ SteadyInv(r)
    BY <2>2 DEF LocalInv, IsLocal, SteadyInv
  <2>4. QED
    BY <1>2, <1>8, <2>1, <2>3, Moves
<1>9. CASE /\ table' = [table EXCEPT ![bundle.ref] = @ \cup {bundle}]
           /\ capture' = [capture EXCEPT ![c].pc = "next", ![c].todo = Tail(@),
                                         ![c].bundle = <<>>]
  <2>1. SUFFICES ASSUME NEW r, r = [pc |-> "next", todo |-> Tail(q.todo), steady |-> q.steady,
                                    read |-> q.read, bundle |-> <<>>]
                 PROVE  SInv'
    OBVIOUS
  <2>2. capture' = [capture EXCEPT ![c] = r]
    <3>1. capture' = [capture EXCEPT ![c].pc = "next", ![c].todo = Tail(@), ![c].bundle = <<>>]
      BY <1>9
    <3> DEFINE rest == Tail(q.todo)
    <3> HIDE DEF rest
    <3>2. capture' = [capture EXCEPT ![c].pc = "next", ![c].todo = rest, ![c].bundle = <<>>]
      BY <1>1, <3>1 DEF rest
    <3>3. capture' = [capture EXCEPT ![c] =
                         SetBundle(SetTodo(SetPc(q, "next"), rest), <<>>)]
      BY <1>1, <1>5, <3>2 DEF SetPc, SetTodo, SetRead, SetBundle
    <3>4. r = [pc |-> "next", todo |-> rest, steady |-> q.steady, read |-> q.read, bundle |-> <<>>]
      BY <2>1 DEF rest
    <3>5. SetBundle(SetTodo(SetPc(q, "next"), rest), <<>>) = r
      BY <1>4, <3>4, Rows
    <3>6. QED BY <3>3, <3>5
  <2> HIDE DEF ref, bundle
  <2>3. table' = [table EXCEPT ![ref] = @ \cup {bundle}]
    BY <1>6, <1>9
  <2>4. table = [x \in Conclusions |-> table[x]]
    BY <1>5 DEF TableInv, TableOfWatched, Conclusions
  <2>5. /\ Conclusions' = Conclusions
        /\ \A x \in Conclusions : table[x] \subseteq table'[x]
        /\ \A x \in Conclusions : table'[x] = table[x] \/ (x = ref /\ table'[x] = table[x] \cup {bundle})
        /\ bundle \in table'[ref]
        /\ (table = [x \in DOMAIN table |-> table[x]])'
    BY <1>4, <2>3, <2>4 DEF Conclusions
  <2>6. TableInv'
    BY <1>5, <1>6, <2>5 DEF TableInv, TableOfWatched
  <2>7. LocalInv(r)'
    BY <1>4, <2>1, <2>5 DEF LocalInv, IsLocal
  <2>8. ASSUME NEW x \in Conclusions, Done(x) PROVE Done(x)'
    <3>1. /\ Explained(x) <=> Explained(x)'
          /\ Bundle(x, FirstRead(x))' = Bundle(x, FirstRead(x))
      BY <1>2, SameEvidence
    <3>2. QED BY <2>5, <2>8, <3>1 DEF Done
  <2>9. ASSUME q.steady PROVE Done(ref)'
    <3>1. bundle = Bundle(ref, FirstRead(ref))
      BY <1>7, <2>9
    <3>2. Bundle(ref, FirstRead(ref))' = Bundle(ref, FirstRead(ref))
      BY <1>2, SameEvidence
    <3>3. QED BY <2>5, <3>1, <3>2 DEF Done
  <2>10. SteadyInv(r)'
    <3> SUFFICES ASSUME r.steady, NEW x \in Conclusions
                 PROVE  x \in Range(r.todo) \/ Done(x)'
      BY <2>1, <2>5 DEF SteadyInv
    <3>1. q.steady /\ r.todo = Tail(q.todo)
      BY <2>1
    <3>2. x \in Range(q.todo) \/ Done(x)
      BY <1>7, <3>1
    <3>3. CASE x = ref
      BY <2>9, <3>1, <3>3
    <3>4. QED BY <1>4, <2>8, <3>1, <3>2, <3>3
  <2>11. QED
    BY <1>2, <2>2, <2>5, <2>6, <2>7, <2>10, OneMoves
<1>10. QED
  BY <1>2, <1>8, <1>9

-----------------------------------------------------------------------------
(* Captures, in every state.                                               *)

\* Captures end, or start again after they failed.
LEMMA IdlesSInv ==
    ASSUME SInv, NEW c \in Capturers, Finish(c) \/ Restart(c)
    PROVE  SInv'
<1>1. SUFFICES ASSUME NEW r, r = Idle PROVE SInv'
  OBVIOUS
<1>2. capture' = [capture EXCEPT ![c] = r] /\ UNCHANGED known /\ UNCHANGED table
  BY <1>1 DEF Finish, Restart
<1>3. r = [pc |-> "idle", todo |-> <<>>, steady |-> TRUE, read |-> <<>>, bundle |-> <<>>]
  BY <1>1 DEF Idle
<1>4. LocalInv(r) /\ SteadyInv(r)
  BY <1>3 DEF LocalInv, IsLocal, SteadyInv
<1>5. QED
  BY <1>2, <1>4, Moves

\* All steps.
LEMMA NextSInv ==
    ASSUME SInv, [Next]_vars
    PROVE  SInv'
<1>1. CASE UNCHANGED vars
  <2>1. UNCHANGED known /\ UNCHANGED table /\ UNCHANGED capture
    BY <1>1 DEF vars, known
  <2>2. KInv' /\ TableInv' /\ Conclusions' = Conclusions
    BY <2>1, SameKInv DEF SInv, TableInv, TableOfWatched, Conclusions
  <2>3. ASSUME NEW c \in Capturers, NEW r \in {capture'[c]} PROVE LocalInv(r)' /\ SteadyInv(r)'
    <3>1. LocalInv(r) /\ SteadyInv(r)
      BY <2>1 DEF SInv
    <3>2. QED BY <2>1, <2>2, <3>1, KeepsOthers
  <2>4. QED BY <2>1, <2>2, <2>3 DEF SInv
<1>2. CASE /\ Learn
           /\ capture' = [c \in Capturers |-> IF capture[c].pc \in {"idle", "down"} THEN capture[c]
                                              ELSE [capture[c] EXCEPT !.steady = FALSE]]
           /\ UNCHANGED <<table, passes>>
  BY <1>2, LearnSInv
<1>3. ASSUME NEW c \in Capturers,
             Begin(c) \/ ReadEvidence(c) \/ ReadRisk(c) \/ Insert(c) \/ Finish(c) \/ Restart(c)
      PROVE  SInv'
  BY <1>3, BeginSInv, ReadEvidenceSInv, ReadRiskSInv, InsertSInv, IdlesSInv
<1>4. QED
  BY <1>1, <1>2, <1>3 DEF Next

\* What captures hold and what the table has belong to conclusions that the
\* instance follows, each bundle to its own, and as long as nothing changes a
\* capture leaves no conclusion out.
THEOREM CapturesAreSound == Spec => []SInv
<1>1. SnapshotsInit => SInv
  BY InitSInv
<1>2. SInv /\ [Next]_vars => SInv'
  BY NextSInv
<1>3. QED
  BY <1>1, <1>2, PTL DEF Spec

\* What the table holds is enough to compare.
LEMMA RowsCross == SInv => CrossingsAreCritical
<1> SUFFICES ASSUME SInv, NEW ref \in Conclusions, ref[1] # "edge",
                    NEW x \in table[ref], NEW y \in table[ref]
             PROVE  (Significance(x, y) = 3) <=> (x.risk.level # "critical" /\ y.risk.level = "critical")
  BY DEF CrossingsAreCritical
<1>1. Scored(x) /\ Scored(y)
  BY DEF SInv, TableInv, RowOf
<1>2. QED
  BY <1>1, CrossingIsCritical

\* A change is classified as critical if and only if the risk enters the level
\* "critical", for all bundles that any captures ever stored: only the codes of
\* the risk are ever critical, and their thresholds agree.
THEOREM Crossings == Spec => []CrossingsAreCritical
BY CapturesAreSound, RowsCross, PTL

\* Whoever finishes has nothing left to do.
LEMMA FinishIsComplete ==
    ASSUME SInv, NEW c \in Capturers, Finish(c), capture[c].steady,
           NEW ref \in Conclusions, Explained(ref)
    PROVE  Bundle(ref, FirstRead(ref)) \in table[ref]
<1>1. SUFFICES ASSUME NEW q, q = capture[c] PROVE Bundle(ref, FirstRead(ref)) \in table[ref]
  OBVIOUS
<1>2. q.pc = "next" /\ q.todo = <<>> /\ SteadyInv(q)
  BY <1>1 DEF Finish, SInv
<1>3. ref \in Range(q.todo) \/ Done(ref)
  BY <1>1, <1>2 DEF SteadyInv
<1>4. ref \notin Range(q.todo)
  BY <1>2 DEF Range
<1>5. QED
  BY <1>3, <1>4 DEF Done

\* A pass during which nothing changed leaves the present bundle of every
\* conclusion in the table, whatever other processes capture meanwhile.
THEOREM Complete == Spec => CaptureIsComplete
<1>1. SInv /\ [Next]_vars
        => [\A c \in Capturers :
               Finish(c) /\ capture[c].steady
               => \A ref \in Conclusions : Explained(ref) =>
                     Bundle(ref, FirstRead(ref)) \in table[ref]]_vars
  BY FinishIsComplete
<1>2. QED
  BY <1>1, CapturesAreSound, PTL DEF Spec, CaptureIsComplete

-----------------------------------------------------------------------------
(* Servers that are asked for the first time.                              *)

\* A server is in the community that it reaches, which has a number.
LEMMA HomeIsReached ==
    ASSUME NEW nodes, IsFiniteSet(nodes), nodes \subseteq Nat, NEW links, NEW s \in nodes
    PROVE  /\ HomeOf(Components(nodes, links), s) = Reached(nodes, links, s)
           /\ CommunityId(Components(nodes, links), s) # 0
<1> DEFINE cs == Components(nodes, links)
           home == HomeOf(cs, s)
           before == {d \in cs : Min(d) <= Min(home)}
<1>0. UNION cs = nodes
  BY ComponentsPartition
<1>1. PICK c \in cs : s \in c
  BY <1>0
<1>2. home \in cs /\ s \in home
  BY <1>1 DEF HomeOf
<1>3. home = Reached(nodes, links, s)
  <2> HIDE DEF home
  <2> QED BY <1>2, ComponentsPartition
<1>4. home \subseteq nodes /\ home # {}
  <2> HIDE DEF home
  <2> QED BY <1>2, <1>3, ReachedIsClosed
<1>5. Min(home) \in Int
  <2> HIDE DEF home
  <2>1. IsFiniteSet(home)
    BY <1>4, FS_Subset
  <2>2. home \in SUBSET Int
    BY <1>4
  <2>3. QED BY <1>4, <2>1, <2>2, MinFacts
<1>6. home \in before
  <2> HIDE DEF home, cs
  <2> QED BY <1>2, <1>5
<1>7. IsFiniteSet(before)
  <2>1. IsFiniteSet(cs)
    BY FiniteComponents
  <2> HIDE DEF home, cs
  <2>2. QED BY <2>1, FS_Subset
<1>8. Cardinality(before) # 0
  <2> HIDE DEF before
  <2> QED BY <1>6, <1>7, FS_EmptySet
<1>9. s \in UNION cs
  BY <1>1
<1>10. CommunityId(cs, s) = Cardinality(before)
  <2> HIDE DEF cs
  <2> QED BY <1>9 DEF CommunityId
<1>11. QED
  BY <1>3, <1>8, <1>10

\* More nodes than those that links are between.
Joined(old, all, links) ==
    /\ IsFiniteSet(all) /\ old \subseteq all /\ all \subseteq Nat
    /\ \A e \in links : e.from \in old /\ e.to \in old /\ e.from # e.to

\* More nodes without links are components of their own, and change no other.
LEMMA Alone ==
    ASSUME NEW old, NEW all, NEW links, Joined(old, all, links)
    PROVE  /\ \A s \in old : Reached(all, links, s) = Reached(old, links, s)
           /\ \A s \in all \ old : Reached(all, links, s) = {s}
           /\ Components(all, links) = Components(old, links) \cup {{s} : s \in all \ old}
<1>0. /\ IsFiniteSet(all) /\ old \subseteq all
      /\ \A e \in links : e.from \in old /\ e.to \in old
  BY DEF Joined
<1>1. IsFiniteSet(old)
  BY <1>0, FS_Subset
<1>2. \A r, t : Linked(links, r, t) => r \in old /\ t \in old
  BY <1>0 DEF Linked
<1>3. ASSUME NEW s \in old PROVE Reached(all, links, s) = Reached(old, links, s)
  <2> DEFINE x == Reached(old, links, s)
             y == Reached(all, links, s)
  <2>1. /\ s \in x /\ Closed(old, links, x)
        /\ s \in y /\ Closed(all, links, y)
    BY <1>0, <1>1, ReachedIsClosed
  <2> HIDE DEF x, y
  <2>2. Closed(all, links, x) /\ Closed(old, links, y)
    BY <1>0, <1>2, <2>1 DEF Closed
  <2>3. y \subseteq x
    BY <1>0, <2>1, <2>2, ReachedIsLeast DEF y
  <2>4. x \subseteq y
    BY <1>1, <2>1, <2>2, ReachedIsLeast DEF x
  <2>5. QED BY <2>3, <2>4 DEF x, y
<1>4. ASSUME NEW s \in all \ old PROVE Reached(all, links, s) = {s}
  <2>1. Closed(all, links, {s})
    BY <1>2 DEF Closed
  <2>2. Reached(all, links, s) \subseteq {s}
    BY <1>0, <2>1, ReachedIsLeast
  <2>3. s \in Reached(all, links, s)
    BY <1>0, ReachedIsClosed
  <2>4. QED BY <2>2, <2>3
<1>5. Components(all, links) = Components(old, links) \cup {{s} : s \in all \ old}
  BY <1>0, <1>3, <1>4, Zenon DEF Components
<1>6. QED
  BY <1>3, <1>4, <1>5

\* Nor do they change cross edges, gateways and what removals break.
LEMMA AloneChangesNothing ==
    ASSUME NEW old, NEW all, NEW g, Joined(old, all, g), NEW cs, cs = Communities(old, g), NEW ds, ds = Communities(all, g)
    PROVE  /\ cs \subseteq ds
           /\ \A d \in ds \ cs : \E s \in all \ old : d = {s}
           /\ CrossEdges(ds, g) = CrossEdges(cs, g)
           /\ \A s : CrossAt(ds, g, s) = CrossAt(cs, g, s)
           /\ \A s \in old : Resilience(ds, g)[s] = Resilience(cs, g)[s]
<1>0. /\ IsFiniteSet(all) /\ old \subseteq all /\ all \subseteq Nat
      /\ \A e \in g : e.from \in old /\ e.to \in old /\ e.from # e.to
  BY DEF Joined
<1>1. IsFiniteSet(old) /\ old \subseteq Nat
  BY <1>0, FS_Subset
<1>2. Joined(old, all, Strong(g))
  BY DEF Joined, Strong
<1>3. /\ \A s \in old : Reached(all, Strong(g), s) = Reached(old, Strong(g), s)
      /\ ds = cs \cup {{s} : s \in all \ old}
  BY <1>2, Alone DEF Communities
<1>4. ASSUME NEW s \in old PROVE HomeOf(ds, s) = HomeOf(cs, s)
  <2>1. HomeOf(cs, s) = Reached(old, Strong(g), s)
    BY <1>1, HomeIsReached DEF Communities
  <2>2. HomeOf(ds, s) = Reached(all, Strong(g), s)
    BY <1>0, HomeIsReached DEF Communities
  <2>3. Reached(all, Strong(g), s) = Reached(old, Strong(g), s)
    BY <1>3
  <2>4. QED BY <2>1, <2>2, <2>3
<1>5. \A s \in old : CommunityId(ds, s) # 0 /\ CommunityId(cs, s) # 0
  BY <1>0, <1>1, HomeIsReached DEF Communities
<1>6. CrossEdges(ds, g) = CrossEdges(cs, g)
  <2>1. \A e \in g : \A s : ~ ({e.from, e.to} \subseteq {s})
    BY <1>0
  <2>2. QED BY <1>3, <2>1 DEF CrossEdges
<1>7. ASSUME NEW s PROVE CrossAt(ds, g, s) = CrossAt(cs, g, s)
  <2>1. \A e \in Touching(CrossEdges(cs, g), s) : e.from \in old /\ e.to \in old
    BY <1>0 DEF Touching, CrossEdges
  <2>2. QED BY <1>5, <1>6, <2>1 DEF CrossAt
<1>8. \A s \in old : NodeBreaks(ds, g, s) = NodeBreaks(cs, g, s)
  BY <1>4 DEF NodeBreaks
<1>9. UNION cs = old /\ UNION ds = all
  BY <1>0, <1>1, ComponentsPartition DEF Communities
<1>10. \A s \in old : Resilience(ds, g)[s] = Resilience(cs, g)[s]
  BY <1>0, <1>6, <1>8, <1>9 DEF Resilience
<1>11. QED
  BY <1>3, <1>6, <1>7, <1>10

\* A server's gateway score from its edges to other communities and the most any has.
GatewayFrom(mine, most) ==
    IF mine = {} THEN 0
    ELSE Rounded(65000 * Cardinality(mine) + 35 * Max({e.conf : e \in mine}) * most, 100 * most)

\* Evidence that is not about the order of articles leaves every risk as it was.
LEMMA QualityChangesNoRisk ==
    ASSUME KInv, KInv', Grows, UNCHANGED <<ahead, incidents>>,
           NEW g, g = graph, NEW h, h = graph',
           NEW cs, cs = communities, NEW ds, ds = communities'
    PROVE  /\ \A s \in Nodes : ServerRisk(ds, h, s)' = ServerRisk(cs, g, s)
           /\ \A c \in cs : c \in ds /\ CommunityRisk(ds, h, c)' = CommunityRisk(cs, g, c)
<1>1. h = g
  BY DEF graph, Total
<1>2. /\ IsFiniteSet(Nodes') /\ Nodes' \subseteq Servers /\ Servers \subseteq Nat
      /\ Nodes \subseteq Nodes'
  BY FiniteServers, FS_Subset DEF Nodes, Grows
<1>3. /\ \A e \in g : e.from \in Nodes /\ e.to \in Nodes /\ e.from # e.to
      /\ cs = Communities(Nodes, g) /\ ds = Communities(Nodes', g)
  BY <1>1, GraphEnds DEF communities
<1>4. /\ cs \subseteq ds
      /\ \A d \in ds \ cs : \E s \in Nodes' \ Nodes : d = {s}
      /\ CrossEdges(ds, g) = CrossEdges(cs, g)
      /\ \A s : CrossAt(ds, g, s) = CrossAt(cs, g, s)
      /\ \A s \in Nodes : Resilience(ds, g)[s] = Resilience(cs, g)[s]
  <2>1. SUFFICES ASSUME NEW old, old = Nodes, NEW all, all = Nodes'
                 PROVE  /\ cs \subseteq ds
                        /\ \A d \in ds \ cs : \E s \in all \ old : d = {s}
                        /\ CrossEdges(ds, g) = CrossEdges(cs, g)
                        /\ \A s : CrossAt(ds, g, s) = CrossAt(cs, g, s)
                        /\ \A s \in old : Resilience(ds, g)[s] = Resilience(cs, g)[s]
    OBVIOUS
  <2>2. IsFiniteSet(all) /\ old \subseteq all /\ all \subseteq Nat
    BY <1>2, <2>1
  <2>3. Joined(old, all, g)
    BY <1>3, <2>1, <2>2 DEF Joined
  <2>4. cs = Communities(old, g) /\ ds = Communities(all, g)
    BY <1>3, <2>1
  <2>5. QED BY <2>3, <2>4, AloneChangesNothing
<1>5. /\ \A s : OpenAt(s)' = OpenAt(s)
      /\ \A c : OpenIn(c)' = OpenIn(c)
  BY DEF OpenAt, OpenIn
<1>6. ASSUME NEW s \in Nodes' \ Nodes
      PROVE  OpenIn({s}) = 0 /\ Cardinality(CrossAt(cs, g, s)) = 0
  <2>1. s \in Servers /\ targeted[s] = 0
    BY <1>2 DEF Nodes, KInv, KnownType
  <2>2. OpenAt(s) = 0
    BY <2>1 DEF KInv, IncidentsAreAsked, OpenAt, None
  <2>3. OpenIn({s}) = 0
    BY <2>1, <2>2, OpenFacts, FS_Singleton
  <2>4. CrossAt(cs, g, s) = {}
    BY <1>3 DEF CrossAt, CrossEdges, Touching
  <2>5. QED BY <2>3, <2>4, FS_EmptySet
<1>7. Affected(ds)' = Affected(cs)
  BY <1>4, <1>5, <1>6 DEF Affected
<1>8. ScopeScore(ds)' = ScopeScore(cs)
  BY <1>7 DEF ScopeScore
<1>9. Greatest([t \in Nodes |-> Cardinality(CrossAt(cs, g, t))], Nodes)'
         = Greatest([t \in Nodes |-> Cardinality(CrossAt(cs, g, t))], Nodes)
  BY <1>2, <1>6 DEF Greatest
<1>10. \A s : GatewayScore(ds, g, s)' = GatewayScore(cs, g, s)
  <2>1. [t \in Nodes' |-> Cardinality(CrossAt(ds, g, t))] = [t \in Nodes' |-> Cardinality(CrossAt(cs, g, t))]
    BY <1>4
  <2>2. Greatest([t \in Nodes |-> Cardinality(CrossAt(ds, g, t))], Nodes)'
           = Greatest([t \in Nodes |-> Cardinality(CrossAt(cs, g, t))], Nodes)
    BY <1>9, <2>1
  <2>3. ASSUME NEW s PROVE GatewayScore(ds, g, s)' = GatewayScore(cs, g, s)
    <3>1. CrossAt(ds, g, s) = CrossAt(cs, g, s)
      BY <1>4
    <3>2. GatewayScore(ds, g, s)'
             = GatewayFrom(CrossAt(ds, g, s),
                           Greatest([t \in Nodes |-> Cardinality(CrossAt(ds, g, t))], Nodes)')
      BY DEF GatewayScore, GatewayFrom
    <3>3. GatewayScore(cs, g, s)
             = GatewayFrom(CrossAt(cs, g, s),
                           Greatest([t \in Nodes |-> Cardinality(CrossAt(cs, g, t))], Nodes))
      BY DEF GatewayScore, GatewayFrom
    <3>4. QED BY <2>2, <3>1, <3>2, <3>3
  <2>4. QED BY <2>3
<1>11. ASSUME NEW s \in Nodes PROVE ServerRisk(ds, g, s)' = ServerRisk(cs, g, s)
  BY <1>4, <1>8, <1>10 DEF ServerRisk
<1>12. ASSUME NEW c \in cs PROVE c \in ds /\ CommunityRisk(ds, g, c)' = CommunityRisk(cs, g, c)
  <2>1. c \in ds /\ c \subseteq Nodes
    BY <1>4, CommunityFacts
  <2>2. \A s : IsGateway(ds, g, s) = IsGateway(cs, g, s)
    BY <1>4 DEF IsGateway
  <2>3. [s \in c |-> ServerRisk(ds, g, s)'] = [s \in c |-> ServerRisk(cs, g, s)]
    BY <1>11, <2>1
  <2>4. {s \in c : IsGateway(ds, g, s)} = {s \in c : IsGateway(cs, g, s)}
    BY <2>2
  <2>5. {s \in c : OpenAt(s)' > 0} = {s \in c : OpenAt(s) > 0}
    BY <1>5
  <2>6. CommunityRisk(ds, g, c)' = CommunityRisk(cs, g, c)
    BY <1>5, <2>3, <2>4, <2>5 DEF CommunityRisk
  <2>7. QED BY <2>1, <2>6
<1>13. QED
  BY <1>1, <1>11, <1>12

\* No risk changes when all that changes is which articles servers missed, what day
\* it is or that servers are asked for the first time: they are alone in a new
\* community, which shifts the numbers of the others and nothing else.
THEOREM QualityIsApart == Spec => RiskIgnoresQuality
<1>1. KInv /\ [Next]_vars
        => [changes' = changes + 1 /\ UNCHANGED <<ahead, incidents>> =>
              \A g \in {graph}, h \in {graph'}, cs \in {communities}, ds \in {communities'} :
                 /\ \A s \in Nodes : ServerRisk(ds, h, s)' = ServerRisk(cs, g, s)
                 /\ \A c \in cs : c \in ds /\ CommunityRisk(ds, h, c)' = CommunityRisk(cs, g, c)
           ]_known
  BY NextKnown, QualityChangesNoRisk
<1>2. QED
  BY <1>1, KnownIsSound, PTL DEF Spec, RiskIgnoresQuality
=============================================================================
