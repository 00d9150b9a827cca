--------------------------- MODULE GroupInventory ---------------------------
(***************************************************************************)
(* The newsgroups that servers list.  A collector asks an endpoint for its *)
(* list and records it in one transaction: a snapshot row for each group,  *)
(* and an event for each group that appeared, changed or disappeared since *)
(* the newest snapshot.  A second collector may run beside the service.    *)
(*                                                                         *)
(* Times are numbers of the starts of exchanges.  When an endpoint is due  *)
(* is Scheduler's part: here a collector may turn to any endpoint at any   *)
(* time.  The answer to NEWGROUPS is not stored and is left out.           *)
(*                                                                         *)
(* src/src/nntpintel/groups.py; record_group_inventory and the tables of   *)
(* storage.py; run_group_inventories of scheduler.py.                      *)
(***************************************************************************)
EXTENDS Integers, FiniteSetsExt, Sequences, SequencesExt

CONSTANTS
    Endpoints,
    Groups,
    HierarchyOf,        \* the first part of the name of a group
    Marks,              \* what LIST ACTIVE says of a group
    Collectors,
    MaxStarts,          \* bound: inventories that start
    MaxChanges          \* bound: changes at the servers

ASSUME HierarchyAssumption == DOMAIN HierarchyOf = Groups
ASSUME BoundsAssumption == MaxStarts \in Nat /\ MaxChanges \in Nat

Gone == "gone"
ASSUME MarksAssumption == Gone \notin Marks

Hierarchies == {HierarchyOf[g] : g \in Groups}

VARIABLES
    offered,    \* [Endpoints -> [Groups -> Marks \cup {Gone}]]: what a server has
    changes,    \* how often that changed
    clock,      \* how many exchanges started
    snapshots,  \* group_snapshots: a set of rows
    events,     \* group_events: [Endpoints -> [Groups -> Seq(events by id)]]
    newsgroups, \* [Groups -> [first, last : 0 .. MaxStarts]], 0: no row
    hierarchies,    \* [Hierarchies -> the same]
    collectors, \* [Collectors -> local state]
    ordered,    \* inventories were recorded in the order of their observed_at
    compared    \* [Endpoints -> BOOLEAN]: each was compared with the one before it,
                \* and none was empty

vars == <<offered, changes, clock, snapshots, events, newsgroups, hierarchies, collectors,
          ordered, compared>>
recorded == <<snapshots, events, newsgroups, hierarchies, ordered, compared>>

NoRow == [first |-> 0, last |-> 0]
Idle == [pc |-> "idle", endpoint |-> "none", at |-> 0,
         listed |-> <<>>, previous |-> <<>>]

Init ==
    /\ offered \in [Endpoints -> [Groups -> Marks \cup {Gone}]]
    /\ changes = 0
    /\ clock = 0
    /\ snapshots = {}
    /\ events = [e \in Endpoints |-> [g \in Groups |-> <<>>]]
    /\ newsgroups = [g \in Groups |-> NoRow]
    /\ hierarchies = [h \in Hierarchies |-> NoRow]
    /\ collectors = [c \in Collectors |-> Idle]
    /\ ordered = TRUE
    /\ compared = [e \in Endpoints |-> TRUE]

-----------------------------------------------------------------------------
\* A server creates, changes or removes a group.
Offer(e, g, m) ==
    /\ changes < MaxChanges /\ changes' = changes + 1
    /\ m # offered[e][g]
    /\ offered' = [offered EXCEPT ![e][g] = m]
    /\ UNCHANGED <<clock, collectors, recorded>>

\* The collector connects; observed_at is the time before the exchange.
Start(c, e) ==
    /\ collectors[c].pc = "idle"
    /\ clock < MaxStarts /\ clock' = clock + 1
    /\ collectors' = [collectors EXCEPT ![c] = [pc |-> "connected", endpoint |-> e, at |-> clock + 1,
                                                 listed |-> <<>>, previous |-> <<>>]]
    /\ UNCHANGED <<offered, changes, recorded>>

\* LIST ACTIVE, and LIST NEWSGROUPS, which the server may refuse: then no group
\* has a description.
List(c, described) ==
    /\ collectors[c].pc = "connected"
    /\ LET at == offered[collectors[c].endpoint]
       IN  collectors' = [collectors EXCEPT ![c].pc = "listed",
               ![c].listed = [g \in {g \in Groups : at[g] # Gone} |->
                                 [mark |-> at[g], described |-> described]]]
    /\ UNCHANGED <<offered, changes, clock, recorded>>

\* The exchange fails, or the process ends: nothing is recorded.
GiveUp(c) ==
    /\ collectors[c].pc # "idle"
    /\ collectors' = [collectors EXCEPT ![c] = Idle]
    /\ UNCHANGED <<offered, changes, clock, recorded>>

\* The newest snapshot of an endpoint.
RowsOf(e) == {r \in snapshots : r.endpoint = e}
NewestAt(e) == Max({0} \cup {r.at : r \in RowsOf(e)})
Newest(e) == LET rows == {r \in RowsOf(e) : r.at = NewestAt(e)}
             IN  [g \in {r.group : r \in rows} |-> (CHOOSE r \in rows : r.group = g).record]

\* It is read before the transaction starts, which the first INSERT does.
ReadPrevious(c) ==
    /\ collectors[c].pc = "listed"
    /\ collectors' = [collectors EXCEPT ![c].pc = "write",
                                        ![c].previous = Newest(collectors[c].endpoint)]
    /\ UNCHANGED <<offered, changes, clock, recorded>>

\* Mutant: first_seen_at is refreshed with last_seen_at.
SeenAnew(row, at) == [first |-> at, last |-> at]

\* ON CONFLICT(name) DO UPDATE SET last_seen_at
Seen(row, at) == IF row = NoRow THEN [first |-> at, last |-> at] ELSE [row EXCEPT !.last = at]

\* Mutant: only groups that are listed have events.
EventOfListed(listed, previous, g) ==
    IF g \notin DOMAIN listed THEN ""
    ELSE IF g \notin DOMAIN previous THEN "appeared"
    ELSE IF listed[g] # previous[g] THEN "changed" ELSE ""

\* The event of a group, if it has one.
EventOf(listed, previous, g) ==
    IF g \notin DOMAIN listed THEN (IF g \in DOMAIN previous THEN "disappeared" ELSE "")
    ELSE IF g \notin DOMAIN previous THEN "appeared"
    ELSE IF listed[g] # previous[g] THEN "changed" ELSE ""

\* The row of group_events, if there is one.
Event(me, g) ==
    LET type == EventOf(me.listed, me.previous, g)
    IN  IF type = "" THEN <<>>
        ELSE << [type |-> type, at |-> me.at,
                 after |-> IF type = "changed" THEN <<me.listed[g]>> ELSE <<>>] >>

\* record_group_inventory
Write(c) ==
    LET me == collectors[c]
        gs == DOMAIN me.listed
    IN  /\ me.pc = "write"
        /\ snapshots' = snapshots \cup {[endpoint |-> me.endpoint, at |-> me.at, group |-> g,
                                         record |-> me.listed[g]] : g \in gs}
        /\ events' = [events EXCEPT ![me.endpoint] =
                         [g \in Groups |-> @[g] \o Event(me, g)]]
        /\ newsgroups' = [g \in Groups |-> IF g \in gs THEN Seen(newsgroups[g], me.at)
                                           ELSE newsgroups[g]]
        /\ hierarchies' = [h \in Hierarchies |->
                              IF \E g \in gs : HierarchyOf[g] = h THEN Seen(hierarchies[h], me.at)
                              ELSE hierarchies[h]]
        /\ ordered' = (ordered /\ \A r \in snapshots : r.at < me.at)
        /\ compared' = [compared EXCEPT ![me.endpoint] =
                           @ /\ gs # {} /\ me.previous = Newest(me.endpoint)
                             /\ NewestAt(me.endpoint) < me.at]
        /\ collectors' = [collectors EXCEPT ![c] = Idle]
        /\ UNCHANGED <<offered, changes, clock>>

Next ==
    \/ \E e \in Endpoints, g \in Groups, m \in Marks \cup {Gone} : Offer(e, g, m)
    \/ \E c \in Collectors : \/ \E e \in Endpoints : Start(c, e)
                             \/ \E described \in BOOLEAN : List(c, described)
                             \/ GiveUp(c) \/ ReadPrevious(c) \/ Write(c)

Spec == Init /\ [][Next]_vars

-----------------------------------------------------------------------------
\* What the events of a group say, in the order in which they were recorded.
SaysPresent(history) == history # <<>> /\ Last(history).type # "disappeared"

\* docs/M0_FOUNDATION.md:13 "When do groups appear, disappear, or change status?":
\* the events of an endpoint tell what its newest snapshot shows, group by group,
\* a change with the values it led to, and appearing and disappearing take turns,
\* whatever inventories failed, were interrupted or had no descriptions - as long
\* as none overlapped another one of the endpoint, or was empty.
EventsTellPresence ==
    \A e \in Endpoints : compared[e] =>
        \A g \in Groups :
            LET history == events[e][g]  listed == Newest(e)
            IN  /\ SaysPresent(history) <=> (g \in DOMAIN listed)
                /\ \A n \in DOMAIN history :
                      (history[n].type = "appeared") <=> ~ SaysPresent(SubSeq(history, 1, n - 1))
                /\ \A n \in DOMAIN history :
                      /\ history[n].type = "changed"
                      /\ \A m \in n + 1 .. Len(history) : history[m].type # "changed"
                      /\ n = Len(history)
                      => history[n].after = <<listed[g]>>

\* The times that a group and its hierarchy are shown with are those of the
\* first and the last snapshot, of any endpoint, that has it - as long as
\* inventories, also of different endpoints, are recorded in their order.
SeenTimesAreTrue ==
    ordered =>
        /\ \A g \in Groups :
              LET times == {r.at : r \in {r \in snapshots : r.group = g}}
              IN  newsgroups[g] = IF times = {} THEN NoRow
                                  ELSE [first |-> Min(times), last |-> Max(times)]
        /\ \A h \in Hierarchies :
              LET times == {r.at : r \in {r \in snapshots : HierarchyOf[r.group] = h}}
              IN  hierarchies[h] = IF times = {} THEN NoRow
                                   ELSE [first |-> Min(times), last |-> Max(times)]
=============================================================================
