------------------------- MODULE GroupInventory_proofs -------------------------
(***************************************************************************)
(* What the tables of groups tell, for every number of endpoints, groups   *)
(* and collectors.  The times of groups and hierarchies are written by one *)
(* collector after the other, each with the time at which its exchange     *)
(* started; in the order of these times, the first and the last row are    *)
(* the first and the last that were written.  The events of a group tell   *)
(* what the newest snapshot shows, since each inventory brings them from   *)
(* what the snapshot before showed to what it found.                       *)
(***************************************************************************)
EXTENDS GroupInventory, SequenceTheorems, TLAPS

Row == [first : Nat, last : Nat]
Time == Nat \ {0}

IsRecord(r) == r \in [pc : {r.pc}, endpoint : {r.endpoint}, at : {r.at},
                      listed : {r.listed}, previous : {r.previous}]

\* What a collector has in hand is a list of groups and the time of its exchange.
InHand ==
    \A c \in Collectors :
        /\ IsRecord(collectors[c])
        /\ collectors[c].pc # "idle" => collectors[c].at \in Time
        /\ collectors[c].pc \in {"listed", "write"} => DOMAIN collectors[c].listed \subseteq Groups

Rows ==
    /\ clock \in Nat
    /\ DOMAIN collectors = Collectors
    /\ \A r \in snapshots : r.at \in Time /\ r.group \in Groups

GroupTimes(g) == {r.at : r \in {r \in snapshots : r.group = g}}
HierarchyTimes(h) == {r.at : r \in {r \in snapshots : HierarchyOf[r.group] = h}}

\* s contains times whose first and last are f and l.
IsSpan(s, f, l) == /\ f \in s /\ l \in s
                   /\ \A t \in s : f <= t /\ t <= l

\* A row of newsgroups or hierarchies shows some times.
Shows(row, times) ==
    IF times = {} THEN row = NoRow
    ELSE row \in Row /\ row # NoRow /\ IsSpan(times, row.first, row.last)

Shown ==
    /\ \A g \in Groups : Shows(newsgroups[g], GroupTimes(g))
    /\ \A h \in Hierarchies : Shows(hierarchies[h], HierarchyTimes(h))

IInv == InHand /\ Rows /\ (ordered => Shown)

-----------------------------------------------------------------------------
(* The first and the last of a set of times, when a later one comes.       *)

LEMMA SpanOf ==
    ASSUME NEW s \in SUBSET Time, NEW f, NEW l, IsSpan(s, f, l)
    PROVE  Min(s) = f /\ Max(s) = l
<1>1. f \in s /\ \A t \in s : f <= t
    BY DEF IsSpan
<1>2. l \in s /\ \A t \in s : l >= t
    BY DEF IsSpan, Time
<1>3. \A x \in s : (\A t \in s : x <= t) => x = f
    BY <1>1 DEF Time
<1>4. \A x \in s : (\A t \in s : x >= t) => x = l
    BY <1>2 DEF Time
<1> QED
    BY <1>1, <1>2, <1>3, <1>4 DEF Min, Max

LEMMA RowOf ==
    ASSUME NEW times \in SUBSET Time, NEW row, Shows(row, times)
    PROVE  row = IF times = {} THEN NoRow ELSE [first |-> Min(times), last |-> Max(times)]
<1>1. CASE times = {}
    BY <1>1 DEF Shows
<1>2. CASE times # {}
    <2>1. row \in Row /\ Min(times) = row.first /\ Max(times) = row.last
        BY <1>2, SpanOf DEF Shows
    <2> QED
        BY <1>2, <2>1 DEF Row
<1> QED
    BY <1>1, <1>2

\* ON CONFLICT DO UPDATE SET last_seen_at, by a later inventory.
LEMMA SeenLater ==
    ASSUME NEW times \in SUBSET Time, NEW row, Shows(row, times),
           NEW at \in Time, \A t \in times : t < at
    PROVE  Shows(Seen(row, at), times \cup {at})
<1>1. CASE times = {}
    <2> DEFINE new == [first |-> at, last |-> at]
    <2>1. Seen(row, at) = new
        BY <1>1 DEF Seen, Shows
    <2>2. new \in Row /\ new # NoRow /\ new.first = at /\ new.last = at
        BY DEF Row, NoRow, Time
    <2>3. IsSpan(times \cup {at}, at, at)
        BY <1>1 DEF IsSpan, Time
    <2> HIDE DEF new
    <2> QED
        BY <2>1, <2>2, <2>3 DEF Shows
<1>2. CASE times # {}
    <2>1. row \in Row /\ row # NoRow /\ IsSpan(times, row.first, row.last)
        BY <1>2 DEF Shows
    <2>2. Seen(row, at) = [row EXCEPT !.last = at]
        BY <2>1 DEF Seen
    <2> DEFINE new == [row EXCEPT !.last = at]
    <2>3. new \in Row /\ new.first = row.first /\ new.last = at
        BY <2>1 DEF Row, Time
    <2>4. new # NoRow
        BY <2>3 DEF NoRow, Time
    <2>5. IsSpan(times \cup {at}, row.first, at)
        <3>1. row.first \in times /\ row.first < at /\ \A t \in times : row.first <= t /\ t < at
            BY <2>1 DEF IsSpan
        <3>2. row.first <= at /\ at <= at /\ \A t \in times : t <= at
            BY <2>1, <3>1 DEF Row, Time
        <3> QED
            BY <3>1, <3>2 DEF IsSpan
    <2> HIDE DEF new
    <2> QED
        BY <2>2, <2>3, <2>4, <2>5 DEF Shows, new
<1> QED
    BY <1>1, <1>2

-----------------------------------------------------------------------------
(* Steps.                                                                  *)

LEMMA InitIInv == Init => IInv
<1> SUFFICES ASSUME Init PROVE IInv
    OBVIOUS
<1>1. InHand /\ Rows
    BY DEF Init, InHand, Rows, Idle, IsRecord
<1>2. \A g \in Groups : GroupTimes(g) = {}
    BY DEF Init, GroupTimes
<1>3. \A h \in Hierarchies : HierarchyTimes(h) = {}
    BY DEF Init, HierarchyTimes
<1>4. Shown
    BY <1>2, <1>3 DEF Init, Shown, Shows
<1> QED
    BY <1>1, <1>4 DEF IInv

\* Until a collector writes, the tables stay as they are.
LEMMA UnrecordedIInv ==
    ASSUME IInv, UNCHANGED recorded, clock' \in Nat, InHand', DOMAIN collectors' = Collectors
    PROVE  IInv'
<1>1. Rows'
    BY DEF IInv, Rows, recorded
<1>2. ordered' => Shown'
    BY DEF IInv, Shown, GroupTimes, HierarchyTimes, recorded
<1> QED
    BY <1>1, <1>2 DEF IInv

LEMMA StartIInv ==
    ASSUME IInv, NEW c \in Collectors, NEW e \in Endpoints, Start(c, e)
    PROVE  IInv'
<1> DEFINE me == [pc |-> "connected", endpoint |-> e, at |-> clock + 1,
                  listed |-> <<>>, previous |-> <<>>]
<1>1. clock \in Nat /\ clock + 1 \in Time
    BY DEF IInv, Rows, Time
<1>2. me.pc = "connected" /\ me.at = clock + 1 /\ IsRecord(me)
    BY DEF IsRecord
<1>3. collectors' = [collectors EXCEPT ![c] = me] /\ clock' = clock + 1 /\ UNCHANGED recorded
    BY DEF Start
<1> HIDE DEF me
<1>4. InHand'
    BY <1>1, <1>2, <1>3 DEF IInv, InHand, Rows
<1> QED
    BY <1>1, <1>3, <1>4, UnrecordedIInv DEF IInv, Rows

LEMMA ListIInv ==
    ASSUME IInv, NEW c \in Collectors, NEW described \in BOOLEAN, List(c, described)
    PROVE  IInv'
<1> DEFINE old == collectors[c]
<1>1. PICK listed :
         /\ DOMAIN listed \subseteq Groups
         /\ collectors' = [collectors EXCEPT ![c].pc = "listed", ![c].listed = listed]
    BY DEF List
<1>2. UNCHANGED <<recorded, clock>> /\ old.pc # "idle"
    BY DEF List
<1> DEFINE marked == [old EXCEPT !.pc = "listed"]
           me == [marked EXCEPT !.listed = listed]
<1>3. IsRecord(old)
    BY DEF IInv, InHand
<1>7. marked.pc = "listed" /\ marked.at = old.at /\ IsRecord(marked)
    BY <1>3 DEF IsRecord
<1>4. collectors' = [collectors EXCEPT ![c] = me]
    BY <1>1, <1>3 DEF IInv, Rows, IsRecord
<1> HIDE DEF marked
<1>5. me.pc = "listed" /\ me.at = old.at /\ me.listed = listed /\ IsRecord(me)
    BY <1>7 DEF IsRecord
<1> HIDE DEF me
<1>6. InHand'
    BY <1>1, <1>2, <1>4, <1>5 DEF IInv, InHand, Rows
<1> QED
    BY <1>2, <1>4, <1>6, UnrecordedIInv DEF IInv, Rows

LEMMA ReadPreviousIInv ==
    ASSUME IInv, NEW c \in Collectors, ReadPrevious(c)
    PROVE  IInv'
<1> DEFINE old == collectors[c]
<1>1. PICK previous :
         collectors' = [collectors EXCEPT ![c].pc = "write", ![c].previous = previous]
    BY DEF ReadPrevious
<1>2. UNCHANGED <<recorded, clock>> /\ old.pc = "listed"
    BY DEF ReadPrevious
<1> DEFINE marked == [old EXCEPT !.pc = "write"]
           me == [marked EXCEPT !.previous = previous]
<1>3. IsRecord(old)
    BY DEF IInv, InHand
<1>4. marked.pc = "write" /\ marked.at = old.at /\ marked.listed = old.listed /\ IsRecord(marked)
    BY <1>3 DEF IsRecord
<1>5. collectors' = [collectors EXCEPT ![c] = me]
    BY <1>1, <1>3 DEF IInv, Rows, IsRecord
<1> HIDE DEF marked
<1>6. me.pc = "write" /\ me.at = old.at /\ me.listed = old.listed /\ IsRecord(me)
    BY <1>4 DEF IsRecord
<1> HIDE DEF me
<1>7. InHand'
    BY <1>2, <1>5, <1>6 DEF IInv, InHand, Rows
<1> QED
    BY <1>2, <1>5, <1>7, UnrecordedIInv DEF IInv, Rows

LEMMA IdleInHand ==
    ASSUME IInv, NEW c \in Collectors, collectors' = [collectors EXCEPT ![c] = Idle]
    PROVE  InHand' /\ DOMAIN collectors' = Collectors
BY DEF IInv, InHand, Rows, Idle, IsRecord

LEMMA GiveUpIInv ==
    ASSUME IInv, NEW c \in Collectors, GiveUp(c)
    PROVE  IInv'
BY IdleInHand, UnrecordedIInv DEF GiveUp, IInv, Rows

LEMMA WriteIInv ==
    ASSUME IInv, NEW c \in Collectors, Write(c)
    PROVE  IInv'
<1>1. PICK at \in Time, gs \in SUBSET Groups :
         at = collectors[c].at /\ gs = DOMAIN collectors[c].listed
    BY DEF Write, IInv, InHand
<1> DEFINE new == {[endpoint |-> collectors[c].endpoint, at |-> at, group |-> g,
                    record |-> collectors[c].listed[g]] : g \in gs}
<1>2. /\ snapshots' = snapshots \cup new
      /\ newsgroups' = [g \in Groups |-> IF g \in gs THEN Seen(newsgroups[g], at)
                                          ELSE newsgroups[g]]
      /\ hierarchies' = [h \in Hierarchies |->
                             IF \E g \in gs : HierarchyOf[g] = h THEN Seen(hierarchies[h], at)
                             ELSE hierarchies[h]]
      /\ ordered' = (ordered /\ \A r \in snapshots : r.at < at)
      /\ collectors' = [collectors EXCEPT ![c] = Idle] /\ clock' = clock
    BY <1>1 DEF Write
<1>3. /\ \A r \in new : r.at = at /\ r.group \in gs
      /\ \A g \in gs : \E r \in new : r.group = g
    <2> DEFINE row(g) == [endpoint |-> collectors[c].endpoint, at |-> at, group |-> g,
                          record |-> collectors[c].listed[g]]
    <2>1. \A g \in gs : row(g).at = at /\ row(g).group = g
        OBVIOUS
    <2>2. new = {row(g) : g \in gs}
        OBVIOUS
    <2> HIDE DEF row, new
    <2> QED
        BY <2>1, <2>2
<1> HIDE DEF new
<1>4. InHand' /\ DOMAIN collectors' = Collectors
    BY <1>2, IdleInHand
<1>5. Rows'
    BY <1>1, <1>2, <1>3, <1>4 DEF IInv, Rows
<1>6. ASSUME ordered' PROVE Shown'
    <2>1. Shown /\ \A r \in snapshots : r.at \in Time /\ r.at < at
        BY <1>2, <1>6 DEF IInv, Rows
    <2>2. ASSUME NEW g \in Groups
          PROVE  Shows(newsgroups[g], GroupTimes(g))'
        <3>1. GroupTimes(g) \in SUBSET Time /\ \A t \in GroupTimes(g) : t < at
            BY <2>1 DEF GroupTimes
        <3>2. Shows(newsgroups[g], GroupTimes(g))
            BY <2>1 DEF Shown
        <3>3. CASE g \in gs
            <4>1. GroupTimes(g)' = GroupTimes(g) \cup {at}
                BY <1>2, <1>3, <3>3 DEF GroupTimes
            <4>2. newsgroups'[g] = Seen(newsgroups[g], at)
                BY <1>2, <3>3
            <4>3. Shows(Seen(newsgroups[g], at), GroupTimes(g) \cup {at})
                BY <3>1, <3>2, SeenLater
            <4> QED
                BY <4>1, <4>2, <4>3 DEF Shows
        <3>4. CASE g \notin gs
            <4>1. GroupTimes(g)' = GroupTimes(g)
                BY <1>2, <1>3, <3>4 DEF GroupTimes
            <4>2. newsgroups'[g] = newsgroups[g]
                BY <1>2, <3>4
            <4> QED
                BY <3>2, <4>1, <4>2 DEF Shows
        <3> QED
            BY <3>3, <3>4
    <2>3. ASSUME NEW h \in Hierarchies
          PROVE  Shows(hierarchies[h], HierarchyTimes(h))'
        <3>1. HierarchyTimes(h) \in SUBSET Time /\ \A t \in HierarchyTimes(h) : t < at
            BY <2>1 DEF HierarchyTimes
        <3>2. Shows(hierarchies[h], HierarchyTimes(h))
            BY <2>1 DEF Shown
        <3>3. CASE \E g \in gs : HierarchyOf[g] = h
            <4>1. HierarchyTimes(h)' = HierarchyTimes(h) \cup {at}
                BY <1>2, <1>3, <3>3 DEF HierarchyTimes
            <4>2. hierarchies'[h] = Seen(hierarchies[h], at)
                BY <1>2, <3>3
            <4>3. Shows(Seen(hierarchies[h], at), HierarchyTimes(h) \cup {at})
                BY <3>1, <3>2, SeenLater
            <4> QED
                BY <4>1, <4>2, <4>3 DEF Shows
        <3>4. CASE ~ \E g \in gs : HierarchyOf[g] = h
            <4>1. HierarchyTimes(h)' = HierarchyTimes(h)
                BY <1>2, <1>3, <3>4 DEF HierarchyTimes
            <4>2. hierarchies'[h] = hierarchies[h]
                BY <1>2, <3>4
            <4> QED
                BY <3>2, <4>1, <4>2 DEF Shows
        <3> QED
            BY <3>3, <3>4
    <2> QED
        BY <2>2, <2>3 DEF Shown
<1> QED
    BY <1>4, <1>5, <1>6 DEF IInv

LEMMA NextIInv == IInv /\ [Next]_vars => IInv'
<1> SUFFICES ASSUME IInv, [Next]_vars PROVE IInv'
    OBVIOUS
<1>1. ASSUME UNCHANGED <<clock, collectors, recorded>> PROVE IInv'
    BY <1>1, UnrecordedIInv DEF IInv, InHand, Rows
<1>2. ASSUME NEW e \in Endpoints, NEW g \in Groups, NEW m \in Marks \cup {Gone}, Offer(e, g, m)
      PROVE  IInv'
    BY <1>1, <1>2 DEF Offer
<1>3. CASE UNCHANGED vars
    BY <1>1, <1>3 DEF vars, recorded
<1> QED
    BY <1>2, <1>3, StartIInv, ListIInv, ReadPreviousIInv, GiveUpIInv, WriteIInv DEF Next

\* record_group_inventory of storage.py: first_seen_at and last_seen_at of groups
\* and hierarchies are those of their first and last snapshot, of any endpoint,
\* as long as inventories are recorded in the order in which they started.
THEOREM SeenTimes == Spec => []SeenTimesAreTrue
<1>1. Init => IInv
    BY InitIInv
<1>2. IInv /\ [Next]_vars => IInv'
    BY NextIInv
<1>3. IInv => SeenTimesAreTrue
    <2> SUFFICES ASSUME IInv, ordered PROVE SeenTimesAreTrue
        BY DEF SeenTimesAreTrue
    <2>1. ASSUME NEW g \in Groups
          PROVE  newsgroups[g] = IF GroupTimes(g) = {} THEN NoRow
                                 ELSE [first |-> Min(GroupTimes(g)), last |-> Max(GroupTimes(g))]
        <3>1. GroupTimes(g) \in SUBSET Time /\ Shows(newsgroups[g], GroupTimes(g))
            BY DEF IInv, Shown, Rows, GroupTimes
        <3> QED
            BY <3>1, RowOf
    <2>2. ASSUME NEW h \in Hierarchies
          PROVE  hierarchies[h] =
                     IF HierarchyTimes(h) = {} THEN NoRow
                     ELSE [first |-> Min(HierarchyTimes(h)), last |-> Max(HierarchyTimes(h))]
        <3>1. HierarchyTimes(h) \in SUBSET Time /\ Shows(hierarchies[h], HierarchyTimes(h))
            BY DEF IInv, Shown, Rows, HierarchyTimes
        <3> QED
            BY <3>1, RowOf
    <2> QED
        BY <2>1, <2>2 DEF SeenTimesAreTrue, GroupTimes, HierarchyTimes
<1> QED
    BY <1>1, <1>2, <1>3, PTL DEF Spec

-----------------------------------------------------------------------------
(* The events of a group.                                                  *)

Record == [mark : Marks, described : BOOLEAN]
EventRow == [type : {"appeared", "changed", "disappeared"}, at : Time,
             after : {<<>>} \cup {<<r>> : r \in Record}]

\* Appearing and disappearing take turns.
Alternate(h) ==
    \A n \in DOMAIN h : (h[n].type = "appeared") <=> ~ (n # 1 /\ h[n - 1].type # "disappeared")

\* The events of group g lead to what listed shows.
Tells(h, listed, g) ==
    /\ SaysPresent(h) <=> (g \in DOMAIN listed)
    /\ Alternate(h)
    /\ h # <<>> /\ Last(h).type = "changed" => Last(h).after = <<listed[g]>>

\* The events of an inventory, of a group.
Told(listed, previous, at, g) ==
    IF EventOf(listed, previous, g) = "" THEN <<>>
    ELSE << [type |-> EventOf(listed, previous, g), at |-> at,
             after |-> IF EventOf(listed, previous, g) = "changed" THEN <<listed[g]>> ELSE <<>>] >>

LEMMA Says ==
    ASSUME NEW h \in Seq(EventRow)
    PROVE  SaysPresent(h) <=> Len(h) # 0 /\ h[Len(h)].type # "disappeared"
<1>1. h = <<>> <=> Len(h) = 0
    BY EmptySeq
<1> QED
    BY <1>1 DEF SaysPresent, Last

LEMMA SaysBefore ==
    ASSUME NEW h \in Seq(EventRow), NEW n \in DOMAIN h
    PROVE  SaysPresent(SubSeq(h, 1, n - 1)) <=> (n # 1 /\ h[n - 1].type # "disappeared")
<1>1. Len(h) \in Nat /\ DOMAIN h = 1 .. Len(h)
    BY LenProperties
<1>2. n \in Nat /\ n >= 1 /\ n - 1 \in Int /\ n - 1 <= Len(h)
    BY <1>1
<1>3. \A i \in 1 .. n - 1 : h[i] \in EventRow
    BY <1>1, <1>2, ElementOfSeq
<1> DEFINE s == SubSeq(h, 1, n - 1)
<1>4. /\ s \in Seq(EventRow) /\ Len(s) = (IF 1 <= n - 1 THEN n - 1 - 1 + 1 ELSE 0)
      /\ \A i \in 1 .. n - 1 - 1 + 1 : s[i] = h[1 + i - 1]
    BY <1>2, <1>3, SubSeqProperties
<1> HIDE DEF s
<1>5. Len(s) = n - 1 /\ \A i \in 1 .. n - 1 : s[i] = h[i]
    BY <1>2, <1>4
<1>6. n # 1 => s[n - 1] = h[n - 1]
    BY <1>2, <1>5
<1>7. SaysPresent(s) <=> Len(s) # 0 /\ s[Len(s)].type # "disappeared"
    BY <1>4, Says
<1> QED
    BY <1>2, <1>5, <1>6, <1>7 DEF s

LEMMA Appended ==
    ASSUME NEW h \in Seq(EventRow), Alternate(h),
           NEW event \in EventRow, event.type = "appeared" <=> ~ SaysPresent(h)
    PROVE  /\ h \o <<event>> \in Seq(EventRow) /\ Alternate(h \o <<event>>)
           /\ SaysPresent(h \o <<event>>) <=> event.type # "disappeared"
           /\ Last(h \o <<event>>) = event /\ h \o <<event>> # <<>>
<1> DEFINE one == <<event>>
           more == h \o one
<1>1. one \in Seq(EventRow) /\ Len(one) = 1 /\ one[1] = event
    OBVIOUS
<1> HIDE DEF one
<1>2. Len(h) \in Nat /\ DOMAIN h = 1 .. Len(h)
    BY LenProperties
<1>3. /\ more \in Seq(EventRow) /\ Len(more) = Len(h) + 1
      /\ \A i \in 1 .. Len(h) + 1 : more[i] = IF i <= Len(h) THEN h[i] ELSE one[i - Len(h)]
    <2>1. /\ more \in Seq(EventRow) /\ Len(more) = Len(h) + Len(one)
          /\ \A i \in 1 .. Len(h) + Len(one) :
                more[i] = IF i <= Len(h) THEN h[i] ELSE one[i - Len(h)]
        BY <1>1, ConcatProperties
    <2> HIDE DEF more
    <2> QED
        BY <1>1, <2>1
<1>4. more[Len(h) + 1] = event /\ \A i \in 1 .. Len(h) : more[i] = h[i]
    BY <1>1, <1>2, <1>3
<1> HIDE DEF more
<1>5. DOMAIN more = 1 .. Len(h) + 1
    BY <1>3, LenProperties
<1>6. SaysPresent(h) <=> Len(h) # 0 /\ h[Len(h)].type # "disappeared"
    BY Says
<1>7. Alternate(more)
    <2> SUFFICES ASSUME NEW n \in 1 .. Len(h) + 1
                 PROVE  (more[n].type = "appeared") <=>
                            ~ (n # 1 /\ more[n - 1].type # "disappeared")
        BY <1>5 DEF Alternate
    <2>1. CASE n = Len(h) + 1
        <3>1. n - 1 = Len(h) /\ (n # 1 <=> Len(h) # 0)
            BY <1>2, <2>1
        <3>2. n # 1 => more[n - 1] = h[Len(h)]
            BY <1>2, <1>4, <3>1
        <3> QED
            BY <1>4, <1>6, <2>1, <3>1, <3>2
    <2>2. CASE n # Len(h) + 1
        <3>1. n \in DOMAIN h /\ (n # 1 => n - 1 \in 1 .. Len(h))
            BY <1>2, <2>2
        <3> QED
            BY <1>2, <1>4, <3>1 DEF Alternate
    <2> QED
        BY <2>1, <2>2
<1>8. more # <<>> /\ Last(more) = event
    BY <1>2, <1>3, <1>4, EmptySeq DEF Last
<1>9. SaysPresent(more) <=> event.type # "disappeared"
    BY <1>8 DEF SaysPresent
<1> QED
    BY <1>3, <1>7, <1>8, <1>9 DEF more, one

LEMMA TellsOn ==
    ASSUME NEW g, NEW h \in Seq(EventRow), NEW listed, NEW previous, NEW at \in Time,
           Tells(h, previous, g), g \in DOMAIN listed => listed[g] \in Record
    PROVE  Tells(h \o Told(listed, previous, at, g), listed, g)
<1> DEFINE type == EventOf(listed, previous, g)
           event == [type |-> type, at |-> at,
                     after |-> IF type = "changed" THEN <<listed[g]>> ELSE <<>>]
<1>1. CASE type = ""
    <2>1. Told(listed, previous, at, g) = <<>>
        BY <1>1 DEF Told
    <2>2. h \o <<>> = h
        BY ConcatEmptySeq
    <2>3. g \in DOMAIN listed <=> g \in DOMAIN previous
        BY <1>1 DEF EventOf
    <2>4. g \in DOMAIN listed => listed[g] = previous[g]
        BY <1>1 DEF EventOf
    <2>5. h # <<>> /\ Last(h).type = "changed" => g \in DOMAIN previous
        BY DEF Tells, SaysPresent
    <2> QED
        BY <2>1, <2>2, <2>3, <2>4, <2>5 DEF Tells
<1>2. CASE type # ""
    <2>1. Told(listed, previous, at, g) = <<event>>
        BY <1>2 DEF Told
    <2>2. /\ type \in {"appeared", "changed", "disappeared"}
          /\ type = "appeared" <=> g \notin DOMAIN previous
          /\ type # "disappeared" <=> g \in DOMAIN listed
        BY <1>2 DEF EventOf
    <2>3. event \in EventRow /\ event.type = type
                /\ (type = "changed" => event.after = <<listed[g]>>)
        BY <2>2 DEF EventRow
    <2> HIDE DEF event, type
    <2>4. /\ h \o <<event>> \in Seq(EventRow) /\ Alternate(h \o <<event>>)
          /\ SaysPresent(h \o <<event>>) <=> event.type # "disappeared"
          /\ Last(h \o <<event>>) = event /\ h \o <<event>> # <<>>
        BY <2>2, <2>3, Appended DEF Tells
    <2> QED
        BY <2>1, <2>2, <2>3, <2>4 DEF Tells
<1> QED
    BY <1>1, <1>2

LEMMA TellsTyped ==
    ASSUME NEW g, NEW h \in Seq(EventRow), NEW listed, NEW previous, NEW at \in Time,
           g \in DOMAIN listed => listed[g] \in Record
    PROVE  h \o Told(listed, previous, at, g) \in Seq(EventRow)
<1> DEFINE type == EventOf(listed, previous, g)
           event == [type |-> type, at |-> at,
                     after |-> IF type = "changed" THEN <<listed[g]>> ELSE <<>>]
<1>1. CASE type = ""
    BY <1>1, ConcatEmptySeq DEF Told
<1>2. CASE type # ""
    <2>1. Told(listed, previous, at, g) = <<event>>
        BY <1>2 DEF Told
    <2>2. event \in EventRow
        BY <1>2 DEF EventRow, EventOf
    <2> HIDE DEF event
    <2>3. <<event>> \in Seq(EventRow)
        BY <2>2
    <2> QED
        BY <2>1, <2>3, ConcatProperties
<1> QED
    BY <1>1, <1>2

-----------------------------------------------------------------------------
(* The newest snapshot.                                                    *)

IsList(f) == /\ DOMAIN f \subseteq Groups /\ f = [g \in DOMAIN f |-> f[g]]
             /\ \A g \in DOMAIN f : f[g] \in Record

\* What servers have, and what collectors have in hand of it.
Lists ==
    /\ offered \in [Endpoints -> [Groups -> Marks \cup {Gone}]]
    /\ \A c \in Collectors :
          /\ collectors[c].pc # "idle" => collectors[c].endpoint \in Endpoints
          /\ collectors[c].pc \in {"listed", "write"} => IsList(collectors[c].listed)

Times(e) == {0} \cup {r.at : r \in RowsOf(e)}

Histories ==
    /\ events \in [Endpoints -> [Groups -> Seq(EventRow)]]
    /\ compared \in [Endpoints -> BOOLEAN]
    /\ \A e \in Endpoints : /\ NewestAt(e) \in Times(e)
                            /\ \A t \in Times(e) : t <= NewestAt(e)

Telling == \A e \in Endpoints : compared[e] => \A g \in Groups : Tells(events[e][g], Newest(e), g)

EInv == IInv /\ Lists /\ Histories /\ Telling

LEMMA MaxOf ==
    ASSUME NEW s \in SUBSET Nat, NEW m \in s, \A t \in s : t <= m
    PROVE  Max(s) = m
<1>1. \A t \in s : m >= t
    OBVIOUS
<1>2. \A x \in s : (\A t \in s : x >= t) => x = m
    OBVIOUS
<1> QED
    BY <1>1, <1>2 DEF Max

\* Until an inventory of an endpoint is recorded, its newest snapshot stays.
LEMMA SameNewest ==
    ASSUME NEW e, RowsOf(e)' = RowsOf(e)
    PROVE  Times(e)' = Times(e) /\ NewestAt(e)' = NewestAt(e) /\ Newest(e)' = Newest(e)
BY DEF Times, NewestAt, Newest

LEMMA UnrecordedEInv ==
    ASSUME EInv, UNCHANGED recorded, IInv', Lists'
    PROVE  EInv'
<1>1. \A e \in Endpoints : RowsOf(e)' = RowsOf(e)
    BY DEF RowsOf, recorded
<1>2. Histories'
    BY <1>1, SameNewest DEF EInv, Histories, recorded
<1>3. Telling'
    BY <1>1, SameNewest DEF EInv, Telling, recorded
<1> QED
    BY <1>2, <1>3 DEF EInv

LEMMA InitEInv == Init => EInv
<1> SUFFICES ASSUME Init PROVE EInv
    OBVIOUS
<1>1. Lists
    BY DEF Init, Lists, Idle
<1>2. \A e : RowsOf(e) = {}
    BY DEF Init, RowsOf
<1>3. \A e : Times(e) = {0}
    BY <1>2 DEF Times
<1>4. \A e : NewestAt(e) = 0
    <2> TAKE e
    <2>1. Max({0}) = 0
        BY MaxOf
    <2> QED
        BY <1>2, <2>1 DEF NewestAt
<1>5. Histories
    BY <1>3, <1>4, EmptySeq DEF Init, Histories
<1>6. \A e : DOMAIN Newest(e) = {}
    BY <1>2 DEF Newest
<1>7. \A e, g : Tells(<<>>, Newest(e), g)
    BY <1>6, EmptySeq DEF Tells, SaysPresent, Alternate
<1>8. Telling
    BY <1>7 DEF Init, Telling
<1> QED
    BY <1>1, <1>5, <1>8, InitIInv DEF EInv

-----------------------------------------------------------------------------
(* Steps.                                                                  *)

LEMMA OfferEInv ==
    ASSUME EInv, IInv', NEW e \in Endpoints, NEW g \in Groups, NEW m \in Marks \cup {Gone},
           Offer(e, g, m)
    PROVE  EInv'
<1> DEFINE at == [offered[e] EXCEPT ![g] = m]
<1>1. at \in [Groups -> Marks \cup {Gone}]
    BY DEF EInv, Lists
<1>2. offered' = [offered EXCEPT ![e] = at]
    BY DEF Offer, EInv, Lists
<1> HIDE DEF at
<1>3. Lists'
    BY <1>1, <1>2 DEF Offer, EInv, Lists, IsList
<1> QED
    BY <1>3, UnrecordedEInv DEF Offer, EInv

LEMMA StartEInv ==
    ASSUME EInv, IInv', NEW c \in Collectors, NEW e \in Endpoints, Start(c, e)
    PROVE  EInv'
<1> DEFINE me == [pc |-> "connected", endpoint |-> e, at |-> clock + 1,
                  listed |-> <<>>, previous |-> <<>>]
<1>1. me.pc = "connected" /\ me.endpoint = e
    OBVIOUS
<1>2. collectors' = [collectors EXCEPT ![c] = me] /\ UNCHANGED <<offered, recorded>>
    BY DEF Start, recorded
<1> HIDE DEF me
<1>3. Lists'
    BY <1>1, <1>2 DEF EInv, Lists, IInv, Rows, IsList
<1> QED
    BY <1>2, <1>3, UnrecordedEInv DEF EInv

LEMMA ListEInv ==
    ASSUME EInv, IInv', NEW c \in Collectors, NEW described \in BOOLEAN, List(c, described)
    PROVE  EInv'
<1> DEFINE old == collectors[c]
           at == offered[old.endpoint]
           listed == [g \in {g \in Groups : at[g] # Gone} |->
                         [mark |-> at[g], described |-> described]]
           marked == [old EXCEPT !.pc = "listed"]
           me == [marked EXCEPT !.listed = listed]
<1>1. old.pc = "connected" /\ UNCHANGED <<offered, recorded>>
    BY DEF List
<1>2. IsRecord(old) /\ old.endpoint \in Endpoints
    BY <1>1 DEF EInv, IInv, InHand, Lists
<1>3. at \in [Groups -> Marks \cup {Gone}]
    BY <1>2 DEF EInv, Lists
<1>4. collectors' = [collectors EXCEPT ![c] = me]
    BY <1>2 DEF List, EInv, IInv, Rows, IsRecord
<1> HIDE DEF at
<1>5. IsList(listed)
    <2>1. \A g \in DOMAIN listed : g \in Groups /\ at[g] \in Marks
        BY <1>3
    <2>2. \A g \in DOMAIN listed : listed[g] \in Record
        BY <2>1 DEF Record
    <2> QED
        BY <2>2 DEF IsList
<1> HIDE DEF listed
<1>6. marked.pc = "listed" /\ marked.endpoint = old.endpoint /\ IsRecord(marked)
    BY <1>2 DEF IsRecord
<1> HIDE DEF marked
<1>7. me.pc = "listed" /\ me.endpoint = old.endpoint /\ me.listed = listed
    BY <1>6 DEF IsRecord
<1> HIDE DEF me
<1>8. Lists'
    BY <1>1, <1>2, <1>4, <1>5, <1>7 DEF EInv, Lists, IInv, Rows, IsList
<1> QED
    BY <1>1, <1>8, UnrecordedEInv DEF EInv

LEMMA ReadPreviousEInv ==
    ASSUME EInv, IInv', NEW c \in Collectors, ReadPrevious(c)
    PROVE  EInv'
<1> DEFINE old == collectors[c]
<1>1. PICK previous :
         collectors' = [collectors EXCEPT ![c].pc = "write", ![c].previous = previous]
    BY DEF ReadPrevious
<1>2. UNCHANGED <<offered, recorded>> /\ old.pc = "listed"
    BY DEF ReadPrevious
<1> DEFINE marked == [old EXCEPT !.pc = "write"]
           me == [marked EXCEPT !.previous = previous]
<1>3. IsRecord(old)
    BY DEF EInv, IInv, InHand
<1>4. marked.pc = "write" /\ marked.endpoint = old.endpoint /\ marked.listed = old.listed
          /\ IsRecord(marked)
    BY <1>3 DEF IsRecord
<1>5. collectors' = [collectors EXCEPT ![c] = me]
    BY <1>1, <1>3 DEF EInv, IInv, Rows, IsRecord
<1> HIDE DEF marked
<1>6. me.pc = "write" /\ me.endpoint = old.endpoint /\ me.listed = old.listed
    BY <1>4 DEF IsRecord
<1> HIDE DEF me
<1>7. Lists'
    BY <1>2, <1>5, <1>6 DEF EInv, Lists, IInv, Rows, IsList
<1> QED
    BY <1>2, <1>7, UnrecordedEInv DEF EInv

LEMMA IdleLists ==
    ASSUME EInv, NEW c \in Collectors, collectors' = [collectors EXCEPT ![c] = Idle],
           offered' = offered
    PROVE  Lists'
BY DEF EInv, Lists, IInv, Rows, Idle, IsList

LEMMA GiveUpEInv ==
    ASSUME EInv, IInv', NEW c \in Collectors, GiveUp(c)
    PROVE  EInv'
BY IdleLists, UnrecordedEInv DEF GiveUp

\* The newest snapshot once a later one is recorded.
LEMMA NewestIsNew ==
    ASSUME NEW e, NEW at \in Time, NEW listed, IsList(listed), DOMAIN listed # {}, NEW new,
           \A r \in new : /\ r.at = at /\ r.group \in DOMAIN listed
                          /\ r.record = listed[r.group],
           \A g \in DOMAIN listed : \E r \in new : r.group = g,
           RowsOf(e)' = RowsOf(e) \cup new, Times(e) \in SUBSET Nat, \A t \in Times(e) : t < at
    PROVE  NewestAt(e)' = at /\ Newest(e)' = listed
<1>1. Times(e)' = Times(e) \cup {at}
    BY DEF Times
<1>2. NewestAt(e)' = Max(Times(e)')
    BY DEF NewestAt, Times
<1>3. at \in Nat /\ \A t \in Times(e) \cup {at} : t <= at
    BY DEF Time
<1>4. NewestAt(e)' = at
    BY <1>1, <1>2, <1>3, MaxOf
<1> DEFINE rows == {r \in RowsOf(e)' : r.at = NewestAt(e)'}
<1>5. rows = new
    <2>1. \A r \in RowsOf(e) : r.at \in Times(e)
        BY DEF Times
    <2>2. \A r \in RowsOf(e) : r.at # at
        BY <2>1 DEF Time
    <2> QED
        BY <1>4, <2>2
<1>6. Newest(e)' = [g \in {r.group : r \in rows} |-> (CHOOSE r \in rows : r.group = g).record]
    BY DEF Newest
<1> HIDE DEF rows
<1>7. {r.group : r \in rows} = DOMAIN listed
    BY <1>5
<1>8. \A g \in DOMAIN listed : (CHOOSE r \in rows : r.group = g).record = listed[g]
    <2> TAKE g \in DOMAIN listed
    <2>1. \E r \in rows : r.group = g
        BY <1>5
    <2>2. PICK s : s = (CHOOSE r \in rows : r.group = g)
        OBVIOUS
    <2>3. s \in rows /\ s.group = g
        BY <2>1, <2>2
    <2> QED
        BY <1>5, <2>2, <2>3
<1>9. Newest(e)' = [g \in DOMAIN listed |-> listed[g]]
    BY <1>6, <1>7, <1>8
<1> QED
    BY <1>4, <1>9 DEF IsList

LEMMA WriteEInv ==
    ASSUME EInv, IInv', NEW c \in Collectors, Write(c)
    PROVE  EInv'
<1>0. PICK e \in Endpoints, at \in Time : e = collectors[c].endpoint /\ at = collectors[c].at
    BY DEF Write, EInv, Lists, IInv, InHand
<1>1. PICK listed, previous :
         /\ e = collectors[c].endpoint /\ at = collectors[c].at
         /\ listed = collectors[c].listed /\ previous = collectors[c].previous
         /\ IsList(listed)
    BY <1>0 DEF Write, EInv, Lists
<1> DEFINE new == {[endpoint |-> e, at |-> at, group |-> g, record |-> listed[g]] :
                       g \in DOMAIN listed}
           told == [g \in Groups |-> events[e][g] \o Told(listed, previous, at, g)]
<1>2. /\ snapshots' = snapshots \cup new
      /\ compared' = [compared EXCEPT ![e] =
                         compared[e] /\ DOMAIN listed # {} /\ previous = Newest(e)
                                     /\ NewestAt(e) < at]
      /\ collectors' = [collectors EXCEPT ![c] = Idle] /\ offered' = offered
    BY <1>1 DEF Write
<1>3. events' = [events EXCEPT ![e] = told]
    <2>1. \A g : Event(collectors[c], g) = Told(listed, previous, at, g)
        BY <1>1 DEF Event, Told
    <2> QED
        BY <1>1, <2>1 DEF Write
<1>4. Lists'
    BY <1>2, IdleLists
<1>5. /\ \A r \in new : /\ r.endpoint = e /\ r.at = at /\ r.group \in DOMAIN listed
                        /\ r.record = listed[r.group]
      /\ \A g \in DOMAIN listed : \E r \in new : r.group = g
    <2> DEFINE row(g) == [endpoint |-> e, at |-> at, group |-> g, record |-> listed[g]]
    <2>1. \A g \in DOMAIN listed : /\ row(g).endpoint = e /\ row(g).at = at
                                   /\ row(g).group = g /\ row(g).record = listed[g]
        OBVIOUS
    <2>2. new = {row(g) : g \in DOMAIN listed}
        OBVIOUS
    <2> HIDE DEF row, new
    <2> QED
        BY <2>1, <2>2
<1>6. new = {} <=> DOMAIN listed = {}
    OBVIOUS
<1> HIDE DEF new
<1>7. RowsOf(e)' = RowsOf(e) \cup new /\ \A f \in Endpoints \ {e} : RowsOf(f)' = RowsOf(f)
    BY <1>2, <1>5 DEF RowsOf
<1>8. Times(e) \in SUBSET Nat
    BY DEF EInv, IInv, Rows, Times, RowsOf, Time
<1>9. \A g \in Groups : g \in DOMAIN listed => listed[g] \in Record
    BY <1>1 DEF IsList
<1>10. told \in [Groups -> Seq(EventRow)]
    BY <1>9, TellsTyped DEF EInv, Histories
<1>11. \A f \in Endpoints : NewestAt(f)' \in Times(f)' /\ \A t \in Times(f)' : t <= NewestAt(f)'
    <2>1. NewestAt(e) \in Times(e) /\ \A t \in Times(e) : t <= NewestAt(e)
        BY DEF EInv, Histories
    <2>2. CASE DOMAIN listed = {}
        BY <1>6, <1>7, <2>2, SameNewest DEF EInv, Histories
    <2>3. CASE DOMAIN listed # {}
        <3>1. Times(e)' = Times(e) \cup {at}
            BY <1>5, <1>6, <1>7, <2>3 DEF Times
        <3>2. NewestAt(e)' = Max(Times(e)')
            BY DEF NewestAt, Times
        <3> DEFINE m == IF at <= NewestAt(e) THEN NewestAt(e) ELSE at
        <3>3. m \in Times(e)' /\ Times(e)' \in SUBSET Nat /\ \A t \in Times(e)' : t <= m
            BY <1>8, <2>1, <3>1 DEF Time
        <3> HIDE DEF m
        <3>4. NewestAt(e)' = m
            BY <3>2, <3>3, MaxOf
        <3>5. ASSUME NEW f \in Endpoints \ {e}
              PROVE  NewestAt(f)' \in Times(f)' /\ \A t \in Times(f)' : t <= NewestAt(f)'
            BY <1>7, SameNewest DEF EInv, Histories
        <3> QED
            BY <3>3, <3>4, <3>5
    <2> QED
        BY <2>2, <2>3
<1>12. Histories'
    <2>1. events' \in [Endpoints -> [Groups -> Seq(EventRow)]]
        BY <1>3, <1>10 DEF EInv, Histories
    <2>2. compared' \in [Endpoints -> BOOLEAN]
        BY <1>2 DEF EInv, Histories
    <2> QED
        BY <1>11, <2>1, <2>2 DEF Histories
<1>13. ASSUME NEW f \in Endpoints, compared'[f], NEW g \in Groups
       PROVE  Tells(events[f][g], Newest(f), g)'
    <2>1. CASE f # e
        <3>1. compared[f] /\ events'[f] = events[f]
            BY <1>2, <1>3, <1>13, <2>1 DEF EInv, Histories
        <3>2. Tells(events[f][g], Newest(f), g) /\ Newest(f)' = Newest(f)
            BY <1>7, <2>1, <3>1, SameNewest DEF EInv, Telling
        <3> QED
            BY <3>1, <3>2 DEF Tells
    <2>2. CASE f = e
        <3>1. compared[e] /\ DOMAIN listed # {} /\ previous = Newest(e) /\ NewestAt(e) < at
            BY <1>2, <1>13, <2>2 DEF EInv, Histories
        <3>2. \A t \in Times(e) : t < at
            BY <1>8, <3>1 DEF EInv, Histories, Time
        <3>3. Newest(e)' = listed
            BY <1>1, <1>5, <1>7, <1>8, <3>1, <3>2, NewestIsNew
        <3>4. Tells(events[e][g], previous, g)
            BY <3>1 DEF EInv, Telling
        <3>5. events[e][g] \in Seq(EventRow)
            BY DEF EInv, Histories
        <3>6. Tells(events[e][g] \o Told(listed, previous, at, g), listed, g)
            BY <1>9, <3>4, <3>5, TellsOn
        <3>7. events'[e][g] = events[e][g] \o Told(listed, previous, at, g)
            BY <1>3 DEF EInv, Histories
        <3> QED
            BY <2>2, <3>3, <3>6, <3>7 DEF Tells
    <2> QED
        BY <2>1, <2>2
<1>14. Telling'
    BY <1>13 DEF Telling
<1> QED
    BY <1>4, <1>12, <1>14 DEF EInv

LEMMA NextEInv == EInv /\ [Next]_vars => EInv'
<1> SUFFICES ASSUME EInv, [Next]_vars PROVE EInv'
    OBVIOUS
<1>1. IInv'
    BY NextIInv DEF EInv
<1>2. CASE UNCHANGED vars
    BY <1>1, <1>2, UnrecordedEInv DEF vars, recorded, EInv, Lists
<1> QED
    BY <1>1, <1>2, OfferEInv, StartEInv, ListEInv, ReadPreviousEInv, GiveUpEInv, WriteEInv
    DEF Next

\* record_group_inventory of storage.py: for every endpoint none of whose
\* inventories overlapped another one or was empty, the events of a group take
\* turns in appearing and disappearing, end in what the newest snapshot shows, and
\* a last change leads to what it shows, whatever exchanges failed in between.
THEOREM EventsTell == Spec => []EventsTellPresence
<1>1. Init => EInv
    BY InitEInv
<1>2. EInv /\ [Next]_vars => EInv'
    BY NextEInv
<1>3. EInv => EventsTellPresence
    <2> SUFFICES ASSUME EInv, NEW e \in Endpoints, compared[e], NEW g \in Groups
                 PROVE  LET history == events[e][g]
                            listed == Newest(e)
                        IN  /\ SaysPresent(history) <=> (g \in DOMAIN listed)
                            /\ \A n \in DOMAIN history : (history[n].type = "appeared") <=>
                                  ~ SaysPresent(SubSeq(history, 1, n - 1))
                            /\ \A n \in DOMAIN history :
                                  /\ history[n].type = "changed"
                                  /\ \A m \in n + 1 .. Len(history) : history[m].type # "changed"
                                  /\ n = Len(history)
                                  => history[n].after = <<listed[g]>>
        BY DEF EventsTellPresence
    <2> DEFINE history == events[e][g]
               listed == Newest(e)
    <2>1. Tells(history, listed, g) /\ history \in Seq(EventRow)
        BY DEF EInv, Telling, Histories
    <2> HIDE DEF history, listed
    <2>2. \A n \in DOMAIN history : (history[n].type = "appeared") <=>
              ~ SaysPresent(SubSeq(history, 1, n - 1))
        BY <2>1, SaysBefore DEF Tells, Alternate
    <2>3. ASSUME NEW n \in DOMAIN history, history[n].type = "changed", n = Len(history)
          PROVE  history[n].after = <<listed[g]>>
        <3>1. history # <<>> /\ history[n] = Last(history)
            BY <2>3 DEF Last
        <3> QED
            BY <2>1, <2>3, <3>1 DEF Tells
    <2>4. SaysPresent(history) <=> (g \in DOMAIN listed)
        BY <2>1 DEF Tells
    <2> QED
        BY <2>2, <2>3, <2>4 DEF history, listed
<1> QED
    BY <1>1, <1>2, <1>3, PTL DEF Spec
=============================================================================
