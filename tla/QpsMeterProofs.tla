---------------------------- MODULE QpsMeterProofs ----------------------------
(***************************************************************************)
(* TypeOK and NeverOverReports hold for any workers, capacities and        *)
(* lengths.                                                                *)
(***************************************************************************)
EXTENDS QpsMeter, FiniteSetTheorems, TLAPS

\* Updates that were made and are not counted yet.
NotYetCounted == {w \in Workers : wpc[w] = "count"}

\* What MonitorQPS has loaded and, once it has stored, alone accounts for.
InHand == IF mpc = "send" THEN qps ELSE 0

\* The strengthening of NeverOverReports: an update is in one place at a time.
\* Until the store, what was loaded is still in MyQPS; the Engine's own reset
\* comes before all updates.
NothingTwice ==
  /\ reported + InHand + MyQPS + Cardinality(NotYetCounted) <= updates
  /\ mpc = "store" => qps <= MyQPS
  /\ ~started => updates = 0

Inv == TypeOK /\ NothingTwice

LEMMA PendingType == Cardinality(NotYetCounted) \in Nat
<1>1. IsFiniteSet(NotYetCounted)
  BY MeterAssumption, FS_Subset DEF NotYetCounted
<1> QED  BY <1>1, FS_CardinalityType

\* What Consume makes of the history.
LEMMA AppendType ==
  ASSUME TypeOK, NEW item \in Nat
  PROVE  /\ AppendItem(Qps, HostName, item) \in [{HostName} -> Seq(Nat)]
         /\ Len(AppendItem(Qps, HostName, item)[HostName]) <= CIRCBUFMAPLEN
<1> DEFINE list == Qps[HostName]
<1>1. CIRCBUFMAPLEN \in Nat \ {0} /\ list \in Seq(Nat) /\ Len(list) <= CIRCBUFMAPLEN
  BY CircBufAssumption DEF TypeOK
<1>2. AppendItem(Qps, HostName, item) = [Qps EXCEPT ![HostName] = Append(Room(list), item)]
  BY DEF AppendItem, TypeOK
<1> HIDE DEF list
<1>3. Room(list) \in Seq(Nat) /\ Len(Room(list)) + 1 <= CIRCBUFMAPLEN
  <2>1. CASE Len(list) >= CIRCBUFMAPLEN
    <3>1. list # <<>>
      BY <1>1, <2>1
    <3>2. Tail(list) \in Seq(Nat) /\ Len(Tail(list)) = Len(list) - 1
      BY <1>1, <3>1
    <3> QED  BY <1>1, <2>1, <3>2 DEF Room
  <2>2. CASE Len(list) < CIRCBUFMAPLEN
    BY <1>1, <2>2 DEF Room
  <2> QED  BY <1>1, <2>1, <2>2
<1>4. /\ Append(Room(list), item) \in Seq(Nat)
      /\ Len(Append(Room(list), item)) = Len(Room(list)) + 1
  BY <1>3
<1> QED  BY <1>2, <1>3, <1>4 DEF TypeOK

LEMMA TypeInv == TypeOK /\ [Next]_vars => TypeOK'
<1> SUFFICES ASSUME TypeOK, [Next]_vars PROVE TypeOK'
  OBVIOUS
<1> USE MeterAssumption DEF TypeOK
<1>1. CASE Begin
  BY <1>1 DEF Begin
<1>2. CASE Load
  BY <1>2 DEF Load
<1>3. CASE Store
  BY <1>3 DEF Store, AfterStore
<1>4. CASE Send
  BY <1>4 DEF Send
<1>5. CASE Consume
  <2>1. /\ Head(UIMsgs) \in Nat
        /\ Tail(UIMsgs) \in Seq(Nat)
        /\ Len(Tail(UIMsgs)) <= UICAP
    BY <1>5 DEF Consume
  <2>2. UNCHANGED <<MyQPS, mpc, qps, started, wpc, updates, reported>>
    BY <1>5 DEF Consume
  <2>3. Qps' = AppendItem(Qps, HostName, Head(UIMsgs)) /\ UIMsgs' = Tail(UIMsgs)
    BY <1>5 DEF Consume
  <2> QED  BY <2>1, <2>2, <2>3, AppendType
<1>6. ASSUME NEW w \in Workers, Update(w) PROVE TypeOK'
  BY <1>6 DEF Update
<1>7. ASSUME NEW w \in Workers, Count(w) PROVE TypeOK'
  BY <1>7 DEF Count
<1>8. CASE UNCHANGED vars
  BY <1>8 DEF vars
<1> QED  BY <1>1, <1>2, <1>3, <1>4, <1>5, <1>6, <1>7, <1>8 DEF Next

LEMMA CountInv == Inv /\ [Next]_vars => NothingTwice'
<1> SUFFICES ASSUME Inv, [Next]_vars PROVE NothingTwice'
  OBVIOUS
<1>t. /\ MyQPS \in Nat /\ qps \in Nat /\ updates \in Nat /\ reported \in Nat
      /\ Cardinality(NotYetCounted) \in Nat
  BY PendingType DEF Inv, TypeOK
<1>0. ASSUME UNCHANGED wpc PROVE NotYetCounted' = NotYetCounted
  BY <1>0 DEF NotYetCounted
<1> USE <1>t DEF Inv, NothingTwice, InHand
<1>1. CASE Begin
  BY <1>1, <1>0 DEF Begin
<1>2. CASE Load
  BY <1>2, <1>0 DEF Load
<1>3. CASE Store
  BY <1>3, <1>0 DEF Store, AfterStore
<1>4. CASE Send
  BY <1>4, <1>0 DEF Send
<1>5. CASE Consume
  BY <1>5, <1>0 DEF Consume
<1>6. ASSUME NEW w \in Workers, Update(w) PROVE NothingTwice'
  <2>1. NotYetCounted' = NotYetCounted \cup {w} /\ w \notin NotYetCounted
    BY <1>6 DEF Update, NotYetCounted, TypeOK
  <2>2. IsFiniteSet(NotYetCounted)
    BY MeterAssumption, FS_Subset DEF NotYetCounted
  <2>3. Cardinality(NotYetCounted') = Cardinality(NotYetCounted) + 1
    BY <2>1, <2>2, FS_AddElement
  <2> QED  BY <1>6, <2>3 DEF Update
<1>7. ASSUME NEW w \in Workers, Count(w) PROVE NothingTwice'
  <2>1. NotYetCounted' = NotYetCounted \ {w} /\ w \in NotYetCounted
    BY <1>7 DEF Count, NotYetCounted, TypeOK
  <2>2. IsFiniteSet(NotYetCounted)
    BY MeterAssumption, FS_Subset DEF NotYetCounted
  <2>3. Cardinality(NotYetCounted') = Cardinality(NotYetCounted) - 1
    BY <2>1, <2>2, FS_RemoveElement
  <2> QED  BY <1>7, <2>3 DEF Count
<1>8. CASE UNCHANGED vars
  BY <1>8, <1>0 DEF vars
<1> QED  BY <1>1, <1>2, <1>3, <1>4, <1>5, <1>6, <1>7, <1>8 DEF Next

LEMMA InitInv == Init => Inv
<1> SUFFICES ASSUME Init PROVE Inv
  OBVIOUS
<1>1. Qps \in [{HostName} -> Seq(Nat)] /\ Len(Qps[HostName]) = 0
  BY DEF Init, MakeNode, NewCircBufMap
<1>2. TypeOK
  <2>1. wpc \in [Workers -> {"update", "count"}]
    BY DEF Init
  <2>2. UIMsgs \in Seq(Nat) /\ Len(UIMsgs) = 0
    BY DEF Init
  <2>3. Len(Qps[HostName]) <= CIRCBUFMAPLEN /\ Len(UIMsgs) <= UICAP
    BY <1>1, <2>2, CircBufAssumption, MeterAssumption
  <2>4. /\ MyQPS \in Nat /\ qps \in Nat /\ updates \in Nat /\ reported \in Nat
        /\ mpc \in {"tick", "store", "send"} /\ started \in BOOLEAN
    BY DEF Init
  <2> QED  BY <1>1, <2>1, <2>2, <2>3, <2>4 DEF TypeOK
<1>3. NotYetCounted = {}
  BY DEF Init, NotYetCounted
<1>4. Cardinality(NotYetCounted) = 0
  BY <1>3, FS_EmptySet
<1> QED  BY <1>2, <1>4 DEF Init, Inv, NothingTwice, InHand

LEMMA InvHolds == Spec => []Inv
<1>1. Inv /\ [Next]_vars => Inv'
  BY TypeInv, CountInv DEF Inv
<1> QED  BY <1>1, InitInv, PTL DEF Spec

\* Every variable of the meter keeps to its type and no queue or history to
\* more than its capacity: MonitorQPS waits while UIMsgs is full, Append drops
\* the oldest point.
THEOREM TypeCorrect == Spec => []TypeOK
  BY InvHolds, PTL DEF Inv

\* A host never reports more updates than it made, whatever workers count
\* between MonitorQPS's load and its store.
THEOREM NeverOverReportsCorrect == Spec => []NeverOverReports
<1>1. Inv => NeverOverReports
  BY PendingType DEF Inv, TypeOK, NothingTwice, InHand, NeverOverReports
<1> QED  BY <1>1, InvHolds, PTL

-----------------------------------------------------------------------------
(***************************************************************************)
(* The lists of a CircBufMap, of any items for any hosts: what Histories    *)
(* says of them holds whatever is added, removed and taken over.           *)
(***************************************************************************)
CONSTANTS
  Self,    \* the node that has this table
  Others,  \* the names of other nodes
  Items    \* what may be added

VARIABLES
  c,      \* a CircBufMap
  past    \* for each host, what was taken over and added since then

Lists == INSTANCE Histories

ListsInv == Lists!TypeOK /\ Lists!ListsAreLatest

\* One Append keeps a list the latest part of what was added: the step that
\* drops the oldest item moves the window by exactly one.
LEMMA RoomKeepsLatest ==
  ASSUME NEW S, NEW list \in Seq(S), NEW all \in Seq(S), NEW item \in S,
         Lists!IsLatest(list, all)
  PROVE  /\ Append(Lists!Room(list), item) \in Seq(S)
         /\ Lists!IsLatest(Append(Lists!Room(list), item), Append(all, item))
<1>0. CIRCBUFMAPLEN \in Nat \ {0} /\ Len(list) \in Nat /\ Len(all) \in Nat
  BY CircBufAssumption
<1>1. CASE Len(list) >= CIRCBUFMAPLEN
  <2> DEFINE new == Append(Tail(list), item)
  <2>1. list # <<>> /\ Len(list) = CIRCBUFMAPLEN /\ Len(all) >= CIRCBUFMAPLEN
    BY <1>0, <1>1 DEF Lists!IsLatest
  <2>2. /\ Tail(list) \in Seq(S)
        /\ Len(Tail(list)) = Len(list) - 1
        /\ \A i \in 1 .. Len(list) - 1 : Tail(list)[i] = list[i + 1]
    BY <2>1
  <2>3. /\ new \in Seq(S)
        /\ Len(new) = CIRCBUFMAPLEN
        /\ \A i \in 1 .. CIRCBUFMAPLEN - 1 : new[i] = list[i + 1]
        /\ new[CIRCBUFMAPLEN] = item
    BY <1>0, <2>1, <2>2
  <2> HIDE DEF new
  <2>4. \A i \in 1 .. CIRCBUFMAPLEN :
           new[i] = Append(all, item)[Len(all) + 1 - CIRCBUFMAPLEN + i]
    <3> TAKE i \in 1 .. CIRCBUFMAPLEN
    <3>1. CASE i = CIRCBUFMAPLEN
      BY <1>0, <3>1, <2>1, <2>3
    <3>2. CASE i < CIRCBUFMAPLEN
      <4>1. i + 1 \in 1 .. Len(list) /\ new[i] = list[i + 1]
        BY <1>0, <3>2, <2>1, <2>3
      <4>2. list[i + 1] = all[Len(all) - Len(list) + (i + 1)]
        BY <4>1 DEF Lists!IsLatest
      <4>3. /\ Len(all) - Len(list) + (i + 1) = Len(all) + 1 - CIRCBUFMAPLEN + i
            /\ Len(all) + 1 - CIRCBUFMAPLEN + i \in 1 .. Len(all)
        BY <1>0, <3>2, <2>1
      <4> QED  BY <4>1, <4>2, <4>3
    <3>3. i = CIRCBUFMAPLEN \/ i < CIRCBUFMAPLEN
      BY <1>0
    <3> QED  BY <3>1, <3>2, <3>3
  <2>5. Append(all, item) \in Seq(S) /\ Len(Append(all, item)) = Len(all) + 1
    OBVIOUS
  <2>6. Lists!IsLatest(new, Append(all, item))
    <3>1. ~(Len(all) + 1 < CIRCBUFMAPLEN)
      BY <1>0, <2>1
    <3>2. \A i \in 1 .. CIRCBUFMAPLEN :
             Len(Append(all, item)) - Len(new) + i = Len(all) + 1 - CIRCBUFMAPLEN + i
      BY <1>0, <2>3, <2>5
    <3>3. \A i \in 1 .. Len(new) :
             new[i] = Append(all, item)[Len(Append(all, item)) - Len(new) + i]
      BY <3>2, <2>3, <2>4
    <3> QED  BY <3>1, <3>3, <2>3, <2>5 DEF Lists!IsLatest
  <2> QED  BY <1>1, <2>3, <2>6 DEF Lists!Room, new
<1>2. CASE Len(list) < CIRCBUFMAPLEN
  <2>1. Lists!Room(list) = list
    BY <1>0, <1>2 DEF Lists!Room
  <2>2. Len(list) = Len(all) /\ \A i \in 1 .. Len(list) : list[i] = all[i]
    <3>1. Len(list) = Len(all)
      BY <1>0, <1>2 DEF Lists!IsLatest
    <3>2. \A i \in 1 .. Len(list) : Len(all) - Len(list) + i = i
      BY <1>0, <3>1
    <3> QED  BY <3>1, <3>2 DEF Lists!IsLatest
  <2>3. /\ Append(list, item) \in Seq(S) /\ Append(all, item) \in Seq(S)
        /\ Len(Append(list, item)) = Len(list) + 1
        /\ Len(Append(all, item)) = Len(all) + 1
        /\ \A i \in 1 .. Len(list) + 1 : Append(list, item)[i] = Append(all, item)[i]
    BY <1>0, <2>2
  <2> DEFINE new == Append(list, item)
             allnew == Append(all, item)
  <2>4. Len(new) = Len(allnew) /\ Len(new) <= CIRCBUFMAPLEN /\ Len(new) \in Nat
    BY <1>0, <1>2, <2>2, <2>3
  <2>5. \A i \in 1 .. Len(new) : new[i] = allnew[i]
    BY <2>3
  <2> HIDE DEF new, allnew
  <2>6. \A i \in 1 .. Len(new) : Len(allnew) - Len(new) + i = i
    BY <2>4
  <2>7. Lists!IsLatest(new, allnew)
    BY <1>0, <2>4, <2>5, <2>6 DEF Lists!IsLatest
  <2> QED  BY <2>1, <2>3, <2>7 DEF new, allnew
<1>3. Len(list) >= CIRCBUFMAPLEN \/ Len(list) < CIRCBUFMAPLEN
  BY <1>0
<1> QED  BY <1>1, <1>2, <1>3

LEMMA EmptyIsLatest == Lists!IsLatest(<<>>, <<>>)
  BY CircBufAssumption DEF Lists!IsLatest

LEMMA ListsInit == Lists!Init => ListsInv
<1> SUFFICES ASSUME Lists!Init PROVE ListsInv
  OBVIOUS
<1>1. DOMAIN c = {Self} /\ c[Self] = <<>>
  BY DEF Lists!Init, Lists!MakeNode, Lists!NewCircBufMap
<1> QED  BY <1>1, EmptyIsLatest DEF Lists!Init, ListsInv, Lists!Hosts, Lists!TypeOK, Lists!ListsAreLatest

LEMMA AddInv ==
  ASSUME NEW h \in Lists!Hosts, NEW item \in Items, ListsInv, Lists!Add(h, item)
  PROVE  ListsInv'
<1> DEFINE d == IF h \in DOMAIN c THEN c ELSE Lists!MakeNode(c, h)
           new == Append(Lists!Room(d[h]), item)
<1>1. /\ DOMAIN d = DOMAIN c \cup {h}
      /\ \A k \in DOMAIN c \ {h} : d[k] = c[k]
      /\ d[h] = IF h \in DOMAIN c THEN c[h] ELSE <<>>
  BY DEF Lists!MakeNode
<1>2. d[h] \in Seq(Items) /\ past[h] \in Seq(Items) /\ Lists!IsLatest(d[h], past[h])
  BY <1>1, EmptyIsLatest DEF ListsInv, Lists!TypeOK, Lists!ListsAreLatest
<1>3. new \in Seq(Items) /\ Lists!IsLatest(new, Append(past[h], item))
  <2> HIDE DEF d
  <2> QED  BY <1>2, RoomKeepsLatest
<1>4. c' = [d EXCEPT ![h] = new]
  BY DEF Lists!Add, Lists!AppendItem
<1> HIDE DEF d, new
<1>5. /\ DOMAIN c' = DOMAIN c \cup {h}
      /\ c'[h] = new
      /\ \A k \in DOMAIN c \ {h} : c'[k] = c[k]
  BY <1>1, <1>4
<1>6. /\ past' = [past EXCEPT ![h] = Append(past[h], item)]
      /\ Append(past[h], item) \in Seq(Items)
  BY <1>2 DEF Lists!Add
<1>7. Lists!TypeOK'
  BY <1>3, <1>5, <1>6 DEF ListsInv, Lists!TypeOK
<1>8. ASSUME NEW k \in Lists!Hosts
      PROVE  IF k \in DOMAIN c' THEN Lists!IsLatest(c'[k], past'[k]) ELSE past'[k] = <<>>
  <2>1. CASE k = h
    <3>1. past'[h] = Append(past[h], item)
      BY <1>6 DEF ListsInv, Lists!TypeOK
    <3> QED  BY <2>1, <3>1, <1>3, <1>5
  <2>2. CASE k # h
    <3>1. past'[k] = past[k]
      BY <2>2, <1>6 DEF ListsInv, Lists!TypeOK
    <3> QED  BY <2>2, <3>1, <1>5 DEF ListsInv, Lists!ListsAreLatest
  <2> QED  BY <2>1, <2>2
<1> QED  BY <1>7, <1>8 DEF ListsInv, Lists!ListsAreLatest, Lists!IsLatest

LEMMA DeleteInv ==
  ASSUME NEW h \in Lists!Hosts, ListsInv, Lists!Delete(h)
  PROVE  ListsInv'
<1>1. /\ DOMAIN c' = DOMAIN c \ {h}
      /\ past'[h] = <<>>
      /\ \A k \in DOMAIN c \ {h} : c'[k] = c[k]
      /\ \A k \in Lists!Hosts \ {h} : past'[k] = past[k]
      /\ past' \in [Lists!Hosts -> Seq(Items)]
  BY DEF Lists!Delete, Lists!Remove, ListsInv, Lists!TypeOK
<1> QED  BY <1>1 DEF ListsInv, Lists!TypeOK, Lists!ListsAreLatest, Lists!IsLatest

\* A list of at most CIRCBUFMAPLEN items is the latest part of itself.
LEMMA WholeIsLatest ==
  ASSUME NEW list \in Seq(Items), Len(list) <= CIRCBUFMAPLEN
  PROVE  Lists!IsLatest(list, list)
<1>1. CIRCBUFMAPLEN \in Nat \ {0} /\ Len(list) \in Nat
  BY CircBufAssumption
<1>2. \A i \in 1 .. Len(list) : Len(list) - Len(list) + i = i
  BY <1>1
<1> QED  BY <1>1, <1>2 DEF Lists!IsLatest

LEMMA MergeInv ==
  ASSUME NEW h \in Lists!Hosts, NEW list \in Seq(Items), ListsInv, Lists!Merge(h, list)
  PROVE  ListsInv'
<1>1. /\ DOMAIN c' = DOMAIN c \cup {h}
      /\ c'[h] = list
      /\ \A k \in DOMAIN c \ {h} : c'[k] = c[k]
  BY DEF Lists!Merge
<1>2. /\ past'[h] = list
      /\ \A k \in Lists!Hosts \ {h} : past'[k] = past[k]
      /\ past' \in [Lists!Hosts -> Seq(Items)]
  BY DEF Lists!Merge, ListsInv, Lists!TypeOK
<1>3. Lists!IsLatest(list, list)
  BY WholeIsLatest DEF Lists!Merge
<1>4. Lists!TypeOK'
  BY <1>1, <1>2 DEF ListsInv, Lists!TypeOK
<1>5. ASSUME NEW k \in Lists!Hosts
      PROVE  IF k \in DOMAIN c' THEN Lists!IsLatest(c'[k], past'[k]) ELSE past'[k] = <<>>
  <2>1. CASE k = h
    BY <2>1, <1>1, <1>2, <1>3
  <2>2. CASE k # h
    BY <2>2, <1>1, <1>2 DEF ListsInv, Lists!ListsAreLatest
  <2> QED  BY <2>1, <2>2
<1> QED  BY <1>4, <1>5 DEF ListsInv, Lists!ListsAreLatest, Lists!IsLatest

\* Every host's list is the latest part of what was added for it since it was made,
\* or since MergeRemoteState took it over, and of what it was then; at most
\* CIRCBUFMAPLEN items.  This host's own list is never taken over, so it is the
\* latest part of all that was added.  Append in cluster/common.go drops the
\* oldest item exactly when the list is full.
THEOREM ListsCorrect == Lists!Spec => []Lists!ListsAreLatest
<1>1. ListsInv /\ [Lists!Next]_(Lists!vars) => ListsInv'
  <2> SUFFICES ASSUME ListsInv, [Lists!Next]_(Lists!vars) PROVE ListsInv'
    OBVIOUS
  <2>1. CASE Lists!Next
    BY <2>1, AddInv, DeleteInv, MergeInv DEF Lists!Next
  <2>2. CASE UNCHANGED Lists!vars
    BY <2>2 DEF Lists!vars, ListsInv, Lists!TypeOK, Lists!ListsAreLatest, Lists!IsLatest
  <2> QED  BY <2>1, <2>2
<1> QED  BY <1>1, ListsInit, PTL DEF Lists!Spec, ListsInv

-----------------------------------------------------------------------------
(***************************************************************************)
(* The history of the dashboard is such a list: with the points it was     *)
(* given as a history variable, the meter implements Histories.            *)
(***************************************************************************)
VARIABLE shown  \* the points the dashboard was given

Dashboard == INSTANCE Histories
  WITH Self <- HostName, Others <- {}, Items <- Nat, c <- Qps, past <- shown

\* Consume gives it the first of UIMsgs.
Shows ==
  shown' = IF Consume THEN [shown EXCEPT ![HostName] = Append(@, Head(UIMsgs))] ELSE shown

ShownSpec ==
  /\ Init /\ shown = [h \in {HostName} |-> <<>>]
  /\ [][Next /\ Shows]_<<vars, shown>>

ShownInv == TypeOK /\ shown \in [{HostName} -> Seq(Nat)]

LEMMA ShownType == ShownSpec => []ShownInv
<1>1. Init /\ shown = [h \in {HostName} |-> <<>>] => ShownInv
  <2> SUFFICES ASSUME Init, shown = [h \in {HostName} |-> <<>>] PROVE ShownInv
    OBVIOUS
  <2>1. TypeOK
    BY InitInv DEF Inv
  <2>2. <<>> \in Seq(Nat)
    OBVIOUS
  <2> QED  BY <2>1, <2>2 DEF ShownInv
<1>2. ShownInv /\ [Next /\ Shows]_<<vars, shown>> => ShownInv'
  <2> SUFFICES ASSUME ShownInv, [Next /\ Shows]_<<vars, shown>> PROVE ShownInv'
    OBVIOUS
  <2>1. TypeOK'
    BY TypeInv DEF ShownInv
  <2>2. CASE Shows /\ Consume
    <3>1. Head(UIMsgs) \in Nat
      BY <2>2 DEF ShownInv, TypeOK, Consume
    <3>2. shown' = [shown EXCEPT ![HostName] = Append(shown[HostName], Head(UIMsgs))]
      BY <2>2 DEF Shows
    <3>3. shown[HostName] \in Seq(Nat)
      BY DEF ShownInv
    <3>4. Append(shown[HostName], Head(UIMsgs)) \in Seq(Nat)
      BY <3>1, <3>3
    <3>5. shown' \in [{HostName} -> Seq(Nat)]
      BY <3>2, <3>4 DEF ShownInv
    <3> QED  BY <2>1, <3>5 DEF ShownInv
  <2>3. CASE shown' = shown
    BY <2>1, <2>3 DEF ShownInv
  <2> QED  BY <2>2, <2>3 DEF Shows
<1> QED  BY <1>1, <1>2, PTL DEF ShownSpec

\* Whatever else the meter does, the list of the host on the dashboard is only ever
\* appended to, by StatsMessageConsumer, as a CircBufMap promises.
THEOREM HistoryIsKept == ShownSpec => Dashboard!Spec
<1>1. Init /\ shown = [h \in {HostName} |-> <<>>] => Dashboard!Init
  BY DEF Init, Dashboard!Init, Dashboard!Hosts, MakeNode, NewCircBufMap, Dashboard!MakeNode, Dashboard!NewCircBufMap
<1>2. ShownInv /\ [Next /\ Shows]_<<vars, shown>> => [Dashboard!Next]_(Dashboard!vars)
  <2> SUFFICES ASSUME ShownInv, [Next /\ Shows]_<<vars, shown>>
               PROVE  Dashboard!Next \/ UNCHANGED <<Qps, shown>>
    BY DEF Dashboard!vars
  <2>1. CASE Shows /\ Consume
    <3>1. Head(UIMsgs) \in Nat
      BY <2>1 DEF ShownInv, TypeOK, Consume
    <3>2. Dashboard!Add(HostName, Head(UIMsgs))
      BY <2>1 DEF Shows, Consume, Dashboard!Add, Dashboard!AppendItem, AppendItem,
                  MakeNode, Dashboard!MakeNode, Room, Dashboard!Room
    <3> QED  BY <3>1, <3>2 DEF Dashboard!Next, Dashboard!Hosts
  <2>2. CASE Next /\ Shows /\ ~Consume
    <3>1. shown' = shown
      BY <2>2 DEF Shows
    <3>2. Qps' = Qps
      BY <2>2 DEF Next, Begin, Load, Store, Send, Update, Count
    <3> QED  BY <3>1, <3>2
  <2> QED  BY <2>1, <2>2 DEF vars
<1> QED  BY <1>1, <1>2, ShownType, PTL DEF ShownSpec, Dashboard!Spec

\* So the points the dashboard shows are the latest it was given, at most
\* CIRCBUFMAPLEN of them and none left out in between.
THEOREM HistoryIsLatest == ShownSpec => []Dashboard!IsLatest(Qps[HostName], shown[HostName])
<1> DEFINE Latest == Dashboard!IsLatest(Qps[HostName], shown[HostName])
<1>1. Init /\ shown = [h \in {HostName} |-> <<>>] => Latest
  BY EmptyIsLatest DEF Init, MakeNode, NewCircBufMap, Lists!IsLatest, Dashboard!IsLatest
<1>2. ShownInv /\ ShownInv' /\ Latest /\ [Next /\ Shows]_<<vars, shown>> => Latest'
  <2> SUFFICES ASSUME ShownInv, ShownInv', Latest, [Next /\ Shows]_<<vars, shown>>
               PROVE  Dashboard!IsLatest(Qps'[HostName], shown'[HostName])
    OBVIOUS
  <2>1. CASE Shows /\ Consume
    <3>1. Head(UIMsgs) \in Nat /\ Qps[HostName] \in Seq(Nat) /\ shown[HostName] \in Seq(Nat)
      BY <2>1 DEF ShownInv, TypeOK, Consume
    <3>2. shown'[HostName] = Append(shown[HostName], Head(UIMsgs))
      BY <2>1 DEF Shows, ShownInv
    <3>3. Qps'[HostName] = Append(Room(Qps[HostName]), Head(UIMsgs))
      BY <2>1 DEF Consume, AppendItem, ShownInv, TypeOK
    <3> DEFINE point == Head(UIMsgs)
               list == Qps[HostName]
               all == shown[HostName]
    <3>4. Lists!IsLatest(list, all)
      BY DEF Lists!IsLatest, Dashboard!IsLatest
    <3>5. Lists!IsLatest(Append(Lists!Room(list), point), Append(all, point))
      <4>1. point \in Nat /\ list \in Seq(Nat) /\ all \in Seq(Nat)
        BY <3>1
      <4> HIDE DEF point, list, all
      <4> QED  BY <4>1, <3>4, RoomKeepsLatest
    <3> QED  BY <3>2, <3>3, <3>5 DEF Room, Lists!Room, Lists!IsLatest, Dashboard!IsLatest
  <2>2. CASE Next /\ Shows /\ ~Consume
    <3>1. shown' = shown
      BY <2>2 DEF Shows
    <3>2. Qps' = Qps
      BY <2>2 DEF Next, Begin, Load, Store, Send, Update, Count
    <3> QED  BY <3>1, <3>2
  <2>3. CASE UNCHANGED <<vars, shown>>
    BY <2>3 DEF vars
  <2> QED  BY <2>1, <2>2, <2>3
<1> QED  BY <1>1, <1>2, ShownType, PTL DEF ShownSpec

=============================================================================
