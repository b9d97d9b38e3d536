------------------------------- MODULE NodeProofs -------------------------------
(***************************************************************************)
(* Theorems about Node for any hosts, VPCs and numbers of retries.         *)
(***************************************************************************)
EXTENDS Node, SequenceTheorems, TLAPS

\* No host is up in the beginning.
LEMMA TypeInit == Init => TypeOK
<1> SUFFICES ASSUME Init PROVE TypeOK
  OBVIOUS
<1> USE NodeAssumption DEF Init
<1>1. tries \in [Hosts -> 1 .. Retries] /\ boots \in 0 .. MaxBoots
  OBVIOUS
<1>2. /\ pc \in [Hosts -> Starting \cup {"off", "serve", "closing", "lingering"}]
      /\ old \in [Hosts -> SUBSET {"leaving", "dying", "exiting"}]
  OBVIOUS
<1>3. todo \in [Hosts -> SUBSET Hosts] /\ met \in [Hosts -> BOOLEAN]
  OBVIOUS
<1>4. cluster \in [Hosts -> SUBSET Hosts] /\ missed \subseteq SUBSET Hosts /\ answer = None
  OBVIOUS
<1>. QED
  BY <1>1, <1>2, <1>3, <1>4 DEF TypeOK

Places == Starting \cup {"off", "serve", "closing", "lingering"}

\* A host that goes somewhere keeps to the places there are.
LEMMA GotoType ==
  ASSUME TypeOK, NEW h \in Hosts, NEW l \in Places, Goto(h, l)
  PROVE  /\ pc' \in [Hosts -> Places] /\ pc'[h] = l
         /\ \A g \in Hosts \ {h} : pc'[g] = pc[g]
  BY DEF Goto, TypeOK, Places

\* What is left of the clusters without a host is of the same type.
LEMMA WithoutType ==
  ASSUME TypeOK, NEW h \in Hosts
  PROVE  Without(h) \in [Hosts -> SUBSET Hosts]
  BY DEF Without, TypeOK

\* A panic keeps the types, and nothing changes but the place and the clusters.
LEMMA PanicType ==
  ASSUME TypeOK, NEW h \in Hosts, Panic(h)
  PROVE  /\ pc' \in [Hosts -> Places] /\ pc'[h] = "off"
         /\ \A g \in Hosts \ {h} : pc'[g] = pc[g]
         /\ cluster' \in [Hosts -> SUBSET Hosts]
<1>1. /\ pc' \in [Hosts -> Places] /\ pc'[h] = "off"
      /\ \A g \in Hosts \ {h} : pc'[g] = pc[g]
  BY GotoType DEF Panic, Places
<1>2. cluster' \in [Hosts -> SUBSET Hosts]
  BY WithoutType DEF Panic, TypeOK
<1>. QED
  BY <1>1, <1>2

\* So does the meeting of two hosts.
LEMMA MeetType ==
  ASSUME TypeOK, NEW h \in Hosts, NEW g \in Hosts, NEW l \in Places, Meet(h, g, l)
  PROVE  pc' \in [Hosts -> Places] /\ cluster' \in [Hosts -> SUBSET Hosts]
<1>1. pc' \in [Hosts -> Places]
  BY DEF Meet, TypeOK, Places
<1>2. cluster[g] \subseteq Hosts /\ cluster[h] \subseteq Hosts
  BY DEF TypeOK
<1>3. cluster' \in [Hosts -> SUBSET Hosts]
  BY <1>2 DEF Meet, TypeOK
<1>. QED
  BY <1>1, <1>3

\* Every step of a host's start keeps the types.
LEMMA TypeStart ==
  ASSUME TypeOK, NEW h \in Hosts, Step(h), answer' = None
  PROVE  TypeOK'
<1> USE NodeAssumption, GotoType, PanicType DEF start, Places, Starting
<1>1. CASE Dial(h) \/ GetMetadata(h) \/ SetMembers(h)
  <2>1. pc' \in [Hosts -> Places]
    BY <1>1 DEF Dial, GetMetadata, SetMembers
  <2>. QED
    BY <1>1, <2>1 DEF Dial, GetMetadata, SetMembers, TypeOK
<1>2. CASE Create(h)
  <2>1. pc' \in [Hosts -> Places]
    BY <1>2 DEF Create, Retry, TypeOK
  <2>2. tries' \in [Hosts -> 1 .. Retries]
    <3>1. Retries \in 1 .. Retries /\ (tries[h] # 1 => tries[h] - 1 \in 1 .. Retries)
      BY DEF TypeOK
    <3>. QED
      BY <1>2, <3>1 DEF Create, Retry, TypeOK
  <2>3. cluster' \in [Hosts -> SUBSET Hosts]
    BY <1>2 DEF Create, TypeOK
  <2>. QED
    BY <1>2, <2>1, <2>2, <2>3 DEF Create, TypeOK
<1>3. CASE Find(h)
  <2>1. pc' \in [Hosts -> Places] /\ cluster' \in [Hosts -> SUBSET Hosts]
    BY <1>3 DEF Find, TypeOK
  <2>2. todo' \in [Hosts -> SUBSET Hosts]
    BY <1>3 DEF Find, Others, TypeOK
  <2>. QED
    BY <1>3, <2>1, <2>2 DEF Find, TypeOK
<1>4. ASSUME NEW g \in Hosts, Contact(h, g)
      PROVE  TypeOK'
  <2>1. pc' \in [Hosts -> Places] /\ cluster' \in [Hosts -> SUBSET Hosts]
    BY <1>4, MeetType DEF Contact, Reach, TypeOK
  <2>2. todo' \in [Hosts -> SUBSET Hosts] /\ met' \in [Hosts -> BOOLEAN]
    <3>1. todo' = [todo EXCEPT ![h] = todo[h] \ {g}] /\ todo[h] \ {g} \subseteq Hosts
      BY <1>4 DEF Contact, Reach, Rest, TypeOK
    <3>2. met' = met \/ met' = [met EXCEPT ![h] = TRUE]
      BY <1>4 DEF Contact, Reach
    <3>. QED
      BY <3>1, <3>2 DEF TypeOK
  <2>3. missed' \subseteq SUBSET Hosts
    <3>1. {g, h} \in SUBSET Hosts
      OBVIOUS
    <3>2. missed' = missed \/ missed' = missed \cup {{g, h}}
      BY <1>4 DEF Contact, Reach
    <3>. QED
      BY <3>1, <3>2 DEF TypeOK
  <2>. QED
    BY <1>4, <2>1, <2>2, <2>3 DEF Contact, Reach, TypeOK
<1>5. CASE JoinEnds(h)
  <2>1. pc' \in [Hosts -> Places] /\ cluster' \in [Hosts -> SUBSET Hosts]
    BY <1>5 DEF JoinEnds, TypeOK
  <2>2. met' \in [Hosts -> BOOLEAN]
    BY <1>5 DEF JoinEnds, TypeOK
  <2>. QED
    BY <1>5, <2>1, <2>2 DEF JoinEnds, TypeOK
<1>6. CASE JoinSeed(h)
  <2>1. pc' \in [Hosts -> Places] /\ cluster' \in [Hosts -> SUBSET Hosts]
    BY <1>6, MeetType DEF JoinSeed, Reach, TypeOK
  <2>. QED
    BY <1>6, <2>1 DEF JoinSeed, Reach, TypeOK
<1>7. CASE Listen(h) \/ MonitorPanics(h)
  <2>1. pc' \in [Hosts -> Places] /\ cluster' \in [Hosts -> SUBSET Hosts]
    BY <1>7 DEF Listen, MonitorPanics, TypeOK
  <2>. QED
    BY <1>7, <2>1 DEF Listen, MonitorPanics, TypeOK
<1>8. CASE CloseWeb(h)
  <2>1. pc' \in [Hosts -> Places] /\ old' \in [Hosts -> SUBSET {"leaving", "dying", "exiting"}]
    BY <1>8 DEF CloseWeb, TypeOK
  <2>. QED
    BY <1>8, <2>1 DEF CloseWeb, TypeOK
<1>. QED
  BY <1>1, <1>2, <1>3, <1>4, <1>5, <1>6, <1>7, <1>8 DEF Step

\* The other steps of a host, too.
LEMMA TypeLife ==
  ASSUME TypeOK, NEW h \in Hosts, Boot(h) \/ OldStep(h) \/ Exit(h) \/ Die(h), answer' = None
  PROVE  TypeOK'
<1> USE NodeAssumption, GotoType, PanicType, WithoutType DEF start, Places, Starting
<1>1. CASE Boot(h)
  <2>1. pc' \in [Hosts -> Places] /\ missed' \subseteq SUBSET Hosts /\ boots' \in 0 .. MaxBoots
    BY <1>1 DEF Boot, TypeOK
  <2>. QED
    BY <1>1, <2>1 DEF Boot, TypeOK
<1>2. CASE Left(h) \/ Ended(h)
  <2>1. PICK doings \in SUBSET {"leaving", "dying", "exiting"} : old' = [old EXCEPT ![h] = doings]
    <3>1. old[h] \subseteq {"leaving", "dying", "exiting"}
      BY DEF TypeOK
    <3>. QED
      BY <1>2, <3>1 DEF Left, Ended
  <2>2. /\ old' \in [Hosts -> SUBSET {"leaving", "dying", "exiting"}]
        /\ cluster' \in [Hosts -> SUBSET Hosts]
    BY <1>2, <2>1 DEF Left, Ended, TypeOK
  <2>. QED
    BY <1>2, <2>2 DEF Left, Ended, TypeOK
<1>3. CASE Exit(h)
  <2>1. pc' \in [Hosts -> Places] /\ cluster' \in [Hosts -> SUBSET Hosts]
    BY <1>3 DEF Exit, TypeOK
  <2>. QED
    BY <1>3, <2>1 DEF Exit, TypeOK
<1>4. CASE Die(h)
  <2>1. pc' \in [Hosts -> Places] /\ old' \in [Hosts -> SUBSET {"leaving", "dying", "exiting"}]
    BY <1>4 DEF Die, TypeOK
  <2>. QED
    BY <1>4, <2>1 DEF Die, TypeOK
<1>. QED
  BY <1>1, <1>2, <1>3, <1>4 DEF OldStep

\* Every variable keeps to its type: Create is tried at most Retries times, and
\* only hosts are ever joined.
THEOREM TypeCorrect == Spec => []TypeOK
<1>1. TypeOK /\ [Next]_vars => TypeOK'
  <2> SUFFICES ASSUME TypeOK, [Next]_vars
               PROVE  TypeOK'
    OBVIOUS
  <2>1. CASE UNCHANGED vars
    BY <2>1 DEF vars, start, TypeOK
  <2>2. ASSUME NEW h \in Hosts, Live(h), answer' = None
        PROVE  TypeOK'
    BY <2>2, TypeStart, TypeLife DEF Live
  <2>3. ASSUME NEW h \in Hosts, NEW request \in Requests, Get(h, request)
        PROVE  TypeOK'
    BY <2>3 DEF Get, start, TypeOK
  <2>. QED
    BY <2>1, <2>2, <2>3 DEF Next
<1>. QED
  BY <1>1, TypeInit, PTL DEF Spec
-----------------------------------------------------------------------------
(***************************************************************************)
(* Two that serve are together.  Each of the two looks for the others      *)
(* after it has begun to listen; so whichever contacts the other last      *)
(* finds it listening.  What has to be kept is that of two hosts that      *)
(* listen one has still to contact the other, or they are together.        *)
(***************************************************************************)

\* Host g has not contacted h yet, but will.
Before(g, h) == pc[g] \in {"created", "find"} \/ (pc[g] = "join" /\ h \in todo[g])

\* Two hosts that should find each other.
Due(g, h) ==
  /\ g # h /\ g \in Public /\ h \in Public /\ Vpc[g] = Vpc[h]
  /\ {g, h} \notin missed
  /\ Listening(g) /\ Listening(h)

\* The clusters are disjoint; a host that listens is in one, and one that is in a
\* cluster has the port.
ClusterInv ==
  /\ \A g, h \in Hosts : h \in cluster[g] => cluster[h] = cluster[g]
  /\ \A h \in Hosts : cluster[h] # {} => h \in cluster[h] /\ Bound(h)
  /\ \A h \in Hosts : Listening(h) => cluster[h] # {} /\ old[h] \cap {"leaving", "dying"} = {}

PairInv == \A g, h \in Hosts : Due(g, h) => h \in cluster[g] \/ Before(g, h) \/ Before(h, g)

IInv == TypeOK /\ ClusterInv /\ PairInv

\* Nothing changes for the other hosts.
OthersStay(h) == \A g \in Hosts \ {h} : UNCHANGED <<pc[g], old[g], todo[g]>>

\* Only the place of host h changes, what it does in the background, or whom it
\* has still to contact: those it contacts no more are not due.
LEMMA Moves ==
  ASSUME TypeOK, ClusterInv, PairInv, NEW h \in Hosts, OthersStay(h),
         UNCHANGED cluster, missed \subseteq missed',
         Listening(h)' => Listening(h) /\ old'[h] \cap {"leaving", "dying"} = {},
         Bound(h) => Bound(h)',
         \A g \in Hosts : Due(h, g)' /\ Before(h, g) => Before(h, g)'
  PROVE  ClusterInv' /\ PairInv'
<1>1. \A g \in Hosts : (Listening(g)' => Listening(g)) /\ (Bound(g) => Bound(g)')
  BY DEF OthersStay, Listening, Bound
<1>2. \A g \in Hosts : Listening(g)' => old'[g] \cap {"leaving", "dying"} = {}
  BY <1>1 DEF OthersStay, ClusterInv
<1>3. ClusterInv'
  BY <1>1, <1>2 DEF ClusterInv
<1>4. \A g, k \in Hosts : Due(g, k)' => Due(g, k)
  BY <1>1 DEF Due
<1>5. \A g, k \in Hosts : Due(g, k)' /\ Before(g, k) => Before(g, k)'
  BY DEF OthersStay, Before
<1>6. \A g, k \in Hosts : Due(g, k)' => Due(k, g)'
  BY DEF Due
<1>7. PairInv'
  BY <1>4, <1>5, <1>6 DEF PairInv
<1>. QED
  BY <1>3, <1>7

\* The others take notice that h does not listen any more.
LEMMA Leaves ==
  ASSUME TypeOK, ClusterInv, PairInv, NEW h \in Hosts, OthersStay(h),
         cluster' = Without(h), UNCHANGED missed, ~Listening(h)'
  PROVE  ClusterInv' /\ PairInv'
<1>1. cluster'[h] = {} /\ \A g \in Hosts \ {h} : cluster'[g] = cluster[g] \ {h}
  BY DEF Without
<1>2. \A g \in Hosts \ {h} : /\ Listening(g)' <=> Listening(g)
                             /\ Bound(g)' <=> Bound(g)
                             /\ old'[g] = old[g]
  BY DEF OthersStay, Listening, Bound
<1>3. \A g \in Hosts \ {h} : cluster[g] # {} => g \in cluster'[g]
  BY <1>1 DEF ClusterInv
<1>4. ClusterInv'
  <2>1. \A g, k \in Hosts : k \in cluster'[g] => cluster'[k] = cluster'[g]
    BY <1>1 DEF ClusterInv
  <2>2. \A g \in Hosts : cluster'[g] # {} => g \in cluster'[g] /\ Bound(g)'
    BY <1>1, <1>2, <1>3 DEF ClusterInv
  <2>3. \A g \in Hosts : Listening(g)' => cluster'[g] # {} /\ old'[g] \cap {"leaving", "dying"} = {}
    BY <1>2, <1>3 DEF ClusterInv
  <2>. QED
    BY <2>1, <2>2, <2>3 DEF ClusterInv
<1>5. PairInv'
  <2> SUFFICES ASSUME NEW g \in Hosts, NEW k \in Hosts, Due(g, k)'
               PROVE  k \in cluster'[g] \/ Before(g, k)' \/ Before(k, g)'
    BY DEF PairInv
  <2>1. g # h /\ k # h /\ Due(g, k)
    BY <1>2 DEF Due
  <2>2. Before(g, k)' = Before(g, k) /\ Before(k, g)' = Before(k, g)
    BY <2>1 DEF OthersStay, Before
  <2>. QED
    BY <1>1, <2>1, <2>2 DEF PairInv
<1>. QED
  BY <1>4, <1>5

\* Host h reaches g and the two clusters become one, or the process that is
\* called ends.
LEMMA Meets ==
  ASSUME TypeOK, ClusterInv, PairInv, NEW h \in Hosts, NEW g \in Hosts, g # h,
         NEW l \in {"join", "ui"}, Listening(h), Bound(g), Meet(h, g, l),
         UNCHANGED <<old, missed>>, \A x \in Hosts \ {h} : todo'[x] = todo[x],
         \A k \in Hosts \ {g} : Due(h, k)' /\ Before(h, k) => Before(h, k)'
  PROVE  ClusterInv' /\ PairInv'
<1> DEFINE victims == {x \in {g} : pc[x] = "created"}
           both == (cluster[g] \cup cluster[h]) \ victims
<1>1. /\ \A x \in victims : cluster'[x] = {} /\ pc'[x] = "off"
      /\ \A x \in both : cluster'[x] = both
      /\ \A x \in Hosts \ (both \cup victims) : cluster'[x] = cluster[x]
      /\ pc'[h] = l
      /\ \A x \in Hosts \ (victims \cup {h}) : pc'[x] = pc[x]
  BY DEF Meet, TypeOK
<1>2. /\ h \in both /\ victims \subseteq {g} /\ both \subseteq Hosts
      /\ \A x \in both : cluster[x] = cluster[g] \/ cluster[x] = cluster[h]
  BY DEF ClusterInv, TypeOK
<1>3. \A x \in Hosts : x \notin both => \A y \in cluster[x] : x \notin victims => y \notin both \cup victims
  <2> SUFFICES ASSUME NEW x \in Hosts, x \notin both \cup victims, NEW y \in cluster[x], y \in both \cup victims
               PROVE  FALSE
    OBVIOUS
  <2>1. y \in Hosts /\ cluster[y] = cluster[x] /\ x \in cluster[x]
    BY DEF ClusterInv, TypeOK
  <2>2. cluster[y] = cluster[g] \/ cluster[y] = cluster[h]
    BY <1>2
  <2>. QED
    BY <2>1, <2>2
<1>4. \A x \in Hosts : Listening(x)' => Listening(x) /\ x \notin victims
  BY <1>1 DEF Listening
<1>5. \A x \in both : Bound(x)'
  <2> SUFFICES ASSUME NEW x \in both
               PROVE  Bound(x)'
    OBVIOUS
  <2>1. x \in Hosts /\ x \in cluster[x] /\ Bound(x)
    BY <1>2 DEF ClusterInv
  <2>. QED
    BY <1>1, <2>1 DEF Bound, Listening
<1>6. \A x \in Hosts \ (both \cup victims) : Bound(x) => Bound(x)'
  BY <1>1, <1>2 DEF Bound, Listening
<1>7. ClusterInv'
  <2>1. ASSUME NEW x \in Hosts, NEW y \in Hosts, y \in cluster'[x]
        PROVE  cluster'[y] = cluster'[x]
    <3>1. CASE x \in both
      BY <1>1, <2>1, <3>1
    <3>2. CASE x \notin both
      <4>1. x \notin victims /\ cluster'[x] = cluster[x]
        BY <1>1, <2>1, <3>2
      <4>2. y \notin both \cup victims
        BY <1>3, <2>1, <3>2, <4>1
      <4>. QED
        BY <1>1, <2>1, <4>1, <4>2 DEF ClusterInv
    <3>. QED
      BY <3>1, <3>2
  <2>2. \A x \in Hosts : cluster'[x] # {} => x \in cluster'[x] /\ Bound(x)'
    BY <1>1, <1>5, <1>6 DEF ClusterInv
  <2>3. \A x \in Hosts : Listening(x)' => cluster'[x] # {} /\ old'[x] \cap {"leaving", "dying"} = {}
    BY <1>1, <1>4 DEF ClusterInv
  <2>. QED
    BY <2>1, <2>2, <2>3 DEF ClusterInv
<1>8. PairInv'
  <2> SUFFICES ASSUME NEW x \in Hosts, NEW y \in Hosts, Due(x, y)'
               PROVE  y \in cluster'[x] \/ Before(x, y)' \/ Before(y, x)'
    BY DEF PairInv
  <2>1. Due(x, y) /\ x \notin victims /\ y \notin victims /\ x # y
    BY <1>4 DEF Due
  <2>2. ASSUME y \in cluster[x] PROVE y \in cluster'[x]
    BY <1>1, <1>2, <2>1, <2>2 DEF ClusterInv
  <2>3. CASE {x, y} = {g, h}
    <3>1. g \notin victims /\ Listening(g)
      BY <2>1, <2>3 DEF Due
    <3>2. g \in both
      BY <3>1 DEF ClusterInv
    <3>. QED
      BY <1>1, <1>2, <2>1, <2>3, <3>2
  <2>4. CASE {x, y} # {g, h}
    <3>1. x # h => (Before(x, y) => Before(x, y)')
      BY <1>1, <2>1 DEF Before
    <3>2. y # h => (Before(y, x) => Before(y, x)')
      BY <1>1, <2>1 DEF Before
    <3>3. Due(y, x)'
      BY DEF Due
    <3>4. x = h => (Before(x, y) => Before(x, y)')
      BY <2>4
    <3>5. y = h => (Before(y, x) => Before(y, x)')
      BY <2>4, <3>3
    <3>. QED
      BY <2>1, <2>2, <3>1, <3>2, <3>4, <3>5 DEF PairInv
  <2>. QED
    BY <2>3, <2>4
<1>. QED
  BY <1>7, <1>8

\* A panic, before or after the host began to listen.
LEMMA Panics ==
  ASSUME TypeOK, ClusterInv, PairInv, NEW h \in Hosts, Panic(h),
         UNCHANGED <<old, missed>>, \A g \in Hosts \ {h} : todo'[g] = todo[g]
  PROVE  ClusterInv' /\ PairInv'
<1>1. pc'[h] = "off" /\ ~Listening(h)' /\ OthersStay(h)
  BY PanicType DEF Listening, OthersStay
<1>2. CASE Listening(h)
  BY <1>1, <1>2, Leaves DEF Panic
<1>3. CASE ~Listening(h)
  <2>1. UNCHANGED cluster /\ (Bound(h) => Bound(h)')
    BY <1>3 DEF Panic, Bound
  <2>2. \A g \in Hosts : ~Due(h, g)'
    BY <1>1 DEF Due
  <2>. QED
    BY <1>1, <2>1, <2>2, Moves
<1>. QED
  BY <1>2, <1>3

\* A host that goes on, in the same circumstances: what it owes others it still
\* owes them.
LEMMA GoesOn ==
  ASSUME TypeOK, ClusterInv, PairInv, NEW h \in Hosts, NEW l \in Places, Goto(h, l),
         UNCHANGED <<cluster, old, todo, missed>>,
         Listening(h) <=> Listening(h)',
         Listening(h) /\ pc[h] \in {"created", "find", "join"} =>
           (pc[h] = "created" /\ l = "find") \/ (pc[h] = "join" /\ todo[h] = {})
  PROVE  ClusterInv' /\ PairInv'
<1>1. OthersStay(h) /\ pc'[h] = l
  BY GotoType DEF OthersStay
<1>2. Bound(h) <=> Bound(h)'
  BY DEF Bound
<1>3. Listening(h)' => old'[h] \cap {"leaving", "dying"} = {}
  BY DEF ClusterInv
<1>4. \A g \in Hosts : Due(h, g)' /\ Before(h, g) => Before(h, g)'
  BY <1>1 DEF Due, Before
<1>. QED
  BY <1>1, <1>2, <1>3, <1>4, Moves

\* The clusters through the steps of a start up to the listener.
LEMMA Creating ==
  ASSUME TypeOK, ClusterInv, PairInv, NEW h \in Hosts, Create(h)
  PROVE  ClusterInv' /\ PairInv'
<1>1. pc[h] = "create" /\ ~Listening(h) /\ UNCHANGED <<old, todo, missed>>
  BY DEF Create, Listening
<1>2. CASE Bound(h) /\ Retry(h) /\ UNCHANGED cluster
  <2>1. pc'[h] \in {"create", "off"} /\ OthersStay(h)
    BY <1>1, <1>2 DEF Retry, Goto, OthersStay, TypeOK
  <2>2. ~Listening(h)' /\ (Bound(h) => Bound(h)')
    BY <1>1, <2>1 DEF Listening, Bound
  <2>3. \A g \in Hosts : ~Due(h, g)'
    BY <2>2 DEF Due
  <2>. QED
    BY <1>1, <1>2, <2>1, <2>2, <2>3, Moves
<1>3. CASE Panic(h)
  BY <1>1, <1>3, Panics
<1>4. CASE ~Bound(h) /\ Goto(h, "created") /\ cluster' = [cluster EXCEPT ![h] = {h}]
  <2>1. "created" \in Places
    BY DEF Places, Starting
  <2>2. pc'[h] = "created" /\ OthersStay(h)
    BY <1>1, <1>4, <2>1, GotoType DEF OthersStay
  <2>3. cluster[h] = {} /\ \A g \in Hosts : h \notin cluster[g]
    BY <1>4 DEF ClusterInv
  <2>4. cluster'[h] = {h} /\ \A g \in Hosts \ {h} : cluster'[g] = cluster[g]
    BY <1>4 DEF TypeOK
  <2>5. Listening(h)' /\ Bound(h)' /\ old'[h] \cap {"leaving", "dying"} = {}
    BY <1>1, <1>4, <2>2 DEF Listening, Bound
  <2>6. \A g \in Hosts \ {h} : (Listening(g)' <=> Listening(g)) /\ (Bound(g)' <=> Bound(g))
    BY <2>2 DEF OthersStay, Listening, Bound
  <2>7. ClusterInv'
    <3>1. \A g, k \in Hosts : k \in cluster'[g] => cluster'[k] = cluster'[g]
      BY <2>3, <2>4 DEF ClusterInv
    <3>2. \A g \in Hosts : cluster'[g] # {} => g \in cluster'[g] /\ Bound(g)'
      BY <2>4, <2>5, <2>6 DEF ClusterInv
    <3>3. \A g \in Hosts : Listening(g)' => cluster'[g] # {} /\ old'[g] \cap {"leaving", "dying"} = {}
      BY <1>1, <2>4, <2>5, <2>6 DEF ClusterInv
    <3>. QED
      BY <3>1, <3>2, <3>3 DEF ClusterInv
  <2>8. PairInv'
    <3> SUFFICES ASSUME NEW g \in Hosts, NEW k \in Hosts, Due(g, k)'
                 PROVE  k \in cluster'[g] \/ Before(g, k)' \/ Before(k, g)'
      BY DEF PairInv
    <3>1. CASE g = h \/ k = h
      BY <2>2, <3>1 DEF Before
    <3>2. CASE g # h /\ k # h
      <4>1. Due(g, k)
        BY <1>1, <2>6, <3>2 DEF Due
      <4>2. (Before(g, k) => Before(g, k)') /\ (Before(k, g) => Before(k, g)')
        BY <2>2, <3>2 DEF Before, OthersStay
      <4>. QED
        BY <2>4, <3>2, <4>1, <4>2 DEF PairInv
    <3>. QED
      BY <3>1, <3>2
  <2>. QED
    BY <2>7, <2>8
<1>. QED
  BY <1>2, <1>3, <1>4 DEF Create

\* FindEC2Hitters finds every host that is due.
LEMMA Finding ==
  ASSUME TypeOK, ClusterInv, PairInv, NEW h \in Hosts, Find(h)
  PROVE  ClusterInv' /\ PairInv'
<1> USE DEF Places, Starting
<1>1. pc[h] = "find" /\ UNCHANGED <<old, missed>>
  BY DEF Find
<1>2. CASE Panic(h) /\ UNCHANGED todo
  BY <1>1, <1>2, Panics
<1>3. CASE /\ Goto(h, IF Others(h) = {} THEN "seed" ELSE "join")
           /\ todo' = [todo EXCEPT ![h] = Others(h)]
           /\ UNCHANGED cluster
  <2>1. /\ pc'[h] = IF Others(h) = {} THEN "seed" ELSE "join"
        /\ todo'[h] = Others(h) /\ OthersStay(h)
    BY <1>1, <1>3, GotoType DEF OthersStay, TypeOK
  <2>2. Listening(h) /\ Listening(h)' /\ (Bound(h) => Bound(h)')
    BY <1>1, <2>1 DEF Listening, Bound
  <2>3. ASSUME NEW g \in Hosts, Due(h, g)'
        PROVE  Before(h, g)'
    <3>1. g \in Others(h)
      BY <2>3 DEF Due, Others
    <3>. QED
      BY <2>1, <3>1 DEF Before
  <2>4. old'[h] \cap {"leaving", "dying"} = {}
    BY <1>1, <2>2 DEF ClusterInv
  <2>. QED
    BY <1>1, <1>3, <2>1, <2>2, <2>3, <2>4, Moves
<1>. QED
  BY <1>2, <1>3 DEF Find

\* Join: the host that is contacted and listens is together with h, one that does
\* not listen is not due, and one that was missed is excepted.
LEMMA Contacting ==
  ASSUME TypeOK, ClusterInv, PairInv, NEW h \in Hosts, NEW g \in Hosts, Contact(h, g)
  PROVE  ClusterInv' /\ PairInv'
<1> USE DEF Places, Starting
<1>1. /\ pc[h] = "join" /\ Listening(h) /\ UNCHANGED old
      /\ todo'[h] = todo[h] \ {g} /\ \A x \in Hosts \ {h} : todo'[x] = todo[x]
  BY DEF Contact, Reach, Rest, TypeOK, Listening
<1>2. CASE Bound(g) /\ Meet(h, g, "join") /\ UNCHANGED missed
  <2>1. CASE g # h
    <3>1. pc'[h] = "join"
      BY <1>2, <2>1 DEF Meet, TypeOK
    <3>2. \A k \in Hosts \ {g} : Before(h, k) => Before(h, k)'
      BY <1>1, <3>1 DEF Before
    <3>. QED
      BY <1>1, <1>2, <2>1, <3>2, Meets
  <2>2. CASE g = h
    <3>1. UNCHANGED <<pc, cluster>>
      BY <1>1, <1>2, <2>2 DEF Meet, ClusterInv, TypeOK
    <3>2. OthersStay(h) /\ (Listening(h) <=> Listening(h)') /\ (Bound(h) => Bound(h)')
      BY <1>1, <3>1 DEF OthersStay, Listening, Bound
    <3>3. \A k \in Hosts : Due(h, k)' /\ Before(h, k) => Before(h, k)'
      BY <1>1, <2>2, <3>1 DEF Due, Before
    <3>4. old'[h] \cap {"leaving", "dying"} = {}
      BY <1>1 DEF ClusterInv
    <3>. QED
      BY <1>2, <3>1, <3>2, <3>3, <3>4, Moves
  <2>. QED
    BY <2>1, <2>2
<1>3. CASE /\ UNCHANGED <<pc, cluster>>
           /\ \/ ~Bound(g) /\ UNCHANGED missed
              \/ missed' = missed \cup {{g, h}}
  <2>1. OthersStay(h) /\ (Listening(h) <=> Listening(h)') /\ (Bound(h) => Bound(h)')
    BY <1>1, <1>3 DEF OthersStay, Listening, Bound
  <2>2. \A k \in Hosts : Due(h, k)' /\ Before(h, k) => Before(h, k)'
    <3> SUFFICES ASSUME NEW k \in Hosts, Due(h, k)', Before(h, k)
                 PROVE  Before(h, k)'
      OBVIOUS
    <3>1. k # g
      BY <1>3 DEF Due, Bound, Listening
    <3>. QED
      BY <1>1, <1>3, <3>1 DEF Before
  <2>3. old'[h] \cap {"leaving", "dying"} = {}
    BY <1>1 DEF ClusterInv
  <2>4. missed \subseteq missed'
    BY <1>3
  <2>. QED
    BY <1>3, <2>1, <2>2, <2>3, <2>4, Moves
<1>. QED
  BY <1>2, <1>3 DEF Contact, Reach

\* Every step of a start.
LEMMA Starts ==
  ASSUME TypeOK, ClusterInv, PairInv, NEW h \in Hosts, Step(h)
  PROVE  ClusterInv' /\ PairInv'
<1> USE DEF start, Places, Starting
<1>1. CASE Dial(h) \/ GetMetadata(h)
  <2>1. PICK l \in {"meta", "create", "off"} : Goto(h, l)
    BY <1>1 DEF Dial, GetMetadata
  <2>2. UNCHANGED <<cluster, old, todo, missed>> /\ pc[h] \in {"dial", "meta"}
    BY <1>1 DEF Dial, GetMetadata
  <2>3. ~Listening(h) /\ ~Listening(h)'
    BY <2>1, <2>2, GotoType DEF Listening
  <2>. QED
    BY <2>1, <2>2, <2>3, GoesOn
<1>2. CASE SetMembers(h)
  <2>1. Goto(h, "find") /\ pc[h] = "created" /\ UNCHANGED <<cluster, old, todo, missed>>
    BY <1>2 DEF SetMembers
  <2>2. Listening(h) /\ Listening(h)'
    BY <2>1, GotoType DEF Listening
  <2>. QED
    BY <2>1, <2>2, GoesOn
<1>3. CASE JoinEnds(h)
  <2>1. CASE met[h]
    <3>1. /\ Goto(h, "seed") /\ pc[h] = "join" /\ todo[h] = {}
          /\ UNCHANGED <<cluster, old, todo, missed>>
      BY <1>3, <2>1 DEF JoinEnds
    <3>2. Listening(h) /\ Listening(h)'
      BY <3>1, GotoType DEF Listening
    <3>. QED
      BY <3>1, <3>2, GoesOn
  <2>2. CASE ~met[h]
    BY <1>3, <2>2, Panics DEF JoinEnds
  <2>. QED
    BY <2>1, <2>2
<1>4. CASE JoinSeed(h)
  <2>1. pc[h] = "seed" /\ Listening(h) /\ UNCHANGED <<old, todo, missed>>
    BY <1>4 DEF JoinSeed, Reach, Listening
  <2>2. CASE Goto(h, "ui") /\ UNCHANGED cluster
    <3>1. Listening(h)'
      BY <2>2, GotoType DEF Listening
    <3>. QED
      BY <2>1, <2>2, <3>1, GoesOn
  <2>3. CASE \E g \in Seeds \ {h} : Bound(g) /\ Meet(h, g, "ui")
    <3>1. PICK g \in Hosts \ {h} : Bound(g) /\ Meet(h, g, "ui")
      BY <2>3, NodeAssumption
    <3>2. \A k \in Hosts : ~Before(h, k)
      BY <2>1 DEF Before
    <3>. QED
      BY <2>1, <3>1, <3>2, Meets
  <2>. QED
    BY <1>4, <2>2, <2>3 DEF JoinSeed, Reach
<1>5. CASE Listen(h)
  <2>1. pc[h] = "ui" /\ UNCHANGED <<old, todo, missed>> /\ Listening(h)
    BY <1>5 DEF Listen, Listening
  <2>2. CASE Goto(h, "serve") /\ UNCHANGED cluster
    <3>1. Listening(h)'
      BY <2>2, GotoType DEF Listening
    <3>. QED
      BY <2>1, <2>2, <3>1, GoesOn
  <2>. QED
    BY <1>5, <2>1, <2>2, Panics DEF Listen
<1>6. CASE CloseWeb(h)
  <2>1. /\ pc'[h] = "off" /\ OthersStay(h) /\ UNCHANGED <<cluster, missed>>
        /\ old'[h] = old[h] \cup {"leaving"}
    BY <1>6, GotoType DEF CloseWeb, OthersStay, TypeOK
  <2>2. ~Listening(h)' /\ Bound(h)' /\ \A g \in Hosts : ~Due(h, g)'
    BY <2>1 DEF Listening, Bound, Due
  <2>. QED
    BY <2>1, <2>2, Moves
<1>7. CASE MonitorPanics(h)
  BY <1>7, Panics DEF MonitorPanics
<1>. QED
  BY <1>1, <1>2, <1>3, <1>4, <1>5, <1>6, <1>7, Creating, Finding, Contacting DEF Step

\* Every step of a host's life.
LEMMA Lives ==
  ASSUME TypeOK, ClusterInv, PairInv, NEW h \in Hosts, Live(h)
  PROVE  ClusterInv' /\ PairInv'
<1> USE DEF start, Places, Starting
<1>1. CASE Boot(h)
  <2>1. /\ pc[h] = "off" /\ pc'[h] = "dial" /\ OthersStay(h) /\ UNCHANGED <<cluster, old>>
        /\ missed' = {pair \in missed : h \notin pair}
        /\ \A g \in Hosts \ {h} : pc'[g] = pc[g]
    BY <1>1, GotoType DEF Boot, OthersStay
  <2>2. \A g \in Hosts : (Listening(g)' <=> Listening(g)) /\ (Bound(g)' <=> Bound(g))
    BY <2>1 DEF Listening, Bound
  <2>3. ~Listening(h)
    BY <2>1 DEF Listening
  <2>4. ClusterInv'
    BY <2>1, <2>2 DEF ClusterInv
  <2>5. ASSUME NEW g \in Hosts, NEW k \in Hosts, Due(g, k)'
        PROVE  k \in cluster'[g] \/ Before(g, k)' \/ Before(k, g)'
    <3>1. g # h /\ k # h
      BY <2>2, <2>3, <2>5 DEF Due
    <3>2. Due(g, k)
      BY <2>1, <2>2, <2>5, <3>1 DEF Due
    <3>3. (Before(g, k) => Before(g, k)') /\ (Before(k, g) => Before(k, g)')
      BY <2>1, <3>1 DEF Before, OthersStay
    <3>. QED
      BY <2>1, <3>2, <3>3 DEF PairInv
  <2>. QED
    BY <2>4, <2>5 DEF PairInv
<1>2. CASE Left(h)
  <2>1. /\ OthersStay(h) /\ cluster' = Without(h) /\ UNCHANGED <<pc, missed>>
    BY <1>2 DEF Left, OthersStay, TypeOK
  <2>2. ~Listening(h)
    BY <1>2 DEF Left, ClusterInv
  <2>3. ~Listening(h)'
    BY <2>1, <2>2 DEF Listening
  <2>. QED
    BY <2>1, <2>3, Leaves
<1>3. CASE Ended(h)
  <2>1. /\ OthersStay(h) /\ UNCHANGED <<pc, cluster, todo, missed>>
        /\ old'[h] = old[h] \ {"exiting"}
    BY <1>3 DEF Ended, OthersStay, TypeOK
  <2>2. (Listening(h) <=> Listening(h)') /\ (Bound(h) <=> Bound(h)')
    BY <2>1 DEF Listening, Bound
  <2>3. \A g \in Hosts : Before(h, g) => Before(h, g)'
    BY <2>1 DEF Before
  <2>4. Listening(h)' => old'[h] \cap {"leaving", "dying"} = {}
    BY <2>1, <2>2 DEF ClusterInv
  <2>. QED
    BY <2>1, <2>2, <2>3, <2>4, Moves
<1>4. CASE Exit(h)
  <2>1. pc[h] \in {"serve", "ui"} /\ Listening(h) /\ UNCHANGED <<old, todo, missed>>
    BY <1>4 DEF Exit, Listening
  <2>2. CASE \E l \in {"closing", "lingering"} : Goto(h, l) /\ UNCHANGED cluster
    <3>1. PICK l \in {"closing", "lingering"} : Goto(h, l) /\ UNCHANGED cluster
      BY <2>2
    <3>2. Listening(h)'
      BY <3>1, GotoType DEF Listening
    <3>. QED
      BY <2>1, <3>1, <3>2, GoesOn
  <2>. QED
    BY <1>4, <2>1, <2>2, Panics DEF Exit
<1>5. CASE Die(h)
  <2>1. /\ pc'[h] = "off" /\ OthersStay(h) /\ UNCHANGED <<cluster, missed>>
        /\ old'[h] = old[h] \cup {"dying"}
    BY <1>5, GotoType DEF Die, OthersStay, TypeOK
  <2>2. ~Listening(h)' /\ Bound(h)' /\ \A g \in Hosts : ~Due(h, g)'
    BY <2>1 DEF Listening, Bound, Due
  <2>. QED
    BY <2>1, <2>2, Moves
<1>. QED
  BY <1>1, <1>2, <1>3, <1>4, <1>5, Starts DEF Live, OldStep

\* The invariant holds in every state.
LEMMA IInvHolds == Spec => []IInv
<1>1. Init => ClusterInv /\ PairInv
  <2> SUFFICES ASSUME Init PROVE ClusterInv /\ PairInv
    OBVIOUS
  <2>1. \A h \in Hosts : cluster[h] = {} /\ ~Listening(h)
    BY DEF Init, Listening
  <2>. QED
    BY <2>1 DEF ClusterInv, PairInv, Due
<1>2. IInv /\ [Next]_vars => ClusterInv' /\ PairInv'
  <2> SUFFICES ASSUME IInv, [Next]_vars
               PROVE  ClusterInv' /\ PairInv'
    OBVIOUS
  <2>1. CASE UNCHANGED <<pc, old, todo, cluster, missed>>
    BY <2>1 DEF IInv, ClusterInv, PairInv, Due, Before, Listening, Bound
  <2>2. CASE UNCHANGED vars \/ \E h \in Hosts, request \in Requests : Get(h, request)
    BY <2>1, <2>2 DEF vars, start, Get
  <2>3. ASSUME NEW h \in Hosts, Live(h)
        PROVE  ClusterInv' /\ PairInv'
    BY <2>3, Lives DEF IInv
  <2>. QED
    BY <2>2, <2>3 DEF Next
<1>. QED
  BY <1>1, <1>2, TypeInit, TypeCorrect, PTL DEF IInv, Spec

\* Two hitters of a VPC that both serve are in one cluster, however their starts,
\* restarts and panics ran into each other, unless one could not reach the other.
THEOREM ServingAreTogetherCorrect == Spec => []ServingAreTogether
<1>1. IInv => ServingAreTogether
  <2> SUFFICES ASSUME IInv, NEW g \in Public, NEW h \in Public,
                      pc[g] = "serve", pc[h] = "serve", Vpc[g] = Vpc[h], {g, h} \notin missed
               PROVE  h \in cluster[g]
    BY DEF ServingAreTogether
  <2>1. g \in Hosts /\ h \in Hosts /\ Listening(g) /\ Listening(h)
    BY NodeAssumption DEF Listening
  <2>2. CASE g = h
    BY <2>1, <2>2 DEF IInv, ClusterInv
  <2>3. CASE g # h
    <3>1. Due(g, h)
      BY <2>1, <2>3 DEF Due
    <3>2. ~Before(g, h) /\ ~Before(h, g)
      BY DEF Before
    <3>. QED
      BY <2>1, <3>1, <3>2 DEF IInv, PairInv
  <2>. QED
    BY <2>2, <2>3
<1>. QED
  BY <1>1, IInvHolds, PTL
-----------------------------------------------------------------------------
(***************************************************************************)
(* What a serving process answers: DashboardIsServed holds of every answer *)
(* because it holds of Answer for every request, and that follows from the *)
(* compiled in table and tree alone.                                       *)
(***************************************************************************)

\* A map has the keys of its entries, and for each key the value of one of them.
LEMMA TableLookup ==
  ASSUME NEW entries, NEW key \in DOMAIN Table(entries)
  PROVE  \E e \in entries : e[1] = key /\ Table(entries)[key] = e[2]
<1> DEFINE e == CHOOSE e \in entries : e[1] = key
<1>1. key \in {d[1] : d \in entries} /\ Table(entries)[key] = e[2]
  BY DEF Table
<1>2. e \in entries /\ e[1] = key
  BY <1>1
<1>. QED
  BY <1>1, <1>2

\* Each of the entries has its key there.
LEMMA TableKeys ==
  ASSUME NEW entries, NEW key, NEW value, <<key, value>> \in entries
  PROVE  key \in DOMAIN Table(entries)
  BY DEF Table

\* The embedded files are named as the table has them.
LEMMA FileNames ==
  /\ assetsIndexHtml.name = <<"assets", "index.html">>
  /\ assetsCssIndexCss.name = <<"assets", "css", "index.css">>
  /\ assetsIcoFaviconIco.name = <<"assets", "ico", "favicon.ico">>
  /\ assetsImgSepHalfPng.name = <<"assets", "img", "sep-half.png">>
  /\ assetsImgSkullSvg.name = <<"assets", "img", "skull.svg">>
  /\ assetsJsIndexJs.name = <<"assets", "js", "index.js">>
  /\ assetsJsLineandbarsJs.name = <<"assets", "js", "lineandbars.js">>
  /\ NoFile.name = <<>>
<1>1. \A name, size, mode, modTime : File(name, size, mode, modTime).name = name
  BY SMT DEF File
<1>. QED
  BY <1>1, SMT DEF assetsIndexHtml, assetsCssIndexCss, assetsIcoFaviconIco, assetsImgSepHalfPng,
    assetsImgSkullSvg, assetsJsIndexJs, assetsJsLineandbarsJs, NoFile

\* The names of the files.
Names ==
  {<<"assets", "index.html">>, <<"assets", "css", "index.css">>,
   <<"assets", "ico", "favicon.ico">>, <<"assets", "img", "sep-half.png">>,
   <<"assets", "img", "skull.svg">>, <<"assets", "js", "index.js">>,
   <<"assets", "js", "lineandbars.js">>}

\* A name of the table finds the file of that name.
LEMMA AssetIsNamed ==
  /\ AssetNames = Names
  /\ \A name \in AssetNames : Asset(name).name = name /\ Asset(name) # NoFile
  /\ \A name : name \notin AssetNames => Asset(name) = NoFile
<1>1. AssetNames = Names
  <2>1. \A name : name \in DOMAIN Bindata => name \in Names
    BY TableLookup, SMT DEF Bindata, Files, Names
  <2>2. \A name : name \in Names => name \in DOMAIN Bindata
    <3>1. \A name \in Names : \E file : <<name, file>> \in Files
      BY SMT DEF Files, Names
    <3>. QED
      BY <3>1, TableKeys DEF Bindata
  <2>. QED
    BY <2>1, <2>2 DEF AssetNames
<1>2. ASSUME NEW name \in AssetNames
      PROVE  Asset(name).name = name /\ Asset(name) # NoFile
  <2>1. Bindata[name].name = name
    BY TableLookup, FileNames, SMT DEF AssetNames, Bindata, Files
  <2>2. name # <<>>
    BY <1>1, SMT DEF Names
  <2>. QED
    BY <2>1, <2>2, FileNames DEF Asset, AssetNames, bindataRead
<1>. QED
  BY <1>1, <1>2 DEF Asset, AssetNames

\* The directories of the tree.
Dirs ==
  {<<>>, <<"assets">>, <<"assets", "css">>, <<"assets", "ico">>, <<"assets", "img">>,
   <<"assets", "js">>}

\* How many parts the paths of the tree have, and that no directory is a file.
LEMMA Shapes ==
  /\ \A path \in Dirs : Len(path) <= 1 \/ (Len(path) = 2 /\ path[2] \in {"css", "ico", "img", "js"})
  /\ \A path \in Names : Len(path) = 3 \/ (Len(path) = 2 /\ path[2] = "index.html")
  /\ Dirs \cap Names = {}
<1>1. \A path \in Dirs : Len(path) <= 1 \/ (Len(path) = 2 /\ path[2] \in {"css", "ico", "img", "js"})
  BY SMT DEF Dirs
<1>2. \A path \in Names : Len(path) = 3 \/ (Len(path) = 2 /\ path[2] = "index.html")
  BY SMT DEF Names
<1>3. ASSUME NEW path \in Dirs, path \in Names
      PROVE  FALSE
  <2>1. path[2] = "index.html" /\ path[2] \in {"css", "ico", "img", "js"}
    BY <1>1, <1>2, <1>3, SMT
  <2>. QED
    BY <2>1
<1>. QED
  BY <1>1, <1>2, <1>3

\* The tree has the directories and the files of the table, and no other node.
LEMMA TreeNodes ==
  /\ DOMAIN Bintree = Dirs \cup Names
  /\ \A path : IsDir(path) <=> path \in Dirs
<1>1. DOMAIN Bintree \subseteq Dirs \cup Names
  BY TableLookup, SMT DEF Bintree, Nodes, Dirs, Names
<1>2. Dirs \cup Names \subseteq DOMAIN Bintree
  <2>1. \A path \in Dirs \cup Names : \E file : <<path, file>> \in Nodes
    BY SMT DEF Nodes, Dirs, Names
  <2>. QED
    BY <2>1, TableKeys DEF Bintree
<1>3. ASSUME NEW path \in Dirs
      PROVE  Bintree[path] = NoFile
  <2>1. path \notin Names
    BY Shapes
  <2>2. \A e \in Nodes : e[1] \in Names \/ e[2] = NoFile
    BY SMT DEF Nodes, Names
  <2>. QED
    BY <1>2, <2>1, <2>2, TableLookup DEF Bintree
<1>4. ASSUME NEW path \in Names
      PROVE  Bintree[path] # NoFile
  <2>1. path \notin Dirs
    BY Shapes
  <2>2. \A e \in Nodes : e[1] \in Dirs \/ e[2].name = e[1]
    BY FileNames, SMT DEF Nodes, Dirs
  <2>3. Bintree[path].name = path /\ path # <<>>
    BY <1>2, <2>1, <2>2, TableLookup DEF Bintree, Dirs
  <2>. QED
    BY <2>3, FileNames
<1>. QED
  BY <1>1, <1>2, <1>3, <1>4 DEF IsDir

\* How a short path grows by a part.
LEMMA Appending ==
  ASSUME NEW a, NEW b, NEW c
  PROVE  /\ Append(<<>>, a) = <<a>>
         /\ Append(<<a>>, b) = <<a, b>>
         /\ Append(<<a, b>>, c) = <<a, b, c>>
<1> DEFINE S == {a, b, c}
<1>1. Append(<<>>, a) = <<a>>
  OBVIOUS
<1>2. Append(<<a>>, b) = <<a, b>>
  <2> DEFINE s == Append(<<a>>, b)
             t == <<a, b>>
  <2>1. <<a>> \in Seq(S) /\ Len(<<a>>) = 1 /\ t \in Seq(S) /\ Len(t) = 2
    OBVIOUS
  <2>2. s \in Seq(S) /\ Len(s) = 2
    BY <2>1
  <2>3. \A i \in 1 .. 2 : s[i] = t[i]
    <3>1. s[1] = a
      BY <2>1
    <3>2. s[2] = b
      BY <2>1
    <3>. QED
      BY <3>1, <3>2
  <2> HIDE DEF s, t
  <2>4. s = t
    BY <2>1, <2>2, <2>3, SeqEqual
  <2>. QED
    BY <2>4 DEF s, t
<1>3. Append(<<a, b>>, c) = <<a, b, c>>
  <2> DEFINE s == Append(<<a, b>>, c)
             t == <<a, b, c>>
  <2>1. <<a, b>> \in Seq(S) /\ Len(<<a, b>>) = 2 /\ t \in Seq(S) /\ Len(t) = 3
    OBVIOUS
  <2>2. s \in Seq(S) /\ Len(s) = 3
    BY <2>1
  <2>3. \A i \in 1 .. 3 : s[i] = t[i]
    <3>1. s[3] = c
      BY <2>1
    <3>2. \A i \in 1 .. 2 : s[i] = <<a, b>>[i]
      BY <2>1
    <3>. QED
      BY <3>1, <3>2
  <2> HIDE DEF s, t
  <2>4. s = t
    BY <2>1, <2>2, <2>3, SeqEqual
  <2>. QED
    BY <2>4 DEF s, t
<1>. QED
  BY <1>1, <1>2, <1>3

\* RestoreAssets finds a child of a directory one level further down, and a file
\* where it was.
LEMMA DescendReaches ==
  ASSUME NEW paths, NEW path \in paths
  PROVE  /\ IsDir(path) =>
              \A child : Append(path, child) \in DOMAIN Bintree /\ child \in Parts
                => Append(path, child) \in Descend(paths)
         /\ ~IsDir(path) => path \in Descend(paths)
  BY DEF Descend, AssetDir

\* From the root it comes to every file of the table, and to nothing else: the
\* tree and the table agree.
LEMMA AllRestored == RestoreAssets(<<>>) = {Asset(name) : name \in AssetNames}
<1> DEFINE level1 == Descend({<<>>})
           level2 == Descend(level1)
           level3 == Descend(level2)
<1>1. {"assets", "css", "ico", "img", "js", "index.html", "index.css", "favicon.ico",
       "sep-half.png", "skull.svg", "index.js", "lineandbars.js"} \subseteq Parts
  <2>1. \A path \in Names : \A i \in DOMAIN path : path[i] \in Parts
    BY TreeNodes DEF Parts, Range
  <2>. QED
    BY <2>1, SMT DEF Names
<1>2. <<"assets">> \in level1
  <2>1. Append(<<>>, "assets") = <<"assets">> /\ <<>> \in {<<>>}
    OBVIOUS
  <2>2. IsDir(<<>>) /\ <<"assets">> \in DOMAIN Bintree
    BY TreeNodes DEF Dirs
  <2>. QED
    BY <1>1, <2>1, <2>2, DescendReaches
<1>3. \A dir \in {"css", "ico", "img", "js", "index.html"} : <<"assets", dir>> \in level2
  <2>1. \A dir : Append(<<"assets">>, dir) = <<"assets", dir>>
    BY Appending
  <2>2. IsDir(<<"assets">>)
    BY TreeNodes DEF Dirs
  <2>3. \A dir \in {"css", "ico", "img", "js", "index.html"} : <<"assets", dir>> \in DOMAIN Bintree
    BY TreeNodes, SMT DEF Dirs, Names
  <2>. QED
    BY <1>1, <1>2, <2>1, <2>2, <2>3, DescendReaches
<1>4. \A name \in Names : name \in level3
  <2>1. <<"assets", "index.html">> \in level3
    <3>1. ~IsDir(<<"assets", "index.html">>)
      BY TreeNodes, Shapes DEF Names
    <3>. QED
      BY <1>3, <3>1, DescendReaches
  <2>2. ASSUME NEW dir, NEW child, <<"assets", dir, child>> \in Names,
               dir \in {"css", "ico", "img", "js"}, child \in Parts
        PROVE  <<"assets", dir, child>> \in level3
    <3>1. Append(<<"assets", dir>>, child) = <<"assets", dir, child>>
      BY Appending
    <3>2. IsDir(<<"assets", dir>>)
      BY <2>2, TreeNodes, SMT DEF Dirs
    <3>3. <<"assets", dir, child>> \in DOMAIN Bintree /\ <<"assets", dir>> \in level2
      BY <1>3, <2>2, TreeNodes
    <3>. QED
      BY <2>2, <3>1, <3>2, <3>3, DescendReaches
  <2>3. \A name \in Names \ {<<"assets", "index.html">>} :
          \E dir \in {"css", "ico", "img", "js"}, child \in Parts : name = <<"assets", dir, child>>
    BY <1>1, SMT DEF Names
  <2>. QED
    BY <2>1, <2>2, <2>3
<1> DEFINE Level(k) == Names \cup {path \in DOMAIN Bintree : Len(path) = k}
<1>5. ASSUME NEW k \in Nat, NEW paths \in SUBSET Level(k)
      PROVE  Descend(paths) \subseteq Level(k + 1)
  <2>1. SUFFICES ASSUME NEW path \in paths, NEW below,
                        IF IsDir(path)
                          THEN \E child \in AssetDir(path) : below = Append(path, child)
                          ELSE below = path
                 PROVE  below \in Level(k + 1)
    BY DEF Descend
  <2>2. CASE IsDir(path)
    <3>1. path \in Dirs /\ path \notin Names
      BY <2>2, TreeNodes, Shapes
    <3>2. Len(path) = k /\ (path = <<>> \/ (\E a : path = <<a>>) \/ (\E a, b : path = <<a, b>>))
      BY <1>5, <3>1 DEF Dirs
    <3>3. PICK child : below = Append(path, child) /\ Append(path, child) \in DOMAIN Bintree
      BY <2>1, <2>2 DEF AssetDir
    <3>4. Len(below) = k + 1
      BY <3>2, <3>3, Appending
    <3>. QED
      BY <3>3, <3>4
  <2>3. CASE ~IsDir(path)
    <3>1. path \in DOMAIN Bintree
      BY <1>5, TreeNodes
    <3>. QED
      BY <2>1, <2>3, <3>1, TreeNodes
  <2>. QED
    BY <2>2, <2>3
<1>6. level3 \subseteq Names
  <2>1. {<<>>} \subseteq Level(0)
    BY TreeNodes DEF Dirs
  <2>2. level1 \subseteq Level(1) /\ level2 \subseteq Level(2) /\ level3 \subseteq Level(3)
    <3> HIDE DEF Level
    <3>1. level1 \subseteq Level(0 + 1)
      BY <1>5, <2>1
    <3>2. level2 \subseteq Level(1 + 1)
      BY <1>5, <3>1
    <3>3. level3 \subseteq Level(2 + 1)
      BY <1>5, <3>2
    <3>. QED
      BY <3>1, <3>2, <3>3
  <2>3. Level(3) \subseteq Names
    BY TreeNodes, Shapes
  <2>. QED
    BY <2>2, <2>3
<1>. QED
  BY <1>4, <1>6, AssetIsNamed DEF RestoreAssets

-----------------------------------------------------------------------------
\* What DashboardIsServed says of one request and its reply.
Served(request, reply) ==
  /\ request.path \in PageFiles \cap KnownTypes /\ ~request.range =>
        reply.file.name = request.path
  /\ request.path = Root /\ request.get => reply.file.name = <<"assets", "index.html">>
  /\ reply.file # NoFile => reply.file \in RestoreAssets(<<>>)
  /\ reply.status = "dropped" => request.range \/ request.path \notin KnownTypes

\* The file server sends a file of the tree or none, and the one that was asked
\* for when nothing seeks in it.
LEMMA FileServed ==
  ASSUME NEW request, NEW path
  PROVE  LET reply == ServeFile(request, path)
         IN  /\ reply.file # NoFile => reply.file \in RestoreAssets(<<>>)
             /\ reply.status = "dropped" => request.range \/ path \notin KnownTypes
             /\ path \in AssetNames \cap KnownTypes /\ ~request.range /\ Last(path) # "index.html"
                  => reply.file.name = path
<1> DEFINE reply == ServeFile(request, path)
           file == Open(path)
<1>1. file # NoFile => path \in AssetNames /\ file.name = path /\ file \in RestoreAssets(<<>>)
  BY AssetIsNamed, AllRestored DEF Open
<1>2. path \in AssetNames => file # NoFile
  BY AssetIsNamed DEF Open
<1>3. \/ reply = Reply("redirect") /\ Last(path) = "index.html"
      \/ reply = Reply("server error") /\ file = NoFile
      \/ reply = Reply("dropped") /\ file # NoFile /\ Seeks(request, file)
      \/ reply = Send(file) /\ file # NoFile /\ ~Seeks(request, file)
  BY DEF ServeFile
<1> HIDE DEF reply, file
<1>4. \A status : Reply(status).file = NoFile /\ Reply(status).status = status
  BY DEF Reply
<1>5. Send(file).file = file /\ Send(file).status = "ok"
  BY DEF Send
<1>6. reply.file # NoFile => reply.file = file
  BY <1>3, <1>4, <1>5
<1>7. reply.status = "dropped" => Seeks(request, file) /\ file # NoFile
  BY <1>3, <1>4, <1>5
<1>8. path \in AssetNames \cap KnownTypes /\ ~request.range /\ Last(path) # "index.html"
        => reply.file = file
  BY <1>1, <1>2, <1>3, <1>5 DEF Seeks
<1>9. path \in AssetNames \cap KnownTypes /\ ~request.range /\ Last(path) # "index.html"
        => reply.file.name = path
  BY <1>1, <1>2, <1>8
<1>10. reply.status = "dropped" => request.range \/ path \notin KnownTypes
  BY <1>1, <1>7 DEF Seeks
<1>. QED
  BY <1>1, <1>6, <1>9, <1>10 DEF reply

\* Tuples are sequences.
LEMMA Tuples ==
  ASSUME NEW a, NEW b, NEW c
  PROVE  /\ Len(<<a>>) = 1
         /\ <<a, b>> \in Seq({a, b}) /\ Len(<<a, b>>) = 2
         /\ <<a, b, c>> \in Seq({a, b, c}) /\ Len(<<a, b, c>>) = 3
<1>1. Len(<<a>>) = 1
  OBVIOUS
<1>2. <<a, b>> \in Seq({a, b}) /\ Len(<<a, b>>) = 2
  OBVIOUS
<1>3. <<a, b, c>> \in Seq({a, b, c}) /\ Len(<<a, b, c>>) = 3
  OBVIOUS
<1>. QED
  BY <1>1, <1>2, <1>3

\* The subtrees of the server but the root have two parts, the second of them empty.
LEMMA SubtreesLength ==
  /\ \A subtree \in Subtrees \ {Root} :
        subtree = <<"amazon_health", "">> \/ subtree = <<"state", "">>
  /\ \A subtree \in Subtrees \ {Root} : Len(subtree) = 2
  /\ \A path \in Exact \cup Bare : Len(path) = 1
  /\ Len(Root) = 1
<1>1. \A subtree \in Subtrees \ {Root} :
        subtree = <<"amazon_health", "">> \/ subtree = <<"state", "">>
  BY DEF Subtrees
<1>2. \A path \in Exact \cup Bare : \E name : path = <<name>>
  BY DEF Exact, Bare
<1>3. Len(Root) = 1
  BY DEF Root
<1>. QED
  BY <1>1, <1>2, <1>3, Tuples, Zenon

\* The files the page names are in the tree, and go to the handler of the root.
LEMMA PageFilesFound ==
  ASSUME NEW path \in PageFiles
  PROVE  path \in AssetNames /\ Last(path) # "index.html" /\ path # Root /\ Pattern(path) = Root
<1>1. path \in AssetNames
  BY AssetIsNamed, SMT DEF PageFiles, Names
<1>2. Len(path) = 3 /\ path[1] = "assets" /\ path[3] # "index.html" /\ \E S : path \in Seq(S)
  <2>1. Len(path) = 3 /\ path[1] = "assets"
    BY Tuples DEF PageFiles
  <2>2. path[3] # "index.html"
    BY SMT DEF PageFiles
  <2>3. \E S : path \in Seq(S)
    <3>1. \E a, b, c : path = <<a, b, c>>
      BY DEF PageFiles
    <3>2. PICK a, b, c : path = <<a, b, c>>
      BY <3>1
    <3>. QED
      BY <3>2, Tuples, Zenon
  <2>. QED
    BY <2>1, <2>2, <2>3
<1>3. Last(path) # "index.html"
  BY <1>2 DEF Last
<1>4. path \notin Exact \cup Bare /\ path # Root
  <2>1. 3 # 1
    OBVIOUS
  <2>. QED
    BY <1>2, <2>1, SubtreesLength
<1>5. ASSUME NEW subtree \in Subtrees \ {Root}
      PROVE  ~Under(subtree, path)
  <2>1. subtree = <<"amazon_health", "">> \/ subtree = <<"state", "">>
    BY SubtreesLength
  <2>2. Len(subtree) = 2 /\ subtree # Root
    BY SubtreesLength
  <2>3. subtree[1] # "assets"
    <3>1. <<"amazon_health", "">>[1] # "assets"
      OBVIOUS
    <3>2. <<"state", "">>[1] # "assets"
      OBVIOUS
    <3>. QED
      BY <2>1, <3>1, <3>2, Zenon
  <2>4. \E S : subtree \in Seq(S)
    <3>1. \E a, b : subtree = <<a, b>>
      BY <2>1, Zenon
    <3>2. PICK a, b : subtree = <<a, b>>
      BY <3>1
    <3>. QED
      BY <3>2, Tuples, Zenon
  <2>5. Front(subtree)[1] # SubSeq(path, 1, 1)[1]
    <3>1. PICK S : subtree \in Seq(S)
      BY <2>4
    <3>2. Front(subtree)[1] = subtree[1]
      BY <2>2, <3>1 DEF Front
    <3>3. PICK T : path \in Seq(T)
      BY <1>2
    <3>4. SubSeq(path, 1, 1)[1] = path[1]
      BY <1>2, <3>3
    <3>. QED
      BY <1>2, <2>3, <3>2, <3>4
  <2>. QED
    BY <2>2, <2>5 DEF Under
<1>6. Pattern(path) = Root
  BY <1>4, <1>5 DEF Pattern
<1>. QED
  BY <1>1, <1>3, <1>4, <1>6

\* Every request is answered as DashboardIsServed says, whatever its path.
LEMMA AnswersServe ==
  ASSUME NEW request
  PROVE  Served(request, Answer(request))
<1> DEFINE path == request.path
           reply == Answer(request)
           icon == <<"assets", "ico", "favicon.ico">>
<1>1. PICK pattern : pattern = Pattern(path)
  OBVIOUS
<1>2. \A status : Reply(status).file = NoFile /\ Reply(status).status = status
  BY DEF Reply
<1>3. Pattern(Root) = Root
  <2>1. Root \notin Exact \cup Bare
    BY SMT DEF Exact, Bare, Root
  <2>2. \A subtree \in Subtrees \ {Root} : ~Under(subtree, Root)
    <3>1. SUFFICES ASSUME NEW subtree \in Subtrees \ {Root}
                   PROVE  ~Under(subtree, Root)
      OBVIOUS
    <3>2. Len(Root) = 1 /\ Len(subtree) = 2
      BY SubtreesLength
    <3>. QED
      BY <3>2 DEF Under
  <2>. QED
    BY <2>1, <2>2 DEF Pattern
<1>4. CASE reply \in {AmazonHealth, Reply("state"), Reply("socket"), Reply("redirect")} /\ pattern # Root
  <2>1. reply.file = NoFile /\ reply.status # "dropped"
    BY <1>2, <1>4 DEF AmazonHealth
  <2>. QED
    BY <1>1, <1>3, <1>4, <2>1, PageFilesFound DEF Served
<1>5. CASE reply = rewrite(request) /\ path = <<"favicon.ico">> /\ pattern # Root
  <2>1. icon # Root
    BY SMT DEF Root
  <2>2. reply = ServeFile(request, icon)
    BY <1>5, <2>1 DEF rewrite, ServeHome
  <2>3. path \notin AssetNames
    BY <1>5, AssetIsNamed, Shapes, SMT
  <2>. QED
    BY <1>1, <1>3, <1>5, <2>2, <2>3, FileServed, PageFilesFound, WebServerAssumption DEF Served
<1>6. CASE reply = ServeHome(request, path) /\ pattern = Root
  <2>1. CASE path # Root
    <3>1. reply = ServeFile(request, path)
      BY <1>6, <2>1 DEF ServeHome
    <3>. QED
      BY <2>1, <3>1, FileServed, PageFilesFound DEF Served
  <2>2. CASE path = Root
    <3> DEFINE index == <<"assets", "index.html">>
    <3>1. PageValues \subseteq LoadData
      BY DEF PageValues, LoadData
    <3>2. IF request.get THEN reply = Send(Asset(index)) ELSE reply = Reply("not allowed")
      BY <1>6, <2>2, <3>1 DEF ServeHome
    <3>3. index \in AssetNames
      BY AssetIsNamed DEF Names
    <3>4. Asset(index).name = index /\ Asset(index) \in RestoreAssets(<<>>)
      BY <3>3, AssetIsNamed, AllRestored
    <3>5. Send(Asset(index)).file = Asset(index) /\ Send(Asset(index)).status = "ok"
      BY DEF Send
    <3>6. path \notin PageFiles
      BY <2>2, PageFilesFound
    <3> HIDE DEF index
    <3>. QED
      BY <1>2, <3>2, <3>4, <3>5, <3>6 DEF Served, index
  <2>. QED
    BY <2>1, <2>2
<1>7. \/ pattern \in Bare /\ reply = Reply("redirect") /\ pattern # Root
      \/ pattern = <<"amazon_health", "">> /\ reply = AmazonHealth /\ pattern # Root
      \/ pattern = <<"state", "">> /\ reply = Reply("state") /\ pattern # Root
      \/ pattern = <<"ws">> /\ reply = Reply("socket") /\ pattern # Root
      \/ pattern = <<"favicon.ico">> /\ reply = rewrite(request) /\ pattern # Root
      \/ pattern = Root /\ reply = ServeHome(request, path)
  <2> DEFINE inner == {<<"amazon_health", "">>, <<"state", "">>, <<"ws">>, <<"favicon.ico">>}
  <2>1. inner \cup {Root} = Subtrees \cup Exact
    BY DEF Subtrees, Exact
  <2>2. pattern \in Subtrees \cup Exact \cup Bare
    <3>1. Root \in Subtrees
      BY DEF Subtrees
    <3>. QED
      BY <1>1, <3>1, Zenon DEF Pattern
  <2>3. /\ <<"amazon_health", "">> # <<"state", "">> /\ <<"ws">> # <<"favicon.ico">>
        /\ \A tree \in {<<"amazon_health", "">>, <<"state", "">>} :
              tree # <<"ws">> /\ tree # <<"favicon.ico">> /\ tree # Root
        /\ <<"ws">> # Root /\ <<"favicon.ico">> # Root
        /\ \A path1 \in inner \cup {Root} : path1 \notin Bare
    BY SMT DEF Root, Bare
  <2> DEFINE answer4 == CASE pattern \in Bare -> Reply("redirect")
        [] pattern = <<"amazon_health", "">> -> AmazonHealth
        [] pattern = <<"state", "">> -> Reply("state")
        [] pattern = <<"ws">> -> Reply("socket")
        [] pattern = <<"favicon.ico">> -> rewrite(request)
        [] pattern = Root -> ServeHome(request, path)
  <2>4. reply = answer4
    BY <1>1 DEF Answer
  <2> HIDE DEF reply
  <2>5. \/ pattern \in Bare /\ reply = Reply("redirect")
        \/ pattern = <<"amazon_health", "">> /\ reply = AmazonHealth
        \/ pattern = <<"state", "">> /\ reply = Reply("state")
        \/ pattern = <<"ws">> /\ reply = Reply("socket")
        \/ pattern = <<"favicon.ico">> /\ reply = rewrite(request)
        \/ pattern = Root /\ reply = ServeHome(request, path)
    BY <2>1, <2>2, <2>3, <2>4
  <2>. QED
    BY <2>3, <2>5
<1>8. pattern = <<"favicon.ico">> => path = <<"favicon.ico">>
  <2>1. SUFFICES ASSUME path # pattern
                 PROVE  pattern # <<"favicon.ico">>
    OBVIOUS
  <2>2. pattern \in Subtrees
    <3>1. Root \in Subtrees
      BY DEF Subtrees
    <3>. QED
      BY <1>1, <2>1, <3>1, Zenon DEF Pattern
  <2>3. <<"favicon.ico">> \notin Subtrees
    BY SMT DEF Subtrees, Root
  <2>. QED
    BY <2>2, <2>3
<1>. QED
  BY <1>2, <1>4, <1>5, <1>6, <1>7, <1>8

\* The last answer is the one Answer gives, so DashboardIsServed is an invariant.
THEOREM DashboardIsServedCorrect == Spec => []DashboardIsServed
<1> DEFINE AnswerInv == answer # None => \E request \in Requests : answer = <<request, Answer(request)>>
<1>1. Init => AnswerInv
  BY DEF Init
<1>2. AnswerInv /\ [Next]_vars => AnswerInv'
  <2>1. SUFFICES ASSUME AnswerInv, [Next]_vars PROVE AnswerInv'
    OBVIOUS
  <2>2. CASE UNCHANGED vars
    BY <2>1, <2>2 DEF vars
  <2>3. CASE answer' = None
    BY <2>3
  <2>4. ASSUME NEW h \in Hosts, NEW request \in Requests, Get(h, request)
        PROVE  AnswerInv'
    BY <2>4 DEF Get
  <2>. QED
    BY <2>1, <2>2, <2>3, <2>4 DEF Next
<1>3. AnswerInv => DashboardIsServed
  <2>1. SUFFICES ASSUME NEW request, answer = <<request, Answer(request)>>
                 PROVE  DashboardIsServed
    BY DEF DashboardIsServed
  <2>2. answer[1] = request /\ answer[2] = Answer(request)
    BY <2>1
  <2>. QED
    BY <2>2, AnswersServe DEF DashboardIsServed, Served
<1>. QED
  BY <1>1, <1>2, <1>3, PTL DEF Spec
=============================================================================
