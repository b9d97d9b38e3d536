----------------------------- MODULE GossipProofs -----------------------------
(***************************************************************************)
(* TypeOK and OwnRecordAuthoritative hold for any nodes, commands and      *)
(* bounds.                                                                 *)
(***************************************************************************)
EXTENDS Gossip, SequenceTheorems, TLAPS

\* The message that tells of a state.
Told(state) == IF state = "play" THEN "STARTED" ELSE "STOPPED"

\* The last state message in node n's own queue, if any, tells of its state;
\* if there is none its record does.
Underway(n) ==
  IF \A i \in 1 .. Len(UIMsgs[n]) : UIMsgs[n][i] = "QPS"
    THEN States[n][n] = Running[n]
    ELSE \E i \in 1 .. Len(UIMsgs[n]) :
           /\ UIMsgs[n][i] = Told(Running[n])
           /\ \A j \in 1 .. Len(UIMsgs[n]) : j > i => UIMsgs[n][j] = "QPS"

\* A node whose process does not run has nothing under way.
DownInv ==
  \A n \in Nodes \ up :
    /\ Running[n] = "stop" /\ sending[n] = "none" /\ chosen[n] = "on"
    /\ UIMsgs[n] = <<>> /\ inbox[n] = Nothing /\ mems[n] = Nothing

\* A merge never concerns the node itself.
MergeInv == \A n \in Nodes : mems[n] # Nothing => n \notin mems[n]

\* Nobody sends to itself over the network.
NetInv == \A d \in net : d[1] # d[2]

OwnInv(n) ==
  /\ n \in members[n]
  /\ n \in Qps[n]
  /\ Active[n][n] = chosen[n]
  /\ sending[n] # "none" => sending[n] = Told(Running[n])
  /\ sending[n] = "none" => Underway(n)

Inv == TypeOK /\ DownInv /\ MergeInv /\ NetInv /\ \A n \in up : OwnInv(n)

-----------------------------------------------------------------------------
LEMMA TypeInit == Init => TypeOK
<1> SUFFICES ASSUME Init PROVE TypeOK
  OBVIOUS
<1>1. UIMsgs \in [Nodes -> Seq(Kinds)]
  BY DEF Init
<1> QED  BY <1>1 DEF Init, TypeOK, Run, StateMsgs

LEMMA SendType ==
  ASSUME TypeOK, NEW n \in Nodes, NEW msg \in Kinds, SendUI(n, msg)
  PROVE  net' \subseteq (Nodes \X Nodes \X Kinds) /\ UIMsgs' \in [Nodes -> Seq(Kinds)]
<1>1. {<<n, m, msg>> : m \in members[n] \ {n}} \subseteq (Nodes \X Nodes \X Kinds)
  BY DEF TypeOK
<1>2. Append(UIMsgs[n], msg) \in Seq(Kinds)
  BY DEF TypeOK
<1> QED  BY <1>1, <1>2 DEF SendUI, TypeOK

LEMMA HandleType ==
  ASSUME TypeOK, NEW n \in Nodes, NEW h \in Nodes, NEW msg \in Kinds, Handle(n, h, msg)
  PROVE  /\ Qps' \in [Nodes -> SUBSET Nodes]
         /\ States' \in [Nodes -> [Nodes -> Run \cup {"none"}]]
         /\ Active' \in [Nodes -> [Nodes -> {"on", "off", "none"}]]
<1>1. CASE msg = "QPS"
  BY <1>1 DEF Handle, TypeOK
<1>2. CASE msg = "STARTED"
  BY <1>2 DEF Handle, TypeOK, Run
<1>3. CASE msg = "STOPPED"
  BY <1>3 DEF Handle, TypeOK, Run
<1> QED  BY <1>1, <1>2, <1>3 DEF Kinds, StateMsgs

LEMMA TypeNext == TypeOK /\ [Next]_vars => TypeOK'
<1> SUFFICES ASSUME TypeOK, [Next]_vars PROVE TypeOK'
  OBVIOUS
<1> USE DEF tables, engine, merge
<1>1. ASSUME NEW n \in Nodes, Boot(n) PROVE TypeOK'
  BY <1>1 DEF Boot, TypeOK, Row, Run
<1>2. ASSUME NEW n \in Nodes, Halt(n) PROVE TypeOK'
  <2>1. UIMsgs' \in [Nodes -> Seq(Kinds)]
    BY <1>2 DEF Halt, TypeOK
  <2> QED  BY <1>2, <2>1 DEF Halt, TypeOK, Row, Run
<1>3. ASSUME NEW n \in Nodes, Start(n) PROVE TypeOK'
  BY <1>3 DEF Start, SetRunning, Obey, TypeOK, Run, StateMsgs
<1>4. ASSUME NEW n \in Nodes, Stop(n) PROVE TypeOK'
  BY <1>4 DEF Stop, SetRunning, Obey, TypeOK, Run, StateMsgs
<1>5. ASSUME NEW n \in Nodes, SendState(n) PROVE TypeOK'
  <2>1. sending[n] \in Kinds
    BY <1>5 DEF SendState, TypeOK, Kinds
  <2> QED  BY <1>5, <2>1, SendType DEF SendState, TypeOK
<1>6. ASSUME NEW n \in Nodes, SendQps(n) PROVE TypeOK'
  BY <1>6, SendType DEF SendQps, Obey, TypeOK, Kinds
<1>7. ASSUME NEW n \in Nodes, NEW state \in {"on", "off"}, NEW cmd, SetColl(n, cmd, state)
      PROVE  TypeOK'
  BY <1>7 DEF SetColl, Obey, TypeOK
<1>8. ASSUME NEW n \in Nodes, ConsumeOwn(n) PROVE TypeOK'
  <2>1. Head(UIMsgs[n]) \in Kinds /\ Tail(UIMsgs[n]) \in Seq(Kinds)
    BY <1>8 DEF ConsumeOwn, TypeOK
  <2>2. UIMsgs' \in [Nodes -> Seq(Kinds)]
    BY <1>8, <2>1 DEF ConsumeOwn, TypeOK
  <2> QED  BY <1>8, <2>1, <2>2, HandleType DEF ConsumeOwn, TypeOK
<1>9. ASSUME NEW d \in net, Consume(d) PROVE TypeOK'
  <2>1. d[1] \in Nodes /\ d[2] \in Nodes /\ d[3] \in Kinds
    BY DEF TypeOK
  <2> QED  BY <1>9, <2>1, HandleType DEF Consume, TypeOK
<1>10. ASSUME NEW d \in net, Lose(d) PROVE TypeOK'
  BY <1>10 DEF Lose, TypeOK
<1>11. ASSUME NEW n \in Nodes, NEW h \in Nodes, NotifyJoin(n, h) PROVE TypeOK'
  BY <1>11 DEF NotifyJoin, TypeOK, Run
<1>12. ASSUME NEW n \in Nodes, NEW h \in Nodes, NotifyLeave(n, h) PROVE TypeOK'
  BY <1>12 DEF NotifyLeave, TypeOK
<1>13. ASSUME NEW n \in Nodes, NEW h \in Nodes, Exchange(n, h) PROVE TypeOK'
  <2>1. LocalState(n) \in Tables
    BY DEF LocalState, Tables, TypeOK
  <2> QED  BY <1>13, <2>1 DEF Exchange, TypeOK
<1>14. ASSUME NEW n \in Nodes, MergeBegin(n) PROVE TypeOK'
  BY <1>14 DEF MergeBegin, Mergeable, TypeOK
<1>15. ASSUME NEW n \in Nodes, MergeEnd(n) PROVE TypeOK'
  <2> DEFINE hosts == inbox[n].qps \cap mems[n]
  <2>1. /\ inbox[n].qps \subseteq Nodes
        /\ inbox[n].states \in [Nodes -> Run \cup {"none"}]
        /\ inbox[n].active \in [Nodes -> {"on", "off", "none"}]
    BY <1>15 DEF MergeEnd, TypeOK, Tables
  <2>2. Qps' \in [Nodes -> SUBSET Nodes]
    BY <1>15, <2>1 DEF MergeEnd, TypeOK
  <2>3. [h \in Nodes |-> IF h \in hosts THEN inbox[n].states[h] ELSE States[n][h]]
           \in [Nodes -> Run \cup {"none"}]
    BY <2>1 DEF TypeOK
  <2>4. [h \in Nodes |-> IF h \in hosts THEN inbox[n].active[h] ELSE Active[n][h]]
           \in [Nodes -> {"on", "off", "none"}]
    BY <2>1 DEF TypeOK
  <2>5. /\ States' \in [Nodes -> [Nodes -> Run \cup {"none"}]]
        /\ Active' \in [Nodes -> [Nodes -> {"on", "off", "none"}]]
    BY <1>15, <2>3, <2>4 DEF MergeEnd, TypeOK
  <2> QED  BY <1>15, <2>2, <2>5 DEF MergeEnd, TypeOK
<1>16. CASE UNCHANGED vars
  BY <1>16 DEF vars, TypeOK
<1> QED  BY <1>1, <1>2, <1>3, <1>4, <1>5, <1>6, <1>7, <1>8, <1>9, <1>10, <1>11,
            <1>12, <1>13, <1>14, <1>15, <1>16 DEF Next, EngineStep, MergeStep

-----------------------------------------------------------------------------
(***************************************************************************)
(* The queue of a node's own messages.                                     *)
(***************************************************************************)

\* A message sent while there is none about the state keeps the last state
\* message, or the want of one.
LEMMA QpsSentUnderway ==
  ASSUME TypeOK, NEW n \in Nodes, Underway(n),
         UIMsgs' = [UIMsgs EXCEPT ![n] = Append(@, "QPS")],
         States'[n][n] = States[n][n], Running'[n] = Running[n]
  PROVE  Underway(n)'
<1> DEFINE q == UIMsgs[n]
           p == Append(q, "QPS")
<1>1. q \in Seq(Kinds) /\ Len(q) \in Nat /\ UIMsgs'[n] = p
  BY DEF TypeOK
<1>2. /\ Len(p) = Len(q) + 1 /\ p[Len(q) + 1] = "QPS"
      /\ \A i \in 1 .. Len(q) : p[i] = q[i]
  BY <1>1 DEF Kinds
<1> HIDE DEF p
<1>3. CASE \A i \in 1 .. Len(q) : q[i] = "QPS"
  <2>1. \A i \in 1 .. Len(p) : p[i] = "QPS"
    BY <1>1, <1>2, <1>3
  <2>2. States[n][n] = Running[n]
    BY <1>3 DEF Underway
  <2> QED  BY <1>1, <2>1, <2>2 DEF Underway
<1>4. CASE ~ \A i \in 1 .. Len(q) : q[i] = "QPS"
  <2>1. PICK i \in 1 .. Len(q) :
          /\ q[i] = Told(Running[n])
          /\ \A j \in 1 .. Len(q) : j > i => q[j] = "QPS"
    BY <1>4 DEF Underway
  <2>2. i \in 1 .. Len(p) /\ p[i] = Told(Running[n]) /\ p[i] # "QPS"
    BY <1>1, <1>2, <2>1 DEF Told
  <2>3. \A j \in 1 .. Len(p) : j > i => p[j] = "QPS"
    BY <1>1, <1>2, <2>1
  <2>4. Told(Running[n])' = Told(Running[n])
    BY DEF Told
  <2> QED  BY <1>1, <2>2, <2>3, <2>4 DEF Underway, Told
<1> QED  BY <1>3, <1>4

\* The Engine's message about its state becomes the last one.
LEMMA StateSentUnderway ==
  ASSUME TypeOK, NEW n \in Nodes,
         UIMsgs' = [UIMsgs EXCEPT ![n] = Append(@, Told(Running[n]))],
         Running'[n] = Running[n]
  PROVE  Underway(n)'
<1> DEFINE q == UIMsgs[n]
           p == Append(q, Told(Running[n]))
<1>1. q \in Seq(Kinds) /\ Len(q) \in Nat /\ UIMsgs'[n] = p
  BY DEF TypeOK
<1>2. /\ Len(p) = Len(q) + 1 /\ p[Len(q) + 1] = Told(Running[n])
  BY <1>1 DEF Kinds, StateMsgs, Told
<1> HIDE DEF p
<1>3. Told(Running[n])' = Told(Running[n]) /\ Told(Running[n]) # "QPS"
  BY DEF Told
<1>4. Len(q) + 1 \in 1 .. Len(p) /\ \A j \in 1 .. Len(p) : ~(j > Len(q) + 1)
  BY <1>1, <1>2
<1> QED  BY <1>1, <1>2, <1>3, <1>4 DEF Underway, Told

\* Handling the first message: it was the last about the state, or the last is
\* still in the queue.
LEMMA HandledUnderway ==
  ASSUME TypeOK, NEW n \in Nodes, Underway(n), ConsumeOwn(n)
  PROVE  Underway(n)'
<1> DEFINE q == UIMsgs[n]
           p == Tail(q)
<1>1. q \in Seq(Kinds) /\ q # <<>> /\ UIMsgs'[n] = p /\ Handle(n, n, Head(q))
      /\ Running'[n] = Running[n] /\ Told(Running[n])' = Told(Running[n])
  BY DEF ConsumeOwn, TypeOK, engine, Told
<1>2. /\ Len(q) \in Nat /\ Len(q) >= 1 /\ Len(p) = Len(q) - 1
      /\ \A i \in 1 .. Len(p) : p[i] = q[i + 1]
      /\ Head(q) = q[1]
  BY <1>1
<1> HIDE DEF p
<1>3. CASE \A i \in 1 .. Len(q) : q[i] = "QPS"
  <2>1. \A i \in 1 .. Len(p) : p[i] = "QPS"
    BY <1>2, <1>3
  <2>2. Head(q) = "QPS"
    BY <1>2, <1>3
  <2>3. States' = States
    BY <1>1, <2>2 DEF Handle
  <2>4. States[n][n] = Running[n]
    BY <1>3 DEF Underway
  <2> QED  BY <1>1, <2>1, <2>3, <2>4 DEF Underway
<1>4. CASE ~ \A i \in 1 .. Len(q) : q[i] = "QPS"
  <2>1. PICK i \in 1 .. Len(q) :
          /\ q[i] = Told(Running[n])
          /\ \A j \in 1 .. Len(q) : j > i => q[j] = "QPS"
    BY <1>4 DEF Underway
  <2>2. CASE i = 1
    <3>1. ASSUME NEW j \in 1 .. Len(p) PROVE p[j] = "QPS"
      <4>1. j + 1 \in 1 .. Len(q) /\ j + 1 > i /\ p[j] = q[j + 1]
        BY <1>2, <2>2
      <4> QED  BY <2>1, <4>1
    <3>2. Head(q) = Told(Running[n])
      BY <1>2, <2>1, <2>2
    <3>3. States'[n][n] = Running[n]
      <4>1. CASE Running[n] = "play"
        BY <4>1, <3>2, <1>1 DEF Handle, Told, TypeOK
      <4>2. CASE Running[n] = "stop"
        BY <4>2, <3>2, <1>1 DEF Handle, Told, TypeOK
      <4> QED  BY <4>1, <4>2 DEF TypeOK, Run
    <3> QED  BY <1>1, <3>1, <3>3 DEF Underway
  <2>3. CASE i # 1
    <3>1. i - 1 \in 1 .. Len(p) /\ p[i - 1] = Told(Running[n])
      BY <1>2, <2>1, <2>3
    <3>2. \A j \in 1 .. Len(p) : j > i - 1 => p[j] = "QPS"
      BY <1>2, <2>1
    <3>3. Told(Running[n]) # "QPS"
      BY DEF Told
    <3> QED  BY <1>1, <3>1, <3>2, <3>3 DEF Underway
  <2> QED  BY <2>2, <2>3
<1> QED  BY <1>3, <1>4

\* What leaves a node's queue, state and record alone leaves Underway alone.
LEMMA SameUnderway ==
  ASSUME NEW n \in Nodes, UIMsgs'[n] = UIMsgs[n], Running'[n] = Running[n],
         States'[n][n] = States[n][n]
  PROVE  Underway(n)' <=> Underway(n)
BY DEF Underway, Told

-----------------------------------------------------------------------------
(***************************************************************************)
(* The invariant.                                                          *)
(***************************************************************************)

LEMMA InvInit == Init => Inv
<1> SUFFICES ASSUME Init PROVE Inv
  OBVIOUS
<1>1. DownInv /\ MergeInv /\ NetInv /\ up = {}
  BY DEF Init, DownInv, MergeInv, NetInv
<1> QED  BY <1>1, TypeInit DEF Inv

LEMMA DownNext == Inv /\ [Next]_vars => DownInv'
<1> SUFFICES ASSUME Inv, [Next]_vars PROVE DownInv'
  OBVIOUS
<1> USE DEF Inv, DownInv, engine, merge, tables
<1>1. ASSUME NEW n \in Nodes, Boot(n) PROVE DownInv'
  BY <1>1 DEF Boot
<1>2. ASSUME NEW n \in Nodes, Halt(n) PROVE DownInv'
  BY <1>2 DEF Halt, TypeOK
<1>3. ASSUME NEW n \in Nodes, Start(n) \/ Stop(n) PROVE DownInv'
  BY <1>3 DEF Start, Stop, SetRunning, TypeOK
<1>4. ASSUME NEW n \in Nodes, SendState(n) PROVE DownInv'
  <2>1. n \in up
    BY <1>4 DEF SendState
  <2> QED  BY <1>4, <2>1 DEF SendState, SendUI, TypeOK
<1>5. ASSUME NEW n \in Nodes, SendQps(n) PROVE DownInv'
  BY <1>5 DEF SendQps, SendUI, TypeOK
<1>6. ASSUME NEW n \in Nodes, NEW state, NEW cmd, SetColl(n, cmd, state) PROVE DownInv'
  BY <1>6 DEF SetColl, TypeOK
<1>7. ASSUME NEW n \in Nodes, ConsumeOwn(n) PROVE DownInv'
  <2>1. n \in up
    BY <1>7 DEF ConsumeOwn
  <2> QED  BY <1>7, <2>1 DEF ConsumeOwn, TypeOK
<1>8. ASSUME NEW d \in net, Consume(d) \/ Lose(d) PROVE DownInv'
  BY <1>8 DEF Consume, Lose
<1>9. ASSUME NEW n \in Nodes, NEW h \in Nodes,
             NotifyJoin(n, h) \/ NotifyLeave(n, h) \/ Exchange(n, h)
      PROVE  DownInv'
  BY <1>9 DEF NotifyJoin, NotifyLeave, Exchange, TypeOK
<1>10. ASSUME NEW n \in Nodes, MergeBegin(n) PROVE DownInv'
  BY <1>10 DEF MergeBegin, TypeOK
<1>11. ASSUME NEW n \in Nodes, MergeEnd(n) PROVE DownInv'
  BY <1>11 DEF MergeEnd, TypeOK
<1>12. CASE UNCHANGED vars
  BY <1>12 DEF vars
<1> QED  BY <1>1, <1>2, <1>3, <1>4, <1>5, <1>6, <1>7, <1>8, <1>9, <1>10, <1>11,
            <1>12 DEF Next, EngineStep, MergeStep

LEMMA MergeNext == Inv /\ [Next]_vars => MergeInv'
<1> SUFFICES ASSUME Inv, [Next]_vars PROVE MergeInv'
  OBVIOUS
<1> USE DEF Inv, MergeInv, engine, merge, tables
<1>1. ASSUME NEW n \in Nodes, Boot(n) \/ ConsumeOwn(n) PROVE MergeInv'
  BY <1>1 DEF Boot, ConsumeOwn
<1>2. ASSUME NEW n \in Nodes, Halt(n) PROVE MergeInv'
  BY <1>2 DEF Halt, TypeOK
<1>3. ASSUME NEW n \in Nodes, EngineStep(n) PROVE MergeInv'
  BY <1>3 DEF EngineStep, Start, Stop, SetRunning, SendState, SendQps, SetColl
<1>4. ASSUME NEW d \in net, Consume(d) \/ Lose(d) PROVE MergeInv'
  BY <1>4 DEF Consume, Lose
<1>5. ASSUME NEW n \in Nodes, NEW h \in Nodes,
             NotifyJoin(n, h) \/ NotifyLeave(n, h) \/ Exchange(n, h)
      PROVE  MergeInv'
  BY <1>5 DEF NotifyJoin, NotifyLeave, Exchange
<1>6. ASSUME NEW n \in Nodes, MergeBegin(n) PROVE MergeInv'
  BY <1>6 DEF MergeBegin, Mergeable, TypeOK
<1>7. ASSUME NEW n \in Nodes, MergeEnd(n) PROVE MergeInv'
  BY <1>7 DEF MergeEnd, TypeOK
<1>8. CASE UNCHANGED vars
  BY <1>8 DEF vars
<1> QED  BY <1>1, <1>2, <1>3, <1>4, <1>5, <1>6, <1>7, <1>8 DEF Next, MergeStep

LEMMA NetNext == Inv /\ [Next]_vars => NetInv'
<1> SUFFICES ASSUME Inv, [Next]_vars PROVE NetInv'
  OBVIOUS
<1> USE DEF Inv, NetInv, engine, merge, tables
<1>1. ASSUME NEW n \in Nodes, NEW msg, SendUI(n, msg) PROVE NetInv'
  BY <1>1 DEF SendUI
<1>2. ASSUME NEW n \in Nodes, Boot(n) \/ Halt(n) \/ ConsumeOwn(n) \/ MergeStep(n)
      PROVE  NetInv'
  BY <1>2 DEF Boot, Halt, ConsumeOwn, MergeStep, MergeBegin, MergeEnd
<1>3. ASSUME NEW n \in Nodes, EngineStep(n) PROVE NetInv'
  BY <1>1, <1>3 DEF EngineStep, Start, Stop, SetRunning, SendState, SendQps, SetColl
<1>4. ASSUME NEW d \in net, Consume(d) \/ Lose(d) PROVE NetInv'
  BY <1>4 DEF Consume, Lose
<1>5. ASSUME NEW n \in Nodes, NEW h \in Nodes,
             NotifyJoin(n, h) \/ NotifyLeave(n, h) \/ Exchange(n, h)
      PROVE  NetInv'
  BY <1>5 DEF NotifyJoin, NotifyLeave, Exchange
<1>6. CASE UNCHANGED vars
  BY <1>6 DEF vars
<1> QED  BY <1>2, <1>3, <1>4, <1>5, <1>6 DEF Next

\* A step that leaves node m's own row, queue and Engine alone.
LEMMA SameOwn ==
  ASSUME NEW m \in Nodes, OwnInv(m),
         m \in members[m] => m \in members'[m],
         m \in Qps[m] => m \in Qps'[m], Active'[m][m] = Active[m][m],
         chosen'[m] = chosen[m], sending'[m] = sending[m],
         Running'[m] = Running[m], UIMsgs'[m] = UIMsgs[m],
         States'[m][m] = States[m][m]
  PROVE  OwnInv(m)'
BY SameUnderway DEF OwnInv, Told

LEMMA OwnNext == Inv /\ [Next]_vars => (\A m \in up : OwnInv(m))'
<1> SUFFICES ASSUME Inv, [Next]_vars, NEW m \in up' PROVE OwnInv(m)'
  OBVIOUS
<1> USE DEF Inv, engine, merge, tables
<1>0. m \in Nodes
  BY TypeNext DEF TypeOK
<1>1. ASSUME NEW n \in Nodes, Boot(n) PROVE OwnInv(m)'
  <2>1. CASE m = n
    <3>1. /\ Running'[n] = "stop" /\ sending'[n] = "none" /\ chosen'[n] = "on"
          /\ UIMsgs'[n] = <<>>
      BY <1>1 DEF Boot, DownInv
    <3>2. members'[n] = {n} /\ Qps'[n] = {n} /\ States'[n][n] = "stop" /\ Active'[n][n] = "on"
      BY <1>1 DEF Boot, Row, TypeOK
    <3>3. Underway(n)'
      BY <3>1, <3>2 DEF Underway
    <3> QED  BY <2>1, <3>1, <3>2, <3>3 DEF OwnInv
  <2>2. CASE m # n
    <3>1. m \in up
      BY <1>1, <2>2 DEF Boot
    <3> QED  BY <1>0, <1>1, <2>2, <3>1, SameOwn DEF Boot, TypeOK
  <2> QED  BY <2>1, <2>2
<1>2. ASSUME NEW n \in Nodes, Halt(n) PROVE OwnInv(m)'
  <2>1. m \in up /\ m # n
    BY <1>2 DEF Halt
  <2> QED  BY <1>0, <1>2, <2>1, SameOwn DEF Halt, TypeOK
<1>3. ASSUME NEW n \in Nodes, NEW cmd, NEW from, NEW to \in Run, NEW msg \in StateMsgs,
             msg = Told(to), SetRunning(n, cmd, from, to, msg)
      PROVE  OwnInv(m)'
  <2>1. m \in up
    BY <1>3 DEF SetRunning
  <2>2. CASE m = n
    <3>1. Running'[m] = to /\ sending'[m] = msg /\ msg # "none"
      BY <1>3, <2>2 DEF SetRunning, TypeOK, StateMsgs
    <3>2. UNCHANGED <<members, Qps, Active, chosen>>
      BY <1>3 DEF SetRunning
    <3> QED  BY <1>3, <2>1, <3>1, <3>2 DEF OwnInv, Told
  <2>3. CASE m # n
    BY <1>0, <1>3, <2>1, <2>3, SameOwn DEF SetRunning, TypeOK
  <2> QED  BY <2>2, <2>3
<1>4. ASSUME NEW n \in Nodes, SendState(n) PROVE OwnInv(m)'
  <2>1. m \in up
    BY <1>4 DEF SendState
  <2>2. CASE m = n
    <3>1. /\ sending[n] = Told(Running[n])
          /\ sending'[n] = "none"
          /\ UNCHANGED <<members, Qps, Active, chosen, Running>>
          /\ UIMsgs' = [UIMsgs EXCEPT ![n] = Append(@, sending[n])]
      BY <1>4, <2>1, <2>2 DEF SendState, SendUI, OwnInv, TypeOK
    <3>2. Underway(n)'
      BY <3>1, StateSentUnderway
    <3> QED  BY <2>1, <2>2, <3>1, <3>2 DEF OwnInv
  <2>3. CASE m # n
    BY <1>0, <1>4, <2>1, <2>3, SameOwn DEF SendState, SendUI, TypeOK
  <2> QED  BY <2>2, <2>3
<1>5. ASSUME NEW n \in Nodes, SendQps(n) PROVE OwnInv(m)'
  <2>1. m \in up
    BY <1>5 DEF SendQps
  <2>2. CASE m = n
    <3>1. /\ UNCHANGED <<members, Qps, Active, States, chosen, Running, sending>>
          /\ UIMsgs' = [UIMsgs EXCEPT ![n] = Append(@, "QPS")]
      BY <1>5 DEF SendQps, SendUI
    <3>2. Underway(n) => Underway(n)'
      BY <3>1, QpsSentUnderway
    <3> QED  BY <2>1, <2>2, <3>1, <3>2 DEF OwnInv, Told
  <2>3. CASE m # n
    BY <1>0, <1>5, <2>1, <2>3, SameOwn DEF SendQps, SendUI, TypeOK
  <2> QED  BY <2>2, <2>3
<1>6. ASSUME NEW n \in Nodes, NEW state, NEW cmd, SetColl(n, cmd, state) PROVE OwnInv(m)'
  <2>1. m \in up /\ UNCHANGED <<members, Qps, States, Running, sending, UIMsgs>>
    BY <1>6 DEF SetColl
  <2>2. CASE m = n
    <3>1. Active'[m][m] = state /\ chosen'[m] = state
      BY <1>0, <1>6, <2>2 DEF SetColl, TypeOK
    <3>2. Underway(m)' <=> Underway(m)
      BY <1>0, <2>1, SameUnderway
    <3> QED  BY <2>1, <3>1, <3>2 DEF OwnInv, Told
  <2>3. CASE m # n
    BY <1>0, <1>6, <2>1, <2>3, SameOwn DEF SetColl, TypeOK
  <2> QED  BY <2>2, <2>3
<1>7. ASSUME NEW n \in Nodes, ConsumeOwn(n) PROVE OwnInv(m)'
  <2>1. m \in up /\ UNCHANGED <<members, Active, Running, sending, chosen>>
    BY <1>7 DEF ConsumeOwn, Handle
  <2>2. \A k \in Nodes : Qps[k] \subseteq Qps'[k]
    BY <1>7 DEF ConsumeOwn, Handle, TypeOK
  <2>3. CASE m = n
    <3>1. Underway(n) => Underway(n)'
      BY <1>7, HandledUnderway
    <3> QED  BY <1>0, <2>1, <2>2, <2>3, <3>1 DEF OwnInv, Told
  <2>4. CASE m # n
    <3>1. UIMsgs'[m] = UIMsgs[m] /\ States'[m][m] = States[m][m]
      <4>1. Head(UIMsgs[n]) \in Kinds
        BY <1>7 DEF ConsumeOwn, TypeOK
      <4> QED  BY <1>0, <1>7, <2>4, <4>1 DEF ConsumeOwn, Handle, TypeOK, Kinds, StateMsgs
    <3> QED  BY <1>0, <2>1, <2>2, <3>1, SameOwn
  <2> QED  BY <2>3, <2>4
<1>8. ASSUME NEW d \in net, Consume(d) PROVE OwnInv(m)'
  <2>1. m \in up /\ UNCHANGED <<members, Active, Running, sending, chosen, UIMsgs>>
    BY <1>8 DEF Consume, Handle
  <2>2. d[1] \in Nodes /\ d[2] \in Nodes /\ d[3] \in Kinds /\ d[1] # d[2]
    BY DEF TypeOK, NetInv
  <2>3. Qps[m] \subseteq Qps'[m] /\ States'[m][m] = States[m][m]
    <3>1. CASE d[3] = "QPS"
      BY <1>0, <1>8, <2>2, <3>1 DEF Consume, Handle, TypeOK
    <3>2. CASE d[3] = "STARTED"
      BY <1>0, <1>8, <2>2, <3>2 DEF Consume, Handle, TypeOK
    <3>3. CASE d[3] = "STOPPED"
      BY <1>0, <1>8, <2>2, <3>3 DEF Consume, Handle, TypeOK
    <3> QED  BY <2>2, <3>1, <3>2, <3>3 DEF Kinds, StateMsgs
  <2> QED  BY <1>0, <2>1, <2>3, SameOwn
<1>9. ASSUME NEW d \in net, Lose(d) PROVE OwnInv(m)'
  BY <1>0, <1>9, SameOwn DEF Lose
<1>10. ASSUME NEW n \in Nodes, NEW h \in Nodes, NotifyJoin(n, h) PROVE OwnInv(m)'
  <2>1. m \in up /\ UNCHANGED <<Qps, Active, Running, sending, chosen, UIMsgs>>
    BY <1>10 DEF NotifyJoin
  <2>2. members[m] \subseteq members'[m]
    BY <1>0, <1>10 DEF NotifyJoin, TypeOK
  <2>3. ~(m = n /\ m = h)
    BY <1>10, <2>1 DEF NotifyJoin, OwnInv
  <2>4. States'[m][m] = States[m][m]
    BY <1>0, <1>10, <2>3 DEF NotifyJoin, TypeOK
  <2> QED  BY <1>0, <2>1, <2>2, <2>4, SameOwn
<1>11. ASSUME NEW n \in Nodes, NEW h \in Nodes, NotifyLeave(n, h) PROVE OwnInv(m)'
  <2>1. m \in up /\ UNCHANGED <<Active, Running, sending, chosen, UIMsgs>>
    BY <1>11 DEF NotifyLeave
  <2>2. ~(m = n /\ m = h)
    BY <1>11 DEF NotifyLeave
  <2>3. /\ m \in members[m] => m \in members'[m]
        /\ m \in Qps[m] => m \in Qps'[m]
        /\ States'[m][m] = States[m][m]
    BY <1>0, <1>11, <2>2 DEF NotifyLeave, TypeOK
  <2> QED  BY <1>0, <2>1, <2>3, SameOwn
<1>12. ASSUME NEW n \in Nodes, NEW h \in Nodes, Exchange(n, h) PROVE OwnInv(m)'
  BY <1>0, <1>12, SameOwn DEF Exchange
<1>13. ASSUME NEW n \in Nodes, MergeBegin(n) PROVE OwnInv(m)'
  BY <1>0, <1>13, SameOwn DEF MergeBegin
<1>14. ASSUME NEW n \in Nodes, MergeEnd(n) PROVE OwnInv(m)'
  <2> DEFINE hosts == inbox[n].qps \cap mems[n]
  <2>1. m \in up /\ UNCHANGED <<members, Running, sending, chosen, UIMsgs>>
    BY <1>14 DEF MergeEnd
  <2>2. m = n => m \notin hosts
    BY <1>0, <1>14 DEF MergeEnd, MergeInv
  <2>3. /\ m \in Qps[m] => m \in Qps'[m]
        /\ States'[m][m] = States[m][m]
        /\ Active'[m][m] = Active[m][m]
    BY <1>0, <1>14, <2>2 DEF MergeEnd, TypeOK
  <2> QED  BY <1>0, <2>1, <2>3, SameOwn
<1>15. CASE UNCHANGED vars
  BY <1>0, <1>15, SameOwn DEF vars
<1>16. ASSUME NEW n \in Nodes, EngineStep(n) PROVE OwnInv(m)'
  <2>1. Start(n) => OwnInv(m)'
    BY <1>3 DEF Start, Run, StateMsgs, Told
  <2>2. Stop(n) => OwnInv(m)'
    BY <1>3 DEF Stop, Run, StateMsgs, Told
  <2> QED  BY <1>16, <2>1, <2>2, <1>4, <1>5, <1>6 DEF EngineStep
<1> QED  BY <1>1, <1>2, <1>7, <1>8, <1>9, <1>10, <1>11, <1>12, <1>13, <1>14,
            <1>15, <1>16 DEF Next, MergeStep

LEMMA InvHolds == Spec => []Inv
<1>1. Inv /\ [Next]_vars => Inv'
  BY TypeNext, DownNext, MergeNext, NetNext, OwnNext DEF Inv
<1> QED  BY <1>1, InvInit, PTL DEF Spec

-----------------------------------------------------------------------------
\* Every variable of the cluster's state keeps to its type, whatever the nodes
\* exchange.
THEOREM TypeCorrect == Spec => []TypeOK
  BY InvHolds, PTL DEF Inv

\* In a cluster of any size no gossip changes a node's own record: once its own
\* messages are handled it is its Engine's state and its switches, since
\* MergeRemoteState ignores information about the node itself.
THEOREM OwnRecordCorrect == Spec => []OwnRecordAuthoritative
<1>1. Inv => OwnRecordAuthoritative
  <2> SUFFICES ASSUME Inv, NEW n \in up,
                      sending[n] = "none",
                      \A i \in DOMAIN UIMsgs[n] : UIMsgs[n][i] = "QPS"
               PROVE  States[n][n] = Running[n]
    BY DEF Inv, OwnInv, OwnRecordAuthoritative
  <2>1. DOMAIN UIMsgs[n] = 1 .. Len(UIMsgs[n])
    BY DEF Inv, TypeOK
  <2> QED  BY <2>1 DEF Inv, OwnInv, Underway
<1> QED  BY <1>1, InvHolds, PTL

=============================================================================
