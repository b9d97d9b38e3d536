----------------------------- MODULE UIPipeProofs -----------------------------
(***************************************************************************)
(* LocksAreShort and NoDeadlock hold for any numbers of goroutines and     *)
(* sockets and any capacities.                                             *)
(***************************************************************************)
EXTENDS UIPipe, TLAPS

\* Goroutines that use a channel only when they log a failed socket.
Writers == Eventers \cup {Consumer}

\* The strengthening of NoDeadlock: where a goroutine can be while it holds a
\* lock, and where it must hold one.  It makes the order of the locks visible:
\* node lock, ConfigMutex, sockLock, and nothing after sockLock but writing.
Place(p) ==
  /\ sockLock = p => p \in Writers /\ pc[p] \in {"write", "members", "put"}
  /\ pc[p] = "sock" => p \in Writers
  /\ pc[p] = "write" => sockLock = p
  /\ sockLock = p /\ pc[p] \in {"members", "put"} => ~NoBadSocket
  /\ ConfigMutex = p => p \in Eventers /\ pc[p] \in {"sock", "write", "members", "put"}
  /\ nodeLock = p =>
       p \in Eventers /\ pc[p] \in {"newnode", "leave", "sock", "write", "members", "put"}
  /\ p \in Eventers /\ pc[p] \in {"members", "put"} => sockLock = p
  /\ pc[p] \in {"node", "newnode", "leave"} => p \in Eventers
  /\ p = Consumer => pc[p] \in {"idle", "table", "sock", "write", "members", "put", "gone"}
  /\ p = Engine => /\ pc[p] \in {"idle", "members", "table", "put", "putengine", "run", "stop", "gone"}
                   /\ pc[p] = "gone" => closed

Inv == TypeOK /\ (alive => \A p \in Procs : Place(p))

LEMMA InitInv == Init => Inv
<1> SUFFICES ASSUME Init PROVE Inv
  OBVIOUS
<1>1. TypeOK
  <2>1. 0 \in 0 .. UICAP /\ 0 \in 0 .. ENGINECAP
    BY PipeAssumption
  <2> QED  BY <2>1 DEF Init, TypeOK, PC, Holders
<1>2. ASSUME NEW p \in Procs PROVE Place(p)
  BY PipeAssumption DEF Init, Place
<1> QED  BY <1>1, <1>2 DEF Inv

\* A step of p that takes or releases no lock leaves the others in their place.
LEMMA OthersKeepPlace ==
  ASSUME Inv, alive, NEW p \in Procs, NEW l \in PC, Goto(p, l), UNCHANGED <<locks, socket>>,
         closed => closed', NEW q \in Procs \ {p}
  PROVE  Place(q)'
<1>1. pc'[q] = pc[q]
  BY DEF Goto, Inv, TypeOK
<1> QED  BY <1>1 DEF Inv, Place, locks, NoBadSocket

LEMMA TypeInv == TypeOK /\ [Next]_vars => TypeOK'
<1> SUFFICES ASSUME TypeOK, [Next]_vars PROVE TypeOK'
  OBVIOUS
<1> USE PipeAssumption DEF TypeOK, PC, Holders, Goto, ProcessEnds, locks, chans
<1>1. CASE RunOnce \/ OnceEnds
  BY <1>1 DEF RunOnce, OnceEnds, Procs
<1>2. CASE TakeCommand
  BY <1>2 DEF TakeCommand, Procs
<1>3. CASE Exit
  BY <1>3 DEF Exit, Procs
<1>4. CASE TakeMessage
  <2>1. UIMsgs' \in 0 .. UICAP
    BY <1>4 DEF TakeMessage
  <2>2. pc' \in [Procs -> PC] /\ alive' \in BOOLEAN
    BY <1>4 DEF TakeMessage, Procs
  <2> QED  BY <1>4, <2>1, <2>2 DEF TakeMessage
<1>5. CASE ConsumerEnds
  BY <1>5 DEF ConsumerEnds
<1>7. ASSUME NEW p \in Procs,
             \/ BeginSend(p) \/ ClusterState(p) \/ listen(p) \/ BeginRead(p)
             \/ BeginNotifyMsg(p) \/ BeginNotify(p)
      PROVE  TypeOK'
  BY <1>7 DEF BeginSend, ClusterState, listen, BeginRead, BeginNotifyMsg, BeginNotify
<1>8. ASSUME NEW p \in Procs, Work(p) PROVE TypeOK'
  <2>1. CASE Members(p)
    BY <2>1 DEF Members, AfterMembers
  <2>2. CASE Put(p)
    BY <2>2 DEF Put, AfterPut
  <2>3. CASE PutPanics(p)
    BY <2>3 DEF PutPanics
  <2>4. CASE PutEngine(p)
    BY <2>4 DEF PutEngine
  <2>5. CASE Table(p)
    BY <2>5 DEF Table, AfterTable
  <2>6. CASE Notify(p)
    BY <2>6 DEF Notify
  <2>7. CASE LockConfig(p)
    BY <2>7 DEF LockConfig
  <2>8. CASE LockSock(p)
    BY <2>8 DEF LockSock
  <2>9. CASE Unlock(p)
    BY <2>9 DEF Unlock, Unlocked
  <2>10. ASSUME NEW s \in Sockets, Write(p, s) PROVE TypeOK'
    BY <2>10 DEF Write
  <2>11. CASE Stop(p)
    BY <2>11 DEF Stop
  <2> QED  BY <1>8, <2>1, <2>2, <2>3, <2>4, <2>5, <2>6, <2>7, <2>8, <2>9, <2>10, <2>11 DEF Work
<1>9. ASSUME NEW s \in Sockets, ServeWs(s) \/ Disconnect(s) PROVE TypeOK'
  BY <1>9 DEF ServeWs, Disconnect
<1>10. CASE UNCHANGED vars
  BY <1>10 DEF vars
<1> QED  BY <1>1, <1>2, <1>3, <1>4, <1>5, <1>7, <1>8, <1>9, <1>10 DEF Next

\* What a goroutine that has begun something does leaves everyone in place.
LEMMA WorkInv ==
  ASSUME Inv, alive, alive', NEW p \in Procs, Work(p)
  PROVE  \A q \in Procs : Place(q)'
<1> USE PipeAssumption
<1>t. pc \in [Procs -> PC] /\ Place(p)
  BY DEF Inv, TypeOK
<1>1. CASE Members(p)
  <2>1. PICK l \in AfterMembers(p) : Goto(p, l)
    BY <1>1 DEF Members
  <2>2. l \in PC /\ UNCHANGED <<locks, socket>> /\ (closed => closed')
    BY <1>1, <2>1 DEF Members, AfterMembers, PC, chans
  <2>3. pc[p] = "members" /\ pc'[p] = l /\ l \in {"putengine", "put", "table"} /\ nodeLock = NoOne
    BY <1>t, <1>1, <2>1 DEF Members, AfterMembers, Goto
  <2>4. /\ p \in Writers => l = "put"
        /\ p = Engine => l \in {"put", "putengine"}
    BY <2>1 DEF AfterMembers, Writers
  <2>5. UNCHANGED <<closed, NoBadSocket>>
    BY <1>1 DEF Members, chans, NoBadSocket
  <2>6. Place(p)'
    BY <1>t, <2>2, <2>3, <2>4, <2>5 DEF Place, Writers, locks
  <2> QED  BY <2>1, <2>2, <2>6, OthersKeepPlace
<1>2. CASE Put(p)
  <2>1. /\ AfterPut(p) \in PC /\ Goto(p, AfterPut(p))
        /\ UNCHANGED <<locks, socket>> /\ (closed => closed')
    BY <1>2 DEF Put, AfterPut, PC, Inv, TypeOK
  <2>2. pc[p] = "put" /\ pc'[p] = AfterPut(p) /\ UNCHANGED <<closed, NoBadSocket>>
    BY <1>t, <1>2 DEF Put, Goto, NoBadSocket
  <2>3. /\ sockLock = p => AfterPut(p) = "write"
        /\ p \in Eventers => AfterPut(p) = "write"
        /\ p = Consumer => AfterPut(p) \in {"write", "gone"}
        /\ p = Engine => AfterPut(p) \in {"idle", "members", "run", "putengine"}
        /\ sockLock # p => AfterPut(p) \in {"idle", "members", "run", "putengine", "gone"}
    BY <1>t, <2>2 DEF AfterPut, Place, Inv, TypeOK, Writers
  <2>4. Place(p)'
    <3> HIDE DEF AfterPut
    <3> QED  BY <1>t, <2>1, <2>2, <2>3 DEF Place, Writers, locks
  <2> QED  BY <2>1, <2>4, OthersKeepPlace
<1>3. CASE PutPanics(p)
  <2>1. /\ p \in Others /\ "idle" \in PC /\ Goto(p, "idle")
        /\ UNCHANGED <<locks, socket>> /\ (closed => closed')
    BY <1>3 DEF PutPanics, ProcessEnds, PC, chans
  <2>2. Place(p)'
    BY <1>t, <2>1, <1>3 DEF PutPanics, Place, Writers, Goto, locks, NoBadSocket
  <2> QED  BY <2>1, <2>2, OthersKeepPlace
<1>4. CASE PutEngine(p)
  <2>1. "idle" \in PC /\ Goto(p, "idle") /\ UNCHANGED <<locks, socket>> /\ (closed => closed')
    BY <1>4 DEF PutEngine, PC
  <2>2. Place(p)'
    BY <1>t, <1>4 DEF PutEngine, Place, Writers, Goto, locks, NoBadSocket
  <2> QED  BY <2>1, <2>2, OthersKeepPlace
<1>5. CASE Table(p)
  <2>1. /\ AfterTable(p) \in PC /\ Goto(p, AfterTable(p))
        /\ UNCHANGED <<locks, socket>> /\ (closed => closed')
    BY <1>5 DEF Table, AfterTable, PC, chans
  <2>2. Place(p)'
    BY <1>t, <1>5 DEF Table, AfterTable, Procs, Place, Writers, Goto, locks, chans, NoBadSocket
  <2> QED  BY <2>1, <2>2, OthersKeepPlace
<1>6. CASE Notify(p)
  <2>1. ASSUME NEW q \in Procs PROVE Place(q)'
    BY <1>t, <1>6 DEF Inv, Notify, Place, Writers, Goto, chans, NoBadSocket
  <2> QED  BY <2>1
<1>7. CASE LockConfig(p)
  <2>1. ASSUME NEW q \in Procs PROVE Place(q)'
    BY <1>t, <1>7 DEF Inv, LockConfig, Place, Writers, Goto, chans, NoBadSocket
  <2> QED  BY <2>1
<1>8. CASE LockSock(p)
  <2>1. ASSUME NEW q \in Procs PROVE Place(q)'
    BY <1>t, <1>8 DEF Inv, LockSock, Place, Writers, Goto, chans, NoBadSocket
  <2> QED  BY <2>1
<1>9. CASE Unlock(p)
  <2>1. ASSUME NEW q \in Procs PROVE Place(q)'
    BY <1>t, <1>9 DEF Inv, Unlock, Unlocked, Place, Writers, Goto, chans, NoBadSocket
  <2> QED  BY <2>1
<1>10. ASSUME NEW s \in Sockets, Write(p, s) PROVE \A q \in Procs : Place(q)'
  <2>1. CASE LogsError(s)
    <3>1. "members" \in PC /\ Goto(p, "members") /\ UNCHANGED <<locks, socket>> /\ (closed => closed')
      BY <1>10, <2>1 DEF Write, PC, chans
    <3>2. Place(p)'
      BY <1>t, <1>10, <2>1 DEF Write, Place, Writers, Goto, LogsError, locks, chans, NoBadSocket
    <3> QED  BY <3>1, <3>2, OthersKeepPlace
  <2>2. CASE ~LogsError(s)
    BY <1>10, <2>2 DEF Write, Inv, Place, locks, chans, NoBadSocket
  <2> QED  BY <2>1, <2>2
<1>11. CASE Stop(p)
  BY <1>11 DEF Stop, ProcessEnds
<1> QED  BY <1>1, <1>2, <1>3, <1>4, <1>5, <1>6, <1>7, <1>8, <1>9, <1>10, <1>11 DEF Work

LEMMA PlaceInv == Inv /\ [Next]_vars /\ alive' => \A q \in Procs : Place(q)'
<1> SUFFICES ASSUME Inv, [Next]_vars, alive' PROVE \A q \in Procs : Place(q)'
  OBVIOUS
<1> USE PipeAssumption DEF Inv
<1>t. alive /\ pc \in [Procs -> PC]
  BY DEF TypeOK, Next, vars
<1>1. CASE RunOnce \/ OnceEnds
  <2>1. ASSUME NEW q \in Procs PROVE Place(q)'
    BY <1>t, <1>1 DEF RunOnce, OnceEnds, Place, Writers, Goto, locks, chans, NoBadSocket
  <2> QED  BY <2>1
<1>2. CASE TakeCommand
  <2>1. ASSUME NEW q \in Procs PROVE Place(q)'
    BY <1>t, <1>2 DEF TakeCommand, Place, Writers, Goto, locks, NoBadSocket
  <2> QED  BY <2>1
<1>3. CASE Exit
  <2>1. ASSUME NEW q \in Procs PROVE Place(q)'
    BY <1>t, <1>3 DEF Exit, Place, Writers, Goto, locks, NoBadSocket
  <2> QED  BY <2>1
<1>4. CASE TakeMessage
  <2>1. ASSUME NEW q \in Procs PROVE Place(q)'
    BY <1>t, <1>4 DEF TakeMessage, ProcessEnds, Place, Writers, Goto, locks, NoBadSocket
  <2> QED  BY <2>1
<1>5. CASE ConsumerEnds
  BY <1>5 DEF ConsumerEnds, ProcessEnds
<1>6. ASSUME NEW p \in Procs,
             \/ BeginSend(p) \/ ClusterState(p) \/ listen(p) \/ BeginRead(p)
             \/ BeginNotifyMsg(p) \/ BeginNotify(p)
      PROVE  \A q \in Procs : Place(q)'
  <2>1. ASSUME NEW q \in Procs PROVE Place(q)'
    <3>1. CASE BeginNotify(p)
      BY <1>t, <3>1 DEF BeginNotify, Place, Writers, Goto, locks, chans, NoBadSocket
    <3>2. CASE BeginNotifyMsg(p)
      BY <1>t, <3>2 DEF BeginNotifyMsg, Place, Writers, Goto, locks, chans, NoBadSocket
    <3>3. CASE BeginSend(p) \/ ClusterState(p) \/ listen(p) \/ BeginRead(p)
      BY <1>t, <3>3 DEF BeginSend, ClusterState, listen, BeginRead, Place, Writers, Goto, locks, chans, NoBadSocket
    <3> QED  BY <1>6, <3>1, <3>2, <3>3
  <2> QED  BY <2>1
<1>7. ASSUME NEW p \in Procs, Work(p) PROVE \A q \in Procs : Place(q)'
  BY <1>t, <1>7, WorkInv
<1>8. ASSUME NEW s \in Sockets, ServeWs(s) \/ Disconnect(s) PROVE \A q \in Procs : Place(q)'
  <2>1. NoBadSocket' => NoBadSocket
    BY <1>8 DEF ServeWs, Disconnect, NoBadSocket, TypeOK
  <2> QED  BY <1>t, <1>8, <2>1 DEF ServeWs, Disconnect, Place, locks, chans
<1>9. CASE UNCHANGED vars
  BY <1>t, <1>9 DEF vars, Place, locks, chans, NoBadSocket
<1> QED  BY <1>1, <1>2, <1>3, <1>4, <1>5, <1>6, <1>7, <1>8, <1>9 DEF Next

LEMMA InvHolds == Spec => []Inv
<1>1. Inv /\ [Next]_vars => Inv'
  BY TypeInv, PlaceInv DEF Inv
<1> QED  BY <1>1, InitInv, PTL DEF Spec

\* Whatever goroutines there are: without an unexpected socket failure nobody who
\* holds a lock waits for a channel, the members or an earlier lock.
THEOREM LocksAreShortCorrect == Spec => []LocksAreShort
<1>1. Inv => LocksAreShort
  <2> SUFFICES ASSUME Inv, alive, NoBadSocket, NEW p \in Procs
               PROVE  /\ p \in {nodeLock, ConfigMutex, sockLock} =>
                           pc[p] \notin {"put", "putengine", "members", "node", "stop"}
                      /\ p \in {ConfigMutex, sockLock} => pc[p] \notin {"table", "newnode", "leave"}
                      /\ p = sockLock => pc[p] # "sock"
    BY DEF LocksAreShort
  <2> QED  BY DEF Inv, Place, Writers
<1> QED  BY <1>1, InvHolds, PTL

\* If nobody can run, every lock is free, so nobody waits for one; then the
\* consumer is idle and UIMsgs empty and open, so nobody waits with a message, and
\* the Engine is idle with no command to take, or does not take commands.
LEMMA NobodyIsStuck ==
  ASSUME Inv, alive, NoBadSocket, ~ConsumerLost, \A p \in Procs : ~CanRun(p),
         NEW q \in Procs, Busy(q)
  PROVE  InOnce /\ pc[q] = "putengine"
<1> USE PipeAssumption
<1>t. /\ pc \in [Procs -> PC] /\ UIMsgs \in 0 .. UICAP /\ EngineMsgs \in 0 .. ENGINECAP
      /\ {nodeLock, ConfigMutex, sockLock} \subseteq Procs \cup {NoOne}
      /\ \A p \in Procs : Place(p)
  BY DEF Inv, TypeOK, Holders
<1>0. Consumer \in Procs /\ Engine \in Procs
  BY DEF Procs
<1>1. sockLock = NoOne
  <2>1. ASSUME sockLock \in Procs PROVE FALSE
    <3>1. pc[sockLock] = "write"
      BY <1>t, <2>1 DEF Place
    <3> QED  BY <2>1, <3>1 DEF CanRun
  <2> QED  BY <1>t, <2>1
<1>2. \A p \in Procs : pc[p] \notin {"sock", "write"}
  BY <1>1 DEF CanRun
<1>3. ConfigMutex = NoOne
  <2>1. ASSUME ConfigMutex \in Procs PROVE FALSE
    <3>1. Place(ConfigMutex)
      BY <1>t, <2>1
    <3> QED  BY <3>1, <1>1, <1>2, <2>1 DEF Place, Writers
  <2> QED  BY <1>t, <2>1
<1>4. \A p \in Procs : pc[p] \notin {"table", "newnode", "leave"}
  BY <1>3 DEF CanRun
<1>5. nodeLock = NoOne
  <2>1. ASSUME nodeLock \in Procs PROVE FALSE
    <3>1. Place(nodeLock)
      BY <1>t, <2>1
    <3> QED  BY <3>1, <1>1, <1>2, <1>4, <2>1 DEF Place, Writers
  <2> QED  BY <1>t, <2>1
<1>6. \A p \in Procs : pc[p] \notin {"members", "node", "stop"}
  BY <1>5 DEF CanRun
<1>7. pc[Consumer] = "idle"
  <2>1. Place(Consumer)
    BY <1>t, <1>0
  <2> QED  BY <2>1, <1>0, <1>1, <1>2, <1>4, <1>6, PipeAssumption DEF Place, Writers, ConsumerLost
<1>8. UIMsgs = 0 /\ ~closed
  BY <1>0, <1>7, <1>t DEF CanRun
<1>9. \A p \in Procs : pc[p] # "put"
  BY <1>8 DEF CanRun
<1>10. pc[q] = "putengine"
  BY <1>t, <1>2, <1>4, <1>6, <1>9 DEF Busy, PC
<1>11. EngineMsgs = ENGINECAP
  BY <1>t, <1>10 DEF CanRun
<1>12. pc[Engine] # "idle"
  BY <1>0, <1>11 DEF CanRun
<1>13. InOnce
  <2>1. Place(Engine)
    BY <1>t, <1>0
  <2> QED  BY <2>1, <1>0, <1>4, <1>6, <1>8, <1>9, <1>12 DEF Place, InOnce
<1> QED  BY <1>10, <1>13

\* The goroutines of a hitter never all wait for each other unless a socket failed
\* in an unexpected way or the consumer is lost: NotifyLeave may hold three locks
\* at once, and the consumer may be the only one that empties a full UIMsgs,
\* because locks are always taken in one order and nobody who holds one waits for a
\* channel.  Only commands may wait then, for an Engine that executes ONCE.
THEOREM NoDeadlockCorrect == Spec => []NoDeadlock
<1>1. Inv => NoDeadlock
  BY NobodyIsStuck DEF NoDeadlock
<1> QED  BY <1>1, InvHolds, PTL

=============================================================================
