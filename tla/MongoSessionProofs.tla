-------------------------- MODULE MongoSessionProofs --------------------------
(***************************************************************************)
(* Theorems about MongoSession for any workers and databases.              *)
(***************************************************************************)
EXTENDS MongoSession, TLAPS

\* The process starts with every variable of its type.
LEMMA TypeInit == Init => TypeOK
<1> SUFFICES ASSUME Init PROVE TypeOK
  OBVIOUS
<1>1. WHICHDB \in Dbs /\ LiveDB \in SessionRefs /\ server \in [Sessions -> Dbs]
  BY SessionAssumption DEF Init, SessionRefs
<1>2. open \subseteq Sessions /\ readers \subseteq Workers
  BY DEF Init
<1>3. writer \in Workers \cup {Engine, NoOne} /\ epc \in {"idle", "lock", "drain"}
  BY DEF Init
<1>4. wpc \in [Workers -> WorkerPC] /\ wretry \in [Workers -> BOOLEAN]
  BY DEF Init, WorkerPC
<1>5. wses \in [Workers -> SessionRefs] /\ wname \in [Workers -> Dbs]
  BY SessionAssumption DEF Init, SessionRefs
<1>6. stale \in [Workers -> Nat]
  BY DEF Init
<1>7. alive \in BOOLEAN
  BY DEF Init
<1>. QED
  BY <1>1, <1>2, <1>3, <1>4, <1>5, <1>6, <1>7 DEF TypeOK

\* A worker that forgets its session keeps to the types.
LEMMA ForgetType ==
  ASSUME TypeOK, NEW w \in Workers, Forget(w)
  PROVE  /\ wses' \in [Workers -> SessionRefs]
         /\ wname' \in [Workers -> Dbs]
         /\ wretry' \in [Workers -> BOOLEAN]
  BY SessionAssumption DEF Forget, TypeOK, SessionRefs

\* A worker that goes to a place keeps to the types.
LEMMA GotoType ==
  ASSUME TypeOK, NEW w \in Workers, NEW pc \in WorkerPC, Goto(w, pc)
  PROVE  wpc' \in [Workers -> WorkerPC]
  BY DEF Goto, TypeOK

\* The session a dial creates is one of the sessions.
LEMMA UnusedType ==
  ASSUME \E s \in Sessions : Unused(s)
  PROVE  /\ (CHOOSE s \in Sessions : Unused(s)) \in Sessions
         /\ Unused(CHOOSE s \in Sessions : Unused(s))
  OBVIOUS

\* Every step of wrapMongo and DialMongo keeps the types.
LEMMA TypeWorker ==
  ASSUME TypeOK, NEW w \in Workers, WorkerStep(w)
  PROVE  TypeOK'
<1> USE SessionAssumption DEF session, lock, work, WorkerPC
<1>1. CASE Look(w) \/ Relock(w)
  <2>1. wpc' \in [Workers -> WorkerPC]
    BY <1>1, GotoType DEF Look, Relock
  <2>2. readers' \subseteq Workers
    BY <1>1 DEF Look, Relock, TypeOK
  <2>. QED
    BY <1>1, <2>1, <2>2 DEF Look, Relock, TypeOK
<1>2. CASE PickColl(w)
  <2>1. wpc' \in [Workers -> WorkerPC] /\ readers' \subseteq Workers
    BY <1>2, GotoType DEF PickColl, TypeOK
  <2>. QED
    BY <1>2, <2>1 DEF PickColl, TypeOK, CollName
<1>3. CASE Redo(w) \/ GiveUp(w)
  BY <1>3, GotoType, ForgetType DEF Redo, GiveUp, TypeOK
<1>4. CASE Succeed(w)
  <2>1. stale' \in [Workers -> Nat]
    BY <1>4 DEF Succeed, TypeOK
  <2>. QED
    BY <1>4, <2>1, GotoType, ForgetType DEF Succeed, TypeOK
<1>5. CASE TimeOut(w)
  <2>1. /\ wses' \in [Workers -> SessionRefs] /\ wname' \in [Workers -> Dbs]
        /\ wretry' \in [Workers -> BOOLEAN]
    BY <1>5 DEF TimeOut, TypeOK, SessionRefs
  <2>. QED
    BY <1>5, <2>1, GotoType DEF TimeOut, TypeOK
<1>6. CASE Crash(w)
  BY <1>6 DEF Crash, TypeOK
<1>7. CASE LockDial(w)
  BY <1>7, GotoType DEF LockDial, BecomeWriter, TypeOK
<1>8. CASE CloseSession(w)
  BY <1>8, GotoType DEF CloseSession, Dropped, SessionRefs, TypeOK
<1>9. CASE Dial(w)
  <2>1. PICK s \in Sessions : /\ server' = [server EXCEPT ![s] = WHICHDB]
                              /\ open' = open \cup {s}
                              /\ wses' = [wses EXCEPT ![w] = s]
    BY <1>9, UnusedType DEF Dial
  <2>2. wses' \in [Workers -> SessionRefs] /\ server' \in [Sessions -> Dbs]
    BY <2>1 DEF TypeOK, SessionRefs
  <2>. QED
    BY <1>9, <2>1, <2>2, GotoType DEF Dial, TypeOK
<1>10. CASE DialFails(w)
  BY <1>10, GotoType, ForgetType DEF DialFails, Released, TypeOK
<1>11. CASE Install(w)
  <2>1. wpc' \in [Workers -> WorkerPC]
    BY <1>11, GotoType DEF Install, AfterDial
  <2>. QED
    BY <1>11, <2>1, ForgetType DEF Install, Released, TypeOK
<1>. QED
  BY <1>1, <1>2, <1>3, <1>4, <1>5, <1>6, <1>7, <1>8, <1>9, <1>10, <1>11
  DEF WorkerStep, UpdateStep, DialStep

\* Every step of a DB command keeps the types.
LEMMA TypeEngine == TypeOK /\ EngineStep => TypeOK'
<1> SUFFICES ASSUME TypeOK, EngineStep
             PROVE  TypeOK'
  OBVIOUS
<1> USE DEF session, lock, work, TypeOK
<1>1. CASE ChooseDb
  BY <1>1 DEF ChooseDb
<1>2. CASE LockSession
  BY <1>2 DEF LockSession, BecomeWriter
<1>3. CASE DropSession
  BY <1>3 DEF DropSession, Dropped, SessionRefs
<1>. QED
  BY <1>1, <1>2, <1>3 DEF EngineStep

\* Every variable keeps to its type, in particular a session is never confused
\* with a server or a name.
THEOREM TypeCorrect == Spec => []TypeOK
<1>1. TypeOK /\ [Next]_vars => TypeOK'
  <2> SUFFICES ASSUME TypeOK, [Next]_vars
               PROVE  TypeOK'
    OBVIOUS
  <2>1. CASE UNCHANGED vars
    BY <2>1 DEF TypeOK, vars, session, lock, work
  <2>. QED
    BY <2>1, TypeEngine, TypeWorker DEF Next
<1>. QED
  BY <1>1, TypeInit, PTL DEF Spec

-----------------------------------------------------------------------------
(***************************************************************************)
(* DBLock excludes, and that is what keeps the shared session right: while *)
(* a worker dials nobody else reads or writes LiveDB, and a DB command can *)
(* only end, by taking the lock, when no dial is under way.                *)
(***************************************************************************)

\* What a session must satisfy to be, or to become, the shared one.
GoodSession(s) == s \in open /\ (epc = "idle" => server[s] = WHICHDB)

SessionInv ==
  /\ LiveDB # NoSession => GoodSession(LiveDB)
  /\ \A w \in Workers :
        /\ wpc[w] = "install" => wses[w] \in Sessions /\ GoodSession(wses[w])
        /\ wpc[w] \in {"dial", "install"} => LiveDB = NoSession

IInv == TypeOK /\ LockExcludes /\ SessionInv

\* The initial session is open and the chosen one, and nobody holds the lock.
LEMMA InitIInv == Init => LockExcludes /\ SessionInv
<1> SUFFICES ASSUME Init PROVE LockExcludes /\ SessionInv
  OBVIOUS
<1>1. LockExcludes
  BY SessionAssumption DEF Init, LockExcludes, Writing
<1>2. SessionInv
  BY DEF Init, SessionInv, GoodSession
<1>. QED
  BY <1>1, <1>2

\* Only worker w has moved.
OthersStay(w) == \A v \in Workers \ {w} : wpc'[v] = wpc[v] /\ wses'[v] = wses[v]

\* A worker that goes to a place leaves the others where they are.
LEMMA GotoMoves ==
  ASSUME TypeOK, NEW w \in Workers, NEW pc \in WorkerPC, Goto(w, pc)
  PROVE  wpc'[w] = pc /\ \A v \in Workers \ {w} : wpc'[v] = wpc[v]
  BY DEF Goto, TypeOK

\* A worker that forgets its session forgets only its own.
LEMMA ForgetMoves ==
  ASSUME TypeOK, NEW w \in Workers, Forget(w)
  PROVE  \A v \in Workers \ {w} : wses'[v] = wses[v]
  BY DEF Forget, TypeOK

\* The lock's invariant through a step of wrapMongo.
LEMMA LockUpdate ==
  ASSUME TypeOK, LockExcludes, NEW w \in Workers, UpdateStep(w)
  PROVE  LockExcludes'
<1> USE SessionAssumption, GotoMoves DEF WorkerPC, Writing, LockExcludes
<1>1. CASE Look(w) \/ Relock(w)
  <2>1. /\ writer = NoOne /\ UNCHANGED <<writer, epc>>
        /\ wpc'[w] \in {"lock", "name"} /\ wpc[w] \in {"top", "relock"}
        /\ \A v \in Workers \ {w} : wpc'[v] = wpc[v]
        /\ readers' = IF wpc'[w] = "name" THEN readers \cup {w} ELSE readers
    BY <1>1 DEF Look, Relock, CanRead
  <2>2. \A v \in Workers : ~Writing(v)
    BY <2>1
  <2>. QED
    BY <2>1, <2>2
<1>2. CASE PickColl(w)
  <2>1. /\ UNCHANGED <<writer, epc>> /\ readers' = readers \ {w}
        /\ wpc[w] = "name" /\ wpc'[w] = "select"
        /\ \A v \in Workers \ {w} : wpc'[v] = wpc[v]
    BY <1>2 DEF PickColl
  <2>. QED
    BY <2>1
<1>3. CASE Redo(w) \/ Succeed(w) \/ TimeOut(w) \/ GiveUp(w)
  <2>1. /\ UNCHANGED <<readers, writer, epc>>
        /\ wpc[w] = "select" /\ wpc'[w] \in {"top", "lock"}
        /\ \A v \in Workers \ {w} : wpc'[v] = wpc[v]
    BY <1>3 DEF Redo, Succeed, TimeOut, GiveUp, lock
  <2>. QED
    BY <2>1
<1>4. CASE Crash(w)
  BY <1>4 DEF Crash, lock, work
<1>. QED
  BY <1>1, <1>2, <1>3, <1>4 DEF UpdateStep

\* The lock's invariant through a step of DialMongo.
LEMMA LockDialling ==
  ASSUME TypeOK, LockExcludes, NEW w \in Workers, DialStep(w)
  PROVE  LockExcludes'
<1> USE SessionAssumption, GotoMoves DEF WorkerPC, Writing, LockExcludes
<1>1. CASE LockDial(w)
  <2>1. /\ writer = NoOne /\ writer' = w /\ UNCHANGED <<readers, epc>>
        /\ wpc[w] = "lock" /\ wpc'[w] = "drain"
        /\ \A v \in Workers \ {w} : wpc'[v] = wpc[v]
    BY <1>1 DEF LockDial, BecomeWriter
  <2>. QED
    BY <2>1
<1>2. CASE CloseSession(w) \/ Dial(w)
  <2>1. /\ UNCHANGED <<readers, writer, epc>>
        /\ Writing(w) /\ wpc'[w] \in {"dial", "install"}
        /\ \A v \in Workers \ {w} : wpc'[v] = wpc[v]
        /\ readers = {}
    BY <1>2 DEF CloseSession, Dial, CanWrite, lock
  <2>. QED
    BY <2>1
<1>3. CASE DialFails(w) \/ Install(w)
  <2>1. /\ UNCHANGED <<readers, epc>> /\ writer' = NoOne
        /\ Writing(w) /\ wpc'[w] \in {"top", "relock"}
        /\ \A v \in Workers \ {w} : wpc'[v] = wpc[v]
    BY <1>3 DEF DialFails, Install, Released, AfterDial
  <2>2. writer = w /\ epc # "drain" /\ \A v \in Workers \ {w} : ~Writing(v)
    BY <2>1
  <2>. QED
    BY <2>1, <2>2
<1>. QED
  BY <1>1, <1>2, <1>3 DEF DialStep

\* The lock's invariant through a step of a DB command.
LEMMA LockEngine ==
  ASSUME TypeOK, LockExcludes, EngineStep
  PROVE  LockExcludes'
<1> USE SessionAssumption DEF Writing, LockExcludes, work, lock
<1>1. CASE ChooseDb
  BY <1>1 DEF ChooseDb
<1>2. CASE LockSession
  BY <1>2 DEF LockSession, BecomeWriter
<1>3. CASE DropSession
  BY <1>3 DEF DropSession
<1>. QED
  BY <1>1, <1>2, <1>3 DEF EngineStep

\* The session's invariant through a step of a worker.
LEMMA SessionWorker ==
  ASSUME IInv, NEW w \in Workers, WorkerStep(w)
  PROVE  SessionInv'
<1> USE SessionAssumption, GotoMoves, ForgetMoves DEF WorkerPC, Writing, IInv
<1>1. CASE UpdateStep(w)
  <2>1. /\ UNCHANGED <<WHICHDB, LiveDB, server, open, epc>>
        /\ wpc'[w] \notin {"dial", "install"}
    BY <1>1 DEF UpdateStep, Look, Relock, PickColl, Redo, Succeed, TimeOut,
       GiveUp, Crash, session, work
  <2>2. OthersStay(w)
    BY <1>1 DEF UpdateStep, Look, Relock, PickColl, Redo, Succeed, TimeOut,
       GiveUp, Crash, session, work, TypeOK, OthersStay
  <2>. QED
    BY <2>1, <2>2 DEF SessionInv, GoodSession, OthersStay
<1>2. CASE LockDial(w)
  <2>1. UNCHANGED <<WHICHDB, session, epc, wses>> /\ wpc'[w] = "drain" /\ OthersStay(w)
    BY <1>2 DEF LockDial, OthersStay
  <2>. QED
    BY <2>1 DEF SessionInv, GoodSession, session, OthersStay
<1>3. CASE CloseSession(w)
  <2>1. wpc[w] = "drain" /\ wpc'[w] = "dial" /\ LiveDB' = NoSession /\ OthersStay(w)
    BY <1>3 DEF CloseSession, OthersStay, Dropped
  <2>2. \A v \in Workers \ {w} : ~Writing(v)
    BY <2>1 DEF LockExcludes
  <2>. QED
    BY <2>1, <2>2 DEF SessionInv, OthersStay
<1>4. CASE Dial(w)
  <2>1. PICK s \in Sessions : /\ server' = [server EXCEPT ![s] = WHICHDB]
                              /\ open' = open \cup {s}
                              /\ wses' = [wses EXCEPT ![w] = s]
    BY <1>4, UnusedType DEF Dial
  <2>2. /\ UNCHANGED <<WHICHDB, LiveDB, epc>> /\ wpc[w] = "dial"
        /\ wpc'[w] = "install" /\ OthersStay(w)
    BY <1>4, <2>1 DEF Dial, OthersStay, TypeOK
  <2>3. \A v \in Workers \ {w} : ~Writing(v)
    BY <2>2 DEF LockExcludes
  <2>4. wses'[w] = s /\ s \in open' /\ server'[s] = WHICHDB
    BY <2>1 DEF TypeOK
  <2>. QED
    BY <2>2, <2>3, <2>4 DEF SessionInv, GoodSession, OthersStay
<1>5. CASE DialFails(w)
  <2>1. /\ UNCHANGED <<WHICHDB, LiveDB, server, open, epc>> /\ wpc'[w] = "top"
        /\ OthersStay(w)
    BY <1>5 DEF DialFails, OthersStay, session
  <2>. QED
    BY <2>1 DEF SessionInv, GoodSession, OthersStay
<1>6. CASE Install(w)
  <2>1. /\ UNCHANGED <<WHICHDB, server, open, epc>> /\ LiveDB' = wses[w]
        /\ wpc[w] = "install" /\ wpc'[w] \in {"top", "relock"} /\ OthersStay(w)
    BY <1>6 DEF Install, OthersStay, AfterDial
  <2>2. \A v \in Workers \ {w} : ~Writing(v)
    BY <2>1 DEF LockExcludes
  <2>. QED
    BY <2>1, <2>2 DEF SessionInv, GoodSession, OthersStay
<1>. QED
  BY <1>1, <1>2, <1>3, <1>4, <1>5, <1>6 DEF WorkerStep, DialStep

\* The session's invariant through a step of a DB command.  DropSession is the
\* step where the lock matters: no worker is about to install a session that
\* was dialled before WHICHDB changed.
LEMMA SessionEngine ==
  ASSUME IInv, EngineStep
  PROVE  SessionInv'
<1> USE SessionAssumption DEF IInv, SessionInv, GoodSession, session, work
<1>1. CASE ChooseDb \/ LockSession
  BY <1>1 DEF ChooseDb, LockSession
<1>2. CASE DropSession
  <2>1. \A w \in Workers : ~Writing(w)
    BY <1>2 DEF DropSession, LockExcludes
  <2>. QED
    BY <1>2, <2>1 DEF DropSession, Dropped, Writing
<1>. QED
  BY <1>1, <1>2 DEF EngineStep

\* IInv is inductive.
LEMMA StepIInv == IInv /\ [Next]_vars => LockExcludes' /\ SessionInv'
<1> SUFFICES ASSUME IInv, [Next]_vars
             PROVE  LockExcludes' /\ SessionInv'
  OBVIOUS
<1>1. CASE UNCHANGED vars
  BY <1>1 DEF IInv, LockExcludes, SessionInv, Writing, GoodSession, vars, session, lock, work
<1>2. CASE EngineStep
  BY <1>2, LockEngine, SessionEngine DEF IInv
<1>3. ASSUME NEW w \in Workers, WorkerStep(w)
      PROVE  LockExcludes' /\ SessionInv'
  BY <1>3, LockUpdate, LockDialling, SessionWorker DEF IInv, WorkerStep
<1>. QED
  BY <1>1, <1>2, <1>3 DEF Next

\* The invariant holds in every state.
LEMMA IInvHolds == Spec => []IInv
<1>1. IInv /\ [Next]_vars /\ TypeOK' => IInv'
  BY StepIInv DEF IInv
<1>2. Init => IInv
  BY InitIInv, TypeInit DEF IInv
<1>. QED
  BY <1>1, <1>2, TypeCorrect, PTL DEF Spec

\* DBLock is held only by those inside, and a dial excludes the readers, for any
\* number of workers.
THEOREM LockExcludesCorrect == Spec => []LockExcludes
<1>1. IInv => LockExcludes
  BY DEF IInv
<1>. QED
  BY <1>1, IInvHolds, PTL

\* The shared session is never a closed one.
THEOREM LiveIsOpenCorrect == Spec => []LiveIsOpen
<1>1. IInv => LiveIsOpen
  BY DEF IInv, SessionInv, GoodSession, LiveIsOpen
<1>. QED
  BY <1>1, IInvHolds, PTL

\* Between DB commands the shared session belongs to the chosen server.
THEOREM LiveIsChosenCorrect == Spec => []LiveIsChosen
<1>1. IInv => LiveIsChosen
  BY DEF IInv, SessionInv, GoodSession, LiveIsChosen
<1>. QED
  BY <1>1, IInvHolds, PTL

-----------------------------------------------------------------------------
(***************************************************************************)
(* Updates that miss the chosen database: a worker that has made one since *)
(* the last DB command ended has prepared no other one since.              *)
(***************************************************************************)

\* What worker w has prepared goes to the chosen server and database.
Hits(w) ==
  wpc[w] = "select" /\ wses[w] # NoSession => wname[w] = WHICHDB /\ server[wses[w]] = WHICHDB

StaleInv == \A w \in Workers : stale[w] <= 1 /\ (epc = "idle" /\ stale[w] = 1 => Hits(w))

\* Nothing is prepared for worker w after a step that leaves the others, the
\* choice and the sessions alone, and does not count an update.
LEMMA StaleKept ==
  ASSUME StaleInv, NEW w \in Workers, wpc'[w] # "select", UNCHANGED <<WHICHDB, server, epc, stale>>,
         \A v \in Workers \ {w} : UNCHANGED <<wpc[v], wses[v], wname[v]>>
  PROVE  StaleInv'
  BY DEF StaleInv, Hits

\* A worker that forgets what it has prepared forgets nothing of the others.
LEMMA ForgetNames ==
  ASSUME TypeOK, NEW w \in Workers, Forget(w)
  PROVE  \A v \in Workers \ {w} : UNCHANGED <<wses[v], wname[v]>>
  BY DEF Forget, TypeOK

\* StaleInv through a step of a worker.
LEMMA StaleWorker ==
  ASSUME IInv, StaleInv, NEW w \in Workers, WorkerStep(w)
  PROVE  StaleInv'
<1> USE SessionAssumption, GotoMoves, ForgetNames DEF WorkerPC, IInv, session, lock
<1>1. CASE Look(w) \/ Relock(w) \/ LockDial(w) \/ CloseSession(w)
  <2>1. /\ wpc'[w] # "select" /\ UNCHANGED <<WHICHDB, server, epc, stale, wses, wname>>
        /\ \A v \in Workers \ {w} : wpc'[v] = wpc[v]
    BY <1>1 DEF Look, Relock, LockDial, CloseSession
  <2>. QED
    BY <2>1, StaleKept
<1>2. CASE Redo(w) \/ GiveUp(w) \/ DialFails(w) \/ Install(w)
  <2>1. /\ wpc'[w] # "select" /\ UNCHANGED <<WHICHDB, server, epc, stale>>
        /\ \A v \in Workers \ {w} : wpc'[v] = wpc[v]
    BY <1>2 DEF Redo, GiveUp, DialFails, Install, AfterDial
  <2>2. \A v \in Workers \ {w} : UNCHANGED <<wses[v], wname[v]>>
    BY <1>2 DEF Redo, GiveUp, DialFails, Install
  <2>. QED
    BY <2>1, <2>2, StaleKept
<1>3. CASE TimeOut(w)
  <2>1. /\ wpc'[w] # "select" /\ UNCHANGED <<WHICHDB, server, epc, stale>>
        /\ \A v \in Workers \ {w} : wpc'[v] = wpc[v]
    BY <1>3 DEF TimeOut
  <2>2. \A v \in Workers \ {w} : UNCHANGED <<wses[v], wname[v]>>
    BY <1>3 DEF TimeOut, TypeOK
  <2>. QED
    BY <2>1, <2>2, StaleKept
<1>4. CASE Crash(w)
  BY <1>4 DEF Crash, work, StaleInv, Hits
<1>5. CASE PickColl(w)
  <2>1. /\ UNCHANGED <<WHICHDB, LiveDB, server, epc, stale>>
        /\ \A v \in Workers \ {w} : UNCHANGED <<wpc[v], wses[v], wname[v]>>
        /\ wses'[w] = LiveDB /\ wname'[w] = WHICHDB
    BY <1>5 DEF PickColl, CollName, TypeOK
  <2>2. epc = "idle" => Hits(w)'
    BY <2>1 DEF SessionInv, GoodSession, Hits
  <2>. QED
    BY <2>1, <2>2 DEF StaleInv, Hits
<1>6. CASE Succeed(w)
  <2>1. /\ wpc[w] = "select" /\ wpc'[w] = "top" /\ wses[w] # NoSession
        /\ UNCHANGED <<WHICHDB, server, epc>>
        /\ \A v \in Workers \ {w} : UNCHANGED <<wpc[v], wses[v], wname[v], stale[v]>>
    BY <1>6 DEF Succeed, TypeOK
  <2>2. CASE epc = "idle" /\ Strays(w)
    <3>1. stale[w] # 1 /\ stale'[w] = stale[w] + 1
      BY <1>6, <2>1, <2>2 DEF Succeed, StaleInv, Hits, Strays, TypeOK
    <3>2. stale[w] \in Nat /\ stale[w] <= 1
      BY DEF StaleInv, TypeOK
    <3>3. stale'[w] <= 1
      BY <3>1, <3>2
    <3>. QED
      BY <2>1, <3>3 DEF StaleInv, Hits
  <2>3. CASE ~(epc = "idle" /\ Strays(w))
    <3>1. stale' = stale
      BY <1>6, <2>3 DEF Succeed
    <3>. QED
      BY <2>1, <3>1, StaleKept
  <2>. QED
    BY <2>2, <2>3
<1>7. CASE Dial(w)
  <2>1. PICK s \in Sessions : Unused(s) /\ server' = [server EXCEPT ![s] = WHICHDB]
                              /\ wses' = [wses EXCEPT ![w] = s]
    BY <1>7, UnusedType DEF Dial
  <2>2. /\ wpc'[w] # "select" /\ UNCHANGED <<WHICHDB, epc, stale>>
        /\ \A v \in Workers \ {w} : UNCHANGED <<wpc[v], wses[v], wname[v]>>
    BY <1>7, <2>1 DEF Dial, TypeOK
  <2>3. \A v \in Workers \ {w} : wses[v] # s
    BY <2>1 DEF Unused
  <2>4. \A v \in Workers \ {w} : wses[v] # NoSession => server'[wses[v]] = server[wses[v]]
    BY <2>1, <2>3 DEF TypeOK, SessionRefs
  <2>. QED
    BY <2>2, <2>4 DEF StaleInv, Hits
<1>. QED
  BY <1>1, <1>2, <1>3, <1>4, <1>5, <1>6, <1>7 DEF WorkerStep, UpdateStep, DialStep

\* StaleInv through a step of a DB command, whose end forgives everything.
LEMMA StaleEngine ==
  ASSUME TypeOK, StaleInv, EngineStep
  PROVE  StaleInv'
<1>1. CASE ChooseDb \/ LockSession
  BY <1>1 DEF ChooseDb, LockSession, StaleInv
<1>2. CASE DropSession
  <2>1. \A w \in Workers : stale'[w] = 0
    BY <1>2 DEF DropSession
  <2>. QED
    BY <2>1 DEF StaleInv
<1>. QED
  BY <1>1, <1>2 DEF EngineStep

\* After DBSWITCHED a worker makes at most one more update that misses the chosen
\* server or database.
THEOREM AtMostOneStaleUpdateCorrect == Spec => []AtMostOneStaleUpdate
<1>1. Init => StaleInv
  <2> SUFFICES ASSUME Init PROVE StaleInv
    OBVIOUS
  <2>1. ASSUME NEW w \in Workers PROVE stale[w] <= 1 /\ stale[w] # 1
    <3>1. stale[w] = 0
      BY DEF Init
    <3>. QED
      BY <3>1
  <2>. QED
    BY <2>1 DEF StaleInv
<1>2. IInv /\ StaleInv /\ [Next]_vars => StaleInv'
  <2> SUFFICES ASSUME IInv, StaleInv, [Next]_vars
               PROVE  StaleInv'
    OBVIOUS
  <2>1. CASE UNCHANGED vars
    BY <2>1 DEF StaleInv, Hits, vars, session, lock, work
  <2>. QED
    BY <2>1, StaleEngine, StaleWorker DEF Next, IInv
<1>3. StaleInv => AtMostOneStaleUpdate
  BY DEF StaleInv, AtMostOneStaleUpdate
<1>. QED
  BY <1>1, <1>2, <1>3, IInvHolds, PTL DEF Spec

-----------------------------------------------------------------------------
(***************************************************************************)
(* The implementation.  Most steps leave the promise's variables alone:    *)
(* the lock serialises what is left.                                       *)
(***************************************************************************)

\* The shared connection, as the promise knows it.
Shared == IF LiveDB = NoSession THEN NoSession ELSE server[LiveDB]

\* What every worker has prepared.
Targets == [w \in Workers |-> Target(w)]

\* A step of one worker that leaves the sessions' servers alone changes no other
\* worker's target.
LEMMA TargetsOfOthers ==
  ASSUME TypeOK, NEW w \in Workers, UNCHANGED server,
         \A v \in Workers \ {w} : UNCHANGED <<wpc[v], wses[v], wname[v]>>
  PROVE  Targets' = [Targets EXCEPT ![w] = Target(w)']
  BY DEF Targets, Target

\* A worker's step that prepares or finishes nothing and keeps the session.
LEMMA WorkerStutters ==
  ASSUME TypeOK, NEW w \in Workers, UNCHANGED <<WHICHDB, epc, server>>, Shared' = Shared,
         \A v \in Workers \ {w} : UNCHANGED <<wpc[v], wses[v], wname[v]>>,
         Target(w)' = Target(w)
  PROVE  UNCHANGED Promise!vars
<1>1. Targets' = Targets
  BY TargetsOfOthers DEF Targets
<1>. QED
  BY <1>1 DEF Promise!vars, Targets, Shared

\* A worker's step that ends what it has prepared.
LEMMA WorkerFinishes ==
  ASSUME TypeOK, NEW w \in Workers, UNCHANGED <<WHICHDB, epc, server, LiveDB>>,
         \A v \in Workers \ {w} : UNCHANGED <<wpc[v], wses[v], wname[v]>>,
         wpc'[w] # "select"
  PROVE  Promise!Finish(w)
<1>1. Targets' = [Targets EXCEPT ![w] = NoSession]
  BY TargetsOfOthers DEF Target
<1>. QED
  BY <1>1 DEF Promise!Finish, Targets

\* Every step of wrapMongo prepares or finishes an update, or stutters.
LEMMA UpdateImplements ==
  ASSUME IInv, NEW w \in Workers, UpdateStep(w)
  PROVE  Promise!Prepare(w) \/ Promise!Finish(w) \/ UNCHANGED Promise!vars
<1> USE SessionAssumption, GotoMoves, ForgetNames DEF WorkerPC, IInv, session, lock
<1>1. CASE Look(w) \/ Relock(w)
  <2>1. /\ wpc[w] # "select" /\ wpc'[w] # "select" /\ UNCHANGED <<WHICHDB, server, epc, LiveDB, wses, wname>>
        /\ \A v \in Workers \ {w} : wpc'[v] = wpc[v]
    BY <1>1 DEF Look, Relock
  <2>. QED
    BY <2>1, WorkerStutters DEF Shared, Target
<1>2. CASE Redo(w) \/ Succeed(w) \/ GiveUp(w)
  <2>1. /\ wpc'[w] # "select" /\ UNCHANGED <<WHICHDB, server, epc, LiveDB>>
        /\ \A v \in Workers \ {w} : UNCHANGED <<wpc[v], wses[v], wname[v]>>
    BY <1>2 DEF Redo, Succeed, GiveUp
  <2>. QED
    BY <2>1, WorkerFinishes
<1>3. CASE TimeOut(w)
  <2>1. /\ wpc'[w] # "select" /\ UNCHANGED <<WHICHDB, server, epc, LiveDB>>
        /\ \A v \in Workers \ {w} : UNCHANGED <<wpc[v], wses[v], wname[v]>>
    BY <1>3 DEF TimeOut, TypeOK
  <2>. QED
    BY <2>1, WorkerFinishes
<1>4. CASE Crash(w)
  BY <1>4 DEF Crash, work, Promise!vars, Target
<1>5. CASE PickColl(w)
  <2>1. /\ UNCHANGED <<WHICHDB, server, epc, LiveDB>>
        /\ \A v \in Workers \ {w} : UNCHANGED <<wpc[v], wses[v], wname[v]>>
        /\ wpc[w] = "name" /\ wpc'[w] = "select" /\ wses'[w] = LiveDB /\ wname'[w] = WHICHDB
    BY <1>5 DEF PickColl, CollName, TypeOK
  <2>2. CASE LiveDB = NoSession
    BY <2>1, <2>2, WorkerStutters DEF Shared, Target
  <2>3. CASE LiveDB # NoSession
    <3>1. LiveDB \in Sessions /\ server[LiveDB] \in Dbs
      BY <2>3 DEF TypeOK, SessionRefs
    <3>2. Targets' = [Targets EXCEPT ![w] = <<server[LiveDB], WHICHDB>>]
      BY <2>1, <2>3, TargetsOfOthers DEF Target
    <3>3. Target(w) = NoSession
      BY <2>1 DEF Target
    <3>. QED
      BY <2>1, <2>3, <3>1, <3>2, <3>3 DEF Promise!Prepare, Targets
  <2>. QED
    BY <2>2, <2>3
<1>. QED
  BY <1>1, <1>2, <1>3, <1>4, <1>5 DEF UpdateStep

\* Every step of DialMongo connects, disconnects or stutters.
LEMMA DialImplements ==
  ASSUME IInv, NEW w \in Workers, DialStep(w)
  PROVE  Promise!Connect \/ Promise!Disconnect \/ UNCHANGED Promise!vars
<1> USE SessionAssumption, GotoMoves, ForgetNames DEF WorkerPC, IInv, session, lock
<1>1. CASE LockDial(w)
  <2>1. /\ wpc[w] # "select" /\ wpc'[w] # "select" /\ UNCHANGED <<WHICHDB, server, epc, LiveDB, wses, wname>>
        /\ \A v \in Workers \ {w} : wpc'[v] = wpc[v]
    BY <1>1 DEF LockDial
  <2>. QED
    BY <2>1, WorkerStutters DEF Shared, Target
<1>2. CASE CloseSession(w)
  <2>1. /\ wpc[w] # "select" /\ wpc'[w] # "select" /\ UNCHANGED <<WHICHDB, server, epc, wses, wname>>
        /\ \A v \in Workers \ {w} : wpc'[v] = wpc[v]
        /\ LiveDB' = NoSession
    BY <1>2 DEF CloseSession, Dropped
  <2>2. Targets' = Targets
    BY <2>1, TargetsOfOthers DEF Targets, Target
  <2>. QED
    BY <2>1, <2>2 DEF Promise!Disconnect, Targets
<1>3. CASE Dial(w)
  <2>1. PICK s \in Sessions : Unused(s) /\ server' = [server EXCEPT ![s] = WHICHDB]
                              /\ wses' = [wses EXCEPT ![w] = s]
    BY <1>3, UnusedType DEF Dial
  <2>2. /\ wpc[w] = "dial" /\ wpc'[w] = "install" /\ UNCHANGED <<WHICHDB, epc, LiveDB>>
        /\ \A v \in Workers \ {w} : UNCHANGED <<wpc[v], wses[v], wname[v]>>
    BY <1>3, <2>1 DEF Dial, TypeOK
  <2>3. \A v \in Workers \ {w} : wses[v] # s
    BY <2>1 DEF Unused
  <2>4. \A v \in Workers \ {w} : wses[v] # NoSession => server'[wses[v]] = server[wses[v]]
    BY <2>1, <2>3 DEF TypeOK, SessionRefs
  <2>5. \A v \in Workers : Target(v)' = Target(v)
    BY <2>2, <2>4 DEF Target
  <2>6. LiveDB = NoSession
    BY <2>2 DEF SessionInv
  <2>. QED
    BY <2>2, <2>5, <2>6 DEF Promise!vars
<1>4. CASE DialFails(w)
  <2>1. /\ wpc[w] # "select" /\ wpc'[w] # "select" /\ UNCHANGED <<WHICHDB, server, epc, LiveDB>>
        /\ \A v \in Workers \ {w} : UNCHANGED <<wpc[v], wses[v], wname[v]>>
    BY <1>4 DEF DialFails
  <2>. QED
    BY <2>1, WorkerStutters DEF Shared, Target
<1>5. CASE Install(w)
  <2>1. /\ wpc[w] = "install" /\ wpc'[w] # "select" /\ UNCHANGED <<WHICHDB, server, epc>>
        /\ \A v \in Workers \ {w} : UNCHANGED <<wpc[v], wses[v], wname[v]>>
        /\ LiveDB' = wses[w]
    BY <1>5 DEF Install, AfterDial
  <2>2. /\ LiveDB = NoSession /\ wses[w] \in Sessions
        /\ epc = "idle" => server[wses[w]] = WHICHDB
    BY <2>1 DEF SessionInv, GoodSession
  <2>3. Targets' = Targets
    BY <2>1, TargetsOfOthers DEF Targets, Target
  <2>4. server[wses[w]] \in Dbs
    BY <2>2 DEF TypeOK
  <2>5. wses[w] # NoSession
    BY <2>2
  <2>. QED
    BY <2>1, <2>2, <2>3, <2>4, <2>5 DEF Promise!Connect, Targets
<1>. QED
  BY <1>1, <1>2, <1>3, <1>4, <1>5 DEF DialStep

\* A DB command switches and settles.
LEMMA EngineImplements ==
  ASSUME TypeOK, EngineStep
  PROVE  Promise!Switch \/ Promise!Settle \/ UNCHANGED Promise!vars
<1> USE DEF session, work, Target
<1>1. CASE ChooseDb
  BY <1>1 DEF ChooseDb, Promise!Switch
<1>2. CASE LockSession
  BY <1>2 DEF LockSession, Promise!vars
<1>3. CASE DropSession
  BY <1>3 DEF DropSession, Dropped, Promise!Settle
<1>. QED
  BY <1>1, <1>2, <1>3 DEF EngineStep

\* The sessions keep the promise of SessionPromise: what is connected or prepared
\* between DB commands goes to the chosen server and database.
THEOREM KeepsPromiseCorrect == Spec => KeepsPromise
<1>1. Init => Promise!Init
  BY SessionAssumption DEF Init, Promise!Init, Target
<1>2. IInv /\ [Next]_vars => [Promise!Next]_(Promise!vars)
  <2> SUFFICES ASSUME IInv, [Next]_vars
               PROVE  Promise!Next \/ UNCHANGED Promise!vars
    OBVIOUS
  <2>1. CASE UNCHANGED vars
    BY <2>1 DEF vars, session, work, Promise!vars, Target
  <2>2. CASE EngineStep
    BY <2>2, EngineImplements DEF Promise!Next, IInv
  <2>3. ASSUME NEW w \in Workers, WorkerStep(w)
        PROVE  Promise!Next \/ UNCHANGED Promise!vars
    BY <2>3, UpdateImplements, DialImplements DEF WorkerStep, Promise!Next
  <2>. QED
    BY <2>1, <2>2, <2>3 DEF Next
<1>. QED
  BY <1>1, <1>2, IInvHolds, PTL DEF Spec, KeepsPromise, Promise!Spec

=============================================================================
