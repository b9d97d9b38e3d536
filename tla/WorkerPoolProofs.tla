--------------------------- MODULE WorkerPoolProofs ---------------------------
(***************************************************************************)
(* Theorems about WorkerPool for any finite set of workers, any feeders,   *)
(* collections, commands and targets.                                      *)
(***************************************************************************)
EXTENDS WorkerPool, FiniteSetTheorems, TLAPS

-----------------------------------------------------------------------------
(***************************************************************************)
(* Type correctness.                                                       *)
(***************************************************************************)

\* The next position in LogOrder is a position in LogOrder.
LEMMA NextCollType == 1 \in Colls /\ \A c \in Colls : NextColl(c) \in Colls
  BY PoolAssumption DEF Colls, NextColl

\* The channel MakeTasks installs is one of the channels.
LEMMA FreshType ==
  ASSUME \E c \in Chans : Fresh(c)
  PROVE  (CHOOSE c \in Chans : Fresh(c)) \in Chans
  OBVIOUS

\* Every step of the Engine's commands keeps the types.
LEMMA TypeEngine == TypeOK /\ (EngineCommand \/ OnceDone) => TypeOK'
<1> SUFFICES ASSUME TypeOK, EngineCommand \/ OnceDone
             PROVE  TypeOK'
  OBVIOUS
<1> USE PoolAssumption DEF TypeOK, vars, shared, runner, worker, NotLate,
        RunnerGoto, AdjustIfRunning, Runners, RunnerPC
<1>1. CASE Start
  BY <1>1 DEF Start, Receive
<1>2. CASE Stop
  BY <1>2 DEF Stop
<1>3. CASE Once
  BY <1>3 DEF Once
<1>4. CASE Procs
  BY <1>4 DEF Procs
<1>5. CASE TargetQps
  BY <1>5 DEF TargetQps
<1>6. CASE Exit
  <2>1. CASE UNCHANGED <<Running, late>>
    BY <1>6, <2>1 DEF Exit
  <2>2. CASE Running' = FALSE /\ late' = NotLate
    BY <1>6, <2>2 DEF Exit
  <2>. QED
    BY <1>6, <2>1, <2>2 DEF Exit
<1>7. CASE OnceDone
  BY <1>7 DEF OnceDone
<1>8. ASSUME NEW c \in Colls, NEW state \in BOOLEAN, SetColl(c, state)
      PROVE  TypeOK'
  BY <1>8 DEF SetColl
<1>. QED
  BY <1>1, <1>2, <1>3, <1>4, <1>5, <1>6, <1>7, <1>8 DEF EngineCommand

\* Every step of MultiRunLogs and AdjustProcs keeps the types.
LEMMA TypeRunner ==
  ASSUME TypeOK, NEW r \in Runners,
         RunnerStep(r) \/ (r \in Feeders /\ FeederLoop(r))
  PROVE  TypeOK'
<1> USE PoolAssumption DEF TypeOK, shared, runner, worker, RunnerGoto, RunnerPC,
        ChanRefs, CloseChannel
<1>1. CASE FeederLoop(r)
  BY <1>1 DEF FeederLoop
<1>2. CASE CloseOldTasks(r)
  BY <1>2 DEF CloseOldTasks
<1>3. CASE MakeTasks(r)
  BY <1>3, FreshType DEF MakeTasks
<1>4. CASE NeedMore(r)
  BY <1>4 DEF NeedMore
<1>5. CASE Grow(r)
  BY <1>5 DEF Grow, WorkerPC
<1>6. CASE AdjustDone(r)
  BY <1>6, NextCollType DEF AdjustDone
<1>7. CASE Feed(r)
  BY <1>7, NextCollType DEF Feed
<1>8. CASE CheckRunning(r)
  BY <1>8 DEF CheckRunning
<1>9. CASE ZeroProcs(r)
  BY <1>9 DEF ZeroProcs
<1>10. CASE PickTasks(r)
  BY <1>10 DEF PickTasks
<1>11. CASE SendPanics(r)
  BY <1>11 DEF SendPanics
<1>. QED
  BY <1>1, <1>2, <1>3, <1>4, <1>5, <1>6, <1>7, <1>8, <1>9, <1>10, <1>11
  DEF RunnerStep

\* Wherever a worker goes next, its place has the right type.
LEMMA WorkerMoveType ==
  ASSUME TypeOK, NEW w \in Workers,
         \/ \E pc \in WorkerPC : WorkerGoto(w, pc)
         \/ NextItem(w) \/ PassCount(w) \/ Abort(w)
  PROVE  wpc' \in [Workers -> WorkerPC] /\ wsite' \in [Workers -> {"file", "item"}]
<1>1. CASE \E pc \in WorkerPC : WorkerGoto(w, pc)
  BY <1>1 DEF WorkerGoto, TypeOK
<1>2. CASE NextItem(w)
  BY <1>1, <1>2 DEF NextItem, NextFile, CallAmDone, TypeOK, WorkerPC
<1>3. CASE Abort(w)
  BY <1>1, <1>3 DEF Abort, WorkerPC
<1>4. CASE PassCount(w)
  BY <1>1, <1>2, <1>4 DEF PassCount, WorkerPC
<1>. QED
  BY <1>1, <1>2, <1>3, <1>4

\* Every step of RunLogs keeps the types.
LEMMA TypeWorker ==
  ASSUME TypeOK, NEW w \in Workers, WorkerStep(w)
  PROVE  TypeOK'
<1> USE PoolAssumption DEF TypeOK, shared, runner, worker, WorkerPC,
        ChanRefs, CloseChannel, Uncount
<1>1. CASE ReadTasks(w)
  BY <1>1 DEF ReadTasks, WorkerGoto
<1>2. CASE RecvClosed(w)
  BY <1>2 DEF RecvClosed, WorkerGoto
<1>3. CASE AmDone(w)
  BY <1>3 DEF AmDone, WorkerGoto
<1>4. CASE ZeroCount(w)
  BY <1>4 DEF ZeroCount, WorkerGoto
<1>5. CASE CloseTasks(w)
  BY <1>5, WorkerMoveType DEF CloseTasks
<1>6. CASE CheckCount(w)
  <2>1. \/ \E pc \in WorkerPC : WorkerGoto(w, pc)
        \/ PassCount(w)
    BY <1>6 DEF CheckCount
  <2>2. wnp' \in [Workers -> Int]
    BY <1>6 DEF CheckCount
  <2>. QED
    BY <1>6, <2>1, <2>2, WorkerMoveType DEF CheckCount
<1>7. CASE CompareAndSwap(w)
  <2>1. Abort(w) \/ PassCount(w)
    BY <1>7 DEF CompareAndSwap
  <2>2. numprocs' \in Int
    BY <1>7 DEF CompareAndSwap
  <2>. QED
    BY <1>7, <2>1, <2>2, WorkerMoveType DEF CompareAndSwap
<1>8. CASE CheckActive(w)
  BY <1>8, WorkerMoveType DEF CheckActive, NextItem
<1>9. CASE Update(w)
  <2>1. late' \in [Workers -> [Colls -> Nat]]
    BY <1>9 DEF Update
  <2>. QED
    BY <1>9, <2>1, WorkerMoveType DEF Update
<1>10. CASE NoUpdate(w)
  BY <1>10, WorkerMoveType DEF NoUpdate
<1>11. CASE ExitRunLogs(w)
  BY <1>11 DEF ExitRunLogs, WorkerGoto
<1>. QED
  BY <1>1, <1>2, <1>3, <1>4, <1>5, <1>6, <1>7, <1>8, <1>9, <1>10, <1>11
  DEF WorkerStep

\* A task handed over keeps the types.
LEMMA TypeHandoff ==
  ASSUME TypeOK, NEW r \in Runners, NEW w \in Workers, Handoff(r, w)
  PROVE  TypeOK'
<1>1. NextItem(w) \/ \E pc \in WorkerPC : WorkerGoto(w, pc)
  BY DEF Handoff, NextItem, WorkerPC
<1>2. wpc' \in [Workers -> WorkerPC] /\ wsite' \in [Workers -> {"file", "item"}]
  BY <1>1, WorkerMoveType
<1>3. rcoll' \in [Runners -> Colls] /\ wcoll' \in [Workers -> Colls]
  BY NextCollType DEF Handoff, TypeOK
<1>4. rpc' \in [Runners -> RunnerPC]
  BY DEF Handoff, TypeOK, RunnerGoto, RunnerPC
<1>5. rch' \in [Runners -> ChanRefs] /\ wch' \in [Workers -> ChanRefs]
  BY DEF Handoff, TypeOK, ChanRefs
<1>. QED
  BY <1>2, <1>3, <1>4, <1>5 DEF Handoff, TypeOK, shared

\* The initial values have their types.
LEMMA TypeInit == Init => TypeOK
<1> SUFFICES ASSUME Init PROVE TypeOK
  OBVIOUS
<1>1. rpc \in [Runners -> RunnerPC]
  BY DEF Init, RunnerPC
<1>2. late \in [Workers -> [Colls -> Nat]]
  BY DEF Init
<1>3. /\ rcoll \in [Runners -> Colls] /\ wcoll \in [Workers -> Colls]
      /\ Active \in [Colls -> BOOLEAN]
  BY NextCollType DEF Init
<1>4. rch \in [Runners -> ChanRefs] /\ wch \in [Workers -> ChanRefs]
  BY DEF Init, ChanRefs
<1>5. wpc \in [Workers -> WorkerPC]
  BY DEF Init, WorkerPC
<1>6. wsite \in [Workers -> {"file", "item"}] /\ wnp \in [Workers -> Int]
  BY DEF Init
<1>7. Running \in BOOLEAN /\ ecmd \in {"none", "ONCE", "ADJUST"}
  BY DEF Init
<1>8. PROCS \in Int /\ numprocs \in Int
  BY DEF Init
<1>9. tasks \in ChanRefs
  BY DEF Init, ChanRefs
<1>10. closed \subseteq Chans
  BY DEF Init
<1>. QED
  BY <1>1, <1>2, <1>3, <1>4, <1>5, <1>6, <1>7, <1>8, <1>9, <1>10 DEF TypeOK

\* Every variable of the pool keeps to its type in every run of the process.
THEOREM TypeCorrect == Spec => []TypeOK
<1>1. TypeOK /\ [Next]_vars => TypeOK'
  <2> SUFFICES ASSUME TypeOK, [Next]_vars
               PROVE  TypeOK'
    OBVIOUS
  <2>1. CASE UNCHANGED vars
    BY <2>1 DEF TypeOK, vars, shared, runner, worker
  <2>2. CASE Next
    BY <2>2, TypeEngine, TypeRunner, TypeWorker, TypeHandoff DEF Next, Runners
  <2>. QED
    BY <2>1, <2>2
<1>. QED
  BY <1>1, TypeInit, PTL DEF Spec

-----------------------------------------------------------------------------
(***************************************************************************)
(* The count never overstates.  CountNeverOverstates is inductive together *)
(* with TypeOK: every step that raises numprocs by one also adds a worker  *)
(* to Counted, every step that takes a worker out of Counted lowers        *)
(* numprocs by at least one, and a reset sets numprocs to zero.            *)
(***************************************************************************)

\* A step of worker w, or the start of w, leaves the other workers alone.
OthersStay(w) ==
  \A v \in Workers \ {w} : wpc'[v] = wpc[v] /\ wsite'[v] = wsite[v]

\* Wherever a worker goes next, the others stay and its own place is known.
LEMMA WorkerMoves ==
  ASSUME TypeOK, NEW w \in Workers
  PROVE  /\ \A pc \in WorkerPC : WorkerGoto(w, pc) => OthersStay(w) /\ wpc'[w] = pc
         /\ NextItem(w) => OthersStay(w) /\ wpc'[w] \in {"amdone", "top"}
         /\ PassCount(w) => OthersStay(w) /\ wpc'[w] \in {"amdone", "top", "active"}
         /\ Abort(w) => OthersStay(w) /\ wpc'[w] = IF wsite[w] = "item" THEN "gone" ELSE "exit"
<1>1. ASSUME NEW pc \in WorkerPC, WorkerGoto(w, pc)
      PROVE  OthersStay(w) /\ wpc'[w] = pc
  BY <1>1 DEF WorkerGoto, OthersStay, TypeOK
<1>2. ASSUME NextItem(w)
      PROVE  OthersStay(w) /\ wpc'[w] \in {"amdone", "top"}
  <2>1. CASE CallAmDone(w, "item") \/ CallAmDone(w, "file")
    BY <2>1 DEF CallAmDone, OthersStay, TypeOK
  <2>2. CASE WorkerGoto(w, "top")
    BY <2>2, <1>1 DEF WorkerPC
  <2>. QED
    BY <1>2, <2>1, <2>2 DEF NextItem, NextFile
<1>3. ASSUME PassCount(w)
      PROVE  OthersStay(w) /\ wpc'[w] \in {"amdone", "top", "active"}
  BY <1>1, <1>2, <1>3 DEF PassCount, WorkerPC
<1>4. ASSUME Abort(w)
      PROVE  OthersStay(w) /\ wpc'[w] = IF wsite[w] = "item" THEN "gone" ELSE "exit"
  BY <1>1, <1>4 DEF Abort, WorkerPC
<1>. QED
  BY <1>1, <1>2, <1>3, <1>4

\* The counted workers are finitely many, in this state and in the next.
LEMMA CountedFinite ==
  /\ IsFiniteSet(Counted) /\ Cardinality(Counted) \in Nat
  /\ IsFiniteSet(Counted') /\ Cardinality(Counted') \in Nat
<1>1. Counted \in SUBSET Workers /\ Counted' \in SUBSET Workers
  BY DEF Counted, Live
<1>. QED
  BY <1>1, FS_Subset, FS_CardinalityType, PoolAssumption

\* A step that only moves w, to a place where it is counted, loses nobody.
LEMMA NobodyLost ==
  ASSUME TypeOK, NEW w \in Workers, OthersStay(w), wpc'[w] \notin {"gone", "close"}
  PROVE  Cardinality(Counted) <= Cardinality(Counted')
<1>1. Counted \in SUBSET Counted'
  BY DEF Counted, Live, Discounted, OthersStay
<1>. QED
  BY <1>1, CountedFinite, FS_Subset

\* A step that only moves w loses at most w.
LEMMA OneLost ==
  ASSUME TypeOK, NEW w \in Workers, OthersStay(w)
  PROVE  Cardinality(Counted) - 1 <= Cardinality(Counted')
<1>1. Counted \ {w} \in SUBSET Counted'
  BY DEF Counted, Live, Discounted, OthersStay
<1>2. Cardinality(Counted \ {w}) <= Cardinality(Counted')
  BY <1>1, CountedFinite, FS_Subset
<1>3. Cardinality(Counted \ {w}) \in {Cardinality(Counted) - 1, Cardinality(Counted)}
  BY CountedFinite, FS_RemoveElement
<1>. QED
  BY <1>2, <1>3, CountedFinite

\* The start of w gains one.
LEMMA OneGained ==
  ASSUME TypeOK, NEW w \in Workers \ Live, OthersStay(w), wpc'[w] = "top"
  PROVE  Cardinality(Counted) + 1 <= Cardinality(Counted')
<1>1. Counted \cup {w} \in SUBSET Counted' /\ w \notin Counted
  BY DEF Counted, Live, Discounted, OthersStay
<1>2. Cardinality(Counted \cup {w}) <= Cardinality(Counted')
  BY <1>1, CountedFinite, FS_Subset
<1>3. Cardinality(Counted \cup {w}) = Cardinality(Counted) + 1
  BY <1>1, CountedFinite, FS_AddElement
<1>. QED
  BY <1>2, <1>3

\* A step that moves no worker counts the same ones.
LEMMA SameCounted ==
  UNCHANGED <<wpc, wsite>> => Cardinality(Counted') = Cardinality(Counted)
  BY DEF Counted, Live, Discounted

\* The commands change neither the count nor the workers.
LEMMA CountEngine ==
  ASSUME TypeOK, CountNeverOverstates, EngineCommand \/ OnceDone
  PROVE  CountNeverOverstates'
<1>1. UNCHANGED <<numprocs, wpc, wsite>>
  BY DEF EngineCommand, Start, Stop, Once, Procs, TargetQps, Exit, SetColl,
         OnceDone, shared, worker
<1>. QED
  BY <1>1, SameCounted DEF CountNeverOverstates

\* Of a runner's steps only Grow and ZeroProcs change the count.
LEMMA CountRunner ==
  ASSUME TypeOK, CountNeverOverstates, NEW r \in Runners,
         RunnerStep(r) \/ (r \in Feeders /\ FeederLoop(r))
  PROVE  CountNeverOverstates'
<1>1. CASE Grow(r)
  <2>1. PICK w \in Workers \ Live : wpc' = [wpc EXCEPT ![w] = "top"]
    BY <1>1 DEF Grow
  <2>2. OthersStay(w) /\ wpc'[w] = "top" /\ numprocs' = numprocs + 1
    BY <1>1, <2>1 DEF Grow, OthersStay, TypeOK
  <2>. QED
    BY <2>2, OneGained, CountedFinite DEF CountNeverOverstates, TypeOK
<1>2. CASE ZeroProcs(r)
  BY <1>2, CountedFinite DEF ZeroProcs, CountNeverOverstates
<1>3. CASE ~Grow(r) /\ ~ZeroProcs(r)
  <2>1. UNCHANGED <<numprocs, wpc, wsite>>
    BY <1>3 DEF RunnerStep, FeederLoop, CloseOldTasks, MakeTasks, NeedMore,
       AdjustDone, Feed, CheckRunning, PickTasks, SendPanics, shared, worker
  <2>. QED
    BY <2>1, SameCounted DEF CountNeverOverstates
<1>. QED
  BY <1>1, <1>2, <1>3

\* A worker that leaves has been subtracted, or is about to leave uncounted.
LEMMA CountWorker ==
  ASSUME TypeOK, CountNeverOverstates, NEW w \in Workers, WorkerStep(w)
  PROVE  CountNeverOverstates'
<1>0. numprocs \in Int
  BY DEF TypeOK
<1> USE <1>0, CountedFinite, WorkerMoves DEF CountNeverOverstates, WorkerPC
<1>1. CASE RecvClosed(w) \/ ExitRunLogs(w)
  <2>1. OthersStay(w) /\ numprocs' = numprocs - 1
    BY <1>1 DEF RecvClosed, ExitRunLogs, Uncount
  <2>. QED
    BY <2>1, OneLost
<1>2. CASE ZeroCount(w)
  BY <1>2 DEF ZeroCount
<1>3. CASE CloseTasks(w)
  <2>1. CASE wsite[w] = "item"
    <3>1. OthersStay(w) /\ wpc[w] = "close" /\ UNCHANGED numprocs
      BY <1>3 DEF CloseTasks, shared
    <3>2. Counted \in SUBSET Counted'
      BY <2>1, <3>1 DEF Counted, Live, Discounted, OthersStay
    <3>. QED
      BY <3>1, <3>2, FS_Subset
  <2>2. CASE wsite[w] # "item"
    <3>1. OthersStay(w) /\ wpc'[w] = "exit" /\ UNCHANGED numprocs
      BY <1>3, <2>2 DEF CloseTasks, shared
    <3>. QED
      BY <3>1, NobodyLost
  <2>. QED
    BY <2>1, <2>2
<1>4. CASE CompareAndSwap(w)
  <2>1. CASE numprocs' = numprocs - 1 /\ Abort(w)
    BY <2>1, OneLost
  <2>2. CASE UNCHANGED numprocs /\ PassCount(w)
    <3>1. OthersStay(w) /\ wpc'[w] \notin {"gone", "close"}
      BY <2>2
    <3>. QED
      BY <2>2, <3>1, NobodyLost
  <2>. QED
    BY <1>4, <2>1, <2>2 DEF CompareAndSwap
<1>5. CASE CheckCount(w)
  <2>1. WorkerGoto(w, "cas") \/ PassCount(w)
    BY <1>5 DEF CheckCount
  <2>2. OthersStay(w) /\ wpc'[w] \notin {"gone", "close"}
    BY <2>1
  <2>. QED
    BY <1>5, <2>2, NobodyLost DEF CheckCount, shared
<1>6. CASE ReadTasks(w) \/ AmDone(w) \/ CheckActive(w) \/ Update(w) \/ NoUpdate(w)
  <2>1. \/ \E pc \in {"recv", "zero", "count", "select"} : WorkerGoto(w, pc)
        \/ NextItem(w)
    BY <1>6 DEF ReadTasks, AmDone, CheckActive, Update, NoUpdate, NextItem
  <2>2. OthersStay(w) /\ wpc'[w] \notin {"gone", "close"}
    BY <2>1
  <2>3. UNCHANGED numprocs
    BY <1>6 DEF ReadTasks, AmDone, CheckActive, Update, NoUpdate, shared
  <2>. QED
    BY <2>2, <2>3, NobodyLost
<1>. QED
  BY <1>1, <1>2, <1>3, <1>4, <1>5, <1>6 DEF WorkerStep

\* A task handed over keeps its worker counted.
LEMMA CountHandoff ==
  ASSUME TypeOK, CountNeverOverstates, NEW r \in Runners, NEW w \in Workers,
         Handoff(r, w)
  PROVE  CountNeverOverstates'
<1>1. NextItem(w) \/ WorkerGoto(w, "exit")
  BY DEF Handoff, NextItem
<1>2. OthersStay(w) /\ wpc'[w] \notin {"gone", "close"}
  BY <1>1, WorkerMoves DEF WorkerPC
<1>. QED
  BY <1>2, NobodyLost, CountedFinite DEF Handoff, shared, CountNeverOverstates, TypeOK

\* numprocs is never more than the number of RunLogs goroutines that will still
\* be subtracted from it, however the resets, the decrements and the racing
\* calls of AdjustProcs interleave.
THEOREM CountCorrect == Spec => []CountNeverOverstates
<1>1. Init => CountNeverOverstates
  BY CountedFinite DEF Init, CountNeverOverstates
<1>2. TypeOK /\ CountNeverOverstates /\ [Next]_vars => CountNeverOverstates'
  <2> SUFFICES ASSUME TypeOK, CountNeverOverstates, [Next]_vars
               PROVE  CountNeverOverstates'
    OBVIOUS
  <2>1. CASE UNCHANGED vars
    BY <2>1, SameCounted DEF vars, shared, worker, CountNeverOverstates
  <2>2. CASE Next
    BY <2>2, CountEngine, CountRunner, CountWorker, CountHandoff DEF Next, Runners
  <2>. QED
    BY <2>1, <2>2
<1>. QED
  BY <1>1, <1>2, TypeCorrect, PTL DEF Spec

\* When AdjustProcs returns, at least PROCS RunLogs goroutines exist.
THEOREM AdjustCorrect == Spec => AdjustReachesTarget
<1>1. ASSUME TypeOK, CountNeverOverstates, NEW r \in Runners, AdjustDone(r)
      PROVE  Cardinality(Live) >= PROCS
  <2>1. PROCS <= numprocs
    BY <1>1 DEF AdjustDone, EnoughProcs
  <2>2. Counted \in SUBSET Live /\ Live \in SUBSET Workers
    BY DEF Counted, Live
  <2>3. IsFiniteSet(Live) /\ Cardinality(Live) \in Nat
    BY <2>2, PoolAssumption, FS_Subset, FS_CardinalityType
  <2>4. Cardinality(Counted) <= Cardinality(Live)
    BY <2>2, <2>3, FS_Subset
  <2>. QED
    BY <1>1, <2>1, <2>3, <2>4, CountedFinite DEF TypeOK, CountNeverOverstates
<1>2. TypeOK /\ CountNeverOverstates /\ [Next]_vars
        => [\A r \in Runners : AdjustDone(r) => Cardinality(Live) >= PROCS]_vars
  BY <1>1
<1>. QED
  BY <1>2, TypeCorrect, CountCorrect, PTL DEF Spec, AdjustReachesTarget

-----------------------------------------------------------------------------
(***************************************************************************)
(* At most one late update.  It is proved of PoolPromise, whose steps are  *)
(* few, and then the pool is shown to take no others.                      *)
(***************************************************************************)

\* What the workers have seen, as the promise knows it.
Permits == [w \in Workers |-> Permit(w)]

\* Every step of the promise keeps its types.
LEMMA PromiseTypes ==
  ASSUME Promise!TypeOK, Promise!Next
  PROVE  Promise!TypeOK'
<1> USE DEF Promise!TypeOK, Promise!None
<1>1. CASE Promise!Switch
  BY <1>1 DEF Promise!Switch
<1>2. ASSUME NEW c \in Colls, Promise!SwitchColl(c)
      PROVE  Promise!TypeOK'
  BY <1>2 DEF Promise!SwitchColl
<1>3. ASSUME NEW w \in Workers, Promise!Enter(w)
      PROVE  Promise!TypeOK'
  BY <1>3 DEF Promise!Enter
<1>4. ASSUME NEW w \in Workers, Promise!Take(w)
      PROVE  Promise!TypeOK'
  BY <1>4 DEF Promise!Take
<1>5. ASSUME NEW w \in Workers, Promise!SeeRunning(w)
      PROVE  Promise!TypeOK'
  BY <1>5 DEF Promise!SeeRunning
<1>6. ASSUME NEW w \in Workers, Promise!SeeEnabled(w)
      PROVE  Promise!TypeOK'
  BY <1>6 DEF Promise!SeeEnabled
<1>7. ASSUME NEW w \in Workers, Promise!Update(w)
      PROVE  Promise!TypeOK'
  <2>1. wcoll[w] \in Colls /\ late[w][wcoll[w]] + 1 \in Nat
    BY <1>7
  <2>2. late' \in [Workers -> [Colls -> Nat]]
    BY <1>7, <2>1 DEF Promise!Update
  <2>. QED
    BY <1>7, <2>2 DEF Promise!Update
<1>8. ASSUME NEW w \in Workers, Promise!Leave(w)
      PROVE  Promise!TypeOK'
  BY <1>8 DEF Promise!Leave
<1>. QED
  BY <1>1, <1>2, <1>3, <1>4, <1>5, <1>6, <1>7, <1>8 DEF Promise!Next

\* No step of the promise makes a second late update: a worker that has made one
\* gets no permit for another before the switch has changed back.
LEMMA PromiseLate ==
  ASSUME Promise!TypeOK, Promise!LateInv, Promise!Next
  PROVE  Promise!LateInv'
<1> USE DEF Promise!TypeOK, Promise!LateInv, Promise!None
<1>1. CASE Promise!Switch
  BY <1>1 DEF Promise!Switch
<1>2. ASSUME NEW c \in Colls, Promise!SwitchColl(c)
      PROVE  Promise!LateInv'
  BY <1>2 DEF Promise!SwitchColl
<1>3. ASSUME NEW w \in Workers, Promise!Enter(w)
      PROVE  Promise!LateInv'
  BY <1>3 DEF Promise!Enter
<1>4. ASSUME NEW w \in Workers, Promise!Take(w)
      PROVE  Promise!LateInv'
  BY <1>4 DEF Promise!Take
<1>5. ASSUME NEW w \in Workers, Promise!SeeRunning(w)
      PROVE  Promise!LateInv'
  BY <1>5 DEF Promise!SeeRunning
<1>6. ASSUME NEW w \in Workers, Promise!SeeEnabled(w)
      PROVE  Promise!LateInv'
  <2>1. Permit(w) = "running" /\ Active[wcoll[w]] /\ UNCHANGED <<Running, Active, wcoll, late>>
    BY <1>6 DEF Promise!SeeEnabled
  <2>2. Permit(w)' = "enabled" /\ \A v \in Workers \ {w} : Permit(v)' = Permit(v)
    BY <1>6 DEF Promise!SeeEnabled
  <2>. QED
    BY <2>1, <2>2
<1>7. ASSUME NEW w \in Workers, Promise!Update(w)
      PROVE  Promise!LateInv'
  <2>1. Permit(w) = "enabled" /\ UNCHANGED <<Running, Active, wcoll>>
    BY <1>7 DEF Promise!Update
  <2>2. Permit(w)' = "nothing" /\ \A v \in Workers \ {w} : Permit(v)' = Permit(v)
    BY <1>7 DEF Promise!Update
  <2>3. CASE Running /\ Active[wcoll[w]]
    <3>1. late' = late
      BY <1>7, <2>3 DEF Promise!Update
    <3>. QED
      BY <2>1, <2>2, <3>1
  <2>4. CASE ~(Running /\ Active[wcoll[w]])
    <3>1. late' = [late EXCEPT ![w][wcoll[w]] = @ + 1]
      BY <1>7, <2>4 DEF Promise!Update
    <3>2. late[w][wcoll[w]] = 0 /\ wcoll[w] \in Colls
      BY <2>1, <2>4
    <3>3. /\ late'[w][wcoll[w]] = 1
          /\ \A c \in Colls \ {wcoll[w]} : late'[w][c] = late[w][c]
          /\ \A v \in Workers \ {w} : late'[v] = late[v]
      BY <3>1, <3>2
    <3>. QED
      BY <2>1, <2>2, <2>4, <3>3
  <2>. QED
    BY <2>3, <2>4
<1>8. ASSUME NEW w \in Workers, Promise!Leave(w)
      PROVE  Promise!LateInv'
  BY <1>8 DEF Promise!Leave
<1>. QED
  BY <1>1, <1>2, <1>3, <1>4, <1>5, <1>6, <1>7, <1>8 DEF Promise!Next

\* Whoever behaves as PoolPromise says makes at most one more update to a
\* collection once the host is stopped or the collection is disabled.
THEOREM PromiseIsEnough == Promise!Spec => []Promise!OneLateUpdate
<1>1. Promise!Init => Promise!TypeOK /\ Promise!LateInv
  <2> SUFFICES ASSUME Promise!Init PROVE Promise!TypeOK /\ Promise!LateInv
    OBVIOUS
  <2>1. \A w \in Workers : Permit(w) = "nothing"
    BY DEF Promise!Init
  <2>2. late \in [Workers -> [Colls -> Nat]] /\ \A w \in Workers, c \in Colls : late[w][c] = 0
    BY DEF Promise!Init, Promise!None
  <2>. QED
    BY <2>1, <2>2 DEF Promise!Init, Promise!TypeOK, Promise!LateInv
<1>2. /\ Promise!TypeOK /\ Promise!LateInv
      /\ [Promise!Next]_(Promise!vars)
      => (Promise!TypeOK /\ Promise!LateInv)'
  <2>1. ASSUME Promise!TypeOK, Promise!LateInv, UNCHANGED Promise!vars
        PROVE  (Promise!TypeOK /\ Promise!LateInv)'
    BY <2>1 DEF Promise!TypeOK, Promise!LateInv, Promise!vars
  <2>. QED
    BY <2>1, PromiseTypes, PromiseLate
<1>3. Promise!LateInv => Promise!OneLateUpdate
  BY DEF Promise!LateInv, Promise!OneLateUpdate
<1>. QED
  BY <1>1, <1>2, <1>3, PTL DEF Promise!Spec

\* A step of one worker changes no other worker's permit.
LEMMA PermitsOfOthers ==
  ASSUME TypeOK, NEW w \in Workers, OthersStay(w)
  PROVE  Permits' = [Permits EXCEPT ![w] = Permit(w)']
  BY DEF Permits, Permit, OthersStay

\* The commands flip the switches and give no permit.
LEMMA EngineImplements ==
  ASSUME TypeOK, EngineCommand \/ OnceDone
  PROVE  \/ Promise!Switch \/ (\E c \in Colls : Promise!SwitchColl(c))
         \/ UNCHANGED Promise!vars
<1> USE DEF Promise!Switch, Promise!vars, Promise!None, NotLate, worker, Permit
<1>1. Start => Promise!Switch
  BY DEF Start
<1>2. Stop => Promise!Switch
  BY DEF Stop
<1>3. Once => Promise!Switch
  BY DEF Once
<1>4. OnceDone => Promise!Switch
  BY DEF OnceDone
<1>5. Exit => Promise!Switch \/ UNCHANGED Promise!vars
  BY DEF Exit
<1>6. Procs \/ TargetQps => UNCHANGED Promise!vars
  BY DEF Procs, TargetQps, shared
<1>7. ASSUME NEW c \in Colls, NEW state \in BOOLEAN, SetColl(c, state)
      PROVE  Promise!SwitchColl(c) \/ UNCHANGED Promise!vars
  <2>1. CASE Active[c] = state
    BY <1>7, <2>1 DEF SetColl, TypeOK
  <2>2. CASE Active[c] # state
    <3>1. Active' = [Active EXCEPT ![c] = ~@]
      BY <1>7, <2>2 DEF SetColl, TypeOK
    <3>. QED
      BY <1>7, <2>2, <3>1 DEF SetColl, Promise!SwitchColl
  <2>. QED
    BY <2>1, <2>2
<1>. QED
  BY <1>1, <1>2, <1>3, <1>4, <1>5, <1>6, <1>7 DEF EngineCommand

\* A runner starts workers, which is all the promise sees of it.
LEMMA RunnerImplements ==
  ASSUME TypeOK, NEW r \in Runners,
         RunnerStep(r) \/ (r \in Feeders /\ FeederLoop(r))
  PROVE  (\E w \in Workers : Promise!Enter(w)) \/ UNCHANGED Promise!vars
<1>1. CASE Grow(r)
  <2>1. PICK w \in Workers \ Live :
           /\ wpc' = [wpc EXCEPT ![w] = "top"]
           /\ late' = [late EXCEPT ![w] = [c \in Colls |-> 0]]
    BY <1>1 DEF Grow
  <2>2. UNCHANGED <<Running, Active, wcoll>>
    BY <1>1 DEF Grow
  <2>3. wpc[w] = "gone" /\ UNCHANGED Permits
    BY <2>1 DEF Permits, Permit, Live, TypeOK
  <2>4. Permit(w) = "nothing"
    BY <2>3 DEF Permit
  <2>5. Promise!Enter(w)
    BY <2>1, <2>2, <2>3, <2>4 DEF Promise!Enter, Promise!None, Permits
  <2>. QED
    BY <2>5
<1>2. CASE ~Grow(r)
  <2>1. UNCHANGED <<Running, Active, late, wpc, wcoll>>
    BY <1>2 DEF RunnerStep, FeederLoop, CloseOldTasks, MakeTasks, NeedMore,
       AdjustDone, Feed, CheckRunning, ZeroProcs, PickTasks, SendPanics, shared,
       worker
  <2>. QED
    BY <2>1 DEF Promise!vars, Permit
<1>. QED
  BY <1>1, <1>2

\* A worker's step that leaves its own permit as it is.
LEMMA WorkerStutters ==
  ASSUME TypeOK, NEW w \in Workers, OthersStay(w), Permit(w)' = Permit(w),
         UNCHANGED <<Running, Active, late, wcoll>>
  PROVE  UNCHANGED Promise!vars
<1>1. Permits' = Permits
  BY PermitsOfOthers DEF Permits
<1>. QED
  BY <1>1 DEF Promise!vars, Permits

\* A worker's step that gives its permit up, or has none to give up.
LEMMA WorkerLeaves ==
  ASSUME TypeOK, NEW w \in Workers, OthersStay(w),
         wpc'[w] \notin {"count", "cas", "active", "select"},
         UNCHANGED <<Running, Active, late, wcoll>>
  PROVE  Promise!Leave(w)
<1>1. Permit(w)' = "nothing"
  BY DEF Permit
<1>. QED
  BY <1>1, PermitsOfOthers DEF Promise!Leave, Permits

\* Every step of RunLogs obtains, uses or gives up a permit, or stutters.
LEMMA WorkerImplements ==
  ASSUME TypeOK, NEW w \in Workers, WorkerStep(w)
  PROVE  \/ Promise!SeeRunning(w) \/ Promise!SeeEnabled(w) \/ Promise!Update(w)
         \/ Promise!Leave(w) \/ UNCHANGED Promise!vars
<1> USE WorkerMoves DEF WorkerPC
<1>1. CASE Update(w)
  <2>1. wpc[w] = "select" /\ OthersStay(w) /\ wpc'[w] \in {"amdone", "top"}
    BY <1>1 DEF Update
  <2>2. Permit(w) = "enabled" /\ Permit(w)' = "nothing"
    BY <2>1 DEF Permit
  <2>3. Permits' = [Permits EXCEPT ![w] = "nothing"]
    BY <2>1, <2>2, PermitsOfOthers
  <2>4. UNCHANGED <<Running, Active, wcoll>>
    BY <1>1 DEF Update, shared
  <2>5. late' = IF Running /\ Active[wcoll[w]] THEN late
                ELSE [late EXCEPT ![w][wcoll[w]] = @ + 1]
    BY <1>1 DEF Update, Allowed
  <2>6. Promise!Update(w)
    BY <2>2, <2>3, <2>4, <2>5 DEF Promise!Update, Permits
  <2>. QED
    BY <2>6
<1>2. CASE AmDone(w) /\ ~StopSeen
  <2>1. wpc[w] = "amdone" /\ OthersStay(w) /\ wpc'[w] = "count" /\ Running
    BY <1>2 DEF AmDone, StopSeen
  <2>2. UNCHANGED <<Running, Active, late, wcoll>>
    BY <1>2 DEF AmDone, shared
  <2>3. Permit(w) = "nothing" /\ Permit(w)' = "running"
    BY <2>1 DEF Permit
  <2>4. Promise!SeeRunning(w)
    BY <2>1, <2>2, <2>3, PermitsOfOthers DEF Promise!SeeRunning, Permits
  <2>. QED
    BY <2>4
<1>3. CASE CheckActive(w)
  <2>1. wpc[w] = "active" /\ OthersStay(w)
    BY <1>3 DEF CheckActive, NextItem
  <2>2. UNCHANGED <<Running, Active, late, wcoll>>
    BY <1>3 DEF CheckActive, shared
  <2>3. CASE Active[wcoll[w]]
    <3>1. Permit(w) = "running" /\ Permit(w)' = "enabled"
      BY <1>3, <2>1, <2>3 DEF CheckActive, IsActive, Permit
    <3>2. Promise!SeeEnabled(w)
      BY <2>1, <2>2, <2>3, <3>1, PermitsOfOthers DEF Promise!SeeEnabled, Permits
    <3>. QED
      BY <3>2
  <2>4. CASE ~Active[wcoll[w]]
    <3>1. wpc'[w] \in {"amdone", "top"}
      BY <1>3, <2>4 DEF CheckActive, IsActive, NextItem
    <3>. QED
      BY <2>1, <2>2, <3>1, WorkerLeaves
  <2>. QED
    BY <2>3, <2>4
<1>4. CASE CheckCount(w) \/ CompareAndSwap(w)
  <2>1. WorkerGoto(w, "cas") \/ PassCount(w) \/ Abort(w)
    BY <1>4 DEF CheckCount, CompareAndSwap
  <2>2. OthersStay(w) /\ wpc'[w] \notin {"count", "select"}
    BY <2>1
  <2>3. UNCHANGED <<Running, Active, late, wcoll>> /\ wpc[w] \in {"count", "cas"}
    BY <1>4 DEF CheckCount, CompareAndSwap, shared
  <2>4. CASE wpc'[w] \in {"cas", "active"}
    BY <2>2, <2>3, <2>4, WorkerStutters DEF Permit
  <2>5. CASE wpc'[w] \notin {"cas", "active"}
    BY <2>2, <2>3, <2>5, WorkerLeaves
  <2>. QED
    BY <2>4, <2>5
<1>5. CASE \/ ReadTasks(w) \/ RecvClosed(w) \/ ZeroCount(w) \/ CloseTasks(w)
           \/ NoUpdate(w) \/ ExitRunLogs(w) \/ (AmDone(w) /\ StopSeen)
  <2>1. \/ \E pc \in {"recv", "gone", "close", "zero"} : WorkerGoto(w, pc)
        \/ Abort(w) \/ NextItem(w)
    BY <1>5 DEF ReadTasks, RecvClosed, ZeroCount, CloseTasks, NoUpdate,
       ExitRunLogs, AmDone
  <2>2. OthersStay(w) /\ wpc'[w] \notin {"count", "cas", "active", "select"}
    BY <2>1
  <2>3. UNCHANGED <<Running, Active, late, wcoll>>
    BY <1>5 DEF ReadTasks, RecvClosed, ZeroCount, CloseTasks, NoUpdate,
       ExitRunLogs, AmDone, shared
  <2>. QED
    BY <2>2, <2>3, WorkerLeaves
<1>. QED
  BY <1>1, <1>2, <1>3, <1>4, <1>5 DEF WorkerStep

\* A worker that is handed a task has the tests before it.
LEMMA HandoffImplements ==
  ASSUME TypeOK, NEW r \in Runners, NEW w \in Workers, Handoff(r, w)
  PROVE  Promise!Take(w)
<1>1. NextItem(w) \/ WorkerGoto(w, "exit")
  BY DEF Handoff, NextItem
<1>2. OthersStay(w) /\ wpc'[w] \in {"amdone", "top", "exit"}
  BY <1>1, WorkerMoves DEF WorkerPC
<1>3. Permit(w) = "nothing" /\ Permit(w)' = "nothing"
  BY <1>2 DEF Permit, Handoff
<1>4. UNCHANGED Permits
  BY <1>2, <1>3, PermitsOfOthers DEF Permits
<1>5. rcoll[r] \in Colls
  BY DEF TypeOK
<1>6. UNCHANGED <<Running, Active, late>> /\ wcoll' = [wcoll EXCEPT ![w] = rcoll[r]]
  BY DEF Handoff, shared
<1>. QED
  BY <1>3, <1>4, <1>5, <1>6 DEF Promise!Take, Permits

\* The pool keeps the promise: a worker gets to its next update, be it a repeated
\* one, only after it has seen that the host runs and then that the collection is
\* enabled, whatever the commands and the other goroutines do.
THEOREM KeepsPromiseCorrect == Spec => KeepsPromise
<1>1. Init => Promise!Init
  <2> SUFFICES ASSUME Init PROVE Promise!Init
    OBVIOUS
  <2>1. wcoll \in [Workers -> Colls]
    BY NextCollType DEF Init
  <2>2. Permits = [w \in Workers |-> "nothing"]
    BY DEF Init, Permits, Permit
  <2>. QED
    BY <2>1, <2>2 DEF Init, Promise!Init, Promise!None, Permits
<1>2. TypeOK /\ [Next]_vars => [Promise!Next]_(Promise!vars)
  <2> SUFFICES ASSUME TypeOK, [Next]_vars
               PROVE  Promise!Next \/ UNCHANGED Promise!vars
    OBVIOUS
  <2>1. CASE UNCHANGED vars
    BY <2>1 DEF vars, shared, worker, Promise!vars, Permit
  <2>2. CASE EngineCommand \/ OnceDone
    BY <2>2, EngineImplements DEF Promise!Next
  <2>3. ASSUME NEW r \in Runners, RunnerStep(r) \/ (r \in Feeders /\ FeederLoop(r))
        PROVE  Promise!Next \/ UNCHANGED Promise!vars
    BY <2>3, RunnerImplements DEF Promise!Next
  <2>4. ASSUME NEW w \in Workers, WorkerStep(w)
        PROVE  Promise!Next \/ UNCHANGED Promise!vars
    BY <2>4, WorkerImplements DEF Promise!Next
  <2>5. ASSUME NEW r \in Runners, NEW w \in Workers, Handoff(r, w)
        PROVE  Promise!Next
    BY <2>5, HandoffImplements DEF Promise!Next
  <2>. QED
    BY <2>1, <2>2, <2>3, <2>4, <2>5 DEF Next, Runners
<1>. QED
  BY <1>1, <1>2, TypeCorrect, PTL DEF Spec, KeepsPromise, Promise!Spec

\* Once a host is stopped or a collection is disabled, a worker makes at most one
\* more update to that collection.
THEOREM LateCorrect == Spec => []AtMostOneLateUpdate
<1>1. Promise!OneLateUpdate => AtMostOneLateUpdate
  BY DEF Promise!OneLateUpdate, AtMostOneLateUpdate
<1>. QED
  BY <1>1, KeepsPromiseCorrect, PromiseIsEnough, PTL DEF KeepsPromise

=============================================================================
