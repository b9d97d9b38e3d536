------------------------------ MODULE WorkerPool ------------------------------
(***************************************************************************)
(* The load generator of one hitter process: the Engine goroutine that     *)
(* executes commands (engine/engine.go), the feeder goroutines it starts,  *)
(* each of them running MultiRunLogs, and the RunLogs worker goroutines    *)
(* that AdjustProcs starts (engine/runlogs.go).  They share, without a     *)
(* lock, the variables Running, PROCS, numprocs and the channel variable   *)
(* tasks, so the steps below are single reads and writes of those.         *)
(*                                                                         *)
(* A collection is its position in LogOrder.  The Mongo session, the       *)
(* ticker and the messages to the dashboard are not part of this module.   *)
(***************************************************************************)
EXTENDS Integers, FiniteSets

CONSTANTS
  Workers,      \* identities of RunLogs goroutines; bounds how many live at once
  Feeders,      \* identities of the goroutines START creates; same kind of bound
  Engine,       \* the goroutine that executes commands
  Chans,        \* identities of task channels, reused once nobody refers to them
  Nil,          \* the nil channel: the value of tasks before the first run
  NumColls,     \* length of LogOrder
  Commands,     \* the commands the users of the cluster issue
  Targets,      \* the numbers a PROCS command may carry
  GlobMayFail   \* whether Glob may return an error

Runners == Feeders \cup {Engine}
Colls == 1 .. NumColls
ChanRefs == Chans \cup {Nil}

ASSUME PoolAssumption ==
  /\ IsFiniteSet(Workers)
  /\ Engine \notin Feeders
  /\ Nil \notin Chans
  /\ NumColls \in Nat \ {0}
  /\ Commands \subseteq {"START", "STOP", "ONCE", "PROCS", "TARGETQPS",
                         "COLLSTART", "COLLSTOP", "EXIT", "DIE"}
  /\ Targets \subseteq Int
  /\ GlobMayFail \in BOOLEAN

VARIABLES
  Running,    \* engine.Running
  PROCS,      \* cluster.PROCS, the number of workers asked for
  numprocs,   \* engine.numprocs, the number of workers believed to exist
  Active,     \* cluster.Clus.Active[HostName]
  tasks,      \* the channel the variable engine.tasks holds
  closed,     \* the channels that have been closed
  ecmd,       \* what the Engine goroutine is executing
  rpc,        \* where each runner is
  rcoll,      \* the collection a runner is about to feed
  rch,        \* the channel a runner is blocked sending on
  wpc,        \* where each worker is
  wch,        \* the channel a worker is blocked receiving from
  wcoll,      \* the collection a worker is processing
  wsite,      \* which call of AmDone a worker is in: per file or per update
  wnp,        \* AmDone's local copy of numprocs
  late        \* history: updates a worker made to a collection while it was not
              \* allowed to, since Running or that collection's switch changed

shared == <<Running, PROCS, numprocs, Active>>
runner == <<rpc, rcoll, rch>>
worker == <<wpc, wch, wcoll, wsite, wnp>>
vars == <<shared, tasks, closed, ecmd, runner, worker, late>>

RunnerPC == {"gone", "idle", "loop", "close", "make", "adjust", "grow",
             "feed", "check", "zero", "pick", "send"}
WorkerPC == {"gone", "top", "recv", "amdone", "count", "cas", "zero", "close",
             "active", "select", "exit"}

\* The goroutines in RunLogs.
Live == {w \in Workers : wpc[w] # "gone"}

\* AmDone as a whole lets a worker touch collection c only then.
Allowed(c) == Running /\ Active[c]

TypeOK ==
  /\ Running \in BOOLEAN
  /\ PROCS \in Int
  /\ numprocs \in Int
  /\ Active \in [Colls -> BOOLEAN]
  /\ tasks \in ChanRefs
  /\ closed \subseteq Chans
  /\ ecmd \in {"none", "ONCE", "ADJUST"}
  /\ rpc \in [Runners -> RunnerPC]
  /\ rcoll \in [Runners -> Colls]
  /\ rch \in [Runners -> ChanRefs]
  /\ wpc \in [Workers -> WorkerPC]
  /\ wch \in [Workers -> ChanRefs]
  /\ wcoll \in [Workers -> Colls]
  /\ wsite \in [Workers -> {"file", "item"}]
  /\ wnp \in [Workers -> Int]
  /\ late \in [Workers -> [Colls -> Nat]]

\* A process that has just started: every collection enabled, no goroutine
\* but the Engine, PROCS as declared in cluster.go.
Init ==
  /\ Running = FALSE
  /\ PROCS = 1
  /\ numprocs = 0
  /\ Active = [c \in Colls |-> TRUE]
  /\ tasks = Nil
  /\ closed = {}
  /\ ecmd = "none"
  /\ rpc = [r \in Runners |-> IF r = Engine THEN "idle" ELSE "gone"]
  /\ rcoll = [r \in Runners |-> 1]
  /\ rch = [r \in Runners |-> Nil]
  /\ wpc = [w \in Workers |-> "gone"]
  /\ wch = [w \in Workers |-> Nil]
  /\ wcoll = [w \in Workers |-> 1]
  /\ wsite = [w \in Workers |-> "file"]
  /\ wnp = [w \in Workers |-> 0]
  /\ late = [w \in Workers |-> [c \in Colls |-> 0]]

NotLate == [w \in Workers |-> [c \in Colls |-> 0]]

-----------------------------------------------------------------------------
(***************************************************************************)
(* Commands, executed one at a time by the Engine goroutine.  Any command  *)
(* may arrive at any moment: the users of every dashboard in the cluster   *)
(* send them.                                                              *)
(***************************************************************************)

RunnerGoto(r, pc) == rpc' = [rpc EXCEPT ![r] = pc]

\* The Engine is waiting in its select and receives this command.
Receive(cmd) == rpc[Engine] = "idle" /\ cmd \in Commands

\* START for this host while not running: a new feeder goroutine.
Start ==
  /\ Receive("START")
  /\ ~Running
  /\ Running' = TRUE
  /\ late' = NotLate
  /\ \E f \in Feeders : rpc[f] = "gone" /\ RunnerGoto(f, "loop")
  /\ UNCHANGED <<PROCS, numprocs, Active, tasks, closed, ecmd, rcoll, rch, worker>>

\* STOP for this host while running.
Stop ==
  /\ Receive("STOP")
  /\ Running
  /\ Running' = FALSE
  /\ late' = NotLate
  /\ UNCHANGED <<PROCS, numprocs, Active, tasks, closed, ecmd, runner, worker>>

\* ONCE while not running: the Engine itself executes MultiRunLogs.
Once ==
  /\ Receive("ONCE")
  /\ ~Running
  /\ Running' = TRUE
  /\ late' = NotLate
  /\ ecmd' = "ONCE"
  /\ RunnerGoto(Engine, "close")
  /\ UNCHANGED <<PROCS, numprocs, Active, tasks, closed, rcoll, rch, worker>>

\* MultiRunLogs has returned to the ONCE case: DONE is sent.
OnceDone ==
  /\ rpc[Engine] = "loop"
  /\ Running' = FALSE
  /\ late' = NotLate
  /\ ecmd' = "none"
  /\ RunnerGoto(Engine, "idle")
  /\ UNCHANGED <<PROCS, numprocs, Active, tasks, closed, rcoll, rch, worker>>

\* The Engine calls AdjustProcs, but only while running.
AdjustIfRunning ==
  IF Running THEN ecmd' = "ADJUST" /\ RunnerGoto(Engine, "adjust")
             ELSE UNCHANGED <<ecmd, rpc>>

\* PROCS n.
Procs ==
  /\ Receive("PROCS")
  /\ PROCS' \in Targets
  /\ AdjustIfRunning
  /\ UNCHANGED <<Running, numprocs, Active, tasks, closed, rcoll, rch, worker, late>>

\* TARGETQPS n: the rate itself is not modelled here.
TargetQps ==
  /\ Receive("TARGETQPS")
  /\ AdjustIfRunning
  /\ UNCHANGED <<shared, tasks, closed, rcoll, rch, worker, late>>

\* COLLSTART and COLLSTOP for this host.
SetColl(c, state) ==
  /\ Receive(IF state THEN "COLLSTART" ELSE "COLLSTOP")
  /\ Active' = [Active EXCEPT ![c] = state]
  /\ late' = IF Active[c] = state THEN late
             ELSE [w \in Workers |-> [late[w] EXCEPT ![c] = 0]]
  /\ UNCHANGED <<Running, PROCS, numprocs, tasks, closed, ecmd, runner, worker>>

\* EXIT: the Engine loop returns, the other goroutines go on until the
\* process ends.  DIE does the same after it has cleared Running.
Exit ==
  /\ \/ Receive("EXIT") /\ UNCHANGED <<Running, late>>
     \/ Receive("DIE") /\ Running' = FALSE /\ late' = NotLate
  /\ RunnerGoto(Engine, "gone")
  /\ UNCHANGED <<PROCS, numprocs, Active, tasks, closed, ecmd, rcoll, rch, worker>>

EngineCommand ==
  \/ Start \/ Stop \/ Once \/ Procs \/ TargetQps \/ Exit
  \/ \E c \in Colls, state \in BOOLEAN : SetColl(c, state)

-----------------------------------------------------------------------------
(***************************************************************************)
(* MultiRunLogs and AdjustProcs, executed by a runner: a feeder goroutine, *)
(* or the Engine (AdjustProcs for PROCS and TARGETQPS, both for ONCE).     *)
(***************************************************************************)

\* CloseChannel: closing a nil or an already closed channel does nothing.
CloseChannel(ch) == closed' = closed \cup ({ch} \ {Nil})

\* The loop of the goroutine START creates, before each MultiRunLogs.
FeederLoop(f) ==
  /\ rpc[f] = "loop"
  /\ RunnerGoto(f, IF Running THEN "close" ELSE "gone")
  /\ UNCHANGED <<shared, tasks, closed, ecmd, rcoll, rch, worker, late>>

\* MultiRunLogs first closes whatever channel tasks holds at that moment...
CloseOldTasks(r) ==
  /\ rpc[r] = "close"
  /\ CloseChannel(tasks)
  /\ RunnerGoto(r, "make")
  /\ UNCHANGED <<shared, tasks, ecmd, rcoll, rch, worker, late>>

\* Some goroutine is blocked on channel c.
Awaited(c) == (\E r \in Runners : rch[r] = c) \/ (\E w \in Workers : wch[w] = c)

\* A channel nothing refers to.
Fresh(c) == tasks # c /\ ~Awaited(c)

\* ... and then installs a new one.  Of the old ones only those that still
\* have a goroutine blocked on them can matter.
MakeTasks(r) ==
  /\ rpc[r] = "make"
  /\ \E c \in Chans : Fresh(c)
  /\ tasks' = CHOOSE c \in Chans : Fresh(c)
  /\ closed' = {c \in closed : Awaited(c)}
  /\ RunnerGoto(r, "adjust")
  /\ UNCHANGED <<shared, ecmd, rcoll, rch, worker, late>>

\* Mutant: an off-by-one in the loop test.
EnoughProcsOffByOne == PROCS <= numprocs + 1

\* AdjustProcs's loop test.
EnoughProcs == PROCS <= numprocs

NeedMore(r) ==
  /\ rpc[r] = "adjust"
  /\ ~EnoughProcs
  /\ RunnerGoto(r, "grow")
  /\ UNCHANGED <<shared, tasks, closed, ecmd, rcoll, rch, worker, late>>

\* AdjustProcs's loop body: count one more worker and start it.
Grow(r) ==
  /\ rpc[r] = "grow"
  /\ numprocs' = numprocs + 1
  /\ \E w \in Workers \ Live :
        /\ wpc' = [wpc EXCEPT ![w] = "top"]
        /\ late' = [late EXCEPT ![w] = [c \in Colls |-> 0]]
  /\ RunnerGoto(r, "adjust")
  /\ UNCHANGED <<Running, PROCS, Active, tasks, closed, ecmd, rcoll, rch,
                 wch, wcoll, wsite, wnp>>

\* AdjustProcs returns; the Engine goes back to its commands unless it is
\* in the middle of ONCE.
AdjustDone(r) ==
  /\ rpc[r] = "adjust"
  /\ EnoughProcs
  /\ IF r = Engine /\ ecmd = "ADJUST"
       THEN ecmd' = "none" /\ RunnerGoto(r, "idle")
       ELSE UNCHANGED ecmd /\ RunnerGoto(r, "feed")
  /\ rcoll' = [rcoll EXCEPT ![r] = 1]
  /\ UNCHANGED <<shared, tasks, closed, rch, worker, late>>

IsActive(c) == Active[c]

\* Mutant: the order is not repeated.
NextCollNoWrap(c) == c + 1

\* The position after c in LogOrder, the whole order being repeated forever.
NextColl(c) == (c % NumColls) + 1

\* The top of the feeding loop: an inactive collection is skipped, and
\* Running is not looked at for it.
Feed(r) ==
  /\ rpc[r] = "feed"
  /\ IF IsActive(rcoll[r])
       THEN RunnerGoto(r, "check") /\ UNCHANGED rcoll
       ELSE rcoll' = [rcoll EXCEPT ![r] = NextColl(@)] /\ UNCHANGED rpc
  /\ UNCHANGED <<shared, tasks, closed, ecmd, rch, worker, late>>

CheckRunning(r) ==
  /\ rpc[r] = "check"
  /\ RunnerGoto(r, IF Running THEN "pick" ELSE "zero")
  /\ UNCHANGED <<shared, tasks, closed, ecmd, rcoll, rch, worker, late>>

\* The run is over: the count is reset, the channel is left as it is.
ZeroProcs(r) ==
  /\ rpc[r] = "zero"
  /\ numprocs' = 0
  /\ RunnerGoto(r, "loop")
  /\ UNCHANGED <<Running, PROCS, Active, tasks, closed, ecmd, rcoll, rch, worker, late>>

\* tasks <- coll, first half: the channel is the one tasks holds now.
PickTasks(r) ==
  /\ rpc[r] = "pick"
  /\ rch' = [rch EXCEPT ![r] = tasks]
  /\ RunnerGoto(r, "send")
  /\ UNCHANGED <<shared, tasks, closed, ecmd, rcoll, worker, late>>

\* The channel is closed before the value is taken: the panic ends
\* MultiRunLogs, which recovers from it.
SendPanics(r) ==
  /\ rpc[r] = "send"
  /\ rch[r] \in closed
  /\ rch' = [rch EXCEPT ![r] = Nil]
  /\ RunnerGoto(r, "loop")
  /\ UNCHANGED <<shared, tasks, closed, ecmd, rcoll, worker, late>>

RunnerStep(r) ==
  \/ CloseOldTasks(r) \/ MakeTasks(r)
  \/ NeedMore(r) \/ Grow(r) \/ AdjustDone(r)
  \/ Feed(r) \/ CheckRunning(r) \/ ZeroProcs(r) \/ PickTasks(r) \/ SendPanics(r)

-----------------------------------------------------------------------------
(***************************************************************************)
(* RunLogs, with AmDone, the log functions and wrapMongo it calls.  How    *)
(* many files a collection has and how many updates a file makes is data,  *)
(* so it is a free choice.                                                 *)
(***************************************************************************)

\* Outside AmDone wsite has no meaning and is reset.
WorkerGoto(w, pc) ==
  /\ wpc' = [wpc EXCEPT ![w] = pc]
  /\ wsite' = IF pc \in {"count", "cas", "zero", "close"} THEN wsite
             ELSE [wsite EXCEPT ![w] = "file"]

\* AmDone() is called before a file, AmDone(coll) before an update.
CallAmDone(w, site) ==
  /\ wpc' = [wpc EXCEPT ![w] = "amdone"]
  /\ wsite' = [wsite EXCEPT ![w] = site]

\* A log function returns without abort: the next file, if there is one.
NextFile(w) ==
  \/ CallAmDone(w, "file")
  \/ WorkerGoto(w, "top")

\* Mutant: an update is tried again without another call of AmDone.
NextItemUnasked(w) == CallAmDone(w, "item") \/ WorkerGoto(w, "select") \/ NextFile(w)

\* wrapMongo returns (false, false): the next update, if there is one.
NextItem(w) == CallAmDone(w, "item") \/ NextFile(w)

\* Mutant: the decrement is forgotten.
UncountForgotten == UNCHANGED numprocs

\* The decrement in the function RunLogs defers.
Uncount == numprocs' = numprocs - 1

\* coll, ok := <-tasks, first half: the channel is the one tasks holds now.
ReadTasks(w) ==
  /\ wpc[w] = "top"
  /\ wch' = [wch EXCEPT ![w] = tasks]
  /\ WorkerGoto(w, "recv")
  /\ UNCHANGED <<shared, tasks, closed, ecmd, runner, wcoll, wnp, late>>

\* The second half on a closed channel: RunLogs returns, through the function
\* it defers.
RecvClosed(w) ==
  /\ wpc[w] = "recv"
  /\ wch[w] \in closed
  /\ wch' = [wch EXCEPT ![w] = Nil]
  /\ Uncount
  /\ WorkerGoto(w, "gone")
  /\ UNCHANGED <<Running, PROCS, Active, tasks, closed, ecmd, runner,
                 wcoll, wnp, late>>

\* The second half when runner r is sending on the same channel.  Glob may
\* fail, which ends RunLogs; there may be no file.
Handoff(r, w) ==
  /\ rpc[r] = "send"
  /\ wpc[w] = "recv"
  /\ rch[r] = wch[w]
  /\ rch[r] \in Chans \ closed
  /\ wcoll' = [wcoll EXCEPT ![w] = rcoll[r]]
  /\ \/ NextFile(w)
     \/ GlobMayFail /\ WorkerGoto(w, "exit")
  /\ wch' = [wch EXCEPT ![w] = Nil]
  /\ rch' = [rch EXCEPT ![r] = Nil]
  /\ rcoll' = [rcoll EXCEPT ![r] = NextColl(@)]
  /\ RunnerGoto(r, "feed")
  /\ UNCHANGED <<shared, tasks, closed, ecmd, wnp, late>>

\* Mutant: AmDone does not look at Running.
StopNotSeen == FALSE

\* AmDone's first test.
StopSeen == ~Running

AmDone(w) ==
  /\ wpc[w] = "amdone"
  /\ WorkerGoto(w, IF StopSeen THEN "zero" ELSE "count")
  /\ UNCHANGED <<shared, tasks, closed, ecmd, runner, wch, wcoll, wnp, late>>

\* AmDone returns true, true: for an update the abort makes RunLogs return
\* without touching numprocs again, for a file its deferred function will.
Abort(w) == WorkerGoto(w, IF wsite[w] = "item" THEN "gone" ELSE "exit")

\* Not running: numprocs is set to zero...
ZeroCount(w) ==
  /\ wpc[w] = "zero"
  /\ numprocs' = 0
  /\ WorkerGoto(w, "close")
  /\ UNCHANGED <<Running, PROCS, Active, tasks, closed, ecmd, runner,
                 wch, wcoll, wnp, late>>

\* ... and the channel tasks holds by then is closed.
CloseTasks(w) ==
  /\ wpc[w] = "close"
  /\ CloseChannel(tasks)
  /\ Abort(w)
  /\ UNCHANGED <<shared, tasks, ecmd, runner, wch, wcoll, wnp, late>>

\* The worker survives the count: a file is opened and yields an update or
\* none, an update still depends on its collection.
PassCount(w) ==
  IF wsite[w] = "item" THEN WorkerGoto(w, "active")
                       ELSE NextItem(w)

\* AmDone compares its copy of numprocs with PROCS.
CheckCount(w) ==
  /\ wpc[w] = "count"
  /\ IF PROCS < numprocs
       THEN wnp' = [wnp EXCEPT ![w] = numprocs] /\ WorkerGoto(w, "cas")
       ELSE PassCount(w) /\ UNCHANGED wnp
  /\ UNCHANGED <<shared, tasks, closed, ecmd, runner, wch, wcoll, late>>

\* Too many workers: leave, unless numprocs has changed since it was read.
CompareAndSwap(w) ==
  /\ wpc[w] = "cas"
  /\ IF numprocs = wnp[w]
       THEN numprocs' = wnp[w] - 1 /\ Abort(w)
       ELSE PassCount(w) /\ UNCHANGED numprocs
  /\ wnp' = [wnp EXCEPT ![w] = 0]
  /\ UNCHANGED <<Running, PROCS, Active, tasks, closed, ecmd, runner,
                 wch, wcoll, late>>

\* AmDone(coll) returns true, false for an inactive collection.
CheckActive(w) ==
  /\ wpc[w] = "active"
  /\ IF IsActive(wcoll[w]) THEN WorkerGoto(w, "select")
                               ELSE NextFile(w)
  /\ UNCHANGED <<shared, tasks, closed, ecmd, runner, wch, wcoll, wnp, late>>

\* The select fires on the ticker: one update is attempted.  An I/O timeout
\* followed by a successful reconnect repeats it.
Update(w) ==
  /\ wpc[w] = "select"
  /\ late' = IF Allowed(wcoll[w]) THEN late ELSE [late EXCEPT ![w][wcoll[w]] = @ + 1]
  /\ NextItem(w)
  /\ UNCHANGED <<shared, tasks, closed, ecmd, runner, wch, wcoll, wnp>>

\* No update is attempted: the ticker has changed (the update starts over),
\* or there is no database to be had (it is given up).
NoUpdate(w) ==
  /\ wpc[w] = "select"
  /\ NextItem(w)
  /\ UNCHANGED <<shared, tasks, closed, ecmd, runner, wch, wcoll, wnp, late>>

\* The function RunLogs defers, when it has not been counted already.
ExitRunLogs(w) ==
  /\ wpc[w] = "exit"
  /\ Uncount
  /\ WorkerGoto(w, "gone")
  /\ UNCHANGED <<Running, PROCS, Active, tasks, closed, ecmd, runner,
                 wch, wcoll, wnp, late>>

WorkerStep(w) ==
  \/ ReadTasks(w) \/ RecvClosed(w)
  \/ AmDone(w) \/ ZeroCount(w) \/ CloseTasks(w)
  \/ CheckCount(w) \/ CompareAndSwap(w) \/ CheckActive(w)
  \/ Update(w) \/ NoUpdate(w) \/ ExitRunLogs(w)

Next ==
  \/ EngineCommand
  \/ OnceDone
  \/ \E f \in Feeders : FeederLoop(f)
  \/ \E r \in Runners : RunnerStep(r)
  \/ \E w \in Workers : WorkerStep(w)
  \/ \E r \in Runners, w \in Workers : Handoff(r, w)

Spec == Init /\ [][Next]_vars
-----------------------------------------------------------------------------
(***************************************************************************)
(* Fairness.  Scheduling: a goroutine that can run is eventually           *)
(* scheduled, a send and a receive waiting on the same channel meet, a     *)
(* ticker keeps ticking.  FiniteTasks: a collection has finitely many      *)
(* files of finitely many updates, so a worker that is not sent away       *)
(* sooner finishes its task.  Commands are never owed.                     *)
(***************************************************************************)
Scheduling ==
  /\ \A w \in Workers : WF_vars(WorkerStep(w))
  /\ \A r \in Runners : WF_vars(RunnerStep(r) \/ \E w \in Workers : Handoff(r, w))
  /\ \A f \in Feeders : WF_vars(FeederLoop(f))
  /\ WF_vars(OnceDone)

FiniteTasks == \A w \in Workers : SF_vars(WorkerStep(w) /\ wpc'[w] = "top")

ScheduledSpec == Spec /\ Scheduling
FairSpec == ScheduledSpec /\ FiniteTasks

-----------------------------------------------------------------------------
(***************************************************************************)
(* Safety.                                                                 *)
(***************************************************************************)

\* A worker that was taken off the count when numprocs was set to zero and
\* that will leave without decrementing it.
Discounted(w) == wpc[w] = "close" /\ wsite[w] = "item"

Counted == {w \in Live : ~Discounted(w)}

\* numprocs, which PROCSAT reports and AdjustProcs and AmDone decide by, never
\* exceeds the number of RunLogs goroutines, whatever the resets to zero, the
\* double decrements and the racing calls of AdjustProcs do to it.
CountNeverOverstates == numprocs <= Cardinality(Counted)

\* Once a host is stopped or a collection is disabled, a worker makes at most
\* one more update to that collection: the one it was already waiting to make.
\* Its next call of AmDone sends it away.
AtMostOneLateUpdate == \A w \in Workers, c \in Colls : late[w][c] <= 1

\* When AdjustProcs returns at least PROCS RunLogs goroutines exist.  (There
\* may be more.)
AdjustReachesTarget ==
  [][\A r \in Runners : AdjustDone(r) => Cardinality(Live) >= PROCS]_vars

\* What worker w has seen for its next update: that Running was true when it last
\* called AmDone, and then that its collection was enabled.
Permit(w) ==
  IF wpc[w] \in {"count", "cas", "active"} THEN "running"
  ELSE IF wpc[w] = "select" THEN "enabled" ELSE "nothing"

Promise ==
  INSTANCE PoolPromise WITH
    running <- Running,
    active <- Active,
    coll <- wcoll,
    permit <- [w \in Workers |-> Permit(w)]

\* Whatever the commands, feeders, counts and channels do, the pool keeps a simple
\* promise: a worker gets to its next update, be it a repeated one, only after it
\* has seen that the host runs and then that the collection is enabled.
KeepsPromise == Promise!Spec

-----------------------------------------------------------------------------
(***************************************************************************)
(* Liveness.                                                               *)
(***************************************************************************)

\* After the last STOP every worker ends up out of the files: gone, or asking
\* for a task and not getting one.  (It cannot say that all goroutines come to
\* rest: a runner in AdjustProcs may start workers forever that leave at once,
\* because the channel tasks holds is closed.)
StopQuiesces ==
  <>[]~Running => <>[](\A w \in Workers : wpc[w] \in {"gone", "top", "recv"})

-----------------------------------------------------------------------------
(***************************************************************************)
(* What a comment says, and the code does not do.                          *)
(***************************************************************************)

\* "Run n concurrent RunLogs() routines" (the comment on MultiRunLogs): a run
\* that goes on with an unchanged n settles on n goroutines.
RunsNConcurrent ==
  \A n \in Targets : <>[](Running /\ PROCS = n) => <>[](Cardinality(Live) = n)

=============================================================================
