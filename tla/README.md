# Hitter in TLA+

Hitter replays log files as load on a MongoDB server. Several hitters on several hosts form a cluster
(memberlist) and are watched and commanded from browsers connected to any of them. This directory holds
TLA+ models of the program's concurrent core, TLC configurations that check them on small instances, and
TLAPS proofs of their safety properties for every value of the constants.

    tlc -config MCWorkerPool_commands.cfg MCWorkerPool
    tlapm WorkerPoolProofs.tla

`PROJECT.json` says for every definition which lines of the source it models, and lists the runs, the
mutants that break each property, the hazards, the findings and the theorems.

## 1. The system

| Component | Code | State | Operations |
|---|---|---|---|
| Engine | `engine/engine.go` `Engine` | `Running`, `PROCS`, `TARGETQPS`, `WHICHDB` (all plain variables) | START, STOP, ONCE, PROCS, TARGETQPS, COLLSTART, COLLSTOP, DB, DIE, EXIT, one at a time from `EngineMsgs` |
| Worker pool | `engine/runlogs.go` `MultiRunLogs`, `AdjustProcs`, `RunLogs`, `AmDone`, `CloseChannel` | `numprocs`, the channel variable `tasks`, goroutines | feed collections, start workers, take a collection, process it, leave |
| Mongo session | `runlogs.go` `wrapMongo`, `tryReconnect`, `DialMongo`; the DB command | `LiveDB`, `DBLock`, `WHICHDB` | update, reconnect, dial, switch |
| Throttle | `runlogs.go` `perSecTicker`, `tickerChange`, `AdjustProcs` 622-628 | the ticker, the notifications | wait for a tick, replace the ticker |
| QPS meter | `engine.go` `MonitorQPS`; `runlogs.go` 216; `web/ui.go` QPS case | `MyQPS`, the QPS history | count, load, reset, send, append |
| CircBufMap | `cluster/common.go` | host → bounded list | `MakeNode`, `Append`, `Last`, delete |
| Cluster state | `cluster/cluster.go` | `Qps`, `Logs`, `States`, `Active`, memberlist's members | `NotifyJoin`, `NotifyLeave`, `NotifyMsg`, `LocalState`, `MergeRemoteState`, `send`, `EnableColl`, `DisableColl` |
| UI pipe and web sockets | `cluster.go`, `cluster/websockets.go`, `cluster/log.go`, `web/ui.go` | `UIMsgs`, `EngineMsgs`, `ConfigMutex`, `sockLock`, the sockets | `SendUI`, `SendEngine`, `WriteJSON`, `ServeWs`, `StatsMessageConsumer`, `Log` |
| Log aggregation | `runlogs.go` `AggregateLog`, `makeAggregator`, `UnpackEncodedID`, the log functions, `Glob`; `data/prod.go` | `log_agg`, per file | log lines to Mongo updates |
| Start and end | `main.go`, `cluster.go` `NewCluster`, `Start`, `Stop`, `FindEC2Hitters`; the EXIT and DIE commands | the ports in use, who is in whose cluster | start, find, join, leave, end |
| HTTP server | `web/ui.go`, `web/prodserve.go`, `web/assets.go` | - | `/state`, `/ws`, the page and its files |
| Dashboard | `assets/js/index.js` | nodes, charts, pending QPS points | join, leave, QPS, commands |

How they interact. A browser's command goes through its socket (`listen`) and `SendEngine` to the
`EngineMsgs` of the hosts it names; each Engine executes it. START creates a feeder goroutine that runs
`MultiRunLogs`, which hands collections over `tasks` to `RunLogs` goroutines. They ask `AmDone` before
every file and every update, wait for the ticker and update Mongo through the one shared session. What
happens is told to every host with `SendUI`: UDP to the others, `UIMsgs` at home. `StatsMessageConsumer`
takes those messages, changes the tables and writes to the browsers. memberlist calls the cluster object
back for messages, members that come and go, and push/pull exchanges of the tables.

What is hard. `Running`, `PROCS`, `numprocs`, `tasks` and `WHICHDB` are shared without a lock and acted
upon later; a stop is followed by a start before the goroutines of the old run have noticed; one session
is closed by any worker while the others use it; the tables are repaired by exchanges of whole states that
may be out of date; handlers hold up to three locks while they write to sockets, and log a failure
through a channel somebody else must empty; tickers are replaced under the workers that wait for them; a
process looks for others that are just starting, or leaving, or have left their port to nobody yet.

What makes each correct.

* Pool: the count that decisions are based on is never too high; a start leads to enough workers; a stop
  or a disabled collection takes effect after at most the update already begun; all workers leave in the end.
* Session: what is shared is open and of the chosen server; a switch ends, and reaches every worker.
* Throttle: there is a ticker whenever one is needed; after a change the old rate ends; nobody waits for nothing.
* Aggregation: an update says what the file's records add up to, in the files' order; a bad record costs itself only.
* Meter: no update is reported twice; an idle host is shown idle.
* Cluster: nobody else decides what a host is; what messages lose, exchanges repair; those who left are forgotten.
* Pipe: nobody holds a lock while waiting for a channel, nobody waits forever, messages are dealt with, and
  where that cannot be kept it is known why.
* Start: it ends, one way or the other; those who serve have found each other; a browser gets the page.

## 2. The modules

Specifications

* `WorkerPool` - the Engine's commands, feeders and workers. One step is one read or write of a shared
  variable: `AmDone` is five steps (`AmDone`, `CheckCount`, `CompareAndSwap`, `CheckActive`, and
  `ZeroCount` with `CloseTasks`), `AdjustProcs` is `NeedMore`, `Grow`, `AdjustDone`, the send on `tasks` is
  `PickTasks` (the variable is read) and `Handoff` or `SendPanics`. `rpc` and `wpc` say where a goroutine
  is. Files and updates are free choices. The Engine is a runner too: ONCE executes `MultiRunLogs` in it.
  `late` is a history variable; `Chans` are identities reused once nobody is blocked on them.
* `PoolPromise` - what `AmDone` promises whoever stops a host or disables a collection: a worker gets to an
  update only after it has seen that the host runs and then that its collection is enabled, and each update
  needs seeing them anew. `WorkerPool!Promise` instantiates it: `permit[w]` is how far through `AmDone` worker w
  is for its next update.
* `MongoSession` - the loop of `wrapMongo`, `tryReconnect`, `DialMongo` and the DB command. `DBLock` is
  `readers` and `writer`; taking it for writing has two halves because a waiting writer keeps new readers
  out. mgo is external: an update on an open session may succeed, time out or fail, on a closed one mgo
  panics with a string.
* `SessionPromise` - what `MongoSession` is for, without lock, sessions or the steps in between: one shared
  connection, a worker settles where its next update goes, a switch unsettles and settles again.
  `MongoSession!Promise` instantiates it: `shared` is the server of LiveDB, `target[w]` what worker w has
  prepared, `settled` that no DB command is being executed.
* `Throttle` - `perSecTicker` and `tickerChange` as numbers in the order they are made, 0 for nil. The two
  runners that call `AdjustProcs` are `MakeChan`, `MakeTicker` (the rate is read, and a bad one panics) and
  `AssignTicker`, because another may come in between; a worker's select is `ReadTicker`, `ReadChan`, and then
  `TakeTick` or `Redo`; a notifier reads the channel variable (`ReadForSend`) before it blocks on that channel.
  `oldticks` and `overlap` are history variables.
* `LogFiles` - the table of the 911 embedded log files, as the rotations that made them (906 of them "static",
  which are those that are replayed), and `Glob` over it.
  `LogRun` - one worker over one task after another: the files of the collection, `AggregateLog` and
  `makeAggregator` over a file's lines, the decoding of an id and the update. What `AmDone` and Mongo answer
  is a free choice. `sent` and `lost` are history variables.
* `CircBufMap` - the operations as operators. `Histories` - their use in the table of one node, `Self`: points
  are added for any host, hosts leave, and `Merge` replaces another host's list by the one a remote state
  brings. `past` is the history of what was taken over and added.
* `QpsMeter` extends `CircBufMap`: from the successful update to the history the dashboard shows, which is
  that of `Self` in `Histories`.
* `Gossip` - the tables of all hosts. memberlist is external: it notices members that come and go, may
  be wrong, delivers or loses messages, exchanges states. Callbacks under one lock are one step;
  `MergeRemoteState` is two (`MergeBegin`, `MergeEnd`), because it reads the members before it locks.
* `WebAssets` - the embedded files of the dashboard, as a table and as a tree. `WebServer` - which handler a
  request gets and what it answers, as a function; the mux's own answer to a subtree named without its slash,
  a redirect, is `Bare`. `Node` uses both: what the processes of several hosts do
  from `Boot` to the end, one action for each call that others can come in between of (`Dial`, `GetMetadata`,
  `Create` with `Retry`, `SetMembers`, `Find`, `Contact`, `JoinEnds`, `JoinSeed`, `Listen`; `Exit`, `CloseWeb`,
  `MonitorPanics`, `Die`, `Left`, `Ended`). `pc` is the newest process of a host, `old` what those before it
  still do; a process that leaves keeps the cluster's port, one that was told to die also the web port.
  `cluster` is who memberlist takes to be together.
* `UIPipe` - who holds and waits for memberlist's node lock, `ConfigMutex`, `sockLock`, room in `UIMsgs`
  and `EngineMsgs`. Contents of messages are left out; they are in `Gossip` and `QpsMeter`. What an `Others`
  goroutine does is one of `BeginSend` (MonitorQPS, workers, feeders, and exchanges, which look at the members
  too), `ClusterState`, `listen`, `BeginNotifyMsg` and `BeginRead`; `rest` is what the Engine still has to do
  after a message, in a TARGETQPS, in the run of ONCE and for its DONE.

The specifications share no variables except through the operations named here: `Gossip!Start` and
`Stop` are `WorkerPool!Start` and `Stop` seen from the cluster, `WorkerPool!Update` is the span of
`MongoSession` from `Look` to `Succeed` or `GiveUp`, `QpsMeter!Update` is a successful one of those, and
`Put` of `UIPipe` is `Send` of `QpsMeter` and `SendUI` of `Gossip`. `LogRun!RangeOver` is one turn of
`WorkerPool`'s loop over updates: `LogRun!TaskEnds` is what `WorkerPool!FiniteTasks` assumes. `TakeTick` and
`Redo` of `Throttle` are the two ways out of the select in which `WorkerPool` and `MongoSession` let a worker
wait; `Throttle!Notify` sends up to as many messages as there are workers because `CountNeverOverstates`
bounds `numprocs` by them. `Node!Listen` is where `UIPipe` begins, `Node!Exit` its closing of `UIMsgs`.

`MCWorkerPool`, `MCMongoSession` and `MCGossip` add symmetry sets; `MCLogRun` defines the contents of files
and the ids, `MCNode` the hosts' VPC and the browsers' requests. `MC*.cfg` files are the runs; `*Proofs`
modules hold the theorems.

## 3. What TLC checks

| Run | Checks | Instance and bounds |
|---|---|---|
| `pool_commands` | `TypeOK`, `CountNeverOverstates`, `AtMostOneLateUpdate`, `AdjustReachesTarget`, `KeepsPromise` (the refinement of `PoolPromise`) | 2 workers, 1 feeder and the Engine, 4 channels, 1 collection, all nine commands, PROCS 1 or 2, Glob may fail |
| `pool_stop` | `StopQuiesces` | 2 workers, 1 feeder; START, STOP and PROCS 2, so that the second worker starts once PROCS came; no assumption that tasks end |
| `mongo_session` | `LockExcludes`, `LiveIsOpen`, `LiveIsChosen`, `AtMostOneStaleUpdate`, `SwitchCompletes`, `KeepsPromise` (the refinement of `SessionPromise`) | 2 workers, 2 databases, 2 sessions |
| `qps_meter` | `TypeOK`, `NeverOverReports`, `ComesToShowZero` | 2 workers, 4 updates, history of 3, `UIMsgs` of 2 |
| `gossip` | `TypeOK`, `OwnRecordAuthoritative`, `StatesSettle`, `HistoriesSpread` | 2 hosts, one commanded, all commands, 2 of them; one halt or false suspicion |
| `ui_pipe` | `LocksAreShort`, `NoDeadlock`, `ServersGetThrough` | the Engine, the consumer, one eventer and two other goroutines, one socket, channels of 1; sockets fail in ways `WriteJSON` expects and in others, QPS messages are unreadable, ONCE |
| `throttle` | `TypeOK`, `NeverANilTicker`, `AtMostOneOldTick`, `RateIsTarget`, `SaneRatesAreSafe`, `WaitsEnd` | 2 workers, 1 feeder and the Engine, 2 tickers, 2 channels, 1 notifier at a time; rates 100, 5 000 000 and 0 |
| `logs` | `TypeOK`, `UpdatesAddUp`, `NothingForgotten`, `FewIdsCrash`, `OldestFileFirst`, `TaskEnds` | all 906 files, 140 contents of up to two lines; 8 ids, one good for every log and one for each fault |
| `node` | `TypeOK`, `ServingAreTogether`, `DashboardIsServed`, `StartEnds`, `ExitEnds` | 3 hosts of one VPC, one with a name of its own; 4 boots in all, 2 tries of `Create`, 1 failed contact; 16 requests |

Why these bounds. *Pool:* a race of `numprocs` needs the Engine or a feeder against a worker, or two
workers; `CompareAndSwap` fails only with two. One feeder identity is reused, so a second run meets the
workers of the first, and with the Engine in ONCE or PROCS there are two runners. At most two goroutines
exist beyond the pool, so a goroutine that could not be started with two identities only waits (`Grow` is
disabled), which adds no behaviour the properties could object to. Four channels suffice: in every reachable state of `pool_commands`
where `MakeTasks` is due there is one nobody refers to. A second collection changes
nothing these properties look at: workers compare their own collection with its switch. *Session:* two
workers are one that closes and one that uses; two databases are the old and the new; two sessions suffice
because a dial holds the write lock, and `Dial` waits for one that nobody refers to - a worker that
still refers to one goes on independently. *Meter:* four updates fill a history of three and overflow it.
*Cluster:* the properties are about pairs, and two hosts, one halt or suspicion and two commands are a
restart with an old record abroad, or a suspicion after a change that was lost. The theorem
`OwnRecordCorrect` covers the rest. *Pipe:* capacities of one make a channel full as soon as possible, and
two others are one that holds what the second waits for; `LocksAreShortCorrect` and `NoDeadlockCorrect` cover
all other sizes. *Throttle:* two tickers are the old and the new, two workers are
one that is told and one whose message another took; `ThrottleProofs` covers the safety properties for all
other numbers. *Logs:* a line can only disturb the one before or after it, of its own id or of another, and
both orders occur; a line too long comes first, in between and last. *Node:* four boots are enough for each
host to start at any moment of another's start, for one to be started while its last process leaves and to be
started anew after a panic; of `Create`'s tries only the last differs. `ServingAreTogetherCorrect` covers any
number of hosts, VPCs, boots and failed contacts. Requests are only made while the other hosts are off: what
is answered does not depend on them.

### Fairness

* Goroutines that can run are scheduled: `WF` on their steps.
* Go's mutexes and channels serve those that wait in turn (a mutex goes into starvation mode after a
  millisecond): `SF` on the steps that wait for a lock or for room, in `MongoSession` for the Engine, in
  `UIPipe` for the Engine, the consumer and memberlist's eventers, for whom others wait. Nothing is assumed
  there of the goroutines nobody waits for, nor that the Engine takes another command.
* `FiniteTasks`, in `WorkerPool!FairSpec`: a collection has finitely many files with finitely many
  records, as `TaskEnds` of `LogRun` shows. `pool_stop` does without it. The runs that show a violation use
  it, so that what they show is not a task that never ends.
* memberlist: a host finds a running host and gives up one that ended (`WF`); two hosts exchange states
  again and again, since each picks a random member every few seconds (`SF` of each direction); a message
  is delivered or lost. That a message *arrives* is never assumed.
* `MonitorQPS`'s ticker ticks. So does every ticker `AdjustProcs` ever made, since none is stopped, and a
  worker in a select is not passed over for ever when ticks keep coming: those who wait on a channel are
  served in the order they came (`SF` of `TakeTick`).
* In `Node` the calls of AWS, Mongo and memberlist return, with whatever result; memberlist's `Leave` is
  called with a timeout of five seconds.
* Commands, browsers, crashes and updates are never owed.

### Where the code does not do what it says

| Run | Property | What TLC shows |
|---|---|---|
| `pool_concurrent` | `RunsNConcurrent` | "Run n concurrent RunLogs() routines": after a quick STOP and START a worker of the old run closes the new run's channel; the run never settles on PROCS goroutines. |
| `mongo_crash` | `RecoverableErrorsAreSurvived` | "Reconnect to Mongo if we have a recoverable error": the reconnect closes the session another worker is using; the driver's panic ends the process. |
| `gossip_ghosts` | `NoGhosts` | "Only merge in nodes that are in the member list": a merge that read the list before a leave brings the host back. |

These instances are cut to the actors the counterexample needs: `pool_concurrent` has one feeder and
PROCS 1, `gossip_ghosts` three hosts and no command, `mongo_crash` one database.

## 4. What TLAPS proves

| Theorem | For every | From which invariant |
|---|---|---|
| `WorkerPoolProofs!TypeCorrect` | set of workers, feeders, collections, commands, targets | itself |
| `WorkerPoolProofs!CountCorrect` | same | itself; the lemmas `NobodyLost`, `OneLost`, `OneGained` say what a step does to `Cardinality(Counted)` |
| `WorkerPoolProofs!AdjustCorrect` | same | `CountNeverOverstates`: `AdjustDone` requires PROCS <= numprocs, and `Counted` is a part of `Live` |
| `WorkerPoolProofs!KeepsPromiseCorrect` | same | step simulation, under `TypeOK`: `AmDone` is `SeeRunning`, `CheckActive` is `SeeEnabled`, `Grow` is `Enter`, `Handoff` is `Take`, and what else changes a permit is `Leave` |
| `WorkerPoolProofs!PromiseIsEnough` | behaviour of `PoolPromise` | `LateInv`: who has made a late update has no permit that allows another |
| `WorkerPoolProofs!LateCorrect` | same as `CountCorrect` | the last two together: what the promise is enough for, the pool has |
| `MongoSessionProofs!LockExcludesCorrect`, `LiveIsOpenCorrect`, `LiveIsChosenCorrect` | set of workers, databases, sessions | `LockExcludes`, which is inductive: whoever dials is the one writer; `SessionInv`: the shared session, and one about to be installed, is open and dialled to WHICHDB, unless a DB command has changed it and not yet dropped the session |
| `MongoSessionProofs!AtMostOneStaleUpdateCorrect` | same | `StaleInv`: once the DB command has ended, whoever has made a stale update has nothing prepared that misses the chosen database; from `LiveIsChosen`'s invariant, which says what a worker can prepare |
| `MongoSessionProofs!KeepsPromiseCorrect` | same | step simulation: under the same invariant every action of `MongoSession` is a step of `SessionPromise` or leaves its variables alone |
| `ThrottleProofs!ThrottleTypeOK`, `NilTickerNever`, `OneOldTick`, `RateIsKept`, `SaneRates` | workers, feeders, tickers, channels, rates | `TickerFirst`: a runner in MultiRunLogs has made the channel, then the ticker, before it hands out a task; `OldTickOnce`: who took an old tick has read the ticker in use since, or is still to read it; `RateIsComing`: without an overlap one runner is in AdjustProcs, and if it has read the rate it is the one asked for |
| `NodeProofs!TypeCorrect`, `ServingAreTogetherCorrect` | hosts, VPCs, numbers of tries, boots and misses | `ClusterInv`: clusters are disjoint, and who is in one has the port; `PairInv`: of two hosts of a VPC that both listen, and did not fail to reach each other, one is still to contact the other, or they are together. This is what starting to listen before looking for the others is good for |
| `NodeProofs!DashboardIsServedCorrect` | requests, set of files whose type is known | what was answered is what `Answer` gives for that request. `AllRestored`: walking the tree from its root finds exactly the files of the table; `FileServed`, `PageFilesFound`: the mux takes a page's file to the file server, which finds it |
| `LogRunProofs!TypeCorrect`, `UpdatesAddUpCorrect`, `NothingForgottenCorrect`, `FewIdsCrashCorrect` | contents of files, prices, forms of ids | `IInv`: `PositionInv` (which file is in hand), `AggInv` (what was counted in it is the fold over its lines), `UpdatesInv` (an update says what was counted for its id), `CrashInv`. `FileCounted` says that the fold over the lines is the sum over the records, by induction over the lines read so far |
| `LogRunProofs!OldestFileFirstCorrect` | same | `GlobInOrder`: `Glob` gives the static files of the log in the order of their names, which is the order they were rotated in |
| `QpsMeterProofs!ListsCorrect` | set of hosts and items, length of lists, and lists that come by exchange | itself, by `RoomKeepsLatest`: dropping the head and appending moves the window by one; `WholeIsLatest`: a list that was taken over is all of its history |
| `QpsMeterProofs!HistoryIsKept`, `HistoryIsLatest` | workers, capacities, bounds | step simulation: the meter with a history of the points it appended is an instance of `Histories`; by `ListsCorrect` the dashboard's list is then the latest part of those points |
| `QpsMeterProofs!TypeCorrect`, `NeverOverReportsCorrect` | workers, capacities, bounds | `NothingTwice`: reported, loaded, counted and about to be counted are together at most the updates, and between load and store the loaded ones are still in MyQPS |
| `GossipProofs!TypeCorrect`, `OwnRecordCorrect` | hosts, commands, capacities, bounds | `OwnInv`: States[n][n] is Running[n], or the messages under way - in `UIMsgs` or about to be sent - end with the one that makes it so; with `DownInv` (a host that is down has nothing), `MergeInv` (mems is without the host itself), `NetInv` (nobody sends to itself by network) |
| `UIPipeProofs!LocksAreShortCorrect`, `NoDeadlockCorrect` | goroutines of each kind, sockets, failures, capacities | `Place(p)`: where a goroutine is while it holds a lock, and which kind may be there. It makes the lock order visible: node lock, `ConfigMutex`, `sockLock`. `NobodyIsStuck` then takes the holder of the innermost lock |

Why they must be strengthened: `NeverOverReports` alone says nothing about what is loaded and not yet
sent; `LiveIsOpen` would not survive an `Install` without knowing that no one else closed the session
meanwhile; `OwnRecordAuthoritative` says nothing while messages wait, which is when the handlers change
the record; `NoDeadlock` is not inductive at all.

Assumptions are those on the constants next to their declarations: identities are distinct, `Workers` is
finite where they are counted, capacities are positive; the files whose type is known are among those of the
page; every id in a file has a form. TLC evaluates them in the runs.

`ListsCorrect`, `HistoryIsKept` and `HistoryIsLatest` are proved and have no run: they say of any lengths
what a run could say of a few, and the list of `QpsMeter` is checked in `ComesToShowZero`. `ListsCorrect` is
about the list since it was made or last taken over; for the node's own list, which no exchange replaces,
that is since the node started.

The library's induction theorems take an operator as a parameter, which the installed provers cannot
instantiate. `LogRunProofs` does without: `NatSetInduction` and `SubsetInduction` are about a set of numbers
or of subsets, the least counterexample gives the first, and a claim by induction is stated as "the set of
the n for which it holds is Nat". With them `SumInAnyOrder` shows that the fold over a set does not depend on
the order its elements are chosen in, and `FoldByLine` that a fold over a prefix grows line by line.

Model-checked only: the liveness properties `StopQuiesces`, `SwitchCompletes`, `ComesToShowZero`,
`StatesSettle`, `HistoriesSpread`, `ServersGetThrough`, `WaitsEnd`, `TaskEnds`, `StartEnds` and `ExitEnds`, because
liveness under fairness and ENABLED are out of the prover's reach, and the three divergences at the
end of section 3, which are counterexamples. Every invariant, action property and refinement the runs check is a theorem.

## 5. Abstractions worth knowing

* Data races on `Running`, `PROCS`, `numprocs`, `tasks` and `WHICHDB` are sequentially consistent reads
  and writes of one word. What else a racy build may do is not covered.
* `numprocs` says "the actual number of goroutines". It never exceeds it, but a worker that leaves between
  files is subtracted twice, and a count that was reset leaves workers out: with every goroutine blocked the
  two may differ. AdjustProcs then starts more than PROCS.
* ONCE executes the loop in the Engine, which only a command to the Engine can end; its test expects DONE.
  The DONE goes to the Engine's own `EngineMsgs` first: if that is full the Engine waits for itself.
* The pool does not know the session or the ticker: `Update`, `NoUpdate` stand for all of `wrapMongo`.
* In `WorkerPool`, `FeederLoop` and `MultiRunLogs` can go on forever without help: `AdjustProcs` may start
  workers that leave at once because `tasks` is closed. `StopQuiesces` is therefore about workers out of the files.
* In `MongoSession` a worker that fails looks at the session again at once; `AmDone` is passed each time.
* `Throttle!RateIsTarget` needs `~overlap`: a feeder and the Engine may both have made a ticker, and the one
  for the older rate may be assigned last and stay until the next change. Old tickers tick on, and notifiers
  whose messages nobody takes stay blocked.
* In `LogRun` the bytes of a line are its tokens and an id is what its decoding meets. `DetailsLog` indexes
  and asserts without a test, and an object id is not checked: `FewIdsCrash` names those two kinds. A line
  too long ends the scan of the file silently.
* In `Node` a host whose `-hostname` is not its public DNS name does not find itself in what AWS returns, and
  so nobody: it serves alone, unless `-clusterhost` names one. A hitter whose VPC has other tagged
  instances of which it reaches none panics, the first of several included. After a DIE the web port is held
  until the process has ended, so that a process started meanwhile panics in `Listen`.
* In `Node` any call of `Start` may fail with an error, which ends the process; `Create` is tried again only
  when the address is in use.
* In `WebServer` the page's files are served, but an unknown file is answered with 500 and not 404, and a
  range drops the connection: `EmbeddedFile`'s Seeker is nil. A client that asks for a path with empty parts
  or dots is sent to the clean one first; the model starts from there.
* In `Gossip` a QPS history is there or not, `Logs` is treated as `Qps`, `Active` is about one collection.
  One remote state is merged at a time. With three hosts `StatesSettle` would not hold: two that have
  different records of a third may swap them, since a merge overwrites without comparing.
  A request for `/state` is in `UIPipe` only; its NewNode may write the state "stop" for a host that left after
  the members were read, an entry without a history, which a later join keeps and an exchange overwrites.
* In `UIPipe` writing to a socket ends at once with success or failure. A browser that does not read, so
  that the write blocks, blocks everything that needs `sockLock`, and after that what it stops.
  Three things can bring a hitter to a stop, and `NoDeadlock` and `ServersGetThrough` name them. (1) A socket
  that fails in a way `WriteJSON` does not expect: a handler under `sockLock` logs through `UIMsgs`, which
  nobody empties without `sockLock`, and `NotifyLeave`'s log asks memberlist for its members under the node
  lock it was called with. (2) A QPS message that is no number: the consumer logs it and returns
  (`web/ui.go:139-146`), and who sends waits for good once `UIMsgs` is full. (3) ONCE: while the Engine is in
  the run, or waits to send itself DONE, nobody empties `EngineMsgs`. Without (1) and (2) those who wait then
  all wait to give a command; without any of them somebody can always go on. `LocksAreShort` needs only
  that (1) has not happened. `DBLock` is in `MongoSession` only: it is held for a dial and while `LiveDB` is
  looked at, and whoever holds it sends nothing and takes no other lock.
* The feeder goes round without looking at `Running` while every collection is inactive; a STOP does not
  end that.

## 6. Not modelled

* The dashboard (`assets/js`): it runs in the browser and is no part of the process. What the page asks the
  server for is in `WebServer`; what it does with out-of-order messages is not covered (section 7).
* `Status`, `AmMaster` and `Count` of the cluster: they change no state, and nothing calls them.
* `testutil.go`, `testserve.go`, `data/test.go`, `common/test.go`: fakes and the test build. The one exception is
  the text go-bindata writes for `Asset` and `AssetNames`: it is the same, line by line, in `data/prod.go`
  19206-19251 and in `data/test.go` 171-216, and `PROJECT.json` names the short file. The table
  they look in is the one of `data/prod.go`, whose functions begin with the log's `_current` file;
  `OtherDataFiles` names the first of those it stands for.
* The bytes: gzip streams of the embedded files, base64, JSON and BSON. Their decoders are represented by
  what they may find. The wording of log messages.

## 7. What could be added

1. `Dashboard` - the nodes and QPS points of `index.js` against joins, leaves, the `/state` answer and QPS
   messages that arrive before it; `gone` deletes a node under another key than `join` adds it.
2. The composition of `Throttle` with `WorkerPool`: here a notifier's number is any up to the number of
   workers; there it is `numprocs`.
