-------------------------------- MODULE UIPipe --------------------------------
(***************************************************************************)
(* How the goroutines of one hitter wait for each other.  Messages for the *)
(* dashboards pass through the channel UIMsgs to StatsMessageConsumer      *)
(* (web/ui.go), which writes them to every web socket under sockLock       *)
(* (cluster/websockets.go); memberlist's notifications of members that     *)
(* come and go are written there too, under memberlist's node lock and,    *)
(* for a leave, ConfigMutex (cluster/cluster.go).  A socket that fails is  *)
(* logged, and a log line is itself a message for the dashboards.          *)
(*                                                                         *)
(* What a message says makes no difference here, so a channel is the       *)
(* number of messages in it.  memberlist is external: its nodeLock is held *)
(* during notifications, and taken by Members() and Leave().               *)
(***************************************************************************)
EXTENDS Naturals

CONSTANTS
  Eventers,  \* goroutines of memberlist that notify of joins and leaves
  Others,    \* MonitorQPS, workers, feeders, requests for /state, readers of web
             \* sockets, memberlist's goroutines for messages and exchanges
  Engine,    \* the Engine, which takes commands from EngineMsgs
  Consumer,  \* StatsMessageConsumer
  NoOne,     \* the holder of a free lock
  Sockets,   \* the web sockets browsers may open
  Failures,  \* how writing to a socket may come to fail
  UICAP, ENGINECAP  \* capacities of UIMsgs and EngineMsgs

Procs == Others \cup Eventers \cup {Engine, Consumer}

ASSUME PipeAssumption ==
  /\ NoOne \notin Procs
  /\ UICAP \in Nat \ {0}
  /\ ENGINECAP \in Nat \ {0}
  /\ Failures \subseteq {"closed", "bad"}
  /\ Others \cap (Eventers \cup {Engine, Consumer}) = {}
  /\ Eventers \cap {Engine, Consumer} = {}
  /\ Consumer # Engine

VARIABLES
  pc,          \* what each goroutine does or waits for next
  rest,        \* what the Engine goes on with after the message it is to send
  nodeLock,    \* who holds memberlist's node lock
  ConfigMutex, \* who holds Cluster.ConfigMutex
  sockLock,    \* who holds WebSockets.sockLock
  UIMsgs,      \* how many messages are in UIMsgs
  EngineMsgs,  \* how many commands are in EngineMsgs
  closed,      \* whether EXIT has closed UIMsgs
  alive,       \* whether the process still runs
  socket,      \* each web socket: not opened, working, or how writing to it fails
  towrite      \* the sockets the holder of sockLock has still to write to

locks == <<nodeLock, ConfigMutex, sockLock>>
chans == <<UIMsgs, EngineMsgs, closed>>
vars == <<pc, rest, locks, chans, alive, socket, towrite>>

Holders == Procs \cup {NoOne}

PC == {"idle", "node", "newnode", "leave", "table", "sock", "write",
       "members", "put", "putengine", "run", "stop", "gone"}

TypeOK ==
  /\ pc \in [Procs -> PC]
  /\ rest \in {"idle", "members", "run", "putengine"}
  /\ nodeLock \in Holders
  /\ ConfigMutex \in Holders
  /\ sockLock \in Holders
  /\ UIMsgs \in 0 .. UICAP
  /\ EngineMsgs \in 0 .. ENGINECAP
  /\ closed \in BOOLEAN
  /\ alive \in BOOLEAN
  /\ socket \in [Sockets -> {"none", "open", "closed", "bad"}]
  /\ towrite \subseteq Sockets

Init ==
  /\ pc = [p \in Procs |-> "idle"]
  /\ rest = "idle"
  /\ nodeLock = NoOne
  /\ ConfigMutex = NoOne
  /\ sockLock = NoOne
  /\ UIMsgs = 0
  /\ EngineMsgs = 0
  /\ closed = FALSE
  /\ alive = TRUE
  /\ socket = [s \in Sockets |-> "none"]
  /\ towrite = {}

Goto(p, l) == pc' = [pc EXCEPT ![p] = l]

\* The process ends, and every goroutine with it.
ProcessEnds == alive' = FALSE /\ pc' = [p \in Procs |-> "gone"]

-----------------------------------------------------------------------------
(***************************************************************************)
(* What the goroutines begin to do, at any time.                           *)
(***************************************************************************)

\* SendUI, as by MonitorQPS, and MergeRemoteState: both look at the members first.
BeginSend(p) ==
  /\ p \in Others
  /\ pc[p] = "idle"
  /\ Goto(p, "members")
  /\ UNCHANGED <<rest, locks, chans, alive, socket, towrite>>

\* A browser asks for /state: the members are read, and then, host by host, the
\* tables.  No lock is held in between, so one look at the tables stands for all.
ClusterState(p) ==
  /\ p \in Others
  /\ pc[p] = "idle"
  /\ Goto(p, "members")
  /\ UNCHANGED <<rest, locks, chans, alive, socket, towrite>>

\* A browser's command is passed on by SendEngine.
listen(p) ==
  /\ p \in Others
  /\ pc[p] = "idle"
  /\ Goto(p, "members")
  /\ UNCHANGED <<rest, locks, chans, alive, socket, towrite>>

\* NotifyMsg for a message of another node.
BeginNotifyMsg(p) ==
  /\ p \in Others
  /\ pc[p] = "idle"
  /\ Goto(p, "put") \/ Goto(p, "putengine")
  /\ UNCHANGED <<rest, locks, chans, alive, socket, towrite>>

\* memberlist has news about a host.
BeginNotify(e) ==
  /\ e \in Eventers
  /\ pc[e] = "idle"
  /\ Goto(e, "node")
  /\ UNCHANGED <<rest, locks, chans, alive, socket, towrite>>

\* LocalState and IsActive: a look at the tables.
BeginRead(p) ==
  /\ p \in Others
  /\ pc[p] = "idle"
  /\ Goto(p, "table")
  /\ UNCHANGED <<rest, locks, chans, alive, socket, towrite>>

\* The Engine takes a command: one of another host, one answered by a message,
\* a COLLSTART or COLLSTOP, or a DIE; a TARGETQPS of a running host, for which
\* AdjustProcs sends a message before its own; or ONCE, which the Engine itself
\* executes.
TakeCommand ==
  /\ pc[Engine] = "idle"
  /\ EngineMsgs > 0
  /\ EngineMsgs' = EngineMsgs - 1
  /\ \/ rest' = "idle" /\ \E l \in {"idle", "members", "table", "stop"} : Goto(Engine, l)
     \/ rest' = "members" /\ Goto(Engine, "members")
     \/ rest' = "run" /\ Goto(Engine, "run")
  /\ UNCHANGED <<locks, UIMsgs, closed, alive, socket, towrite>>

\* ONCE: MultiRunLogs tells the number of goroutines and looks up collections.
\* Whether it goes on, and with what, depends on the workers.
RunOnce ==
  /\ pc[Engine] = "run"
  /\ Goto(Engine, "members") \/ Goto(Engine, "table")
  /\ UNCHANGED <<rest, locks, chans, alive, socket, towrite>>

\* MultiRunLogs returns, and the Engine sends itself DONE.
OnceEnds ==
  /\ pc[Engine] = "run"
  /\ rest' = "putengine"
  /\ Goto(Engine, "members")
  /\ UNCHANGED <<locks, chans, alive, socket, towrite>>

\* EXIT: UIMsgs is closed and the Engine loop ends.
Exit ==
  /\ pc[Engine] = "idle"
  /\ EngineMsgs > 0
  /\ EngineMsgs' = EngineMsgs - 1
  /\ closed' = TRUE
  /\ Goto(Engine, "gone")
  /\ UNCHANGED <<rest, locks, UIMsgs, alive, socket, towrite>>

\* The consumer takes a message: STARTED, STOPPED, LOG and QPS change a table,
\* the others do not.  When the numbers of a QPS message cannot be read it logs
\* that and returns; when the second one is missing it panics.
TakeMessage ==
  /\ pc[Consumer] = "idle"
  /\ UIMsgs > 0
  /\ UIMsgs' = UIMsgs - 1
  /\ \/ alive' = alive /\ \E l \in {"table", "sock", "members"} : Goto(Consumer, l)
     \/ ProcessEnds
  /\ UNCHANGED <<rest, locks, EngineMsgs, closed, socket, towrite>>

\* The consumer finds UIMsgs closed: the web server is closed, Main returns.
ConsumerEnds ==
  /\ pc[Consumer] = "idle"
  /\ UIMsgs = 0
  /\ closed
  /\ ProcessEnds
  /\ UNCHANGED <<rest, locks, chans, socket, towrite>>

-----------------------------------------------------------------------------
(***************************************************************************)
(* Locks and channels.                                                     *)
(***************************************************************************)

\* After Members() send goes on with a channel, a reader with the tables.
AfterMembers(p) == CASE p = Engine /\ rest = "putengine" -> {"putengine"}
                     [] p \in Others -> {"put", "putengine", "table"}
                     [] OTHER -> {"put"}

Members(p) ==
  /\ pc[p] = "members"
  /\ nodeLock = NoOne
  /\ \E l \in AfterMembers(p) : Goto(p, l)
  /\ UNCHANGED <<rest, locks, chans, alive, socket, towrite>>

\* What a goroutine does when its message is in UIMsgs: whoever logged a failed
\* socket goes on with the sockets, and the consumer has logged its last words.
AfterPut(p) == CASE sockLock = p -> "write"
                 [] sockLock # p /\ p = Engine -> rest
                 [] sockLock # p /\ p = Consumer -> "gone"
                 [] OTHER -> "idle"

\* NotifyMsg of a UI message, which blocks while UIMsgs is full.
Put(p) ==
  /\ pc[p] = "put"
  /\ ~closed
  /\ UIMsgs < UICAP
  /\ UIMsgs' = UIMsgs + 1
  /\ Goto(p, AfterPut(p))
  /\ rest' = IF p = Engine /\ rest = "members" THEN "idle" ELSE rest
  /\ UNCHANGED <<locks, EngineMsgs, closed, alive, socket, towrite>>

\* A send on the closed channel, also one that was blocked, panics.  Only
\* MultiRunLogs recovers from that, and its feeder calls it again.
PutPanics(p) ==
  /\ pc[p] = "put"
  /\ closed
  /\ \/ ProcessEnds
     \/ p \in Others /\ Goto(p, "idle") /\ alive' = alive
  /\ UNCHANGED <<rest, locks, chans, socket, towrite>>

\* NotifyMsg of a command, which blocks while EngineMsgs is full.
PutEngine(p) ==
  /\ pc[p] = "putengine"
  /\ EngineMsgs < ENGINECAP
  /\ EngineMsgs' = EngineMsgs + 1
  /\ Goto(p, "idle")
  /\ rest' = IF p = Engine THEN "idle" ELSE rest
  /\ UNCHANGED <<locks, UIMsgs, closed, alive, socket, towrite>>

\* A short use of the tables, with nothing done meanwhile that could wait.
AfterTable(p) == CASE p \in Others -> "idle"
                   [] p = Engine -> IF rest = "run" THEN "run" ELSE "members"
                   [] OTHER -> "sock"

Table(p) ==
  /\ pc[p] \in {"table", "newnode"}
  /\ ConfigMutex = NoOne
  /\ Goto(p, AfterTable(p))
  /\ UNCHANGED <<rest, locks, chans, alive, socket, towrite>>

\* memberlist takes its lock and calls NotifyJoin, which starts with NewNode,
\* or NotifyLeave, which starts by taking ConfigMutex.
Notify(e) ==
  /\ pc[e] = "node"
  /\ nodeLock = NoOne
  /\ nodeLock' = e
  /\ Goto(e, "newnode") \/ Goto(e, "leave")
  /\ UNCHANGED <<rest, ConfigMutex, sockLock, chans, alive, socket, towrite>>

LockConfig(e) ==
  /\ pc[e] = "leave"
  /\ ConfigMutex = NoOne
  /\ ConfigMutex' = e
  /\ Goto(e, "sock")
  /\ UNCHANGED <<rest, nodeLock, sockLock, chans, alive, socket, towrite>>

\* WriteJSON.
LockSock(p) ==
  /\ pc[p] = "sock"
  /\ sockLock = NoOne
  /\ sockLock' = p
  /\ towrite' = {s \in Sockets : socket[s] # "none"}
  /\ Goto(p, "write")
  /\ UNCHANGED <<rest, nodeLock, ConfigMutex, chans, alive, socket>>

\* Mutant: a browser that went away is logged too.
LogsErrorAlways(s) == socket[s] \notin {"none", "open"}

\* "broken pipe" and "close sent" are not logged.
LogsError(s) == socket[s] = "bad"

\* One socket is written to; Log, that is SendUI, if that fails.
Write(p, s) ==
  /\ pc[p] = "write"
  /\ s \in towrite
  /\ towrite' = towrite \ {s}
  /\ IF LogsError(s) THEN Goto(p, "members") ELSE UNCHANGED pc
  /\ UNCHANGED <<rest, locks, chans, alive, socket>>

\* Mutant: NotifyLeave returns with its locks held.
UnlockedForgotten(lock, p) == lock

\* The lock as it is after p has released it.
Unlocked(lock, p) == IF lock = p THEN NoOne ELSE lock

\* WriteJSON returns, and the handler with it: every lock is released.
Unlock(p) ==
  /\ pc[p] = "write"
  /\ towrite = {}
  /\ sockLock' = NoOne
  /\ ConfigMutex' = Unlocked(ConfigMutex, p)
  /\ nodeLock' = Unlocked(nodeLock, p)
  /\ Goto(p, "idle")
  /\ UNCHANGED <<rest, chans, alive, socket, towrite>>

\* DIE: Leave takes the node lock, then the process exits.
Stop(p) ==
  /\ pc[p] = "stop"
  /\ nodeLock = NoOne
  /\ ProcessEnds
  /\ UNCHANGED <<rest, locks, chans, socket, towrite>>

-----------------------------------------------------------------------------
(***************************************************************************)
(* Browsers.  A socket is never taken off the list of listeners.           *)
(***************************************************************************)
ServeWs(s) ==
  /\ socket[s] = "none"
  /\ sockLock = NoOne
  /\ socket' = [socket EXCEPT ![s] = "open"]
  /\ UNCHANGED <<pc, rest, locks, chans, alive, towrite>>

\* The browser goes away: writing fails with an error WriteJSON knows, or with
\* another one, as when the connection is reset.
Disconnect(s) ==
  /\ socket[s] = "open"
  /\ \E e \in Failures : socket' = [socket EXCEPT ![s] = e]
  /\ UNCHANGED <<pc, rest, locks, chans, alive, towrite>>

-----------------------------------------------------------------------------
\* What a goroutine that has begun something does.
Work(p) ==
  \/ Members(p) \/ Put(p) \/ PutPanics(p) \/ PutEngine(p)
  \/ Table(p) \/ Notify(p) \/ LockConfig(p) \/ LockSock(p) \/ Unlock(p) \/ Stop(p)
  \/ \E s \in Sockets : Write(p, s)

Next ==
  /\ alive
  /\ \/ TakeCommand \/ RunOnce \/ OnceEnds \/ Exit
     \/ TakeMessage \/ ConsumerEnds
     \/ \E p \in Procs :
          \/ BeginSend(p) \/ ClusterState(p) \/ listen(p) \/ BeginRead(p)
          \/ BeginNotifyMsg(p) \/ BeginNotify(p) \/ Work(p)
     \/ \E s \in Sockets : ServeWs(s) \/ Disconnect(s)

Spec == Init /\ [][Next]_vars

\* Those that others wait for.
Servers == Eventers \cup {Engine, Consumer}

(***************************************************************************)
(* Fairness.  Goroutines are scheduled; Go's mutexes and channels serve    *)
(* those that wait for them in turn, so nobody is passed over forever.     *)
(* Only those that others wait for need it: nothing is assumed of the      *)
(* others, nor that the Engine takes a command.                            *)
(***************************************************************************)
Fairness ==
  /\ \A p \in Servers : SF_vars(alive /\ Work(p))
  /\ WF_vars(alive /\ (TakeMessage \/ ConsumerEnds))

FairSpec == Spec /\ Fairness
-----------------------------------------------------------------------------
\* A goroutine that has not finished what it began.  In ONCE the Engine has, as
\* far as locks and channels go: what it then waits for are workers.
Busy(p) == pc[p] \notin {"idle", "run", "gone"}

\* Nothing this goroutine needs for its next step is missing.
CanRun(p) ==
  CASE pc[p] \in {"members", "node", "stop"} -> nodeLock = NoOne
    [] pc[p] \in {"table", "newnode", "leave"} -> ConfigMutex = NoOne
    [] pc[p] = "sock" -> sockLock = NoOne
    [] pc[p] = "write" -> TRUE
    [] pc[p] = "put" -> closed \/ UIMsgs < UICAP
    [] pc[p] = "putengine" -> EngineMsgs < ENGINECAP
    [] pc[p] = "idle" -> \/ p = Consumer /\ (UIMsgs > 0 \/ closed)
                         \/ p = Engine /\ EngineMsgs > 0
    [] OTHER -> FALSE

NoBadSocket == \A s \in Sockets : socket[s] # "bad"

\* The consumer has met a QPS message it cannot read: it returns, or has returned.
ConsumerLost ==
  \/ pc[Consumer] = "gone"
  \/ pc[Consumer] \in {"members", "put"} /\ sockLock # Consumer

\* The Engine executes ONCE, or is to send itself DONE: nobody takes commands.
InOnce == pc[Engine] \in {"run", "putengine"}

\* The Engine can't send itself DONE, since only the Engine takes commands.
StuckOnDone == pc[Engine] = "putengine" /\ EngineMsgs = ENGINECAP

\* As long as no socket fails in an unexpected way, nobody who holds a lock waits
\* for a channel, for memberlist's members or for a lock that comes before it:
\* NotifyLeave may hold node lock, ConfigMutex and sockLock at once.
LocksAreShort ==
  alive /\ NoBadSocket => \A p \in Procs :
    /\ p \in {nodeLock, ConfigMutex, sockLock} =>
         pc[p] \notin {"put", "putengine", "members", "node", "stop"}
    /\ p \in {ConfigMutex, sockLock} => pc[p] \notin {"table", "newnode", "leave"}
    /\ p = sockLock => pc[p] # "sock"

\* Without such a socket, and with a consumer, the goroutines cannot all wait for
\* each other: not the handlers that hold three locks, nor those that fill the
\* channels, nor after EXIT.  Nobody can go on then only because the Engine
\* executes ONCE, and those who wait are waiting to give it commands: browsers,
\* memberlist's receiver, or the Engine itself with its DONE.
NoDeadlock ==
  alive /\ NoBadSocket /\ ~ConsumerLost /\ (\A p \in Procs : ~CanRun(p))
    => \A p \in Procs : Busy(p) => InOnce /\ pc[p] = "putengine"

\* Nor do those the others wait for wait forever: every notification, message and
\* command is dealt with, unless the process ends.  An eventer needs no consumer
\* for that; the Engine does, and room for its DONE.
ServersGetThrough ==
  []NoBadSocket => \A p \in Servers :
    Busy(p) ~> \/ ~Busy(p)
               \/ p \notin Eventers /\ ConsumerLost
               \/ p = Engine /\ StuckOnDone

=============================================================================
