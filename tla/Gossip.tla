-------------------------------- MODULE Gossip --------------------------------
(***************************************************************************)
(* What each hitter of a cluster knows of the others (cluster/cluster.go). *)
(* memberlist tells a node who is in the cluster (NotifyJoin, NotifyLeave) *)
(* and carries two kinds of traffic: UI messages over UDP, which may be    *)
(* lost or late, and push/pull exchanges of the whole state (LocalState,   *)
(* MergeRemoteState), which repair what was lost.  A node's own messages   *)
(* reach it through its channel UIMsgs (web/ui.go).                        *)
(*                                                                         *)
(* memberlist itself is external: it may report a host gone that is only   *)
(* slow, and report it again later.  It holds its node lock during the     *)
(* notifications, and they and LocalState hold ConfigMutex, so each is one *)
(* step; MergeRemoteState reads the members before it takes ConfigMutex.   *)
(* A QPS history is modelled by whether there is one; Logs is treated as   *)
(* Qps is.                                                                 *)
(***************************************************************************)
EXTENDS Naturals, Sequences

CONSTANTS
  Nodes,      \* host names
  Commanded,  \* the nodes whose users do something
  Commands,   \* what the users do
  UICAP,      \* bounds a node's own messages in UIMsgs
  MaxMoves,   \* bounds how often a host stops or is reported gone
  MaxChanges, \* bounds how often a command changes something
  Nothing     \* no push/pull state has arrived, no members have been read

ASSUME GossipAssumption ==
  /\ Commands \subseteq {"START", "STOP", "COLLSTART", "COLLSTOP", "QPS"}
  /\ UICAP \in Nat \ {0}

StateMsgs == {"STARTED", "STOPPED"}
Kinds == StateMsgs \cup {"QPS"}
Run == {"stop", "play"}

VARIABLES
  up,       \* the hosts whose process runs
  members,  \* the hosts each node's memberlist reports, itself included
  Running,  \* engine.Running of each node, as its state: stop or play
  sending,  \* the message a node's Engine is about to send, or none
  UIMsgs,   \* each node's own messages that wait for its StatsMessageConsumer
  net,      \* UI messages to others: in flight, or waiting in their UIMsgs
  Qps,      \* the hosts each node has a QPS history of
  States,   \* each node's States
  Active,   \* each node's Active, for one collection
  inbox,    \* the remote state a node is merging
  mems,     \* MergeRemoteState's mems, once it has read the members
  chosen,   \* history: the collection's switch as the commands have set it
  moves, changes  \* counters for the bounds

tables == <<Qps, States, Active>>
engine == <<Running, sending, chosen>>
merge == <<inbox, mems>>
vars == <<up, members, engine, UIMsgs, net, tables, merge, moves, changes>>

Tables == [qps : SUBSET Nodes, states : [Nodes -> Run \cup {"none"}],
           active : [Nodes -> {"on", "off", "none"}]]

TypeOK ==
  /\ up \subseteq Nodes
  /\ members \in [Nodes -> SUBSET Nodes]
  /\ Running \in [Nodes -> Run]
  /\ sending \in [Nodes -> StateMsgs \cup {"none"}]
  /\ UIMsgs \in [Nodes -> Seq(Kinds)]
  /\ net \subseteq (Nodes \X Nodes \X Kinds)
  /\ Qps \in [Nodes -> SUBSET Nodes]
  /\ States \in [Nodes -> [Nodes -> Run \cup {"none"}]]
  /\ Active \in [Nodes -> [Nodes -> {"on", "off", "none"}]]
  /\ inbox \in [Nodes -> Tables \cup {Nothing}]
  /\ mems \in [Nodes -> (SUBSET Nodes) \cup {Nothing}]
  /\ chosen \in [Nodes -> {"on", "off"}]
  /\ moves \in Nat
  /\ changes \in Nat

Row(v, n, mine) == [h \in Nodes |-> IF h = n THEN mine ELSE v]

\* No process runs yet.
Init ==
  /\ up = {}
  /\ members = [n \in Nodes |-> {}]
  /\ Running = [n \in Nodes |-> "stop"]
  /\ sending = [n \in Nodes |-> "none"]
  /\ UIMsgs = [n \in Nodes |-> <<>>]
  /\ net = {}
  /\ Qps = [n \in Nodes |-> {}]
  /\ States = [n \in Nodes |-> [h \in Nodes |-> "none"]]
  /\ Active = [n \in Nodes |-> [h \in Nodes |-> "none"]]
  /\ inbox = [n \in Nodes |-> Nothing]
  /\ mems = [n \in Nodes |-> Nothing]
  /\ chosen = [n \in Nodes |-> "on"]
  /\ moves = 0
  /\ changes = 0

-----------------------------------------------------------------------------
(***************************************************************************)
(* Processes.                                                              *)
(***************************************************************************)

\* NewCluster and the first half of Start: the node knows itself.
Boot(n) ==
  /\ n \notin up
  /\ up' = up \cup {n}
  /\ members' = [members EXCEPT ![n] = {n}]
  /\ Qps' = [Qps EXCEPT ![n] = {n}]
  /\ States' = [States EXCEPT ![n] = Row("none", n, "stop")]
  /\ Active' = [Active EXCEPT ![n] = Row("none", n, "on")]
  /\ UNCHANGED <<engine, UIMsgs, net, merge, moves, changes>>

\* The process ends, by EXIT, DIE or a crash, and takes all it knows along.
Halt(n) ==
  /\ n \in up
  /\ moves < MaxMoves
  /\ moves' = moves + 1
  /\ up' = up \ {n}
  /\ members' = [members EXCEPT ![n] = {}]
  /\ Running' = [Running EXCEPT ![n] = "stop"]
  /\ sending' = [sending EXCEPT ![n] = "none"]
  /\ chosen' = [chosen EXCEPT ![n] = "on"]
  /\ UIMsgs' = [UIMsgs EXCEPT ![n] = <<>>]
  /\ Qps' = [Qps EXCEPT ![n] = {}]
  /\ States' = [States EXCEPT ![n] = Row("none", n, "none")]
  /\ Active' = [Active EXCEPT ![n] = Row("none", n, "none")]
  /\ inbox' = [inbox EXCEPT ![n] = Nothing]
  /\ mems' = [mems EXCEPT ![n] = Nothing]
  /\ UNCHANGED <<net, changes>>

-----------------------------------------------------------------------------
(***************************************************************************)
(* The Engine and MonitorQPS of a node, and the messages they send.        *)
(***************************************************************************)

\* A command, or a tick of MonitorQPS, at node n.
Obey(n, cmd) ==
  /\ n \in Commanded
  /\ cmd \in Commands
  /\ changes < MaxChanges
  /\ changes' = changes + 1

\* START and STOP: Running first, then the message.
SetRunning(n, cmd, from, to, msg) ==
  /\ Obey(n, cmd)
  /\ n \in up
  /\ sending[n] = "none"
  /\ Running[n] = from
  /\ Running' = [Running EXCEPT ![n] = to]
  /\ sending' = [sending EXCEPT ![n] = msg]
  /\ UNCHANGED <<up, members, UIMsgs, net, tables, merge, chosen, moves>>

Start(n) == SetRunning(n, "START", "stop", "play", "STARTED")
Stop(n) == SetRunning(n, "STOP", "play", "stop", "STOPPED")

\* send: to every member by UDP, to the node itself through UIMsgs.
SendUI(n, msg) ==
  /\ Len(UIMsgs[n]) < UICAP
  /\ net' = net \cup {<<n, m, msg>> : m \in members[n] \ {n}}
  /\ UIMsgs' = [UIMsgs EXCEPT ![n] = Append(@, msg)]

SendState(n) ==
  /\ sending[n] # "none"
  /\ SendUI(n, sending[n])
  /\ sending' = [sending EXCEPT ![n] = "none"]
  /\ UNCHANGED <<up, members, Running, chosen, tables, merge, moves, changes>>

SendQps(n) ==
  /\ Obey(n, "QPS")
  /\ n \in up
  /\ SendUI(n, "QPS")
  /\ UNCHANGED <<up, members, engine, tables, merge, moves>>

\* COLLSTART and COLLSTOP: EnableColl and DisableColl write Active.  The message
\* that follows changes no table.
SetColl(n, cmd, state) ==
  /\ Obey(n, cmd)
  /\ n \in up
  /\ sending[n] = "none"
  /\ Active' = [Active EXCEPT ![n][n] = state]
  /\ chosen' = [chosen EXCEPT ![n] = state]
  /\ UNCHANGED <<up, members, Running, sending, UIMsgs, net, Qps, States, merge, moves>>

-----------------------------------------------------------------------------
(***************************************************************************)
(* StatsMessageConsumer.                                                   *)
(***************************************************************************)

\* Node n handles a message of host h, whoever h is.
Handle(n, h, msg) ==
  /\ Qps' = IF msg = "QPS" THEN [Qps EXCEPT ![n] = @ \cup {h}] ELSE Qps
  /\ States' = CASE msg = "STARTED" -> [States EXCEPT ![n][h] = "play"]
                 [] msg = "STOPPED" -> [States EXCEPT ![n][h] = "stop"]
                 [] msg = "QPS"     -> States
  /\ UNCHANGED Active

ConsumeOwn(n) ==
  /\ UIMsgs[n] # <<>>
  /\ Handle(n, n, Head(UIMsgs[n]))
  /\ UIMsgs' = [UIMsgs EXCEPT ![n] = Tail(@)]
  /\ UNCHANGED <<up, members, engine, net, merge, moves, changes>>

Consume(d) ==
  /\ d \in net
  /\ d[2] \in up
  /\ Handle(d[2], d[1], d[3])
  /\ net' = net \ {d}
  /\ UNCHANGED <<up, members, engine, UIMsgs, merge, moves, changes>>

\* UDP loses it, or the process it was sent to has ended.
Lose(d) ==
  /\ d \in net
  /\ net' = net \ {d}
  /\ UNCHANGED <<up, members, engine, UIMsgs, tables, merge, moves, changes>>

-----------------------------------------------------------------------------
(***************************************************************************)
(* Membership.                                                             *)
(***************************************************************************)

\* NotifyJoin, by way of NewNode: an unknown state becomes stop.
NotifyJoin(n, h) ==
  /\ {n, h} \subseteq up
  /\ h \notin members[n]
  /\ members' = [members EXCEPT ![n] = @ \cup {h}]
  /\ States' = [States EXCEPT ![n][h] = IF @ = "none" THEN "stop" ELSE @]
  /\ UNCHANGED <<up, engine, UIMsgs, net, Qps, Active, merge, moves, changes>>

\* NotifyLeave: h has ended, or is wrongly suspected.  Active is left.
NotifyLeave(n, h) ==
  /\ n \in up
  /\ h \in members[n] \ {n}
  /\ h \in up => moves < MaxMoves
  /\ moves' = IF h \in up THEN moves + 1 ELSE moves
  /\ members' = [members EXCEPT ![n] = @ \ {h}]
  /\ Qps' = [Qps EXCEPT ![n] = @ \ {h}]
  /\ States' = [States EXCEPT ![n][h] = "none"]
  /\ UNCHANGED <<up, engine, UIMsgs, net, Active, merge, changes>>

-----------------------------------------------------------------------------
(***************************************************************************)
(* Push/pull.  Either side of an exchange sends its LocalState, and either *)
(* direction may fail.  A node merges one remote state at a time here.     *)
(***************************************************************************)

\* Mutant: a table is left out of NodeConfig.
LocalStateNoActive(n) == [qps |-> Qps[n], states |-> States[n]]

LocalState(n) == [qps |-> Qps[n], states |-> States[n], active |-> Active[n]]

Exchange(from, to) ==
  /\ {from, to} \subseteq up
  /\ to \in members[from] \/ from \in members[to]
  /\ from # to
  /\ inbox[to] = Nothing
  /\ inbox' = [inbox EXCEPT ![to] = LocalState(from)]
  /\ UNCHANGED <<up, members, engine, UIMsgs, net, tables, mems, moves, changes>>

\* Mutants: a node does not ignore information about itself; it merges only
\* hosts it has a history of.
MergeableSelfToo(n) == members[n]
MergeableIfKnown(n) == (members[n] \ {n}) \cap Qps[n]

\* MergeRemoteState reads the members, all but this node itself...
Mergeable(n) == members[n] \ {n}

MergeBegin(n) ==
  /\ inbox[n] # Nothing
  /\ mems[n] = Nothing
  /\ mems' = [mems EXCEPT ![n] = Mergeable(n)]
  /\ UNCHANGED <<up, members, engine, UIMsgs, net, tables, inbox, moves, changes>>

\* ... and then, under ConfigMutex, takes over what the other has of them,
\* entries the other lacks included.
MergeEnd(n) ==
  /\ inbox[n] # Nothing
  /\ mems[n] # Nothing
  /\ LET hosts == inbox[n].qps \cap mems[n]
     IN  /\ Qps' = [Qps EXCEPT ![n] = @ \cup hosts]
         /\ States' = [States EXCEPT ![n] =
              [h \in Nodes |-> IF h \in hosts THEN inbox[n].states[h] ELSE @[h]]]
         /\ Active' = [Active EXCEPT ![n] =
              [h \in Nodes |-> IF h \in hosts THEN inbox[n].active[h] ELSE @[h]]]
  /\ inbox' = [inbox EXCEPT ![n] = Nothing]
  /\ mems' = [mems EXCEPT ![n] = Nothing]
  /\ UNCHANGED <<up, members, engine, UIMsgs, net, moves, changes>>

-----------------------------------------------------------------------------
EngineStep(n) ==
  \/ Start(n) \/ Stop(n) \/ SendState(n) \/ SendQps(n)
  \/ SetColl(n, "COLLSTART", "on") \/ SetColl(n, "COLLSTOP", "off")

MergeStep(n) == MergeBegin(n) \/ MergeEnd(n)

Next ==
  \/ \E n \in Nodes : Boot(n) \/ Halt(n) \/ EngineStep(n) \/ ConsumeOwn(n) \/ MergeStep(n)
  \/ \E n, h \in Nodes : NotifyJoin(n, h) \/ NotifyLeave(n, h) \/ Exchange(n, h)
  \/ \E d \in net : Consume(d) \/ Lose(d)

Spec == Init /\ [][Next]_vars

(***************************************************************************)
(* Fairness.  Goroutines are scheduled; memberlist finds a running host    *)
(* and gives up one that has ended; a message is delivered or lost.  A     *)
(* node exchanges states with a randomly chosen member every five seconds, *)
(* so it is never forever another's turn.                                  *)
(***************************************************************************)
Fairness ==
  /\ \A n \in Nodes : WF_vars(SendState(n)) /\ WF_vars(ConsumeOwn(n)) /\ WF_vars(MergeStep(n))
  /\ WF_vars(\E d \in net : Consume(d) \/ Lose(d))
  /\ WF_vars(\E n, h \in Nodes : NotifyJoin(n, h) \/ (h \notin up /\ NotifyLeave(n, h)))
  /\ \A n \in Nodes : \A h \in Nodes \ {n} : SF_vars(Exchange(n, h))

FairSpec == Spec /\ Fairness
-----------------------------------------------------------------------------
\* Whatever the others believe about it, and keep sending, a node's own record
\* is its own: the state it shows is its Engine's as soon as its own messages
\* are handled, also after a restart, when the others still have its old state,
\* and its switches are the ones commanded, which its workers obey.
OwnRecordAuthoritative ==
  \A n \in up :
    /\ n \in Qps[n]
    /\ Active[n][n] = chosen[n]
    /\ sending[n] = "none" /\ (\A i \in DOMAIN UIMsgs[n] : UIMsgs[n][i] = "QPS")
         => States[n][n] = Running[n]

\* Two nodes that remain members of each other.
Connected(n, h) == {n, h} \subseteq up /\ h \in members[n] /\ n \in members[h]

\* A member's history reaches the other node without a single UI message, as
\* the cluster test waits for, also after the other took it for gone.
HistoriesSpread ==
  \A n, h \in Nodes : <>[]Connected(n, h) => <>[](h \in Qps[n])

\* Push/pull repairs what UDP loses: with two nodes each comes to show the
\* other's state and switches.  (Not with three: two nodes that have different
\* records of the third may swap them again and again.)
StatesSettle ==
  \A n, h \in Nodes :
    <>[]Connected(n, h) =>
      <>[](States[n][h] = Running[h] /\ Active[n][h] = chosen[h])

\* The cluster test stops a node and expects the others' Qps to be without it:
\* once a node has taken notice of all that ended, and has no message or merge
\* under way, it has no history of a host that is not there.
NoGhosts ==
  \A n \in up :
    members[n] \subseteq up /\ inbox[n] = Nothing /\ (\A d \in net : d[2] # n)
      => Qps[n] \subseteq up

=============================================================================
