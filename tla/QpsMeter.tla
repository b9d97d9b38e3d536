------------------------------- MODULE QpsMeter -------------------------------
(***************************************************************************)
(* How many updates a host makes per second: workers add to MyQPS after    *)
(* each successful update (engine/runlogs.go), MonitorQPS takes the count  *)
(* once a second in two steps and sends it as a QPS message, which the     *)
(* StatsMessageConsumer of the dashboard reads from UIMsgs and appends to  *)
(* the host's history (engine/engine.go, web/ui.go).                       *)
(*                                                                         *)
(* Only the host's own messages are modelled: they are not sent over the   *)
(* network but put into UIMsgs directly.                                   *)
(***************************************************************************)
EXTENDS CircBufMap, FiniteSets

CONSTANTS
  HostName,   \* this host
  Workers,    \* the goroutines that make updates
  UICAP,      \* the capacity of UIMsgs
  MaxUpdates  \* bounds the number of updates made

ASSUME MeterAssumption ==
  /\ IsFiniteSet(Workers)
  /\ UICAP \in Nat \ {0}
  /\ MaxUpdates \in Nat

VARIABLES
  MyQPS,     \* engine.MyQPS
  mpc,       \* MonitorQPS: waiting for its ticker, before its store, or sending
  qps,       \* what MonitorQPS has loaded
  started,   \* whether the Engine has begun
  wpc,       \* each worker: in an update, or about to count it
  UIMsgs,    \* cluster.Clus.UIMsgs
  Qps,       \* cluster.Clus.Qps, as far as it concerns this host
  updates,   \* history variable: the updates made so far
  reported   \* history variable: the sum of all points sent

vars == <<MyQPS, mpc, qps, started, wpc, UIMsgs, Qps, updates, reported>>

TypeOK ==
  /\ MyQPS \in Nat
  /\ mpc \in {"tick", "store", "send"}
  /\ qps \in Nat
  /\ started \in BOOLEAN
  /\ wpc \in [Workers -> {"update", "count"}]
  /\ UIMsgs \in Seq(Nat)
  /\ Qps \in [{HostName} -> Seq(Nat)]
  /\ Len(Qps[HostName]) <= CIRCBUFMAPLEN
  /\ Len(UIMsgs) <= UICAP
  /\ updates \in Nat
  /\ reported \in Nat

Init ==
  /\ MyQPS = 0
  /\ mpc = "tick"
  /\ qps = 0
  /\ started = FALSE
  /\ wpc = [w \in Workers |-> "update"]
  /\ UIMsgs = <<>>
  /\ Qps = MakeNode(NewCircBufMap, HostName)
  /\ updates = 0
  /\ reported = 0

\* The Engine begins, concurrently with MonitorQPS, and resets the count;
\* workers exist only later.
Begin ==
  /\ ~started
  /\ started' = TRUE
  /\ MyQPS' = 0
  /\ UNCHANGED <<mpc, qps, wpc, UIMsgs, Qps, updates, reported>>

\* An update succeeds...
Update(w) ==
  /\ started
  /\ updates < MaxUpdates
  /\ wpc[w] = "update"
  /\ updates' = updates + 1
  /\ wpc' = [wpc EXCEPT ![w] = "count"]
  /\ UNCHANGED <<MyQPS, mpc, qps, started, UIMsgs, Qps, reported>>

\* ... and is then counted, atomically.
Count(w) ==
  /\ wpc[w] = "count"
  /\ MyQPS' = MyQPS + 1
  /\ wpc' = [wpc EXCEPT ![w] = "update"]
  /\ UNCHANGED <<mpc, qps, started, UIMsgs, Qps, updates, reported>>

Load ==
  /\ mpc = "tick"
  /\ qps' = MyQPS
  /\ mpc' = "store"
  /\ UNCHANGED <<MyQPS, started, wpc, UIMsgs, Qps, updates, reported>>

\* Mutant: the count is not reset.
AfterStoreKept == MyQPS

\* The reset loses what was counted since the load.
AfterStore == 0

Store ==
  /\ mpc = "store"
  /\ MyQPS' = AfterStore
  /\ mpc' = "send"
  /\ UNCHANGED <<qps, started, wpc, UIMsgs, Qps, updates, reported>>

\* SendUI: the message waits for a place in UIMsgs.
Send ==
  /\ mpc = "send"
  /\ Len(UIMsgs) < UICAP
  /\ UIMsgs' = Append(UIMsgs, qps)
  /\ qps' = 0
  /\ mpc' = "tick"
  /\ reported' = reported + qps
  /\ UNCHANGED <<MyQPS, started, wpc, Qps, updates>>

\* The QPS case of StatsMessageConsumer.
Consume ==
  /\ UIMsgs # <<>>
  /\ Qps' = AppendItem(Qps, HostName, Head(UIMsgs))
  /\ UIMsgs' = Tail(UIMsgs)
  /\ UNCHANGED <<MyQPS, mpc, qps, started, wpc, updates, reported>>

Next ==
  \/ Begin \/ Load \/ Store \/ Send \/ Consume
  \/ \E w \in Workers : Update(w) \/ Count(w)

Spec == Init /\ [][Next]_vars

\* MonitorQPS's ticker ticks, the consumer goes on reading, and a worker that
\* has made an update counts it.
Fairness ==
  /\ WF_vars(Load) /\ WF_vars(Store) /\ WF_vars(Send) /\ WF_vars(Consume)
  /\ \A w \in Workers : WF_vars(Count(w))

FairSpec == Spec /\ Fairness
-----------------------------------------------------------------------------
\* The host never reports more updates than it made: none is counted twice on
\* its way, although the count is taken and reset in two steps while workers go
\* on adding to it.  (It may report fewer: those counted between the two steps
\* are lost.)
NeverOverReports == reported <= updates

\* When no more updates are made the dashboard comes to say so: the last point
\* of the history is and remains 0, however many messages were queued.
ComesToShowZero ==
  <>[][updates' = updates]_vars =>
    <>[](Qps[HostName] # <<>> /\ Last(Qps, HostName) = 0)

=============================================================================
