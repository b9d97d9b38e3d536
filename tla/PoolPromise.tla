------------------------------- MODULE PoolPromise -------------------------------
(***************************************************************************)
(* What AmDone promises those who stop a host or disable a collection,     *)
(* without the channels, the count of workers or the goroutines that feed  *)
(* them: a worker makes an update only with a permit, a permit is good for *)
(* one update, and to get one the worker must see that the host runs and   *)
(* then that its collection is enabled.  WorkerPool is shown to implement  *)
(* this.                                                                   *)
(***************************************************************************)
EXTENDS Naturals

CONSTANTS
  Workers,  \* the goroutines that make updates
  Colls     \* the collections

VARIABLES
  running,  \* whether the host runs
  active,   \* which collections are enabled
  coll,     \* the collection a worker is at
  permit,   \* what it has seen: nothing, that the host runs, or also that the
            \* collection is enabled
  late      \* history: the updates a worker made to a collection while it was not
            \* allowed to, since that changed

vars == <<running, active, coll, permit, late>>

None == [c \in Colls |-> 0]

Init ==
  /\ running = FALSE
  /\ active = [c \in Colls |-> TRUE]
  /\ coll \in [Workers -> Colls]
  /\ permit = [w \in Workers |-> "nothing"]
  /\ late = [w \in Workers |-> None]

\* The host is started or stopped, whatever the workers are doing.
Switch ==
  /\ running' \in BOOLEAN
  /\ late' = [w \in Workers |-> None]
  /\ UNCHANGED <<active, coll, permit>>

\* A collection is enabled or disabled.
SwitchColl(c) ==
  /\ active' = [active EXCEPT ![c] = ~@]
  /\ late' = [w \in Workers |-> [late[w] EXCEPT ![c] = 0]]
  /\ UNCHANGED <<running, coll, permit>>

\* A new worker, under the identity of one that is gone.
Enter(w) ==
  /\ permit[w] = "nothing"
  /\ late' = [late EXCEPT ![w] = None]
  /\ UNCHANGED <<running, active, coll, permit>>

\* A worker is given a collection, and has seen nothing yet.
Take(w) ==
  /\ permit[w] = "nothing"
  /\ \E c \in Colls : coll' = [coll EXCEPT ![w] = c]
  /\ UNCHANGED <<running, active, permit, late>>

SeeRunning(w) ==
  /\ permit[w] = "nothing"
  /\ running
  /\ permit' = [permit EXCEPT ![w] = "running"]
  /\ UNCHANGED <<running, active, coll, late>>

SeeEnabled(w) ==
  /\ permit[w] = "running"
  /\ active[coll[w]]
  /\ permit' = [permit EXCEPT ![w] = "enabled"]
  /\ UNCHANGED <<running, active, coll, late>>

\* The one update the permit is good for.
Update(w) ==
  /\ permit[w] = "enabled"
  /\ permit' = [permit EXCEPT ![w] = "nothing"]
  /\ late' = IF running /\ active[coll[w]] THEN late
             ELSE [late EXCEPT ![w][coll[w]] = @ + 1]
  /\ UNCHANGED <<running, active, coll>>

\* No update is made after all.
Leave(w) ==
  /\ permit' = [permit EXCEPT ![w] = "nothing"]
  /\ UNCHANGED <<running, active, coll, late>>

Next ==
  \/ Switch
  \/ \E c \in Colls : SwitchColl(c)
  \/ \E w \in Workers :
       Enter(w) \/ Take(w) \/ SeeRunning(w) \/ SeeEnabled(w) \/ Update(w) \/ Leave(w)

Spec == Init /\ [][Next]_vars
-----------------------------------------------------------------------------
TypeOK ==
  /\ running \in BOOLEAN
  /\ active \in [Colls -> BOOLEAN]
  /\ coll \in [Workers -> Colls]
  /\ permit \in [Workers -> {"nothing", "running", "enabled"}]
  /\ late \in [Workers -> [Colls -> Nat]]

\* Whoever keeps to this makes at most one update too many to a collection, each
\* time the host is stopped or the collection disabled.
OneLateUpdate == \A w \in Workers, c \in Colls : late[w][c] <= 1

\* Why: once that one is made, a permit for another can only be had after the
\* switch has changed back, which starts the history afresh.
LateInv ==
  \A w \in Workers, c \in Colls :
    \/ late[w][c] = 0
    \/ /\ late[w][c] = 1
       /\ ~(running /\ active[c])
       /\ ~running => permit[w] = "nothing"
       /\ ~active[c] /\ coll[w] = c => permit[w] # "enabled"
=============================================================================
