----------------------------- MODULE SessionPromise -----------------------------
(***************************************************************************)
(* What wrapMongo, DialMongo and the DB command promise together, without  *)
(* the lock, the sessions' identities or the steps in between: there is    *)
(* one connection that all workers share, a worker takes it and the name   *)
(* of the chosen database for its next update, and once a switch has       *)
(* settled every connection made is one to the chosen server.              *)
(* MongoSession is shown to implement this.                                *)
(***************************************************************************)
CONSTANTS
  Workers,  \* the goroutines that make updates
  Dbs,      \* the databases to choose from
  FirstDb,  \* the one chosen at first
  Nothing   \* no connection, no target

VARIABLES
  chosen,   \* the database chosen last
  settled,  \* whether DBSWITCHED has been sent for it
  shared,   \* the server of the shared connection, or Nothing
  target    \* the server and the name a worker's next update goes to, or Nothing

vars == <<chosen, settled, shared, target>>

Init ==
  /\ chosen = FirstDb
  /\ settled = TRUE
  /\ shared = FirstDb
  /\ target = [w \in Workers |-> Nothing]

\* A DB command begins: from here on anything may happen to the connection...
Switch ==
  /\ settled
  /\ chosen' \in Dbs
  /\ settled' = FALSE
  /\ UNCHANGED <<shared, target>>

\* ... until it ends, with no connection left.
Settle ==
  /\ ~settled
  /\ settled' = TRUE
  /\ shared' = Nothing
  /\ UNCHANGED <<chosen, target>>

\* The connection is closed, to be made anew.
Disconnect ==
  /\ shared' = Nothing
  /\ UNCHANGED <<chosen, settled, target>>

Connect ==
  /\ shared = Nothing
  /\ shared' \in Dbs
  /\ settled => shared' = chosen
  /\ UNCHANGED <<chosen, settled, target>>

\* A worker settles where its next update goes.
Prepare(w) ==
  /\ target[w] = Nothing
  /\ shared # Nothing
  /\ target' = [target EXCEPT ![w] = <<shared, chosen>>]
  /\ UNCHANGED <<chosen, settled, shared>>

\* The update is made there, or given up.
Finish(w) ==
  /\ target' = [target EXCEPT ![w] = Nothing]
  /\ UNCHANGED <<chosen, settled, shared>>

Next ==
  \/ Switch \/ Settle \/ Disconnect \/ Connect
  \/ \E w \in Workers : Prepare(w) \/ Finish(w)

Spec == Init /\ [][Next]_vars
=============================================================================
