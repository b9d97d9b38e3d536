----------------------------- MODULE MongoSession -----------------------------
(***************************************************************************)
(* The one Mongo session all RunLogs workers share (engine/runlogs.go):    *)
(* the loop of wrapMongo, DialMongo, which replaces the session, and the   *)
(* Engine's DB command, which drops it so that the next update dials the   *)
(* newly chosen server.  DBLock, a read-write lock, protects LiveDB;       *)
(* WHICHDB is written and read without it.                                 *)
(*                                                                         *)
(* A session is an identity, reused once nobody refers to it; Mongo itself *)
(* is whatever an update on a session may answer.                          *)
(***************************************************************************)
EXTENDS Naturals

CONSTANTS
  Workers,    \* the goroutines that make updates
  Dbs,        \* the names a DB command may carry, keys of DBS and MONGODB
  FirstDb,    \* the one WHICHDB holds when the process starts
  Sessions,   \* identities of sessions: enough for all that are referred to
  NoSession,  \* the nil session
  Engine,     \* the goroutine that executes commands
  NoOne       \* nobody locks DBLock for writing

ASSUME SessionAssumption ==
  /\ FirstDb \in Dbs
  /\ NoSession \notin Sessions \cup Dbs
  /\ Sessions # {}
  /\ Engine \notin Workers
  /\ NoOne \notin Workers \cup {Engine}

SessionRefs == Sessions \cup {NoSession}

VARIABLES
  WHICHDB,  \* common.WHICHDB
  LiveDB,   \* engine.LiveDB
  server,   \* the server each session was dialled to
  open,     \* the sessions that have not been closed
  readers,  \* the workers that hold DBLock for reading
  writer,   \* who holds DBLock for writing, or keeps new readers out of it
            \* while waiting for those inside to leave
  epc,      \* the Engine: idle, or in a DB command before or in Lock
  wpc,      \* where each worker is
  wretry,   \* whether a worker dials after a timeout, not for want of a session
  wses,     \* the session of a worker's theColl, or the one it has dialled
  wname,    \* the database name of a worker's theColl
  alive,    \* FALSE once a panic has ended the process
  stale     \* history: updates a worker made to a server or a database other
            \* than WHICHDB's since the last DB command ended

lock == <<readers, writer>>
session == <<LiveDB, server, open>>
work == <<wpc, wretry, wses, wname>>
vars == <<WHICHDB, session, lock, epc, work, alive, stale>>

WorkerPC == {"top", "name", "lock", "drain", "dial", "install", "relock", "select"}

TypeOK ==
  /\ WHICHDB \in Dbs
  /\ LiveDB \in SessionRefs
  /\ server \in [Sessions -> Dbs]
  /\ open \subseteq Sessions
  /\ readers \subseteq Workers
  /\ writer \in Workers \cup {Engine, NoOne}
  /\ epc \in {"idle", "lock", "drain"}
  /\ wpc \in [Workers -> WorkerPC]
  /\ wretry \in [Workers -> BOOLEAN]
  /\ wses \in [Workers -> SessionRefs]
  /\ wname \in [Workers -> Dbs]
  /\ alive \in BOOLEAN
  /\ stale \in [Workers -> Nat]

\* main dials before anything else runs, and gives up when that fails.
Init ==
  /\ WHICHDB = FirstDb
  /\ LiveDB \in Sessions
  /\ server = [s \in Sessions |-> FirstDb]
  /\ open = {LiveDB}
  /\ readers = {}
  /\ writer = NoOne
  /\ epc = "idle"
  /\ wpc = [w \in Workers |-> "top"]
  /\ wretry = [w \in Workers |-> FALSE]
  /\ wses = [w \in Workers |-> NoSession]
  /\ wname = [w \in Workers |-> FirstDb]
  /\ alive = TRUE
  /\ stale = [w \in Workers |-> 0]

\* DBLock can be taken for reading.
CanRead == writer = NoOne

\* Mutant: whoever wants to write goes ahead.
BecomeWriterAnyway(p) == writer' = p

\* Lock, first half: one writer at a time, and no reader from now on.
BecomeWriter(p) == writer = NoOne /\ writer' = p

\* Lock, second half: the readers have left.
CanWrite == readers = {}

Goto(w, pc) == wpc' = [wpc EXCEPT ![w] = pc]

\* Outside a dial and without theColl a worker refers to no session.
Forget(w) ==
  /\ wses' = [wses EXCEPT ![w] = NoSession]
  /\ wname' = [wname EXCEPT ![w] = FirstDb]
  /\ wretry' = [wretry EXCEPT ![w] = FALSE]

-----------------------------------------------------------------------------
(***************************************************************************)
(* The Engine's DB command.                                                *)
(***************************************************************************)

\* WHICHDB is assigned first, without the lock.
ChooseDb ==
  /\ alive
  /\ epc = "idle"
  /\ WHICHDB' \in Dbs
  /\ epc' = "lock"
  /\ UNCHANGED <<session, lock, work, alive, stale>>

LockSession ==
  /\ alive
  /\ epc = "lock"
  /\ BecomeWriter(Engine)
  /\ epc' = "drain"
  /\ UNCHANGED <<WHICHDB, session, readers, work, alive, stale>>

\* Mutant: the session is kept.
DroppedForgotten == LiveDB

\* LiveDB is cleared, here without closing the session.
Dropped == NoSession

\* LiveDB is cleared under the lock, and DBSWITCHED sent.
DropSession ==
  /\ alive
  /\ epc = "drain"
  /\ CanWrite
  /\ LiveDB' = Dropped
  /\ writer' = NoOne
  /\ epc' = "idle"
  /\ stale' = [w \in Workers |-> 0]
  /\ UNCHANGED <<WHICHDB, server, open, readers, work, alive>>

EngineStep == ChooseDb \/ LockSession \/ DropSession

-----------------------------------------------------------------------------
(***************************************************************************)
(* wrapMongo.                                                              *)
(***************************************************************************)

\* The top of the loop, once AmDone has let the worker pass: is there a
\* session?  The read lock is kept only if there is.
Look(w) ==
  /\ wpc[w] = "top"
  /\ CanRead
  /\ IF LiveDB = NoSession
       THEN Goto(w, "lock") /\ UNCHANGED readers
       ELSE Goto(w, "name") /\ readers' = readers \cup {w}
  /\ UNCHANGED <<WHICHDB, session, writer, epc, wretry, wses, wname, alive, stale>>

\* The read lock again after a dial; LiveDB is not looked at a second time.
Relock(w) ==
  /\ wpc[w] = "relock"
  /\ CanRead
  /\ readers' = readers \cup {w}
  /\ Goto(w, "name")
  /\ UNCHANGED <<WHICHDB, session, writer, epc, wretry, wses, wname, alive, stale>>

\* The database name theColl gets, read without regard to LiveDB's server.
CollName == WHICHDB

\* theColl is that database on the session LiveDB holds, if it holds one.
PickColl(w) ==
  /\ wpc[w] = "name"
  /\ wses' = [wses EXCEPT ![w] = LiveDB]
  /\ wname' = [wname EXCEPT ![w] = CollName]
  /\ readers' = readers \ {w}
  /\ Goto(w, "select")
  /\ UNCHANGED <<WHICHDB, session, writer, epc, wretry, alive, stale>>

\* The ticker has changed: the loop starts over.
Redo(w) ==
  /\ wpc[w] = "select"
  /\ Goto(w, "top")
  /\ Forget(w)
  /\ UNCHANGED <<WHICHDB, session, lock, epc, alive, stale>>

\* theColl does not belong to the server and database WHICHDB names.
Strays(w) == wname[w] # WHICHDB \/ server[wses[w]] # WHICHDB

\* The ticker fires and the update succeeds.
Succeed(w) ==
  /\ wpc[w] = "select"
  /\ wses[w] \in open
  /\ stale' = IF epc = "idle" /\ Strays(w) THEN [stale EXCEPT ![w] = @ + 1] ELSE stale
  /\ Goto(w, "top")
  /\ Forget(w)
  /\ UNCHANGED <<WHICHDB, session, lock, epc, alive>>

\* The update fails with a timeout: tryReconnect dials.
TimeOut(w) ==
  /\ wpc[w] = "select"
  /\ wses[w] \in open
  /\ Goto(w, "lock")
  /\ wses' = [wses EXCEPT ![w] = NoSession]
  /\ wname' = [wname EXCEPT ![w] = FirstDb]
  /\ wretry' = [wretry EXCEPT ![w] = TRUE]
  /\ UNCHANGED <<WHICHDB, session, lock, epc, alive, stale>>

\* The update fails with another error, or on a nil session, whose panic is an
\* error and is recovered from: either way this update is given up.
GiveUp(w) ==
  /\ wpc[w] = "select"
  /\ wses[w] \in open \cup {NoSession}
  /\ Goto(w, "top")
  /\ Forget(w)
  /\ UNCHANGED <<WHICHDB, session, lock, epc, alive, stale>>

\* The driver refuses a session that has been closed by panicking with a
\* string; wrapMongo recovers only from errors and panics again.
Crash(w) ==
  /\ wpc[w] = "select"
  /\ wses[w] \in Sessions \ open
  /\ alive' = FALSE
  /\ UNCHANGED <<WHICHDB, session, lock, epc, work, stale>>

-----------------------------------------------------------------------------
(***************************************************************************)
(* DialMongo, which holds DBLock for writing throughout.                   *)
(***************************************************************************)

LockDial(w) ==
  /\ wpc[w] = "lock"
  /\ BecomeWriter(w)
  /\ Goto(w, "drain")
  /\ UNCHANGED <<WHICHDB, session, readers, epc, wretry, wses, wname, alive, stale>>

\* The current session is closed, whoever still works with it.
CloseSession(w) ==
  /\ wpc[w] = "drain"
  /\ CanWrite
  /\ open' = open \ {LiveDB}
  /\ LiveDB' = Dropped
  /\ Goto(w, "dial")
  /\ UNCHANGED <<WHICHDB, server, lock, epc, wretry, wses, wname, alive, stale>>

\* A session nobody refers to.
Unused(s) == LiveDB # s /\ \A w \in Workers : wses[w] # s

\* A session is dialled to the server WHICHDB names at this moment.
Dial(w) ==
  /\ wpc[w] = "dial"
  /\ \E s \in Sessions : Unused(s)
  /\ LET s == CHOOSE s \in Sessions : Unused(s)
     IN  /\ server' = [server EXCEPT ![s] = WHICHDB]
         /\ open' = open \cup {s}
         /\ wses' = [wses EXCEPT ![w] = s]
  /\ Goto(w, "install")
  /\ UNCHANGED <<WHICHDB, LiveDB, lock, epc, wretry, wname, alive, stale>>

\* Mutant: the early return leaves the lock held.
ReleasedUnlessEarly(w) == IF wpc[w] = "dial" THEN w ELSE NoOne

\* What the deferred Unlock leaves of worker w's lock.
Released(w) == NoOne

\* The dial fails: wrapMongo returns, the update is given up.
DialFails(w) ==
  /\ wpc[w] = "dial"
  /\ writer' = Released(w)
  /\ Goto(w, "top")
  /\ Forget(w)
  /\ UNCHANGED <<WHICHDB, session, readers, epc, alive, stale>>

\* Where wrapMongo goes on after DialMongo: a reconnect repeats the loop, a
\* missing session takes the read lock again.
AfterDial(w) == IF wretry[w] THEN "top" ELSE "relock"

\* The dialled session becomes the shared one.
Install(w) ==
  /\ wpc[w] = "install"
  /\ LiveDB' = wses[w]
  /\ writer' = Released(w)
  /\ Goto(w, AfterDial(w))
  /\ Forget(w)
  /\ UNCHANGED <<WHICHDB, server, open, readers, epc, alive, stale>>

-----------------------------------------------------------------------------
DialStep(w) ==
  LockDial(w) \/ CloseSession(w) \/ Dial(w) \/ DialFails(w) \/ Install(w)

UpdateStep(w) ==
  \/ Look(w) \/ Relock(w) \/ PickColl(w)
  \/ Redo(w) \/ Succeed(w) \/ TimeOut(w) \/ GiveUp(w) \/ Crash(w)

WorkerStep(w) == alive /\ (UpdateStep(w) \/ DialStep(w))

Next == EngineStep \/ \E w \in Workers : WorkerStep(w)

Spec == Init /\ [][Next]_vars

(***************************************************************************)
(* Fairness.  Goroutines are scheduled and a dial returns.  Whoever waits  *)
(* to become the writer gets its turn: Go's mutexes hand over to a waiter  *)
(* that has waited too long.                                               *)
(***************************************************************************)
Fairness ==
  /\ SF_vars(LockSession) /\ WF_vars(DropSession)
  /\ \A w \in Workers : WF_vars(WorkerStep(w))

FairSpec == Spec /\ Fairness
-----------------------------------------------------------------------------
\* The worker is in DialMongo, in Lock or past it.
Writing(w) == wpc[w] \in {"drain", "dial", "install"}

\* DBLock is held by those who are between taking and releasing it and by nobody
\* else, whichever of the early returns of wrapMongo and DialMongo they took; and
\* while a session is dialled no worker is between its look at LiveDB and the use
\* it makes of it.
LockExcludes ==
  /\ \A w \in Workers : w \in readers <=> wpc[w] = "name"
  /\ \A w \in Workers : writer = w <=> Writing(w)
  /\ writer = Engine <=> epc = "drain"
  /\ \A w \in Workers : wpc[w] \in {"dial", "install"} => readers = {}

\* LiveDB is never a closed session.  Any worker may close it at any time, and
\* a session that is closed while it is the shared one ends the process at the
\* next update.
LiveIsOpen == LiveDB # NoSession => LiveDB \in open

\* Between DB commands the shared session belongs to the server WHICHDB names,
\* although WHICHDB changes without the lock, in the middle of dials.
LiveIsChosen == epc = "idle" /\ LiveDB # NoSession => server[LiveDB] = WHICHDB

\* Once DBSWITCHED has been sent a worker makes at most one more update that
\* misses the chosen server or database: the one it had prepared before.
AtMostOneStaleUpdate == \A w \in Workers : stale[w] <= 1

\* The database worker w has prepared an update for: the server its collection's
\* session was dialled to, closed or not, and the name.
Target(w) ==
  IF wpc[w] = "select" /\ wses[w] # NoSession THEN <<server[wses[w]], wname[w]>> ELSE NoSession

Promise ==
  INSTANCE SessionPromise WITH
    Nothing <- NoSession,
    chosen <- WHICHDB,
    settled <- epc = "idle",
    shared <- IF LiveDB = NoSession THEN NoSession ELSE server[LiveDB],
    target <- [w \in Workers |-> Target(w)]

\* Lock, sessions and retries are only a way to keep a simple promise: what is
\* connected or prepared between DB commands goes to the server and database
\* that were chosen, and an update goes where it was prepared for, however often
\* others reconnect before it is made.
KeepsPromise == Promise!Spec

\* A DB command ends, unless the process does, however many workers look at the
\* session and dial: nobody leaves wrapMongo or DialMongo with DBLock held.
SwitchCompletes == epc # "idle" ~> (epc = "idle" \/ ~alive)

\* "Reconnect to Mongo if we have a recoverable error" (the comment on
\* tryReconnect): a timeout does not end the process.
RecoverableErrorsAreSurvived == alive

=============================================================================
