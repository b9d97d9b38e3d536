-------------------------------- MODULE Throttle --------------------------------
(***************************************************************************)
(* How the rate of updates is set and changed.  All workers wait for the   *)
(* ticks of one ticker, perSecTicker (wrapMongo in engine/runlogs.go).     *)
(* AdjustProcs replaces the ticker without stopping the old one, and       *)
(* starts a goroutine that sends as many messages on tickerChange as there *)
(* are workers, so that those who wait for the old ticker start over.      *)
(* MultiRunLogs replaces tickerChange itself.                              *)
(*                                                                         *)
(* Tickers and channels are numbered in the order in which they are made;  *)
(* 0 is nil.  Who the workers are and when they leave is module WorkerPool.*)
(***************************************************************************)
EXTENDS Integers, FiniteSets

CONSTANTS
  Workers,     \* RunLogs goroutines
  Feeders,     \* goroutines started by START
  Engine,      \* the goroutine that executes commands
  Second,      \* time.Second, in nanoseconds
  Rates,       \* the numbers a TARGETQPS command may carry; 0 for no number
  FirstRate,   \* the declared value of PERSEC
  Notifiers,   \* identities of notifying goroutines; bounds how many live at once
  MaxTickers,  \* bound on the tickers made
  MaxChans     \* bound on the channels made for tickerChange

Runners == Feeders \cup {Engine}

ASSUME ThrottleAssumption ==
  /\ IsFiniteSet(Workers)
  /\ Second \in Nat \ {0}
  /\ Rates \subseteq Int
  /\ FirstRate \in 1 .. Second
  /\ MaxTickers \in Nat
  /\ MaxChans \in Nat

VARIABLES
  Running,       \* engine.Running
  PERSEC,        \* cluster.PERSEC, the rate asked for
  perSecTicker,  \* the ticker in use
  tickerChange,  \* the channel in use
  alive,         \* the process has not panicked
  rpc,           \* where each runner is
  inrun,         \* the runners that are in MultiRunLogs
  rrate,         \* the rate a runner is making a ticker for
  tickRate,      \* the rate the ticker in use was made for
  ready,         \* the tickers with a tick in their channel
  fed,           \* a task has been handed out
  wpc,           \* where each worker is
  wticker,       \* the ticker a worker waits for
  wchan,         \* the channel it waits for
  notes,         \* what each notifier has left to send, and on which channel
  oldticks,      \* history: ticks a worker took of a ticker no longer in use,
                 \* since the ticker was last replaced
  overlap        \* history: two runners have been in AdjustProcs at a time

runner == <<rpc, inrun, rrate>>
ticker == <<perSecTicker, tickRate>>
worker == <<wpc, wticker, wchan>>
vars == <<Running, PERSEC, ticker, tickerChange, alive, runner, ready, fed,
          worker, notes, oldticks, overlap>>

Tickers == 0 .. MaxTickers
ChanNos == 0 .. MaxChans
NoChan == -1

RunnerPC == {"idle", "make", "adjust", "assign", "feed"}

\* A notifier: how many messages are left, and the channel it is blocked on
\* once it has read tickerChange for the next of them.
Done == [left |-> 0, chan |-> NoChan]

TypeOK ==
  /\ Running \in BOOLEAN
  /\ PERSEC \in Int
  /\ perSecTicker \in Tickers
  /\ tickerChange \in ChanNos
  /\ alive \in BOOLEAN
  /\ rpc \in [Runners -> RunnerPC]
  /\ inrun \subseteq Runners
  /\ rrate \in [Runners -> Int]
  /\ tickRate \in Int
  /\ ready \subseteq 1 .. perSecTicker
  /\ fed \in BOOLEAN
  /\ wpc \in [Workers -> {"away", "half", "select"}]
  /\ wticker \in [Workers -> 0 .. perSecTicker]
  /\ wchan \in [Workers -> 0 .. tickerChange]
  /\ notes \in [Notifiers -> [left: 0 .. Cardinality(Workers), chan: ChanNos \cup {NoChan}]]
  /\ oldticks \in [Workers -> Nat]
  /\ overlap \in BOOLEAN

Init ==
  /\ Running = FALSE
  /\ PERSEC = FirstRate
  /\ perSecTicker = 0
  /\ tickerChange = 0
  /\ alive = TRUE
  /\ rpc = [r \in Runners |-> "idle"]
  /\ inrun = {}
  /\ rrate = [r \in Runners |-> FirstRate]
  /\ tickRate = FirstRate
  /\ ready = {}
  /\ fed = FALSE
  /\ wpc = [w \in Workers |-> "away"]
  /\ wticker = [w \in Workers |-> 0]
  /\ wchan = [w \in Workers |-> 0]
  /\ notes = [n \in Notifiers |-> Done]
  /\ oldticks = [w \in Workers |-> 0]
  /\ overlap = FALSE

-----------------------------------------------------------------------------
(***************************************************************************)
(* The Engine's commands.                                                  *)
(***************************************************************************)
Goto(r, pc) == rpc' = [rpc EXCEPT ![r] = pc]

\* Mutant: i <= int(p).
NotifyOneMore ==
  \E n \in Notifiers, p \in 0 .. Cardinality(Workers) :
    /\ notes[n] = Done
    /\ notes' = [notes EXCEPT ![n] = [Done EXCEPT !.left = p + 1]]

\* A goroutine that sends p messages on tickerChange.  numprocs, its p, never
\* exceeds the number of workers (WorkerPool), but may fall short of it.
Notify ==
  \E n \in Notifiers, p \in 0 .. Cardinality(Workers) :
    /\ notes[n] = Done
    /\ notes' = [notes EXCEPT ![n] = [Done EXCEPT !.left = p]]

\* AdjustProcs is entered.
Adjust(r) ==
  /\ Goto(r, "adjust")
  /\ overlap' = (overlap \/ \E q \in Runners \ {r} : rpc[q] \in {"adjust", "assign"})

\* Mutant: the new rate is left to the next run.
LeaveTicker == UNCHANGED <<rpc, overlap>>

\* The Engine calls AdjustProcs, but only while running.
Readjust == IF Running THEN Adjust(Engine) ELSE UNCHANGED <<rpc, overlap>>

\* START: a feeder goroutine, which calls MultiRunLogs.  ONCE: the Engine does.
Start ==
  /\ rpc[Engine] = "idle"
  /\ ~Running
  /\ Running' = TRUE
  /\ \E r \in Runners :
        rpc[r] = "idle" /\ Goto(r, "make") /\ inrun' = inrun \cup {r}
  /\ UNCHANGED <<PERSEC, ticker, tickerChange, alive, rrate, ready, fed,
                 worker, notes, oldticks, overlap>>

Stop ==
  /\ rpc[Engine] = "idle"
  /\ Running
  /\ Running' = FALSE
  /\ UNCHANGED <<PERSEC, ticker, tickerChange, alive, runner, ready, fed,
                 worker, notes, oldticks, overlap>>

\* TARGETQPS, and PROCS, which leaves the rate alone: AdjustProcs, if running.
TargetQps ==
  /\ rpc[Engine] = "idle"
  /\ PERSEC' \in Rates \cup {PERSEC}
  /\ Readjust
  /\ UNCHANGED <<Running, ticker, tickerChange, alive, inrun, rrate, ready, fed,
                 worker, notes, oldticks>>

\* COLLSTART and COLLSTOP notify the workers, too.
SetColl ==
  /\ rpc[Engine] = "idle"
  /\ Notify
  /\ UNCHANGED <<Running, PERSEC, ticker, tickerChange, alive, runner, ready,
                 fed, worker, oldticks, overlap>>

-----------------------------------------------------------------------------
(***************************************************************************)
(* MultiRunLogs and the end of AdjustProcs.                                *)
(***************************************************************************)

\* MultiRunLogs makes a new channel, and calls AdjustProcs.
MakeChan(r) ==
  /\ rpc[r] = "make"
  /\ tickerChange < MaxChans
  /\ tickerChange' = tickerChange + 1
  /\ Adjust(r)
  /\ UNCHANGED <<Running, PERSEC, ticker, alive, inrun, rrate, ready, fed, worker,
                 notes, oldticks>>

\* Mutant: the rate is taken per millisecond.
PeriodOfMillisecond(rate) == (Second \div 1000) \div rate

\* time.Second / rate, in nanoseconds.
Period(rate) == Second \div rate

\* The rate a ticker can be made for: no division by zero, and a period that
\* is positive.
HasTicker(rate) == rate > 0 /\ Period(rate) > 0

\* NewTicker for the rate of this moment.  A panic here is not recovered from.
MakeTicker(r) ==
  /\ rpc[r] = "adjust"
  /\ rrate' = [rrate EXCEPT ![r] = PERSEC]
  /\ IF HasTicker(PERSEC)
       THEN Goto(r, "assign") /\ UNCHANGED alive
       ELSE alive' = FALSE /\ UNCHANGED rpc
  /\ UNCHANGED <<Running, PERSEC, ticker, tickerChange, inrun, ready, fed, worker,
                 notes, oldticks, overlap>>

\* The new ticker is the one in use, and the workers are notified.  The old
\* one is not stopped.
AssignTicker(r) ==
  /\ rpc[r] = "assign"
  /\ perSecTicker < MaxTickers
  /\ perSecTicker' = perSecTicker + 1
  /\ tickRate' = rrate[r]
  /\ rrate' = [rrate EXCEPT ![r] = FirstRate]
  /\ oldticks' = [w \in Workers |-> 0]
  /\ Notify
  /\ Goto(r, IF r \in inrun THEN "feed" ELSE "idle")
  /\ UNCHANGED <<Running, PERSEC, tickerChange, alive, inrun, ready, fed,
                 worker, overlap>>

\* Mutant: AdjustProcs is left to a goroutine of its own.
FeedsAtOnce(r) == r \in inrun

\* AdjustProcs has returned to MultiRunLogs.
Feeds(r) == rpc[r] = "feed"

\* Tasks are handed out.
Feed(r) ==
  /\ Feeds(r)
  /\ fed' = TRUE
  /\ UNCHANGED <<Running, PERSEC, ticker, tickerChange, alive, runner, ready,
                 worker, notes, oldticks, overlap>>

\* The run is over, or tasks was closed: then MultiRunLogs begins again.
EndRun(r) ==
  /\ rpc[r] = "feed"
  /\ LET again == Running /\ r # Engine
     IN  /\ Goto(r, IF again THEN "make" ELSE "idle")
         /\ inrun' = IF again THEN inrun ELSE inrun \ {r}
         /\ Running' = (Running /\ r # Engine)
  /\ UNCHANGED <<PERSEC, ticker, tickerChange, alive, rrate, ready, fed,
                 worker, notes, oldticks, overlap>>

-----------------------------------------------------------------------------
(***************************************************************************)
(* The workers in wrapMongo.                                               *)
(***************************************************************************)
WorkerGoto(w, pc) == wpc' = [wpc EXCEPT ![w] = pc]

\* The worker leaves its select.
Leave(w) ==
  /\ WorkerGoto(w, "away")
  /\ wticker' = [wticker EXCEPT ![w] = 0]
  /\ wchan' = [wchan EXCEPT ![w] = 0]

\* Mutant: the workers keep the ticker of the first run.
FirstTicker(w) == IF perSecTicker = 0 THEN 0 ELSE 1

\* perSecTicker is read each time the worker comes to its select.
TickerRead(w) == perSecTicker

\* select evaluates perSecTicker.C ...
ReadTicker(w) ==
  /\ wpc[w] = "away"
  /\ fed
  /\ wticker' = [wticker EXCEPT ![w] = TickerRead(w)]
  /\ WorkerGoto(w, "half")
  /\ UNCHANGED <<Running, PERSEC, ticker, tickerChange, alive, runner, ready,
                 fed, wchan, notes, oldticks, overlap>>

\* ... and tickerChange, and waits for either.
ReadChan(w) ==
  /\ wpc[w] = "half"
  /\ wchan' = [wchan EXCEPT ![w] = tickerChange]
  /\ WorkerGoto(w, "select")
  /\ UNCHANGED <<Running, PERSEC, ticker, tickerChange, alive, runner, ready,
                 fed, wticker, notes, oldticks, overlap>>

\* A tick: the update is made.
TakeTick(w) ==
  /\ wpc[w] = "select"
  /\ wticker[w] \in ready
  /\ ready' = ready \ {wticker[w]}
  /\ oldticks' = IF wticker[w] = perSecTicker THEN oldticks
                 ELSE [oldticks EXCEPT ![w] = @ + 1]
  /\ Leave(w)
  /\ UNCHANGED <<Running, PERSEC, ticker, tickerChange, alive, runner, fed,
                 notes, overlap>>

-----------------------------------------------------------------------------
(***************************************************************************)
(* Tickers and notifiers.                                                  *)
(***************************************************************************)

\* Mutant: the tickers that were replaced have been stopped.
OnlyTheLast == {perSecTicker} \ {0}

\* The tickers that tick: all that were ever made.
Ticking == 1 .. perSecTicker

\* A ticker drops the ticks nobody takes.
Tick(t) ==
  /\ t \in Ticking \ ready
  /\ ready' = ready \cup {t}
  /\ UNCHANGED <<Running, PERSEC, ticker, tickerChange, alive, runner, fed,
                 worker, notes, oldticks, overlap>>

\* tickerChange <- true, first half: the channel is the one in use now.
ReadForSend(n) ==
  /\ notes[n].left > 0
  /\ notes[n].chan = NoChan
  /\ notes' = [notes EXCEPT ![n].chan = tickerChange]
  /\ UNCHANGED <<Running, PERSEC, ticker, tickerChange, alive, runner, ready,
                 fed, worker, oldticks, overlap>>

\* The second half: a worker that waits on this channel starts over.
Redo(n, w) ==
  /\ wpc[w] = "select"
  /\ notes[n].left > 0
  /\ notes[n].chan = wchan[w]
  /\ notes' = [notes EXCEPT ![n] = [left |-> @.left - 1, chan |-> NoChan]]
  /\ Leave(w)
  /\ UNCHANGED <<Running, PERSEC, ticker, tickerChange, alive, runner, ready,
                 fed, oldticks, overlap>>

RunnerStep(r) ==
  MakeChan(r) \/ MakeTicker(r) \/ AssignTicker(r) \/ Feed(r) \/ EndRun(r)

Next ==
  /\ alive
  /\ \/ Start \/ Stop \/ TargetQps \/ SetColl
     \/ \E r \in Runners : RunnerStep(r)
     \/ \E w \in Workers : ReadTicker(w) \/ ReadChan(w) \/ TakeTick(w)
     \/ \E t \in Tickers : Tick(t)
     \/ \E n \in Notifiers : ReadForSend(n) \/ \E w \in Workers : Redo(n, w)

Spec == Init /\ [][Next]_vars

(***************************************************************************)
(* Fairness.  A ticker that has not been stopped goes on ticking; a worker *)
(* in a select is not passed over for ever, for Go serves those that wait  *)
(* on a channel in the order they came; workers are scheduled.             *)
(***************************************************************************)
FairSpec ==
  /\ Spec
  /\ \A t \in Tickers : WF_vars(alive /\ Tick(t))
  /\ \A w \in Workers : SF_vars(alive /\ TakeTick(w)) /\ WF_vars(alive /\ ReadChan(w))

-----------------------------------------------------------------------------
\* A worker that comes to its select finds a ticker and a channel there: tasks
\* are handed out only after AdjustProcs has made the first ticker, whichever
\* goroutine ran it.  (perSecTicker.C of a nil ticker would be a panic.)
NeverANilTicker ==
  \A w \in Workers : /\ wpc[w] # "away" => wticker[w] # 0
                     /\ wpc[w] = "select" => wchan[w] # 0

\* After the rate was changed a worker makes at most one more update at the
\* old rate, though the message that tells it to start over may have gone to
\* another worker, or to nobody.
AtMostOneOldTick == \A w \in Workers : oldticks[w] <= 1

\* Nobody is in AdjustProcs or on the way to it.
Settled == Running /\ \A r \in Runners : rpc[r] \in {"idle", "feed"}

\* While a run goes on the ticker in use has the rate last asked for, unless
\* two goroutines have been in AdjustProcs at a time: then the ticker made for
\* the older rate may have been installed last.
RateIsTarget == Settled /\ ~overlap => tickRate = PERSEC

\* A rate from one to 10^9, time.Second, never ends the process.
SaneRatesAreSafe == alive \/ \E r \in Runners : rrate[r] \notin 1 .. Second

\* Nobody waits for ever, not even for a ticker that was replaced: the old
\* tickers are never stopped.
WaitsEnd ==
  \A w \in Workers : wpc[w] = "select" ~> (wpc[w] = "away" \/ ~alive)
=============================================================================
