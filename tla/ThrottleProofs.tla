---------------------------- MODULE ThrottleProofs ----------------------------
(***************************************************************************)
(* The safety properties of Throttle hold for any number of workers,       *)
(* feeders, tickers, channels and notifiers, and any rates.                *)
(***************************************************************************)
EXTENDS Throttle, FiniteSetTheorems, TLAPS

\* Tasks are handed out only once there is a ticker and a channel, and neither
\* ever becomes nil again.
TickerFirst ==
  /\ fed => perSecTicker > 0 /\ tickerChange > 0
  /\ \A r \in Runners :
       /\ r \in inrun => rpc[r] # "idle"
       /\ rpc[r] = "feed" => perSecTicker > 0 /\ tickerChange > 0
       /\ rpc[r] \in {"adjust", "assign"} /\ r \in inrun => tickerChange > 0
  /\ \A w \in Workers : wpc[w] # "away" => fed

\* A worker that has made an update at an old rate has since read the ticker
\* in use, or is still to read it.
OldTickOnce ==
  \A w \in Workers :
    /\ oldticks[w] <= 1
    /\ oldticks[w] = 1 => wpc[w] = "away" \/ wticker[w] = perSecTicker

\* Without an overlap one goroutine at most is in AdjustProcs; once none has
\* the rate still to read, that goroutine will install the rate asked for, and
\* when there is none it is installed.
InAdjust(r) == rpc[r] \in {"adjust", "assign"}

RateIsComing ==
  ~overlap =>
    /\ \A r, q \in Runners : InAdjust(r) /\ InAdjust(q) => r = q
    /\ Running /\ (\A r \in Runners : rpc[r] \notin {"make", "adjust"}) =>
         /\ \A r \in Runners : rpc[r] = "assign" => rrate[r] = PERSEC
         /\ (\A r \in Runners : rpc[r] # "assign") => tickRate = PERSEC

\* A rate from one to 10^9 gives a period that is positive.
LEMMA SaneRate == \A r \in 1 .. Second : HasTicker(r)
<1> SUFFICES ASSUME NEW r \in 1 .. Second PROVE HasTicker(r)
  OBVIOUS
<1>1. Second \in Int /\ r \in Int /\ r > 0 /\ r <= Second
  BY ThrottleAssumption
<1>2. Second \div r > 0
  BY <1>1, SMTT(30)
<1> QED  BY <1>1, <1>2 DEF HasTicker, Period

LEMMA NotifyType ==
  ASSUME TypeOK, Notify \/ UNCHANGED notes
  PROVE  notes' \in [Notifiers -> [left: 0 .. Cardinality(Workers), chan: ChanNos \cup {NoChan}]]
  BY DEF TypeOK, Notify, Done

LEMMA InitType == Init => TypeOK
<1>1. Cardinality(Workers) \in Nat
  BY ThrottleAssumption, FS_CardinalityType
<1> SUFFICES ASSUME Init PROVE TypeOK
  OBVIOUS
<1> USE ThrottleAssumption DEF Init, Tickers, ChanNos
<1>2. notes \in [Notifiers -> [left: 0 .. Cardinality(Workers), chan: ChanNos \cup {NoChan}]]
  BY <1>1 DEF Done
<1>3. /\ PERSEC \in Int /\ tickRate \in Int
      /\ perSecTicker \in Tickers /\ tickerChange \in ChanNos
      /\ rrate \in [Runners -> Int]
  OBVIOUS
<1>4. /\ wticker \in [Workers -> 0 .. perSecTicker]
      /\ wchan \in [Workers -> 0 .. tickerChange]
      /\ wpc \in [Workers -> {"away", "half", "select"}]
      /\ oldticks \in [Workers -> Nat]
  OBVIOUS
<1>5. rpc \in [Runners -> RunnerPC] /\ inrun \subseteq Runners /\ ready \subseteq 1 .. perSecTicker
  BY DEF RunnerPC
<1> QED  BY <1>2, <1>3, <1>4, <1>5 DEF TypeOK

LEMMA TypeStep == TypeOK /\ [Next]_vars => TypeOK'
<1> SUFFICES ASSUME TypeOK, [Next]_vars PROVE TypeOK'
  OBVIOUS
<1> USE ThrottleAssumption DEF TypeOK, Tickers, ChanNos, RunnerPC, Goto, Adjust,
      ticker, runner, worker, Runners
<1>c. Cardinality(Workers) \in Nat
  BY FS_CardinalityType
<1>1. CASE Start
  BY <1>1 DEF Start
<1>2. CASE Stop
  BY <1>2 DEF Stop
<1>3. CASE TargetQps
  BY <1>3 DEF TargetQps, Readjust
<1>4. CASE SetColl
  BY <1>4, NotifyType DEF SetColl
<1>5. ASSUME NEW r \in Runners, MakeChan(r) PROVE TypeOK'
  BY <1>5 DEF MakeChan
<1>6. ASSUME NEW r \in Runners, MakeTicker(r) PROVE TypeOK'
  BY <1>6 DEF MakeTicker
<1>7. ASSUME NEW r \in Runners, AssignTicker(r) PROVE TypeOK'
  BY <1>7, NotifyType DEF AssignTicker
<1>8. ASSUME NEW r \in Runners, Feed(r) \/ EndRun(r) PROVE TypeOK'
  BY <1>8 DEF Feed, EndRun
<1>9. ASSUME NEW w \in Workers, ReadTicker(w) \/ ReadChan(w) PROVE TypeOK'
  <2>1. wpc' \in [Workers -> {"away", "half", "select"}]
    BY <1>9 DEF ReadTicker, ReadChan, WorkerGoto
  <2>2. wticker' \in [Workers -> 0 .. perSecTicker] /\ wchan' \in [Workers -> 0 .. tickerChange]
    BY <1>9 DEF ReadTicker, ReadChan, TickerRead
  <2> QED  BY <1>9, <2>1, <2>2 DEF ReadTicker, ReadChan
<1>10. ASSUME NEW w \in Workers, TakeTick(w) PROVE TypeOK'
  <2>1. wpc' \in [Workers -> {"away", "half", "select"}]
    BY <1>10 DEF TakeTick, Leave, WorkerGoto
  <2>2. wticker' \in [Workers -> 0 .. perSecTicker] /\ wchan' \in [Workers -> 0 .. tickerChange]
    BY <1>10 DEF TakeTick, Leave
  <2>3. oldticks' \in [Workers -> Nat]
    BY <1>10 DEF TakeTick
  <2> QED  BY <1>10, <2>1, <2>2, <2>3 DEF TakeTick
<1>11. ASSUME NEW t \in Tickers, Tick(t) PROVE TypeOK'
  BY <1>11 DEF Tick, Ticking
<1>12. ASSUME NEW n \in Notifiers, ReadForSend(n) PROVE TypeOK'
  <2>1. notes' \in [Notifiers -> [left: 0 .. Cardinality(Workers), chan: ChanNos \cup {NoChan}]]
    BY <1>12 DEF ReadForSend
  <2> QED  BY <1>12, <2>1 DEF ReadForSend
<1>13. ASSUME NEW n \in Notifiers, NEW w \in Workers, Redo(n, w) PROVE TypeOK'
  <2>1. notes' \in [Notifiers -> [left: 0 .. Cardinality(Workers), chan: ChanNos \cup {NoChan}]]
    BY <1>c, <1>13 DEF Redo
  <2> QED  BY <1>13, <2>1 DEF Redo, Leave, WorkerGoto
<1>14. CASE UNCHANGED vars
  BY <1>14 DEF vars
<1> QED
  BY <1>1, <1>2, <1>3, <1>4, <1>5, <1>6, <1>7, <1>8, <1>9, <1>10, <1>11, <1>12, <1>13, <1>14
  DEF Next, RunnerStep

LEMMA TickerFirstStep == TypeOK /\ TickerFirst /\ [Next]_vars => TickerFirst'
<1> SUFFICES ASSUME TypeOK, TickerFirst, [Next]_vars PROVE TickerFirst'
  OBVIOUS
<1> USE DEF TypeOK, TickerFirst, Tickers, ChanNos, RunnerPC, Goto, Adjust,
      ticker, runner, worker, Runners
<1>1. CASE Start
  <2>1. PICK r \in Runners : rpc[r] = "idle" /\ Goto(r, "make") /\ inrun' = inrun \cup {r}
    BY <1>1 DEF Start
  <2>2. UNCHANGED <<fed, perSecTicker, tickerChange, wpc>>
    BY <1>1 DEF Start
  <2>3. rpc' = [rpc EXCEPT ![r] = "make"]
    BY <2>1
  <2> QED  BY <2>1, <2>2, <2>3
<1>0. CASE Stop
  <2>1. UNCHANGED <<fed, perSecTicker, tickerChange, rpc, inrun, wpc>>
    BY <1>0 DEF Stop
  <2> QED  BY <2>1
<1>2. CASE TargetQps
  BY <1>2 DEF TargetQps, Readjust
<1>3. CASE SetColl
  BY <1>3 DEF SetColl
<1>4. ASSUME NEW r \in Runners, MakeChan(r) PROVE TickerFirst'
  BY <1>4 DEF MakeChan
<1>5. ASSUME NEW r \in Runners, MakeTicker(r) PROVE TickerFirst'
  BY <1>5 DEF MakeTicker
<1>6. ASSUME NEW r \in Runners, AssignTicker(r) PROVE TickerFirst'
  BY <1>6 DEF AssignTicker
<1>7. ASSUME NEW r \in Runners, Feed(r) \/ EndRun(r) PROVE TickerFirst'
  BY <1>7 DEF Feed, Feeds, EndRun
<1>8. ASSUME NEW w \in Workers, ReadTicker(w) \/ ReadChan(w) PROVE TickerFirst'
  BY <1>8 DEF ReadTicker, ReadChan, WorkerGoto
<1>9. ASSUME NEW w \in Workers, TakeTick(w) PROVE TickerFirst'
  BY <1>9 DEF TakeTick, Leave, WorkerGoto
<1>10. ASSUME NEW n \in Notifiers, NEW w \in Workers, Redo(n, w) PROVE TickerFirst'
  BY <1>10 DEF Redo, Leave, WorkerGoto
<1>11. CASE (\E t \in Tickers : Tick(t)) \/ (\E n \in Notifiers : ReadForSend(n))
  BY <1>11 DEF Tick, ReadForSend
<1>12. CASE UNCHANGED vars
  BY <1>12 DEF vars
<1> QED
  BY <1>0, <1>1, <1>2, <1>3, <1>4, <1>5, <1>6, <1>7, <1>8, <1>9, <1>10, <1>11, <1>12
  DEF Next, RunnerStep

LEMMA NilTickerStep ==
  TypeOK /\ TickerFirst /\ NeverANilTicker /\ [Next]_vars => NeverANilTicker'
<1> SUFFICES ASSUME TypeOK, TickerFirst, NeverANilTicker, [Next]_vars PROVE NeverANilTicker'
  OBVIOUS
<1> USE DEF TypeOK, NeverANilTicker, ticker, runner, worker
<1>1. CASE worker' = worker
  BY <1>1
<1>2. ASSUME NEW w \in Workers, ReadTicker(w) PROVE NeverANilTicker'
  BY <1>2 DEF ReadTicker, TickerRead, WorkerGoto, TickerFirst, Tickers
<1>3. ASSUME NEW w \in Workers, ReadChan(w) PROVE NeverANilTicker'
  BY <1>3 DEF ReadChan, WorkerGoto, TickerFirst, ChanNos
<1>4. ASSUME NEW w \in Workers, TakeTick(w) PROVE NeverANilTicker'
  BY <1>4 DEF TakeTick, Leave, WorkerGoto
<1>5. ASSUME NEW n \in Notifiers, NEW w \in Workers, Redo(n, w) PROVE NeverANilTicker'
  BY <1>5 DEF Redo, Leave, WorkerGoto
<1>6. ASSUME NEW r \in Runners, RunnerStep(r) PROVE worker' = worker
  BY <1>6 DEF RunnerStep, MakeChan, MakeTicker, AssignTicker, Feed, EndRun
<1>7. CASE Start \/ Stop \/ TargetQps \/ SetColl
  BY <1>1, <1>7 DEF Start, Stop, TargetQps, SetColl
<1>8. CASE (\E t \in Tickers : Tick(t)) \/ (\E n \in Notifiers : ReadForSend(n))
  BY <1>1, <1>8 DEF Tick, ReadForSend
<1> QED
  BY <1>1, <1>2, <1>3, <1>4, <1>5, <1>6, <1>7, <1>8 DEF Next, vars

LEMMA OldTickStep == TypeOK /\ OldTickOnce /\ [Next]_vars => OldTickOnce'
<1> SUFFICES ASSUME TypeOK, OldTickOnce, [Next]_vars PROVE OldTickOnce'
  OBVIOUS
<1> USE DEF TypeOK, OldTickOnce, ticker, runner, worker
<1>1. CASE UNCHANGED <<worker, oldticks, perSecTicker>>
  BY <1>1
<1>2. ASSUME NEW w \in Workers, ReadTicker(w) PROVE OldTickOnce'
  BY <1>2 DEF ReadTicker, TickerRead, WorkerGoto
<1>3. ASSUME NEW w \in Workers, ReadChan(w) PROVE OldTickOnce'
  BY <1>3 DEF ReadChan, WorkerGoto
<1>4. ASSUME NEW w \in Workers, TakeTick(w) PROVE OldTickOnce'
  BY <1>4 DEF TakeTick, Leave, WorkerGoto
<1>5. ASSUME NEW n \in Notifiers, NEW w \in Workers, Redo(n, w) PROVE OldTickOnce'
  BY <1>5 DEF Redo, Leave, WorkerGoto
<1>6. ASSUME NEW r \in Runners, AssignTicker(r) PROVE OldTickOnce'
  BY <1>6 DEF AssignTicker
<1>7. ASSUME NEW r \in Runners, RunnerStep(r), ~AssignTicker(r)
      PROVE  UNCHANGED <<worker, oldticks, perSecTicker>>
  BY <1>7 DEF RunnerStep, MakeChan, MakeTicker, Feed, EndRun
<1>8. CASE Start \/ Stop \/ TargetQps \/ SetColl
  BY <1>1, <1>8 DEF Start, Stop, TargetQps, SetColl
<1>9. CASE (\E t \in Tickers : Tick(t)) \/ (\E n \in Notifiers : ReadForSend(n))
  BY <1>1, <1>9 DEF Tick, ReadForSend
<1> QED
  BY <1>1, <1>2, <1>3, <1>4, <1>5, <1>6, <1>7, <1>8, <1>9 DEF Next, vars

LEMMA RateStep == TypeOK /\ RateIsComing /\ [Next]_vars => RateIsComing'
<1> SUFFICES ASSUME TypeOK, RateIsComing, [Next]_vars PROVE RateIsComing'
  OBVIOUS
<1> USE DEF TypeOK, RateIsComing, InAdjust, Goto, Adjust, RunnerPC, ticker, runner
<1>1. CASE UNCHANGED <<Running, PERSEC, tickRate, rpc, rrate, overlap>>
  BY <1>1
<1>2. CASE Start
  BY <1>2 DEF Start
<1>3. CASE Stop
  BY <1>3 DEF Stop
<1>4. CASE TargetQps
  BY <1>4 DEF TargetQps, Readjust, Runners
<1>5. ASSUME NEW r \in Runners, MakeChan(r) PROVE RateIsComing'
  BY <1>5 DEF MakeChan
<1>6. ASSUME NEW r \in Runners, MakeTicker(r) PROVE RateIsComing'
  BY <1>6 DEF MakeTicker
<1>7. ASSUME NEW r \in Runners, AssignTicker(r) PROVE RateIsComing'
  BY <1>7 DEF AssignTicker
<1>8. ASSUME NEW r \in Runners, EndRun(r) PROVE RateIsComing'
  BY <1>8 DEF EndRun
<1>9. ASSUME NEW r \in Runners, Feed(r) PROVE RateIsComing'
  BY <1>1, <1>9 DEF Feed
<1>10. CASE SetColl
  BY <1>1, <1>10 DEF SetColl
<1>11. ASSUME NEW w \in Workers, ReadTicker(w) \/ ReadChan(w) \/ TakeTick(w) PROVE RateIsComing'
  BY <1>1, <1>11 DEF ReadTicker, ReadChan, TakeTick
<1>12. CASE \/ \E t \in Tickers : Tick(t)
            \/ \E n \in Notifiers : ReadForSend(n) \/ \E w \in Workers : Redo(n, w)
  BY <1>1, <1>12 DEF Tick, ReadForSend, Redo
<1> QED
  BY <1>1, <1>2, <1>3, <1>4, <1>5, <1>6, <1>7, <1>8, <1>9, <1>10, <1>11, <1>12
  DEF Next, RunnerStep, vars

LEMMA SaneStep == TypeOK /\ SaneRatesAreSafe /\ [Next]_vars => SaneRatesAreSafe'
<1> SUFFICES ASSUME TypeOK, SaneRatesAreSafe, [Next]_vars PROVE SaneRatesAreSafe'
  OBVIOUS
<1> USE DEF TypeOK, SaneRatesAreSafe, ticker, runner
<1>1. CASE UNCHANGED vars
  BY <1>1 DEF vars
<1>2. CASE alive'
  BY <1>2
<1>3. ASSUME NEW r \in Runners, alive, MakeTicker(r), ~alive' PROVE SaneRatesAreSafe'
  <2>1. ~HasTicker(PERSEC) /\ rrate'[r] = PERSEC
    BY <1>3 DEF MakeTicker, Goto
  <2>2. PERSEC \notin 1 .. Second
    BY <2>1, SaneRate
  <2> QED  BY <2>1, <2>2
<1>4. ASSUME NEW r \in Runners, RunnerStep(r), ~MakeTicker(r) PROVE alive' = alive
  BY <1>4 DEF RunnerStep, MakeChan, AssignTicker, Feed, EndRun
<1>5. CASE Start \/ Stop \/ TargetQps \/ SetColl
  BY <1>2, <1>5 DEF Next, Start, Stop, TargetQps, SetColl
<1>6. CASE \E w \in Workers : ReadTicker(w) \/ ReadChan(w) \/ TakeTick(w)
  BY <1>1, <1>2, <1>6 DEF Next, ReadTicker, ReadChan, TakeTick
<1>7. CASE \/ \E t \in Tickers : Tick(t)
           \/ \E n \in Notifiers : ReadForSend(n) \/ \E w \in Workers : Redo(n, w)
  BY <1>1, <1>2, <1>7 DEF Next, Tick, ReadForSend, Redo
<1> QED  BY <1>1, <1>2, <1>3, <1>4, <1>5, <1>6, <1>7 DEF Next

Inv == TypeOK /\ TickerFirst /\ NeverANilTicker /\ OldTickOnce /\ RateIsComing /\ SaneRatesAreSafe

LEMMA ThrottleInv == Spec => []Inv
<1>1. Init => Inv
  BY InitType, ThrottleAssumption
  DEF Init, Inv, TickerFirst, NeverANilTicker, OldTickOnce, RateIsComing, InAdjust, SaneRatesAreSafe
<1>2. Inv /\ [Next]_vars => Inv'
  BY TypeStep, TickerFirstStep, NilTickerStep, OldTickStep, RateStep, SaneStep DEF Inv
<1> QED  BY <1>1, <1>2, PTL DEF Spec

\* The variables have their types.
THEOREM ThrottleTypeOK == Spec => []TypeOK
<1>1. Inv => TypeOK
  BY DEF Inv
<1> QED  BY <1>1, ThrottleInv, PTL

\* No worker ever waits for a nil ticker or a nil channel.
THEOREM NilTickerNever == Spec => []NeverANilTicker
<1>1. Inv => NeverANilTicker
  BY DEF Inv
<1> QED  BY <1>1, ThrottleInv, PTL

\* A worker makes at most one update at a rate that has been replaced.
THEOREM OneOldTick == Spec => []AtMostOneOldTick
<1>1. Inv => AtMostOneOldTick
  BY DEF Inv, OldTickOnce, AtMostOneOldTick
<1> QED  BY <1>1, ThrottleInv, PTL

\* Unless two goroutines adjusted at once, the rate asked for is the rate kept.
THEOREM RateIsKept == Spec => []RateIsTarget
<1>1. Inv => RateIsTarget
  BY DEF Inv, RateIsComing, RateIsTarget, Settled
<1> QED  BY <1>1, ThrottleInv, PTL

\* No rate from one to 10^9 ends the process.
THEOREM SaneRates == Spec => []SaneRatesAreSafe
<1>1. Inv => SaneRatesAreSafe
  BY DEF Inv
<1> QED  BY <1>1, ThrottleInv, PTL
=============================================================================
