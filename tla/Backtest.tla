------------------------------ MODULE Backtest ------------------------------
(***************************************************************************)
(* backtest/src/engine.rs walks a series of daily bars, and a strategy's   *)
(* orders are executed under the exchange's rules: lots, price limits,     *)
(* suspensions, fees, and no sale of what was bought the same day (T+1).   *)
(* backtest/src/exit.rs wraps the strategy in an exit policy (stop, staged *)
(* profit taking, trailing stop), built from trading-rules/src/exit.rs.    *)
(*                                                                         *)
(* Prices and money are whole numbers of the smallest unit, so an average  *)
(* cost and fees are rounded down, and the transfer fee is part of the     *)
(* commission; the average true range of each bar is an input (atr,        *)
(* WilderAtr).  Strategies are anything that emits one of some lists of    *)
(* orders.  Prices are not adjusted (AdjustmentPolicy::Raw); the equity    *)
(* curve, and reasons and dates of most rejections, are left out.          *)
(***************************************************************************)
EXTENDS Integers, Sequences, SequencesExt

CONSTANTS Series,       \* sequences of bars
          Policies,     \* EngineConfig.execution, and ExitPolicyConfig if there is one
          OrderLists,   \* what the wrapped strategy may emit on a bar
          InitialCash,
          MinLot, LotStep,
          LimitPercent, \* how far a price may move in a day
          MinFee, FeePer, TaxPer,   \* one in FeePer is the fee, one in TaxPer the tax on sales
          SlippageBps,  \* basis points
          AtrPeriod     \* bars before the average true range is known

Executions == {"next_open", "next_close", "same_close"}    \* ExecutionPolicy

DailyBar ==    \* filter_valid_bars drops others
  LET Price == Nat \ {0} IN
  [open : Price, high : Price, low : Price, close : Price, atr : Int, suspended : BOOLEAN]

ScaleOutStage == [r : Nat, tenths : Nat]

OwnOrder == [side : {"buy", "sell"}, all : BOOLEAN, asked : Nat, why : {"own"}]

ASSUME TestAssumption ==
  /\ MinLot \in Nat \ {0} /\ LotStep \in Nat \ {0} /\ SlippageBps \in Nat /\ AtrPeriod \in Nat
  /\ LimitPercent \in Nat /\ InitialCash \in Nat /\ MinFee \in Nat /\ FeePer \in Nat \ {0} /\ TaxPer \in Nat \ {0}
  /\ \A s \in Series : s \in Seq(DailyBar) /\ s # <<>>
  /\ \A p \in Policies : /\ p.execution \in Executions /\ p.trail \in Nat
                         /\ p.stages \in Seq(ScaleOutStage)
  /\ \A l \in OrderLists : l \in Seq(OwnOrder)

VARIABLES series,
          policy,
          today,     \* the bar at hand
          phase,     \* what is next on it: "fill", "decide" or "done"
          book,      \* Portfolio
          queue,     \* orders being executed
          pending,   \* orders for the next bar
          position,  \* ExitPolicy.open
          fills,     \* BacktestResult.trades
          unfilled   \* the buys BacktestResult.rejections has as too small or too dear

testVars == <<series, policy, today, phase, book, queue, pending, position, fills, unfilled>>

NotOpen == [entry |-> 0, stop |-> 0, risk |-> 0, shares |-> 0, next |-> 1, peak |-> 0, since |-> 0]

TestInit ==
  /\ series \in Series /\ policy \in Policies
  /\ today = 1
  /\ phase = IF policy.execution = "next_open" THEN "fill" ELSE "decide"
  /\ book = [cash |-> InitialCash, shares |-> 0, sellable |-> 0, basis |-> 0]
  /\ queue = <<>> /\ pending = <<>> /\ fills = <<>> /\ unfilled = {}
  /\ position = NotOpen

Bar == series[today]
Smaller(a, b) == IF a < b THEN a ELSE b
Larger(a, b) == IF a < b THEN b ELSE a

-----------------------------------------------------------------------------
\* run: a bar begins.  What is held may be sold, and of the orders of the bar
\* before those for the open are executed first.

NextBar ==
  /\ phase = "done" /\ today < Len(series)
  /\ today' = today + 1
  /\ book' = [book EXCEPT !.sellable = book.shares]
  /\ IF policy.execution = "next_open"
     THEN phase' = "fill" /\ queue' = pending /\ pending' = <<>>
     ELSE phase' = "decide" /\ UNCHANGED <<queue, pending>>
  /\ UNCHANGED <<series, policy, position, fills, unfilled>>

\* The orders are executed: the strategy is asked, or the bar is over.
FillsDone ==
  /\ phase = "fill" /\ queue = <<>>
  /\ phase' = IF policy.execution = "next_open" THEN "decide" ELSE "done"
  /\ UNCHANGED <<series, policy, today, book, queue, pending, position, fills, unfilled>>

-----------------------------------------------------------------------------
\* execute_one

RawPrice == IF policy.execution = "next_open" THEN Bar.open ELSE Bar.close

\* pre_close: the first bar has none, and its open stands in for it.
PreClose == IF today = 1 THEN series[1].open ELSE series[today - 1].close

\* limit_up_price, limit_down_price: to the nearest unit.
LimitUp(price)   == (price * (100 + LimitPercent) + 50) \div 100
LimitDown(price) == (price * (100 - LimitPercent) + 50) \div 100

Barred(order) ==
  \/ Bar.suspended
  \/ order.side = "buy" /\ RawPrice >= LimitUp(PreClose)
  \/ order.side = "sell" /\ RawPrice <= LimitDown(PreClose)

FillPrice(order) ==
  LET slip == (RawPrice * SlippageBps) \div 10000 IN
  IF order.side = "buy" THEN RawPrice + slip ELSE RawPrice - slip

\* round_lot: zero below the smallest lot.
RoundLot(n) == IF n < MinLot THEN 0 ELSE MinLot + ((n - MinLot) \div LotStep) * LotStep

\* execute_buy: as many as asked for, or as cash pays for, and fewer by a step
\* until cash pays the fees too.

\* trade_cost_at: the commission has a minimum, only sales are taxed.
Fee(side, amount) ==
  Larger(MinFee, amount \div FeePer) + (IF side = "sell" THEN amount \div TaxPer ELSE 0)

\* Mutant: an amount that was asked for is not rounded.
Unrounded(order) == IF order.all THEN RoundLot(Larger(book.cash, 0) \div FillPrice(order)) ELSE order.asked
FirstTry(order) ==
  RoundLot(IF order.all THEN Larger(book.cash, 0) \div FillPrice(order) ELSE order.asked)

\* Mutant: what is bought may be sold at once.
SellableAtOnce(n) == book.sellable + n
SellableAfter(n) == book.sellable

Paid(n, price) == n * price + Fee("buy", n * price)

Fitting(order) ==
  {n \in MinLot..FirstTry(order) :
     (FirstTry(order) - n) % LotStep = 0 /\ Paid(n, FillPrice(order)) <= book.cash}

Filled(order, n, fee, rest) ==
  fills' = Append(fills, [bar |-> today, order |-> order, shares |-> n, price |-> FillPrice(order),
                          fee |-> fee, before |-> book.cash, rest |-> rest])

Buy(order) ==
  /\ order.side = "buy" /\ ~Barred(order)
  /\ \E n \in Fitting(order) :
       /\ \A m \in Fitting(order) : m <= n
       /\ book' = [cash |-> book.cash - Paid(n, FillPrice(order)), shares |-> book.shares + n,
                   sellable |-> SellableAfter(n),
                   basis |-> book.basis + n * FillPrice(order)]
       /\ Filled(order, n, Fee("buy", n * FillPrice(order)), book.shares + n)
  /\ UNCHANGED unfilled

\* execute_sell: at most what is sellable.
Sold(order) == IF order.all THEN book.sellable ELSE Smaller(order.asked, book.sellable)

Sell(order) ==
  /\ order.side = "sell" /\ ~Barred(order) /\ Sold(order) > 0
  /\ LET n == Sold(order)
         amount == n * FillPrice(order) IN
       /\ book' = [cash |-> book.cash + amount - Fee("sell", amount), shares |-> book.shares - n,
                   sellable |-> book.sellable - n,
                   basis |-> book.basis - (book.basis * n) \div book.shares]
       /\ Filled(order, n, Fee("sell", amount), book.shares - n)
  /\ UNCHANGED unfilled

\* An order that cannot be filled is dropped.
Reject(order) ==
  /\ \/ Barred(order) /\ UNCHANGED unfilled
     \/ /\ ~Barred(order) /\ order.side = "buy" /\ Fitting(order) = {}
        /\ unfilled' = unfilled \cup {[order |-> order, price |-> FillPrice(order), before |-> book.cash]}
     \/ ~Barred(order) /\ order.side = "sell" /\ Sold(order) = 0 /\ UNCHANGED unfilled
  /\ UNCHANGED <<book, fills>>

ExecuteOrder ==
  /\ phase = "fill" /\ queue # <<>> /\ queue' = Tail(queue)
  /\ Buy(Head(queue)) \/ Sell(Head(queue)) \/ Reject(Head(queue))
  /\ UNCHANGED <<series, policy, today, phase, pending, position>>

-----------------------------------------------------------------------------
\* on_bar: what is decided is executed on this bar or the next one.
Emits(orders) ==
  /\ phase = "decide"
  /\ CASE policy.execution = "next_open"  ->
            phase' = "done" /\ pending' = orders /\ UNCHANGED queue
       [] policy.execution = "next_close" ->
            phase' = "fill" /\ queue' = pending /\ pending' = orders
       [] policy.execution = "same_close" ->
            phase' = "fill" /\ queue' = orders /\ UNCHANGED pending
  /\ UNCHANGED <<series, policy, today, book, fills, unfilled>>

Order(side, all, asked, why) == [side |-> side, all |-> all, asked |-> asked, why |-> why]
ExitAll == Order("sell", TRUE, 0, "exit")

\* ExitManaged: an exit stands for whatever the strategy emits on that bar.
\* Mutant: what the strategy emits is not suppressed.
AndItsOwn(exit) == <<Order("buy", TRUE, 0, "own"), exit>>
Alone(exit) == <<exit>>

AtrKnown == today >= AtrPeriod

\* open_position: the stop is frozen when the position is first seen, if it is
\* below the average cost.
LowestLow(n) ==
  LET lows == {series[i].low : i \in Larger(today - n + 1, 1)..today} IN
  CHOOSE l \in lows : \A k \in lows : l <= k

InitialStop(entry) ==
  CASE policy.stop = "fixed" -> entry - policy.distance
    [] policy.stop = "atr"   -> IF AtrKnown THEN entry - policy.distance * Bar.atr ELSE LowestLow(today)
    [] policy.stop = "low"   -> LowestLow(policy.distance)

Opened ==
  LET entry == book.basis \div book.shares
      stop  == InitialStop(entry) IN
  IF 0 < stop /\ stop < entry
  THEN [entry |-> entry, stop |-> stop, risk |-> entry - stop, shares |-> book.shares,
        next |-> 1, peak |-> entry, since |-> today]
  ELSE NotOpen

\* StructuralStop::check, ScaledTakeProfit::on_price.
StopHit == Bar.low < position.stop
Stage == policy.stages[position.next]
TargetHit ==
  position.next <= Len(policy.stages) /\ Bar.high >= position.entry + Stage.r * position.risk

\* PeakTrailingStop::update, on every bar whose true range is known.
Trails == policy.trail > 0 /\ AtrKnown

\* Mutant: only where no rule before it fires.
TrackedLast == IF Trails /\ ~StopHit /\ ~TargetHit THEN Larger(position.peak, Bar.close)
               ELSE position.peak
Peak == IF Trails THEN Larger(position.peak, Bar.close) ELSE position.peak
Tracked == [position EXCEPT !.peak = Peak]

TrailHit ==
  LET level == Peak - policy.trail * Bar.atr IN
  Trails /\ (policy.gate => level > position.entry) /\ Bar.close <= level

Watched == policy.managed /\ book.shares > 0 /\ position # NotOpen

\* No exit: the strategy emits what it likes.
DecideFreely ==
  /\ \/ ~policy.managed /\ UNCHANGED position
     \/ policy.managed /\ book.shares = 0 /\ position' = NotOpen
     \/ policy.managed /\ book.shares > 0 /\ position = NotOpen /\ position' = Opened
     \/ Watched /\ ~StopHit /\ ~TargetHit /\ ~TrailHit /\ position' = Tracked
  /\ \E orders \in OrderLists : Emits(orders)

StopOut == Watched /\ StopHit /\ position' = Tracked /\ Emits(Alone(ExitAll))

\* A stage is over when it is emitted, and the stop raised to the entry.
ScaleOut ==
  /\ Watched /\ ~StopHit /\ TargetHit
  /\ position' = [Tracked EXCEPT !.next = @ + 1,
                                 !.stop = IF policy.breakeven THEN Larger(@, position.entry) ELSE @]
  /\ Emits(Alone(Order("sell", FALSE, Larger(1, (position.shares * Stage.tenths) \div 10), "stage")))

TrailOut ==
  Watched /\ ~StopHit /\ ~TargetHit /\ TrailHit /\ position' = Tracked /\ Emits(Alone(ExitAll))

TestNext ==
  \/ NextBar \/ ExecuteOrder \/ FillsDone
  \/ DecideFreely \/ StopOut \/ ScaleOut \/ TrailOut

\* run returns.
TestOver == phase = "done" /\ today = Len(series)

TestSpec == TestInit /\ [][TestNext]_testVars

-----------------------------------------------------------------------------
\* round_trips: sales close the lots bought first.
Closes(sale, lot) ==
  LET n == Smaller(sale.open, lot.open) IN
  [sale EXCEPT !.open = @ - n,
               !.lots = IF lot.open = n THEN @ ELSE Append(@, [lot EXCEPT !.open = @ - n]),
               !.trips = IF n = 0 THEN @ ELSE @ \cup {<<lot.bar, sale.bar>>}]

Matched(trips, fill) ==
  IF fill.order.side = "buy"
  THEN [trips EXCEPT !.lots = Append(@, [bar |-> fill.bar, open |-> fill.shares])]
  ELSE FoldLeft(Closes, [trips EXCEPT !.open = @ + fill.shares, !.bar = fill.bar, !.lots = <<>>],
                trips.lots)

RoundTrips == FoldLeft(Matched, [open |-> 0, bar |-> 0, lots |-> <<>>, trips |-> {}], fills)

-----------------------------------------------------------------------------
\* The book is well-formed.
TestTypeOK ==
  /\ today \in 1..Len(series) /\ phase \in {"fill", "decide", "done"}
  /\ book.shares \in Nat /\ book.sellable \in 0..book.shares
  /\ position.next \in 1..(Len(policy.stages) + 1)

\* The log of trades explains the book: every sale closes lots bought on
\* earlier bars (engine.rs: T+1, round_trips), what is open is what is held, and
\* what was paid and received is what the cash has changed by.
Received(sum, fill) ==
  IF fill.order.side = "buy" THEN sum - fill.shares * fill.price - fill.fee
  ELSE sum + fill.shares * fill.price - fill.fee

BooksBalance ==
  /\ RoundTrips.open = 0
  /\ FoldLeft(LAMBDA n, lot : n + lot.open, 0, RoundTrips.lots) = book.shares
  /\ \A trip \in RoundTrips.trips : trip[1] < trip[2]
  /\ FoldLeft(Received, InitialCash, fills) = book.cash

\* A buy is the largest valid lot that was asked for and that cash covers with
\* its fees, and one is dropped for want of cash only if there is none
\* (execute_buy, BoardRules::is_valid_lot).
ValidLots(order, price, cash) ==
  {n \in 0..(cash \div price) : /\ n >= MinLot /\ (n - MinLot) % LotStep = 0
                               /\ (order.all \/ n <= order.asked)
                               /\ Paid(n, price) <= cash}
BuyIsLargest ==
  /\ \A i \in DOMAIN fills : LET f == fills[i] IN
       f.order.side = "buy" =>
         LET lots == ValidLots(f.order, f.price, f.before) IN
         f.shares \in lots /\ \A n \in lots : n <= f.shares
  /\ \A r \in unfilled : r.before >= 0 => ValidLots(r.order, r.price, r.before) = {}

\* A stop that is executed closes the position, whatever the strategy and
\* earlier orders do (exit.rs: the exit replaces the strategy's orders).
ExitsClose == \A i \in DOMAIN fills : fills[i].order.why = "exit" => fills[i].rest = 0

\* The trailing stop hangs from the highest close of all bars held since the
\* entry whose true range is known (exit.rs: tracked before any rule fires).
LastDecided ==
  IF phase = "decide" \/ (phase = "fill" /\ policy.execution = "next_open") THEN today - 1 ELSE today

ClosesSince(bar, last) ==
  {series[i].close : i \in {j \in (bar + 1)..last : j >= AtrPeriod}}

PeakIsHighest ==
  position # NotOpen /\ policy.trail > 0 =>
    LET closes == ClosesSince(position.since, LastDecided)
    IN /\ position.peak \in closes \cup {position.entry}
       /\ \A c \in closes : c <= position.peak

ExitsAreSound == ExitsClose /\ PeakIsHighest
=============================================================================
