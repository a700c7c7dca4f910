--------------------------- MODULE BacktestProofs ---------------------------
(***************************************************************************)
(* Theorems of Backtest for every series, policy and list of orders, every *)
(* lot, fee and limit: the book is well-formed, an exit that is executed   *)
(* closes the position, the trailing stop hangs from the highest close     *)
(* since the entry, a buy is the largest valid lot that cash covers, and   *)
(* the log of trades explains the book: its folds are followed step by     *)
(* step, and what they come to is kept as an inductive invariant.          *)
(***************************************************************************)
EXTENDS Backtest, FoldProofs, TLAPS

-----------------------------------------------------------------------------
\* The inductive invariant, in the parts that different actions disturb.

AnyOrder == [side : {"buy", "sell"}, all : BOOLEAN, asked : Int, why : {"own", "stage", "exit"}]
AnyFill  == [bar : Int, order : AnyOrder, shares : Int, price : Int, fee : Int, before : Int, rest : Int]

InputsOK ==
  /\ series \in Series /\ policy \in Policies
  /\ today \in 1..Len(series) /\ phase \in {"fill", "decide", "done"}

BookOK ==
  /\ book \in [cash : Int, shares : Nat, sellable : Nat, basis : Int]
  /\ book.sellable <= book.shares

PositionOK ==
  /\ position = [entry |-> position.entry, stop |-> position.stop, risk |-> position.risk,
                 shares |-> position.shares, next |-> position.next, peak |-> position.peak,
                 since |-> position.since]
  /\ position.next \in 1..(Len(policy.stages) + 1)
  /\ position.entry \in Int /\ position.peak \in Int /\ position.since \in Nat
  /\ position.shares \in Int

\* An exit comes alone, and asks for everything.
ExitAlone(orders) ==
  /\ orders \in Seq(AnyOrder)
  /\ \A i \in 1..Len(orders) : orders[i].why = "exit" => Len(orders) = 1 /\ orders[i] = ExitAll

\* Everything held may be sold when an exit's turn comes.
ExitCanSell ==
  /\ ExitAlone(queue) /\ ExitAlone(pending)
  /\ phase = "decide" /\ policy.execution # "next_open" => book.sellable = book.shares
  /\ queue # <<>> /\ queue[1].why = "exit" => book.sellable = book.shares

FillsOK == fills \in Seq(AnyFill) /\ ExitsClose

\* A position is only watched under a policy, from a bar decided on.
Since ==
  /\ ~policy.managed => position = NotOpen
  /\ position # NotOpen => position.since <= LastDecided

TestInv ==
  InputsOK /\ BookOK /\ PositionOK /\ ExitCanSell /\ FillsOK /\ PeakIsHighest /\ Since

-----------------------------------------------------------------------------
\* Dividing by a positive number stays within the integers.
LEMMA DivInt == ASSUME NEW a \in Int, NEW b \in Nat \ {0} PROVE a \div b \in Int
  OBVIOUS

\* The policy and the bars have the types the assumption gives them.
LEMMA InputsTyped ==
  ASSUME InputsOK
  PROVE  /\ series \in Seq(DailyBar) /\ Len(series) \in Nat /\ today \in 1..Len(series)
         /\ Bar \in DailyBar
         /\ policy.execution \in Executions /\ policy.trail \in Nat
         /\ policy.stages \in Seq(ScaleOutStage) /\ Len(policy.stages) \in Nat
  BY TestAssumption DEF InputsOK, Bar

\* Prices and fees are integers.
LEMMA FeesAreInt ==
  ASSUME NEW side, NEW amount \in Int
  PROVE  Fee(side, amount) \in Int
  <1>1. amount \div FeePer \in Int /\ amount \div TaxPer \in Int /\ MinFee \in Int
    BY DivInt, TestAssumption
  <1> QED BY <1>1 DEF Fee, Larger

LEMMA PriceIsInt ==
  ASSUME InputsOK, NEW order
  PROVE  FillPrice(order) \in Int
  <1>1. RawPrice \in Int
    BY InputsTyped DEF RawPrice, DailyBar
  <1>2. (RawPrice * SlippageBps) \div 10000 \in Int
    <2>1. RawPrice * SlippageBps \in Int
      BY <1>1, TestAssumption
    <2> QED BY <2>1, DivInt
  <1> QED BY <1>1, <1>2 DEF FillPrice

\* The rest of a list without an exit, or of one that is alone.
LEMMA ExitAloneTail ==
  ASSUME NEW orders, ExitAlone(orders), orders # <<>>
  PROVE  /\ ExitAlone(Tail(orders))
         /\ Tail(orders) # <<>> => Tail(orders)[1].why # "exit"
  <1>1. /\ orders \in Seq(AnyOrder) /\ Len(orders) \in Nat \ {0}
        /\ Tail(orders) \in Seq(AnyOrder) /\ Len(Tail(orders)) = Len(orders) - 1
        /\ \A i \in 1..Len(Tail(orders)) : Tail(orders)[i] = orders[i + 1]
    BY DEF ExitAlone
  <1>2. \A i \in 1..Len(Tail(orders)) : Tail(orders)[i].why # "exit"
    <2> SUFFICES ASSUME NEW i \in 1..Len(Tail(orders)), Tail(orders)[i].why = "exit" PROVE FALSE
      OBVIOUS
    <2>1. i + 1 \in 1..Len(orders) /\ orders[i + 1].why = "exit"
      BY <1>1
    <2>2. Len(orders) = 1
      BY <2>1 DEF ExitAlone
    <2> QED BY <1>1, <2>1, <2>2
  <1>3. Tail(orders) # <<>> => 1 \in 1..Len(Tail(orders))
    BY <1>1
  <1> QED BY <1>1, <1>2, <1>3 DEF ExitAlone

\* What may be emitted on a bar: a list of the strategy's, a stage, or an exit.
LEMMA EmittedAlone ==
  /\ \A orders \in OrderLists : ExitAlone(orders)
  /\ ExitAlone(Alone(ExitAll))
  /\ \A n \in Int : ExitAlone(Alone(Order("sell", FALSE, n, "stage")))
  <1>1. \A orders \in OrderLists : ExitAlone(orders)
    <2> SUFFICES ASSUME NEW orders \in OrderLists PROVE ExitAlone(orders)
      OBVIOUS
    <2>1. orders \in Seq(OwnOrder)
      BY TestAssumption
    <2>2. Len(orders) \in Nat /\ \A i \in 1..Len(orders) : orders[i] \in OwnOrder
      BY <2>1
    <2>3. \A o \in OwnOrder : o \in AnyOrder /\ o.why # "exit"
      BY DEF OwnOrder, AnyOrder
    <2>4. orders \in Seq(AnyOrder)
      BY <2>1, <2>2, <2>3
    <2> QED BY <2>2, <2>3, <2>4 DEF ExitAlone
  <1>2. ExitAll \in AnyOrder /\ \A n \in Int : Order("sell", FALSE, n, "stage") \in AnyOrder
    BY DEF ExitAll, Order, AnyOrder
  <1>3. ExitAlone(Alone(ExitAll))
    BY <1>2 DEF ExitAlone, Alone
  <1>4. ASSUME NEW n \in Int PROVE ExitAlone(Alone(Order("sell", FALSE, n, "stage")))
    BY <1>2 DEF ExitAlone, Alone, Order
  <1> QED BY <1>1, <1>3, <1>4

-----------------------------------------------------------------------------
\* The invariant holds at the start.
LEMMA TestInitInv == ASSUME TestInit PROVE TestInv
  <1>1. InputsOK
    BY TestAssumption DEF TestInit, InputsOK
  <1>2. Len(policy.stages) \in Nat
    BY <1>1, InputsTyped
  <1>3. BookOK
    BY TestAssumption DEF TestInit, BookOK
  <1>4. PositionOK
    BY <1>2 DEF TestInit, PositionOK, NotOpen
  <1>5. ExitCanSell
    BY DEF TestInit, ExitCanSell, ExitAlone
  <1>6. FillsOK
    BY DEF TestInit, FillsOK, ExitsClose
  <1>7. PeakIsHighest /\ Since
    BY DEF TestInit, PeakIsHighest, Since
  <1> QED BY <1>1, <1>3, <1>4, <1>5, <1>6, <1>7 DEF TestInv

\* A new bar: the bar before is over, and everything held may be sold.
LEMMA NextBarInv == ASSUME TestInv, NextBar PROVE TestInv'
  <1> USE DEF TestInv
  <1>1. InputsOK'
    BY InputsTyped DEF NextBar, InputsOK
  <1>2. BookOK'
    BY DEF NextBar, BookOK
  <1>3. PositionOK'
    BY DEF NextBar, PositionOK
  <1>4. ExitCanSell'
    <2>1. book'.sellable = book'.shares
      BY DEF NextBar, BookOK
    <2>2. ExitAlone(<<>>)
      BY DEF ExitAlone
    <2>3. CASE policy.execution = "next_open"
      BY <2>1, <2>2, <2>3 DEF NextBar, ExitCanSell, ExitAlone
    <2>4. CASE policy.execution # "next_open"
      BY <2>1, <2>4 DEF NextBar, ExitCanSell, ExitAlone
    <2> QED BY <2>3, <2>4
  <1>5. FillsOK'
    BY DEF NextBar, FillsOK, ExitsClose
  <1>6. PeakIsHighest' /\ Since'
    <2>1. LastDecided' = LastDecided
      BY InputsTyped DEF NextBar, LastDecided
    <2> QED BY <2>1 DEF NextBar, PeakIsHighest, ClosesSince, Since
  <1> QED BY <1>1, <1>2, <1>3, <1>4, <1>5, <1>6

LEMMA FillsDoneInv == ASSUME TestInv, FillsDone PROVE TestInv'
  <1> USE DEF TestInv
  <1>1. InputsOK'
    BY DEF FillsDone, InputsOK
  <1>2. BookOK' /\ PositionOK'
    BY DEF FillsDone, BookOK, PositionOK
  <1>4. ExitCanSell'
    BY DEF FillsDone, ExitCanSell, ExitAlone
  <1>5. FillsOK'
    BY DEF FillsDone, FillsOK, ExitsClose
  <1>6. PeakIsHighest' /\ Since'
    <2>1. LastDecided' = LastDecided
      BY DEF FillsDone, LastDecided
    <2> QED BY <2>1 DEF FillsDone, PeakIsHighest, ClosesSince, Since
  <1> QED BY <1>1, <1>2, <1>4, <1>5, <1>6

-----------------------------------------------------------------------------
\* An order is executed.

\* The first of the orders has its type.
LEMMA HeadTyped ==
  ASSUME ExitCanSell, queue # <<>>
  PROVE  /\ Head(queue) \in AnyOrder /\ Head(queue) = queue[1]
         /\ Head(queue).why = "exit" => Head(queue) = ExitAll /\ book.sellable = book.shares
  <1>1. queue \in Seq(AnyOrder) /\ Len(queue) \in Nat \ {0} /\ Head(queue) = queue[1]
    BY DEF ExitCanSell, ExitAlone
  <1> QED BY <1>1 DEF ExitCanSell, ExitAlone

\* A fill that is logged keeps the log's type, and closes if it is an exit.
LEMMA LogFill ==
  ASSUME FillsOK, today \in Int, book.cash \in Int,
         NEW order \in AnyOrder, NEW n \in Int, NEW fee \in Int, NEW rest \in Int,
         FillPrice(order) \in Int, Filled(order, n, fee, rest),
         order.why = "exit" => rest = 0
  PROVE  FillsOK'
  <1> DEFINE f == [bar |-> today, order |-> order, shares |-> n, price |-> FillPrice(order),
                   fee |-> fee, before |-> book.cash, rest |-> rest]
  <1>1. f \in AnyFill /\ fills' = Append(fills, f)
    BY DEF AnyFill, Filled
  <1>2. /\ fills \in Seq(AnyFill) /\ fills' \in Seq(AnyFill) /\ Len(fills) \in Nat
        /\ DOMAIN fills = 1..Len(fills)
        /\ DOMAIN fills' = 1..(Len(fills) + 1) /\ fills'[Len(fills) + 1] = f
        /\ \A i \in DOMAIN fills : fills'[i] = fills[i]
    BY <1>1 DEF FillsOK
  <1>3. f.order = order /\ f.rest = rest
    OBVIOUS
  <1>4. ASSUME NEW i \in DOMAIN fills', fills'[i].order.why = "exit" PROVE fills'[i].rest = 0
    <2>1. CASE i \in DOMAIN fills
      BY <1>2, <1>4, <2>1 DEF FillsOK, ExitsClose
    <2>2. CASE i = Len(fills) + 1
      BY <1>2, <1>3, <1>4, <2>2
    <2> QED BY <1>2, <2>1, <2>2
  <1> QED BY <1>2, <1>4 DEF FillsOK, ExitsClose

\* A buy keeps the book well-formed, and is no exit.
LEMMA BuyInv ==
  ASSUME InputsOK, BookOK, FillsOK, NEW order \in AnyOrder, Buy(order),
         order.why = "exit" => order = ExitAll
  PROVE  BookOK' /\ FillsOK' /\ order.why # "exit"
  <1>1. PICK n \in Fitting(order) :
          /\ book' = [cash |-> book.cash - Paid(n, FillPrice(order)), shares |-> book.shares + n,
                      sellable |-> SellableAfter(n), basis |-> book.basis + n * FillPrice(order)]
          /\ Filled(order, n, Fee("buy", n * FillPrice(order)), book.shares + n)
    BY DEF Buy
  <1>2. n \in Nat /\ FillPrice(order) \in Int /\ n * FillPrice(order) \in Int
    <2>1. n \in Int /\ n >= MinLot
      BY DEF Fitting
    <2> QED BY <2>1, PriceIsInt, TestAssumption
  <1>3. Fee("buy", n * FillPrice(order)) \in Int
    BY <1>2, FeesAreInt
  <1>4. order.why # "exit"
    BY DEF Buy, ExitAll, Order
  <1>5. BookOK'
    BY <1>1, <1>2, <1>3 DEF BookOK, Paid, SellableAfter
  <1>6. FillsOK'
    BY <1>1, <1>2, <1>3, <1>4, LogFill, InputsTyped DEF BookOK
  <1> QED BY <1>4, <1>5, <1>6

\* A sale keeps the book well-formed, and closes the position if it is an exit.
LEMMA SellInv ==
  ASSUME InputsOK, BookOK, FillsOK, NEW order \in AnyOrder, Sell(order),
         order.why = "exit" => order = ExitAll /\ book.sellable = book.shares
  PROVE  BookOK' /\ FillsOK'
  <1> DEFINE n == Sold(order)
             amount == n * FillPrice(order)
             part == (book.basis * n) \div book.shares
  <1>1. n \in Nat /\ n > 0 /\ n <= book.sellable /\ n <= book.shares /\ book.shares \in Nat \ {0}
    BY DEF Sell, Sold, Smaller, BookOK, AnyOrder
  <1>2. FillPrice(order) \in Int /\ amount \in Int
    BY <1>1, PriceIsInt
  <1>3. Fee("sell", amount) \in Int
    BY <1>2, FeesAreInt
  <1>4. part \in Int
    <2>1. book.basis * n \in Int
      BY <1>1 DEF BookOK
    <2> QED BY <1>1, <2>1, DivInt
  <1>5. /\ book' = [cash |-> book.cash + amount - Fee("sell", amount), shares |-> book.shares - n,
                    sellable |-> book.sellable - n, basis |-> book.basis - part]
        /\ Filled(order, n, Fee("sell", amount), book.shares - n)
    BY DEF Sell
  <1> HIDE DEF n, amount, part
  <1>6. BookOK'
    BY <1>1, <1>2, <1>3, <1>4, <1>5 DEF BookOK
  <1>7. order.why = "exit" => book.shares - n = 0
    BY <1>1 DEF n, Sold, ExitAll, Order, BookOK
  <1>8. FillsOK'
    BY <1>1, <1>2, <1>3, <1>5, <1>7, LogFill, InputsTyped DEF BookOK
  <1> QED BY <1>6, <1>8

LEMMA ExecuteOrderInv == ASSUME TestInv, ExecuteOrder PROVE TestInv'
  <1> USE DEF TestInv
  <1> DEFINE order == Head(queue)
  <1>1. order \in AnyOrder /\ (order.why = "exit" => order = ExitAll /\ book.sellable = book.shares)
    BY HeadTyped DEF ExecuteOrder
  <1>2. InputsOK' /\ PositionOK'
    BY DEF ExecuteOrder, InputsOK, PositionOK
  <1>3. BookOK' /\ FillsOK'
    <2>1. CASE Buy(order)
      BY <1>1, <2>1, BuyInv
    <2>2. CASE Sell(order)
      BY <1>1, <2>2, SellInv
    <2>3. CASE Reject(order)
      BY <2>3 DEF Reject, BookOK, FillsOK, ExitsClose
    <2> QED BY <2>1, <2>2, <2>3 DEF ExecuteOrder
  <1>4. ExitCanSell'
    <2>1. ExitAlone(Tail(queue)) /\ (Tail(queue) # <<>> => Tail(queue)[1].why # "exit")
      BY ExitAloneTail DEF ExecuteOrder, ExitCanSell
    <2> QED BY <2>1 DEF ExecuteOrder, ExitCanSell, ExitAlone
  <1>5. PeakIsHighest' /\ Since'
    <2>1. LastDecided' = LastDecided
      BY DEF ExecuteOrder, LastDecided
    <2> QED BY <2>1 DEF ExecuteOrder, PeakIsHighest, ClosesSince, Since
  <1> QED BY <1>2, <1>3, <1>4, <1>5

-----------------------------------------------------------------------------
\* A bar is decided on.

\* What is emitted is executed while everything held may be sold, and the bar
\* counts as decided from then on.
LEMMA EmitsInv ==
  ASSUME TestInv, NEW orders, ExitAlone(orders), Emits(orders)
  PROVE  /\ InputsOK' /\ BookOK' /\ ExitCanSell' /\ FillsOK'
         /\ LastDecided = today - 1 /\ LastDecided' = today
  <1> USE DEF TestInv
  <1>0. policy.execution \in Executions
    BY InputsTyped
  <1>1. InputsOK' /\ BookOK' /\ FillsOK'
    <2>1. phase' \in {"fill", "done"}
      BY <1>0 DEF Emits, Executions
    <2> QED BY <2>1 DEF Emits, InputsOK, BookOK, FillsOK, ExitsClose
  <1>2. ExitCanSell'
    <2>1. CASE policy.execution = "next_open"
      BY <2>1 DEF Emits, ExitCanSell, ExitAlone
    <2>2. CASE policy.execution = "next_close"
      BY <2>2 DEF Emits, ExitCanSell, ExitAlone
    <2>3. CASE policy.execution = "same_close"
      BY <2>3 DEF Emits, ExitCanSell, ExitAlone
    <2> QED BY <1>0, <2>1, <2>2, <2>3 DEF Executions
  <1>3. LastDecided = today - 1 /\ LastDecided' = today
    BY <1>0 DEF Emits, LastDecided, Executions
  <1> QED BY <1>1, <1>2, <1>3

\* One bar more adds its close, if its true range is known, and no other.
LEMMA OneMoreClose ==
  ASSUME InputsOK, NEW bar \in Nat
  PROVE  /\ ClosesSince(bar, today - 1) \subseteq Int
         /\ ClosesSince(bar, today - 1) \subseteq ClosesSince(bar, today)
         /\ \A c \in ClosesSince(bar, today) :
              c \in ClosesSince(bar, today - 1) \/ (today >= AtrPeriod /\ c = Bar.close)
         /\ bar < today /\ today >= AtrPeriod => Bar.close \in ClosesSince(bar, today)
  <1>1. /\ today \in Int /\ Len(series) \in Nat /\ today <= Len(series) /\ AtrPeriod \in Int
        /\ \A i \in 1..Len(series) : series[i].close \in Int
    <2>1. series \in Seq(DailyBar) /\ \A b \in DailyBar : b.close \in Int
      BY InputsTyped DEF DailyBar
    <2> QED BY <2>1, InputsTyped, TestAssumption
  <1>2. ClosesSince(bar, today - 1) \subseteq Int
    BY <1>1 DEF ClosesSince
  <1>3. ClosesSince(bar, today - 1) \subseteq ClosesSince(bar, today)
    <2>1. (bar + 1)..(today - 1) \subseteq (bar + 1)..today
      BY <1>1
    <2> QED BY <2>1 DEF ClosesSince
  <1>4. ASSUME NEW c \in ClosesSince(bar, today)
        PROVE  c \in ClosesSince(bar, today - 1) \/ (today >= AtrPeriod /\ c = Bar.close)
    <2>1. PICK i \in (bar + 1)..today : i >= AtrPeriod /\ c = series[i].close
      BY <1>1 DEF ClosesSince
    <2>2. CASE i = today
      BY <2>1, <2>2 DEF Bar
    <2>3. CASE i # today
      BY <1>1, <2>1, <2>3 DEF ClosesSince
    <2> QED BY <2>2, <2>3
  <1>5. bar < today /\ today >= AtrPeriod => Bar.close \in ClosesSince(bar, today)
    BY <1>1 DEF ClosesSince, Bar
  <1> QED BY <1>2, <1>3, <1>4, <1>5

\* The peak goes on being the highest when the close of the bar is tracked.
LEMMA PeakTracked ==
  ASSUME InputsOK, PositionOK, PeakIsHighest, position # NotOpen, policy.trail > 0,
         LastDecided = today - 1, position.since < today
  PROVE  /\ Peak \in Int
         /\ Peak \in ClosesSince(position.since, today) \cup {position.entry}
         /\ \A c \in ClosesSince(position.since, today) : c <= Peak
  <1>1. /\ today \in Int /\ Bar.close \in Int /\ AtrPeriod \in Int /\ policy.trail \in Nat
        /\ position.peak \in Int /\ position.since \in Nat /\ position.entry \in Int
    BY InputsTyped, TestAssumption DEF DailyBar, PositionOK
  <1>2. /\ position.peak \in ClosesSince(position.since, today - 1) \cup {position.entry}
        /\ \A c \in ClosesSince(position.since, today - 1) : c <= position.peak
    BY DEF PeakIsHighest
  <1>3. Peak \in Int /\ position.peak <= Peak
    BY <1>1 DEF Peak, Larger
  <1>4. CASE today >= AtrPeriod
    <2>1. Peak = Larger(position.peak, Bar.close)
      BY <1>4 DEF Peak, Trails, AtrKnown
    <2>2. Bar.close <= Peak /\ Peak \in {position.peak, Bar.close}
      BY <1>1, <2>1 DEF Larger
    <2> QED BY <1>1, <1>2, <1>3, <1>4, <2>2, OneMoreClose
  <1>5. CASE ~(today >= AtrPeriod)
    <2>1. Peak = position.peak
      BY <1>5 DEF Peak, Trails, AtrKnown
    <2> QED BY <1>1, <1>2, <1>3, <1>5, <2>1, OneMoreClose
  <1> QED BY <1>4, <1>5

\* The position when it is opened, and its entry at the average cost.
LEMMA OpenedTyped ==
  ASSUME InputsOK, BookOK, book.shares > 0, Opened # NotOpen
  PROVE  /\ Opened = [entry |-> Opened.entry, stop |-> Opened.stop, risk |-> Opened.risk,
                      shares |-> Opened.shares, next |-> Opened.next, peak |-> Opened.peak,
                      since |-> Opened.since]
         /\ Opened.entry \in Int /\ Opened.peak = Opened.entry /\ Opened.next = 1
         /\ Opened.since = today /\ Opened.shares \in Int
  <1> DEFINE entry == book.basis \div book.shares
             stop  == InitialStop(entry)
  <1>1. entry \in Int
    BY DivInt DEF BookOK
  <1>2. Opened = [entry |-> entry, stop |-> stop, risk |-> entry - stop, shares |-> book.shares,
                  next |-> 1, peak |-> entry, since |-> today]
    BY DEF Opened
  <1> HIDE DEF entry, stop
  <1> QED BY <1>1, <1>2 DEF BookOK

\* What a watched bar makes of the position.
LEMMA WatchedInv ==
  ASSUME InputsOK, PositionOK, PeakIsHighest, Since, position # NotOpen,
         UNCHANGED <<series, policy>>, LastDecided = today - 1, LastDecided' = today,
         NEW next \in 1..(Len(policy.stages) + 1), NEW stop,
         position' = [position EXCEPT !.peak = Peak, !.next = next, !.stop = stop]
  PROVE  PositionOK' /\ PeakIsHighest' /\ Since'
  <1>1. /\ position'.peak = Peak /\ position'.since = position.since
        /\ position'.entry = position.entry /\ position'.next = next
        /\ position' = [entry |-> position.entry, stop |-> stop, risk |-> position.risk,
                        shares |-> position.shares, next |-> next, peak |-> Peak,
                        since |-> position.since]
    BY DEF PositionOK
  <1>2. Peak \in Int
    BY InputsTyped DEF Peak, Larger, PositionOK, DailyBar
  <1>3. PositionOK'
    BY <1>1, <1>2 DEF PositionOK
  <1>4. ASSUME policy.trail > 0
        PROVE  /\ Peak \in ClosesSince(position.since, today) \cup {position.entry}
               /\ \A c \in ClosesSince(position.since, today) : c <= Peak
    <2>1. position.since < today
      BY InputsTyped DEF Since, PositionOK
    <2> QED BY <1>4, <2>1, PeakTracked
  <1>5. ClosesSince(position.since, LastDecided)' = ClosesSince(position.since, today)
    BY <1>1 DEF ClosesSince
  <1>6. PeakIsHighest'
    BY <1>1, <1>4, <1>5 DEF PeakIsHighest
  <1>7. Since'
    BY <1>1, InputsTyped DEF Since, PositionOK
  <1> QED BY <1>3, <1>6, <1>7

\* A bar on which the position is not watched: there is none, or it is first
\* seen, from which on there is no close yet.
LEMMA UnwatchedInv ==
  ASSUME InputsOK, BookOK, PositionOK, Since, UNCHANGED <<series, policy>>, LastDecided' = today,
         \/ position' = NotOpen
         \/ policy.managed /\ book.shares > 0 /\ position' = Opened
  PROVE  PositionOK' /\ PeakIsHighest' /\ Since'
  <1>1. Len(policy.stages) \in Nat /\ today \in Nat
    BY InputsTyped
  <1>2. CASE position' = NotOpen
    <2>1. PositionOK'
      BY <1>1, <1>2 DEF PositionOK, NotOpen
    <2> QED BY <1>2, <2>1 DEF PeakIsHighest, Since
  <1>3. CASE policy.managed /\ book.shares > 0 /\ position' = Opened /\ Opened # NotOpen
    <2>1. PositionOK'
      BY <1>1, <1>3, OpenedTyped DEF PositionOK
    <2>2. position'.since = today /\ position'.peak = position'.entry
      BY <1>3, OpenedTyped
    <2>3. ClosesSince(position.since, LastDecided)' = {}
      BY <1>1, <2>2 DEF ClosesSince
    <2> QED BY <1>1, <1>3, <2>1, <2>2, <2>3 DEF PeakIsHighest, Since
  <1> QED BY <1>2, <1>3

LEMMA DecideFreelyInv == ASSUME TestInv, DecideFreely PROVE TestInv'
  <1> USE DEF TestInv
  <1>1. PICK orders \in OrderLists : Emits(orders)
    BY DEF DecideFreely
  <1>2. /\ InputsOK' /\ BookOK' /\ ExitCanSell' /\ FillsOK'
        /\ LastDecided = today - 1 /\ LastDecided' = today
    BY <1>1, EmitsInv, EmittedAlone
  <1>3. UNCHANGED <<series, policy>>
    BY <1>1 DEF Emits
  <1>4. PositionOK' /\ PeakIsHighest' /\ Since'
    <2>1. CASE ~policy.managed /\ UNCHANGED position
      BY <1>2, <1>3, <2>1, UnwatchedInv DEF Since
    <2>2. CASE position' = NotOpen
      BY <1>2, <1>3, <2>2, UnwatchedInv
    <2>3. CASE policy.managed /\ book.shares > 0 /\ position' = Opened
      BY <1>2, <1>3, <2>3, UnwatchedInv
    <2>4. CASE Watched /\ position' = Tracked
      <3>1. position' = [position EXCEPT !.peak = Peak, !.next = position.next, !.stop = position.stop]
        BY <2>4 DEF Tracked, PositionOK
      <3> QED BY <1>2, <1>3, <2>4, <3>1, WatchedInv DEF Watched, PositionOK
    <2> QED BY <2>1, <2>2, <2>3, <2>4 DEF DecideFreely
  <1> QED BY <1>2, <1>4

LEMMA ExitInv ==
  ASSUME TestInv, Watched, Emits(Alone(ExitAll)), position' = Tracked
  PROVE  TestInv'
  <1> USE DEF TestInv
  <1>1. /\ InputsOK' /\ BookOK' /\ ExitCanSell' /\ FillsOK'
        /\ LastDecided = today - 1 /\ LastDecided' = today
    BY EmitsInv, EmittedAlone
  <1>2. UNCHANGED <<series, policy>>
    BY DEF Emits
  <1>3. position' = [position EXCEPT !.peak = Peak, !.next = position.next, !.stop = position.stop]
    BY DEF Tracked, PositionOK
  <1>4. PositionOK' /\ PeakIsHighest' /\ Since'
    BY <1>1, <1>2, <1>3, WatchedInv DEF Watched, PositionOK
  <1> QED BY <1>1, <1>4

LEMMA ScaleOutInv == ASSUME TestInv, ScaleOut PROVE TestInv'
  <1> USE DEF TestInv
  <1> DEFINE n == Larger(1, (position.shares * Stage.tenths) \div 10)
             stop == IF policy.breakeven THEN Larger(position.stop, position.entry) ELSE position.stop
  <1>1. Stage.tenths \in Nat /\ position.next + 1 \in 1..(Len(policy.stages) + 1)
    <2>1. /\ policy.stages \in Seq(ScaleOutStage) /\ Len(policy.stages) \in Nat
          /\ position.next \in 1..(Len(policy.stages) + 1) /\ position.next <= Len(policy.stages)
      BY InputsTyped DEF ScaleOut, TargetHit, PositionOK
    <2>2. /\ position.next \in 1..Len(policy.stages)
          /\ position.next + 1 \in 1..(Len(policy.stages) + 1)
      BY <2>1
    <2>3. policy.stages[position.next] \in ScaleOutStage
      BY <2>1, <2>2
    <2> QED BY <2>2, <2>3 DEF Stage, ScaleOutStage
  <1>2. n \in Int
    <2>1. position.shares * Stage.tenths \in Int
      BY <1>1 DEF PositionOK
    <2>2. (position.shares * Stage.tenths) \div 10 \in Int
      BY <2>1, DivInt
    <2> QED BY <2>2 DEF Larger
  <1>3. Emits(Alone(Order("sell", FALSE, n, "stage")))
    BY DEF ScaleOut
  <1>4. position' = [position EXCEPT !.peak = Peak, !.next = position.next + 1, !.stop = stop]
    BY DEF ScaleOut, Tracked, PositionOK
  <1> HIDE DEF n, stop
  <1>5. /\ InputsOK' /\ BookOK' /\ ExitCanSell' /\ FillsOK'
        /\ LastDecided = today - 1 /\ LastDecided' = today
    BY <1>2, <1>3, EmitsInv, EmittedAlone
  <1>6. UNCHANGED <<series, policy>>
    BY <1>3 DEF Emits
  <1>7. PositionOK' /\ PeakIsHighest' /\ Since'
    BY <1>1, <1>4, <1>5, <1>6, WatchedInv DEF ScaleOut, Watched
  <1> QED BY <1>5, <1>7

-----------------------------------------------------------------------------
\* A backtest that stands still keeps the invariant.
LEMMA StutterInv == ASSUME TestInv, UNCHANGED testVars PROVE TestInv'
  <1> USE DEF TestInv, testVars
  <1>1. InputsOK' /\ BookOK' /\ PositionOK'
    BY DEF InputsOK, BookOK, PositionOK
  <1>2. ExitCanSell' /\ FillsOK'
    BY DEF ExitCanSell, ExitAlone, FillsOK, ExitsClose
  <1>3. PeakIsHighest' /\ Since'
    BY DEF PeakIsHighest, Since, ClosesSince, LastDecided
  <1> QED BY <1>1, <1>2, <1>3

LEMMA TestStepInv == TestInv /\ [TestNext]_testVars => TestInv'
  <1> SUFFICES ASSUME TestInv, [TestNext]_testVars PROVE TestInv'
    OBVIOUS
  <1>1. CASE NextBar
    BY <1>1, NextBarInv
  <1>2. CASE ExecuteOrder
    BY <1>2, ExecuteOrderInv
  <1>3. CASE FillsDone
    BY <1>3, FillsDoneInv
  <1>4. CASE DecideFreely
    BY <1>4, DecideFreelyInv
  <1>5. CASE StopOut
    BY <1>5, ExitInv DEF StopOut
  <1>6. CASE ScaleOut
    BY <1>6, ScaleOutInv
  <1>7. CASE TrailOut
    BY <1>7, ExitInv DEF TrailOut
  <1>8. CASE UNCHANGED testVars
    BY <1>8, StutterInv
  <1> QED BY <1>1, <1>2, <1>3, <1>4, <1>5, <1>6, <1>7, <1>8 DEF TestNext

\* The invariant holds in every state of every backtest.
THEOREM TestInvariant == TestSpec => []TestInv
  <1>1. TestInit => TestInv
    BY TestInitInv
  <1>2. TestInv /\ [TestNext]_testVars => TestInv'
    BY TestStepInv
  <1> QED BY <1>1, <1>2, PTL DEF TestSpec

\* The book never has more for sale than is held, on any bar of any series
\* (engine.rs: Portfolio).
THEOREM TestTypeCorrect == TestSpec => []TestTypeOK
  <1>1. TestInv => TestTypeOK
    BY DEF TestInv, InputsOK, BookOK, PositionOK, TestTypeOK
  <1> QED BY <1>1, TestInvariant, PTL

\* For every strategy, exit policy and execution time, an exit that is executed
\* closes the position, and the trailing stop hangs from the highest close
\* since the entry (exit.rs: ExitManaged::on_bar, ExitPolicy::on_bar).
THEOREM SpecExitsAreSound == TestSpec => []ExitsAreSound
  <1>1. TestInv => ExitsAreSound
    BY DEF TestInv, FillsOK, ExitsAreSound
  <1> QED BY <1>1, TestInvariant, PTL

-----------------------------------------------------------------------------
\* Whole numbers.
LEMMA DivMod ==
  ASSUME NEW a \in Int, NEW b \in Nat \ {0}
  PROVE  /\ a \div b \in Int /\ a % b \in 0..(b - 1)
         /\ a = b * (a \div b) + (a % b)
  OBVIOUS

LEMMA TimesMonotone ==
  ASSUME NEW a \in Int, NEW b \in Int, NEW c \in Nat, a <= b
  PROVE  c * a <= c * b
  <1>1. c * (b - a) >= 0
    OBVIOUS
  <1>2. c * b = c * a + c * (b - a)
    OBVIOUS
  <1> QED BY <1>1, <1>2

LEMMA OnlyZero ==
  ASSUME NEW j \in Int, NEW c \in Nat \ {0}, c * j >= 0, c * j < c
  PROVE  j = 0
  <1>1. ~(j >= 1)
    BY TimesMonotone
  <1>2. ~(j <= -1)
    <2> SUFFICES ASSUME j <= -1 PROVE FALSE
      OBVIOUS
    <2>1. c * j <= c * (-1)
      BY TimesMonotone
    <2> QED BY <2>1
  <1> QED BY <1>1, <1>2

LEMMA Multiples ==
  ASSUME NEW c \in Nat \ {0}, NEW k \in Int
  PROVE  (c * k) % c = 0
  <1> DEFINE a == c * k
             q == a \div c
  <1>0. a \in Int
    OBVIOUS
  <1> HIDE DEF a
  <1>1. q \in Int /\ a % c \in 0..(c - 1) /\ a = c * q + (a % c)
    BY <1>0, DivMod
  <1> HIDE DEF q
  <1>2. c * (k - q) = a % c
    <2>1. c * (k - q) = c * k - c * q
      BY <1>1
    <2>2. c * q \in Int /\ a - c * q = a % c
      BY <1>0, <1>1
    <2> QED BY <2>1, <2>2 DEF a
  <1>3. k - q = 0
    <2>1. c * (k - q) >= 0 /\ c * (k - q) < c
      BY <1>1, <1>2
    <2> QED BY <1>1, <2>1, OnlyZero
  <1>4. c * (k - q) = 0
    BY <1>1, <1>3
  <1> QED BY <1>2, <1>4 DEF a

LEMMA MultiplesDiffer ==
  ASSUME NEW a \in Int, NEW b \in Int, NEW c \in Nat \ {0}, a % c = 0, b % c = 0
  PROVE  (a - b) % c = 0
  <1> DEFINE i == a \div c
             j == b \div c
  <1>1. i \in Int /\ j \in Int /\ a = c * i /\ b = c * j
    BY DivMod
  <1> HIDE DEF i, j
  <1>2. a - b = c * (i - j)
    BY <1>1
  <1> QED BY <1>1, <1>2, Multiples

\* What is paid for fits into the money.
LEMMA QuotientBounds ==
  ASSUME NEW n \in Int, NEW price \in Nat \ {0}, NEW cash \in Int, n * price <= cash
  PROVE  n <= cash \div price
  <1> DEFINE q == cash \div price
  <1>1. q \in Int /\ cash < price * q + price
    BY DivMod
  <1> HIDE DEF q
  <1>2. ~(n >= q + 1)
    <2> SUFFICES ASSUME n >= q + 1 PROVE FALSE
      OBVIOUS
    <2>1. price * (q + 1) <= price * n
      BY <1>1, TimesMonotone
    <2>2. price * (q + 1) = price * q + price /\ price * n = n * price
      BY <1>1
    <2> QED BY <1>1, <2>1, <2>2
  <1>3. n <= q
    BY <1>1, <1>2
  <1> QED BY <1>3 DEF q

\* round_lot finds the largest valid lot.
LEMMA RoundLotIsLargest ==
  ASSUME NEW n \in Int
  PROVE  /\ RoundLot(n) \in Nat
         /\ RoundLot(n) >= MinLot =>
              RoundLot(n) <= n /\ (RoundLot(n) - MinLot) % LotStep = 0
         /\ \A m \in Int : m >= MinLot /\ m <= n /\ (m - MinLot) % LotStep = 0 => m <= RoundLot(n)
  <1> DEFINE q == (n - MinLot) \div LotStep
  <1>0. MinLot \in Nat \ {0} /\ LotStep \in Nat \ {0}
    BY TestAssumption
  <1>1. CASE n < MinLot
    BY <1>0, <1>1 DEF RoundLot
  <1>2. CASE n >= MinLot
    <2>1. /\ q \in Int /\ (n - MinLot) % LotStep \in 0..(LotStep - 1)
          /\ n - MinLot = LotStep * q + ((n - MinLot) % LotStep)
      <3> DEFINE d == n - MinLot
      <3>1. d \in Int
        BY <1>0
      <3> HIDE DEF d
      <3>2. d \div LotStep \in Int /\ d % LotStep \in 0..(LotStep - 1)
              /\ d = LotStep * (d \div LotStep) + (d % LotStep)
        BY <1>0, <3>1, DivMod
      <3> QED BY <3>2 DEF d
    <2>2. RoundLot(n) = MinLot + LotStep * q
      <3>1. RoundLot(n) = MinLot + q * LotStep
        BY <1>0, <1>2 DEF RoundLot
      <3> QED BY <1>0, <2>1, <3>1
    <2> HIDE DEF q
    <2> DEFINE left == (n - MinLot) % LotStep
               whole == LotStep * q
    <2>0. /\ left \in 0..(LotStep - 1) /\ whole \in Int /\ n - MinLot = whole + left
          /\ RoundLot(n) = MinLot + whole
      BY <1>0, <2>1, <2>2
    <2> HIDE DEF left, whole
    <2>3. RoundLot(n) <= n
      BY <1>0, <2>0
    <2>4. RoundLot(n) - MinLot = LotStep * q
      BY <1>0, <2>1, <2>2
    <2>5. (RoundLot(n) - MinLot) % LotStep = 0
      BY <1>0, <2>1, <2>4, Multiples
    <2>6. q >= 0
      <3> SUFFICES ASSUME q <= -1 PROVE FALSE
        BY <2>1
      <3>1. LotStep * q <= LotStep * (-1)
        BY <1>0, <2>1, TimesMonotone
      <3>2. whole <= -LotStep
        BY <1>0, <2>1, <3>1 DEF whole
      <3> QED BY <1>0, <1>2, <2>0, <3>2
    <2>7. LotStep * q \in Nat
      BY <1>0, <2>1, <2>6
    <2>8. ASSUME NEW m \in Int, m >= MinLot, m <= n, (m - MinLot) % LotStep = 0
          PROVE  m <= RoundLot(n)
      <3> DEFINE k == (m - MinLot) \div LotStep
      <3>1. k \in Int /\ m - MinLot = LotStep * k
        BY <1>0, <2>8, DivMod
      <3> HIDE DEF k
      <3>2. LotStep * k < LotStep * q + LotStep
        <4>1. m - MinLot < whole + LotStep
          BY <1>0, <2>0, <2>8
        <4> QED BY <3>1, <4>1 DEF whole
      <3>3. k <= q
        <4> SUFFICES ASSUME k >= q + 1 PROVE FALSE
          BY <2>1, <3>1
        <4>1. LotStep * (q + 1) <= LotStep * k
          BY <1>0, <2>1, <3>1, TimesMonotone
        <4>2. LotStep * (q + 1) = LotStep * q + LotStep
          BY <1>0, <2>1
        <4> QED BY <1>0, <2>1, <3>1, <3>2, <4>1, <4>2
      <3>4. LotStep * k <= LotStep * q
        BY <1>0, <2>1, <3>1, <3>3, TimesMonotone
      <3> QED BY <1>0, <2>1, <2>2, <3>1, <3>4
    <2> QED BY <1>0, <2>2, <2>3, <2>5, <2>7, <2>8
  <1> QED BY <1>0, <1>1, <1>2

-----------------------------------------------------------------------------
\* The amounts execute_buy tries are the valid lots that cash pays for.
LEMMA BuyPrice ==
  ASSUME InputsOK, NEW order, order.side = "buy"
  PROVE  FillPrice(order) \in Nat \ {0}
  <1>1. RawPrice \in Nat \ {0}
    BY InputsTyped DEF RawPrice, DailyBar
  <1> DEFINE slip == (RawPrice * SlippageBps) \div 10000
  <1>2. slip \in Nat
    <2>1. RawPrice * SlippageBps \in Nat
      BY <1>1, TestAssumption
    <2> QED BY <2>1
  <1> HIDE DEF slip
  <1>3. FillPrice(order) = RawPrice + slip
    BY DEF FillPrice, slip
  <1> QED BY <1>1, <1>2, <1>3

LEMMA FittingIsValid ==
  ASSUME InputsOK, book.cash \in Int, NEW order \in AnyOrder, order.side = "buy"
  PROVE  Fitting(order) = ValidLots(order, FillPrice(order), book.cash)
  <1> DEFINE price == FillPrice(order)
             cash == book.cash
             most == IF order.all THEN Larger(cash, 0) \div price ELSE order.asked
             try == RoundLot(most)
  <1>0. /\ MinLot \in Nat \ {0} /\ LotStep \in Nat \ {0} /\ price \in Nat \ {0} /\ cash \in Int
        /\ order.asked \in Int
    BY BuyPrice, TestAssumption DEF AnyOrder
  <1>1. most \in Int
    <2>1. Larger(cash, 0) \in Int
      BY <1>0 DEF Larger
    <2>2. Larger(cash, 0) \div price \in Int
      BY <1>0, <2>1, DivInt
    <2> QED BY <1>0, <2>2
  <1>2. FirstTry(order) = try
    BY DEF FirstTry
  <1>3. \A n \in Int : n >= MinLot /\ Paid(n, price) <= cash =>
          n * price <= cash /\ cash >= 0 /\ n <= cash \div price
    <2> SUFFICES ASSUME NEW n \in Int, n >= MinLot, Paid(n, price) <= cash
                 PROVE  n * price <= cash /\ cash >= 0 /\ n <= cash \div price
      OBVIOUS
    <2>1. n \in Nat /\ n * price \in Nat
      BY <1>0
    <2>2. Fee("buy", n * price) \in Nat
      <3>1. Fee("buy", n * price) \in Int
        BY <2>1, FeesAreInt
      <3>2. MinFee \in Nat /\ (n * price) \div FeePer \in Int
        BY <2>1, DivInt, TestAssumption
      <3>3. Larger(MinFee, (n * price) \div FeePer) >= MinFee
        BY <3>2 DEF Larger
      <3>4. Fee("buy", n * price) = Larger(MinFee, (n * price) \div FeePer) + 0
        BY DEF Fee
      <3>5. Larger(MinFee, (n * price) \div FeePer) \in Int
        BY <3>2 DEF Larger
      <3> QED BY <3>2, <3>3, <3>4, <3>5
    <2>3. n * price <= cash
      BY <1>0, <2>1, <2>2 DEF Paid
    <2> HIDE DEF price, cash
    <2>4. n <= cash \div price
      BY <1>0, <2>3, QuotientBounds
    <2> QED BY <1>0, <2>1, <2>3, <2>4
  <1> HIDE DEF most
  <1>4. /\ try \in Nat
        /\ try >= MinLot => try <= most /\ (try - MinLot) % LotStep = 0
        /\ \A m \in Int : m >= MinLot /\ m <= most /\ (m - MinLot) % LotStep = 0 => m <= try
    BY <1>1, RoundLotIsLargest
  <1> HIDE DEF try
  <1>5. ASSUME NEW n \in Fitting(order)
        PROVE  n \in ValidLots(order, price, cash)
    <2>1. n \in Int /\ n >= MinLot /\ n <= try /\ (try - n) % LotStep = 0 /\ Paid(n, price) <= cash
      BY <1>0, <1>2, <1>4 DEF Fitting
    <2>2. (n - MinLot) % LotStep = 0
      <3>1. (try - MinLot) % LotStep = 0
        BY <1>0, <1>4, <2>1
      <3>2. (try - MinLot) - (try - n) = n - MinLot /\ try - MinLot \in Int /\ try - n \in Int
        BY <1>0, <1>4, <2>1
      <3>3. ((try - MinLot) - (try - n)) % LotStep = 0
        BY <1>0, <2>1, <3>1, <3>2, MultiplesDiffer
      <3> QED BY <3>2, <3>3
    <2>3. order.all \/ n <= order.asked
      BY <1>0, <1>1, <1>4, <2>1 DEF most
    <2>4. n \in 0..(cash \div price)
      <3>1. n <= cash \div price /\ cash \div price \in Int
        BY <1>0, <1>3, <2>1, DivInt
      <3> QED BY <1>0, <2>1, <3>1
    <2> QED BY <2>1, <2>2, <2>3, <2>4 DEF ValidLots
  <1>6. ASSUME NEW n \in ValidLots(order, price, cash)
        PROVE  n \in Fitting(order)
    <2>1. /\ n \in Int /\ n >= MinLot /\ (n - MinLot) % LotStep = 0
          /\ order.all \/ n <= order.asked
          /\ Paid(n, price) <= cash
      <3>1. cash \div price \in Int
        BY <1>0, DivInt
      <3> QED BY <3>1 DEF ValidLots
    <2>2. cash >= 0 /\ n <= cash \div price
      BY <1>3, <2>1
    <2>3. n <= most
      <3>1. Larger(cash, 0) = cash
        BY <1>0, <2>2 DEF Larger
      <3> QED BY <2>1, <2>2, <3>1 DEF most
    <2>4. n <= try
      BY <1>4, <2>1, <2>3
    <2>5. (try - n) % LotStep = 0
      <3>1. (try - MinLot) % LotStep = 0
        BY <1>0, <1>4, <2>1, <2>4
      <3>2. (try - MinLot) - (n - MinLot) = try - n /\ try - MinLot \in Int /\ n - MinLot \in Int
        BY <1>0, <1>4, <2>1
      <3>3. ((try - MinLot) - (n - MinLot)) % LotStep = 0
        BY <1>0, <2>1, <3>1, <3>2, MultiplesDiffer
      <3> QED BY <3>2, <3>3
    <2> QED BY <1>0, <1>2, <1>4, <2>1, <2>4, <2>5 DEF Fitting
  <1> QED BY <1>5, <1>6

-----------------------------------------------------------------------------
\* What is filled, and what is not.
Largest(f) ==
  f.order.side = "buy" =>
    LET lots == ValidLots(f.order, f.price, f.before) IN
    f.shares \in lots /\ \A n \in lots : n <= f.shares

LEMMA LargestLogged ==
  ASSUME FillsOK, BuyIsLargest, NEW f \in AnyFill, fills' = Append(fills, f), Largest(f),
         UNCHANGED unfilled
  PROVE  BuyIsLargest'
  <1>1. /\ Len(fills) \in Nat /\ DOMAIN fills = 1..Len(fills)
        /\ DOMAIN fills' = 1..(Len(fills) + 1) /\ fills'[Len(fills) + 1] = f
        /\ \A i \in DOMAIN fills : fills'[i] = fills[i]
    BY DEF FillsOK
  <1>2. \A i \in DOMAIN fills : Largest(fills[i])
    BY DEF BuyIsLargest, Largest
  <1>3. \A i \in DOMAIN fills' : Largest(fills'[i])
    <2> SUFFICES ASSUME NEW i \in DOMAIN fills' PROVE Largest(fills'[i])
      OBVIOUS
    <2>1. CASE i \in DOMAIN fills
      <3>1. fills'[i] = fills[i]
        BY <1>1, <2>1
      <3> QED BY <1>2, <2>1, <3>1
    <2>2. CASE i = Len(fills) + 1
      <3>1. fills'[i] = f
        BY <1>1, <2>2
      <3> QED BY <3>1
    <2> QED BY <1>1, <2>1, <2>2
  <1> QED BY <1>3 DEF BuyIsLargest, Largest

LEMMA BuyIsLargestStep ==
  ASSUME TestInv, BuyIsLargest, ExecuteOrder
  PROVE  BuyIsLargest'
  <1> DEFINE order == Head(queue)
             price == FillPrice(order)
  <1>0. order \in AnyOrder /\ InputsOK /\ BookOK /\ FillsOK /\ book.cash \in Int /\ price \in Int
          /\ book.shares \in Nat /\ today \in Int
    <2>1. order \in AnyOrder
      BY HeadTyped DEF TestInv, ExecuteOrder
    <2> QED BY <2>1, InputsTyped, PriceIsInt DEF TestInv, BookOK
  <1>1. ASSUME order.side = "buy" PROVE Fitting(order) = ValidLots(order, price, book.cash)
    BY <1>0, <1>1, FittingIsValid
  <1>2. CASE Buy(order)
    <2>1. PICK n \in Fitting(order) :
            /\ \A m \in Fitting(order) : m <= n
            /\ Filled(order, n, Fee("buy", n * price), book.shares + n)
      BY <1>2 DEF Buy
    <2> DEFINE f == [bar |-> today, order |-> order, shares |-> n, price |-> price,
                     fee |-> Fee("buy", n * price), before |-> book.cash, rest |-> book.shares + n]
    <2>2. n \in Int
      BY TestAssumption DEF Fitting
    <2>3. n * price \in Int /\ book.shares + n \in Int
      BY <1>0, <2>2
    <2>4. Fee("buy", n * price) \in Int
      BY <2>3, FeesAreInt
    <2>5. f \in AnyFill
      BY <1>0, <2>2, <2>3, <2>4 DEF AnyFill
    <2>6. Largest(f)
      BY <1>1, <1>2, <2>1 DEF Largest, Buy
    <2>7. fills' = Append(fills, f) /\ UNCHANGED unfilled
      BY <1>2, <2>1 DEF Buy, Filled
    <2> QED BY <1>0, <2>5, <2>6, <2>7, LargestLogged
  <1>3. CASE Sell(order)
    <2> DEFINE n == Sold(order)
               fee == Fee("sell", n * price)
               f == [bar |-> today, order |-> order, shares |-> n, price |-> price,
                     fee |-> fee, before |-> book.cash, rest |-> book.shares - n]
    <2>1. n \in Int
      BY <1>0 DEF Sold, Smaller, BookOK, AnyOrder
    <2>2. n * price \in Int /\ book.shares - n \in Int
      BY <1>0, <2>1
    <2>3. fee \in Int
      BY <2>2, FeesAreInt
    <2>4. f \in AnyFill
      BY <1>0, <2>1, <2>2, <2>3 DEF AnyFill
    <2>5. Largest(f)
      BY <1>3 DEF Largest, Sell
    <2>6. fills' = Append(fills, f) /\ UNCHANGED unfilled
      BY <1>3 DEF Sell, Filled
    <2> QED BY <1>0, <2>4, <2>5, <2>6, LargestLogged
  <1>4. CASE Reject(order)
    <2>1. fills' = fills
      BY <1>4 DEF Reject
    <2>2. CASE UNCHANGED unfilled
      BY <2>1, <2>2 DEF BuyIsLargest
    <2>3. CASE ~UNCHANGED unfilled
      <3>1. /\ order.side = "buy" /\ Fitting(order) = {}
            /\ unfilled' = unfilled \cup {[order |-> order, price |-> price, before |-> book.cash]}
        BY <1>4, <2>3 DEF Reject
      <3>2. ValidLots(order, price, book.cash) = {}
        BY <1>1, <3>1
      <3> QED BY <2>1, <3>1, <3>2 DEF BuyIsLargest
    <2> QED BY <2>2, <2>3
  <1> QED BY <1>2, <1>3, <1>4 DEF ExecuteOrder

\* A buy is the largest valid lot that was asked for and that cash covers with
\* its fees, and one is dropped for want of cash only if there is none
\* (execute_buy starts from round_lot and goes down by lot steps): no valid lot
\* lies between its steps, and none above its first try is affordable.
THEOREM TestBuyIsLargest == TestSpec => []BuyIsLargest
  <1>1. TestInit => TestInv /\ BuyIsLargest
    <2>1. TestInit => BuyIsLargest
      BY DEF TestInit, BuyIsLargest
    <2> QED BY <2>1, TestInitInv
  <1>2. TestInv /\ BuyIsLargest /\ [TestNext]_testVars => TestInv' /\ BuyIsLargest'
    <2> SUFFICES ASSUME TestInv, BuyIsLargest, [TestNext]_testVars PROVE BuyIsLargest'
      BY TestStepInv
    <2>1. CASE ExecuteOrder
      BY <2>1, BuyIsLargestStep
    <2>2. CASE UNCHANGED <<fills, unfilled>>
      BY <2>2 DEF BuyIsLargest
    <2>3. ExecuteOrder \/ UNCHANGED <<fills, unfilled>>
      BY DEF TestNext, testVars, NextBar, FillsDone, DecideFreely, StopOut, ScaleOut, TrailOut, Emits
    <2> QED BY <2>1, <2>2, <2>3
  <1> QED BY <1>1, <1>2, PTL DEF TestSpec

-----------------------------------------------------------------------------
\* The folds of BooksBalance, followed step by step.

AnyLot == [bar : Int, open : Int]
AnyTrips == [open : Int, bar : Int, lots : Seq(AnyLot), trips : SUBSET (Int \X Int)]
NoTrips == [open |-> 0, bar |-> 0, lots |-> <<>>, trips |-> {}]

\* Cash behind each fill of a log.
CashLog(F, log) ==
  /\ F \in [0..Len(log) -> Int]
  /\ F[0] = InitialCash
  /\ \A k \in 1..Len(log) : F[k] = Received(F[k - 1], log[k])

\* What is open in the first lots.
SumLog(F, lots) ==
  /\ F \in [0..Len(lots) -> Int]
  /\ F[0] = 0
  /\ \A k \in 1..Len(lots) : F[k] = F[k - 1] + lots[k].open

\* What a sale has come to behind each lot.
ClosesLog(F, sale, lots) ==
  /\ F \in [0..Len(lots) -> AnyTrips]
  /\ F[0] = sale
  /\ \A k \in 1..Len(lots) : F[k] = Closes(F[k - 1], lots[k])

\* The round trips behind each fill of a log.
TripsLog(F, log) ==
  /\ F \in [0..Len(log) -> AnyTrips]
  /\ F[0] = NoTrips
  /\ \A k \in 1..Len(log) : F[k] = Matched(F[k - 1], log[k])

\* A fill leaves an amount of cash.
LEMMA ReceivedTyped ==
  ASSUME NEW a \in Int, NEW fill \in AnyFill
  PROVE  Received(a, fill) \in Int
  <1>1. fill.shares \in Int /\ fill.price \in Int /\ fill.fee \in Int
    BY DEF AnyFill
  <1>2. fill.shares * fill.price \in Int
    BY <1>1
  <1> QED
    BY <1>1, <1>2 DEF Received

\* What was paid and received (the trades' effect on the cash) can be followed
\* along the log.
LEMMA ReceivedFold ==
  ASSUME NEW log \in Seq(AnyFill)
  PROVE  \E F : CashLog(F, log) /\ FoldLeft(Received, InitialCash, log) = F[Len(log)]
  <1> DEFINE top == Len(log)
             D == SUBSET (1..top)
             H == [p \in D \X Int |-> IF p[1] = {} THEN InitialCash ELSE Received(p[2], log[LastOf(p[1])])]
             it == CHOOSE it :
                     it = [s \in D |-> IF s = {} THEN InitialCash
                                     ELSE Received(it[s \ {LastOf(s)}], log[LastOf(s)])]
             Runs(f) ==
               f = [s \in D |-> IF s = {} THEN InitialCash ELSE Received(f[s \ {LastOf(s)}], log[LastOf(s)])]
  <1>1. FoldLeft(Received, InitialCash, log) = it[1..top]
    <2>1. DOMAIN log = 1..top
      OBVIOUS
    <2> QED
     BY <2>1 DEF FoldLeft, MapThenFoldSet, LastOf, Max
  <1>2. H \in [D \X Int -> Int] /\ InitialCash \in Int /\ top \in Nat
    <2>1. top \in Nat /\ InitialCash \in Int
      BY TestAssumption
    <2>2. ASSUME NEW s \in D, s # {}, NEW a \in Int PROVE Received(a, log[LastOf(s)]) \in Int
      <3>1. log[LastOf(s)] \in AnyFill
        BY <2>2, LastIn
      <3> QED
        BY <3>1, ReceivedTyped
    <2> HIDE DEF D
    <2> QED
      BY <2>1, <2>2
  <1>3. PICK g : Folds(g, top, Int, InitialCash, H)
    <2> HIDE DEF H
    <2> QED
      BY <1>2, FoldExists
  <1>4. Runs(g)
    <2>1. ASSUME NEW s \in D
          PROVE g[s] = IF s = {} THEN InitialCash ELSE Received(g[s \ {LastOf(s)}], log[LastOf(s)])
      <3>1. s \ {LastOf(s)} \in D /\ g[s \ {LastOf(s)}] \in Int
        BY <1>3 DEF Folds
      <3>2. s # {} => H[<<s, g[s \ {LastOf(s)}]>>] = Received(g[s \ {LastOf(s)}], log[LastOf(s)])
        BY <3>1
      <3> QED
        BY <1>3, <3>2 DEF Folds
    <2>2. g = [s \in D |-> g[s]]
      BY <1>3 DEF Folds
    <2> QED
      BY <2>1, <2>2
  <1>5. Runs(it)
    BY <1>4
  <1>6. ASSUME NEW f, Runs(f)
        PROVE  f[1..0] = InitialCash /\ \A k \in 1..top : f[1..k] = Received(f[1..(k - 1)], log[k])
    <2>1. ASSUME NEW s \in D
          PROVE f[s] = IF s = {} THEN InitialCash ELSE Received(f[s \ {LastOf(s)}], log[LastOf(s)])
      BY <1>6
    <2>2. f[1..0] = InitialCash
      <3>1. 1..0 = {} /\ {} \in D
        OBVIOUS
      <3> HIDE DEF Runs, D
      <3> QED
        BY <2>1, <3>1
    <2>3. ASSUME NEW k \in 1..top PROVE f[1..k] = Received(f[1..(k - 1)], log[k])
      <3>1. LastOf(1..k) = k /\ (1..k) \ {k} = 1..(k - 1) /\ 1..k # {} /\ 1..k \in D
        BY LastOfRange
      <3> HIDE DEF Runs, D
      <3>2. f[1..k] = Received(f[(1..k) \ {LastOf(1..k)}], log[LastOf(1..k)])
        BY <2>1, <3>1
      <3> QED
        BY <3>1, <3>2
    <2> QED
      BY <2>2, <2>3
  <1> DEFINE F == [k \in 0..top |-> g[1..k]]
             K == [k \in 0..top |-> it[1..k]]
  <1>7. CashLog(F, log)
    <2>1. \A k \in 0..top : g[1..k] \in Int
      <3> HIDE DEF H
      <3> QED
        BY <1>2, <1>3, FoldSteps
    <2>2. g[1..0] = InitialCash /\ \A k \in 1..top : g[1..k] = Received(g[1..(k - 1)], log[k])
      BY <1>4, <1>6
    <2> HIDE DEF Runs, D, H
    <2> QED
      BY <2>1, <2>2, <1>2 DEF CashLog
  <1>8. it[1..top] = F[top]
    <2>1. it[1..0] = InitialCash /\ \A k \in 1..top : it[1..k] = Received(it[1..(k - 1)], log[k])
      BY <1>5, <1>6
    <2>2. F[0] = InitialCash /\ \A k \in 1..top : F[k] = Received(F[k - 1], log[k])
      BY <1>7 DEF CashLog
    <2> HIDE DEF Runs, D, H, it, F
    <2>3. Alike(K, F, top)
      BY <2>1, <2>2, <1>2 DEF Alike
    <2>4. K[top] = F[top]
      <3> HIDE DEF K, top
      <3> QED
        BY <2>3, <1>2, SameSteps
    <2> QED
      BY <2>4, <1>2
  <1> QED
    BY <1>1, <1>7, <1>8

\* A lot adds a number of shares.
LEMMA SumTyped ==
  ASSUME NEW a \in Int, NEW lot \in AnyLot
  PROVE  a + lot.open \in Int
  BY DEF AnyLot

\* What is open can be followed along the lots.
LEMMA SumFold ==
  ASSUME NEW lots \in Seq(AnyLot)
  PROVE  \E F : SumLog(F, lots) /\ FoldLeft(LAMBDA n, lot : n + lot.open, 0, lots) = F[Len(lots)]
  <1> DEFINE top == Len(lots)
             D == SUBSET (1..top)
             H == [p \in D \X Int |-> IF p[1] = {} THEN 0 ELSE p[2] + lots[LastOf(p[1])].open]
             it == CHOOSE it :
                     it = [s \in D |-> IF s = {} THEN 0 ELSE it[s \ {LastOf(s)}] + lots[LastOf(s)].open]
             Runs(f) ==
               f = [s \in D |-> IF s = {} THEN 0 ELSE f[s \ {LastOf(s)}] + lots[LastOf(s)].open]
  <1>1. FoldLeft(LAMBDA n, lot : n + lot.open, 0, lots) = it[1..top]
    <2>1. DOMAIN lots = 1..top
      OBVIOUS
    <2> QED
     BY <2>1 DEF FoldLeft, MapThenFoldSet, LastOf, Max
  <1>2. H \in [D \X Int -> Int] /\ 0 \in Int /\ top \in Nat
    <2>1. top \in Nat /\ 0 \in Int
      OBVIOUS
    <2>2. ASSUME NEW s \in D, s # {}, NEW a \in Int PROVE a + lots[LastOf(s)].open \in Int
      <3>1. lots[LastOf(s)] \in AnyLot
        BY <2>2, LastIn
      <3> QED
        BY <3>1, SumTyped
    <2> HIDE DEF D
    <2> QED
      BY <2>1, <2>2
  <1>3. PICK g : Folds(g, top, Int, 0, H)
    <2> HIDE DEF H
    <2> QED
      BY <1>2, FoldExists
  <1>4. Runs(g)
    <2>1. ASSUME NEW s \in D
          PROVE g[s] = IF s = {} THEN 0 ELSE g[s \ {LastOf(s)}] + lots[LastOf(s)].open
      <3>1. s \ {LastOf(s)} \in D /\ g[s \ {LastOf(s)}] \in Int
        BY <1>3 DEF Folds
      <3>2. s # {} => H[<<s, g[s \ {LastOf(s)}]>>] = g[s \ {LastOf(s)}] + lots[LastOf(s)].open
        BY <3>1
      <3> QED
        BY <1>3, <3>2 DEF Folds
    <2>2. g = [s \in D |-> g[s]]
      BY <1>3 DEF Folds
    <2> QED
      BY <2>1, <2>2
  <1>5. Runs(it)
    BY <1>4
  <1>6. ASSUME NEW f, Runs(f)
        PROVE  f[1..0] = 0 /\ \A k \in 1..top : f[1..k] = f[1..(k - 1)] + lots[k].open
    <2>1. ASSUME NEW s \in D
          PROVE f[s] = IF s = {} THEN 0 ELSE f[s \ {LastOf(s)}] + lots[LastOf(s)].open
      BY <1>6
    <2>2. f[1..0] = 0
      <3>1. 1..0 = {} /\ {} \in D
        OBVIOUS
      <3> HIDE DEF Runs, D
      <3> QED
        BY <2>1, <3>1
    <2>3. ASSUME NEW k \in 1..top PROVE f[1..k] = f[1..(k - 1)] + lots[k].open
      <3>1. LastOf(1..k) = k /\ (1..k) \ {k} = 1..(k - 1) /\ 1..k # {} /\ 1..k \in D
        BY LastOfRange
      <3> HIDE DEF Runs, D
      <3>2. f[1..k] = f[(1..k) \ {LastOf(1..k)}] + lots[LastOf(1..k)].open
        BY <2>1, <3>1
      <3> QED
        BY <3>1, <3>2
    <2> QED
      BY <2>2, <2>3
  <1> DEFINE F == [k \in 0..top |-> g[1..k]]
             K == [k \in 0..top |-> it[1..k]]
  <1>7. SumLog(F, lots)
    <2>1. \A k \in 0..top : g[1..k] \in Int
      <3> HIDE DEF H
      <3> QED
        BY <1>2, <1>3, FoldSteps
    <2>2. g[1..0] = 0 /\ \A k \in 1..top : g[1..k] = g[1..(k - 1)] + lots[k].open
      BY <1>4, <1>6
    <2> HIDE DEF Runs, D, H
    <2> QED
      BY <2>1, <2>2, <1>2 DEF SumLog
  <1>8. it[1..top] = F[top]
    <2>1. it[1..0] = 0 /\ \A k \in 1..top : it[1..k] = it[1..(k - 1)] + lots[k].open
      BY <1>5, <1>6
    <2>2. F[0] = 0 /\ \A k \in 1..top : F[k] = F[k - 1] + lots[k].open
      BY <1>7 DEF SumLog
    <2> HIDE DEF Runs, D, H, it, F
    <2>3. Alike(K, F, top)
      BY <2>1, <2>2, <1>2 DEF Alike
    <2>4. K[top] = F[top]
      <3> HIDE DEF K, top
      <3> QED
        BY <2>3, <1>2, SameSteps
    <2> QED
      BY <2>4, <1>2
  <1> QED
    BY <1>1, <1>7, <1>8

\* A lot that a sale closes leaves round trips (round_trips).
LEMMA ClosesTyped ==
  ASSUME NEW a \in AnyTrips, NEW lot \in AnyLot
  PROVE  Closes(a, lot) \in AnyTrips
  <1>1. a.open \in Int /\ a.bar \in Int /\ a.lots \in Seq(AnyLot) /\ a.trips \in SUBSET (Int \X Int)
    BY DEF AnyTrips
  <1>2. lot.open \in Int /\ lot.bar \in Int
    BY DEF AnyLot
  <1> DEFINE n == Smaller(a.open, lot.open)
             rest == [lot EXCEPT !.open = @ - n]
             left == IF lot.open = n THEN a.lots ELSE Append(a.lots, rest)
             made == IF n = 0 THEN a.trips ELSE a.trips \cup {<<lot.bar, a.bar>>}
  <1>3. n \in Int
    BY <1>1, <1>2 DEF Smaller
  <1>4. Closes(a, lot) = [open |-> a.open - n, bar |-> a.bar, lots |-> left, trips |-> made]
    <2>1. Closes(a, lot) = [a EXCEPT !.open = @ - n, !.lots = left, !.trips = made]
      BY DEF Closes
    <2>2. a = [open |-> a.open, bar |-> a.bar, lots |-> a.lots, trips |-> a.trips]
      BY DEF AnyTrips
    <2> HIDE DEF n, left, made
    <2> QED
      BY <2>1, <2>2
  <1>5. rest \in AnyLot
    <2> HIDE DEF n
    <2> QED
      BY <1>2, <1>3 DEF AnyLot
  <1>6. left \in Seq(AnyLot)
    <2> HIDE DEF rest, n
    <2> QED
      BY <1>1, <1>5
  <1>7. made \in SUBSET (Int \X Int)
    <2> HIDE DEF n
    <2> QED
      BY <1>1, <1>2
  <1> HIDE DEF n, rest, left, made
  <1> QED
    BY <1>1, <1>3, <1>4, <1>6, <1>7 DEF AnyTrips

\* A sale can be followed along the lots it closes (round_trips).
LEMMA ClosesFold ==
  ASSUME NEW sale \in AnyTrips, NEW lots \in Seq(AnyLot)
  PROVE  \E F : ClosesLog(F, sale, lots) /\ FoldLeft(Closes, sale, lots) = F[Len(lots)]
  <1> DEFINE top == Len(lots)
             D == SUBSET (1..top)
             H == [p \in D \X AnyTrips |-> IF p[1] = {} THEN sale ELSE Closes(p[2], lots[LastOf(p[1])])]
             it == CHOOSE it :
                     it = [s \in D |-> IF s = {} THEN sale ELSE Closes(it[s \ {LastOf(s)}], lots[LastOf(s)])]
             Runs(f) ==
               f = [s \in D |-> IF s = {} THEN sale ELSE Closes(f[s \ {LastOf(s)}], lots[LastOf(s)])]
  <1>1. FoldLeft(Closes, sale, lots) = it[1..top]
    <2>1. DOMAIN lots = 1..top
      OBVIOUS
    <2> QED
     BY <2>1 DEF FoldLeft, MapThenFoldSet, LastOf, Max
  <1>2. H \in [D \X AnyTrips -> AnyTrips] /\ sale \in AnyTrips /\ top \in Nat
    <2>1. top \in Nat /\ sale \in AnyTrips
      OBVIOUS
    <2>2. ASSUME NEW s \in D, s # {}, NEW a \in AnyTrips PROVE Closes(a, lots[LastOf(s)]) \in AnyTrips
      <3>1. lots[LastOf(s)] \in AnyLot
        BY <2>2, LastIn
      <3> QED
        BY <3>1, ClosesTyped
    <2> HIDE DEF D
    <2> QED
      BY <2>1, <2>2
  <1>3. PICK g : Folds(g, top, AnyTrips, sale, H)
    <2> HIDE DEF H
    <2> QED
      BY <1>2, FoldExists
  <1>4. Runs(g)
    <2>1. ASSUME NEW s \in D
          PROVE g[s] = IF s = {} THEN sale ELSE Closes(g[s \ {LastOf(s)}], lots[LastOf(s)])
      <3>1. s \ {LastOf(s)} \in D /\ g[s \ {LastOf(s)}] \in AnyTrips
        BY <1>3 DEF Folds
      <3>2. s # {} => H[<<s, g[s \ {LastOf(s)}]>>] = Closes(g[s \ {LastOf(s)}], lots[LastOf(s)])
        BY <3>1
      <3> QED
        BY <1>3, <3>2 DEF Folds
    <2>2. g = [s \in D |-> g[s]]
      BY <1>3 DEF Folds
    <2> QED
      BY <2>1, <2>2
  <1>5. Runs(it)
    BY <1>4
  <1>6. ASSUME NEW f, Runs(f)
        PROVE  f[1..0] = sale /\ \A k \in 1..top : f[1..k] = Closes(f[1..(k - 1)], lots[k])
    <2>1. ASSUME NEW s \in D
          PROVE f[s] = IF s = {} THEN sale ELSE Closes(f[s \ {LastOf(s)}], lots[LastOf(s)])
      BY <1>6
    <2>2. f[1..0] = sale
      <3>1. 1..0 = {} /\ {} \in D
        OBVIOUS
      <3> HIDE DEF Runs, D
      <3> QED
        BY <2>1, <3>1
    <2>3. ASSUME NEW k \in 1..top PROVE f[1..k] = Closes(f[1..(k - 1)], lots[k])
      <3>1. LastOf(1..k) = k /\ (1..k) \ {k} = 1..(k - 1) /\ 1..k # {} /\ 1..k \in D
        BY LastOfRange
      <3> HIDE DEF Runs, D
      <3>2. f[1..k] = Closes(f[(1..k) \ {LastOf(1..k)}], lots[LastOf(1..k)])
        BY <2>1, <3>1
      <3> QED
        BY <3>1, <3>2
    <2> QED
      BY <2>2, <2>3
  <1> DEFINE F == [k \in 0..top |-> g[1..k]]
             K == [k \in 0..top |-> it[1..k]]
  <1>7. ClosesLog(F, sale, lots)
    <2>1. \A k \in 0..top : g[1..k] \in AnyTrips
      <3> HIDE DEF H
      <3> QED
        BY <1>2, <1>3, FoldSteps
    <2>2. g[1..0] = sale /\ \A k \in 1..top : g[1..k] = Closes(g[1..(k - 1)], lots[k])
      BY <1>4, <1>6
    <2> HIDE DEF Runs, D, H
    <2> QED
      BY <2>1, <2>2, <1>2 DEF ClosesLog
  <1>8. it[1..top] = F[top]
    <2>1. it[1..0] = sale /\ \A k \in 1..top : it[1..k] = Closes(it[1..(k - 1)], lots[k])
      BY <1>5, <1>6
    <2>2. F[0] = sale /\ \A k \in 1..top : F[k] = Closes(F[k - 1], lots[k])
      BY <1>7 DEF ClosesLog
    <2> HIDE DEF Runs, D, H, it, F
    <2>3. Alike(K, F, top)
      BY <2>1, <2>2, <1>2 DEF Alike
    <2>4. K[top] = F[top]
      <3> HIDE DEF K, top
      <3> QED
        BY <2>3, <1>2, SameSteps
    <2> QED
      BY <2>4, <1>2
  <1> QED
    BY <1>1, <1>7, <1>8

\* A fill leaves round trips (round_trips).
LEMMA MatchedTyped ==
  ASSUME NEW a \in AnyTrips, NEW fill \in AnyFill
  PROVE  Matched(a, fill) \in AnyTrips
  <1>1. a.open \in Int /\ a.bar \in Int /\ a.lots \in Seq(AnyLot) /\ a.trips \in SUBSET (Int \X Int)
    BY DEF AnyTrips
  <1>2. fill.shares \in Int /\ fill.bar \in Int
    BY DEF AnyFill
  <1>3. CASE fill.order.side = "buy"
    <2>1. Append(a.lots, [bar |-> fill.bar, open |-> fill.shares]) \in Seq(AnyLot)
      BY <1>1, <1>2 DEF AnyLot
    <2> QED
      BY <2>1, <1>1, <1>3 DEF Matched, AnyTrips
  <1>4. CASE fill.order.side # "buy"
    <2> DEFINE sale == [a EXCEPT !.open = @ + fill.shares, !.bar = fill.bar, !.lots = <<>>]
    <2>1. sale \in AnyTrips
      <3>1. a = [open |-> a.open, bar |-> a.bar, lots |-> a.lots, trips |-> a.trips]
        BY DEF AnyTrips
      <3>4. sale = [a EXCEPT !.open = @ + fill.shares, !.bar = fill.bar, !.lots = <<>>]
        OBVIOUS
      <3>2. sale = [open |-> a.open + fill.shares, bar |-> fill.bar, lots |-> <<>>, trips |-> a.trips]
        <4> HIDE DEF sale
        <4> QED
          BY <3>1, <3>4
      <3>3. <<>> \in Seq(AnyLot) /\ a.open + fill.shares \in Int
        BY <1>1, <1>2
      <3> HIDE DEF sale
      <3> QED
        BY <3>2, <3>3, <1>1, <1>2 DEF AnyTrips
    <2>2. Matched(a, fill) = FoldLeft(Closes, sale, a.lots)
      BY <1>4 DEF Matched
    <2> HIDE DEF sale
    <2>3. PICK F : ClosesLog(F, sale, a.lots) /\ FoldLeft(Closes, sale, a.lots) = F[Len(a.lots)]
      BY <2>1, <1>1, ClosesFold
    <2>4. Len(a.lots) \in 0..Len(a.lots)
      BY <1>1
    <2> QED
      BY <2>2, <2>3, <2>4 DEF ClosesLog
  <1> QED
    BY <1>3, <1>4

\* There are none at the start.
LEMMA NoTripsTyped == NoTrips \in AnyTrips
  BY DEF NoTrips, AnyTrips

\* The round trips can be followed along the log (round_trips).
LEMMA MatchedFold ==
  ASSUME NEW log \in Seq(AnyFill)
  PROVE  \E F : TripsLog(F, log) /\ FoldLeft(Matched, NoTrips, log) = F[Len(log)]
  <1> DEFINE top == Len(log)
             D == SUBSET (1..top)
             H == [p \in D \X AnyTrips |-> IF p[1] = {} THEN NoTrips ELSE Matched(p[2], log[LastOf(p[1])])]
             it == CHOOSE it :
                     it = [s \in D |-> IF s = {} THEN NoTrips ELSE Matched(it[s \ {LastOf(s)}], log[LastOf(s)])]
             Runs(f) ==
               f = [s \in D |-> IF s = {} THEN NoTrips ELSE Matched(f[s \ {LastOf(s)}], log[LastOf(s)])]
  <1>1. FoldLeft(Matched, NoTrips, log) = it[1..top]
    <2>1. DOMAIN log = 1..top
      OBVIOUS
    <2> QED
     BY <2>1 DEF FoldLeft, MapThenFoldSet, LastOf, Max
  <1>2. H \in [D \X AnyTrips -> AnyTrips] /\ NoTrips \in AnyTrips /\ top \in Nat
    <2>1. top \in Nat /\ NoTrips \in AnyTrips
      BY NoTripsTyped
    <2>2. ASSUME NEW s \in D, s # {}, NEW a \in AnyTrips PROVE Matched(a, log[LastOf(s)]) \in AnyTrips
      <3>1. log[LastOf(s)] \in AnyFill
        BY <2>2, LastIn
      <3> QED
        BY <3>1, MatchedTyped
    <2> HIDE DEF D
    <2> QED
      BY <2>1, <2>2
  <1>3. PICK g : Folds(g, top, AnyTrips, NoTrips, H)
    <2> HIDE DEF H
    <2> QED
      BY <1>2, FoldExists
  <1>4. Runs(g)
    <2>1. ASSUME NEW s \in D
          PROVE g[s] = IF s = {} THEN NoTrips ELSE Matched(g[s \ {LastOf(s)}], log[LastOf(s)])
      <3>1. s \ {LastOf(s)} \in D /\ g[s \ {LastOf(s)}] \in AnyTrips
        BY <1>3 DEF Folds
      <3>2. s # {} => H[<<s, g[s \ {LastOf(s)}]>>] = Matched(g[s \ {LastOf(s)}], log[LastOf(s)])
        BY <3>1
      <3> QED
        BY <1>3, <3>2 DEF Folds
    <2>2. g = [s \in D |-> g[s]]
      BY <1>3 DEF Folds
    <2> QED
      BY <2>1, <2>2
  <1>5. Runs(it)
    BY <1>4
  <1>6. ASSUME NEW f, Runs(f)
        PROVE  f[1..0] = NoTrips /\ \A k \in 1..top : f[1..k] = Matched(f[1..(k - 1)], log[k])
    <2>1. ASSUME NEW s \in D
          PROVE f[s] = IF s = {} THEN NoTrips ELSE Matched(f[s \ {LastOf(s)}], log[LastOf(s)])
      BY <1>6
    <2>2. f[1..0] = NoTrips
      <3>1. 1..0 = {} /\ {} \in D
        OBVIOUS
      <3> HIDE DEF Runs, D
      <3> QED
        BY <2>1, <3>1
    <2>3. ASSUME NEW k \in 1..top PROVE f[1..k] = Matched(f[1..(k - 1)], log[k])
      <3>1. LastOf(1..k) = k /\ (1..k) \ {k} = 1..(k - 1) /\ 1..k # {} /\ 1..k \in D
        BY LastOfRange
      <3> HIDE DEF Runs, D
      <3>2. f[1..k] = Matched(f[(1..k) \ {LastOf(1..k)}], log[LastOf(1..k)])
        BY <2>1, <3>1
      <3> QED
        BY <3>1, <3>2
    <2> QED
      BY <2>2, <2>3
  <1> DEFINE F == [k \in 0..top |-> g[1..k]]
             K == [k \in 0..top |-> it[1..k]]
  <1>7. TripsLog(F, log)
    <2>1. \A k \in 0..top : g[1..k] \in AnyTrips
      <3> HIDE DEF H
      <3> QED
        BY <1>2, <1>3, FoldSteps
    <2>2. g[1..0] = NoTrips /\ \A k \in 1..top : g[1..k] = Matched(g[1..(k - 1)], log[k])
      BY <1>4, <1>6
    <2> HIDE DEF Runs, D, H
    <2> QED
      BY <2>1, <2>2, <1>2 DEF TripsLog
  <1>8. it[1..top] = F[top]
    <2>1. it[1..0] = NoTrips /\ \A k \in 1..top : it[1..k] = Matched(it[1..(k - 1)], log[k])
      BY <1>5, <1>6
    <2>2. F[0] = NoTrips /\ \A k \in 1..top : F[k] = Matched(F[k - 1], log[k])
      BY <1>7 DEF TripsLog
    <2> HIDE DEF Runs, D, H, it, F
    <2>3. Alike(K, F, top)
      BY <2>1, <2>2, <1>2 DEF Alike
    <2>4. K[top] = F[top]
      <3> HIDE DEF K, top
      <3> QED
        BY <2>3, <1>2, SameSteps
    <2> QED
      BY <2>4, <1>2
  <1> QED
    BY <1>1, <1>7, <1>8

-----------------------------------------------------------------------------
\* A sale closes lots of earlier days.

\* The sums so far, of the lots and one more.
LEMMA AppendSum ==
  ASSUME NEW lots \in Seq(AnyLot), NEW lot \in AnyLot, NEW P, SumLog(P, lots)
  PROVE  \E Q : /\ SumLog(Q, Append(lots, lot))
                /\ \A k \in 0..Len(lots) : Q[k] = P[k]
                /\ Q[Len(lots) + 1] = P[Len(lots)] + lot.open
  <1> DEFINE n == Len(lots)
             more == Append(lots, lot)
             Q == [k \in 0..(n + 1) |-> IF k <= n THEN P[k] ELSE P[n] + lot.open]
  <1>1. /\ n \in Nat /\ Len(more) = n + 1 /\ more[n + 1] = lot
        /\ \A k \in 1..n : more[k] = lots[k]
    OBVIOUS
  <1>2. lot.open \in Int /\ P[n] \in Int
    <2>1. P[n] \in Int
      BY <1>1 DEF SumLog
    <2>2. lot.open \in Int
      BY DEF AnyLot
    <2> QED
      BY <2>1, <2>2
  <1>3. Q \in [0..(n + 1) -> Int]
    <2>1. \A k \in 0..n : P[k] \in Int
      BY DEF SumLog
    <2> HIDE DEF n
    <2>2. \A k \in 0..(n + 1) : (IF k <= n THEN P[k] ELSE P[n] + lot.open) \in Int
      BY <1>1, <1>2, <2>1
    <2> QED
      BY <2>2
  <1>4. P[0] = 0 /\ \A k \in 1..n : P[k] = P[k - 1] + lots[k].open
    BY DEF SumLog
  <1> HIDE DEF n, more
  <1>5. Q[0] = 0 /\ (\A k \in 0..n : Q[k] = P[k]) /\ Q[n + 1] = P[n] + lot.open
    BY <1>1, <1>4
  <1> HIDE DEF Q
  <1>6. ASSUME NEW k \in 1..(n + 1) PROVE Q[k] = Q[k - 1] + more[k].open
    <2>1. CASE k = n + 1
      BY <2>1, <1>1, <1>5
    <2>2. CASE k # n + 1
      <3>1. k \in 1..n /\ k \in 0..n /\ k - 1 \in 0..n
        BY <2>2, <1>1
      <3> QED
        BY <3>1, <1>1, <1>4, <1>5
    <2> QED
      BY <2>1, <2>2
  <1>7. SumLog(Q, more)
    BY <1>1, <1>3, <1>5, <1>6 DEF SumLog
  <1> QED
    BY <1>5, <1>7 DEF n, more

\* What is open is what is held, and the lots that may be sold today come first.
HeldInLots(lots, P, held, sellable, bar, j) ==
  /\ SumLog(P, lots) /\ P[Len(lots)] = held
  /\ j \in 0..Len(lots) /\ P[j] = sellable
  /\ \A i \in 1..Len(lots) : lots[i].open \in Nat /\ lots[i].bar <= bar /\ (i <= j => lots[i].bar < bar)

OpenLots(lots, held, sellable, bar) ==
  \E P, j : HeldInLots(lots, P, held, sellable, bar, j)

Ordered(trips) == \A trip \in trips : trip[1] < trip[2]

\* What a sale of n has come to behind the first k lots, of which j are of
\* earlier days and add up to what may be sold.
Closing(st, k, P, n, bar, j, sellable) ==
  /\ st \in AnyTrips /\ st.open \in Nat /\ st.bar = bar /\ Ordered(st.trips)
  /\ k <= j => /\ st.open = Larger(n - P[k], 0)
               /\ OpenLots(st.lots, P[k] - (n - st.open), P[k] - (n - st.open), bar)
               /\ \A i \in 1..Len(st.lots) : st.lots[i].bar < bar
  /\ k >= j => st.open = 0 /\ OpenLots(st.lots, P[k] - n, sellable - n, bar)

\* What a sale makes of one lot (round_trips): it closes as much as is open.
LEMMA ClosesStep ==
  ASSUME NEW st \in AnyTrips, NEW lot \in AnyLot, st.open \in Nat, lot.open \in Nat
  PROVE  LET d == Smaller(st.open, lot.open) IN
         /\ Closes(st, lot) \in AnyTrips
         /\ Closes(st, lot).open = st.open - d
         /\ Closes(st, lot).bar = st.bar
         /\ Closes(st, lot).lots = IF lot.open = d THEN st.lots
                                   ELSE Append(st.lots, [bar |-> lot.bar, open |-> lot.open - d])
         /\ Closes(st, lot).trips = IF d = 0 THEN st.trips ELSE st.trips \cup {<<lot.bar, st.bar>>}
  <1> DEFINE d == Smaller(st.open, lot.open)
             rest == [lot EXCEPT !.open = @ - d]
             left == IF lot.open = d THEN st.lots ELSE Append(st.lots, rest)
             made == IF d = 0 THEN st.trips ELSE st.trips \cup {<<lot.bar, st.bar>>}
  <1>1. Closes(st, lot) = [st EXCEPT !.open = @ - d, !.lots = left, !.trips = made]
    BY DEF Closes
  <1>2. st = [open |-> st.open, bar |-> st.bar, lots |-> st.lots, trips |-> st.trips]
    BY DEF AnyTrips
  <1>3. rest = [bar |-> lot.bar, open |-> lot.open - d]
    <2>1. lot = [bar |-> lot.bar, open |-> lot.open]
      BY DEF AnyLot
    <2>2. rest = [lot EXCEPT !.open = @ - d]
      OBVIOUS
    <2> HIDE DEF rest, d
    <2> QED
      BY <2>1, <2>2
  <1>4. Closes(st, lot) \in AnyTrips
    BY ClosesTyped
  <1>5. left = IF lot.open = d THEN st.lots ELSE Append(st.lots, [bar |-> lot.bar, open |-> lot.open - d])
    BY <1>3
  <1> HIDE DEF d, rest, left, made
  <1>6. Closes(st, lot) = [open |-> st.open - d, bar |-> st.bar, lots |-> left, trips |-> made]
    BY <1>1, <1>2
  <1> QED
    BY <1>4, <1>5, <1>6 DEF d, made

\* One more lot is held, behind the others.
LEMMA AppendLot ==
  ASSUME NEW lots \in Seq(AnyLot), NEW lot \in AnyLot, NEW bar \in Int, lot.open \in Nat, lot.bar <= bar,
         NEW P, NEW held, NEW sellable, NEW j, HeldInLots(lots, P, held, sellable, bar, j)
  PROVE  /\ OpenLots(Append(lots, lot), held + lot.open, sellable, bar)
         /\ lot.bar < bar /\ (\A i \in 1..Len(lots) : lots[i].bar < bar) =>
              OpenLots(Append(lots, lot), held + lot.open, held + lot.open, bar)
  <1> DEFINE n == Len(lots)
             more == Append(lots, lot)
  <1>1. /\ n \in Nat /\ Len(more) = n + 1 /\ more[n + 1] = lot
        /\ \A k \in 1..n : more[k] = lots[k]
    OBVIOUS
  <1>2. PICK Q : SumLog(Q, more) /\ (\A k \in 0..n : Q[k] = P[k]) /\ Q[n + 1] = P[n] + lot.open
    BY AppendSum DEF HeldInLots
  <1>3. /\ P[n] = held /\ j \in 0..n /\ P[j] = sellable
        /\ \A i \in 1..n : lots[i].open \in Nat /\ lots[i].bar <= bar /\ (i <= j => lots[i].bar < bar)
    BY DEF HeldInLots
  <1> HIDE DEF n, more
  <1>4. Q[n + 1] = held + lot.open /\ Q[j] = sellable
    BY <1>2, <1>3
  <1>5. ASSUME NEW i \in 1..(n + 1)
        PROVE  more[i].open \in Nat /\ more[i].bar <= bar /\ (i <= j => more[i].bar < bar)
    BY <1>1, <1>3
  <1>6. HeldInLots(more, Q, held + lot.open, sellable, bar, j)
    BY <1>1, <1>2, <1>3, <1>4, <1>5 DEF HeldInLots
  <1>7. ASSUME lot.bar < bar, \A i \in 1..n : lots[i].bar < bar
        PROVE  HeldInLots(more, Q, held + lot.open, held + lot.open, bar, n + 1)
    <2>1. \A i \in 1..(n + 1) : more[i].bar < bar
      BY <1>1, <1>7
    <2>2. n + 1 \in 0..(n + 1)
      BY <1>1
    <2> QED
      BY <1>1, <1>2, <1>4, <1>5, <2>1, <2>2 DEF HeldInLots
  <1> QED
    BY <1>6, <1>7 DEF OpenLots, n, more

\* A sale goes on to the next lot (round_trips): of an earlier day until all is
\* sold, and untouched from then on.
LEMMA ClosingStep ==
  ASSUME NEW lots \in Seq(AnyLot), NEW held, NEW sellable \in Int, NEW bar \in Int,
         NEW P, NEW j, HeldInLots(lots, P, held, sellable, bar, j),
         NEW n \in 1..sellable, NEW k \in 0..(Len(lots) - 1),
         NEW st, Closing(st, k, P, n, bar, j, sellable)
  PROVE  Closing(Closes(st, lots[k + 1]), k + 1, P, n, bar, j, sellable)
  <1> DEFINE lot == lots[k + 1]
             new == Closes(st, lot)
             d == Smaller(st.open, lot.open)
             rest == [bar |-> lot.bar, open |-> lot.open - d]
  <1>1. /\ k \in Int /\ k + 1 \in 1..Len(lots) /\ lot \in AnyLot /\ j \in Int /\ n \in Nat /\ n <= sellable
        /\ lot.open \in Nat /\ lot.bar <= bar /\ (k < j => lot.bar < bar)
    BY DEF HeldInLots
  <1>2. P[k] \in Int /\ P[k + 1] = P[k] + lot.open /\ P[j] = sellable /\ P[k + 1] \in Int
    <2>1. P[k] \in Int /\ P[k + 1] \in Int
      <3>1. P \in [0..Len(lots) -> Int]
        BY DEF HeldInLots, SumLog
      <3>2. k \in 0..Len(lots) /\ k + 1 \in 0..Len(lots)
        BY <1>1
      <3> QED
        BY <3>1, <3>2
    <2>2. P[k + 1] = P[k + 1 - 1] + lots[k + 1].open
      BY <1>1 DEF HeldInLots, SumLog
    <2> QED
      BY <1>1, <2>1, <2>2 DEF HeldInLots
  <1>3. st \in AnyTrips /\ st.open \in Nat /\ st.bar = bar /\ Ordered(st.trips)
    BY DEF Closing
  <1>4. /\ new \in AnyTrips /\ new.open = st.open - d /\ new.bar = st.bar
        /\ new.lots = IF lot.open = d THEN st.lots ELSE Append(st.lots, rest)
        /\ new.trips = IF d = 0 THEN st.trips ELSE st.trips \cup {<<lot.bar, st.bar>>}
    <2> HIDE DEF lot
    <2> QED
      BY <1>1, <1>3, ClosesStep
  <1>5. d \in Nat /\ d <= st.open /\ d <= lot.open /\ (d = st.open \/ d = lot.open)
    BY <1>1, <1>3 DEF Smaller
  <1>6. /\ st.lots \in Seq(AnyLot)
        /\ lot.open # d => /\ rest \in AnyLot /\ rest.open = lot.open - d
                           /\ rest.bar = lot.bar /\ rest.open \in Nat
    <2>1. lot.bar \in Int
      BY <1>1 DEF AnyLot
    <2>2. st.lots \in Seq(AnyLot)
      BY <1>3 DEF AnyTrips
    <2> HIDE DEF d, lot
    <2> QED
      BY <1>1, <1>5, <2>1, <2>2 DEF AnyLot
  <1> HIDE DEF d, new, rest, lot
  <1>7. CASE k < j
    <2>1. /\ st.open = Larger(n - P[k], 0)
          /\ OpenLots(st.lots, P[k] - (n - st.open), P[k] - (n - st.open), bar)
          /\ \A i \in 1..Len(st.lots) : st.lots[i].bar < bar
      BY <1>7, <1>1 DEF Closing
    <2>2. new.open = Larger(n - P[k + 1], 0) /\ new.open \in Nat
      <3>1. new.open = st.open - d /\ st.open \in Nat /\ lot.open \in Nat /\ n \in Nat
        BY <1>1, <1>3, <1>4
      <3>2. st.open = Larger(n - P[k], 0) /\ P[k + 1] = P[k] + lot.open /\ P[k] \in Int
        BY <1>2, <2>1
      <3>3. new.open \in Nat
        BY <3>1, <1>5
      <3>4. CASE n <= P[k]
        <4>1. st.open = 0 /\ n <= P[k + 1]
          BY <3>1, <3>2, <3>4 DEF Larger
        <4>2. new.open = 0
          BY <4>1, <3>1, <3>3, <1>5
        <4> QED
          BY <4>1, <4>2, <3>1, <3>2, <3>3 DEF Larger
      <3>5. CASE n > P[k]
        <4>1. st.open = n - P[k]
          BY <3>1, <3>2, <3>5 DEF Larger
        <4>2. n - P[k + 1] = st.open - lot.open
          BY <4>1, <3>1, <3>2
        <4>3. new.open = Larger(st.open - lot.open, 0)
          BY <3>1, <1>5 DEF Larger
        <4> QED
          BY <4>2, <4>3, <3>3
      <3> QED
        BY <3>1, <3>2, <3>4, <3>5
    <2>3. Ordered(new.trips)
      BY <1>1, <1>3, <1>4, <1>7 DEF Ordered
    <2>4. /\ OpenLots(new.lots, P[k + 1] - (n - new.open), P[k + 1] - (n - new.open), bar)
          /\ \A i \in 1..Len(new.lots) : new.lots[i].bar < bar
      <3>1. CASE lot.open = d
        <4>1. P[k + 1] - (n - new.open) = P[k] - (n - st.open) /\ new.lots = st.lots
          <5>1. new.open = st.open - d /\ st.open \in Nat /\ lot.open \in Nat /\ n \in Nat
            BY <1>1, <1>3, <1>4
          <5>2. new.lots = st.lots
            BY <3>1, <1>4
          <5> QED
            BY <5>1, <5>2, <3>1, <1>2, <1>5
        <4> QED
          BY <4>1, <2>1
      <3>2. CASE lot.open # d
        <4>1. P[k + 1] - (n - new.open) = (P[k] - (n - st.open)) + rest.open
          <5>1. new.open = st.open - d /\ st.open \in Nat /\ lot.open \in Nat /\ n \in Nat
            BY <1>1, <1>3, <1>4
          <5>2. rest.open = lot.open - d
            BY <3>2, <1>6
          <5>3. \A a, b, c, x, y \in Int : (a + y) - (b - (c - x)) = (a - (b - c)) + (y - x)
            OBVIOUS
          <5>4. P[k] \in Int /\ n \in Int /\ st.open \in Int /\ d \in Int /\ lot.open \in Int
            BY <5>1, <1>2, <1>5
          <5>5. (P[k] + lot.open) - (n - (st.open - d)) = (P[k] - (n - st.open)) + (lot.open - d)
            BY <5>3, <5>4
          <5> QED
            BY <5>1, <5>2, <5>5, <1>2
        <4>2. /\ new.lots = Append(st.lots, rest) /\ rest \in AnyLot /\ rest.open \in Nat
              /\ rest.bar < bar /\ rest.bar <= bar
          <5>1. rest.bar \in Int /\ rest.bar < bar => rest.bar <= bar
            OBVIOUS
          <5> QED
            BY <3>2, <1>1, <1>4, <1>6, <1>7
        <4>3. PICK Q, i : HeldInLots(st.lots, Q, P[k] - (n - st.open), P[k] - (n - st.open), bar, i)
          BY <2>1 DEF OpenLots
        <4>4. OpenLots(new.lots, P[k + 1] - (n - new.open), P[k + 1] - (n - new.open), bar)
          BY <4>1, <4>2, <4>3, <2>1, <1>6, AppendLot
        <4>5. \A m \in 1..Len(new.lots) :
                new.lots[m] = rest \/ \E o \in 1..Len(st.lots) : new.lots[m] = st.lots[o]
          BY <4>2, <1>6
        <4>6. \A m \in 1..Len(new.lots) : new.lots[m].bar < bar
          BY <4>2, <4>5, <2>1
        <4> QED
          BY <4>4, <4>6
      <3> QED
        BY <3>1, <3>2
    <2>5. k + 1 >= j => new.open = 0 /\ OpenLots(new.lots, P[k + 1] - n, sellable - n, bar)
      <3> SUFFICES ASSUME k + 1 >= j PROVE new.open = 0 /\ OpenLots(new.lots, P[k + 1] - n, sellable - n, bar)
        OBVIOUS
      <3>1. k + 1 = j /\ P[k + 1] = sellable
        BY <1>1, <1>2, <1>7
      <3>2. new.open = 0
        BY <3>1, <2>2, <1>1 DEF Larger
      <3>3. P[k + 1] - (n - new.open) = P[k + 1] - n /\ P[k + 1] - (n - new.open) = sellable - n
        BY <3>1, <3>2, <1>1, <1>2
      <3> QED
        BY <3>2, <3>3, <2>4
    <2> QED
      BY <1>3, <1>4, <2>2, <2>3, <2>4, <2>5 DEF Closing, new, lot
  <1>8. CASE k >= j
    <2>1. st.open = 0 /\ OpenLots(st.lots, P[k] - n, sellable - n, bar)
      BY <1>8 DEF Closing
    <2>2. d = 0 /\ new.open = 0
      BY <2>1, <1>1, <1>4, <1>5
    <2>3. OpenLots(new.lots, P[k + 1] - n, sellable - n, bar)
      <3>1. CASE lot.open = d
        <4>1. P[k + 1] - n = P[k] - n /\ new.lots = st.lots
          BY <3>1, <2>2, <1>1, <1>2, <1>4
        <4> QED
          BY <4>1, <2>1
      <3>2. CASE lot.open # d
        <4>1. P[k + 1] - n = (P[k] - n) + rest.open
          BY <3>2, <2>2, <1>1, <1>2, <1>6
        <4>2. new.lots = Append(st.lots, rest) /\ rest \in AnyLot /\ rest.open \in Nat /\ rest.bar <= bar
          BY <3>2, <1>1, <1>4, <1>6
        <4>3. PICK Q, i : HeldInLots(st.lots, Q, P[k] - n, sellable - n, bar, i)
          BY <2>1 DEF OpenLots
        <4> QED
          BY <4>1, <4>2, <4>3, <1>6, AppendLot
      <3> QED
        BY <3>1, <3>2
    <2>4. Ordered(new.trips)
      BY <2>2, <1>3, <1>4
    <2> QED
      BY <1>1, <1>3, <1>4, <1>8, <2>2, <2>3, <2>4 DEF Closing, new, lot
  <1> QED
    BY <1>1, <1>7, <1>8

\* A sale of at most what may be sold is closed by lots of earlier days.
LEMMA SaleCloses ==
  ASSUME NEW lots \in Seq(AnyLot), NEW held \in Int, NEW sellable \in Int, NEW bar \in Int,
         OpenLots(lots, held, sellable, bar),
         NEW n \in 1..sellable,
         NEW sale \in AnyTrips, sale.open = n, sale.bar = bar, sale.lots = <<>>, Ordered(sale.trips)
  PROVE  LET closed == FoldLeft(Closes, sale, lots) IN
         /\ closed \in AnyTrips /\ closed.open = 0 /\ Ordered(closed.trips)
         /\ OpenLots(closed.lots, held - n, sellable - n, bar)
  <1>1. PICK P, j : HeldInLots(lots, P, held, sellable, bar, j)
    BY DEF OpenLots
  <1>2. PICK F : ClosesLog(F, sale, lots) /\ FoldLeft(Closes, sale, lots) = F[Len(lots)]
    BY ClosesFold
  <1> DEFINE top == Len(lots)
             Bad == {k \in 0..top : ~Closing(F[k], k, P, n, bar, j, sellable)}
  <1>3. /\ top \in Nat /\ P[0] = 0 /\ P[top] = held /\ j \in 0..top /\ P[j] = sellable
        /\ n \in Nat /\ n > 0 /\ n <= sellable
    BY <1>1 DEF HeldInLots, SumLog
  <1>4. j # 0
    BY <1>3
  <1>5. Closing(F[0], 0, P, n, bar, j, sellable)
    <2>1. F[0] = sale
      BY <1>2 DEF ClosesLog
    <2> DEFINE zero == 0
               Z == [k \in {zero} |-> zero]
    <2>2. SumLog(Z, <<>>)
      BY DEF SumLog
    <2>3. HeldInLots(<<>>, Z, 0, 0, bar, 0)
      BY <2>2 DEF HeldInLots
    <2>4. OpenLots(sale.lots, 0, 0, bar)
      BY <2>3 DEF OpenLots
    <2>5. P[0] - (n - sale.open) = 0 /\ sale.open = Larger(n - P[0], 0)
      BY <1>3 DEF Larger
    <2>6. \A i \in 1..Len(sale.lots) : sale.lots[i].bar < bar
      OBVIOUS
    <2> QED
      BY <1>3, <1>4, <2>1, <2>4, <2>5, <2>6 DEF Closing
  <1>6. ASSUME Bad # {} PROVE FALSE
    <2>0. Bad \in SUBSET Nat
      OBVIOUS
    <2>1. PICK k \in Bad : \A i \in Bad : k <= i
      <3> HIDE DEF Bad
      <3> QED
        BY <1>6, <2>0, SmallestOf
    <2>2. k # 0
      BY <2>1, <1>5
    <2> DEFINE i == k - 1
    <2>3. i \in 0..(top - 1) /\ i \in 0..top /\ i + 1 = k /\ i \notin Bad
      BY <2>1, <2>2
    <2>4. Closing(F[i], i, P, n, bar, j, sellable)
      BY <2>3
    <2>5. F[k] = Closes(F[i], lots[k])
      BY <1>2, <2>3 DEF ClosesLog
    <2> HIDE DEF i
    <2>6. Closing(Closes(F[i], lots[i + 1]), i + 1, P, n, bar, j, sellable)
      BY <1>1, <2>3, <2>4, ClosingStep
    <2> QED
      BY <2>1, <2>3, <2>5, <2>6
  <1>7. Closing(F[top], top, P, n, bar, j, sellable)
    BY <1>3, <1>6
  <1> HIDE DEF top
  <1> QED
    BY <1>2, <1>3, <1>7 DEF Closing, top

-----------------------------------------------------------------------------
\* Every step keeps the book explained by the log.

\* The log explains a book: cash, what is held and what may be sold on a bar.
Explains(C, R, log, cash, held, sellable, bar) ==
  /\ log \in Seq(AnyFill)
  /\ CashLog(C, log) /\ C[Len(log)] = cash
  /\ TripsLog(R, log) /\ R[Len(log)].open = 0 /\ Ordered(R[Len(log)].trips)
  /\ OpenLots(R[Len(log)].lots, held, sellable, bar)

Explained(log, cash, held, sellable, bar) ==
  \E C, R : Explains(C, R, log, cash, held, sellable, bar)

\* The inductive invariant: the log's round trips are those of the book, and the
\* lots of earlier bars add up to what may be sold.
BooksInv == Explained(fills, book.cash, book.shares, book.sellable, today)

\* A log goes on.
LEMMA AppendCash ==
  ASSUME NEW log \in Seq(AnyFill), NEW fill \in AnyFill, NEW C, CashLog(C, log)
  PROVE  \E D : CashLog(D, Append(log, fill)) /\ D[Len(log) + 1] = Received(C[Len(log)], fill)
  <1> DEFINE n == Len(log)
             more == Append(log, fill)
             D == [k \in 0..(n + 1) |-> IF k <= n THEN C[k] ELSE Received(C[n], fill)]
  <1>1. /\ n \in Nat /\ Len(more) = n + 1 /\ more[n + 1] = fill
        /\ \A k \in 1..n : more[k] = log[k]
    OBVIOUS
  <1>2. \A k \in 0..n : C[k] \in Int
    BY DEF CashLog
  <1>3. Received(C[n], fill) \in Int
    BY <1>1, <1>2, ReceivedTyped
  <1>4. C[0] = InitialCash /\ \A k \in 1..n : C[k] = Received(C[k - 1], log[k])
    BY DEF CashLog
  <1> HIDE DEF n, more
  <1>5. D \in [0..(n + 1) -> Int]
    <2>1. \A k \in 0..(n + 1) : (IF k <= n THEN C[k] ELSE Received(C[n], fill)) \in Int
      BY <1>1, <1>2, <1>3
    <2> QED
      BY <2>1
  <1>6. D[0] = InitialCash /\ (\A k \in 0..n : D[k] = C[k]) /\ D[n + 1] = Received(C[n], fill)
    BY <1>1, <1>4
  <1> HIDE DEF D
  <1>7. ASSUME NEW k \in 1..(n + 1) PROVE D[k] = Received(D[k - 1], more[k])
    <2>1. CASE k = n + 1
      <3>1. k - 1 = n /\ n \in 0..n
        BY <2>1, <1>1
      <3>2. D[k - 1] = C[n] /\ more[k] = fill /\ D[k] = Received(C[n], fill)
        BY <2>1, <3>1, <1>1, <1>6
      <3> QED
        BY <3>2
    <2>2. CASE k # n + 1
      <3>1. k \in 1..n /\ k \in 0..n /\ k - 1 \in 0..n
        BY <2>2, <1>1
      <3>2. D[k] = C[k] /\ D[k - 1] = C[k - 1] /\ more[k] = log[k]
        BY <3>1, <1>1, <1>6
      <3>3. C[k] = Received(C[k - 1], log[k])
        BY <3>1, <1>4
      <3> QED
        BY <3>2, <3>3
    <2> QED
      BY <2>1, <2>2
  <1>8. CashLog(D, more)
    BY <1>1, <1>5, <1>6, <1>7 DEF CashLog
  <1> QED
    BY <1>6, <1>8 DEF n, more

\* So do the round trips.
LEMMA AppendTrips ==
  ASSUME NEW log \in Seq(AnyFill), NEW fill \in AnyFill, NEW R, TripsLog(R, log)
  PROVE  \E S : TripsLog(S, Append(log, fill)) /\ S[Len(log) + 1] = Matched(R[Len(log)], fill)
  <1> DEFINE n == Len(log)
             more == Append(log, fill)
             S == [k \in 0..(n + 1) |-> IF k <= n THEN R[k] ELSE Matched(R[n], fill)]
  <1>1. /\ n \in Nat /\ Len(more) = n + 1 /\ more[n + 1] = fill
        /\ \A k \in 1..n : more[k] = log[k]
    OBVIOUS
  <1>2. \A k \in 0..n : R[k] \in AnyTrips
    BY DEF TripsLog
  <1>3. Matched(R[n], fill) \in AnyTrips
    BY <1>1, <1>2, MatchedTyped
  <1>4. R[0] = NoTrips /\ \A k \in 1..n : R[k] = Matched(R[k - 1], log[k])
    BY DEF TripsLog
  <1> HIDE DEF n, more
  <1>5. S \in [0..(n + 1) -> AnyTrips]
    <2>1. \A k \in 0..(n + 1) : (IF k <= n THEN R[k] ELSE Matched(R[n], fill)) \in AnyTrips
      BY <1>1, <1>2, <1>3
    <2> QED
      BY <2>1
  <1>6. S[0] = NoTrips /\ (\A k \in 0..n : S[k] = R[k]) /\ S[n + 1] = Matched(R[n], fill)
    BY <1>1, <1>4
  <1> HIDE DEF S
  <1>7. ASSUME NEW k \in 1..(n + 1) PROVE S[k] = Matched(S[k - 1], more[k])
    <2>1. CASE k = n + 1
      <3>1. k - 1 = n /\ n \in 0..n
        BY <2>1, <1>1
      <3>2. S[k - 1] = R[n] /\ more[k] = fill /\ S[k] = Matched(R[n], fill)
        BY <2>1, <3>1, <1>1, <1>6
      <3> QED
        BY <3>2
    <2>2. CASE k # n + 1
      <3>1. k \in 1..n /\ k \in 0..n /\ k - 1 \in 0..n
        BY <2>2, <1>1
      <3>2. S[k] = R[k] /\ S[k - 1] = R[k - 1] /\ more[k] = log[k]
        BY <3>1, <1>1, <1>6
      <3>3. R[k] = Matched(R[k - 1], log[k])
        BY <3>1, <1>4
      <3> QED
        BY <3>2, <3>3
    <2> QED
      BY <2>1, <2>2
  <1>8. TripsLog(S, more)
    BY <1>1, <1>5, <1>6, <1>7 DEF TripsLog
  <1> QED
    BY <1>6, <1>8 DEF n, more

\* A buy opens a lot of today's.
LEMMA BuyExplained ==
  ASSUME NEW log, NEW cash, NEW held, NEW sellable, NEW bar \in Int,
         Explained(log, cash, held, sellable, bar),
         NEW fill \in AnyFill, fill.order.side = "buy", fill.bar = bar, fill.shares \in Nat
  PROVE  Explained(Append(log, fill), Received(cash, fill), held + fill.shares, sellable, bar)
  <1>1. PICK C, R : Explains(C, R, log, cash, held, sellable, bar)
    BY DEF Explained
  <1> DEFINE n == Len(log)
             trips == R[n]
             lot == [bar |-> fill.bar, open |-> fill.shares]
  <1>2. log \in Seq(AnyFill) /\ n \in Nat /\ Len(Append(log, fill)) = n + 1 /\ Append(log, fill) \in Seq(AnyFill)
    BY <1>1 DEF Explains
  <1>3. PICK D : CashLog(D, Append(log, fill)) /\ D[n + 1] = Received(C[n], fill)
    BY <1>1, <1>2, AppendCash DEF Explains
  <1>4. PICK S : TripsLog(S, Append(log, fill)) /\ S[n + 1] = Matched(R[n], fill)
    BY <1>1, <1>2, AppendTrips DEF Explains
  <1>5. trips \in AnyTrips /\ trips.lots \in Seq(AnyLot)
    <2>1. trips \in AnyTrips
      BY <1>1, <1>2 DEF Explains, TripsLog
    <2> QED
      BY <2>1 DEF AnyTrips
  <1>6. /\ Matched(trips, fill).open = trips.open /\ Matched(trips, fill).trips = trips.trips
        /\ Matched(trips, fill).lots = Append(trips.lots, lot)
    <2>1. Matched(trips, fill) = [trips EXCEPT !.lots = Append(@, lot)]
      BY DEF Matched
    <2> HIDE DEF lot, trips
    <2> QED
      BY <2>1, <1>5 DEF AnyTrips
  <1>7. OpenLots(Append(trips.lots, lot), held + lot.open, sellable, bar)
    <2>1. lot \in AnyLot /\ lot.open \in Nat /\ lot.bar <= bar
      BY DEF AnyLot, AnyFill
    <2>2. PICK P, j : HeldInLots(trips.lots, P, held, sellable, bar, j)
      BY <1>1 DEF Explains, OpenLots
    <2> HIDE DEF lot, trips
    <2> QED
      BY <1>5, <2>1, <2>2, AppendLot
  <1>8. Explains(D, S, Append(log, fill), Received(cash, fill), held + fill.shares, sellable, bar)
    <2>1. D[Len(Append(log, fill))] = Received(cash, fill)
      BY <1>1, <1>2, <1>3 DEF Explains
    <2>2. S[Len(Append(log, fill))] = Matched(trips, fill)
      BY <1>2, <1>4
    <2>3. trips.open = 0 /\ Ordered(trips.trips) /\ lot.open = fill.shares
      BY <1>1 DEF Explains
    <2> HIDE DEF n, trips, lot
    <2> QED
      BY <1>2, <1>3, <1>4, <1>6, <1>7, <2>1, <2>2, <2>3 DEF Explains
  <1> QED
    BY <1>8 DEF Explained

\* A sale closes lots of earlier days.
LEMMA SaleExplained ==
  ASSUME NEW log, NEW cash, NEW held \in Int, NEW sellable \in Int, NEW bar \in Int,
         Explained(log, cash, held, sellable, bar),
         NEW fill \in AnyFill, fill.order.side # "buy", fill.bar = bar, fill.shares \in 1..sellable
  PROVE  Explained(Append(log, fill), Received(cash, fill), held - fill.shares, sellable - fill.shares, bar)
  <1>1. PICK C, R : Explains(C, R, log, cash, held, sellable, bar)
    BY DEF Explained
  <1> DEFINE n == Len(log)
             trips == R[n]
             sale == [trips EXCEPT !.open = @ + fill.shares, !.bar = fill.bar, !.lots = <<>>]
  <1>2. log \in Seq(AnyFill) /\ n \in Nat /\ Len(Append(log, fill)) = n + 1 /\ Append(log, fill) \in Seq(AnyFill)
    BY <1>1 DEF Explains
  <1>3. PICK D : CashLog(D, Append(log, fill)) /\ D[n + 1] = Received(C[n], fill)
    BY <1>1, <1>2, AppendCash DEF Explains
  <1>4. PICK S : TripsLog(S, Append(log, fill)) /\ S[n + 1] = Matched(R[n], fill)
    BY <1>1, <1>2, AppendTrips DEF Explains
  <1>5. trips \in AnyTrips /\ trips.lots \in Seq(AnyLot) /\ trips.open = 0 /\ Ordered(trips.trips)
        /\ OpenLots(trips.lots, held, sellable, bar)
    <2>1. trips \in AnyTrips
      BY <1>1, <1>2 DEF Explains, TripsLog
    <2>2. trips.lots \in Seq(AnyLot)
      BY <2>1 DEF AnyTrips
    <2> QED
      BY <2>1, <2>2, <1>1 DEF Explains
  <1>6. Matched(trips, fill) = FoldLeft(Closes, sale, trips.lots)
    BY DEF Matched
  <1>7. /\ sale \in AnyTrips /\ sale.open = fill.shares /\ sale.bar = bar /\ sale.lots = <<>>
        /\ Ordered(sale.trips)
    <2>1. sale = [trips EXCEPT !.open = @ + fill.shares, !.bar = fill.bar, !.lots = <<>>]
      OBVIOUS
    <2> HIDE DEF sale, trips
    <2>2. trips = [open |-> trips.open, bar |-> trips.bar, lots |-> trips.lots, trips |-> trips.trips]
      BY <1>5 DEF AnyTrips
    <2>3. sale = [open |-> trips.open + fill.shares, bar |-> fill.bar, lots |-> <<>>, trips |-> trips.trips]
      BY <2>1, <2>2
    <2>4. trips.open + fill.shares = fill.shares /\ fill.shares \in Int
      BY <1>5
    <2>5. trips.trips \in SUBSET (Int \X Int)
      BY <1>5 DEF AnyTrips
    <2>6. <<>> \in Seq(AnyLot)
      OBVIOUS
    <2>7. sale \in AnyTrips
      BY <2>3, <2>4, <2>5, <2>6 DEF AnyTrips
    <2> QED
      BY <1>5, <2>3, <2>4, <2>7
  <1> HIDE DEF n, trips, sale
  <1>8. /\ Matched(trips, fill).open = 0 /\ Ordered(Matched(trips, fill).trips)
        /\ OpenLots(Matched(trips, fill).lots, held - fill.shares, sellable - fill.shares, bar)
    <2> DEFINE lots == trips.lots
               n2 == fill.shares
               closed == FoldLeft(Closes, sale, lots)
    <2>1. lots \in Seq(AnyLot) /\ OpenLots(lots, held, sellable, bar) /\ n2 \in 1..sellable /\ sale.open = n2
      BY <1>5, <1>7
    <2> HIDE DEF lots, n2
    <2>2. closed.open = 0 /\ Ordered(closed.trips) /\ OpenLots(closed.lots, held - n2, sellable - n2, bar)
      BY <1>7, <2>1, SaleCloses
    <2> QED
      BY <1>6, <2>2 DEF lots, n2
  <1>9. Explains(D, S, Append(log, fill), Received(cash, fill), held - fill.shares, sellable - fill.shares, bar)
    <2>1. D[Len(Append(log, fill))] = Received(cash, fill)
      BY <1>1, <1>2, <1>3 DEF Explains, n
    <2>2. S[Len(Append(log, fill))] = Matched(trips, fill)
      BY <1>2, <1>4 DEF trips
    <2> QED
      BY <1>2, <1>3, <1>4, <1>8, <2>1, <2>2 DEF Explains
  <1> QED
    BY <1>9 DEF Explained

\* Overnight everything held becomes sellable.
LEMMA BarExplained ==
  ASSUME NEW log, NEW cash, NEW held, NEW sellable, NEW bar \in Int,
         Explained(log, cash, held, sellable, bar)
  PROVE  Explained(log, cash, held, held, bar + 1)
  <1>1. PICK C, R : Explains(C, R, log, cash, held, sellable, bar)
    BY DEF Explained
  <1> DEFINE lots == R[Len(log)].lots
  <1>2. PICK P, j : HeldInLots(lots, P, held, sellable, bar, j)
    BY <1>1 DEF Explains, OpenLots
  <1>3. lots \in Seq(AnyLot)
    <2>1. R[Len(log)] \in AnyTrips
      BY <1>1 DEF Explains, TripsLog
    <2> QED
      BY <2>1 DEF AnyTrips
  <1> HIDE DEF lots
  <1>4. \A i \in 1..Len(lots) : lots[i].bar <= bar + 1 /\ lots[i].bar < bar + 1
    <2> SUFFICES ASSUME NEW i \in 1..Len(lots) PROVE lots[i].bar <= bar + 1 /\ lots[i].bar < bar + 1
      OBVIOUS
    <2>1. lots[i].bar <= bar
      BY <1>2 DEF HeldInLots
    <2>0. lots[i] \in AnyLot
      BY <1>3
    <2>2. lots[i].bar \in Int
      BY <2>0 DEF AnyLot
    <2> QED
      BY <2>1, <2>2
  <1>5. Len(lots) \in 0..Len(lots)
    BY <1>3
  <1>6. HeldInLots(lots, P, held, held, bar + 1, Len(lots))
    BY <1>2, <1>4, <1>5 DEF HeldInLots
  <1>7. Explains(C, R, log, cash, held, held, bar + 1)
    BY <1>1, <1>6 DEF Explains, OpenLots, lots
  <1> QED
    BY <1>7 DEF Explained

\* The cash a log accounts for is what its folds come to.
LEMMA CashIsFold ==
  ASSUME NEW log \in Seq(AnyFill), NEW C, CashLog(C, log)
  PROVE  FoldLeft(Received, InitialCash, log) = C[Len(log)]
  <1>1. PICK F : CashLog(F, log) /\ FoldLeft(Received, InitialCash, log) = F[Len(log)]
    BY ReceivedFold
  <1> DEFINE n == Len(log)
  <1>2. n \in Nat
    OBVIOUS
  <1>3. Alike(C, F, n)
    BY <1>1 DEF CashLog, Alike
  <1> HIDE DEF n
  <1>4. C[n] = F[n]
    BY <1>2, <1>3, SameSteps
  <1> QED
    BY <1>1, <1>4 DEF n

\* The round trips a log accounts for are what its folds come to (round_trips).
LEMMA TripsAreFold ==
  ASSUME NEW log \in Seq(AnyFill), NEW R, TripsLog(R, log)
  PROVE  FoldLeft(Matched, NoTrips, log) = R[Len(log)]
  <1>1. PICK F : TripsLog(F, log) /\ FoldLeft(Matched, NoTrips, log) = F[Len(log)]
    BY MatchedFold
  <1> DEFINE n == Len(log)
  <1>2. n \in Nat
    OBVIOUS
  <1>3. Alike(R, F, n)
    BY <1>1 DEF TripsLog, Alike
  <1> HIDE DEF n
  <1>4. R[n] = F[n]
    BY <1>2, <1>3, SameSteps
  <1> QED
    BY <1>1, <1>4 DEF n

\* What the lots sum up to is what their fold comes to.
LEMMA SumIsFold ==
  ASSUME NEW lots \in Seq(AnyLot), NEW P, SumLog(P, lots)
  PROVE  FoldLeft(LAMBDA n, lot : n + lot.open, 0, lots) = P[Len(lots)]
  <1>1. PICK F : SumLog(F, lots) /\ FoldLeft(LAMBDA n, lot : n + lot.open, 0, lots) = F[Len(lots)]
    BY SumFold
  <1> DEFINE top == Len(lots)
  <1>2. top \in Nat
    OBVIOUS
  <1>3. Alike(P, F, top)
    BY <1>1 DEF SumLog, Alike
  <1> HIDE DEF top
  <1>4. P[top] = F[top]
    BY <1>2, <1>3, SameSteps
  <1> QED
    BY <1>1, <1>4 DEF top

\* A book that the log explains balances.
LEMMA BooksInvBalances ==
  ASSUME BooksInv
  PROVE  BooksBalance
  <1>1. PICK C, R : Explains(C, R, fills, book.cash, book.shares, book.sellable, today)
    BY DEF BooksInv, Explained
  <1> DEFINE trips == R[Len(fills)]
  <1>2. fills \in Seq(AnyFill) /\ Len(fills) \in 0..Len(fills)
    BY <1>1 DEF Explains
  <1>3. FoldLeft(Received, InitialCash, fills) = book.cash
    BY <1>1, <1>2, CashIsFold DEF Explains
  <1>4. RoundTrips = trips
    <2>1. RoundTrips = FoldLeft(Matched, NoTrips, fills)
      BY DEF RoundTrips, NoTrips
    <2> QED
      BY <1>1, <1>2, <2>1, TripsAreFold DEF Explains
  <1>5. trips \in AnyTrips /\ trips.open = 0 /\ Ordered(trips.trips)
        /\ OpenLots(trips.lots, book.shares, book.sellable, today)
    BY <1>1, <1>2 DEF Explains, TripsLog
  <1> HIDE DEF trips
  <1>6. trips.lots \in Seq(AnyLot)
    BY <1>5 DEF AnyTrips
  <1>7. PICK P : SumLog(P, trips.lots) /\ P[Len(trips.lots)] = book.shares
    BY <1>5 DEF OpenLots, HeldInLots
  <1>8. FoldLeft(LAMBDA n, lot : n + lot.open, 0, trips.lots) = book.shares
    BY <1>6, <1>7, SumIsFold
  <1> QED
    BY <1>3, <1>4, <1>5, <1>8 DEF BooksBalance, Ordered

\* An empty log explains the book a run starts from (Portfolio::new).
LEMMA NothingExplained == ASSUME TestInit PROVE BooksInv
  <1> DEFINE zero == 0
             C == [k \in {zero} |-> InitialCash]
             R == [k \in {zero} |-> NoTrips]
             Z == [k \in {zero} |-> zero]
  <1>0. fills = <<>> /\ book.cash = InitialCash /\ book.shares = 0 /\ book.sellable = 0 /\ today = 1
    BY DEF TestInit
  <1>1. <<>> \in Seq(AnyFill) /\ Len(<<>>) = 0
    OBVIOUS
  <1>2. CashLog(C, <<>>) /\ C[0] = InitialCash
    BY TestAssumption DEF CashLog
  <1>3. TripsLog(R, <<>>) /\ R[0] = NoTrips
    BY NoTripsTyped DEF TripsLog
  <1>4. NoTrips.open = 0 /\ NoTrips.lots = <<>> /\ Ordered(NoTrips.trips)
    BY DEF NoTrips, Ordered
  <1>5. SumLog(Z, <<>>)
    BY DEF SumLog
  <1>6. HeldInLots(<<>>, Z, 0, 0, 1, 0)
    BY <1>5 DEF HeldInLots
  <1>7. OpenLots(<<>>, 0, 0, 1)
    BY <1>6 DEF OpenLots
  <1>8. Explains(C, R, <<>>, InitialCash, 0, 0, 1)
    <2> HIDE DEF C, R
    <2> QED
      BY <1>1, <1>2, <1>3, <1>4, <1>7 DEF Explains
  <1>9. Explained(<<>>, InitialCash, 0, 0, 1)
    BY <1>8 DEF Explained
  <1> QED
    BY <1>0, <1>9 DEF BooksInv

\* A buy (execute_buy) adds today's lot to the book and to the log.
LEMMA BuyBooked ==
  ASSUME TestInv, BooksInv, NEW order \in AnyOrder, Buy(order), UNCHANGED today
  PROVE  BooksInv'
  <1> DEFINE price == FillPrice(order)
  <1>0. InputsOK /\ BookOK /\ FillsOK /\ book.cash \in Int /\ price \in Int
        /\ book.shares \in Nat /\ today \in Int /\ order.side = "buy"
    BY InputsTyped, PriceIsInt DEF TestInv, BookOK, Buy
  <1>1. PICK n \in Fitting(order) :
          /\ book' = [cash |-> book.cash - Paid(n, price), shares |-> book.shares + n,
                      sellable |-> SellableAfter(n), basis |-> book.basis + n * price]
          /\ Filled(order, n, Fee("buy", n * price), book.shares + n)
    BY DEF Buy
  <1> DEFINE fee == Fee("buy", n * price)
             f == [bar |-> today, order |-> order, shares |-> n, price |-> price,
                   fee |-> fee, before |-> book.cash, rest |-> book.shares + n]
  <1>2. n \in Nat /\ n * price \in Int /\ book.shares + n \in Int
    <2>1. n \in Int /\ n >= MinLot
      BY DEF Fitting
    <2> HIDE DEF price
    <2> QED
      BY <1>0, <2>1, TestAssumption
  <1>3. fee \in Int
    BY <1>2, FeesAreInt
  <1>4. f \in AnyFill
    BY <1>0, <1>2, <1>3 DEF AnyFill
  <1>5. fills' = Append(fills, f)
    BY <1>1 DEF Filled
  <1>6. f.order.side = "buy" /\ f.bar = today /\ f.shares = n /\ f.price = price /\ f.fee = fee
    BY <1>0
  <1>7. book'.cash = book.cash - (n * price + fee) /\ book'.shares = book.shares + n
        /\ book'.sellable = book.sellable
    BY <1>1 DEF Paid, SellableAfter
  <1> HIDE DEF f, fee, price
  <1>8. Explained(Append(fills, f), Received(book.cash, f), book.shares + n, book.sellable, today)
    BY <1>0, <1>2, <1>4, <1>6, BuyExplained DEF BooksInv
  <1>9. Received(book.cash, f) = book'.cash
    <2>1. Received(book.cash, f) = book.cash - n * price - fee
      BY <1>6 DEF Received
    <2>2. \A a, b, c \in Int : a - b - c = a - (b + c)
      OBVIOUS
    <2> QED
      BY <1>0, <1>2, <1>3, <1>7, <2>1, <2>2
  <1> QED
    BY <1>5, <1>7, <1>8, <1>9 DEF BooksInv

\* A sale (execute_sell) takes what the log's round trips close.
LEMMA SaleBooked ==
  ASSUME TestInv, BooksInv, NEW order \in AnyOrder, Sell(order), UNCHANGED today
  PROVE  BooksInv'
  <1> DEFINE price == FillPrice(order)
             n == Sold(order)
             amount == n * price
             fee == Fee("sell", amount)
             f == [bar |-> today, order |-> order, shares |-> n, price |-> price,
                   fee |-> fee, before |-> book.cash, rest |-> book.shares - n]
  <1>0. InputsOK /\ BookOK /\ FillsOK /\ book.cash \in Int /\ price \in Int
        /\ book.shares \in Int /\ book.sellable \in Int /\ today \in Int /\ order.side # "buy"
    BY InputsTyped, PriceIsInt DEF TestInv, BookOK, Sell
  <1>1. n \in 1..book.sellable /\ book.shares - n \in Int /\ n \in Int
    BY <1>0 DEF Sell, Sold, Smaller, BookOK, AnyOrder
  <1>2. amount \in Int
    BY <1>0, <1>1
  <1>3. fee \in Int
    BY <1>2, FeesAreInt
  <1>4. f \in AnyFill
    BY <1>0, <1>1, <1>3 DEF AnyFill
  <1>5. /\ book' = [cash |-> book.cash + amount - fee, shares |-> book.shares - n,
                    sellable |-> book.sellable - n, basis |-> book.basis - (book.basis * n) \div book.shares]
        /\ fills' = Append(fills, f)
    BY DEF Sell, Filled
  <1>6. f.order.side # "buy" /\ f.bar = today /\ f.shares = n /\ f.price = price /\ f.fee = fee
    BY <1>0
  <1>7. book'.cash = book.cash + amount - fee /\ book'.shares = book.shares - n
        /\ book'.sellable = book.sellable - n
    BY <1>5
  <1>8. Received(book.cash, f) = book'.cash
    BY <1>6, <1>7 DEF Received
  <1> HIDE DEF f, fee, amount, n, price
  <1>9. Explained(Append(fills, f), Received(book.cash, f), book.shares - n, book.sellable - n, today)
    BY <1>0, <1>1, <1>4, <1>6, SaleExplained DEF BooksInv
  <1> QED
    BY <1>5, <1>7, <1>8, <1>9 DEF BooksInv

\* Every step keeps the book explained: a bar that begins (run) makes all lots
\* sellable, orders are booked as above, and the rest leaves book and log alone.
LEMMA BooksStep ==
  ASSUME TestInv, BooksInv, [TestNext]_testVars
  PROVE  BooksInv'
  <1>1. CASE NextBar
    <2>1. today' = today + 1 /\ fills' = fills /\ book'.cash = book.cash /\ book'.shares = book.shares
          /\ book'.sellable = book.shares
      BY <1>1 DEF NextBar, TestInv, BookOK
    <2>2. today \in Int
      BY InputsTyped DEF TestInv
    <2>3. Explained(fills, book.cash, book.shares, book.shares, today + 1)
      BY <2>2, BarExplained DEF BooksInv
    <2> QED
      BY <2>1, <2>3 DEF BooksInv
  <1>2. CASE ExecuteOrder
    <2> DEFINE order == Head(queue)
    <2>1. order \in AnyOrder /\ UNCHANGED today
      BY <1>2, HeadTyped DEF TestInv, ExecuteOrder
    <2>2. Buy(order) \/ Sell(order) \/ Reject(order)
      BY <1>2 DEF ExecuteOrder
    <2>3. Reject(order) => UNCHANGED <<fills, book>>
      BY DEF Reject
    <2> HIDE DEF order
    <2> QED
      BY <2>1, <2>2, <2>3, BuyBooked, SaleBooked DEF BooksInv
  <1>3. CASE UNCHANGED <<fills, book, today>>
    BY <1>3 DEF BooksInv
  <1>4. NextBar \/ ExecuteOrder \/ UNCHANGED <<fills, book, today>>
    BY DEF TestNext, testVars, FillsDone, DecideFreely, StopOut, ScaleOut, TrailOut, Emits
  <1> QED
    BY <1>1, <1>2, <1>3, <1>4

\* The log of trades explains the book: every sale closes lots bought on
\* earlier bars (engine.rs: T+1, round_trips), what is open is what is held, and
\* what was paid and received is what the cash has changed by.
THEOREM TestBooksBalance == TestSpec => []BooksBalance
  <1>1. TestInit => TestInv /\ BooksInv
    BY NothingExplained, TestInitInv
  <1>2. TestInv /\ BooksInv /\ [TestNext]_testVars => TestInv' /\ BooksInv'
    BY BooksStep, TestStepInv
  <1>3. BooksInv => BooksBalance
    BY BooksInvBalances
  <1> QED
    BY <1>1, <1>2, <1>3, PTL DEF TestSpec
=============================================================================
