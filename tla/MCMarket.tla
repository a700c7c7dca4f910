------------------------------ MODULE MCMarket ------------------------------
(***************************************************************************)
(* Where prices come from and what is computed from them, for model        *)
(* checking: the hub, the pool, the backtest and Chan theory.  They share  *)
(* no variable: the hub calls the pool as one of its providers, which      *)
(* MarketHub has answer, fail or take its time, and a backtest is given    *)
(* the whole series at its start.  So a behaviour is one of one of them,   *)
(* the others at rest.                                                     *)
(***************************************************************************)
EXTENDS MarketHub, TdxPool, Backtest, Chanlun

CONSTANT Focus    \* the parts that run

VARIABLE focus

hubAlone   == <<poolVars, testVars, chartVars, focus>>
poolAlone  == <<hubVars, testVars, chartVars, focus>>
testAlone  == <<hubVars, poolVars, chartVars, focus>>
chartAlone == <<hubVars, poolVars, testVars, focus>>

marketVars == <<hubAlone, hubVars>>

TwoServers == <<"a", "b">>

Offer(keys, chain) == [keys |-> keys, chain |-> chain]

\* Two requests of a kind meet in one fetch (breadth, quote), in the queue of a
\* gate (fund flow), or where a detailed series awaits the base series.
HubOffers ==
  {Offer({<<"fund_flow", "s1">>, <<"fund_flow", "s2">>}, <<"eastmoney">>),
   Offer({<<"breadth", "s1">>}, <<"eastmoney">>),
   Offer({<<"quote", "s1">>}, <<"tdx", "eastmoney">>),
   Offer({<<"enriched", "s1">>}, <<"tdx", "eastmoney">>),
   Offer({<<"enriched", "s1">>, <<"base", "s1">>}, <<"eastmoney">>)}

\* Five bars: a rise to a stage and the trailing stop; the stop hit while trade
\* is suspended and at the lower limit; limit up at the entry, then a fall.
Day(o, h, l, c) == [open |-> o, high |-> h, low |-> l, close |-> c, atr |-> 4, suspended |-> FALSE]
Suspended(c) == [Day(c, c, c, c) EXCEPT !.suspended = TRUE]
SomeSeries ==
  {<<Day(100, 100, 98, 100), Day(100, 102, 98, 101), Day(101, 106, 100, 104),
     Day(104, 109, 104, 108), Day(106, 107, 102, 103)>>,
   <<Day(100, 102, 99, 101), Day(101, 107, 100, 107), Suspended(107),
     Day(96, 97, 94, 94), Day(84, 90, 84, 90)>>,
   <<Day(100, 110, 100, 110), Day(121, 121, 112, 115), Day(115, 123, 110, 118),
     Day(118, 119, 105, 106), Day(104, 106, 100, 101)>>}

\* A price is about a hundred, a tick is one, a lot is two.
Rules(execution, managed, stop, distance) ==
  [execution |-> execution, managed |-> managed, stop |-> stop, distance |-> distance,
   stages |-> <<[r |-> 1, tenths |-> 4], [r |-> 2, tenths |-> 3]>>, breakeven |-> TRUE,
   trail |-> 1, gate |-> TRUE]
SomeStops == {<<FALSE, "fixed", 5>>, <<TRUE, "fixed", 5>>, <<TRUE, "low", 2>>, <<TRUE, "atr", 1>>}
SomePolicies ==
  {Rules(e, s[1], s[2], s[3]) : e \in {"next_open", "next_close", "same_close"}, s \in SomeStops}
SomeLists ==
  {<<>>, <<Order("buy", TRUE, 0, "own")>>,
   <<Order("buy", FALSE, 5, "own"), Order("sell", FALSE, 3, "own")>>}

\* Series bar by bar, in which one may contain another; and legs, up and down in
\* turn, of a length from the tape, from a turning point to the next one.  In the
\* last tape a stroke starts above the end of the one before, and the stroke
\* behind breaks the zone.
Tape(single, legs) == [single |-> single, legs |-> legs]
SomeTapes ==
  {Tape(5, <<>>), Tape(0, [leg \in 1..6 |-> {1, 4}]), Tape(0, [leg \in 1..8 |-> IF leg \in {1, 7, 8} THEN {1} ELSE {4}]),
   Tape(0, [leg \in 1..9 |-> IF leg \in {5, 6} THEN {1} ELSE {4}])}

Levels == {0, 4, 8, 12}
Flat(price) == [high |-> price, low |-> price]
Leg(from, to, n) == [i \in 1..n |-> Flat((from * (n - i) + to * i) \div n)]

Rises(s, i) == s[i + 1].high > s[i].high
TurnsOf(s) == {i \in 1..Len(s) - 2 : Rises(s, i) # Rises(s, i + 1)}
NextLeg(s) == IF Len(s) < 2 THEN 1 ELSE Cardinality(TurnsOf(s)) + 2

Ends(s) ==
  {q \in Levels \ {Last(s).high} :
     Len(s) > 1 => (q < Last(s).high) = Rises(s, Len(s) - 1)}

SingleBars(s) ==
  {<<[high |-> p[1], low |-> p[2]]>> : p \in {q \in (1..3) \X (1..3) : q[1] >= q[2]}}
Legs(t, s) == {Leg(Last(s).high, q, n) : q \in Ends(s), n \in t.legs[NextLeg(s)]}

SomeArrivals(t, s) ==
  CASE t.single > 0 -> IF Len(s) < t.single THEN SingleBars(s) ELSE {}
    [] s = <<>> -> {<<Flat(q)>> : q \in Levels}
    [] NextLeg(s) \in DOMAIN t.legs -> Legs(t, s)
    [] OTHER -> {}

\* |MACD| of bars fades behind the thirteenth, with which three full legs end, or
\* grows; while the series is short, another bar may turn the one into the other.
SomeMacds(t, s) ==
  {[i \in DOMAIN s |-> IF i <= 13 THEN 2 ELSE 1]} \cup
  IF t.single > 0 THEN {} ELSE {[i \in DOMAIN s |-> IF i <= 13 THEN 1 ELSE 2]}

MarketInit ==
  /\ HubInit /\ PoolInit /\ TestInit /\ ChartInit /\ focus \in Focus
  /\ focus # "chart" => tape = CHOOSE t \in Tapes : TRUE
  /\ focus # "hub" => offer = CHOOSE o \in Offers : TRUE
  /\ focus # "pool" => up = Servers
  /\ focus # "backtest" =>
       /\ series = CHOOSE s \in Series : TRUE
       /\ policy = CHOOSE p \in Policies : TRUE

MarketNext ==
  \/ focus = "hub" /\ HubNext /\ UNCHANGED hubAlone
  \/ focus = "pool" /\ PoolNext /\ UNCHANGED poolAlone
  \/ focus = "backtest" /\ TestNext /\ UNCHANGED testAlone
  \/ focus = "backtest" /\ TestOver /\ UNCHANGED marketVars
  \/ focus = "chart" /\ SeriesGrows /\ UNCHANGED chartAlone
  \/ focus = "chart" /\ Arrivals(tape, bars) = {} /\ UNCHANGED marketVars

\* Nothing of the part at rest is enabled but the heartbeat.
MarketFairness ==
  /\ HubFairness /\ PoolProgress
  /\ WF_poolVars(focus = "pool" /\ Walk(Heartbeat))

MarketSpec == MarketInit /\ [][MarketNext]_marketVars /\ MarketFairness

-----------------------------------------------------------------------------
\* The state of every part is well-formed: the cache within its size (hub.rs,
\* cache.rs), every lock waited for once (pool.rs), and no more for sale than
\* is held (engine.rs); what is drawn refers to what is drawn (daily.rs).
MarketTypeOK == HubTypeOK /\ PoolTypeOK /\ TestTypeOK /\ ChartTypeOK /\ focus \in Focus

\* Requests to the hub and to the pool come back, whatever fails or is dropped
\* (hub.rs, pool.rs).
RequestsServed == CallsAnswered /\ PoolServes
=============================================================================
