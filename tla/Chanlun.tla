------------------------------- MODULE Chanlun -------------------------------
(***************************************************************************)
(* chanlun/src/daily.rs: what Chan theory sees in a series of prices.      *)
(* Bars are merged by containment; of the merged bars, tops and bottoms    *)
(* are marked; strokes join tops and bottoms, zones are where strokes      *)
(* overlap, and signals to buy or sell are read from strokes and zones.    *)
(* The Engine analyses the whole series at every request                   *)
(* (engine/src/analysis.rs:118), so what a user acted on yesterday is      *)
(* computed again from a series that is longer today.                      *)
(*                                                                         *)
(* A date is a position in the series.  |MACD| is computed for the whole   *)
(* series too, and its averages are seeded with what the first bars are:   *)
(* while the series has less than the bars the seeds are made of, another  *)
(* bar may change |MACD| of the earlier ones.  Which values it takes is    *)
(* left open.  Confidences, wording and the payloads of the charts are     *)
(* left out.  minute.rs repeats merging, tops and bottoms, strokes and     *)
(* signals of the first type.                                              *)
(***************************************************************************)
EXTENDS Naturals, Sequences, SequencesExt, FiniteSetsExt

CONSTANTS Tapes,          \* kinds of series
          Arrivals(_, _), \* the bars that may come behind a series of a kind, together
          Macds(_, _),    \* what |MACD| may be over a series of a kind
          Seeds           \* the bars the seeds of the averages are made of, 26

VARIABLES tape,
          bars,     \* the series: [high, low]
          macd,     \* |MACD| of each bar, as the last analysis had it
          chart     \* what analyze_chanlun_daily made of it

chartVars == <<tape, bars, macd, chart>>

-----------------------------------------------------------------------------
\* The loops of daily.rs: a step at each place of a set, in order.
FoldAt(Step(_, _), base, S) ==
  MapThenFoldSet(LAMBDA i, x : Step(x, i), base, LAMBDA i : i, Max, S)

\* merge_daily_klines: a bar within the last merged one, or around it, is
\* absorbed, and its extremes go the way the merged bars go.
FirstOf(b, date, way) == [high |-> b.high, low |-> b.low, way |-> way, date |-> date]

Contained(b, k) ==
  \/ b.high <= k.high /\ b.low >= k.low
  \/ b.high >= k.high /\ b.low <= k.low

\* Mutant: extremes go both ways, whichever way the merged bars go.
Widened(k, b, date) ==
  [k EXCEPT !.date = date, !.high = Max({b.high, @}), !.low = Min({b.low, @})]

Absorbed(k, b, date) ==
  [k EXCEPT !.date = date,
            !.high = IF k.way = "down" THEN Min({b.high, @}) ELSE Max({b.high, @}),
            !.low = IF k.way = "up" THEN Max({b.low, @}) ELSE Min({b.low, @})]

MergeBar(merged, b, date) ==
  LET k == Last(merged) IN
  IF Contained(b, k)
  THEN Append(Front(merged), Absorbed(k, b, date))
  ELSE Append(merged, FirstOf(b, date, IF b.high > k.high THEN "up" ELSE "down"))

MergedKlines(s) ==
  IF s = <<>> THEN <<>>
  ELSE FoldAt(LAMBDA merged, i : MergeBar(merged, s[i], i), <<FirstOf(s[1], 1, "none")>>, 2..Len(s))

-----------------------------------------------------------------------------
\* find_daily_fractals: tops and bottoms, never the first or the last bar.
Inner(m) == 2..Len(m) - 1
IsTop(m, i) == m[i].high > m[i - 1].high /\ m[i].high > m[i + 1].high
IsBottom(m, i) == m[i].low < m[i - 1].low /\ m[i].low < m[i + 1].low

FractalAt(m, i) ==
  [index |-> i, top |-> IsTop(m, i), date |-> m[i].date,
   price |-> IF IsTop(m, i) THEN m[i].high ELSE m[i].low]

\* Mutant: the last bar is a top or a bottom before the next one is there.
Unconfirmed(m) ==
  LET Higher(i) == m[i].high > m[i - 1].high /\ (i < Len(m) => m[i].high > m[i + 1].high)
      Lower(i) == m[i].low < m[i - 1].low /\ (i < Len(m) => m[i].low < m[i + 1].low)
      at == SelectSeq([i \in DOMAIN m |-> i], LAMBDA i : i > 1 /\ (Higher(i) \/ Lower(i)))
  IN [k \in DOMAIN at |->
       [index |-> at[k], top |-> Higher(at[k]), date |-> m[at[k]].date,
        price |-> IF Higher(at[k]) THEN m[at[k]].high ELSE m[at[k]].low]]

Turns(m) == {i \in Inner(m) : IsTop(m, i) \/ IsBottom(m, i)}

Fractals(m) == FoldAt(LAMBDA f, i : Append(f, FractalAt(m, i)), <<>>, Turns(m))

-----------------------------------------------------------------------------
\* find_daily_strokes: a stroke starts at a fractal, which moves to a more
\* extreme one of its kind, and ends at one of the other kind that is at least
\* four merged bars away.  The next one of its own kind closes it.
MinGap == 4

StrokeOf(f, walk) ==
  [up |-> ~f[walk.start].top, from |-> walk.start, to |-> walk.end,
   since |-> f[walk.start].date, until |-> f[walk.end].date,
   startPrice |-> f[walk.start].price, endPrice |-> f[walk.end].price]

CloseStroke(f, walk) ==
  [start |-> walk.end, end |-> 0, strokes |-> Append(walk.strokes, StrokeOf(f, walk))]

SeekEnd(f, walk, j) ==
  IF f[j].index - f[walk.start].index >= MinGap THEN [walk EXCEPT !.end = j] ELSE walk

\* Mutant: a start does not move on.
StaysPut(x, y) == FALSE

MoreExtreme(x, y) == IF y.top THEN x.price > y.price ELSE x.price < y.price

WalkFractal(f, walk, j) ==
  IF f[j].top # f[walk.start].top THEN SeekEnd(f, walk, j)
  ELSE IF walk.end # 0 THEN SeekEnd(f, CloseStroke(f, walk), j)
  ELSE IF MoreExtreme(f[j], f[walk.start]) THEN [walk EXCEPT !.start = j] ELSE walk

Strokes(f) ==
  LET walk == FoldAt(LAMBDA w, j : WalkFractal(f, w, j),
                     [start |-> 1, end |-> 0, strokes |-> <<>>], 2..Len(f))
  IN IF walk.end # 0 THEN CloseStroke(f, walk).strokes ELSE walk.strokes

-----------------------------------------------------------------------------
\* find_zhongshus: where two strokes in a row overlap is a zone, with a third
\* behind them; the first later stroke that ends outside breaks it.
Floor(s) == Min({s.startPrice, s.endPrice})
Ceiling(s) == Max({s.startPrice, s.endPrice})

ZoneOf(s, i) ==
  [zd |-> Max({Floor(s[i]), Floor(s[i + 1])}),
   zg |-> Min({Ceiling(s[i]), Ceiling(s[i + 1])}), first |-> i]

\* A zone takes both its strokes, so the next one starts behind them.
AddZone(s, zones, i) ==
  IF /\ i + 2 <= Len(s) /\ ZoneOf(s, i).zd < ZoneOf(s, i).zg
     /\ zones # <<>> => i >= Last(zones).first + 2
  THEN Append(zones, ZoneOf(s, i)) ELSE zones

Zones(s) == FoldAt(LAMBDA zones, i : AddZone(s, zones, i), <<>>, DOMAIN s)

Leaves(stroke, zone) ==
  IF stroke.up THEN stroke.endPrice > zone.zg ELSE stroke.endPrice < zone.zd

Breakers(s, zone) == {k \in zone.first + 2..Len(s) : Leaves(s[k], zone)}
\* Mutant: the last stroke that leaves a zone breaks it.
BrokenLast(s, zone) == IF Breakers(s, zone) = {} THEN 0 ELSE Max(Breakers(s, zone))

BrokenBy(s, zone) == IF Breakers(s, zone) = {} THEN 0 ELSE Min(Breakers(s, zone))

Zhongshus(s) ==
  [k \in DOMAIN Zones(s) |-> LET z == Zones(s)[k] IN
     [zd |-> z.zd, zg |-> z.zg, first |-> z.first, brokenBy |-> BrokenBy(s, z)]]

-----------------------------------------------------------------------------
\* detect_daily_divergence: a new extreme with less force than the last stroke
\* the same way.
Area(m, stroke) == FoldAt(LAMBDA area, i : area + m[i], 0, stroke.since..stroke.until)

SameWay(s, i) == {j \in 1..i - 1 : s[j].up = s[i].up}

Diverges(m, s, i) ==
  /\ SameWay(s, i) # {}
  /\ LET last == s[Max(SameWay(s, i))] IN
       /\ Area(m, s[i]) < Area(m, last)
       /\ IF s[i].up THEN s[i].endPrice > last.endPrice ELSE s[i].endPrice < last.endPrice

\* generate_daily_signals: at the end of a stroke that diverges, of the second
\* stroke behind one that does not pass its end, and of the second stroke
\* behind a zone, back from the side it was broken to.
SignalAt(s, i, type) ==
  [type |-> type, buy |-> ~s[i].up, price |-> s[i].endPrice, date |-> s[i].until]

FirstType(m, s) ==
  {SignalAt(s, i, 1) : i \in {j \in DOMAIN s : Diverges(m, s, j)}}

SecondType(m, s) ==
  {SignalAt(s, i + 2, 2) : i \in {j \in DOMAIN s :
     /\ Diverges(m, s, j) /\ j + 2 <= Len(s) /\ s[j + 2].up = s[j].up
     /\ IF s[j].up THEN s[j + 2].endPrice < s[j].endPrice
                   ELSE s[j + 2].endPrice > s[j].endPrice}}

Retracement(zone) == zone.first + 3

ThirdType(s) ==
  LET Stays(z) ==
        /\ z.brokenBy # 0 /\ Retracement(z) <= Len(s)
        /\ LET retro == s[Retracement(z)] IN
             /\ retro.up # s[z.brokenBy].up
             /\ IF retro.up THEN retro.endPrice < z.zd ELSE retro.endPrice > z.zg
  IN {SignalAt(s, Retracement(z), 3) : z \in {y \in ToSet(Zhongshus(s)) : Stays(y)}}

\* analyze_chanlun_daily.
Analysed(b, m) ==
  LET fractals == Fractals(MergedKlines(b))
      strokes == Strokes(fractals)
  IN [fractals |-> fractals, strokes |-> strokes, zones |-> Zhongshus(strokes),
      signals |-> FirstType(m, strokes) \cup SecondType(m, strokes) \cup ThirdType(strokes)]

-----------------------------------------------------------------------------
ChartInit == tape \in Tapes /\ bars = <<>> /\ macd = <<>> /\ chart = Analysed(<<>>, <<>>)

\* What filter_valid_bars lets through.
ChartBar == {b \in [high : Nat, low : Nat] : b.high >= b.low}

\* calc_daily_macd: the seeds are there, and further bars leave |MACD| alone.
Seeded == Len(bars) >= Seeds

\* A day later, or some: the series is longer, and analysed anew.
SeriesGrows ==
  \E b \in Arrivals(tape, bars) : \E m \in Macds(tape, bars \o b) :
    /\ b \in Seq(ChartBar) /\ m \in Seq(Nat) /\ Len(m) = Len(bars \o b)
    /\ Seeded => IsPrefix(macd, m)
    /\ bars' = bars \o b /\ macd' = m /\ chart' = Analysed(bars', macd')
    /\ UNCHANGED tape

ChartSpec == ChartInit /\ [][SeriesGrows]_chartVars

-----------------------------------------------------------------------------
\* What analyze_chanlun_daily returns refers to what it returns: strokes to
\* tops and bottoms, zones to strokes.
ChartTypeOK ==
  /\ tape \in Tapes /\ DOMAIN chart.fractals \subseteq 1..Len(bars)
  /\ \A s \in ToSet(chart.strokes) : {s.from, s.to} \subseteq DOMAIN chart.fractals
  /\ \A z \in ToSet(chart.zones) :
       {z.first, z.first + 1} \cup ({z.brokenBy} \ {0}) \subseteq DOMAIN chart.strokes

\* Tops and bottoms alternate; strokes too, follow one another, and go the way
\* they say, from the farthest fractal of its kind since the last stroke ended.
StrokesAreSound ==
  LET f == chart.fractals
      s == chart.strokes
      Since(k) == IF k = 1 THEN 1 ELSE s[k - 1].to
  IN /\ \A k \in DOMAIN f : k > 1 => f[k].top # f[k - 1].top
     /\ \A k \in DOMAIN s :
          /\ s[k].up = (s[k].endPrice > s[k].startPrice)
          /\ Since(k) <= s[k].from /\ f[s[k].to].index - f[s[k].from].index >= MinGap
          /\ k > 1 => s[k].up # s[k - 1].up
          /\ \A j \in Since(k)..s[k].to :
               IF s[k].up THEN f[j].price >= s[k].startPrice ELSE f[j].price <= s[k].startPrice

\* Zones do not share strokes, and nothing between a zone and the stroke that
\* breaks it ended outside.
ZonesAreSound ==
  LET z == chart.zones IN
  \A k \in DOMAIN z :
    /\ z[k].zd < z[k].zg
    /\ k > 1 => z[k].first > z[k - 1].first + 1
    /\ LET end == IF z[k].brokenBy = 0 THEN Len(chart.strokes) ELSE z[k].brokenBy - 1 IN
         \A j \in z[k].first + 2..end : ~Leaves(chart.strokes[j], z[k])

\* Chan theory's chart is sound: strokes and zones are, and one buys where a
\* stroke down ends and sells where one up does, never both at a time
\* (find_daily_strokes, find_zhongshus, generate_daily_signals).
ChartIsSound ==
  /\ StrokesAreSound /\ ZonesAreSound
  /\ \A g \in chart.signals :
       \E s \in ToSet(chart.strokes) :
         s.until = g.date /\ s.endPrice = g.price /\ s.up # g.buy

\* The chart is not repainted: what was drawn over a series stays when the series
\* grows, but that a zone may be broken, once.  Signals of the third type, which
\* rest on strokes and zones alone, stay over any series; those of the first and
\* the second, which rest on |MACD|, once the series has the bars of the seeds
\* (calc_daily_macd).  A signal of divergence from fewer bars may vanish.
\* Nothing but the order in which daily.rs waits for the next bar, the next
\* stroke and the third stroke makes it so: every request computes the whole
\* chart anew.
NothingRepainted ==
  [][/\ IsPrefix(chart.fractals, chart'.fractals)
     /\ IsPrefix(chart.strokes, chart'.strokes)
     /\ Len(chart.zones) <= Len(chart'.zones)
     /\ \A k \in DOMAIN chart.zones :
          \/ chart'.zones[k] = chart.zones[k]
          \/ chart.zones[k] = [chart'.zones[k] EXCEPT !.brokenBy = 0]
     /\ {g \in chart.signals : g.type = 3 \/ Seeded} \subseteq chart'.signals]_chartVars

=============================================================================
