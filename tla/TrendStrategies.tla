--------------------------- MODULE TrendStrategies ---------------------------
(*************************************************************************)
(* The named strategies that follow a trend and those that trade momentum. *)
(*************************************************************************)
EXTENDS StrategyKit

(***************************************************************************)
(* named/trend: each strategy as the Rust value (XNew, X) and as the Rhai  *)
(* script it publishes as its equivalent (XScript).  Where a value is only *)
(* compared with one threshold its classes are 0 (below), 1 (equal) and    *)
(* 2 (above).                                                              *)
(***************************************************************************)

Triple == 0..2

AdxEmaCrossNew ==
    New([fast |-> In(1, Triple, 2), slow |-> In(5, Triple, 2), adx |-> In(3, Triple, 1)],
        Unset, Unset)
AdxEmaCross(st, r) ==
    IF ~Warm({r.fast, r.slow, r.adx}) THEN Stay(st)
    ELSE PairCross(st, r.fast, r.slow, r.adx > 1)
AdxEmaCrossScript(sc, h) ==
    Script(sc, Cross_above(h.fast, h.slow) /\ h.adx[1] > 1, Cross_below(h.fast, h.slow))

AlmaCrossNew == New([fast |-> In(1, Triple, 2), slow |-> In(3, Triple, 2)], Unset, Unset)
AlmaCross(st, r) ==
    IF ~Warm({r.fast, r.slow}) THEN Stay(st) ELSE PairCross(st, r.fast, r.slow, TRUE)
AlmaCrossScript(sc, h) ==
    Script(sc, Cross_above(h.fast, h.slow), Cross_below(h.fast, h.slow))

\* Two classes on each side of both thresholds (30 is 2, 70 is 5), so that
\* up and down can be ordered either way inside one zone.
AroonTrendNew == New([up |-> In(1, 0..7, 1), down |-> In(1, 0..7, 1)], Unset, Unset)
AroonTrend(st, r) ==
    IF ~Warm({r.up, r.down}) THEN Stay(st)
    ELSE Decide(st, r.up > 5 /\ r.down < 2, r.up < r.down)
AroonTrendScript(sc, h) ==
    Script(sc, h.up[1] > 5 /\ h.down[1] < 2, h.up[1] < h.down[1])

DemaCrossoverNew == New([fast |-> In(1, Triple, 2), slow |-> In(3, Triple, 2)], Unset, Unset)
DemaCrossover(st, r) ==
    IF ~Warm({r.fast, r.slow}) THEN Stay(st) ELSE PairCross(st, r.fast, r.slow, TRUE)
DemaCrossoverScript(sc, h) ==
    Script(sc, Cross_above(h.fast, h.slow), Cross_below(h.fast, h.slow))

\* The Rust value reads +DI and -DI from the ADX indicator, so only once ADX
\* is warm; the script reads them from the DMI indicator, warm long before.
DmiAdxNew ==
    New([plus |-> In(1, Triple, 2), minus |-> In(1, Triple, 2), adx |-> In(3, Triple, 2)],
        Unset, Unset)
DmiAdx(st, r) ==
    IF ~Warm({r.adx}) THEN Stay(st) ELSE PairCross(st, r.plus, r.minus, r.adx > 1)
DmiAdxScript(sc, h) ==
    Script(sc, Cross_above(h.plus, h.minus) /\ h.adx[1] > 1, Cross_below(h.plus, h.minus))

\* spread is the class of mean(short) - mean(long): above 1 is short over long.
GmmaCrossoverNew == New([spread |-> In(1, Triple, 2)], Unset, Unset)
GmmaCrossover(st, r) ==
    IF ~Warm({r.spread}) THEN Stay(st) ELSE Edge(st, r.spread > 1)
GmmaCrossoverScript(sc, h) ==
    Script(sc, ~(h.spread[2] > 1) /\ h.spread[1] > 1, h.spread[2] > 1 /\ ~(h.spread[1] > 1))

HmaCrossoverNew == New([fast |-> In(1, Triple, 2), slow |-> In(3, Triple, 2)], Unset, Unset)
HmaCrossover(st, r) ==
    IF ~Warm({r.fast, r.slow}) THEN Stay(st) ELSE PairCross(st, r.fast, r.slow, TRUE)
HmaCrossoverScript(sc, h) ==
    Script(sc, Cross_above(h.fast, h.slow), Cross_below(h.fast, h.slow))

\* cloud is where the close lies: 0 below the cloud, 1 inside, 2 above.
IchimokuCloudNew == New([cloud |-> In(1, Triple, 1)], Unset, Unset)
IchimokuCloud(st, r) ==
    IF ~Warm({r.cloud}) THEN Stay(st) ELSE Decide(st, r.cloud = 2, r.cloud = 0)
IchimokuCloudScript(sc, h) == Script(sc, h.cloud[1] = 2, h.cloud[1] = 0)

IchimokuCrossNew ==
    New([tenkan |-> In(1, Triple, 2), kijun |-> In(1, Triple, 2), cloud |-> In(1, Triple, 2)],
        Unset, Unset)
IchimokuCross(st, r) ==
    IF ~Warm({r.tenkan, r.kijun}) THEN Stay(st)
    ELSE PairCross(st, r.tenkan, r.kijun, r.cloud = 2)
IchimokuCrossScript(sc, h) ==
    Script(sc, Cross_above(h.tenkan, h.kijun) /\ h.cloud[1] = 2, Cross_below(h.tenkan, h.kijun))

\* gap is the class of close - kama.
KamaStrategyNew == New([gap |-> In(1, Triple, 2)], Unset, Unset)
KamaStrategy(st, r) == IF ~Warm({r.gap}) THEN Stay(st) ELSE Edge(st, r.gap > 1)
KamaStrategyScript(sc, h) ==
    Script(sc, ~(h.gap[2] > 1) /\ h.gap[1] > 1, h.gap[2] > 1 /\ ~(h.gap[1] > 1))

LsmaCrossNew == New([fast |-> In(1, Triple, 2), slow |-> In(3, Triple, 2)], Unset, Unset)
LsmaCross(st, r) ==
    IF ~Warm({r.fast, r.slow}) THEN Stay(st) ELSE PairCross(st, r.fast, r.slow, TRUE)
LsmaCrossScript(sc, h) ==
    Script(sc, Cross_above(h.fast, h.slow), Cross_below(h.fast, h.slow))

MaCrossoverNew == New([fast |-> In(1, Triple, 2), slow |-> In(3, Triple, 2)], Unset, Unset)
MaCrossover(st, r) ==
    IF ~Warm({r.fast, r.slow}) THEN Stay(st) ELSE PairCross(st, r.fast, r.slow, TRUE)
MaCrossoverScript(sc, h) ==
    Script(sc, Cross_above(h.fast, h.slow), Cross_below(h.fast, h.slow))

\* zone: 0 the close is under the average, 1 on or above it and within
\* proximity_pct, 2 further above.
MaPullbackNew ==
    New([zone |-> In(1, Triple, 1)],
        [in_position |-> FALSE, near_ma |-> FALSE], [in_position |-> FALSE, near_ma |-> FALSE])
MaPullback(st, r) ==
    CASE ~Warm({r.zone}) -> Stay(st)
      [] Warm({r.zone}) /\ r.zone = 0 ->
            Decide([in_position |-> FALSE, near_ma |-> FALSE], FALSE, st.in_position)
      [] r.zone > 0 /\ st.in_position -> Stay(st)
      [] r.zone = 1 /\ ~st.in_position -> Stay([st EXCEPT !.near_ma = TRUE])
      [] r.zone = 2 /\ ~st.in_position ->
            Decide([in_position |-> st.near_ma, near_ma |-> FALSE], st.near_ma, FALSE)
MaPullbackScript(sc, h) ==
    LET zone == h.zone[1]
        pulled == zone = 2 /\ sc.near_ma IN
    IF sc.in_position
    THEN Script(IF zone = 0 THEN [in_position |-> FALSE, near_ma |-> FALSE] ELSE sc,
                FALSE, zone = 0)
    ELSE Script([in_position |-> pulled, near_ma |-> zone = 1 \/ (zone = 2 /\ sc.near_ma /\ ~pulled)],
                pulled, FALSE)

\* Real bar numbers, because the script counts ATR samples by hand: atr is
\* only present or not, grow is whether ATR exceeds its 20-sample EMA.  The
\* Rust value feeds that EMA every ATR reading; the script starts counting
\* on its first run, from the seven older values in its buffer.
ScalpingEmaNew ==
    New([fast |-> In(8, {0, 2}, 2), slow |-> In(21, {1}, 2),
         atr |-> In(14, {0}, 8), grow |-> In(14, {0, 1}, 1)],
        [prev |-> Unset, samples |-> 0], [samples |-> None])
ScalpingEma(st, r) ==
    LET n == IF Warm({r.atr}) THEN IF st.samples < 20 THEN st.samples + 1 ELSE 20 ELSE 0
        pair == IF Warm({r.fast, r.slow}) THEN <<r.fast, r.slow>> ELSE Unset
        c == PairCross(st.prev, r.fast, r.slow, r.grow = 1) IN
    IF n < 20 \/ pair = Unset THEN Stay([prev |-> pair, samples |-> n])
    ELSE Emit([prev |-> c.st, samples |-> n], c.sig)
ScalpingEmaScript(sc, h) ==
    LET seeded == IF sc.samples = None THEN 7 ELSE sc.samples
        n == IF seeded < 20 THEN seeded + 1 ELSE 20 IN
    Script([samples |-> n], n = 20 /\ Cross_above(h.fast, h.slow) /\ h.grow[1] = 1,
           n = 20 /\ Cross_below(h.fast, h.slow))

TemaCrossoverNew == New([fast |-> In(1, Triple, 2), slow |-> In(3, Triple, 2)], Unset, Unset)
TemaCrossover(st, r) ==
    IF ~Warm({r.fast, r.slow}) THEN Stay(st) ELSE Edge(st, r.fast > r.slow)
TemaCrossoverScript(sc, h) ==
    Script(sc, Cross_above(h.fast, h.slow),
           h.fast[2] > h.slow[2] /\ h.fast[1] <= h.slow[1])

\* histogram is the class of the MACD histogram against zero.
TrendFollowerNew ==
    New([fast |-> In(3, Triple, 1), slow |-> In(5, Triple, 1), histogram |-> In(1, Triple, 1)],
        [in_position |-> FALSE], [in_position |-> FALSE])
TrendFollower(st, r) ==
    LET long == ~st.in_position /\ r.fast > r.slow /\ r.histogram > 1
        exit == st.in_position /\ (r.fast < r.slow \/ r.histogram < 1) IN
    IF ~Warm({r.fast, r.slow, r.histogram}) THEN Stay(st)
    ELSE Decide([in_position |-> long \/ (st.in_position /\ ~exit)], long, exit)
TrendFollowerScript(sc, h) ==
    LET entry == ~sc.in_position /\ h.fast[1] > h.slow[1] /\ h.histogram[1] > 1
        exit == sc.in_position /\ (h.fast[1] < h.slow[1] \/ h.histogram[1] < 1) IN
    Script([in_position |-> (sc.in_position \/ entry) /\ ~exit], entry, exit)

TrendTransitionNew ==
    New([fast |-> In(3, Triple, 2), slow |-> In(5, Triple, 2), adx |-> In(1, Triple, 1)],
        Unset, Unset)
TrendTransition(st, r) ==
    IF ~Warm({r.fast, r.slow, r.adx}) THEN Stay(st)
    ELSE PairCross(st, r.fast, r.slow, r.adx > 1)
TrendTransitionScript(sc, h) ==
    Script(sc, Cross_above(h.fast, h.slow) /\ h.adx[1] > 1, Cross_below(h.fast, h.slow))

TripleEmaNew ==
    New([e1 |-> In(1, Triple, 2), e2 |-> In(3, Triple, 2), e3 |-> In(5, Triple, 2)],
        Unset, Unset)
TripleEma(st, r) ==
    IF ~Warm({r.e1, r.e2, r.e3}) THEN Stay(st) ELSE Edge(st, r.e1 > r.e2 /\ r.e2 > r.e3)
TripleEmaScript(sc, h) ==
    LET bull(i) == h.e1[i] > h.e2[i] /\ h.e2[i] > h.e3[i] IN
    Script(sc, ~bull(2) /\ bull(1), bull(2) /\ ~bull(1))

VortexTrendNew == New([plus |-> In(1, Triple, 2), minus |-> In(1, Triple, 2)], Unset, Unset)
VortexTrend(st, r) ==
    IF ~Warm({r.plus, r.minus}) THEN Stay(st) ELSE PairCross(st, r.plus, r.minus, TRUE)
VortexTrendScript(sc, h) ==
    Script(sc, Cross_above(h.plus, h.minus), Cross_below(h.plus, h.minus))

-----------------------------------------------------------------------------
(***************************************************************************)
(* named/momentum: each strategy as the Rust value (XNew, X) and as the    *)
(* Rhai script it publishes (XScript).  A value compared with zero has the *)
(* classes 0, 1 (equal), 2; one compared with two levels has 0..4, the     *)
(* levels being 1 and 3.                                                   *)
(***************************************************************************)

Sign == 0..2
Zone == 0..4

\* The zero-line cross shared by ao, macd, ppo, roc and trix.
ZeroCross(prev, v) ==
    IF prev = Unset THEN Stay(<<v>>)
    ELSE Decide(<<v>>, CrossedAbove(prev[1], 1, v, 1), CrossedBelow(prev[1], 1, v, 1))
ZeroCrossScript(sc, x) ==
    Script(sc, x[2] <= 1 /\ x[1] > 1, x[2] >= 1 /\ x[1] < 1)

AoStrategyNew == New([ao |-> In(1, Sign, 2)], Unset, Unset)
AoStrategy(st, r) == IF ~Warm({r.ao}) THEN Stay(st) ELSE ZeroCross(st, r.ao)
AoStrategyScript(sc, h) == ZeroCrossScript(sc, h.ao)

CciReversalNew == New([cci |-> In(1, Zone, 2)], Unset, Unset)
CciReversal(st, r) ==
    IF ~Warm({r.cci}) THEN Stay(st)
    ELSE IF st = Unset THEN Stay(<<r.cci>>)
    ELSE Decide(<<r.cci>>, st[1] <= 1 /\ r.cci > 1, st[1] <= 3 /\ r.cci > 3)
CciReversalScript(sc, h) ==
    Script(sc, h.cci[2] <= 1 /\ h.cci[1] > 1, h.cci[2] <= 3 /\ h.cci[1] > 3)

\* close is the class of the close against the EMA.
CmoZeroCrossNew == New([cmo |-> In(1, Sign, 2), close |-> In(3, Sign, 1)], Unset, Unset)
CmoZeroCross(st, r) ==
    IF ~Warm({r.cmo}) THEN Stay(st)
    ELSE IF r.close = None \/ st = Unset THEN Stay(<<r.cmo>>)
    ELSE Decide(<<r.cmo>>, CrossedAbove(st[1], 1, r.cmo, 1) /\ r.close > 1,
                CrossedBelow(st[1], 1, r.cmo, 1) \/ r.close < 1)
CmoZeroCrossScript(sc, h) ==
    Script(sc, h.cmo[2] <= 1 /\ h.cmo[1] > 1 /\ h.close[1] > 1,
           (h.cmo[2] >= 1 /\ h.cmo[1] < 1) \/ h.close[1] < 1)

ConnorsRsiStrategyNew == New([crsi |-> In(1, Zone, 1)], Unset, Unset)
ConnorsRsiStrategy(st, r) ==
    IF ~Warm({r.crsi}) THEN Stay(st) ELSE Decide(st, r.crsi < 1, r.crsi > 3)
ConnorsRsiStrategyScript(sc, h) == Script(sc, h.crsi[1] < 1, h.crsi[1] > 3)

DualMomentumNew == New([fast |-> In(1, Sign, 1), slow |-> In(3, Sign, 1)], Unset, Unset)
DualMomentum(st, r) ==
    IF ~Warm({r.fast, r.slow}) THEN Stay(st)
    ELSE Decide(st, r.fast > 1 /\ r.slow > 1, r.fast < 1 \/ r.slow < 1)
DualMomentumScript(sc, h) ==
    Script(sc, h.fast[1] > 1 /\ h.slow[1] > 1, h.fast[1] < 1 \/ h.slow[1] < 1)

FisherCrossoverNew == New([fisher |-> In(1, Sign, 2), signal |-> In(1, Sign, 2)], Unset, Unset)
FisherCrossover(st, r) ==
    IF ~Warm({r.fisher}) THEN Stay(st) ELSE PairCross(st, r.fisher, r.signal, TRUE)
FisherCrossoverScript(sc, h) ==
    Script(sc, h.fisher[2] <= h.signal[2] /\ h.fisher[1] > h.signal[1],
           h.fisher[2] >= h.signal[2] /\ h.fisher[1] < h.signal[1])

\* k has two classes below the oversold level 2, so that it can rise there;
\* d and j are only compared with one level each.
KdjStrategyNew ==
    New([k |-> In(1, 0..5, 2), d |-> In(1, Sign, 1), j |-> In(1, Sign, 1)],
        [prev_k |-> Unset, in_position |-> FALSE], [in_position |-> FALSE])
KdjStrategy(st, r) ==
    LET long == ~st.in_position /\ st.prev_k # Unset
                /\ r.k < 2 /\ r.d < 1 /\ r.k > st.prev_k[1]
        exit == st.in_position /\ (r.k > 4 \/ r.j > 1) IN
    IF ~Warm({r.k}) THEN Stay(st)
    ELSE Decide([prev_k |-> <<r.k>>, in_position |-> long \/ (st.in_position /\ ~exit)],
                long, exit)
KdjStrategyScript(sc, h) ==
    LET entry == ~sc.in_position /\ h.k[1] < 2 /\ h.d[1] < 1 /\ h.k[1] > h.k[2]
        exit == sc.in_position /\ (h.k[1] > 4 \/ h.j[1] > 1) IN
    Script([in_position |-> entry \/ (sc.in_position /\ ~exit)], entry, exit)

MacdCrossoverNew == New([histogram |-> In(1, Sign, 2)], Unset, Unset)
MacdCrossover(st, r) == IF ~Warm({r.histogram}) THEN Stay(st) ELSE ZeroCross(st, r.histogram)
MacdCrossoverScript(sc, h) == ZeroCrossScript(sc, h.histogram)

MacdMaNew ==
    New([histogram |-> In(1, Sign, 1), close |-> In(3, Sign, 1)],
        [in_position |-> FALSE], [in_position |-> FALSE])
MacdMa(st, r) ==
    LET long == ~st.in_position /\ r.histogram > 1 /\ r.close > 1
        exit == st.in_position /\ r.histogram < 1 IN
    IF ~Warm({r.histogram, r.close}) THEN Stay(st)
    ELSE Decide([in_position |-> long \/ (st.in_position /\ ~exit)], long, exit)
MacdMaScript(sc, h) ==
    LET entry == ~sc.in_position /\ h.histogram[1] > 1 /\ h.close[1] > 1
        exit == sc.in_position /\ h.histogram[1] < 1 IN
    Script([in_position |-> (sc.in_position \/ entry) /\ ~exit], entry, exit)

\* The Rust value exits unless the close is above the EMA, the script only
\* when it is below: a close equal to the EMA tells them apart.
MomentumRocNew == New([roc |-> In(1, Zone, 1), close |-> In(3, Sign, 1)], Unset, Unset)
MomentumRoc(st, r) ==
    LET above_trend == r.close > 1 IN
    IF ~Warm({r.roc, r.close}) THEN Stay(st)
    ELSE Decide(st, r.roc > 3 /\ above_trend, r.roc < 1 \/ ~above_trend)
MomentumRocScript(sc, h) ==
    Script(sc, h.roc[1] > 3 /\ h.close[1] > 1, h.roc[1] < 1 \/ h.close[1] < 1)

PpoHistogramNew == New([histogram |-> In(1, Sign, 2)], Unset, Unset)
PpoHistogram(st, r) == IF ~Warm({r.histogram}) THEN Stay(st) ELSE ZeroCross(st, r.histogram)
PpoHistogramScript(sc, h) == ZeroCrossScript(sc, h.histogram)

RocCrossoverNew == New([roc |-> In(1, Sign, 2)], Unset, Unset)
RocCrossover(st, r) == IF ~Warm({r.roc}) THEN Stay(st) ELSE ZeroCross(st, r.roc)
RocCrossoverScript(sc, h) == ZeroCrossScript(sc, h.roc)

RsiMaCrossNew ==
    New([fast |-> In(3, Sign, 2), slow |-> In(5, Sign, 2), rsi |-> In(1, Zone, 1)], Unset, Unset)
RsiMaCross(st, r) ==
    IF ~Warm({r.fast, r.slow, r.rsi}) THEN Stay(st)
    ELSE IF st = Unset THEN Stay(<<r.fast, r.slow>>)
    ELSE Decide(<<r.fast, r.slow>>, CrossedAbove(st[1], st[2], r.fast, r.slow) /\ r.rsi > 3,
                CrossedBelow(st[1], st[2], r.fast, r.slow) \/ r.rsi < 1)
RsiMaCrossScript(sc, h) ==
    Script(sc, Cross_above(h.fast, h.slow) /\ h.rsi[1] > 3,
           Cross_below(h.fast, h.slow) \/ h.rsi[1] < 1)

RsiMeanRevNew == New([rsi |-> In(1, Zone, 1)], Unset, Unset)
RsiMeanRev(st, r) == IF ~Warm({r.rsi}) THEN Stay(st) ELSE Decide(st, r.rsi < 1, r.rsi > 3)
RsiMeanRevScript(sc, h) == Script(sc, h.rsi[1] < 1, h.rsi[1] > 3)

SmiReversalNew == New([smi |-> In(1, Zone, 2), signal |-> In(1, Zone, 2)], Unset, Unset)
SmiReversal(st, r) ==
    IF ~Warm({r.smi}) THEN Stay(st)
    ELSE IF st = Unset THEN Stay(<<r.smi, r.signal>>)
    ELSE Decide(<<r.smi, r.signal>>,
                CrossedAbove(st[1], st[2], r.smi, r.signal) /\ st[1] < 1,
                r.smi > 3 \/ CrossedBelow(st[1], st[2], r.smi, r.signal))
SmiReversalScript(sc, h) ==
    Script(sc, h.smi[2] <= h.signal[2] /\ h.smi[1] > h.signal[1] /\ h.smi[2] < 1,
           h.smi[1] > 3 \/ (h.smi[2] >= h.signal[2] /\ h.smi[1] < h.signal[1]))

StochRsiStrategyNew == New([k |-> In(1, Zone, 2)], Unset, Unset)
StochRsiStrategy(st, r) ==
    IF ~Warm({r.k}) THEN Stay(st)
    ELSE IF st = Unset THEN Stay(<<r.k>>)
    ELSE Decide(<<r.k>>, st[1] >= 1 /\ r.k < 1, st[1] <= 3 /\ r.k > 3)
StochRsiStrategyScript(sc, h) ==
    Script(sc, h.k[2] >= 1 /\ h.k[1] < 1, h.k[2] <= 3 /\ h.k[1] > 3)

StochasticCrossoverNew == New([k |-> In(1, Zone, 2), d |-> In(1, Zone, 2)], Unset, Unset)
StochasticCrossover(st, r) ==
    IF ~Warm({r.k}) THEN Stay(st)
    ELSE IF st = Unset THEN Stay(<<r.k, r.d>>)
    ELSE Decide(<<r.k, r.d>>, CrossedAbove(st[1], st[2], r.k, r.d) /\ r.d < 1,
                CrossedBelow(st[1], st[2], r.k, r.d) /\ r.d > 3)
StochasticCrossoverScript(sc, h) ==
    Script(sc, h.k[2] <= h.d[2] /\ h.k[1] > h.d[1] /\ h.d[1] < 1,
           h.k[2] >= h.d[2] /\ h.k[1] < h.d[1] /\ h.d[1] > 3)

StochasticDkNew == New([k |-> In(1, Sign, 2), d |-> In(1, Sign, 2)], Unset, Unset)
StochasticDk(st, r) == IF ~Warm({r.k}) THEN Stay(st) ELSE PairCross(st, r.k, r.d, TRUE)
StochasticDkScript(sc, h) ==
    Script(sc, h.k[2] <= h.d[2] /\ h.k[1] > h.d[1], h.k[2] >= h.d[2] /\ h.k[1] < h.d[1])

TrixStrategyNew == New([histogram |-> In(1, Sign, 2)], Unset, Unset)
TrixStrategy(st, r) == IF ~Warm({r.histogram}) THEN Stay(st) ELSE ZeroCross(st, r.histogram)
TrixStrategyScript(sc, h) == ZeroCrossScript(sc, h.histogram)

TsiStrategyNew == New([tsi |-> In(1, Zone, 2)], Unset, Unset)
TsiStrategy(st, r) ==
    IF ~Warm({r.tsi}) THEN Stay(st)
    ELSE IF st = Unset THEN Stay(<<r.tsi>>)
    ELSE Decide(<<r.tsi>>, st[1] < 1 /\ r.tsi >= 1, st[1] >= 3 /\ r.tsi < 3)
TsiStrategyScript(sc, h) ==
    Script(sc, h.tsi[2] < 1 /\ h.tsi[1] >= 1, h.tsi[2] >= 3 /\ h.tsi[1] < 3)

UoReversalNew == New([uo |-> In(1, Zone, 2)], Unset, Unset)
UoReversal(st, r) ==
    IF ~Warm({r.uo}) THEN Stay(st)
    ELSE IF st = Unset THEN Stay(<<r.uo>>)
    ELSE Decide(<<r.uo>>, st[1] <= 1 /\ r.uo > 1, r.uo > 3)
UoReversalScript(sc, h) == Script(sc, h.uo[2] <= 1 /\ h.uo[1] > 1, h.uo[1] > 3)

\* prev_wr is only remembered once the EMA is warm too; the script's buffer
\* of %R fills while the EMA is still warming up.
WilliamsRMaNew == New([wr |-> In(1, Zone, 2), close |-> In(3, Sign, 1)], Unset, Unset)
WilliamsRMa(st, r) ==
    IF ~Warm({r.wr, r.close}) THEN Stay(st)
    ELSE IF st = Unset THEN Stay(<<r.wr>>)
    ELSE Decide(<<r.wr>>, st[1] <= 1 /\ r.wr > 1 /\ r.close > 1, st[1] >= 3 /\ r.wr < 3)
WilliamsRMaScript(sc, h) ==
    Script(sc, h.wr[2] <= 1 /\ h.wr[1] > 1 /\ h.close[1] > 1, h.wr[2] >= 3 /\ h.wr[1] < 3)
=============================================================================
