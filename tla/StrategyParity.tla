--------------------------- MODULE StrategyParity ---------------------------
(***************************************************************************)
(* Every named strategy exists twice: as a Rust value and as the Rhai      *)
(* script it publishes through script().  Both are fed the same bars, from *)
(* the first one on, with reset() between two runs of a batch; out holds   *)
(* what each of them signalled on the last bar.                            *)
(***************************************************************************)
EXTENDS TrendStrategies, RangeStrategies, MtfStrategies, TLC

CONSTANTS Strategies  \* the strategies under test, by name

VARIABLES strat,   \* the strategy under test
          age,     \* bars fed since new() or reset(), up to its maturity
          hist,    \* the script's bindings: field -> buffer, newest first
          native,  \* the fields of the Rust value
          script,  \* the script's persistent state
          out      \* the signals of the last bar

vars == <<strat, age, hist, native, script, out>>

TrendCatalog ==
    [AdxEmaCross |-> AdxEmaCrossNew, AlmaCross |-> AlmaCrossNew,
     AroonTrend |-> AroonTrendNew, DemaCrossover |-> DemaCrossoverNew,
     DmiAdx |-> DmiAdxNew, GmmaCrossover |-> GmmaCrossoverNew,
     HmaCrossover |-> HmaCrossoverNew, IchimokuCloud |-> IchimokuCloudNew,
     IchimokuCross |-> IchimokuCrossNew, KamaStrategy |-> KamaStrategyNew,
     LsmaCross |-> LsmaCrossNew, MaCrossover |-> MaCrossoverNew,
     MaPullback |-> MaPullbackNew, ScalpingEma |-> ScalpingEmaNew,
     TemaCrossover |-> TemaCrossoverNew, TrendFollower |-> TrendFollowerNew,
     TrendTransition |-> TrendTransitionNew, TripleEma |-> TripleEmaNew,
     VortexTrend |-> VortexTrendNew]
MomentumCatalog ==
    [AoStrategy |-> AoStrategyNew, CciReversal |-> CciReversalNew,
     CmoZeroCross |-> CmoZeroCrossNew, ConnorsRsiStrategy |-> ConnorsRsiStrategyNew,
     DualMomentum |-> DualMomentumNew, FisherCrossover |-> FisherCrossoverNew,
     KdjStrategy |-> KdjStrategyNew, MacdCrossover |-> MacdCrossoverNew,
     MacdMa |-> MacdMaNew, MomentumRoc |-> MomentumRocNew,
     PpoHistogram |-> PpoHistogramNew, RocCrossover |-> RocCrossoverNew,
     RsiMaCross |-> RsiMaCrossNew, RsiMeanRev |-> RsiMeanRevNew,
     SmiReversal |-> SmiReversalNew, StochRsiStrategy |-> StochRsiStrategyNew,
     StochasticCrossover |-> StochasticCrossoverNew, StochasticDk |-> StochasticDkNew,
     TrixStrategy |-> TrixStrategyNew, TsiStrategy |-> TsiStrategyNew,
     UoReversal |-> UoReversalNew, WilliamsRMa |-> WilliamsRMaNew]
VolatilityCatalog ==
    [AtrTrailingStop |-> AtrTrailingStopNew, BbKeltnerSqueeze |-> BbKeltnerSqueezeNew,
     BbRsiReversal |-> BbRsiReversalNew, BbSqueeze |-> BbSqueezeNew,
     BollingerMacd |-> BollingerMacdNew, ChandelierExit |-> ChandelierExitNew,
     DonchianBreakout |-> DonchianBreakoutNew, HighestBreakout |-> HighestBreakoutNew,
     KeltnerBreakout |-> KeltnerBreakoutNew, RangeRover |-> RangeRoverNew,
     VolatilityRatioBreakout |-> VolatilityRatioBreakoutNew, VolatilitySqueezer |-> VolatilitySqueezerNew,
     VolatilityVanguard |-> VolatilityVanguardNew]
VolumeCatalog ==
    [CmfEmaTrend |-> CmfEmaTrendNew, MfiRevert |-> MfiRevertNew,
     MfiTrend |-> MfiTrendNew, ObvEmaTrend |-> ObvEmaTrendNew,
     VwapBounce |-> VwapBounceNew, VwapTrend |-> VwapTrendNew,
     VwmaRsi |-> VwmaRsiNew, WaddahAttar |-> WaddahAttarNew]
PatternCatalog ==
    [AlligatorStrategy |-> AlligatorStrategyNew, ElderRayStrategy |-> ElderRayStrategyNew,
     HaBreakout |-> HaBreakoutNew, HaColor |-> HaColorNew,
     HaHarmonizer |-> HaHarmonizerNew, RwiStrategy |-> RwiStrategyNew,
     SarStrategy |-> SarStrategyNew, SupertrendMacd |-> SupertrendMacdNew,
     SupertrendStrategy |-> SupertrendStrategyNew]
CompositeCatalog ==
    [ChopFilterStrategy |-> ChopFilterStrategyNew, EquilibriumExplorer |-> EquilibriumExplorerNew,
     MeanReversion |-> MeanReversionNew, OscillatorOverlord |-> OscillatorOverlordNew,
     Pixel3 |-> Pixel3New, ReversalCatcher |-> ReversalCatcherNew,
     SwingTrader |-> SwingTraderNew, Wolfstein |-> WolfsteinNew]

Catalog == TrendCatalog @@ MomentumCatalog @@ VolatilityCatalog @@
           VolumeCatalog @@ PatternCatalog @@ CompositeCatalog

Untranslated == {"OrbBreakout", "PriceActionSwing", "PatternBreakoutStrategy"}

\* The bar by which every indicator of a strategy has warmed up.
Maturity(inputs) == Max({inputs[f].from : f \in DOMAIN inputs})

\* The readings the a-th bar may bring: a field yields from its own bar on.
ReadingsOf(inputs, a) ==
    LET Classes(f) == IF a < inputs[f].from THEN {None} ELSE inputs[f].classes IN
    {r \in [DOMAIN inputs -> None..Max(UNION {Classes(f) : f \in DOMAIN inputs})] :
        \A f \in DOMAIN inputs : r[f] \in Classes(f)}

Empty(s) == [f \in DOMAIN Catalog[s].inputs |-> <<>>]

Fresh(s) ==
    /\ age = 0
    /\ hist = IF s \in Untranslated THEN <<>> ELSE Empty(s)
    /\ native = CASE s = "OrbBreakout" -> OrbBreakoutNew
                  [] s = "PriceActionSwing" -> PriceActionSwingNew
                  [] s = "PatternBreakoutStrategy" -> PatternBreakoutStrategyNew
                  [] OTHER -> Catalog[s].native
    /\ script = IF s \in Untranslated THEN Unset ELSE Catalog[s].script
    /\ out = [native |-> "none", script |-> "none"]

Init == strat \in Strategies /\ Fresh(strat)

\* The script runs only on a bar on which every binding holds as many values
\* as the script declares.
Ready(inputs, h) == \A f \in DOMAIN h : Len(h[f]) >= inputs[f].buf

\* One bar, fed to the Rust value and to the script.
OnBar(s, inputs, Native(_, _), Run(_, _)) ==
    /\ strat = s
    /\ age' = IF age < Maturity(inputs) THEN age + 1 ELSE age
    /\ \E r \in ReadingsOf(inputs, age') :
         /\ hist' = [f \in DOMAIN inputs |-> Push(hist[f], r[f], inputs[f].buf)]
         /\ \E n \in {Native(native, r)},
               o \in {IF Ready(inputs, hist') THEN Run(script, hist')
                      ELSE Script(script, FALSE, FALSE)} :
              /\ native' = n.st
              /\ script' = o.sc
              /\ out' = [native |-> n.sig, script |-> ScriptSignal(o)]
    /\ UNCHANGED strat

TrendBar ==
    \/ OnBar("AdxEmaCross", AdxEmaCrossNew.inputs, AdxEmaCross, AdxEmaCrossScript)
    \/ OnBar("AlmaCross", AlmaCrossNew.inputs, AlmaCross, AlmaCrossScript)
    \/ OnBar("AroonTrend", AroonTrendNew.inputs, AroonTrend, AroonTrendScript)
    \/ OnBar("DemaCrossover", DemaCrossoverNew.inputs, DemaCrossover, DemaCrossoverScript)
    \/ OnBar("DmiAdx", DmiAdxNew.inputs, DmiAdx, DmiAdxScript)
    \/ OnBar("GmmaCrossover", GmmaCrossoverNew.inputs, GmmaCrossover, GmmaCrossoverScript)
    \/ OnBar("HmaCrossover", HmaCrossoverNew.inputs, HmaCrossover, HmaCrossoverScript)
    \/ OnBar("IchimokuCloud", IchimokuCloudNew.inputs, IchimokuCloud, IchimokuCloudScript)
    \/ OnBar("IchimokuCross", IchimokuCrossNew.inputs, IchimokuCross, IchimokuCrossScript)
    \/ OnBar("KamaStrategy", KamaStrategyNew.inputs, KamaStrategy, KamaStrategyScript)
    \/ OnBar("LsmaCross", LsmaCrossNew.inputs, LsmaCross, LsmaCrossScript)
    \/ OnBar("MaCrossover", MaCrossoverNew.inputs, MaCrossover, MaCrossoverScript)
    \/ OnBar("MaPullback", MaPullbackNew.inputs, MaPullback, MaPullbackScript)
    \/ OnBar("ScalpingEma", ScalpingEmaNew.inputs, ScalpingEma, ScalpingEmaScript)
    \/ OnBar("TemaCrossover", TemaCrossoverNew.inputs, TemaCrossover, TemaCrossoverScript)
    \/ OnBar("TrendFollower", TrendFollowerNew.inputs, TrendFollower, TrendFollowerScript)
    \/ OnBar("TrendTransition", TrendTransitionNew.inputs, TrendTransition, TrendTransitionScript)
    \/ OnBar("TripleEma", TripleEmaNew.inputs, TripleEma, TripleEmaScript)
    \/ OnBar("VortexTrend", VortexTrendNew.inputs, VortexTrend, VortexTrendScript)
MomentumBar ==
    \/ OnBar("AoStrategy", AoStrategyNew.inputs, AoStrategy, AoStrategyScript)
    \/ OnBar("CciReversal", CciReversalNew.inputs, CciReversal, CciReversalScript)
    \/ OnBar("CmoZeroCross", CmoZeroCrossNew.inputs, CmoZeroCross, CmoZeroCrossScript)
    \/ OnBar("ConnorsRsiStrategy", ConnorsRsiStrategyNew.inputs, ConnorsRsiStrategy, ConnorsRsiStrategyScript)
    \/ OnBar("DualMomentum", DualMomentumNew.inputs, DualMomentum, DualMomentumScript)
    \/ OnBar("FisherCrossover", FisherCrossoverNew.inputs, FisherCrossover, FisherCrossoverScript)
    \/ OnBar("KdjStrategy", KdjStrategyNew.inputs, KdjStrategy, KdjStrategyScript)
    \/ OnBar("MacdCrossover", MacdCrossoverNew.inputs, MacdCrossover, MacdCrossoverScript)
    \/ OnBar("MacdMa", MacdMaNew.inputs, MacdMa, MacdMaScript)
    \/ OnBar("MomentumRoc", MomentumRocNew.inputs, MomentumRoc, MomentumRocScript)
    \/ OnBar("PpoHistogram", PpoHistogramNew.inputs, PpoHistogram, PpoHistogramScript)
    \/ OnBar("RocCrossover", RocCrossoverNew.inputs, RocCrossover, RocCrossoverScript)
    \/ OnBar("RsiMaCross", RsiMaCrossNew.inputs, RsiMaCross, RsiMaCrossScript)
    \/ OnBar("RsiMeanRev", RsiMeanRevNew.inputs, RsiMeanRev, RsiMeanRevScript)
    \/ OnBar("SmiReversal", SmiReversalNew.inputs, SmiReversal, SmiReversalScript)
    \/ OnBar("StochRsiStrategy", StochRsiStrategyNew.inputs, StochRsiStrategy, StochRsiStrategyScript)
    \/ OnBar("StochasticCrossover", StochasticCrossoverNew.inputs, StochasticCrossover, StochasticCrossoverScript)
    \/ OnBar("StochasticDk", StochasticDkNew.inputs, StochasticDk, StochasticDkScript)
    \/ OnBar("TrixStrategy", TrixStrategyNew.inputs, TrixStrategy, TrixStrategyScript)
    \/ OnBar("TsiStrategy", TsiStrategyNew.inputs, TsiStrategy, TsiStrategyScript)
    \/ OnBar("UoReversal", UoReversalNew.inputs, UoReversal, UoReversalScript)
    \/ OnBar("WilliamsRMa", WilliamsRMaNew.inputs, WilliamsRMa, WilliamsRMaScript)
VolatilityBar ==
    \/ OnBar("AtrTrailingStop", AtrTrailingStopNew.inputs, AtrTrailingStop, AtrTrailingStopScript)
    \/ OnBar("BbKeltnerSqueeze", BbKeltnerSqueezeNew.inputs, BbKeltnerSqueeze, BbKeltnerSqueezeScript)
    \/ OnBar("BbRsiReversal", BbRsiReversalNew.inputs, BbRsiReversal, BbRsiReversalScript)
    \/ OnBar("BbSqueeze", BbSqueezeNew.inputs, BbSqueeze, BbSqueezeScript)
    \/ OnBar("BollingerMacd", BollingerMacdNew.inputs, BollingerMacd, BollingerMacdScript)
    \/ OnBar("ChandelierExit", ChandelierExitNew.inputs, ChandelierExit, ChandelierExitScript)
    \/ OnBar("DonchianBreakout", DonchianBreakoutNew.inputs, DonchianBreakout, DonchianBreakoutScript)
    \/ OnBar("HighestBreakout", HighestBreakoutNew.inputs, HighestBreakout, HighestBreakoutScript)
    \/ OnBar("KeltnerBreakout", KeltnerBreakoutNew.inputs, KeltnerBreakout, KeltnerBreakoutScript)
    \/ OnBar("RangeRover", RangeRoverNew.inputs, RangeRover, RangeRoverScript)
    \/ OnBar("VolatilityRatioBreakout", VolatilityRatioBreakoutNew.inputs, VolatilityRatioBreakout, VolatilityRatioBreakoutScript)
    \/ OnBar("VolatilitySqueezer", VolatilitySqueezerNew.inputs, VolatilitySqueezer, VolatilitySqueezerScript)
    \/ OnBar("VolatilityVanguard", VolatilityVanguardNew.inputs, VolatilityVanguard, VolatilityVanguardScript)
VolumeBar ==
    \/ OnBar("CmfEmaTrend", CmfEmaTrendNew.inputs, CmfEmaTrend, CmfEmaTrendScript)
    \/ OnBar("MfiRevert", MfiRevertNew.inputs, MfiRevert, MfiRevertScript)
    \/ OnBar("MfiTrend", MfiTrendNew.inputs, MfiTrend, MfiTrendScript)
    \/ OnBar("ObvEmaTrend", ObvEmaTrendNew.inputs, ObvEmaTrend, ObvEmaTrendScript)
    \/ OnBar("VwapBounce", VwapBounceNew.inputs, VwapBounce, VwapBounceScript)
    \/ OnBar("VwapTrend", VwapTrendNew.inputs, VwapTrend, VwapTrendScript)
    \/ OnBar("VwmaRsi", VwmaRsiNew.inputs, VwmaRsi, VwmaRsiScript)
    \/ OnBar("WaddahAttar", WaddahAttarNew.inputs, WaddahAttar, WaddahAttarScript)
PatternBar ==
    \/ OnBar("AlligatorStrategy", AlligatorStrategyNew.inputs, AlligatorStrategy, AlligatorStrategyScript)
    \/ OnBar("ElderRayStrategy", ElderRayStrategyNew.inputs, ElderRayStrategy, ElderRayStrategyScript)
    \/ OnBar("HaBreakout", HaBreakoutNew.inputs, HaBreakout, HaBreakoutScript)
    \/ OnBar("HaColor", HaColorNew.inputs, HaColor, HaColorScript)
    \/ OnBar("HaHarmonizer", HaHarmonizerNew.inputs, HaHarmonizer, HaHarmonizerScript)
    \/ OnBar("RwiStrategy", RwiStrategyNew.inputs, RwiStrategy, RwiStrategyScript)
    \/ OnBar("SarStrategy", SarStrategyNew.inputs, SarStrategy, SarStrategyScript)
    \/ OnBar("SupertrendMacd", SupertrendMacdNew.inputs, SupertrendMacd, SupertrendMacdScript)
    \/ OnBar("SupertrendStrategy", SupertrendStrategyNew.inputs, SupertrendStrategy, SupertrendStrategyScript)
CompositeBar ==
    \/ OnBar("ChopFilterStrategy", ChopFilterStrategyNew.inputs, ChopFilterStrategy, ChopFilterStrategyScript)
    \/ OnBar("EquilibriumExplorer", EquilibriumExplorerNew.inputs, EquilibriumExplorer, EquilibriumExplorerScript)
    \/ OnBar("MeanReversion", MeanReversionNew.inputs, MeanReversion, MeanReversionScript)
    \/ OnBar("OscillatorOverlord", OscillatorOverlordNew.inputs, OscillatorOverlord, OscillatorOverlordScript)
    \/ OnBar("Pixel3", Pixel3New.inputs, Pixel3, Pixel3Script)
    \/ OnBar("ReversalCatcher", ReversalCatcherNew.inputs, ReversalCatcher, ReversalCatcherScript)
    \/ OnBar("SwingTrader", SwingTraderNew.inputs, SwingTrader, SwingTraderScript)
    \/ OnBar("Wolfstein", WolfsteinNew.inputs, Wolfstein, WolfsteinScript)

\* The strategies without a script are fed the bars they read; hist keeps
\* the bars of the opening range for OrbRange.
UntranslatedBar(s, bars, Native(_, _), Seen(_)) ==
    /\ strat = s
    /\ \E r \in bars : \E n \in {Native(native, r)} :
         /\ native' = n.st
         /\ out' = [native |-> n.sig, script |-> n.sig]
         /\ hist' = Seen(r)
    /\ UNCHANGED <<strat, age, script>>

\* Bars whose prices lie in 0..2.
Bars == {b \in [low : 0..2, high : 0..2, close : 0..2] : b.low <= b.close /\ b.close <= b.high}
OrbBar ==
    UntranslatedBar("OrbBreakout", {b @@ [gap |-> g] : b \in Bars, g \in BOOLEAN}, OrbBreakout,
        LAMBDA r : LET h == IF r.gap THEN <<>> ELSE hist IN
                   IF Len(h) < 2 THEN Append(h, [high |-> r.high, low |-> r.low]) ELSE h)
SwingBar ==
    UntranslatedBar("PriceActionSwing",
        {b @@ [pin |-> p, above_trend |-> t, warm |-> w] :
            b \in Bars, p \in BOOLEAN, t \in BOOLEAN, w \in {TRUE}}
        \cup (IF native.swing_high = NegInf /\ native.swing_low = PosInf
              THEN {b @@ [pin |-> FALSE, above_trend |-> FALSE, warm |-> FALSE] : b \in Bars}
              ELSE {}),
        PriceActionSwing, LAMBDA r : <<>>)
PatternWindow ==
    LET Found == [kind : {"bullish", "bearish", "neutral"}, confidence : 1..3] IN
    UntranslatedBar("PatternBreakoutStrategy",
        [enough : BOOLEAN, found : {<<>>} \cup {<<a>> : a \in Found} \cup (Found \X Found)],
        PatternBreakoutStrategy, LAMBDA r : <<>>)

\* reset() between two runs of a batch: both sides start over, except that
\* AlligatorStrategy comes back with the default periods.
Reset ==
    /\ age > 0 \/ strat \in Untranslated
    /\ age' = 0
    /\ hist' = IF strat \in Untranslated THEN <<>> ELSE Empty(strat)
    /\ native' = CASE strat = "OrbBreakout" -> OrbBreakoutNew
                   [] strat = "PriceActionSwing" -> PriceActionSwingNew
                   [] strat = "PatternBreakoutStrategy" -> PatternBreakoutStrategyNew
                   [] strat = "AlligatorStrategy" -> AlligatorStrategyReset
                   [] OTHER -> Catalog[strat].native
    /\ script' = IF strat \in Untranslated THEN Unset ELSE Catalog[strat].script
    /\ out' = [native |-> "none", script |-> "none"]
    /\ UNCHANGED strat

Next == \/ TrendBar \/ MomentumBar \/ VolatilityBar \/ VolumeBar \/ PatternBar \/ CompositeBar
        \/ OrbBar \/ SwingBar \/ PatternWindow \/ Reset

Spec == Init /\ [][Next]_vars

-----------------------------------------------------------------------------
Signals == {"none", "long", "exit"}

\* The signals are directions, and a buffer never outgrows its declared depth.
TypeOK ==
    /\ strat \in Strategies
    /\ out \in [native : Signals, script : Signals]
    /\ strat \notin Untranslated =>
         /\ age \in 0..Maturity(Catalog[strat].inputs)
         /\ \A f \in DOMAIN hist : Len(hist[f]) <= Catalog[strat].inputs[f].buf

\* The strategies whose two implementations disagree on some stream of bars;
\* README.md tells how each of them does.
Diverging == {"ScalpingEma", "WilliamsRMa", "SwingTrader", "MomentumRoc", "BbKeltnerSqueeze",
              "BbSqueeze", "ChandelierExit", "MeanReversion", "HaBreakout", "AlligatorStrategy"}

\* On every bar of every stream, also after reset(), the script signals what
\* the Rust value signals: warm-up, remembered values and buffers agree.
Parity == strat \notin Diverging => out.native = out.script

\* What parity_tests.rs states for every strategy that publishes a script.
ParityClaim == out.native = out.script

\* The opening range is the range of the first two bars of the session, and
\* it stays what it is until the next session starts.
OrbRange ==
    strat = "OrbBreakout" /\ native.ready =>
        /\ Len(hist) = 2
        /\ native.or_high = Max({hist[i].high : i \in 1..2})
        /\ native.or_low = Min({hist[i].low : i \in 1..2})

\* The strategies with an in_position field.
Positional == {"KdjStrategy", "MacdMa", "MaPullback", "TrendFollower", "AtrTrailingStop",
               "BbKeltnerSqueeze", "ChandelierExit", "ObvEmaTrend", "VwapTrend", "MeanReversion",
               "OscillatorOverlord", "PriceActionSwing"}
\* A strategy that tracks its own position enters only when flat and exits
\* only when it holds one, whatever the bars: no two longs without an exit.
Alternates ==
    [][(strat \in Positional) =>
        /\ out'.native = "long" => ~native.in_position /\ native'.in_position
        /\ out'.native = "exit" => native.in_position /\ ~native'.in_position]_vars

\* The stop of price_action_swing only moves up while the position is open.
StopRatchets ==
    [][strat = "PriceActionSwing" /\ native.in_position /\ native'.in_position =>
        native'.stop_level >= native.stop_level]_vars

-----------------------------------------------------------------------------
(* The instance: one strategy under test, of one timeframe or of several.   *)

VARIABLE frames     \* "one" or "many": the timeframes of the strategy under test

\* Every named single-timeframe strategy, and every multi-timeframe one.
AllStrategies == DOMAIN Catalog \cup Untranslated
AllMtf == DOMAIN MtfCatalog
AllInit ==
    /\ frames \in {"one", "many"}
    /\ Init /\ MtfInit
    /\ frames = "one" => mtf = "MtfMaCross"
    /\ frames = "many" => strat = "ScalpingEma"

AllNext ==
    \/ frames = "one" /\ Next /\ UNCHANGED <<frames, mtfVars>>
    \/ frames = "many" /\ MtfNext /\ UNCHANGED <<frames, vars>>

AllSpec == AllInit /\ [][AllNext]_<<frames, vars, mtfVars>>

\* Rust value and script agree on every bar, on one timeframe and on several.
Parities == TypeOK /\ Parity /\ MtfParity

\* What a strategy that trades on its own position may do: enter and exit in
\* turn, move a stop only up, and keep the opening range once it is over.
SignalDiscipline == Alternates /\ StopRatchets /\ []OrbRange
=============================================================================
