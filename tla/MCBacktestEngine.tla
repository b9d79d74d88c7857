-------------------------- MODULE MCBacktestEngine --------------------------
(* The backtest engine, the engine of several symbols, one symbol's account, *)
(* the walk-forward loop, the report and the feed of bars on small instances. *)
EXTENDS MultiEngine, Account, WalkForward, ReportMetrics, ReportCurves, RowGroupFeed

CONSTANTS
    Parts,          \* the specifications checked
    MaxLeg,         \* bound on a leg of the engine
    MaxQty,         \* bound on the account's position
    MaxRealized     \* bound on the account's realized pnl

VARIABLE part   \* which of the specifications this behaviour is of

feedVars == <<heap, feeds, at, quotes, sizer, pnl, stats>>
reportVars == <<metricsVars, pts, mcarloVars>>
mcVars == <<part, multiVars, accountVars, wfVars, reportVars, rgVars>>

Bracket(stop, target) == [NoLevels EXCEPT !.stop = stop, !.target = target]

Fixed == Bracket(2, 4)

Offset == [Bracket(1, 1) EXCEPT !.offset = TRUE]

Trailing == [NoLevels EXCEPT !.trail = 1, !.max = 2]

Base == [reverse |-> "none", single |-> FALSE, max_units |-> 1, merge |-> TRUE,
         mode |-> "pessimistic", max_positions |-> 1, per_bar |-> 1,
         levels |-> {NoLevels}, sizes |-> {1}]

\* One signal a bar: every policy, with and without pyramiding.
OneSignal ==
    {[Base EXCEPT !.levels = {NoLevels, Offset}, !.sizes = {1, 2}],
     [Base EXCEPT !.reverse = "flip", !.mode = "ohlc", !.sizes = {0, 1},
                  !.levels = {NoLevels, Offset}],
     [Base EXCEPT !.reverse = "exit", !.single = TRUE,
                  !.levels = {NoLevels, Offset, Trailing, Fixed}],
     [Base EXCEPT !.reverse = "exit", !.max_units = 2, !.max_positions = 2,
                  !.levels = {NoLevels, Offset, Trailing}],
     [Base EXCEPT !.reverse = "exit", !.max_units = 2, !.merge = FALSE, !.levels = {Offset}],
     [Base EXCEPT !.reverse = "flip", !.max_units = 2, !.merge = FALSE],
     [Base EXCEPT !.max_units = 2, !.max_positions = 2]}

\* Two signals a bar, without pyramiding and with it.
TwoSignals ==
    {[Base EXCEPT !.reverse = "flip", !.per_bar = 2, !.levels = {Offset}],
     [Base EXCEPT !.reverse = "exit", !.per_bar = 2, !.max_units = 2]}

\* The several-symbol engine: no reverse policy, no pyramiding.
MultiConfigs == {[Base EXCEPT !.single = TRUE, !.per_bar = 0]}

AllConfigs == OneSignal \cup TwoSignals \cup MultiConfigs

\* Two feeds that share some of their timestamps.
TwoFeeds == <<<<1, 2, 3>>, <<2, 3>>>>

OHLC(o, h, l, c) == [open |-> o, high |-> h, low |-> l, close |-> c]

ThreeBars == {OHLC(3, 4, 3, 4), OHLC(3, 3, 2, 2), OHLC(2, 4, 2, 3)}

ASizer == [kind |-> "fixed_qty", max_positions |-> 1, patient |-> FALSE, amount |-> 1,
           pct |-> Scale, lot |-> 1, mult |-> 1, strength_sizing |-> TRUE,
           win_rate |-> 3, avg_win |-> 1, avg_loss |-> 1,
           strengths |-> {Scale}, atrs |-> {0}, levels |-> {NoLevels}]

EverySizer ==
    {[ASizer EXCEPT !.max_positions = 2, !.levels = {Fixed}],
     [ASizer EXCEPT !.kind = "fixed_usd", !.amount = 6, !.patient = TRUE],
     [ASizer EXCEPT !.kind = "fixed_fractional", !.levels = {NoLevels, Fixed}],
     [ASizer EXCEPT !.kind = "percent_equity", !.strengths = {2, Scale}, !.patient = TRUE],
     [ASizer EXCEPT !.kind = "equal_weight", !.max_positions = 2, !.patient = TRUE,
                    !.strength_sizing = FALSE],
     [ASizer EXCEPT !.kind = "atr", !.atrs = {0, 2}],
     [ASizer EXCEPT !.kind = "kelly", !.pct = 2]}

\* Rolling and anchored windows, with and without embargo and probes.
SomeWindows ==
    [is_bars : {2}, oos_bars : {1, 2}, step_bars : {1, 2}, embargo : {0, 1, 2},
     min_trades : {0, 2}, anchored : BOOLEAN]

\* 1st of January 1970, 2000 (a leap year), 2024 and 2100 (none).
SomeStarts == {[day |-> 0, year |-> 1970], [day |-> 10957, year |-> 2000],
               [day |-> 19723, year |-> 2024], [day |-> 47482, year |-> 2100]}

SomePnls == -2..2

SomeFactors == {<<1>>, <<1, 3>>, <<1, 4, 4>>, <<0, 3>>}

Batch(rows, ok) == [rows |-> rows, ok |-> ok]

SomeDirectories ==
    {<<>>, <<<<>>>>,
     <<<<Batch(<<1, 2>>, TRUE), Batch(<<3>>, FALSE), Batch(<<4>>, TRUE)>>, <<>>,
       <<Batch(<<>>, TRUE), Batch(<<5>>, TRUE)>>>>,
     <<<<Batch(<<1>>, FALSE)>>, <<Batch(<<2, 3>>, TRUE)>>>>}

MCInit ==
    /\ part \in Parts
    /\ cfg \in IF part = "engine" THEN Configs \ MultiConfigs ELSE MultiConfigs
    /\ sizer \in IF part = "multi" THEN SizerChoices ELSE {s \in SizerChoices : s.kind = "kelly"}
    /\ MultiInit
    /\ AccountInit
    /\ WfInit
    /\ part # "walk" => wf.n = 1 /\ wf.cfg = CHOOSE c \in WfConfigs : TRUE
    /\ MetricsInit
    /\ part # "metrics" => subject = "trades"
    /\ subject = "trades" => date.day = 0
    /\ CompressInit
    /\ MonteCarloInit
    /\ part # "montecarlo" => factors = <<1>>
    /\ RowGroupInit
    /\ part # "rows" => files = <<>>

MCNext ==
    \/ /\ part = "engine" /\ EngineNext /\ UNCHANGED <<part, feedVars, accountVars, wfVars, reportVars, rgVars>>
       /\ \A k \in DOMAIN core'.positions :
            Abs(core'.positions[k].qty) <= MaxLeg + (cfg.per_bar - 1) * (cfg.max_units - 1)
    \/ part = "multi" /\ MultiNext /\ UNCHANGED <<part, accountVars, wfVars, reportVars, rgVars>>
    \/ /\ part = "account" /\ AccountNext /\ UNCHANGED <<part, multiVars, wfVars, reportVars, rgVars>>
       /\ Abs(position'.qty) <= MaxQty
       /\ Abs(realized') <= MaxRealized
    \/ part = "walk" /\ WfNext /\ UNCHANGED <<part, multiVars, accountVars, reportVars, rgVars>>
    \/ /\ part = "metrics" /\ MetricsNext
       /\ UNCHANGED <<part, multiVars, accountVars, wfVars, pts, mcarloVars, rgVars>>
    \/ /\ part = "curve" /\ NextPoint
       /\ UNCHANGED <<part, multiVars, accountVars, wfVars, metricsVars, mcarloVars, rgVars>>
    \/ /\ part = "montecarlo" /\ MonteCarloNext
       /\ UNCHANGED <<part, multiVars, accountVars, wfVars, metricsVars, pts, rgVars>>
    \/ part = "rows" /\ RowGroupNext /\ UNCHANGED <<part, multiVars, accountVars, wfVars, reportVars>>

MCSpec == MCInit /\ [][MCNext]_mcVars

-----------------------------------------------------------------------------
(* Properties                                                              *)

\* Bars come in time order, from row groups and from the merge of several feeds;
\* the run of several symbols ends flat and keeps within its slots.
FeedsAndSlots == MergeInOrder /\ RowsInOrder /\ FlatAtEnd /\ SlotsHold
=============================================================================
