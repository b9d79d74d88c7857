----------------------------- MODULE ChartState -----------------------------
(***************************************************************************)
(* The chart object of alm-wasm: a bar series, an optional Heikin-Ashi     *)
(* transform, indicator slots that are fed incrementally at the tail and   *)
(* replayed from scratch otherwise, and a script slot.  A bar is           *)
(* [ts, px].  What an indicator, the transform or the script has computed  *)
(* is a function of its parameters and of the bars it was fed since its    *)
(* last reset, so that sequence stands for its state; a transformed bar    *)
(* is the sequence of raw bars it was made from.                           *)
(***************************************************************************)
EXTENDS Naturals, Sequences, SequencesExt

CONSTANTS
    Times, Closes,  \* of the bars the page hands over
    Labels,         \* of the slots
    MaxSeries,      \* bound on the series
    MaxSlots        \* bound on the slots

VARIABLES
    rawBars,        \* bars
    period,         \* transform_period: 0 raw, 1 Heikin-Ashi, above smoothed
    ha,             \* the live transform: {} or {what it was fed}
    shown,          \* t_bars
    slots,          \* IndSlot sequence
    script          \* the ScriptSlot: {} or {[runs, fed]}

chartVars == <<rawBars, period, ha, shown, slots, script>>

RawBars == [ts : Times, px : Closes]

\* The indicator configurations the page may ask for: one is refused by
\* from_config, and the box built for one forgets its parameters on reset.
SlotConfigs == {"sma", "gmma_custom", "bad"}
BoxReset(runs) == IF runs = "gmma_custom" THEN "gmma" ELSE runs
WarmBars(runs) == IF runs = "sma" THEN 2 ELSE 1

-----------------------------------------------------------------------------
(* IndSlot: the series holds, per bar, the number of bars its value was    *)
(* computed from, or Null.                                                 *)

Null == 0

SlotNew(label, config) ==
    [label |-> label, config |-> config, runs |-> config, fed |-> <<>>,
     nulls |-> 0, warmed |-> FALSE, series |-> <<>>]

\* Mutant: the first value is stored without the nulls before it.
SlotFeedUnpadded(slot, bar) ==
    LET n == Len(slot.fed) + 1
        fed == [slot EXCEPT !.fed = Append(@, bar)]
    IN  IF n >= WarmBars(slot.runs) THEN [fed EXCEPT !.warmed = TRUE, !.series = Append(@, n)]
        ELSE [fed EXCEPT !.nulls = @ + 1]

\* feed: nulls are only counted until the first value, then the series is made.
SlotFeed(slot, bar) ==
    LET n == Len(slot.fed) + 1
        fed == [slot EXCEPT !.fed = Append(@, bar)]
    IN  IF n >= WarmBars(slot.runs)
        THEN [fed EXCEPT !.warmed = TRUE,
                         !.series = Append(IF slot.warmed THEN @ ELSE [i \in 1..slot.nulls |-> Null], n)]
        ELSE IF slot.warmed THEN [fed EXCEPT !.series = Append(@, Null)]
        ELSE [fed EXCEPT !.nulls = @ + 1]

SlotReset(slot) ==
    [slot EXCEPT !.runs = BoxReset(@), !.fed = <<>>, !.nulls = 0, !.warmed = FALSE, !.series = <<>>]

Rebuild(slot, series) == FoldLeft(SlotFeed, SlotReset(slot), series)
RebuildAll(list, series) == [i \in DOMAIN list |-> Rebuild(list[i], series)]
FeedAll(list, series) == [i \in DOMAIN list |-> FoldLeft(SlotFeed, list[i], series)]

-----------------------------------------------------------------------------
(* The transform                                                           *)

\* What HeikenAshi yields for new bars after those it has seen: nothing until
\* the smoothing has its period of bars.
HaOutputs(seen, new, p) ==
    LET all == seen \o new
        start == IF Len(seen) + 1 >= p THEN Len(seen) + 1 ELSE p
    IN  [i \in 1..(IF Len(all) >= start THEN Len(all) - start + 1 ELSE 0) |->
            SubSeq(all, 1, start + i - 1)]

Effective == IF period > 0 THEN shown ELSE rawBars

\* rebuild_transform over a new series: the script replays the raw bars, the
\* slots the transformed ones.
RebuildTransform(series, p) ==
    /\ rawBars' = series
    /\ period' = p
    /\ script' = {[s EXCEPT !.fed = series] : s \in script}
    /\ IF p = 0
       THEN ha' = {} /\ shown' = <<>> /\ slots' = RebuildAll(slots, series)
       ELSE /\ ha' = {series}
            /\ shown' = HaOutputs(<<>>, series, p)
            /\ slots' = RebuildAll(slots, HaOutputs(<<>>, series, p))

-----------------------------------------------------------------------------
(* The operations                                                          *)

ChartInit ==
    /\ rawBars = <<>> /\ period = 0 /\ ha = {} /\ shown = <<>>
    /\ slots = <<>> /\ script = {}

Set_candle_transform == \E p \in 0..2 : RebuildTransform(rawBars, p)

\* A script that does not compile, or asks for a higher timeframe, leaves the
\* old one in place.
Set_script ==
    /\ \/ script' = {[fed |-> rawBars]}
       \/ script' = script
    /\ UNCHANGED <<rawBars, period, ha, shown, slots>>

Clear_script ==
    /\ script' = {}
    /\ UNCHANGED <<rawBars, period, ha, shown, slots>>

\* One configuration that cannot be built and none of the list is taken.
Set_indicators ==
    /\ \E list \in UNION {[1..n -> Labels \X SlotConfigs] : n \in 0..MaxSlots} :
        slots' = IF \E i \in DOMAIN list : list[i][2] = "bad" THEN slots
                 ELSE [i \in DOMAIN list |-> Rebuild(SlotNew(list[i][1], list[i][2]), Effective)]
    /\ UNCHANGED <<rawBars, period, ha, shown, script>>

Add_indicator ==
    /\ Len(slots) < MaxSlots
    /\ \E label \in Labels, config \in SlotConfigs :
        slots' = IF config = "bad" THEN slots
                 ELSE Append(slots, Rebuild(SlotNew(label, config), Effective))
    /\ UNCHANGED <<rawBars, period, ha, shown, script>>

\* The first slot with the label; its configuration is overwritten before the
\* new one is known to build.
Update_indicator ==
    /\ \E label \in Labels, config \in SlotConfigs :
        LET found == {i \in DOMAIN slots : slots[i].label = label}
            i == CHOOSE i \in found : \A j \in found : i <= j
        IN  slots' = IF found = {} THEN slots
                     ELSE IF config = "bad" THEN [slots EXCEPT ![i].config = config]
                     ELSE [slots EXCEPT ![i] = Rebuild([@ EXCEPT !.config = config, !.runs = config],
                                                       Effective)]
    /\ UNCHANGED <<rawBars, period, ha, shown, script>>

Remove_indicator ==
    /\ \E label \in Labels : slots' = SelectSeq(slots, LAMBDA s : s.label # label)
    /\ UNCHANGED <<rawBars, period, ha, shown, script>>

\* New bars at the tail, through the live transform if there is one; with a
\* transform asked for and no live one they reach no slot.
FeedTail(new) ==
    /\ rawBars' = rawBars \o new
    /\ script' = {[s EXCEPT !.fed = @ \o new] : s \in script}
    /\ IF period = 0
       THEN slots' = FeedAll(slots, new) /\ UNCHANGED <<ha, shown>>
       ELSE IF ha = {} THEN UNCHANGED <<ha, shown, slots>>
       ELSE \E seen \in ha :
            /\ ha' = {seen \o new}
            /\ shown' = shown \o HaOutputs(seen, new, period)
            /\ slots' = FeedAll(slots, HaOutputs(seen, new, period))
    /\ UNCHANGED period

\* A bar with the time of the last one replaces it, and everything is replayed.
Add_tail(bar) ==
    IF rawBars # <<>> /\ rawBars[Len(rawBars)].ts = bar.ts
    THEN RebuildTransform([rawBars EXCEPT ![Len(rawBars)] = bar], period)
    ELSE Len(rawBars) < MaxSeries /\ FeedTail(<<bar>>)

Load_tail ==
    \E a, b \in RawBars :
        Len(rawBars) + 2 <= MaxSeries /\ FeedTail(<<a, b>>)

\* sort_by_key is stable and dedup_by_key keeps the first of a time: the bar
\* of the new page.
Merged(new, old) ==
    LET all == new \o old
        first == {i \in DOMAIN all : \A j \in 1..(i - 1) : all[j].ts # all[i].ts}
    IN  SetToSortSeq({all[i] : i \in first}, LAMBDA x, y : x.ts < y.ts)

Add_head(bar) ==
    /\ Len(rawBars) < MaxSeries
    /\ RebuildTransform(Merged(<<bar>>, rawBars), period)

Load_head ==
    \E a, b \in RawBars :
        /\ Len(rawBars) + 2 <= MaxSeries
        /\ RebuildTransform(Merged(<<a, b>>, rawBars), period)

Reset_bars ==
    /\ rawBars' = <<>> /\ shown' = <<>>
    /\ ha' = IF period > 0 THEN {<<>>} ELSE {}
    /\ slots' = [i \in DOMAIN slots |-> SlotReset(slots[i])]
    /\ script' = {[s EXCEPT !.fed = <<>>] : s \in script}
    /\ UNCHANGED period

\* reset: the transform's period stays behind, its live state does not.
Reset_all ==
    /\ rawBars' = <<>> /\ shown' = <<>> /\ ha' = {} /\ slots' = <<>> /\ script' = {}
    /\ UNCHANGED period

ChartNext ==
    \/ Set_candle_transform \/ Set_script \/ Clear_script
    \/ Set_indicators \/ Add_indicator \/ Update_indicator \/ Remove_indicator
    \/ \E bar \in RawBars : Add_tail(bar) \/ Add_head(bar)
    \/ Load_tail \/ Load_head \/ Reset_bars \/ Reset_all

ChartSpec == ChartInit /\ [][ChartNext]_chartVars

-----------------------------------------------------------------------------
(* Properties                                                              *)

\* The transform asked for is the one that is running: not so after reset()
\* with a transform set, until something replays the series.
Live == period = 0 \/ ha # {}

\* Whatever the order of tail, head, tick, transform, indicator and script
\* calls, the cached state is what a replay of the whole raw series gives: the
\* transformed bars, every slot over them, and the script over the raw bars.
ReplayView ==
    /\ Live => /\ shown = IF period = 0 THEN <<>> ELSE HaOutputs(<<>>, rawBars, period)
               /\ \A i \in DOMAIN slots : slots[i].fed = Effective
    /\ \A s \in script : s.fed = rawBars

\* The same of a chart that was cleared with a transform set: "Clear everything".
ReplayViewClaim == \A i \in DOMAIN slots : slots[i].fed =
    IF period = 0 THEN rawBars ELSE HaOutputs(<<>>, rawBars, period)

\* "Series length always equals the number of bars fed so far", with the value
\* of a bar at that bar's place, once the slot has one value at all.
SeriesAligned ==
    \A i \in DOMAIN slots : LET s == slots[i] IN
        /\ s.warmed <=> Len(s.fed) >= WarmBars(s.runs)
        /\ s.series = IF s.warmed
                      THEN [k \in 1..Len(s.fed) |-> IF k < WarmBars(s.runs) THEN Null ELSE k]
                      ELSE <<>>

InOrder(series) == \A i, j \in DOMAIN series : i < j => series[i].ts < series[j].ts
TimesOf(series) == {series[i].ts : i \in DOMAIN series}

\* A page of history merges into any series, overlapping or not, so that every
\* time is there once and in order.
HistoryMerges ==
    [][\/ InOrder(rawBars') /\ TimesOf(rawBars) \subseteq TimesOf(rawBars')
       \/ ~((\E bar \in RawBars : Add_head(bar)) \/ Load_head)]_chartVars
=============================================================================
