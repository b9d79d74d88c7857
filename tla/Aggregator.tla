---------------------------- MODULE Aggregator ----------------------------
(***************************************************************************)
(* Resampling a base feed (data/src/aggregator.rs): BarAggregator pulls     *)
(* base bars through a StandaloneAggregator and hands out a bar when the    *)
(* next period begins, the last one when the feed is exhausted.  The feed   *)
(* may miss any bars.  A base bar has one price and a volume of one.        *)
(***************************************************************************)
EXTENDS Integers, Sequences, SequencesExt, FiniteSetsExt

CONSTANTS
    Period,     \* the target timeframe, in base bars
    AggTimes,   \* the times a base bar may open
    AggPrices

VARIABLES
    fed,        \* the base bars pulled from the inner feed
    partial,    \* StandaloneAggregator.pending, as a set of at most one
    given,      \* the bars next() has returned
    drained     \* the inner feed is exhausted

aggVars == <<fed, partial, given, drained>>

Period_start(ts) == (ts \div Period) * Period

PartialOpen(b) ==
    [start |-> Period_start(b.ts), ts |-> b.ts, open |-> b.px, high |-> b.px,
     low |-> b.px, close |-> b.px, volume |-> 1]

Extend(p, b) ==
    [p EXCEPT !.high = IF b.px > @ THEN b.px ELSE @, !.low = IF b.px < @ THEN b.px ELSE @,
              !.close = b.px, !.volume = @ + 1]

AggInit == fed = <<>> /\ partial = {} /\ given = <<>> /\ drained = FALSE

\* update: a bar of another period flushes the pending one and opens its own.
AggUpdate(b) ==
    LET over == {p \in partial : p.start # Period_start(b.ts)}
    IN  /\ partial' = IF partial \ over = {} THEN {PartialOpen(b)}
                      ELSE {Extend(p, b) : p \in partial}
        /\ given' = given \o SetToSeq(over)

\* The inner feed gives its next bar.
Pull ==
    /\ ~drained
    /\ \E b \in [ts : AggTimes, px : AggPrices] :
          /\ fed # <<>> => b.ts > fed[Len(fed)].ts
          /\ AggUpdate(b)
          /\ fed' = Append(fed, b)
    /\ UNCHANGED drained

\* It has no more: the partial bar is flushed.
Exhausted ==
    /\ ~drained
    /\ given' = given \o SetToSeq(partial)
    /\ partial' = {}
    /\ drained' = TRUE
    /\ UNCHANGED fed

\* BarFeed::reset.
AggReset ==
    /\ fed # <<>>
    /\ fed' = <<>> /\ partial' = {} /\ given' = <<>> /\ drained' = FALSE

AggNext == Pull \/ Exhausted \/ AggReset

AggSpec == AggInit /\ [][AggNext]_aggVars

-----------------------------------------------------------------------------
(* Properties                                                              *)

\* The base bars of a period, and what a resampled bar of them has to be.
Members(start) == SelectSeq(fed, LAMBDA b : Period_start(b.ts) = start)

Resampled(start) ==
    LET m == Members(start)
        px == {m[i].px : i \in DOMAIN m}
    IN  [start |-> start, ts |-> m[1].ts, open |-> m[1].px, high |-> Max(px),
         low |-> Min(px), close |-> m[Len(m)].px, volume |-> Len(m)]

\* What has been given out, with the partial bar, is the exact resampling of
\* what was pulled: one bar for every period with a base bar, in order, none
\* of them before its period was over.
ExactResampling ==
    LET all == given \o SetToSeq(partial)
        starts == {Period_start(fed[i].ts) : i \in DOMAIN fed}
    IN  /\ Len(all) = Cardinality(starts)
        /\ \A i \in DOMAIN all : all[i] = Resampled(all[i].start)
        /\ \A i, j \in DOMAIN all : i < j => all[i].start < all[j].start

\* What the module says of its bars, "an H1 bar always starts at :00".
StartsOnPeriod == \A i \in DOMAIN given : given[i].ts = given[i].start
=============================================================================
