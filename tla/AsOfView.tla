------------------------------ MODULE AsOfView ------------------------------
(***************************************************************************)
(* What a multi-timeframe backtest promises its strategy, whatever merges   *)
(* the feeds: time only moves forward, and at every moment the view of each *)
(* timeframe is made of exactly the newest bars of its feed that had closed *)
(* by then -- none of the future, none left behind.  A bar is known by the  *)
(* time it opened; a bar of timeframe tf (a duration) closes tf later.      *)
(***************************************************************************)
EXTENDS Naturals

CONSTANTS
    TFs,        \* the timeframes, as durations
    Feeds,      \* what the feeds may hold: functions from TFs to sets of bars
    Retain(_)   \* what a bounded window keeps of the bars closed so far

VARIABLES feeds, clock, view

\* The bars of a timeframe that have closed by a time.
ClosedBy(bars, tf, time) == {ts \in bars : ts + tf <= time}

\* Every window as it must be at a time.
ViewAt(f, time) == [tf \in TFs |-> Retain(ClosedBy(f[tf], tf, time))]

Init == /\ feeds \in Feeds
        /\ clock = 0
        /\ view = ViewAt(feeds, 0)

Next == /\ clock' \in Nat
        /\ clock' > clock
        /\ view' = ViewAt(feeds, clock')
        /\ UNCHANGED feeds

Spec == Init /\ [][Next]_<<feeds, clock, view>>
=============================================================================
