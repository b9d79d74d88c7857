---------------------------- MODULE WalkForward ----------------------------
(***************************************************************************)
(* Walk-forward validation (engine/src/walk_forward.rs): the loop that cuts *)
(* the bars into in-sample and out-of-sample windows and runs the engine on *)
(* each.  The runs are environment: a probe makes any number of trades.     *)
(* Ranges are half open, as in the code; bars are numbered from 0.          *)
(***************************************************************************)
EXTENDS Integers, Sequences

CONSTANTS
    BarCounts,  \* how many bars there may be
    WfConfigs   \* is_bars, oos_bars, step_bars, embargo, min_trades, anchored

ASSUME WalkForwardAssumption ==
    /\ BarCounts \subseteq Nat
    /\ WfConfigs \subseteq [is_bars : Nat, oos_bars : Nat, step_bars : Nat, embargo : Nat,
                             min_trades : Nat, anchored : BOOLEAN]

VARIABLES
    wf,         \* the configuration and the number of bars
    wfAt,       \* where the loop is: "window", "probe", "run", "done", "panic"
    index,      \* window_idx
    oosEnd,     \* oos_end
    windows     \* the windows recorded: is_range and oos_range

wfVars == <<wf, wfAt, index, oosEnd, windows>>

Least(x, y) == IF x < y THEN x ELSE y

OosStart == wf.cfg.is_bars + index * wf.cfg.step_bars
IsStart == IF wf.cfg.anchored THEN 0 ELSE index * wf.cfg.step_bars
EmbargoEnd == OosStart + wf.cfg.embargo

WfInit ==
    /\ wf \in [cfg : WfConfigs, n : BarCounts]
    /\ wfAt = "window"
    /\ index = 0
    /\ oosEnd = 0
    /\ windows = <<>>

\* Mutant: the base window is one bar too long.
WindowInclusive ==
    /\ wfAt = "window"
    /\ IF OosStart >= wf.n \/ EmbargoEnd >= wf.n
       THEN wfAt' = "done" /\ UNCHANGED oosEnd
       ELSE /\ oosEnd' = Least(OosStart + wf.cfg.oos_bars + 1, wf.n)
            /\ wfAt' = IF wf.cfg.min_trades = 0 THEN "run" ELSE "probe"
    /\ UNCHANGED <<wf, index, windows>>

\* The top of the loop: stop without bars after the embargo, else fix the
\* base window.  min_oos_trades asks for probes.
Window ==
    /\ wfAt = "window"
    /\ IF OosStart >= wf.n \/ EmbargoEnd >= wf.n
       THEN wfAt' = "done" /\ UNCHANGED oosEnd
       ELSE /\ oosEnd' = Least(OosStart + wf.cfg.oos_bars, wf.n)
            /\ wfAt' = IF wf.cfg.min_trades = 0 THEN "run" ELSE "probe"
    /\ UNCHANGED <<wf, index, windows>>

\* One probe of the out-of-sample window: enough trades, or no more bars, or
\* another oos_bars of them.
Probe(trades) ==
    /\ wfAt = "probe"
    /\ IF EmbargoEnd >= oosEnd \/ trades >= wf.cfg.min_trades \/ oosEnd >= wf.n
       THEN wfAt' = "run" /\ UNCHANGED oosEnd
       ELSE oosEnd' = Least(oosEnd + wf.cfg.oos_bars, wf.n) /\ UNCHANGED wfAt
    /\ UNCHANGED <<wf, index, windows>>

RecordedWindow == [is |-> <<IsStart, OosStart>>, oos |-> <<EmbargoEnd, oosEnd>>]

\* The in-sample and the out-of-sample run, and the test for a next window.
\* bars[embargo_end..oos_end] panics when the embargo is the longer of the two.
RunWindow ==
    /\ wfAt = "run"
    /\ IF EmbargoEnd > oosEnd THEN wfAt' = "panic" /\ UNCHANGED <<windows, index>>
       ELSE /\ windows' = Append(windows, RecordedWindow)
            /\ index' = index + 1
            /\ wfAt' = IF OosStart + wf.cfg.step_bars + wf.cfg.embargo >= wf.n
                       THEN "done" ELSE "window"
    /\ UNCHANGED <<wf, oosEnd>>

WfNext ==
    \/ Window
    \/ \E trades \in 0..2 : Probe(trades)
    \/ RunWindow

WfSpec == WfInit /\ [][WfNext]_wfVars

-----------------------------------------------------------------------------
(* Properties                                                              *)

\* No bar a window is judged on was in the sample before it, and every range
\* lies within the data.
NoLookAhead ==
    \A i \in DOMAIN windows :
        LET w == windows[i]
        IN  /\ w.is[1] <= w.is[2] /\ w.is[2] <= w.oos[1]
            /\ w.oos[1] <= w.oos[2] /\ w.oos[2] <= wf.n

\* Without probes and with step_bars >= oos_bars the out-of-sample windows
\* are disjoint and in order, which is what stitching their equity needs.
StitchedInOrder ==
    wf.cfg.min_trades = 0 /\ wf.cfg.step_bars >= wf.cfg.oos_bars =>
        \A i, j \in DOMAIN windows : i < j => windows[i].oos[2] <= windows[j].oos[1]

\* The loop panics only for an embargo longer than the out-of-sample window.
PanicsOnlyOnEmbargo == wfAt = "panic" => wf.cfg.embargo > wf.cfg.oos_bars

\* What WalkForwardResult says of the combined curve, "all OOS windows
\* stitched in chronological order".
Chronological ==
    \A i, j \in DOMAIN windows : i < j => windows[i].oos[2] <= windows[j].oos[1]

\* The windows of a walk-forward run.
WindowsSound == NoLookAhead /\ StitchedInOrder /\ PanicsOnlyOnEmbargo
=============================================================================
