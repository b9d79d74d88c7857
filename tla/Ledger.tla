------------------------------- MODULE Ledger -------------------------------
(***************************************************************************)
(* The ledger of one symbol (crate alm-ledger): for every timeframe the     *)
(* confirmed bars in a bounded window, advanced by several tasks at once.   *)
(* A timeframe is its duration and a bar the time it opens.  The log keeps  *)
(* every bar ever accepted; the window is its end.                          *)
(***************************************************************************)
EXTENDS Naturals, Sequences

CONSTANTS
    TFs,        \* the subscribed timeframes, as durations
    Capacity    \* bars a window retains

ASSUME LedgerAssumption == TFs \subseteq Nat \ {0} /\ Capacity \in Nat \ {0}

VARIABLE log    \* per timeframe, the bars accepted so far

\* bar_window.back(): none before the first advance.
Back(bars) == IF bars = <<>> THEN {} ELSE {bars[Len(bars)]}

\* Mutant: the bar that was last advanced is taken again.
AcceptsAgain(bars, ts) == \A last \in Back(bars) : ts >= last

\* SymbolState::advance takes only what is strictly newer than last_ts.
Accepts(bars, ts) == \A last \in Back(bars) : ts > last

\* bar_window after push_bounded.
Window(bars) == SubSeq(bars, IF Len(bars) > Capacity THEN Len(bars) - Capacity + 1 ELSE 1, Len(bars))

LedgerInit == log = [tf \in TFs |-> <<>>]

\* Ledger::advance of a bar that is accepted, up to the release of the lock.
AdvanceLog(tf, ts) ==
    /\ Accepts(log[tf], ts)
    /\ log' = [log EXCEPT ![tf] = Append(@, ts)]

LedgerNext == \E tf \in TFs, ts \in Nat : AdvanceLog(tf, ts)

LedgerSpec == LedgerInit /\ [][LedgerNext]_log

-----------------------------------------------------------------------------
(* Properties                                                              *)

Rising(bars) == \A i, j \in 1..Len(bars) : i < j => bars[i] < bars[j]

\* A bar once confirmed is never revised or removed.
LogGrows == [][\A tf \in TFs : Len(log[tf]) <= Len(log'[tf])
                  /\ \A i \in 1..Len(log[tf]) : log'[tf][i] = log[tf][i]]_log

\* What the ledger promises whoever reads it. Whoever advances it, a log is in
\* time order without repetition: the window a strategy is warmed from never
\* shows a bar twice or out of order. And it only grows.
LedgerSound == [](\A tf \in TFs : Rising(log[tf])) /\ LogGrows
=============================================================================
