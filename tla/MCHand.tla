------------------------------- MODULE MCHand -------------------------------
(* Hand on a few orders, interchangeable but for the run's fairness.       *)
EXTENDS Hand

Symmetry == Permutations(Orders)

Plain == [max_units |-> 1, pyramid |-> FALSE, faults |-> {}, crashes |-> 0, orders |-> 3]

TwoOrders == {[Plain EXCEPT !.orders = 2]}

(* Two units, as a pyramid on one leg and as two legs, from signals that   *)
(* are spaced out; one unit from two signals that come at any time; and    *)
(* one when the exchange does not answer.                                  *)
NoAnswer == [Plain EXCEPT !.orders = 2,
                          !.faults = {"ambiguous", "lookup_fails", "balance_fails", "busy_leg"}]
AnyTime == [Plain EXCEPT !.orders = 2, !.faults = {"overlap", "busy_leg"}]

TwoUnits == {[Plain EXCEPT !.max_units = 2, !.pyramid = TRUE],
             [Plain EXCEPT !.max_units = 2],
             AnyTime, [AnyTime EXCEPT !.pyramid = TRUE],
             NoAnswer}

(* Crashes without other faults, and once together with faults.  Looked up *)
(* in vain, an order is taken for failed: once without that.               *)
Troubled ==
  {[Plain EXCEPT !.crashes = 1],
   [Plain EXCEPT !.crashes = 2, !.orders = 2],
   [NoAnswer EXCEPT !.crashes = 1],
   [NoAnswer EXCEPT !.crashes = 1, !.faults = @ \ {"lookup_fails"}],
   [Plain EXCEPT !.crashes = 1, !.orders = 2, !.faults = {"busy_leg", "balance_fails", "outage"}],
   [Plain EXCEPT !.crashes = 1, !.orders = 2, !.faults = {"ambiguous", "lookup_fails", "busy_restart"}],
   [Plain EXCEPT !.crashes = 1, !.orders = 2, !.faults = {"reconcile_fails", "busy_restart"}]}

Overlapping == {[Plain EXCEPT !.faults = {"overlap"}]}
=============================================================================
