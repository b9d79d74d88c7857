------------------------------ MODULE Portfolio ------------------------------
(***************************************************************************)
(* The books of the backtest: alm_core's Portfolio.  A position keeps its   *)
(* signed quantity, its cost (avg_price times qty, so negative for a short) *)
(* and the commission paid to enter it.  Amounts are integers; the code's   *)
(* proportional shares are rounded down, and whatever one side of a fill    *)
(* is not given stays with the other, so rounding never creates money.      *)
(*                                                                         *)
(* The engine (BacktestEngine) and one symbol's account (Account) are built *)
(* from these operators.                                                   *)
(***************************************************************************)
EXTENDS Integers

Side == {"buy", "sell"}

Sign(side) == IF side = "buy" THEN 1 ELSE -1

Abs(x) == IF x < 0 THEN -x ELSE x

Lesser(x, y) == IF x < y THEN x ELSE y

Flat == [qty |-> 0, cost |-> 0, commission |-> 0]

\* The part of a total that goes with `part` of `whole`.
Share(total, part, whole) ==
    IF part = whole THEN total ELSE (total * part) \div whole

-----------------------------------------------------------------------------
(* apply_fill: what one fill does to the position it falls on               *)

\* The fill is against the position: it covers a short or closes a long.
Closes(pos, f) == \/ f.side = "buy" /\ pos.qty < 0
                  \/ f.side = "sell" /\ pos.qty > 0

\* How much of the position the fill closes; the rest of it is a reversal.
Covered(pos, f) == IF Closes(pos, f) THEN Lesser(f.qty, Abs(pos.qty)) ELSE 0

EntryFee(pos, f) == Share(pos.commission, Covered(pos, f), Abs(pos.qty))

ExitFee(pos, f) == Share(f.commission, Covered(pos, f), f.qty)

Basis(pos, f) == Share(pos.cost, Covered(pos, f), Abs(pos.qty))

CashImpact(f) == -(Sign(f.side) * (f.price * f.qty)) - f.commission

\* The pnl of the Trade recorded for the closed part.
Pnl(pos, f) ==
    IF Closes(pos, f)
    THEN -(Sign(f.side) * (f.price * Covered(pos, f))) - Basis(pos, f)
            - EntryFee(pos, f) - ExitFee(pos, f)
    ELSE 0

\* Mutant: a reversal charges the whole commission to the new position too.
FilledFeeTwice(pos, f) ==
    LET left == f.qty - Covered(pos, f)
    IN  CASE ~Closes(pos, f) ->
                [qty |-> pos.qty + Sign(f.side) * f.qty,
                 cost |-> pos.cost + Sign(f.side) * (f.price * f.qty),
                 commission |-> pos.commission + f.commission]
          [] Closes(pos, f) /\ left > 0 ->
                [qty |-> Sign(f.side) * left,
                 cost |-> Sign(f.side) * (f.price * left),
                 commission |-> f.commission]
          [] OTHER ->
                [qty |-> pos.qty + Sign(f.side) * f.qty,
                 cost |-> pos.cost - Basis(pos, f),
                 commission |-> pos.commission - EntryFee(pos, f)]

\* Mutant: a reversal carries the old position's cost into the new one.
FilledCarriesCost(pos, f) ==
    LET left == f.qty - Covered(pos, f)
    IN  CASE Closes(pos, f) /\ left <= 0 ->
                [qty |-> pos.qty + Sign(f.side) * f.qty,
                 cost |-> pos.cost - Basis(pos, f),
                 commission |-> pos.commission - EntryFee(pos, f)]
          [] OTHER ->
                [qty |-> pos.qty + Sign(f.side) * f.qty,
                 cost |-> pos.cost + Sign(f.side) * (f.price * f.qty),
                 commission |-> pos.commission + f.commission]

\* The position afterwards.  A fill in its direction adds to it; a smaller
\* one against it takes its share of cost and commission away; a larger one
\* turns it into a fresh position of the excess, at the fill's price, with
\* what the closed part left of the fill's commission.
Filled(pos, f) ==
    LET left == f.qty - Covered(pos, f)
    IN  CASE ~Closes(pos, f) ->
                [qty |-> pos.qty + Sign(f.side) * f.qty,
                 cost |-> pos.cost + Sign(f.side) * (f.price * f.qty),
                 commission |-> pos.commission + f.commission]
          [] Closes(pos, f) /\ left > 0 ->
                [qty |-> Sign(f.side) * left,
                 cost |-> Sign(f.side) * (f.price * left),
                 commission |-> f.commission - ExitFee(pos, f)]
          [] OTHER ->
                [qty |-> pos.qty + Sign(f.side) * f.qty,
                 cost |-> pos.cost - Basis(pos, f),
                 commission |-> pos.commission - EntryFee(pos, f)]

=============================================================================
