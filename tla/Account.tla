------------------------------- MODULE Account -------------------------------
(***************************************************************************)
(* One symbol's account: the cash, the position and the recorded trades of  *)
(* alm_core's Portfolio under arbitrary fills.  BacktestProofs proves its   *)
(* books for every choice of the constants.                                *)
(***************************************************************************)
EXTENDS Portfolio

CONSTANTS
    Capital,    \* initial_capital
    Prices,     \* fill prices
    Sizes,      \* fill quantities
    Fees        \* commissions of a fill

ASSUME AccountAssumption ==
    /\ Capital \in Int
    /\ Prices \subseteq Nat
    /\ Sizes \subseteq Nat \ {0}
    /\ Fees \subseteq Nat

VARIABLES
    cash,       \* Portfolio.cash
    position,   \* the symbol's entry of Portfolio.positions, Flat if absent
    realized    \* the sum of the recorded trades' pnl

accountVars == <<cash, position, realized>>

Fills == [side : Side, qty : Sizes, price : Prices, commission : Fees]

AccountInit == /\ cash = Capital
               /\ position = Flat
               /\ realized = 0

ApplyFill(f) == /\ cash' = cash + CashImpact(f)
                /\ position' = Filled(position, f)
                /\ realized' = realized + Pnl(position, f)

AccountNext == \E f \in Fills : ApplyFill(f)

AccountSpec == AccountInit /\ [][AccountNext]_accountVars

-----------------------------------------------------------------------------
(* Properties                                                              *)

\* Type invariant of the account; no split of a fill leaves a negative commission.
AccountTypeOK == /\ cash \in Int
                 /\ position \in [qty : Int, cost : Int, commission : Nat]
                 /\ realized \in Int

\* No fill creates or loses money: cash plus what is invested in the open
\* position, commission included, is the initial capital plus the pnl of the
\* recorded trades -- through partial closes, pyramids and reversals, whose
\* one fill is split between the old position and the new.
Books == cash + position.cost + position.commission = Capital + realized

\* A flat symbol holds no cost and no commission: apply_fill removes the
\* position, so anything left in it would be lost; with Books, a flat
\* account's cash is exactly the capital plus the trades' pnl.
FlatIsEmpty == position.qty = 0 => position = Flat

\* A long has cost money and a short has brought some, never the reverse: no
\* rounded partial close takes away more than was invested, and a reversal
\* carries nothing of the old side over.
CostSide == /\ position.qty > 0 => position.cost >= 0
            /\ position.qty < 0 => position.cost <= 0

\* The account at any moment.
AccountSound == AccountTypeOK /\ Books /\ FlatIsEmpty /\ CostSide
=============================================================================
