CONSTANTS
  Orders = {o1, o2, o3}
  Setups <- TwoUnits
SPECIFICATION Spec
INVARIANTS HoldingsAgree OrderBooks
SYMMETRY Symmetry
CHECK_DEADLOCK FALSE
