CONSTANTS
  Orders = {o1, o2, o3}
  Setups <- Troubled
SPECIFICATION Spec
INVARIANTS LegsAreReal HoldingsAgree LogIsMemory LogCoversExposure
SYMMETRY Symmetry
CHECK_DEADLOCK FALSE
