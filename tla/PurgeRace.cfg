CONSTANTS
  Orders = {o1, o2, o3}
  Setups <- Overlapping
SPECIFICATION Spec
INVARIANT LogCoversExposure
SYMMETRY Symmetry
CHECK_DEADLOCK FALSE
