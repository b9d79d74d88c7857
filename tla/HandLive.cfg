CONSTANTS
  Orders = {o1, o2}
  Setups <- TwoOrders
SPECIFICATION FairSpec
PROPERTY FillsAreBooked
CHECK_DEADLOCK FALSE
