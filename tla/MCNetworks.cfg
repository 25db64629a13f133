SPECIFICATION NetworksSpec
CONSTANTS
  dims_p = 2
  reverse_order_p = FALSE
  my_cord_i <- Centre
  Matrix <- StrictXY
  hold_on_valid_p = FALSE
  Traffic <- Crossing
  Networks <- AllKinds
  CordWidth = 3
INVARIANTS WholePackets RoutesExist
PROPERTIES NoInputStarves Retraces ComesHome
