SPECIFICATION MCSpec
CONSTANTS
  Pipes <- ThePipes
  MaxOps = 3
INVARIANTS Converges FitsWidths RoundTrips InOrder EveryIteration NoneOvertakes
PROPERTY Delivered
