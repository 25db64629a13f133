SPECIFICATION SineSpec
CONSTANTS
  Pipes <- ThePipes
  MaxOps = 3
INVARIANT WholeCircle
