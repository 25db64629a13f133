SPECIFICATION MCSpec
CONSTANTS
  Pipes <- ThePipes
  MaxOps = 3
INVARIANT OwnQuadrant
