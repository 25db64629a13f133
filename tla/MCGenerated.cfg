SPECIFICATION GeneratedSpec
CONSTANTS
  inputs_p = 5
  width_p = 4
  Operations <- TheOperations
  Following <- TheFollowing
  Arrays <- TheArrays
  MaxWrites <- TheWrites
  Channels = {1, 2, 3, 4, 5, 6, 7, 8, 9, 10, 11}
  Recalibrated = {1, 2, 3, 4}
  topX = 8
  topY = 8
INVARIANTS BoundedWait KeepsOffer GrantsNextInTurn StorageMatches OneCellPerSlot CellsMatch Product Concentrates RingIsClosed
CHECK_DEADLOCK FALSE
