SPECIFICATION Spec
CONSTANTS
  A = A
  B = B
  C = C
  d0 = d0
  d1 = d1
  junk = junk
  Unknown = junk
  tag0 = A
  Tags = {A, B, C}
  sets_p = 2
  ways_p = 2
  block_size_in_words_p = 2
  InitialMemory <- Memory0
  Settings <- Flusher
SYMMETRY Interchangeable
INVARIANT LoadsSeeLastStore
