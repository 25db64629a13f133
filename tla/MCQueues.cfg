SPECIFICATION QueuesSpec
CONSTANTS
  els_p = 3
  Data = {d1, d2}
  Junk = Junk
  large_els_p = 4
  MinReset = 2
  pseudo_els_p = 3
  early_yumi_p = TRUE
INVARIANTS TypeOK ExactFlags SameWords OwnWord LargeIsExact PseudoIsExact
PROPERTY ImplementsFifo
