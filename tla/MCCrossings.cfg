SPECIFICATION CrossingsSpec
CONSTANTS
  lg_size_p = 1
  FifoData = {d1, d2}
  Junk = Junk
  w_counter_width_lp = 2
  lg_credit_to_token_decimation_p = 1
  start_tokens = 2
  prepaid_tokens = 1
  lg_fifo_depth_p = 2
  ChannelDelay = 2
  Data = {d1}
  None = None
INVARIANTS NeverOverdrawn NeverEnqueOnFull CreditsConserved
PROPERTIES AsyncImplementsFifo NeitherSideStalls CreditsComeBack
