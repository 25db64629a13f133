----------------------------- MODULE MCCrossings ----------------------------
(***************************************************************************)
(* The ways across clock domains: the asynchronous queue; the credit       *)
(* counter with two credits to a token, two tokens to start with and one   *)
(* prepaid; and the source-synchronous link made of both, between two      *)
(* chips.  One unit is under test and the others stay as they are after    *)
(* reset.                                                                  *)
(***************************************************************************)
EXTENDS SourceSyncLink

CONSTANTS
  lg_size_p, FifoData,
  w_counter_width_lp, start_tokens, prepaid_tokens

VARIABLES
  unit,
  w_ptr_r, w_ptr_p1_r, w_launch, mem, r_sync1, r_sync2,
  r_ptr_r, r_ptr_p1_r, r_launch, w_sync1, w_sync2, w_reset_i, r_reset_i,
  w_flush, r_flush, q,
  c_ptr_r, c_ptr_p1_r, w_counter_gray_r, c_sync1, w_counter_gray_r_rsync,
  r_counter_r, c_reset_i, c_flush, owed

fifo == INSTANCE AsyncFifo WITH Data <- FifoData

credit == INSTANCE AsyncCreditCounter WITH
  w_ptr_r <- c_ptr_r, w_ptr_p1_r <- c_ptr_p1_r, w_sync1 <- c_sync1,
  r_reset_i <- c_reset_i, r_flush <- c_flush

ASSUME WidthAssumption == credit!WidthAssumption
ASSUME FifoAssumption == fifo!FifoAssumption

fifo_vars ==
  <<w_ptr_r, w_ptr_p1_r, w_launch, mem, r_sync1, r_sync2,
    r_ptr_r, r_ptr_p1_r, r_launch, w_sync1, w_sync2, w_reset_i, r_reset_i,
    w_flush, r_flush, q>>
credit_vars ==
  <<c_ptr_r, c_ptr_p1_r, w_counter_gray_r, c_sync1, w_counter_gray_r_rsync,
    r_counter_r, c_reset_i, c_flush, owed>>
all == <<unit, fifo_vars, credit_vars, vars>>

(* A unit that is not under test has known bits in its synchronisers.      *)
CrossingsInit ==
  /\ unit \in {"fifo", "credit", "link"}
  /\ fifo!Init /\ credit!Init /\ Init
  /\ unit # "fifo" =>
       <<r_sync1, r_sync2, w_sync1, w_sync2>> = <<{}, {}, {}, {}>>
  /\ unit # "credit" =>
       <<c_sync1, w_counter_gray_r_rsync, r_counter_r>> = <<{}, {}, 0>>

OnlyFifo == unit = "fifo" /\ UNCHANGED <<unit, credit_vars, vars>>
OnlyCredit == unit = "credit" /\ UNCHANGED <<unit, fifo_vars, vars>>
OnlyLink == unit = "link" /\ UNCHANGED <<unit, fifo_vars, credit_vars>>

CrossingsNext ==
  \/ OnlyFifo /\ fifo!Next
  \/ OnlyCredit /\ credit!Next
  \/ OnlyLink /\ Next

(* The clocks keep running while a synchroniser is not up to date, or      *)
(* words and tokens of the link are on their way.                          *)
CrossingsSpec ==
  /\ CrossingsInit /\ [][CrossingsNext]_all
  /\ WF_all(OnlyFifo /\ fifo!WStale /\ (fifo!WClk \/ fifo!BothClks))
  /\ WF_all(OnlyFifo /\ fifo!RStale /\ (fifo!RClk \/ fifo!BothClks))
  /\ WF_all(OnlyCredit /\ credit!Stale /\ (credit!RClk \/ credit!BothClks))
  /\ WF_all(OnlyLink /\ IoMoves)
  /\ WF_all(OnlyLink /\ CoreMoves)
  /\ WF_all(OnlyLink /\ TokenMoves)

-----------------------------------------------------------------------------
(* A word reaches the reader and room reaches the writer of the            *)
(* asynchronous queue, as long as both clocks run.                         *)
NeitherSideStalls == fifo!EventuallyValid /\ fifo!EventuallyRoom

(* Credits are never overdrawn, whatever the spender catches of the token  *)
(* count.                                                                  *)
NeverOverdrawn == unit = "credit" => credit!NeverOverdrawn

(* The asynchronous queue is a queue.                                      *)
AsyncImplementsFifo == fifo!ImplementsFifo

(* Credits come back: those returned to the counter become available, and  *)
(* the sender of the link gets those of the edge that it waits for.        *)
CreditsComeBack ==
  /\ unit = "credit" => credit!CreditsReturn
  /\ unit = "link" => CreditsReturn
=============================================================================
