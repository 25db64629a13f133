--------------------------- MODULE SourceSyncLink ---------------------------
(***************************************************************************)
(* bsg_link_source_sync_upstream, the wires and bsg_link_source_sync_      *)
(* downstream: words leave on io_clk against credits, cross to the core    *)
(* clock of the other chip through an AsyncFifo that is also the receive   *)
(* buffer, and every group of words dequeued there toggles a token line    *)
(* that comes back as a clock.  Rising and falling edges are counted by    *)
(* an AsyncCreditCounter each.                                             *)
(*                                                                         *)
(* A step is an edge of any set of the three clocks: io_clk (the forwarded *)
(* clock is the same, its delay being part of the channel's), the core     *)
(* clock of the receiver, and the token line.                              *)
(***************************************************************************)
EXTENDS Integers, Sequences

CONSTANTS
  lg_fifo_depth_p,
  lg_credit_to_token_decimation_p,
  ChannelDelay,     \* registers between io_valid_o and io_valid_i (PHYs)
  Data, Junk,
  None              \* no word in a register of the channel

ASSUME LinkAssumption ==
  /\ lg_credit_to_token_decimation_p \in Nat
  /\ lg_fifo_depth_p \in Nat /\ lg_fifo_depth_p > lg_credit_to_token_decimation_p
  /\ ChannelDelay \in Nat \ {0}

(* Seeded fault: each counter starts with credits for the whole buffer. *)
MutMaxTokens == 2^(lg_fifo_depth_p - lg_credit_to_token_decimation_p)

(* Half of the receive buffer for each of the two counters. *)
max_tokens_p == 2^(lg_fifo_depth_p - 1 - lg_credit_to_token_decimation_p)

(* $clog2(max_tokens_p + 1) for a power of two, and extra_margin_p = 2. *)
TokenBits == lg_fifo_depth_p - lg_credit_to_token_decimation_p + 2

CreditsPerToken == 2^lg_credit_to_token_decimation_p

VARIABLES
  (* upstream, io_clk *)
  io_token_alternator_r,
  pos_spent, pos_sync1, pos_sync2,      \* pos_credit_ctr
  neg_spent, neg_sync1, neg_sync2,      \* neg_credit_ctr
  (* upstream, token_clk_i *)
  pos_ptr, pos_ptr_p1, pos_launch,
  neg_ptr, neg_ptr_p1, neg_launch,
  token_clk_i,                          \* its level
  (* wires *)
  chan,                                 \* words on their way, newest first
  token_edges,                          \* toggles of the token line on their way
  (* downstream, io_clk *)
  baf_w_ptr_r, baf_w_ptr_p1_r, baf_w_launch, baf_r_sync1, baf_r_sync2, baf_mem,
  (* downstream, core_clk *)
  baf_r_ptr_r, baf_r_ptr_p1_r, baf_r_launch, baf_w_sync1, baf_w_sync2,
  core_credits_sent_r,
  (* history *)
  sent                                     \* words sent and not yet dequeued

posr == <<pos_sync1, pos_sync2, pos_spent>>
negr == <<neg_sync1, neg_sync2, neg_spent>>
posw == <<pos_ptr, pos_ptr_p1, pos_launch>>
negw == <<neg_ptr, neg_ptr_p1, neg_launch>>
bafw == <<baf_w_ptr_r, baf_w_ptr_p1_r, baf_w_launch, baf_mem>>
bafr == <<baf_r_ptr_r, baf_r_ptr_p1_r, baf_r_launch>>
sync == <<baf_r_sync1, baf_r_sync2, baf_w_sync1, baf_w_sync2>>
vars == <<io_token_alternator_r, posr, negr, posw, negw, token_clk_i, chan,
          token_edges, bafw, bafr, sync, core_credits_sent_r, sent>>

pos_credit_ctr == INSTANCE AsyncCreditCounter WITH
  w_counter_width_lp <- TokenBits,
  start_tokens <- max_tokens_p, prepaid_tokens <- 0,
  w_ptr_r <- pos_ptr, w_ptr_p1_r <- pos_ptr_p1, w_counter_gray_r <- pos_launch,
  w_sync1 <- pos_sync1, w_counter_gray_r_rsync <- pos_sync2,
  r_counter_r <- pos_spent, r_reset_i <- FALSE, r_flush <- 5, owed <- 0

neg_credit_ctr == INSTANCE AsyncCreditCounter WITH
  w_counter_width_lp <- TokenBits,
  start_tokens <- max_tokens_p, prepaid_tokens <- 0,
  w_ptr_r <- neg_ptr, w_ptr_p1_r <- neg_ptr_p1, w_counter_gray_r <- neg_launch,
  w_sync1 <- neg_sync1, w_counter_gray_r_rsync <- neg_sync2,
  r_counter_r <- neg_spent, r_reset_i <- FALSE, r_flush <- 5, owed <- 0

baf == INSTANCE AsyncFifo WITH
  lg_size_p <- lg_fifo_depth_p,
  w_ptr_r <- baf_w_ptr_r, w_ptr_p1_r <- baf_w_ptr_p1_r, w_launch <- baf_w_launch,
  r_sync1 <- baf_r_sync1, r_sync2 <- baf_r_sync2, mem <- baf_mem,
  r_ptr_r <- baf_r_ptr_r, r_ptr_p1_r <- baf_r_ptr_p1_r, r_launch <- baf_r_launch,
  w_sync1 <- baf_w_sync1, w_sync2 <- baf_w_sync2, q <- sent,
  w_reset_i <- FALSE, r_reset_i <- FALSE, w_flush <- 4, r_flush <- 4

-----------------------------------------------------------------------------
(* Upstream. *)
io_on_negedge_token == io_token_alternator_r >= CreditsPerToken
io_credit_avail ==
  IF io_on_negedge_token THEN neg_credit_ctr!r_credits_avail_o
                         ELSE pos_credit_ctr!r_credits_avail_o

(* Downstream. *)
io_valid_i == chan[ChannelDelay] # None
io_async_fifo_full == baf!w_full_o
core_async_fifo_valid_lo == baf!r_valid_o

Init ==
  /\ io_token_alternator_r = 0 /\ core_credits_sent_r = 0
  /\ token_clk_i = 0 /\ token_edges = 0
  /\ pos_spent = pos_credit_ctr!r_counter_reset
  /\ neg_spent = neg_credit_ctr!r_counter_reset
  /\ pos_ptr = 0 /\ pos_ptr_p1 = 1 /\ pos_launch = {} /\ pos_sync1 = {} /\ pos_sync2 = {}
  /\ neg_ptr = 0 /\ neg_ptr_p1 = 1 /\ neg_launch = {} /\ neg_sync1 = {} /\ neg_sync2 = {}
  /\ baf_w_ptr_r = 0 /\ baf_w_ptr_p1_r = 1 /\ baf_w_launch = {} /\ baf_w_sync1 = {} /\ baf_w_sync2 = {}
  /\ baf_r_ptr_r = 0 /\ baf_r_ptr_p1_r = 1 /\ baf_r_launch = {} /\ baf_r_sync1 = {} /\ baf_r_sync2 = {}
  /\ baf_mem = [a \in baf!Addrs |-> Junk]
  /\ chan = [i \in 1 .. ChannelDelay |-> None]
  /\ sent = <<>>

-----------------------------------------------------------------------------
(* Seeded fault: falling edges are not counted. *)
MutRisingOnly ==
  /\ token_edges > 0
  /\ token_clk_i' = 1 - token_clk_i
  /\ IF token_clk_i = 0
       THEN pos_credit_ctr!bapg!WEdge(FALSE, TRUE) /\ UNCHANGED negw
       ELSE UNCHANGED <<posw, negw>>

(* An edge of the token line is an edge of the clock of one counter, which *)
(* counts it unconditionally.                                              *)
TokenEdge ==
  /\ token_edges > 0
  /\ token_clk_i' = 1 - token_clk_i
  /\ IF token_clk_i = 0
       THEN pos_credit_ctr!bapg!WEdge(FALSE, TRUE) /\ UNCHANGED negw
       ELSE neg_credit_ctr!bapg!WEdge(FALSE, TRUE) /\ UNCHANGED posw

(* An edge of io_clk upstream: d is what the clock-crossing queue of the   *)
(* sender offers, if anything (None), and the PHY takes it if ready.       *)
io_async_fifo_yumi(d, io_ready_i) == io_credit_avail /\ d # None /\ io_ready_i

Upstream(d, io_ready_i) ==
  LET yumi == io_async_fifo_yumi(d, io_ready_i) IN
  /\ io_token_alternator_r' =
       (io_token_alternator_r + IF yumi THEN 1 ELSE 0) % (2 * CreditsPerToken)
  /\ pos_credit_ctr!Count(FALSE, yumi /\ ~io_on_negedge_token)
  /\ neg_credit_ctr!Count(FALSE, yumi /\ io_on_negedge_token)
  /\ pos_credit_ctr!bapg!REdge
  /\ neg_credit_ctr!bapg!REdge
  /\ chan' = <<IF yumi THEN d ELSE None>> \o SubSeq(chan, 1, ChannelDelay - 1)

(* The same edge downstream.  The enqueue does not look at full. *)
DownstreamIo ==
  /\ baf!bapg_wr!WEdge(FALSE, io_valid_i)
  /\ baf_mem' = IF io_valid_i
              THEN [baf_mem EXCEPT ![baf_w_ptr_r % baf!size_lp] = chan[ChannelDelay]]
              ELSE baf_mem

(* An edge of the receiver's core clock, with a word dequeued or not; a    *)
(* word that crosses bit lg_credit_to_token_decimation_p of the counter    *)
(* toggles the token line.                                                 *)
TokenLine(n) == n \div CreditsPerToken

(* Seeded fault: cycles are counted instead of words. *)
MutDownstreamCore(deque) ==
  /\ deque => core_async_fifo_valid_lo
  /\ baf!bapg_rd!WEdge(FALSE, deque)
  /\ core_credits_sent_r' =
       (core_credits_sent_r + 1) % (2 * CreditsPerToken)

DownstreamCore(deque) ==
  /\ deque => core_async_fifo_valid_lo
  /\ baf!bapg_rd!WEdge(FALSE, deque)
  /\ core_credits_sent_r' =
       (core_credits_sent_r + IF deque THEN 1 ELSE 0) % (2 * CreditsPerToken)

(* The three clocks together.  A flop that samples a domain whose clock    *)
(* ticks in the same instant may catch it mid-change.  Inputs matter at an *)
(* edge of their clock only.                                               *)
Edge(io, core, token, d, io_ready_i, deque) ==
  /\ io \/ core \/ token
  /\ d # None \/ io_ready_i => io
  /\ deque => core
  /\ IF token THEN TokenEdge ELSE UNCHANGED <<token_clk_i, posw, negw>>
  /\ IF core THEN DownstreamCore(deque) ELSE UNCHANGED <<bafr, core_credits_sent_r>>
  /\ IF io
       THEN /\ Upstream(d, io_ready_i)
            /\ DownstreamIo
            /\ baf!bapg_rd!REdge
       ELSE UNCHANGED <<io_token_alternator_r, posr, negr, chan, bafw, baf_r_sync1, baf_r_sync2>>
  /\ IF core THEN baf!bapg_wr!REdge ELSE UNCHANGED <<baf_w_sync1, baf_w_sync2>>
  /\ token_edges' =
       token_edges - (IF token THEN 1 ELSE 0)
         + IF TokenLine(core_credits_sent_r') # TokenLine(core_credits_sent_r)
             THEN 1 ELSE 0
  /\ LET s == IF io /\ io_async_fifo_yumi(d, io_ready_i) THEN Append(sent, d) ELSE sent
     IN  sent' = IF core /\ deque /\ s # <<>> THEN Tail(s) ELSE s

Next ==
  \E io, core, token, io_ready_i, deque \in BOOLEAN, d \in Data \cup {None} :
    Edge(io, core, token, d, io_ready_i, deque)

Spec == Init /\ [][Next]_vars

-----------------------------------------------------------------------------
(* "attempt to enque on full async fifo": the assertion that a word never  *)
(* arrives while the receiver still believes, from an old read pointer,    *)
(* that its buffer is full.                                                *)
NeverEnqueOnFull == io_valid_i => ~io_async_fifo_full

(* Credits are conserved around the loop: those the sender has, those it   *)
(* spent on words not yet dequeued, those counted towards the next toggle  *)
(* and those on the token line make up the receive buffer at all times.    *)
CreditsHeld(spent, ptr) == (ptr * CreditsPerToken - spent) % pos_credit_ctr!Modulus

CreditsConserved ==
  CreditsHeld(pos_spent, pos_ptr) + CreditsHeld(neg_spent, neg_ptr)
    + Len(sent) + (core_credits_sent_r % CreditsPerToken)
    + token_edges * CreditsPerToken
  = 2^lg_fifo_depth_p

(* All clocks run, the token line settles and the receiver takes words:    *)
(* while a synchroniser is not up to date, or a word or a token is on its  *)
(* way, the next edge of its clock eventually comes.  The sender need not  *)
(* send.                                                                   *)
IoStale ==
  \/ <<pos_sync1, pos_sync2>> # <<pos_launch, pos_sync1>>
  \/ <<neg_sync1, neg_sync2>> # <<neg_launch, neg_sync1>>
  \/ <<baf_r_sync1, baf_r_sync2>> # <<baf_r_launch, baf_r_sync1>>
  \/ \E i \in DOMAIN chan : chan[i] # None
CoreStale ==
  core_async_fifo_valid_lo \/ <<baf_w_sync1, baf_w_sync2>> # <<baf_w_launch, baf_w_sync1>>

IoMoves ==
  /\ IoStale
  /\ \E core, token, io_ready_i, deque \in BOOLEAN, d \in Data \cup {None} :
       Edge(TRUE, core, token, d, io_ready_i, deque)
CoreMoves ==
  /\ CoreStale
  /\ \E io, token, io_ready_i \in BOOLEAN, d \in Data \cup {None} :
       Edge(io, TRUE, token, d, io_ready_i, core_async_fifo_valid_lo)
TokenMoves ==
  \E io, core, io_ready_i, deque \in BOOLEAN, d \in Data \cup {None} :
    Edge(io, core, TRUE, d, io_ready_i, deque)

FairSpec == Spec /\ WF_vars(IoMoves) /\ WF_vars(CoreMoves) /\ WF_vars(TokenMoves)

(* The sender is never starved for good: the side of the token it waits    *)
(* for is the side that comes.                                             *)
CreditsReturn == []<>io_credit_avail

=============================================================================
