----------------------------- MODULE AsyncFifo ------------------------------
(***************************************************************************)
(* bsg_async_fifo: a queue whose two ends run on unrelated clocks.  Each   *)
(* end owns a pointer and learns the other's, late, through an             *)
(* AsyncPtrGray.  A step is an edge of one clock, an edge of both at once, *)
(* or a change of one of the reset inputs.                                 *)
(***************************************************************************)
EXTENDS Integers, Sequences

CONSTANTS
  lg_size_p,    \* log2 of the depth
  Data,         \* the words enqueued
  Junk          \* what a memory word holds before it is ever written

FifoAssumption == lg_size_p \in Nat \ {0} /\ Junk \notin Data

VARIABLES
  (* clock w_clk_i *)
  w_ptr_r, w_ptr_p1_r, w_launch,    \* the write pointer, see AsyncPtrGray
  r_sync1, r_sync2,                 \* the read pointer as it arrives
  mem,                              \* MSYNC_1r1w
  (* clock r_clk_i *)
  r_ptr_r, r_ptr_p1_r, r_launch,    \* the read pointer
  w_sync1, w_sync2,                 \* the write pointer as it arrives
  (* inputs *)
  w_reset_i, r_reset_i,
  (* history *)
  w_flush, r_flush,                 \* progress of the reset procedure
  q                                 \* the words in flight, oldest first

wregs == <<w_ptr_r, w_ptr_p1_r, w_launch, mem>>
rregs == <<r_ptr_r, r_ptr_p1_r, r_launch>>
resets == <<w_reset_i, r_reset_i>>
vars == <<wregs, r_sync1, r_sync2, rregs, w_sync1, w_sync2, resets,
          w_flush, r_flush, q>>

size_lp == 2^lg_size_p
Addrs == 0 .. size_lp - 1

(* Both pointers have one bit more than an address, to tell wrap-around.   *)
bapg_wr == INSTANCE AsyncPtrGray WITH
             lg_size_p <- lg_size_p + 1,
             w_ptr_r <- w_ptr_r, w_ptr_p1_r <- w_ptr_p1_r,
             bsg_SYNC_LNCH_r <- w_launch,
             bsg_SYNC_1_r <- w_sync1, bsg_SYNC_2_r <- w_sync2

bapg_rd == INSTANCE AsyncPtrGray WITH
             lg_size_p <- lg_size_p + 1,
             w_ptr_r <- r_ptr_r, w_ptr_p1_r <- r_ptr_p1_r,
             bsg_SYNC_LNCH_r <- r_launch,
             bsg_SYNC_1_r <- r_sync1, bsg_SYNC_2_r <- r_sync2

Words == bapg_wr!Words
TopTwo == {lg_size_p, lg_size_p - 1}

-----------------------------------------------------------------------------
(* Outputs. *)
r_valid_o == r_launch # w_sync2
r_data_o == mem[r_ptr_r % size_lp]
(* Seeded fault: only the wrap bit is flipped. *)
MutFull == w_launch = bapg_wr!Xor(r_sync2, {lg_size_p})
(* Seeded fault: a queue that is not empty counts as full. *)
MutEarlyFull == w_launch # r_sync2
w_full_o == w_launch = bapg_wr!Xor(r_sync2, TopTwo)

-----------------------------------------------------------------------------
(* The reset procedure of bsg_async_ptr_gray, for both pointers: with both *)
(* resets asserted, an edge of the sending clock and then three of the     *)
(* receiving one.  r_flush is 0 until w_clk_i has ticked and one more than *)
(* the edges of r_clk_i since then; w_flush is the converse.               *)
ResetEdges == 3
Flushed == ResetEdges + 1
live == w_flush = Flushed /\ r_flush = Flushed
resetting == w_reset_i /\ r_reset_i

CountFlush(n, sends, receives) ==
  IF ~resetting THEN n
  ELSE IF n = 0 THEN IF sends THEN 1 ELSE 0
  ELSE IF receives /\ n < Flushed THEN n + 1 ELSE n

Init ==
  /\ w_ptr_r = 0 /\ w_ptr_p1_r = 1 /\ w_launch = {}
  /\ r_ptr_r = 0 /\ r_ptr_p1_r = 1 /\ r_launch = {}
  /\ r_sync1 \in Words /\ r_sync2 \in Words
  /\ w_sync1 \in Words /\ w_sync2 \in Words
  /\ mem = [a \in Addrs |-> Junk]
  /\ w_reset_i = TRUE /\ r_reset_i = TRUE
  /\ w_flush = 1 /\ r_flush = 1
  /\ q = <<>>

-----------------------------------------------------------------------------
(* What an edge of w_clk_i does with w_enq_i high (enq) or low, and what   *)
(* one of r_clk_i does with r_deq_i.  A client raises w_enq_i only if      *)
(* w_full_o is low and r_deq_i only if r_valid_o is high.                  *)
WSide(enq, d) ==
  /\ enq => ~w_full_o
  /\ bapg_wr!WEdge(w_reset_i, enq)
  /\ mem' = IF enq THEN [mem EXCEPT ![w_ptr_r % size_lp] = d] ELSE mem

RSide(deq) ==
  /\ deq => r_valid_o
  /\ bapg_rd!WEdge(r_reset_i, deq)

(* The words in flight: what a write cycle adds and a read cycle removes.  *)
Sent(enq, d) == IF live /\ enq /\ ~w_reset_i THEN Append(q, d) ELSE q
Received(deq, s) == IF live /\ deq /\ ~r_reset_i /\ s # <<>> THEN Tail(s) ELSE s

WClk ==
  \E enq \in BOOLEAN, d \in Data :
    /\ WSide(enq, d)
    /\ UNCHANGED <<rregs, resets>>
    /\ bapg_rd!REdge
    /\ bapg_wr!RHold
    /\ q' = Sent(enq, d)
    /\ r_flush' = CountFlush(r_flush, TRUE, FALSE)
    /\ w_flush' = CountFlush(w_flush, FALSE, TRUE)

RClk ==
  \E deq \in BOOLEAN :
    /\ RSide(deq)
    /\ UNCHANGED <<wregs, resets>>
    /\ bapg_wr!REdge
    /\ bapg_rd!RHold
    /\ q' = Received(deq, q)
    /\ r_flush' = CountFlush(r_flush, FALSE, TRUE)
    /\ w_flush' = CountFlush(w_flush, TRUE, FALSE)

BothClks ==
  \E enq, deq \in BOOLEAN, d \in Data :
    /\ WSide(enq, d)
    /\ RSide(deq)
    /\ bapg_rd!REdge
    /\ bapg_wr!REdge
    /\ q' = Received(deq, Sent(enq, d))
    /\ r_flush' = CountFlush(r_flush, TRUE, TRUE)
    /\ w_flush' = CountFlush(w_flush, TRUE, TRUE)
    /\ UNCHANGED resets

(* A reset may be raised at any time, on either side; what was in flight   *)
(* is lost and nothing is promised until both sides have gone through the  *)
(* procedure.                                                              *)
AssertReset ==
  /\ \/ ~w_reset_i /\ w_reset_i' = TRUE /\ UNCHANGED r_reset_i
     \/ ~r_reset_i /\ r_reset_i' = TRUE /\ UNCHANGED w_reset_i
  /\ w_flush' = 0 /\ r_flush' = 0 /\ q' = <<>>
  /\ UNCHANGED <<wregs, rregs, r_sync1, r_sync2, w_sync1, w_sync2>>

(* Each side leaves reset when it likes once the procedure is complete.    *)
DeassertReset ==
  /\ live
  /\ \/ w_reset_i /\ w_reset_i' = FALSE /\ UNCHANGED r_reset_i
     \/ r_reset_i /\ r_reset_i' = FALSE /\ UNCHANGED w_reset_i
  /\ UNCHANGED <<wregs, rregs, r_sync1, r_sync2, w_sync1, w_sync2,
                 w_flush, r_flush, q>>

Next == WClk \/ RClk \/ BothClks \/ AssertReset \/ DeassertReset

Spec == Init /\ [][Next]_vars

(* Both clocks keep running: while the synchronisers of a side are not up  *)
(* to date its next edge eventually comes.  It need not enqueue or dequeue *)
(* anything, and once they are up to date no edge is promised.             *)
WStale == <<r_sync1, r_sync2>> # <<r_launch, r_sync1>>
RStale == <<w_sync1, w_sync2>> # <<w_launch, w_sync1>>

FairSpec ==
  /\ Spec
  /\ WF_vars(WStale /\ (WClk \/ BothClks))
  /\ WF_vars(RStale /\ (RClk \/ BothClks))

-----------------------------------------------------------------------------
(* Every register holds a value of its width. *)
TypeOK ==
  /\ bapg_wr!PtrTypeOK
  /\ bapg_rd!PtrTypeOK
  /\ mem \in [Addrs -> Data \cup {Junk}]
  /\ resets \in BOOLEAN \X BOOLEAN
  /\ {w_flush, r_flush} \subseteq 0 .. Flushed
  /\ q \in Seq(Data)

(* A word that is enqueued reaches the reader, and room that is made       *)
(* reaches the writer, as long as both clocks run.                         *)
EventuallyValid == (live /\ q # <<>>) ~> (r_valid_o \/ ~live)
EventuallyRoom == (live /\ Len(q) < size_lp) ~> (~w_full_o \/ ~live)

(* What lies between the two pointers, read off the memory.                *)
Occupancy == (w_ptr_r - r_ptr_r) % (2 * size_lp)
contents == IF live
              THEN [i \in 1 .. Occupancy |-> mem[(r_ptr_r + i - 1) % size_lp]]
              ELSE <<>>

Fifo == INSTANCE FifoSpec WITH Depth <- size_lp, q <- contents
ImplementsFifo == Fifo!Spec

=============================================================================
