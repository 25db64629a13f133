---------------------------- MODULE AsyncPtrGray ----------------------------
(***************************************************************************)
(* bsg_async_ptr_gray with its bsg_launch_sync_sync: a pointer counted in  *)
(* the w_ clock domain and carried, Gray coded, into the r_ clock domain   *)
(* through a launch flop of the w_ clock and two flops of the r_ clock.    *)
(*                                                                         *)
(* A word of wires is the set of the positions that carry a 1, so xor is   *)
(* the symmetric difference, and "these wires may be caught on either side *)
(* of a transition" is an interval in the subset order.                    *)
(***************************************************************************)
EXTENDS Integers

CONSTANT lg_size_p      \* width of the pointer

VARIABLES
  w_ptr_r,              \* the pointer, in binary
  w_ptr_p1_r,           \* its successor, kept ready to shorten the cycle
  bsg_SYNC_LNCH_r,      \* launch flop: the pointer in Gray code
  bsg_SYNC_1_r,         \* first synchronising flop, may be metastable
  bsg_SYNC_2_r          \* second synchronising flop, what r_ logic reads

(* Position i of the binary word n. *)
Bit(n, i) == (n \div 2^i) % 2

Xor(x, y) == (x \ y) \cup (y \ x)

(* (n >> 1) ^ n over width wires. *)
Gray(n, width) == {i \in 0 .. width - 1 : Bit(n, i) # Bit(n, i + 1)}

(* The words a receiving flop can settle on when it is clocked while the   *)
(* sender's wires go from old to new: a wire that keeps its level is read  *)
(* right, a wire in transition reads either level, each on its own.        *)
Sampled(old, new) == {x \in SUBSET (old \cup new) : old \cap new \subseteq x}

-----------------------------------------------------------------------------
Ptrs == 0 .. 2^lg_size_p - 1
Words == SUBSET (0 .. lg_size_p - 1)

PtrTypeOK ==
  /\ w_ptr_r \in Ptrs
  /\ w_ptr_p1_r \in Ptrs
  /\ bsg_SYNC_LNCH_r \in Words
  /\ bsg_SYNC_1_r \in Words
  /\ bsg_SYNC_2_r \in Words

(* What the flops of the w_ clock hold after a cycle of w_reset_i. *)
WInReset ==
  /\ w_ptr_r = 0
  /\ w_ptr_p1_r = 1
  /\ bsg_SYNC_LNCH_r = {}

(* An edge of w_clk_i. *)
WEdge(w_reset_i, w_inc_i) ==
  IF w_reset_i
    THEN /\ w_ptr_r' = 0
         /\ w_ptr_p1_r' = 1
         /\ bsg_SYNC_LNCH_r' = {}
    ELSE /\ w_ptr_r' = IF w_inc_i THEN w_ptr_p1_r ELSE w_ptr_r
         /\ w_ptr_p1_r' = IF w_inc_i THEN (w_ptr_p1_r + 1) % 2^lg_size_p
                                     ELSE w_ptr_p1_r
         /\ bsg_SYNC_LNCH_r' = IF w_inc_i THEN Gray(w_ptr_p1_r, lg_size_p)
                                          ELSE bsg_SYNC_LNCH_r

WHold == UNCHANGED <<w_ptr_r, w_ptr_p1_r, bsg_SYNC_LNCH_r>>

(* A positive edge of r_clk_i. When w_clk_i ticks in the same instant the  *)
(* launch flop is in transition and the first flop settles on any word     *)
(* between its old and its new value; otherwise those two are equal.       *)
REdge ==
  /\ bsg_SYNC_1_r' \in Sampled(bsg_SYNC_LNCH_r, bsg_SYNC_LNCH_r')
  /\ bsg_SYNC_2_r' = bsg_SYNC_1_r

RHold == UNCHANGED <<bsg_SYNC_1_r, bsg_SYNC_2_r>>

=============================================================================
