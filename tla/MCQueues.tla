------------------------------ MODULE MCQueues ------------------------------
(***************************************************************************)
(* The queues, each between clients of its own: the small queue in both    *)
(* its implementations, the reorder queue, and the two large queues over a *)
(* single-ported RAM.  One unit is under test and the others stay as they  *)
(* are after reset.                                                        *)
(***************************************************************************)
EXTENDS Fifo1r1wSmall

CONSTANTS large_els_p, MinReset, pseudo_els_p, early_yumi_p

VARIABLES
  unit,
  (* fifo_reorder *)
  o_rptr_r, o_wptr_r, o_enq_r, o_deq_r, valid_r, o_mem, tickets,
  (* large *)
  sipo, l_rd_ptr, l_wr_ptr, l_last_op, l_mem, l_big_data_lo, l_big_deq_r,
  rr222_head_r, little, tag_r, reset_edges, l_q,
  (* pseudo_large *)
  p_rd_ptr, p_wr_ptr, p_last_op, p_mem, p_big_data_lo,
  head_r, tail_r, empty_r, full_r, little_mem,
  p_big_deq_r, p_q, last_v, last_yumi, half_rate

reorder == INSTANCE FifoReorder WITH
  NoWord <- Junk, mem <- o_mem,
  rptr_r <- o_rptr_r, wptr_r <- o_wptr_r, enq_r <- o_enq_r, deq_r <- o_deq_r

large == INSTANCE LargeFifo WITH
  els_p <- large_els_p, q <- l_q,
  rd_ptr <- l_rd_ptr, wr_ptr <- l_wr_ptr, last_op_is_read_r <- l_last_op,
  mem <- l_mem, big_data_lo <- l_big_data_lo, big_deq_r <- l_big_deq_r

pseudo == INSTANCE PseudoLargeFifo WITH
  els_p <- pseudo_els_p, q <- p_q,
  rd_ptr <- p_rd_ptr, wr_ptr <- p_wr_ptr, last_op_is_read_r <- p_last_op,
  mem <- p_mem, big_data_lo <- p_big_data_lo, big_deq_r <- p_big_deq_r

ASSUME ReorderAssumption == reorder!ReorderAssumption
ASSUME LargeAssumption == large!LargeAssumption
ASSUME PseudoAssumption ==
  pseudo_els_p \in Nat \ {0} /\ early_yumi_p \in BOOLEAN

small_vars == <<vars, ram, data_o_mem, data_o_reg, read_write_same_addr_r>>
reorder_vars ==
  <<o_rptr_r, o_wptr_r, o_enq_r, o_deq_r, valid_r, o_mem, tickets>>
large_vars ==
  <<sipo, l_rd_ptr, l_wr_ptr, l_last_op, l_mem, l_big_data_lo, l_big_deq_r,
    rr222_head_r, little, tag_r, reset_edges, l_q>>
pseudo_vars ==
  <<p_rd_ptr, p_wr_ptr, p_last_op, p_mem, p_big_data_lo,
    head_r, tail_r, empty_r, full_r, little_mem,
    p_big_deq_r, p_q, last_v, last_yumi, half_rate>>
all == <<unit, small_vars, reorder_vars, large_vars, pseudo_vars>>

QueuesInit ==
  /\ unit \in {"small", "reorder", "large", "pseudo_large"}
  /\ BothInit /\ reorder!Init /\ large!Init /\ pseudo!Init

QueuesNext ==
  \/ /\ unit = "small" /\ BothNext
     /\ UNCHANGED <<unit, reorder_vars, large_vars, pseudo_vars>>
  \/ /\ unit = "reorder" /\ reorder!Next
     /\ UNCHANGED <<unit, small_vars, large_vars, pseudo_vars>>
  \/ /\ unit = "large" /\ large!Next
     /\ UNCHANGED <<unit, small_vars, reorder_vars, pseudo_vars>>
  \/ /\ unit = "pseudo_large" /\ pseudo!Next
     /\ UNCHANGED <<unit, small_vars, reorder_vars, large_vars>>

QueuesSpec == QueuesInit /\ [][QueuesNext]_all

-----------------------------------------------------------------------------
(* The reorder queue offers exactly the word of its oldest id.             *)
OwnWord == reorder!OwnWord

(* The large queue keeps its words and their order, and is neither full    *)
(* with room left nor empty with words left.                               *)
LargeIsExact ==
  large!NothingLost /\ large!NeverFalselyFull /\ large!NeverFalselyEmpty

(* The pseudo-large queue loses, duplicates and overtakes no word, and     *)
(* does not starve a half-rate receiver.                                   *)
PseudoIsExact == pseudo!NothingLost /\ pseudo!NeverStarved
=============================================================================
