---------------------------- MODULE HardenedFifo ----------------------------
(***************************************************************************)
(* bsg_fifo_1r1w_small_hardened: the small queue over a RAM that answers   *)
(* one cycle after it is addressed (bsg_mem_1r1w_sync keeping its last     *)
(* read).  The word to offer next is fetched ahead, at rptr_n; when that   *)
(* is the word being written the RAM is left alone and the word goes to a  *)
(* bypass register instead, for good.  What the two sides of the queue do  *)
(* at an edge is for the module that composes this one to say.             *)
(***************************************************************************)
EXTENDS FifoTracker

CONSTANTS
  Data,     \* the words enqueued
  Junk      \* what a memory word or register holds before it is written

VARIABLES
  mem,                      \* mem_1r1w_sync
  data_o_mem,               \* its output, held until the next read
  data_o_reg,               \* bypass_reg
  read_write_same_addr_r    \* the word to offer is in bypass_reg

regs == <<mem, data_o_mem, data_o_reg, read_write_same_addr_r>>

(* Outputs. *)
ready_param_o == ~full_o
v_o == ~empty_o
data_o == IF read_write_same_addr_r THEN data_o_reg ELSE data_o_mem

HardenedInit ==
  /\ mem = [a \in Slots |-> Junk]
  /\ data_o_mem = Junk /\ data_o_reg = Junk
  /\ read_write_same_addr_r = FALSE

(* An access each to the RAM, unless they would meet at one address; the   *)
(* output keeps the last word read. *)
MemStep(enque, d, deque) ==
  /\ mem' = IF enque /\ wptr_r # rptr_n(deque)
              THEN [mem EXCEPT ![wptr_r] = d] ELSE mem
  /\ data_o_mem' = IF deque /\ wptr_r # rptr_n(deque)
                     THEN mem'[rptr_n(deque)] ELSE data_o_mem

read_write_same_addr_n(enque, deque) == enque /\ wptr_r = rptr_n(deque)

(* Seeded fault: a dequeue clears the flag even when a word is caught. *)
MutBypassStep(reset_i, enque, d, deque) ==
  /\ data_o_reg' = IF read_write_same_addr_n(enque, deque) THEN d ELSE data_o_reg
  /\ read_write_same_addr_r' =
       /\ ~reset_i
       /\ ~deque
       /\ read_write_same_addr_n(enque, deque) \/ read_write_same_addr_r

(* Setting the flag wins over clearing it. *)
BypassStep(reset_i, enque, d, deque) ==
  /\ data_o_reg' = IF read_write_same_addr_n(enque, deque) THEN d ELSE data_o_reg
  /\ read_write_same_addr_r' =
       /\ ~reset_i
       /\ \/ read_write_same_addr_n(enque, deque)
          \/ read_write_same_addr_r /\ ~deque

Edge(reset_i, enque, d, deque) ==
  /\ enque => ready_param_o
  /\ deque => v_o
  /\ TrackerEdge(reset_i, enque, deque)
  /\ MemStep(enque, d, deque)
  /\ BypassStep(reset_i, enque, d, deque)

-----------------------------------------------------------------------------
(* Every register holds a value of its width. *)
HardenedTypeOK ==
  /\ mem \in [Slots -> Data \cup {Junk}]
  /\ data_o_mem \in Data \cup {Junk} /\ data_o_reg \in Data \cup {Junk}
  /\ read_write_same_addr_r \in BOOLEAN
=============================================================================
