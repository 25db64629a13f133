----------------------------- MODULE OneRwFifo ------------------------------
(***************************************************************************)
(* bsg_fifo_1rw_large: a queue in a single-ported RAM, which one edge can  *)
(* enqueue to or dequeue from but not both.  A word dequeued is on data_o  *)
(* in the next cycle only.                                                 *)
(***************************************************************************)
EXTENDS Integers

CONSTANTS
  els_p,
  Junk      \* what data_o shows when nothing was read

VARIABLES
  rd_ptr, wr_ptr, last_op_is_read_r,
  mem,      \* mem_1srw
  data_o

Slots == 0 .. els_p - 1

(* bsg_circular_ptr: the slot after p. *)
Succ(p) == IF p = els_p - 1 THEN 0 ELSE p + 1

full_o == rd_ptr = wr_ptr /\ ~last_op_is_read_r
empty_o == rd_ptr = wr_ptr /\ last_op_is_read_r

OneRwInit ==
  /\ rd_ptr = 0 /\ wr_ptr = 0 /\ last_op_is_read_r = TRUE
  /\ mem = [a \in Slots |-> Junk] /\ data_o = Junk

(* An edge on which the RAM is written (mem_we), read (mem_re) or idle.   *)
(* The registers are held in reset, the RAM is not.                        *)
OneRwEdge(reset_i, mem_we, mem_re, d) ==
  /\ mem' = IF mem_we THEN [mem EXCEPT ![wr_ptr] = d] ELSE mem
  /\ data_o' = IF mem_re THEN mem[rd_ptr] ELSE Junk
  /\ IF reset_i
       THEN rd_ptr' = 0 /\ wr_ptr' = 0 /\ last_op_is_read_r' = TRUE
       ELSE /\ rd_ptr' = IF mem_re THEN Succ(rd_ptr) ELSE rd_ptr
            /\ wr_ptr' = IF mem_we THEN Succ(wr_ptr) ELSE wr_ptr
            /\ last_op_is_read_r' =
                 IF mem_we \/ mem_re THEN mem_re ELSE last_op_is_read_r

(* How many words it holds. *)
Count ==
  IF full_o THEN els_p
  ELSE IF wr_ptr >= rd_ptr THEN wr_ptr - rd_ptr ELSE wr_ptr - rd_ptr + els_p

=============================================================================
