-------------------------- MODULE PseudoLargeFifo ---------------------------
(***************************************************************************)
(* bsg_fifo_1r1w_pseudo_large: a large queue in a single-ported RAM, with  *)
(* a queue of two words at its output that is refilled from the RAM in the *)
(* cycles in which nothing is enqueued.                                    *)
(***************************************************************************)
EXTENDS Integers, Sequences

CONSTANTS
  els_p,          \* places in the RAM, at least one
  early_yumi_p,   \* may yumi_i come early enough to make room for a word?
  Data, Junk

VARIABLES
  rd_ptr, wr_ptr, last_op_is_read_r, mem, big_data_lo,  \* big1p
  head_r, tail_r, empty_r, full_r, little_mem,          \* little2p
  big_deq_r,
  q,                  \* history: the words accepted and not yet taken
  last_v, last_yumi,  \* history: the handshakes of the last edge
  half_rate           \* history: neither has come twice in a row so far

big == <<rd_ptr, wr_ptr, last_op_is_read_r, mem, big_data_lo>>
little == <<head_r, tail_r, empty_r, full_r, little_mem>>
client == <<q, last_v, last_yumi, half_rate>>
vars == <<big, little, big_deq_r, client>>

big1p == INSTANCE OneRwFifo WITH data_o <- big_data_lo
little2p == INSTANCE TwoFifo WITH
              allow_enq_deq_on_full_p <- early_yumi_p, mem <- little_mem

(* Outputs. *)
ready_and_o == ~big1p!full_o
v_o == little2p!v_o

little_will_have_space(yumi_i) ==
  little2p!ready_param_o \/ (early_yumi_p /\ yumi_i)

Init ==
  /\ big1p!OneRwInit
  /\ little2p!TwoInit
  /\ big_deq_r = FALSE
  /\ q = <<>> /\ last_v = FALSE /\ last_yumi = FALSE /\ half_rate = TRUE

-----------------------------------------------------------------------------
(* Who gets the RAM and who gets the output queue in a cycle.              *)
big_enq(v_i, yumi_i) ==
  v_i /\ IF big_deq_r THEN TRUE
         ELSE IF big1p!empty_o THEN ~little_will_have_space(yumi_i)
         ELSE ready_and_o

(* Seeded fault: the RAM is read only once the output queue is empty. *)
MutLazyDeq(v_i, yumi_i) ==
  ~big1p!empty_o /\ ~big_enq(v_i, yumi_i) /\ ~v_o

big_deq(v_i, yumi_i) ==
  /\ ~big1p!empty_o
  /\ ~big_enq(v_i, yumi_i)
  /\ IF big_deq_r THEN ~v_o ELSE little_will_have_space(yumi_i)

(* The word that enters the output queue, if any: the one fetched from the *)
(* RAM, or one that bypasses an empty RAM.                                 *)
little_valid(v_i, yumi_i) ==
  \/ big_deq_r
  \/ big1p!empty_o /\ v_i /\ little_will_have_space(yumi_i)

little_data(d) == IF big_deq_r THEN big_data_lo ELSE d

LittleEdge(reset_i, v_i, d, yumi_i) ==
  little2p!Edge(reset_i, little_valid(v_i, yumi_i), little_data(d), yumi_i)

BigEdge(reset_i, v_i, d, yumi_i) ==
  big1p!OneRwEdge(reset_i, big_enq(v_i, yumi_i), big_deq(v_i, yumi_i), d)

Edge(reset_i, v_i, d, yumi_i) ==
  /\ LittleEdge(reset_i, v_i, d, yumi_i)
  /\ BigEdge(reset_i, v_i, d, yumi_i)
  /\ big_deq_r' = (~reset_i /\ big_deq(v_i, yumi_i))

(* v_i may be raised while ready_and_o is low; the word is then not taken. *)
Clk ==
  \E v_i, yumi_i \in BOOLEAN, d \in Data :
    /\ yumi_i => v_o
    /\ Edge(FALSE, v_i, d, yumi_i)
    /\ LET s == IF v_i /\ ready_and_o THEN Append(q, d) ELSE q
       IN  q' = IF yumi_i /\ s # <<>> THEN Tail(s) ELSE s
    /\ last_v' = v_i /\ last_yumi' = yumi_i
    /\ half_rate' = (half_rate /\ ~(last_v /\ v_i) /\ ~(last_yumi /\ yumi_i))

Reset ==
  /\ \E v_i, yumi_i \in BOOLEAN, d \in Data : Edge(TRUE, v_i, d, yumi_i)
  /\ q' = <<>> /\ last_v' = FALSE /\ last_yumi' = FALSE /\ half_rate' = TRUE

Next == Clk \/ Reset

Spec == Init /\ [][Next]_vars

-----------------------------------------------------------------------------
(* The three places a word can be in, oldest first: the output queue, the  *)
(* word the RAM is delivering, the RAM.                                    *)
contents ==
  little2p!contents \o (IF big_deq_r THEN <<big_data_lo>> ELSE <<>>)
    \o [i \in 1 .. big1p!Count |-> mem[(rd_ptr + i - 1) % els_p]]

(* No word is lost, duplicated or overtaken, whichever way it went.        *)
NothingLost == contents = q

(* "the FIFO will report that data is available when there is data         *)
(* available", for clients that enqueue and dequeue at most every other    *)
(* cycle: a receiver that did not take a word in the last cycle finds one  *)
(* whenever there is any, however the port of the RAM is shared.  In the   *)
(* cycle after it took one it may not, and does not look.                  *)
NeverStarved == half_rate /\ q # <<>> /\ ~last_yumi => v_o
=============================================================================
