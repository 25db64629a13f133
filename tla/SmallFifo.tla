----------------------------- MODULE SmallFifo ------------------------------
(***************************************************************************)
(* bsg_fifo_1r1w_small_unhardened: a queue in a register file that is read *)
(* in the cycle it is addressed (bsg_mem_1r1w).  A step is a clock edge.   *)
(***************************************************************************)
EXTENDS FifoTracker, Sequences

CONSTANTS
  Data,     \* the words enqueued
  Junk      \* what a memory word holds before it is ever written

VARIABLES
  mem,      \* mem_1r1w
  q         \* history: the words accepted and not yet given back

vars == <<tracker, mem, q>>

(* Outputs. *)
ready_param_o == ~full_o
v_o == ~empty_o
data_o == mem[rptr_r]

Init ==
  /\ TrackerReset
  /\ mem = [a \in Slots |-> Junk]
  /\ q = <<>>

(* Seeded fault: the word is written at the read pointer. *)
MutEdge(reset_i, enque, d, deque) ==
  /\ enque => ready_param_o
  /\ deque => v_o
  /\ TrackerEdge(reset_i, enque, deque)
  /\ mem' = IF enque THEN [mem EXCEPT ![rptr_r] = d] ELSE mem

(* An edge with v_i and ready_param_o high (enque), with yumi_i high       *)
(* (deque), both or neither; yumi_i is raised only when v_o is.            *)
Edge(reset_i, enque, d, deque) ==
  /\ enque => ready_param_o
  /\ deque => v_o
  /\ TrackerEdge(reset_i, enque, deque)
  /\ mem' = IF enque THEN [mem EXCEPT ![wptr_r] = d] ELSE mem

(* The words in flight after the handshakes of this edge. *)
Enqueued(enque, d) == IF enque THEN Append(q, d) ELSE q
InFlight(enque, d, deque) ==
  IF deque /\ q # <<>> THEN Tail(Enqueued(enque, d)) ELSE Enqueued(enque, d)

Clk ==
  \E enque, deque \in BOOLEAN, d \in Data :
    /\ Edge(FALSE, enque, d, deque)
    /\ q' = InFlight(enque, d, deque)

Reset ==
  \E enque, deque \in BOOLEAN, d \in Data :
    /\ Edge(TRUE, enque, d, deque)
    /\ q' = <<>>

Next == Clk \/ Reset

Spec == Init /\ [][Next]_vars

-----------------------------------------------------------------------------
(* Every register holds a value of its width. *)
TypeOK ==
  /\ TrackerTypeOK
  /\ mem \in [Slots -> Data \cup {Junk}]
  /\ q \in Seq(Data)

(* The two last-operation flops tell full from empty whatever mixture of   *)
(* operations led there: the queue accepts exactly while it has room, and  *)
(* offers a word exactly while it holds one.                               *)
ExactFlags ==
  /\ ready_param_o <=> Len(q) < els_p
  /\ v_o <=> q # <<>>
  /\ Len(q) <= els_p

(* The word offered is the oldest of those accepted and not yet taken.     *)
OldestFirst == v_o => q # <<>> /\ data_o = Head(q)

(* bsg_mem_1r1w is instantiated with read_write_same_addr_p = 0: a word is *)
(* never written at the address that is being read.                        *)
NoSameAddr == v_o /\ ready_param_o => rptr_r # wptr_r

(* What the memory holds between the two pointers.                         *)
Count ==
  IF full_o THEN els_p
  ELSE IF wptr_r >= rptr_r THEN wptr_r - rptr_r ELSE wptr_r - rptr_r + els_p

Slot(i) == Ahead(rptr_r, i - 1)

contents == [i \in 1 .. Count |-> mem[Slot(i)]]

(* The inductive invariant: the pointers are Len(q) slots apart, equal     *)
(* pointers carry the last operation that made them so, and the slots      *)
(* between them hold q.                                                    *)
PtrInv ==
  /\ Len(q) <= els_p
  /\ wptr_r = Ahead(rptr_r, Len(q))

FlagInv ==
  rptr_r = wptr_r => \/ Len(q) = 0 /\ deq_r /\ ~enq_r
                     \/ Len(q) = els_p /\ enq_r /\ ~deq_r

MemInv == \A i \in 1 .. Len(q) : mem[Slot(i)] = q[i]

IInv == TypeOK /\ PtrInv /\ FlagInv /\ MemInv

(* The registers, read as a queue, behave as a queue of depth els_p.       *)
Fifo == INSTANCE FifoSpec WITH Depth <- els_p, q <- contents
ImplementsFifo == Fifo!Spec

=============================================================================
