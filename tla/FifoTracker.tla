---------------------------- MODULE FifoTracker -----------------------------
(***************************************************************************)
(* bsg_fifo_tracker: the read and write pointers of a queue of els_p words *)
(* and the two flops that tell a full queue from an empty one.  A pointer  *)
(* is a bsg_circular_ptr that adds at most one.                            *)
(***************************************************************************)
EXTENDS Integers

CONSTANT els_p

ASSUME ElsAssumption == els_p \in Nat \ {0}

VARIABLES
  rptr_r, wptr_r,   \* where the next word is read and written
  enq_r, deq_r      \* the last operation, one or both

tracker == <<rptr_r, wptr_r, enq_r, deq_r>>

Slots == 0 .. els_p - 1

TrackerTypeOK ==
  /\ rptr_r \in Slots /\ wptr_r \in Slots
  /\ enq_r \in BOOLEAN /\ deq_r \in BOOLEAN

(* Seeded fault: the pointer of a queue whose size is not a power of two   *)
(* is left to wrap by itself. *)
MutSucc(p) == p + 1

(* bsg_circular_ptr: the slot after p. *)
Succ(p) == IF p = els_p - 1 THEN 0 ELSE p + 1

(* The slot n places after p, for n up to els_p. *)
Ahead(p, n) == IF p + n < els_p THEN p + n ELSE p + n - els_p

(* The read pointer as it will be after this edge. *)
rptr_n(deq_i) == IF deq_i THEN Succ(rptr_r) ELSE rptr_r

(* Seeded fault: full needs the last operation to have been both. *)
MutFull == rptr_r = wptr_r /\ enq_r /\ deq_r

full_o  == rptr_r = wptr_r /\ enq_r
empty_o == rptr_r = wptr_r /\ deq_r

(* Reset leaves the pointers equal and the last operation a dequeue. *)
TrackerReset ==
  /\ rptr_r = 0 /\ wptr_r = 0
  /\ enq_r = FALSE /\ deq_r = TRUE

(* A clock edge: an idle one keeps the last operation. *)
TrackerEdge(reset_i, enq_i, deq_i) ==
  IF reset_i
    THEN /\ rptr_r' = 0 /\ wptr_r' = 0
         /\ enq_r' = FALSE /\ deq_r' = TRUE
    ELSE /\ rptr_r' = rptr_n(deq_i)
         /\ wptr_r' = IF enq_i THEN Succ(wptr_r) ELSE wptr_r
         /\ enq_r' = IF enq_i \/ deq_i THEN enq_i ELSE enq_r
         /\ deq_r' = IF enq_i \/ deq_i THEN deq_i ELSE deq_r
=============================================================================
