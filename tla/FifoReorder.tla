---------------------------- MODULE FifoReorder -----------------------------
(***************************************************************************)
(* bsg_fifo_reorder: ids are handed out in order, the words for them are   *)
(* written in any order, and the words leave in the order of their ids.    *)
(* The id is the slot: it is used again as soon as its word has left.      *)
(***************************************************************************)
EXTENDS FifoTracker, Sequences

CONSTANTS
  Data,       \* the words written
  NoWord      \* in place of a word that has not been written

ReorderAssumption == els_p \in Nat \ {0} /\ NoWord \notin Data

VARIABLES
  valid_r,    \* the slots whose word has been written and not yet dequeued
  mem,        \* mem_1r1w
  tickets     \* history: the ids handed out and not yet dequeued, oldest
              \* first, each with the word written for it or NoWord

vars == <<tracker, valid_r, mem, tickets>>

(* Outputs. *)
fifo_alloc_v_o  == ~full_o
fifo_alloc_id_o == wptr_r
(* Seeded fault: a slot is dequeued without its valid bit. *)
MutDeqV         == ~empty_o
fifo_deq_v_o    == rptr_r \in valid_r /\ ~empty_o
fifo_deq_data_o == mem[rptr_r]

Init ==
  /\ TrackerReset
  /\ valid_r = {}
  /\ mem = [a \in Slots |-> NoWord]
  /\ tickets = <<>>

(* The writes of an edge, a set of at most one, for the ids Ids.           *)
Writes(Ids) == {{}} \cup {{wr} : wr \in [id : Ids, word : Data]}
Written(wrs) == {wr.id : wr \in wrs}

(* bsg_dff_reset_set_clear: set has priority over clear. *)
ValidNext(set, clear) == (valid_r \ clear) \cup set

Edge(reset_i, alloc_yumi, wrs, deq) ==
  /\ TrackerEdge(reset_i, fifo_alloc_v_o /\ alloc_yumi, deq)
  /\ valid_r' = IF reset_i THEN {}
                ELSE ValidNext(Written(wrs), IF deq THEN {rptr_r} ELSE {})
  /\ mem' = [a \in Slots |-> IF a \in Written(wrs)
                               THEN (CHOOSE wr \in wrs : wr.id = a).word
                               ELSE mem[a]]

(* The tickets with the one handed out at this edge, and with the word     *)
(* written at this edge.                                                   *)
Given(alloc) ==
  IF alloc THEN Append(tickets, [id |-> fifo_alloc_id_o, word |-> NoWord])
  ELSE tickets
Filled(alloc, wrs) ==
  [i \in DOMAIN Given(alloc) |->
     IF Given(alloc)[i].id \in Written(wrs)
       THEN CHOOSE wr \in wrs : wr.id = Given(alloc)[i].id
       ELSE Given(alloc)[i]]

(* The ids a client may write: those it holds and has not written yet, the *)
(* one it takes at this very edge included.                                *)
Open(alloc) ==
  {Given(alloc)[i].id :
     i \in {j \in DOMAIN Given(alloc) : Given(alloc)[j].word = NoWord}}

Step(alloc, wrs, deq) ==
  /\ alloc => fifo_alloc_v_o
  /\ deq => fifo_deq_v_o
  /\ wrs \in Writes(Open(alloc))
  /\ Edge(FALSE, alloc, wrs, deq)
  /\ tickets' = IF deq /\ tickets # <<>> THEN Tail(Filled(alloc, wrs))
                ELSE Filled(alloc, wrs)

Clk ==
  \E alloc, deq \in BOOLEAN, wrs \in Writes(Slots) : Step(alloc, wrs, deq)

Reset ==
  \E alloc, deq \in BOOLEAN, wrs \in Writes(Slots) :
    /\ Edge(TRUE, alloc, wrs, deq)
    /\ tickets' = <<>>

Next == Clk \/ Reset

Spec == Init /\ [][Next]_vars

-----------------------------------------------------------------------------
(* A word is offered exactly when the oldest id has been written, however  *)
(* many younger ids were written before it, and it is the word written for *)
(* that id and not one left in the slot by an earlier owner.               *)
OwnWord ==
  /\ fifo_deq_v_o <=> tickets # <<>> /\ Head(tickets).word # NoWord
  /\ fifo_deq_v_o => fifo_deq_data_o = Head(tickets).word
=============================================================================
