---------------------------- MODULE Fifo1r1wSmall ---------------------------
(***************************************************************************)
(* bsg_fifo_1r1w_small puts a queue in registers or, with harden_p, in a   *)
(* RAM, and says of the two that they "are functionally equivalent".  Here *)
(* both stand between the same clients, in step; the trackers they have,   *)
(* being given the same inputs, are one.                                   *)
(***************************************************************************)
EXTENDS SmallFifo

VARIABLES ram, data_o_mem, data_o_reg, read_write_same_addr_r

hardened == INSTANCE HardenedFifo WITH mem <- ram

both == <<vars, hardened!regs>>

BothInit == Init /\ hardened!HardenedInit

BothClk ==
  \E enque, deque \in BOOLEAN, d \in Data :
    /\ Edge(FALSE, enque, d, deque)
    /\ hardened!Edge(FALSE, enque, d, deque)
    /\ q' = InFlight(enque, d, deque)

BothReset ==
  \E enque, deque \in BOOLEAN, d \in Data :
    /\ Edge(TRUE, enque, d, deque)
    /\ hardened!Edge(TRUE, enque, d, deque)
    /\ q' = <<>>

BothNext == BothClk \/ BothReset

BothSpec == BothInit /\ [][BothNext]_both

-----------------------------------------------------------------------------
(* "Two implementations above are functionally equivalent": whenever they  *)
(* offer a word they offer the same one, whether the RAM fetched it in the *)
(* cycle its predecessor left or it was caught on its way in.              *)
SameWords == v_o => hardened!data_o = data_o

(* Why: behind the word on offer, which may be in no slot of the RAM, the  *)
(* slots between the pointers hold the words in flight.                    *)
OfferInv == q # <<>> => hardened!data_o = Head(q)
RamInv == \A i \in 2 .. Len(q) : ram[Slot(i)] = q[i]

HardenedInv == hardened!HardenedTypeOK /\ OfferInv /\ RamInv
=============================================================================
