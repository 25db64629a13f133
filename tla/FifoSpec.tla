------------------------------ MODULE FifoSpec ------------------------------
(***************************************************************************)
(* What every queue of the library promises: a first-in first-out buffer   *)
(* of bounded depth, in which one clock edge may enqueue, dequeue or do    *)
(* both, and which a reset empties.                                        *)
(***************************************************************************)
EXTENDS Naturals, Sequences

CONSTANTS
  Data,     \* the words it carries
  Depth     \* the most it holds

VARIABLE q  \* the words held, oldest first

Init == q = <<>>

Enq(d) == Len(q) < Depth /\ q' = Append(q, d)

Deq == q # <<>> /\ q' = Tail(q)

EnqDeq(d) == q # <<>> /\ q' = Append(Tail(q), d)

Reset == q' = <<>>

Next ==
  \/ \E d \in Data : Enq(d) \/ EnqDeq(d)
  \/ Deq
  \/ Reset

Spec == Init /\ [][Next]_q

=============================================================================
