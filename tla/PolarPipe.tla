----------------------------- MODULE PolarPipe -----------------------------
(***************************************************************************)
(* The pipeline registers of the rectangular to polar unit.  Unlike those  *)
(* of the other CORDIC units they are not in step: the bits that put the   *)
(* angle back into its quadrant are taken from the input bus one register  *)
(* later than the magnitudes and read one register earlier than they, and  *)
(* the register behind the scaling is not frozen by a stall.  What is on   *)
(* the bus at a clock edge is a valid bit, the number of the operand, 0    *)
(* for none, and the quadrant that the inputs lie in.                      *)
(*                                                                         *)
(* The unit is ready only while a result is out, but takes whatever is on  *)
(* its bus at every edge that does not stall.  Its sender either takes no  *)
(* notice of ready_o, like the testbench, or waits for it and keeps its    *)
(* offer until then.                                                       *)
(***************************************************************************)
EXTENDS Integers

CONSTANTS Stages,      \* precis_p
          Quadrants,
          MaxOps       \* operands taken in a behaviour, a bound for TLC

VARIABLES x_in,        \* the input registers
          regs,        \* registers 0 .. Stages + 1, each with the quadrant bits beside it
          out,         \* scaling_ans_r, shift_ang_r and val_out
          waits,       \* whether the sender waits for ready_o
          offer,       \* the quadrant of the operand that waits, as a set
          issued, delivered, stalled
vars == <<x_in, regs, out, waits, offer, issued, delivered, stalled>>

Entry(v, op, own) == [v |-> v, op |-> op, own |-> own]
Beside(e, quad) == [e |-> e, quad |-> quad]

\* quad_x and quad_y, where angl_o takes them.
quad_o == regs[Stages + 1].quad
stall_pipe(ready_i) == out.v /\ ~ready_i
ready_o(ready_i) == ~stall_pipe(ready_i) /\ out.v

\* There is no reset: valid bits may be set with no operand behind them.
Init ==
  \E val \in [-1..(Stages + 2) -> BOOLEAN], q \in Quadrants :
    /\ x_in = Entry(val[-1], 0, q)
    /\ regs = [n \in 0..(Stages + 1) |-> Beside(Entry(val[n], 0, q), q)]
    /\ out = Entry(val[Stages + 2], 0, q)
    /\ waits \in BOOLEAN /\ offer = {}
    /\ issued = 0 /\ delivered = 0 /\ stalled = FALSE

MutMoved(bus) ==
  [n \in 0..(Stages + 1) |-> IF n = 0 THEN Beside(x_in, bus.own)
                             ELSE Beside(regs[n - 1].e, regs[0].quad)]
moved(bus) ==
  [n \in 0..(Stages + 1) |-> IF n = 0 THEN Beside(x_in, bus.own) ELSE regs[n - 1]]

\* A clock edge: a stall freezes all registers but the last.
Clock(v, q, ready_i) ==
  LET bus   == Entry(v, IF v THEN issued + 1 ELSE 0, q)
      taken == v /\ (waits => ready_o(ready_i))
  IN  /\ v => issued < MaxOps
      /\ \A waiting \in offer : v /\ q = waiting
      /\ out' = regs[Stages + 1].e
      /\ IF stall_pipe(ready_i)
         THEN UNCHANGED <<x_in, regs>>
         ELSE x_in' = bus /\ regs' = moved(bus)
      /\ issued' = IF taken THEN issued + 1 ELSE issued
      /\ offer' = IF v /\ ~taken THEN {q} ELSE {}
      /\ delivered' = IF out.v /\ ready_i /\ out.op # 0 THEN out.op ELSE delivered
      /\ stalled' = (stalled \/ stall_pipe(ready_i))
      /\ UNCHANGED waits

Next == \E v, ready_i \in BOOLEAN, q \in Quadrants : Clock(v, q, ready_i)

Spec == Init /\ [][Next]_vars

-----------------------------------------------------------------------------
Shown == out.v /\ out.op # 0

(* As long as the receiver stalls nothing, results come in the order of    *)
(* their operands and none is lost.  From a sender that takes no notice of *)
(* ready_o, as in the testbench, each comes once; one that waits can have  *)
(* its operand taken at every edge until a result is out, and gets its     *)
(* result as often.  Each has its own quadrant if the next two edges found *)
(* the inputs in the same one, as they always are in the testbench.        *)
NoneOvertakes ==
  Shown /\ ~stalled =>
    /\ out.op = delivered + 1 \/ (waits /\ out.op = delivered)
    /\ out.own = regs[Stages + 1].e.own /\ out.own = (IF Stages = 0 THEN regs[0] ELSE regs[Stages]).e.own
         => quad_o = out.own

(* Every result is put back into the quadrant of its own operand, which is *)
(* what the documentation of the unit says of all four quadrants.          *)
OwnQuadrant == Shown => quad_o = out.own
=============================================================================
