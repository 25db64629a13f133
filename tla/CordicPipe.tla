----------------------------- MODULE CordicPipe -----------------------------
(***************************************************************************)
(* The pipeline registers of a generated CORDIC unit, of every kind but    *)
(* rectangular to polar: a valid bit and an operand per register, a stall  *)
(* that freezes all of them, and no reset, so that at power-up a register  *)
(* may hold a valid bit with no operand behind it.  An operand is its      *)
(* number in the order in which the unit took them, from 1; 0 is what was  *)
(* there at power-up.  did is the iterations an operand has been through.  *)
(* The operand of a register is the one that came with its valid bit; that *)
(* the arctangent unit computes with another is in CordicDatapath.         *)
(***************************************************************************)
EXTENDS CordicWiring, Sequences

CONSTANTS Pipes,       \* the units: records kind, neg and pos
          MaxOps       \* operands taken in a behaviour, a bound for TLC

ASSUME PipesAssumption ==
  /\ Pipes \subseteq [kind : {"hyperbolic", "circular", "sine"}, neg : Nat, pos : Nat]
  /\ \A p \in Pipes : p.kind = "hyperbolic" => p.pos \in 4..11
  /\ MaxOps \in Nat

VARIABLES pipe, slot, issued, taken, ready
vars == <<pipe, slot, issued, taken, ready>>

-----------------------------------------------------------------------------
(* The sine unit has one more register in front, which folds the angle.    *)
Last(p) ==
  IF p.kind = "hyperbolic" THEN hyperbolic_last(p.neg, p.pos)
  ELSE IF p.kind = "circular" THEN circular_last(p.pos)
  ELSE circular_last(p.pos) + 1

sine_drivers(precis, n) ==
  IF n = 1 THEN {wire(0, -1)} ELSE {wire(w.from + 1, w.iter) : w \in circular_drivers(precis, n - 1)}

drivers(p, n) ==
  IF p.kind = "hyperbolic" THEN hyperbolic_drivers(p.neg, p.pos, n)
  ELSE IF p.kind = "circular" THEN circular_drivers(p.pos, n)
  ELSE sine_drivers(p.pos, n)

\* The one driver of register n.
MutDriver(p, n) ==
  IF p.kind = "hyperbolic" /\ n = p.neg + 6 THEN wire(n - 1, n - 1) ELSE CHOOSE w \in drivers(p, n) : TRUE
driver(p, n) == CHOOSE w \in drivers(p, n) : TRUE

Loaded(v, op) == [v |-> v, op |-> op, did |-> << >>]
Empty == Loaded(FALSE, 0)
through(s, i) == IF i < 0 \/ s.op = 0 THEN s ELSE [s EXCEPT !.did = Append(@, i)]

out == slot[Last(pipe)]
MutStall(ready_i) == FALSE
stall_pipe(ready_i) == out.v /\ ~ready_i

-----------------------------------------------------------------------------
Init ==
  /\ pipe \in Pipes
  /\ slot \in [0..Last(pipe) -> {Empty, Loaded(TRUE, 0)}]
  /\ issued = 0 /\ taken = 0
  /\ ready = TRUE

offered(val_i) == IF val_i THEN Loaded(TRUE, issued + 1) ELSE Empty

MutShifted(val_i) ==
  [n \in 0..Last(pipe) |->
     IF n = 0 THEN offered(val_i)
     ELSE LET w == driver(pipe, n) IN
            IF slot[w.from].v THEN through(slot[w.from], w.iter) ELSE slot[n]]
shifted(val_i) ==
  [n \in 0..Last(pipe) |->
     IF n = 0 THEN offered(val_i)
     ELSE LET w == driver(pipe, n) IN through(slot[w.from], w.iter)]

\* A clock edge: the operand offered is taken and the result that is out is
\* left behind, unless the unit stalls.
Clock(val_i, ready_i) ==
  /\ val_i => issued < MaxOps
  /\ ready' = ready_i
  /\ IF stall_pipe(ready_i)
     THEN UNCHANGED <<slot, issued>>
     ELSE /\ slot' = shifted(val_i)
          /\ issued' = IF val_i THEN issued + 1 ELSE issued
  /\ taken' = IF out.v /\ ready_i /\ out.op # 0 THEN out.op ELSE taken
  /\ UNCHANGED pipe

Next == \E val_i, ready_i \in BOOLEAN : Clock(val_i, ready_i)

(* The clock runs, and the receiver is ready again and again.              *)
Spec == Init /\ [][Next]_vars
Fairness == WF_vars(Next) /\ []<>ready

-----------------------------------------------------------------------------
Valid == {n \in 0..Last(pipe) : slot[n].v}

(* Results come out in the order of the operands and none is lost or       *)
(* delivered twice, however the receiver stalls: the operands in the unit  *)
(* are those taken and not delivered, the older ones further on, and what  *)
(* was there at power-up is ahead of them all.                             *)
InOrder ==
  /\ {slot[n].op : n \in Valid} \ {0} = (taken + 1)..issued
  /\ \A a, b \in Valid : a < b /\ slot[b].op # 0 => slot[b].op < slot[a].op

\* The iterations of a whole pipeline; the fourth positive one is repeated.
Schedule(p) ==
  IF p.kind = "hyperbolic"
  THEN [i \in 1..(p.neg + p.pos + 2) |-> IF i <= p.neg + 5 THEN i - 1 ELSE i - 2]
  ELSE [i \in 1..(p.pos + 1) |-> i - 1]

(* A result has been through every iteration, in order, whatever stalls    *)
(* there were on its way.                                                  *)
EveryIteration == out.v /\ out.op # 0 => out.did = Schedule(pipe)

(* Every operand taken is delivered.                                       *)
Delivered == \A n \in 1..MaxOps : issued >= n ~> taken >= n
=============================================================================
