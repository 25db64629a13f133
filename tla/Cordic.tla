------------------------------- MODULE Cordic -------------------------------
(***************************************************************************)
(* One operand on its way through a generated CORDIC pipeline, one stage   *)
(* per step, and then, as a check, through the pipeline of the inverse     *)
(* function, which another script generated with tables of its own.        *)
(***************************************************************************)
EXTENDS CordicDatapath

CONSTANTS Units,         \* a sequence of designs, as Hardware describes them
          Operands,      \* the operands given to each design
          AtZero,        \* what may stand on the input ports of each at time zero
          TakenBackBy    \* the design that takes back each design's result, 0 for none

VARIABLES design, given, zero, step, regs, fed
vars == <<design, given, zero, step, regs, fed>>

-----------------------------------------------------------------------------
None == [design |-> 0, given |-> <<>>]
here == Units[design]
result_o == result(here, regs)

\* The operand whose function the unit computes.
operand == IF here.d.script = "atan" THEN zero ELSE given

\* What of a result the inverse function takes.
handed(d, res) == IF d.script = "natlog" THEN <<res[2]>> ELSE res

Init ==
  /\ design \in DOMAIN Units
  /\ given \in Operands[design]
  /\ zero \in AtZero[design]
  /\ step = 0
  /\ regs = load(here, given, zero)
  /\ fed = None

Iterate ==
  /\ step < Len(here.stages)
  /\ step' = step + 1
  /\ regs' = LET v == computed(here.d, here.stages[step + 1], regs)
          IN  [v EXCEPT !.x = Wrap(v.x, here.d.ans), !.y = Wrap(v.y, here.d.ans),
                        !.ang = Wrap(v.ang, here.d.ang)]
  /\ UNCHANGED <<design, given, zero, fed>>

\* The result goes through the pipeline of the inverse function.
TakeBack ==
  /\ step = Len(here.stages)
  /\ fed = None /\ TakenBackBy[design] # 0
  /\ fed' = [design |-> design, given |-> operand]
  /\ design' = TakenBackBy[design]
  /\ given' = handed(here.d, result_o)
  /\ zero' \in AtZero[design']
  /\ step' = 0
  /\ regs' = load(Units[design'], given', zero')

Next == Iterate \/ TakeBack
Spec == Init /\ [][Next]_vars

-----------------------------------------------------------------------------
\* What the stages that follow can rotate, and once more the last of them;
\* their table entries are cut to prec bits, so one more unit for each.
Remaining ==
  LET last == Len(here.stages)
  IN  MapThenSumSet(LAMBDA n : here.stages[n].lookup, (step + 1)..last)
        + here.stages[last].lookup + last - step + 1

(* The angle still to be rotated never exceeds what the stages that follow *)
(* can rotate, which is why the scripts repeat the fourth positive         *)
(* iteration, and what bounds the error of the result.                     *)
Converges == here.d.script \in Rotating => Abs(regs.ang) <= Remaining

(* The sine unit turns every angle of its documented domain down to the    *)
(* last elementary angle.                                                  *)
WholeCircle == here.d.script = "sine" /\ step = Len(here.stages) => Abs(regs.ang) <= Remaining

(* No sum in the pipeline leaves the width of its register: neither with   *)
(* the widths that bsg_exponential_help.py recommends, nor with those of   *)
(* the other designs, wherever the operand is in the domain.               *)
FitsWidths ==
  step < Len(here.stages) =>
    LET v == computed(here.d, here.stages[step + 1], regs)
    IN  Fits(v.x, here.d.ans) /\ Fits(v.y, here.d.ans) /\ Fits(v.ang, here.d.ang)

\* Whether result res of the inverse gives back operand q of design d, up
\* to the error of both: an angle to 1/8 of a radian or half a degree, a
\* quantity to a sixteenth, a slope to a 64th.
GivesBack(d, q, res) ==
  CASE d.script = "exponential" -> q[1] >= 0 => Abs(res[2] - q[1]) <= 2^(d.prec - 3)
    [] d.script = "natlog"      -> Abs(res[1] - q[1]) <= q[1] \div 16
    [] d.script = "atanh"       -> Abs(res[2] * 2^(d.ans - 2) - q[1] * res[1]) <= res[1] * 2^(d.ans - 7)
    [] d.script = "atan"        -> Abs(res[2] * 2^d.prec - q[1] * res[1]) <= 2^7 * (2^d.prec + Abs(q[1]))
    [] d.script = "sine"        -> Abs(res[2] - q[1]) <= 2^(d.prec - 1)

\* The square root of a quantity that is not below one.
IsRoot(d, q, res) ==
  q[1] >= 2^d.prec => Abs(res[1] * res[1] - q[1] * 2^d.prec) <= q[1] * 2^(d.prec - 4)

(* A generated pipeline and the one of its inverse, generated by another   *)
(* script with tables of its own, agree: the logarithm of the exponential, *)
(* the exponential of the logarithm, the hyperbolic sine and cosine of the *)
(* inverse hyperbolic tangent, the sine and cosine of the arc tangent and  *)
(* the polar angle of a sine and a cosine give back the operand, and the   *)
(* square of a square root is its operand.  The operand of the arctangent  *)
(* is the one that stood on its input at time zero, whatever is given it.  *)
RoundTrips ==
  step = Len(here.stages) =>
    /\ fed # None => GivesBack(Units[fed.design].d, fed.given, result_o)
    /\ here.d.script = "natlog" => IsRoot(here.d, given, result_o)
=============================================================================
