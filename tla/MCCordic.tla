------------------------------ MODULE MCCordic ------------------------------
(***************************************************************************)
(* The CORDIC generators for TLC: the arithmetic of nine generated units   *)
(* (numeric), the registers of four (pipeline) and those of the unit that  *)
(* converts to polar coordinates (polar).                                  *)
(***************************************************************************)
EXTENDS CordicPipe, CordicDatapath, TLC

VARIABLES unit, design, given, zero, step, regs, fed,
          x_in, polar, out_r, waits, offer, taken_in, delivered, stalled

-----------------------------------------------------------------------------
\* Sizes: one fraction bit more than the angles of the last stages need, and
\* for the exponential what the help script recommends for three maxima.  The
\* empty sequence at the end of TheUnits makes TLC compute the list once.
Hyperbolic(script, ans, ang) ==
  [script |-> script, neg |-> 1, pos |-> 6, prec |-> 8, ans |-> ans, ang |-> ang]
CircularUnit(script, ans) == [script |-> script, neg |-> 0, pos |-> 8, prec |-> 8, ans |-> ans, ang |-> 17]
Exponential(maxnum) == [script |-> "exponential"] @@ Recommended(maxnum, 6, 8)

TheUnits ==
  LET designs == << Exponential(31), Exponential(8), Exponential(174), Hyperbolic("natlog", 16, 12),
                    Hyperbolic("hyperbolic", 15, 11), Hyperbolic("atanh", 14, 11), CircularUnit("atan", 15),
                    CircularUnit("sine", 14), [scale |-> 12] @@ CircularUnit("polar", 15) >>
  IN  [i \in DOMAIN designs |-> Hardware(designs[i])] \o << >>
TheInverses == <<4, 4, 0, 1, 0, 5, 8, 9, 0>>

\* Every n-th operand from lo to hi, and the angles at least two degrees
\* from the ends of the quadrants.
Every(lo, hi, n) == {<<v>> : v \in {w \in lo..hi : (w - lo) % n = 0}}
Angles == {q \in Every(-46080, 46080, 101) : \A b \in {-180, -90, 0, 90, 180} : Abs(q[1] - b * 256) > 512}
Vectors == {-3000, -70, 500, 4000} \X {-2000, -600, 0, 3500}

TheOperands == << Every(-864, 864, 61), Every(-518, 518, 17), Every(-1200, 1200, 61), Every(256, 7424, 97),
                  Every(-864, 864, 61), Every(0, 4080, 51), {<<-700>>, <<5000>>}, Angles, Vectors >>

\* Of the units but the arctangent nothing depends on it.
TheZeros == [i \in DOMAIN TheOperands |-> IF i = 7 THEN Every(-7680, 7680, 211) ELSE {<<0>>}] \o << >>

ThePipes == {[kind |-> "hyperbolic", neg |-> 0, pos |-> 4], [kind |-> "hyperbolic", neg |-> 1, pos |-> 5],
             [kind |-> "circular", neg |-> 0, pos |-> 3], [kind |-> "sine", neg |-> 0, pos |-> 2]}

-----------------------------------------------------------------------------
Numeric == INSTANCE Cordic WITH Units <- TheUnits, Operands <- TheOperands, AtZero <- TheZeros, TakenBackBy <- TheInverses
Polar == INSTANCE PolarPipe WITH Stages <- 1, Quadrants <- {1, 2}, regs <- polar, out <- out_r, issued <- taken_in

numeric == <<design, given, zero, step, regs, fed>>
pipeline == <<pipe, slot, issued, taken, ready>>
polarity == <<x_in, polar, out_r, waits, offer, taken_in, delivered, stalled>>

NoNumeric == design = 1 /\ given = << >> /\ zero = << >> /\ step = 0 /\ regs = << >> /\ fed = << >>
NoPipe ==
  /\ pipe = (CHOOSE p \in Pipes : TRUE) /\ slot = [n \in 0..Last(pipe) |-> Empty]
  /\ issued = 0 /\ taken = 0 /\ ready = TRUE
NoPolar ==
  /\ x_in = << >> /\ polar = << >> /\ out_r = << >> /\ waits = FALSE /\ offer = << >>
  /\ taken_in = 0 /\ delivered = 0 /\ stalled = FALSE

MCInit ==
  \/ unit = "numeric" /\ Numeric!Init /\ NoPipe /\ NoPolar
  \/ unit = "pipeline" /\ Init /\ NoNumeric /\ NoPolar
  \/ unit = "polar" /\ Polar!Init /\ NoNumeric /\ NoPipe

NumericDone == unit = "numeric" /\ step = Len(Numeric!here.stages) /\ UNCHANGED <<unit, numeric, pipeline, polarity>>
NumericNext == unit = "numeric" /\ Numeric!Next /\ UNCHANGED <<unit, pipeline, polarity>>
PipelineNext == unit = "pipeline" /\ Next /\ UNCHANGED <<unit, numeric, polarity>>
PolarNext == unit = "polar" /\ Polar!Next /\ UNCHANGED <<unit, numeric, pipeline>>
MCNext == NumericNext \/ NumericDone \/ PipelineNext \/ PolarNext

allVars == <<unit, numeric, pipeline, polarity>>
MCSpec == MCInit /\ [][MCNext]_allVars /\ WF_allVars(PipelineNext) /\ []<>ready

Converges == unit = "numeric" => Numeric!Converges
FitsWidths == unit = "numeric" => Numeric!FitsWidths
RoundTrips == unit = "numeric" => Numeric!RoundTrips
NoneOvertakes == unit = "polar" => Polar!NoneOvertakes

-----------------------------------------------------------------------------
(* What the documentation says: of the sine unit, that its inputs are      *)
(* [-180, 180] degrees but for 0.05 degrees at the ends of a quadrant, and *)
(* of the polar unit, that it converges in all four quadrants.             *)
Ends == {13, 23027, 23053, 46067}
Whole == INSTANCE Cordic
  WITH Units <- TheUnits, AtZero <- TheZeros, TakenBackBy <- TheInverses,
       Operands <- [TheOperands EXCEPT ![8] = {<<a>> : a \in Ends \cup {-b : b \in Ends}}]

SineSpec == unit = "numeric" /\ Whole!Init /\ design = 8 /\ NoPipe /\ NoPolar /\ [][MCNext]_allVars

WholeCircle == unit = "numeric" => Numeric!WholeCircle
OwnQuadrant == unit = "polar" => Polar!OwnQuadrant
=============================================================================
