--------------------------- MODULE CordicDatapath ---------------------------
(***************************************************************************)
(* The arithmetic of a generated CORDIC pipeline: what the first register  *)
(* takes from an operand, what a stage computes, and what the outputs show *)
(* of the last register.  A design is the script that generated it with    *)
(* the arguments of the script; operands and results are fixed-point       *)
(* integers in two's complement of the width of their port.                *)
(***************************************************************************)
EXTENDS CordicTables, CordicWiring

Abs(v) == IF v < 0 THEN -v ELSE v
Wrap(v, w) == ((v + 2^(w - 1)) % (2^w)) - 2^(w - 1)
Fits(v, w) == -(2^(w - 1)) <= v /\ v < 2^(w - 1)

\* The last eight bits below the sign of an angle.
DegreesOf(d, a) == (a \div 2^(d.ang - 9)) % 256
Degrees(d, n) == n * 2^d.prec

-----------------------------------------------------------------------------
(* What each script prints.  The tables of a design are its elementary     *)
(* angles and start values, its load is what the first register takes from *)
(* the operand, and its result what the output ports show of the last one. *)

Gain(d) == RoundedSqrt(constant_compute(d))

\* bsg_exponential_script.py
exponential_tables(d) == [ang_lookup |-> lookup_compute(d), x |-> Gain(d), y |-> Gain(d)]
exponential_load(d, t, q) == [x |-> t.x, y |-> t.y, ang |-> q[1]]
exponential_result(d, v) == <<v.x>>

\* bsg_sine_cosine_hyperbolic_script.py
hyperbolic_tables(d) == [ang_lookup |-> lookup_compute(d), x |-> Gain(d), y |-> 0]
hyperbolic_load(d, t, q) == [x |-> t.x, y |-> t.y, ang |-> q[1]]
hyperbolic_result(d, v) == <<v.x, v.y>>

\* bsg_cordic_squaroot_natlog.py: a quarter of the squared constant, and
\* half its logarithm.
MutNatlogTables(d) ==
  [ang_lookup |-> lookup_compute(d),
   start |-> Rounded(constant_compute(d), d.prec),
   ang |-> Rounded(log_constant(d) - 2 * Ln2, Frac + 1 - d.prec)]
natlog_tables(d) ==
  [ang_lookup |-> lookup_compute(d),
   start |-> Rounded(constant_compute(d), d.prec + 2),
   ang |-> Rounded(log_constant(d) - 2 * Ln2, Frac + 1 - d.prec)]
natlog_load(d, t, q) ==
  [x |-> Wrap(t.start + q[1], d.ans), y |-> Wrap(q[1] - t.start, d.ans), ang |-> t.ang]
natlog_result(d, v) == <<v.x, Wrap(2 * v.ang, d.ang)>>

\* bsg_atanh_script.py: x starts at one.
atanh_tables(d) == [ang_lookup |-> lookup_compute(d), x |-> 2^(d.ans - 2)]
atanh_load(d, t, q) == [x |-> t.x, y |-> q[1], ang |-> 0]
atanh_result(d, v) == <<v.ang>>

\* bsg_atan_script.py: the sign travels beside the magnitude.  Both come from
\* in_sign_op and in_quant, variables with an initialiser: they have what it
\* made of the input at time zero, and no later operand changes them.
atan_tables(d) == [ang_lookup |-> circular_lookup(d), x |-> 2^d.prec]
atan_load(d, t, zero) == [x |-> t.x, y |-> Wrap(Abs(zero[1]), d.ans), ang |-> 0, sign |-> zero[1] < 0]
atan_result(d, v) == <<IF v.sign THEN Wrap(-v.ang, d.ang) ELSE v.ang>>

\* bsg_sine_cosine_script.py: the angle is folded into the first quadrant,
\* or, within a degree of its ends, left outside.
sine_tables(d) == [ang_lookup |-> circular_lookup(d), x |-> circular_constant(d, d.ans), y |-> 0]
quadrant(d, a) ==
  LET outer == IF a >= 0 THEN 90 < DegreesOf(d, a) /\ DegreesOf(d, a) < 180
                         ELSE 76 < DegreesOf(d, a) /\ DegreesOf(d, a) < 166
  IN  [ang |-> Wrap(IF a >= 0 THEN (IF outer THEN Degrees(d, 180) - a ELSE a)
                              ELSE (IF outer THEN Degrees(d, 180) + a ELSE -a), d.ang),
       cos |-> outer, sin |-> a < 0]
sine_load(d, t, q) ==
  LET f == quadrant(d, q[1]) IN [x |-> t.x, y |-> t.y, ang |-> f.ang, cos |-> f.cos, sin |-> f.sin]
sine_result(d, v) == <<IF v.cos THEN Wrap(-v.x, d.ans) ELSE v.x, IF v.sin THEN Wrap(-v.y, d.ans) ELSE v.y>>

\* bsg_hypotenuse_script.py: the larger magnitude is x, and the angle is
\* put back into its octant and quadrant.  Of an operand that stays on the
\* inputs until the result is out, so that its quadrant bits are its own.
polar_tables(d) == [ang_lookup |-> circular_lookup(d), scale |-> circular_constant(d, d.scale)]
polar_load(d, t, q) ==
  LET ax == Wrap(Abs(q[1]), d.ans)  ay == Wrap(Abs(q[2]), d.ans)
  IN  [x |-> IF ax < ay THEN ay ELSE ax, y |-> IF ax < ay THEN ax ELSE ay, ang |-> 0,
       switch |-> ax < ay, quad_x |-> q[1] < 0, quad_y |-> q[2] < 0]
polar_result(d, t, v) ==
  LET first  == IF v.switch THEN Degrees(d, 90) - v.ang ELSE v.ang
      second == IF v.quad_x THEN Degrees(d, 180) - first ELSE first
  IN  <<Wrap((v.x * t.scale) \div 2^(d.scale - 1), d.ans),
        Wrap(IF v.quad_y THEN -second ELSE second, d.ang)>>

-----------------------------------------------------------------------------
(* The stages.                                                             *)

Circular == {"atan", "sine", "polar"}
Rotating == {"exponential", "hyperbolic", "sine"}   \* ang is driven to zero

stages(d) == IF d.script \in Circular THEN circular_last(d.pos) ELSE hyperbolic_last(d.neg, d.pos)

\* The iteration that loads register n, where one driver does.
MutIteration(d, n) ==
  IF d.script \in Circular \/ n <= d.neg + d.pos + 1 THEN n - 1 ELSE n - 2
iteration(d, n) ==
  LET drivers == IF d.script \in Circular THEN circular_drivers(d.pos, n)
                                          ELSE hyperbolic_drivers(d.neg, d.pos, n)
  IN  (CHOOSE w \in drivers : TRUE).iter

tables(d) ==
  CASE d.script = "exponential" -> exponential_tables(d)
    [] d.script = "hyperbolic"  -> hyperbolic_tables(d)
    [] d.script = "natlog"      -> natlog_tables(d)
    [] d.script = "atanh"       -> atanh_tables(d)
    [] d.script = "atan"        -> atan_tables(d)
    [] d.script = "sine"        -> sine_tables(d)
    [] d.script = "polar"       -> polar_tables(d)

\* A design with its tables and with the parameters of its stages
\* (concatenated with nothing, so that TLC computes them once).
Hardware(d) ==
  LET t == tables(d)
      near(k) == d.script \notin Circular /\ k <= d.neg
      stage(k) ==
        [lookup |-> t.ang_lookup[k],
         near   |-> near(k),
         shift  |-> IF d.script \in Circular THEN k
                    ELSE IF near(k) THEN NegativeShift(d, k) ELSE k - d.neg]
  IN  [d |-> d, t |-> t, stages |-> [n \in 1..stages(d) |-> stage(iteration(d, n))] \o << >>]

\* What the first register takes when q is on the input ports and zero was at
\* time zero.
load(h, q, zero) ==
  CASE h.d.script = "exponential" -> exponential_load(h.d, h.t, q)
    [] h.d.script = "hyperbolic"  -> hyperbolic_load(h.d, h.t, q)
    [] h.d.script = "natlog"      -> natlog_load(h.d, h.t, q)
    [] h.d.script = "atanh"       -> atanh_load(h.d, h.t, q)
    [] h.d.script = "atan"        -> atan_load(h.d, h.t, zero)
    [] h.d.script = "sine"        -> sine_load(h.d, h.t, q)
    [] h.d.script = "polar"       -> polar_load(h.d, h.t, q)

result(h, v) ==
  CASE h.d.script = "exponential" -> exponential_result(h.d, v)
    [] h.d.script = "hyperbolic"  -> hyperbolic_result(h.d, v)
    [] h.d.script = "natlog"      -> natlog_result(h.d, v)
    [] h.d.script = "atanh"       -> atanh_result(h.d, v)
    [] h.d.script = "atan"        -> atan_result(h.d, v)
    [] h.d.script = "sine"        -> sine_result(h.d, v)
    [] h.d.script = "polar"       -> polar_result(h.d, h.t, v)

\* rot_op of the stage modules: whether the stage adds its angle.
rot_op(d, v) ==
  IF d.script \in Rotating THEN v.ang < 0
  ELSE IF d.script = "polar" THEN v.y >= 0
  ELSE (v.x < 0) <=> (v.y < 0)

\* A negative stage multiplies by 1 - 2^-shift, any other by 2^-shift.
scaled(st, u) == IF st.near THEN u - u \div 2^st.shift ELSE u \div 2^st.shift

\* What the stage computes, before it is cut to the width of the registers.
computed(d, st, v) ==
  LET s == IF rot_op(d, v) THEN 1 ELSE -1
  IN  [v EXCEPT !.ang = v.ang + s * st.lookup,
                !.x = v.x + (IF d.script \in Circular THEN s ELSE -s) * scaled(st, v.y),
                !.y = v.y - s * scaled(st, v.x)]
=============================================================================
