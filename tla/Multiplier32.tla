---------------------------- MODULE Multiplier32 ----------------------------
(***************************************************************************)
(* The 32-bit multiplier of bsg_mul_pipelined.sv: Booth encoding of x_i,   *)
(* four groups of partial products, a tree of compressors, a register in   *)
(* the middle and the final adder.  The rows are those of the unhardened   *)
(* modules or the ones that the scripts of hard/ write.                    *)
(*                                                                         *)
(* The expressions of the datapath are long; TLC evaluates a vector once   *)
(* where it is merged with the empty function.                             *)
(***************************************************************************)
EXTENDS HardenedMultiplier, TLC

CONSTANTS
  Operations,     \* records of x_i, y_i, signed_i and hard
  Following(_)    \* the operations that may come after one

VARIABLES
  op,      \* what is at the inputs
  pipe,    \* the registers between the tree and the last adders
  held_op  \* history: the operation that they hold

mul_vars == <<op, pipe, held_op>>

NoOperation == [x_i |-> << >>]

Wires(f) == f @@ << >>
Moved(f, by, width) ==
  Wires([p \in 0 .. width - 1 |-> IF p - by \in DOMAIN f THEN f[p - by] ELSE 0])

-----------------------------------------------------------------------------
(* Booth encoding: sign, double and one times, for every second bit.       *)
bsg_mul_SDN(x_i, signed_i) ==
  LET temp_x == Moved(x_i, 1, 35)
      trip(i, b) == IF i = 16 /\ signed_i THEN 0 ELSE temp_x[2 * i + b]
  IN  Wires([i \in 0 .. 16 |->
        [b \in 0 .. 2 |->
           CASE b = 0 -> trip(i, 2)
             [] b = 1 -> IF trip(i, 0) = trip(i, 1) /\ trip(i, 2) # trip(i, 1) THEN 1 ELSE 0
             [] b = 2 -> IF trip(i, 0) # trip(i, 1) THEN 1 ELSE 0]])

(* The dot diagram of the k-th four rows: where the columns are divided,   *)
(* and where what is not a plain bit of a partial product goes.            *)
group_vec_p ==
  << <<0, 6, 14, 22, 30, 35, 41>>, <<0, 8, 16, 24, 29, 35, 43>>,
     <<0, 8, 16, 21, 27, 35, 43>>, <<0, 8, 13, 19, 27, 35, 42>> >>

(* The first rows are two columns shorter at the low end, and the sign of  *)
(* the first one of all is in the column of the second.                    *)
Diagram(k) ==
  LET cells == (30 .. 42) \X (0 .. 3)
      low == Cornice(IF k = 0 THEN 6 ELSE 8)
      top(r) == IF k > 0 THEN 35 + 2 * r ELSE IF r = 0 THEN 35 ELSE 33 + 2 * r
      first(r) == k = 0 /\ r = 0
  IN  Marks(low.S_above,
            {c \in cells : c[1] = top(c[2])},
            low.B \cup {c \in cells : IF first(c[2]) THEN c[1] > top(0)
                                      ELSE c[1] > top(c[2]) + 1},
            {c \in cells : ~first(c[2]) /\ c[1] = top(c[2]) + 1})

Within(marks, from, to) ==
  LET cut(set) == {<<c[1] - from, c[2]>> : c \in {c \in set : c[1] \in from .. to - 1}}
  IN  Marks(cut(marks.S_above), cut(marks.dot_bar), cut(marks.B), cut(marks.one))

(* Blocks side by side, the early carry of one into the next.              *)
RepRep(groups, block(_, _, _)) ==
  LET blocks_p == Len(groups) - 1
      carries[j \in 0 .. blocks_p] ==
        IF j = 0 THEN 0 ELSE block(groups[j], groups[j + 1], carries[j - 1]).cl
      parts == Wires([j \in 0 .. blocks_p - 1 |->
                        LET part == block(groups[j + 1], groups[j + 2], carries[j])
                        IN  [s |-> Wires(part.s), c |-> Wires(part.c)]])
      at(p) == CHOOSE j \in 0 .. blocks_p - 1 : p \in groups[j + 1] .. groups[j + 2] - 1
      columns == 0 .. groups[blocks_p + 1] - 1
  IN  [s |-> Wires([p \in columns |-> parts[at(p)].s[p - groups[at(p) + 1]]]),
       c |-> Wires([p \in columns |-> parts[at(p)].c[p - groups[at(p) + 1]]]),
       cl |-> carries[blocks_p]]

(* bsg_mul_B4B_rep_rep: y_i with nine zeros below it and its sign above.   *)
bsg_mul_B4B_rep_rep(k, hard, SDN, y_i, signed_i) ==
  LET y_p == IF k = 0 THEN 0 ELSE -2
      y_pad(p) ==
        CASE p \in 9 .. 40 -> y_i[p - 9]
          [] p \in 41 .. 48 -> IF signed_i THEN y_i[31] ELSE 0
          [] OTHER -> 0
      SDN_i == Wires([r \in 0 .. 4 |-> IF 4 * k + r = 0 THEN [b \in 0 .. 2 |-> 0]
                                       ELSE SDN[4 * k + r - 1]])
      y_vec(from, p) == [b \in 0 .. 3 |-> [h \in 0 .. 1 |->
                                             y_pad(9 + y_p + from + p - 2 * b - 1 + h)]]
      block(from, to, cr_i) ==
        LET rows == to - from
            marks == Within(Diagram(k), from, to)
            y_vec_i == Wires([p \in 0 .. rows - 1 |-> y_vec(from, p)])
        IN  IF hard THEN hard_booth_rep(rows, marks, SDN_i, y_vec_i, cr_i)
            ELSE bsg_mul_booth_4_block_rep(rows, marks, SDN_i, y_vec_i, cr_i)
  IN  RepRep(group_vec_p[k + 1], block)

bsg_mul_comp42_rep_rep(groups, hard, i) ==
  LET block(from, to, cr_i) ==
        LET t == Wires([r \in 0 .. 3 |-> Moved(i[r], -from, to - from)])
        IN  IF hard THEN generate_c42_block(to - from, t, cr_i)
            ELSE bsg_mul_comp42_rep(to - from, t, cr_i)
  IN  RepRep(groups, block)

(* The seventeenth row: x_i is unsigned and its highest bit set.           *)
bsg_mul_green_booth_dots(hard, SDN, y_i) ==
  LET a_i == [p \in 0 .. 28 |-> SDN[16][2]]
      b_i == Moved(y_i, -3, 29)
      macro == generate_gate_stack("AND2X1", 29, 4, <<a_i, b_i>>)
  IN  Wires([p \in 0 .. 33 |->
        CASE p = 0 -> SDN[15][0]
          [] p = 1 -> 0
          [] p > 1 -> IF hard /\ p >= 5 THEN macro[p - 5]
                      ELSE IF SDN[16][2] = 1 /\ y_i[p - 2] = 1 THEN 1 ELSE 0])

-----------------------------------------------------------------------------
(* bsg_mul_32_32 up to its registers: rows are added in groups of four,    *)
(* the results of two groups with the rest of the dots in pairs.           *)
crr01(hard, brr, gb_dot) ==
  bsg_mul_comp42_rep_rep(
    <<0, 8, 16, 24, 29, 35, 43>>, hard,
    [r \in 0 .. 3 |->
       CASE r = 3 -> Moved(brr[1].c, 1, 43)
         [] r = 2 -> brr[1].s
         [] r = 1 -> Moved(brr[0].c, -5, 43)
         [] r = 0 -> [p \in 0 .. 42 |-> IF p < 35 THEN brr[0].s[p + 6] ELSE gb_dot[p - 24]]])

c42_01(crr, gb_dot) ==
  [s |-> crr.s @@ (43 :> Sum(gb_dot[19], crr.cl, 0)),
   c |-> crr.c @@ (43 :> Carry(gb_dot[19], crr.cl, 0))]

crr23(hard, brr) ==
  bsg_mul_comp42_rep_rep(
    <<0, 8, 13, 19, 27, 35, 42>>, hard,
    [r \in 0 .. 3 |->
       CASE r = 3 -> Moved(brr[3].c, 1, 42)
         [] r = 2 -> brr[3].s
         [] r = 1 -> Moved(brr[2].c, -7, 42)
         [] r = 0 -> Moved(brr[2].s, -8, 42)])

crr03(hard, brr, low, high, gb_dot) ==
  bsg_mul_comp42_rep_rep(
    <<0, 8, 16, 21, 27, 35, 43, 50>>, hard,
    [r \in 0 .. 3 |->
       CASE r = 3 -> [p \in 0 .. 49 |-> CASE p \in {0, 8} -> 0
                                          [] p \in 1 .. 7 -> brr[2].c[p - 1]
                                          [] p > 8 -> high.c[p - 9]]
         [] r = 2 -> [p \in 0 .. 49 |-> IF p < 8 THEN brr[2].s[p] ELSE high.s[p - 8]]
         [] r = 1 -> Moved(low.c, -7, 50)
         [] r = 0 -> [p \in 0 .. 49 |-> IF p < 36 THEN low.s[p + 8] ELSE gb_dot[p - 16]]])

Registers(brr, low, all, gb_dot) ==
  [gb_dot_r |-> Moved(gb_dot, 0, 11),
   c42_01s_r |-> Moved(low.s, 0, 8), c42_01c_r |-> Moved(low.c, 0, 7),
   s30_r |-> Moved(brr[0].s, 0, 6), c30_r |-> Moved(brr[0].c, 0, 5),
   c42_03c_r |-> all.c, c42_03s_r |-> all.s,
   verify_zero |-> {brr[k].cl : k \in 0 .. 2}]

Paired(hard, brr, low, high, gb_dot) ==
  Registers(brr, low, crr03(hard, brr, low, high, gb_dot), gb_dot)

Grouped(hard, brr, gb_dot) ==
  Paired(hard, brr, c42_01(crr01(hard, brr, gb_dot), gb_dot), crr23(hard, brr), gb_dot)

Encoded(o, SDN) ==
  Grouped(o.hard,
          Wires([k \in 0 .. 3 |-> bsg_mul_B4B_rep_rep(k, o.hard, SDN, o.y_i, o.signed_i)]),
          bsg_mul_green_booth_dots(o.hard, SDN, o.y_i))

Tree(o) == Encoded(o, bsg_mul_SDN(o.x_i, o.signed_i))

(* And from there: a row of adders for the sign of the sixteenth row and   *)
(* the seventeenth, and the adder.                                         *)
Added(width, a, b) ==
  LET carry[p \in 0 .. width] == IF p = 0 THEN 0 ELSE Carry(a[p - 1], b[p - 1], carry[p - 1])
  IN  Wires([p \in 0 .. width - 1 |-> Sum(a[p], b[p], carry[p])])

z_o(r) ==
  LET gb(p) == IF p < 11 THEN r.gb_dot_r[p] ELSE 0
      gb_s(p) == Sum(gb(p), r.c42_03s_r[p + 16], r.c42_03c_r[p + 15])
      gb_c(p) == Carry(gb(p), r.c42_03s_r[p + 16], r.c42_03c_r[p + 15])
      sum_a == [p \in 0 .. 63 |->
        CASE p \in 0 .. 5 -> r.s30_r[p]
          [] p \in 6 .. 13 -> r.c42_01s_r[p - 6]
          [] p \in 14 .. 29 -> r.c42_03s_r[p - 14]
          [] p \in 30 .. 63 -> gb_s(p - 30)]
      sum_b == [p \in 0 .. 63 |->
        CASE p \in {0, 6, 14, 30} -> 0
          [] p \in 1 .. 5 -> r.c30_r[p - 1]
          [] p \in 7 .. 13 -> r.c42_01c_r[p - 7]
          [] p \in 15 .. 29 -> r.c42_03c_r[p - 15]
          [] p \in 31 .. 63 -> gb_c(p - 31)]
  IN  Added(64, Wires(sum_a), Wires(sum_b))

-----------------------------------------------------------------------------
MulInit == op \in Operations /\ pipe = << >> /\ held_op = NoOperation

(* A clock edge: the registers share one enable.                           *)
MulClk(en_i, next_op) ==
  /\ pipe' = IF en_i THEN Tree(op) ELSE pipe
  /\ held_op' = IF en_i THEN op ELSE held_op
  /\ op' = next_op

MulNext == \E en_i \in BOOLEAN, next_op \in Following(op) : MulClk(en_i, next_op)

MulSpec == MulInit /\ [][MulNext]_mul_vars

-----------------------------------------------------------------------------
(* The reference: both operands extended to 64 bits, column by column.     *)
Multiplied(o) ==
  LET wide(v) == Wires([p \in 0 .. 63 |-> IF p < 32 THEN v[p]
                                          ELSE IF o.signed_i THEN v[31] ELSE 0])
      x == wide(o.x_i)
      y == wide(o.y_i)
      column == Wires([p \in 0 .. 63 |-> Cardinality({i \in 0 .. p : x[i] + y[p - i] = 2})])
      over[p \in 0 .. 63] == IF p = 0 THEN 0 ELSE (column[p - 1] + over[p - 1]) \div 2
  IN  Wires([p \in 0 .. 63 |-> (column[p] + over[p]) % 2])

(* The output is the product of the operands that were there at the last   *)
(* edge with enable, and no group of rows has a carry out of its highest   *)
(* column that the next one would not see.                                 *)
Product ==
  held_op # NoOperation =>
    z_o(pipe) = Multiplied(held_op) /\ pipe.verify_zero = {0}
=============================================================================
