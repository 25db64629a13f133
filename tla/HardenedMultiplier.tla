------------------------- MODULE HardenedMultiplier -------------------------
(***************************************************************************)
(* The rows of the Booth multiplier: bsg_mul_booth_4_block_rep and         *)
(* bsg_mul_comp42_rep as bsg_misc/bsg_mul has them, and the cells that the *)
(* scripts of hard/<process>/bsg_misc/bsg_mul write in their place.        *)
(*                                                                         *)
(* A block is so many columns wide.  It takes four bits in each column and *)
(* a carry into the lowest one, and gives for each column a sum s_o and a  *)
(* late carry c_o for the next column, and the early carry cl_o out of the *)
(* highest one.  SDN_i[b + 1] are the controls of the b-th of its four     *)
(* partial products, and y_vec_i[pos][b] is the bit of the multiplicand    *)
(* there (1) and its lower neighbour (0).                                  *)
(***************************************************************************)
EXTENDS HardenedCells

(* A full adder: bsg_mul_csa, and the cell ADDFHX1.                        *)
Sum(x, y, z) == (x + y + z) % 2
Carry(x, y, z) == (x + y + z) \div 2

-----------------------------------------------------------------------------
(* The unhardened rows.                                                    *)

bsg_mul_booth_dot(sdn, y0, ym1) ==
  IF (sdn[2] = 1 /\ y0 = 1) \/ (sdn[1] = 1 /\ ym1 = 1) THEN 1 - sdn[0] ELSE sdn[0]

(* marks are the four parameter vectors, as sets of <<column, row>>.       *)
Marks(above, bar, blank, one) ==
  [S_above |-> above, dot_bar |-> bar, B |-> blank, one |-> one]

NoMarks == Marks({}, {}, {}, {})

dot_vals(marks, SDN_i, y_vec_i, pos, i) ==
  LET dot == bsg_mul_booth_dot(SDN_i[i + 1], y_vec_i[pos][i][1], y_vec_i[pos][i][0])
  IN  IF <<pos, i>> \in marks.S_above THEN SDN_i[i][0]
      ELSE IF <<pos, i>> \in marks.dot_bar THEN 1 - dot
      ELSE IF <<pos, i>> \in marks.B THEN 0
      ELSE IF <<pos, i>> \in marks.one THEN 1
      ELSE dot

(* bsg_mul_comp42, in every column; d[i][pos] is bit i of a column.        *)
ci_local(d, cr_i, pos) ==
  IF pos > 0 THEN Carry(d[0][pos - 1], d[1][pos - 1], d[2][pos - 1]) ELSE cr_i

bsg_mul_comp42_rep(rows, d, cr_i) ==
  LET tmp(pos) == Sum(d[0][pos], d[1][pos], d[2][pos])
  IN  [s |-> [pos \in 0 .. rows - 1 |-> Sum(d[3][pos], tmp(pos), ci_local(d, cr_i, pos))],
       c |-> [pos \in 0 .. rows - 1 |-> Carry(d[3][pos], tmp(pos), ci_local(d, cr_i, pos))],
       cl |-> ci_local(d, cr_i, rows)]

bsg_mul_booth_4_block_rep(rows, marks, SDN_i, y_vec_i, cr_i) ==
  bsg_mul_comp42_rep(
    rows,
    [i \in 0 .. 3 |-> [pos \in 0 .. rows - 1 |-> dot_vals(marks, SDN_i, y_vec_i, pos, i)]],
    cr_i)

-----------------------------------------------------------------------------
(* The hardened rows.                                                      *)

(* A compressor: it adds its bits in the opposite order.                   *)
c42_early(i, cr_i, pos) ==
  IF pos > 0 THEN Carry(i[3][pos - 1], i[2][pos - 1], i[1][pos - 1]) ELSE cr_i

generate_c42_block(rows, i, cr_i) ==
  LET s_int(pos) == Sum(i[3][pos], i[2][pos], i[1][pos])
  IN  [s |-> [pos \in 0 .. rows - 1 |-> Sum(i[0][pos], s_int(pos), c42_early(i, cr_i, pos))],
       c |-> [pos \in 0 .. rows - 1 |-> Carry(i[0][pos], s_int(pos), c42_early(i, cr_i, pos))],
       cl |-> c42_early(i, cr_i, rows)]

(* Bit b of a column, as two cells make it, and its complement.            *)
aoi(SDN_i, y_vec_i, pos, b) ==
  Gate("AOI22X1", <<SDN_i[b + 1][1], y_vec_i[pos][b][0],
                    SDN_i[b + 1][2], y_vec_i[pos][b][1]>>)
pp(SDN_i, y_vec_i, pos, b) ==
  Gate("XNOR2X1", <<aoi(SDN_i, y_vec_i, pos, b), SDN_i[b + 1][0]>>)
pp_bar(SDN_i, y_vec_i, pos, b) ==
  Gate("XOR2X1", <<aoi(SDN_i, y_vec_i, pos, b), SDN_i[b + 1][0]>>)

(* In the middle of a row all four bits are there.                         *)
generate_booth_4_block(rows, SDN_i, y_vec_i, cr_i) ==
  generate_c42_block(
    rows,
    [b \in 0 .. 3 |-> [pos \in 0 .. rows - 1 |-> pp(SDN_i, y_vec_i, pos, b)]],
    cr_i)

(* At the low end (rows of 8, or of 6 for the first of all, which omits    *)
(* the first two columns) there are fewer, and the sign of the row above.  *)
start_row(rows) == IF rows = 8 THEN 0 ELSE 2

(* Seeded fault: no carry from the seventh column to the eighth.           *)
MutCornice(rows, SDN_i, y_vec_i) ==
  LET adj(pos) == start_row(rows) + pos
      p(pos, b) == pp(SDN_i, y_vec_i, pos, b)
      S(pos) == IF adj(pos) % 2 = 1 THEN 0 ELSE SDN_i[adj(pos) \div 2][0]
      p1(pos) == IF adj(pos) >= 4 THEN p(pos, 1) ELSE 0
      s0(pos) == Sum(S(pos), p1(pos), p(pos, 0))
      cl(pos) == Carry(S(pos), p1(pos), p(pos, 0))
  IN  [s |-> [pos \in 0 .. rows - 1 |->
               CASE adj(pos) = 0 -> SDN_i[0][0]
                 [] adj(pos) = 1 -> 0
                 [] adj(pos) = 3 -> p(pos, 0)
                 [] adj(pos) \in {2, 4, 5} -> s0(pos)
                 [] adj(pos) \in {6, 7} -> Sum(p(pos, 2), s0(pos), 0)],
       c |-> [pos \in 0 .. rows - 1 |->
               CASE adj(pos) \in {0, 1, 3} -> 0
                 [] adj(pos) \in {2, 4, 5} -> cl(pos)
                 [] adj(pos) \in {6, 7} -> Carry(p(pos, 2), s0(pos), 0)],
       cl |-> cl(rows - 1)]

generate_cornice(rows, SDN_i, y_vec_i) ==
  LET adj(pos) == start_row(rows) + pos
      p(pos, b) == pp(SDN_i, y_vec_i, pos, b)
      S(pos) == IF adj(pos) % 2 = 1 THEN 0 ELSE SDN_i[adj(pos) \div 2][0]
      p1(pos) == IF adj(pos) >= 4 THEN p(pos, 1) ELSE 0
      s0(pos) == Sum(S(pos), p1(pos), p(pos, 0))
      cl(pos) == Carry(S(pos), p1(pos), p(pos, 0))
      early(pos) == IF adj(pos) > 6 THEN cl(pos - 1) ELSE 0
  IN  [s |-> [pos \in 0 .. rows - 1 |->
               CASE adj(pos) = 0 -> SDN_i[0][0]
                 [] adj(pos) = 1 -> 0
                 [] adj(pos) = 3 -> p(pos, 0)
                 [] adj(pos) \in {2, 4, 5} -> s0(pos)
                 [] adj(pos) \in {6, 7} -> Sum(p(pos, 2), s0(pos), early(pos))],
       c |-> [pos \in 0 .. rows - 1 |->
               CASE adj(pos) \in {0, 1, 3} -> 0
                 [] adj(pos) \in {2, 4, 5} -> cl(pos)
                 [] adj(pos) \in {6, 7} -> Carry(p(pos, 2), s0(pos), early(pos))],
       cl |-> cl(rows - 1)]

(* At the high end (rows of 8, or of 7 for the last of all) the bits end   *)
(* one after the other, each with a complement and a one that stand for    *)
(* its sign.                                                               *)
generate_end_cornice(rows, SDN_i, y_vec_i, cr_i) ==
  LET p(pos, b) == pp(SDN_i, y_vec_i, pos, b)
      n(pos, b) == pp_bar(SDN_i, y_vec_i, pos, b)
      p2(pos) == IF pos = 4 THEN n(pos, 2) ELSE IF pos < 4 THEN p(pos, 2) ELSE 1
      p1(pos) == IF pos = 2 THEN n(pos, 1) ELSE IF pos < 2 THEN p(pos, 1) ELSE 1
      p0(pos) == IF pos = 0 THEN n(pos, 0) ELSE IF pos = 1 THEN 1 ELSE 0
      cl(pos) == Carry(p(pos, 3), p2(pos), p1(pos))
      third(pos) == IF pos < 4 THEN p1(pos) ELSE IF pos = 4 THEN cl(3) ELSE 0
      s0(pos) == Sum(p(pos, 3), p2(pos), third(pos))
      early(pos) == IF pos > 0 THEN cl(pos - 1) ELSE cr_i
  IN  [s |-> [pos \in 0 .. rows - 1 |->
               CASE pos < 4 -> Sum(p0(pos), s0(pos), early(pos))
                 [] pos \in {4, 5} -> s0(pos)
                 [] pos = 6 -> n(pos, 3)
                 [] pos = 7 -> 1],
       c |-> [pos \in 0 .. rows - 1 |->
               CASE pos < 4 -> Carry(p0(pos), s0(pos), early(pos))
                 [] pos \in {4, 5} -> Carry(p(pos, 3), p2(pos), third(pos))
                 [] pos \in {6, 7} -> 0],
       cl |-> 0]

(* A full adder whose third bit is made by an AND.                         *)
generate_and_csa_block(rows, x_i, y_i, z_and1_i, z_and2_i) ==
  LET and_int(pos) == Gate("AND2X1", <<z_and1_i[pos], z_and2_i[pos]>>)
  IN  [s |-> [pos \in 0 .. rows - 1 |-> Sum(and_int(pos), x_i[pos], y_i[pos])],
       c |-> [pos \in 0 .. rows - 1 |-> Carry(and_int(pos), x_i[pos], y_i[pos])]]

-----------------------------------------------------------------------------
(* Which block takes the place of which: the wrapper compares the widths   *)
(* and the four vectors, and keeps the unhardened row for any others.      *)
Cornice(rows) ==
  LET cells == (0 .. rows - 1) \X (0 .. 3)
      adj(c) == start_row(rows) + c[1]
      above == {c \in cells : adj(c) = 2 * c[2]}
  IN  Marks(above, {}, {c \in cells : adj(c) < 2 * c[2] + 2} \ above, {})

EndCornice(rows) ==
  LET cells == (0 .. rows - 1) \X (0 .. 3)
  IN  Marks({}, {c \in cells : c[1] = 2 * c[2]},
            {c \in cells : c[1] > 2 * c[2] + 1},
            {c \in cells : c[1] = 2 * c[2] + 1})

hard_booth_rep(rows, marks, SDN_i, y_vec_i, cr_i) ==
  CASE rows \in 5 .. 8 /\ marks = NoMarks ->
         generate_booth_4_block(rows, SDN_i, y_vec_i, cr_i)
    [] rows \in {6, 8} /\ marks = Cornice(rows) ->
         generate_cornice(rows, SDN_i, y_vec_i)
    [] rows \in {7, 8} /\ marks = EndCornice(rows) ->
         generate_end_cornice(rows, SDN_i, y_vec_i, cr_i)
    [] OTHER -> bsg_mul_booth_4_block_rep(rows, marks, SDN_i, y_vec_i, cr_i)

-----------------------------------------------------------------------------
(* The row of adders adds; even columns alike and odd columns alike.       *)
AddsWithAnd(rows) ==
  \A e, o \in [1 .. 4 -> Bit] :
    LET in(k) == [pos \in 0 .. rows - 1 |-> IF pos % 2 = 0 THEN e[k] ELSE o[k]]
        out == generate_and_csa_block(rows, in(1), in(2), in(3), in(4))
    IN  \A pos \in 0 .. rows - 1 :
          out.s[pos] + 2 * out.c[pos] = in(1)[pos] + in(2)[pos] + in(3)[pos] * in(4)[pos]
=============================================================================
