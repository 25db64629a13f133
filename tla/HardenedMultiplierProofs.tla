----------------------- MODULE HardenedMultiplierProofs -----------------------
(***************************************************************************)
(* What the rows of the Booth multiplier add up to, for every number of    *)
(* columns and every value of their bits.                                  *)
(***************************************************************************)
EXTENDS HardenedMultiplier, TLAPS

(* A full adder's two outputs are bits and hold the sum of its inputs.     *)
LEMMA FullAdder ==
  ASSUME NEW x \in Bit, NEW y \in Bit, NEW z \in Bit
  PROVE  /\ Sum(x, y, z) \in Bit
         /\ Carry(x, y, z) \in Bit
         /\ Sum(x, y, z) + 2 * Carry(x, y, z) = x + y + z
BY DEF Sum, Carry, Bit

-----------------------------------------------------------------------------
(* The cells that make a partial product, found in their lists.            *)

LEMMA AoiCell ==
  ASSUME NEW in
  PROVE  Gate("AOI22X1", in) = IF in \in OnePair THEN 0 ELSE 1
<1> DEFINE cell == "AOI22X1"
<1>1. cell \notin Nands /\ cell \notin Nors
  BY DEF Nands, Nors
<1>2. cell \in AndOrInverts
  BY DEF AndOrInverts
<1>3. cell \notin Inverters /\ cell \notin Ands /\ cell \notin Xors /\ cell \notin Xnors
  BY DEF Inverters, Ands, Xors, Xnors
<1> HIDE DEF cell
<1>4. Gate(cell, in) = IF in \in OnePair THEN 0 ELSE 1
  BY <1>1, <1>2, <1>3 DEF Gate
<1> QED BY <1>4 DEF cell

LEMMA XnorCell ==
  ASSUME NEW in
  PROVE  Gate("XNOR2X1", in) = IF in \in Odd THEN 0 ELSE 1
<1> DEFINE cell == "XNOR2X1"
<1>1. cell \notin Nands /\ cell \notin Nors /\ cell \notin AndOrInverts
  BY DEF Nands, Nors, AndOrInverts
<1>2. cell \notin Inverters /\ cell \notin Ands /\ cell \notin Xors
  BY DEF Inverters, Ands, Xors
<1>3. cell \in Xnors
  BY DEF Xnors
<1> HIDE DEF cell
<1>4. Gate(cell, in) = IF in \in Odd THEN 0 ELSE 1
  BY <1>1, <1>2, <1>3 DEF Gate
<1> QED BY <1>4 DEF cell

LEMMA XorCell ==
  ASSUME NEW in
  PROVE  Gate("XOR2X1", in) = IF in \in Odd THEN 1 ELSE 0
<1> DEFINE cell == "XOR2X1"
<1>1. cell \notin Nands /\ cell \notin Nors /\ cell \notin AndOrInverts
  BY DEF Nands, Nors, AndOrInverts
<1>2. cell \notin Inverters /\ cell \notin Ands /\ cell \notin Xnors
  BY DEF Inverters, Ands, Xnors
<1>3. cell \in Xors
  BY DEF Xors
<1> HIDE DEF cell
<1>4. Gate(cell, in) = IF in \in Odd THEN 1 ELSE 0
  BY <1>1, <1>2, <1>3 DEF Gate
<1> QED BY <1>4 DEF cell

LEMMA AndCell ==
  ASSUME NEW in
  PROVE  Gate("AND2X1", in) = IF in \in AllOnes THEN 1 ELSE 0
<1> DEFINE cell == "AND2X1"
<1>1. cell \notin Nands /\ cell \notin Nors /\ cell \notin AndOrInverts
  BY DEF Nands, Nors, AndOrInverts
<1>2. cell \notin Inverters /\ cell \notin Xors /\ cell \notin Xnors
  BY DEF Inverters, Xors, Xnors
<1>3. cell \in Ands
  BY DEF Ands
<1> HIDE DEF cell
<1>4. Gate(cell, in) = IF in \in AllOnes THEN 1 ELSE 0
  BY <1>1, <1>2, <1>3 DEF Gate
<1> QED BY <1>4 DEF cell

(* A pin vector is all ones just when each pin is.                         *)
LEMMA TwoOnes ==
  ASSUME NEW a, NEW b
  PROVE  <<a, b>> \in AllOnes <=> a = 1 /\ b = 1
<1> DEFINE in == <<a, b>>
<1>1. ASSUME a = 1, b = 1 PROVE in \in AllOnes
  <2>1. in = [k \in 1 .. 2 |-> 1]
    BY <1>1
  <2> QED BY <2>1 DEF AllOnes
<1>2. ASSUME in \in AllOnes PROVE a = 1 /\ b = 1
  <2>1. PICK n \in 1 .. 4 : in = [k \in 1 .. n |-> 1]
    BY <1>2 DEF AllOnes
  <2>2. 1 .. n = 1 .. 2
    <3>1. DOMAIN in = 1 .. n
      BY <2>1
    <3>2. DOMAIN in = 1 .. 2
      OBVIOUS
    <3> QED BY <3>1, <3>2
  <2>3. in[1] = 1 /\ in[2] = 1
    BY <2>1, <2>2
  <2> QED BY <2>3
<1> QED BY <1>1, <1>2

LEMMA OnePairPins ==
  ASSUME NEW a \in Bit, NEW b \in Bit, NEW c \in Bit, NEW d \in Bit
  PROVE  <<a, b, c, d>> \in OnePair <=> (a = 1 /\ b = 1) \/ (c = 1 /\ d = 1)
<1> DEFINE in == <<a, b, c, d>>
<1>1. in \in Pins(4)
  BY DEF Pins, Bit
<1>2. in \in OnePair <=> in[1] + in[2] = 2 \/ in[3] + in[4] = 2
  BY <1>1 DEF OnePair
<1>3. in[1] = a /\ in[2] = b /\ in[3] = c /\ in[4] = d
  OBVIOUS
<1> HIDE DEF in
<1>4. in \in OnePair <=> a + b = 2 \/ c + d = 2
  BY <1>2, <1>3
<1>5. (a + b = 2 <=> a = 1 /\ b = 1) /\ (c + d = 2 <=> c = 1 /\ d = 1)
  BY DEF Bit
<1> QED BY <1>4, <1>5 DEF in

LEMMA OddPins ==
  ASSUME NEW a \in Bit, NEW b \in Bit
  PROVE  <<a, b>> \in Odd <=> a # b
<1> DEFINE in == <<a, b>>
<1>1. in \in Pins(2)
  BY DEF Pins, Bit
<1>2. in[1] = a /\ in[2] = b
  OBVIOUS
<1>3. in \in Odd <=> in[1] # in[2]
  BY <1>1 DEF Odd
<1> QED BY <1>2, <1>3
-----------------------------------------------------------------------------
(* A row adds: from each column to the next goes an early carry, and what  *)
(* a column takes in, it gives out.  Weighted by the columns and added up, *)
(* all early carries but the first and the last cancel.                    *)
Adds(rows, out, dots, carry_in) ==
  \E early \in [0 .. rows -> Bit] :
    /\ early[0] = carry_in
    /\ early[rows] = out.cl
    /\ \A pos \in 0 .. rows - 1 :
         out.s[pos] + 2 * out.c[pos] + 2 * early[pos + 1] =
           dots[0][pos] + dots[1][pos] + dots[2][pos] + dots[3][pos] + early[pos]

(* The values of four rows of bits, of the controls and of the multiplicand. *)
Dots(rows) == [0 .. 3 -> [0 .. rows - 1 -> Bit]]
Controls == [0 .. 4 -> [0 .. 2 -> Bit]]
Multiplicand(rows) == [0 .. rows - 1 -> [0 .. 3 -> [0 .. 1 -> Bit]]]

(* Two full adders, one behind the other, keep the value of five bits.     *)
LEMMA BitsAreInts == Bit \subseteq Int
BY DEF Bit

LEMMA TwoAdders ==
  ASSUME NEW v \in Bit, NEW w \in Bit, NEW x \in Bit, NEW y \in Bit, NEW z \in Bit
  PROVE  /\ Sum(v, Sum(x, y, z), w) \in Bit
         /\ Carry(v, Sum(x, y, z), w) \in Bit
         /\ Sum(v, Sum(x, y, z), w) + 2 * Carry(v, Sum(x, y, z), w) + 2 * Carry(x, y, z)
              = v + w + x + y + z
<1>1. /\ Sum(x, y, z) \in Bit /\ Carry(x, y, z) \in Bit
      /\ Sum(x, y, z) + 2 * Carry(x, y, z) = x + y + z
  BY FullAdder
<1>2. /\ Sum(v, Sum(x, y, z), w) \in Bit /\ Carry(v, Sum(x, y, z), w) \in Bit
      /\ Sum(v, Sum(x, y, z), w) + 2 * Carry(v, Sum(x, y, z), w) = v + Sum(x, y, z) + w
  BY <1>1, FullAdder
<1>3. /\ v \in Int /\ w \in Int /\ x \in Int /\ y \in Int /\ z \in Int
      /\ Sum(x, y, z) \in Int /\ Carry(x, y, z) \in Int
      /\ Sum(v, Sum(x, y, z), w) \in Int /\ Carry(v, Sum(x, y, z), w) \in Int
  BY <1>1, <1>2, BitsAreInts
<1>4. Sum(v, Sum(x, y, z), w) + 2 * Carry(v, Sum(x, y, z), w) + 2 * Carry(x, y, z)
        = v + w + x + y + z
  BY <1>1, <1>2, <1>3
<1> QED BY <1>2, <1>4

(* The compressors of the scripts keep the value of every column, for rows *)
(* of any length (generate_c42_block).                                     *)
THEOREM HardCompressorAdds ==
  ASSUME NEW rows \in Nat \ {0}, NEW d \in Dots(rows), NEW cr_i \in Bit
  PROVE  Adds(rows, generate_c42_block(rows, d, cr_i), d, cr_i)
<1> DEFINE out == generate_c42_block(rows, d, cr_i)
           early == [p \in 0 .. rows |-> c42_early(d, cr_i, p)]
<1>1. \A i \in 0 .. 3, pos \in 0 .. rows - 1 : d[i][pos] \in Bit
  BY DEF Dots
<1>2. \A p \in 1 .. rows : Carry(d[3][p - 1], d[2][p - 1], d[1][p - 1]) \in Bit
  <2> TAKE p \in 1 .. rows
  <2>1. p - 1 \in 0 .. rows - 1
    OBVIOUS
  <2>2. d[3][p - 1] \in Bit /\ d[2][p - 1] \in Bit /\ d[1][p - 1] \in Bit
    BY <1>1, <2>1
  <2> QED BY <2>2, FullAdder
<1>3. early \in [0 .. rows -> Bit]
  BY <1>2 DEF c42_early
<1>4. early[0] = cr_i /\ early[rows] = out.cl
  BY DEF c42_early, generate_c42_block
<1>5. ASSUME NEW pos \in 0 .. rows - 1
      PROVE  out.s[pos] + 2 * out.c[pos] + 2 * early[pos + 1]
               = d[0][pos] + d[1][pos] + d[2][pos] + d[3][pos] + early[pos]
  <2> DEFINE e == early[pos]
             i0 == d[0][pos]  i1 == d[1][pos]  i2 == d[2][pos]  i3 == d[3][pos]
  <2>1. i0 \in Bit /\ i1 \in Bit /\ i2 \in Bit /\ i3 \in Bit /\ e \in Bit
    BY <1>1, <1>3
  <2>2. early[pos + 1] = Carry(i3, i2, i1)
    <3>1. pos + 1 \in 1 .. rows /\ pos + 1 > 0 /\ (pos + 1) - 1 = pos
      OBVIOUS
    <3> QED BY <3>1 DEF c42_early
  <2>3. e = c42_early(d, cr_i, pos)
    BY DEF early
  <2>4. /\ out.s[pos] = Sum(i0, Sum(i3, i2, i1), e)
        /\ out.c[pos] = Carry(i0, Sum(i3, i2, i1), e)
    BY <2>3 DEF generate_c42_block
  <2>5. SUFFICES out.s[pos] + 2 * out.c[pos] + 2 * early[pos + 1] = i0 + i1 + i2 + i3 + e
    OBVIOUS
  <2> HIDE DEF e, i0, i1, i2, i3, early, out
  <2>6. Sum(i0, Sum(i3, i2, i1), e) + 2 * Carry(i0, Sum(i3, i2, i1), e)
          + 2 * Carry(i3, i2, i1) = i0 + e + i3 + i2 + i1
    BY <2>1, TwoAdders
  <2>7. i0 + e + i3 + i2 + i1 = i0 + i1 + i2 + i3 + e
    BY <2>1, BitsAreInts
  <2> QED BY <2>2, <2>4, <2>6, <2>7
<1> HIDE DEF early, out
<1>6. Adds(rows, out, d, cr_i)
  BY <1>3, <1>4, <1>5 DEF Adds
<1> QED BY <1>6 DEF out

(* So do the compressors they replace (bsg_mul_comp42_rep), which add the  *)
(* same bits in another order.                                             *)
THEOREM RepCompressorAdds ==
  ASSUME NEW rows \in Nat \ {0}, NEW d \in Dots(rows), NEW cr_i \in Bit
  PROVE  Adds(rows, bsg_mul_comp42_rep(rows, d, cr_i), d, cr_i)
<1> DEFINE out == bsg_mul_comp42_rep(rows, d, cr_i)
           early == [p \in 0 .. rows |-> ci_local(d, cr_i, p)]
<1>1. \A i \in 0 .. 3, pos \in 0 .. rows - 1 : d[i][pos] \in Bit
  BY DEF Dots
<1>2. \A p \in 1 .. rows : Carry(d[0][p - 1], d[1][p - 1], d[2][p - 1]) \in Bit
  <2> TAKE p \in 1 .. rows
  <2>1. p - 1 \in 0 .. rows - 1
    OBVIOUS
  <2>2. d[0][p - 1] \in Bit /\ d[1][p - 1] \in Bit /\ d[2][p - 1] \in Bit
    BY <1>1, <2>1
  <2> QED BY <2>2, FullAdder
<1>3. early \in [0 .. rows -> Bit]
  BY <1>2 DEF ci_local
<1>4. early[0] = cr_i /\ early[rows] = out.cl
  BY DEF ci_local, bsg_mul_comp42_rep
<1>5. ASSUME NEW pos \in 0 .. rows - 1
      PROVE  out.s[pos] + 2 * out.c[pos] + 2 * early[pos + 1]
               = d[0][pos] + d[1][pos] + d[2][pos] + d[3][pos] + early[pos]
  <2> DEFINE e == early[pos]
             i0 == d[0][pos]  i1 == d[1][pos]  i2 == d[2][pos]  i3 == d[3][pos]
  <2>1. i0 \in Bit /\ i1 \in Bit /\ i2 \in Bit /\ i3 \in Bit /\ e \in Bit
    BY <1>1, <1>3
  <2>2. early[pos + 1] = Carry(i0, i1, i2)
    <3>1. pos + 1 \in 1 .. rows /\ pos + 1 > 0 /\ (pos + 1) - 1 = pos
      OBVIOUS
    <3> QED BY <3>1 DEF ci_local
  <2>3. e = ci_local(d, cr_i, pos)
    BY DEF early
  <2>4. /\ out.s[pos] = Sum(i3, Sum(i0, i1, i2), e)
        /\ out.c[pos] = Carry(i3, Sum(i0, i1, i2), e)
    BY <2>3 DEF bsg_mul_comp42_rep
  <2>5. SUFFICES out.s[pos] + 2 * out.c[pos] + 2 * early[pos + 1] = i0 + i1 + i2 + i3 + e
    OBVIOUS
  <2> HIDE DEF e, i0, i1, i2, i3, early, out
  <2>6. Sum(i3, Sum(i0, i1, i2), e) + 2 * Carry(i3, Sum(i0, i1, i2), e)
          + 2 * Carry(i0, i1, i2) = i3 + e + i0 + i1 + i2
    BY <2>1, TwoAdders
  <2>7. i3 + e + i0 + i1 + i2 = i0 + i1 + i2 + i3 + e
    BY <2>1, BitsAreInts
  <2> QED BY <2>2, <2>4, <2>6, <2>7
<1> HIDE DEF early, out
<1>6. Adds(rows, out, d, cr_i)
  BY <1>3, <1>4, <1>5 DEF Adds
<1> QED BY <1>6 DEF out

-----------------------------------------------------------------------------
(* The bits of a row, as the row that is replaced makes them.              *)
RowDots(rows, marks, SDN_i, y_vec_i) ==
  [i \in 0 .. 3 |-> [pos \in 0 .. rows - 1 |-> dot_vals(marks, SDN_i, y_vec_i, pos, i)]]

(* The two cells make the dot of bsg_mul_booth_dot, or its complement.     *)
LEMMA PartialProduct ==
  ASSUME NEW rows \in Nat \ {0}, NEW SDN_i \in Controls, NEW y_vec_i \in Multiplicand(rows),
         NEW pos \in 0 .. rows - 1, NEW b \in 0 .. 3
  PROVE  LET dot == bsg_mul_booth_dot(SDN_i[b + 1], y_vec_i[pos][b][1], y_vec_i[pos][b][0])
         IN  /\ dot \in Bit
             /\ pp(SDN_i, y_vec_i, pos, b) = dot
             /\ pp_bar(SDN_i, y_vec_i, pos, b) = 1 - dot
<1> DEFINE s == SDN_i[b + 1][0]  d == SDN_i[b + 1][1]  n == SDN_i[b + 1][2]
           y0 == y_vec_i[pos][b][1]  ym1 == y_vec_i[pos][b][0]
           dot == bsg_mul_booth_dot(SDN_i[b + 1], y0, ym1)
           inv == aoi(SDN_i, y_vec_i, pos, b)
<1>1. s \in Bit /\ d \in Bit /\ n \in Bit
  <2>1. b + 1 \in 0 .. 4
    OBVIOUS
  <2>2. SDN_i[b + 1] \in [0 .. 2 -> Bit]
    BY <2>1 DEF Controls
  <2> QED BY <2>2
<1>2. y0 \in Bit /\ ym1 \in Bit
  <2>1. y_vec_i[pos][b] \in [0 .. 1 -> Bit]
    BY DEF Multiplicand
  <2> QED BY <2>1
<1>3. dot = IF (n = 1 /\ y0 = 1) \/ (d = 1 /\ ym1 = 1) THEN 1 - s ELSE s
  BY DEF bsg_mul_booth_dot
<1>4. inv = Gate("AOI22X1", <<d, ym1, n, y0>>)
  BY DEF aoi
<1>5. pp(SDN_i, y_vec_i, pos, b) = Gate("XNOR2X1", <<inv, s>>)
  BY DEF pp
<1>6. pp_bar(SDN_i, y_vec_i, pos, b) = Gate("XOR2X1", <<inv, s>>)
  BY DEF pp_bar
<1> HIDE DEF s, d, n, y0, ym1, dot, inv
<1>7. inv = IF (d = 1 /\ ym1 = 1) \/ (n = 1 /\ y0 = 1) THEN 0 ELSE 1
  <2>1. <<d, ym1, n, y0>> \in OnePair <=> (d = 1 /\ ym1 = 1) \/ (n = 1 /\ y0 = 1)
    BY <1>1, <1>2, OnePairPins
  <2> QED BY <1>4, <2>1, AoiCell
<1>8. inv \in Bit
  BY <1>7 DEF Bit
<1>9. <<inv, s>> \in Odd <=> inv # s
  BY <1>1, <1>8, OddPins
<1>10. /\ pp(SDN_i, y_vec_i, pos, b) = IF inv # s THEN 0 ELSE 1
       /\ pp_bar(SDN_i, y_vec_i, pos, b) = IF inv # s THEN 1 ELSE 0
  BY <1>5, <1>6, <1>9, XnorCell, XorCell
<1>11. dot \in Bit /\ (IF inv # s THEN 0 ELSE 1) = dot /\ (IF inv # s THEN 1 ELSE 0) = 1 - dot
  BY <1>1, <1>3, <1>7 DEF Bit
<1>12. /\ dot \in Bit
       /\ pp(SDN_i, y_vec_i, pos, b) = dot
       /\ pp_bar(SDN_i, y_vec_i, pos, b) = 1 - dot
  BY <1>10, <1>11
<1> QED BY <1>12 DEF dot, y0, ym1

(* A dot has the value its marks give it.                                  *)
DotIs(marks, SDN_i, y_vec_i, pos, i) ==
  LET at(mark) == <<pos, i>> \in mark
      value == dot_vals(marks, SDN_i, y_vec_i, pos, i)
  IN  /\ at(marks.S_above) => value = SDN_i[i][0]
      /\ ~at(marks.S_above) /\ at(marks.dot_bar) => value = pp_bar(SDN_i, y_vec_i, pos, i)
      /\ ~at(marks.S_above) /\ ~at(marks.dot_bar) /\ at(marks.B) => value = 0
      /\ ~at(marks.S_above) /\ ~at(marks.dot_bar) /\ ~at(marks.B) /\ at(marks.one) => value = 1
      /\ ~at(marks.S_above) /\ ~at(marks.dot_bar) /\ ~at(marks.B) /\ ~at(marks.one) =>
           value = pp(SDN_i, y_vec_i, pos, i)

LEMMA DotValue ==
  ASSUME NEW rows \in Nat \ {0}, NEW marks, NEW SDN_i \in Controls,
         NEW y_vec_i \in Multiplicand(rows), NEW pos \in 0 .. rows - 1, NEW i \in 0 .. 3
  PROVE  /\ DotIs(marks, SDN_i, y_vec_i, pos, i)
         /\ dot_vals(marks, SDN_i, y_vec_i, pos, i) \in Bit
         /\ SDN_i[i][0] \in Bit
         /\ pp(SDN_i, y_vec_i, pos, i) \in Bit
         /\ pp_bar(SDN_i, y_vec_i, pos, i) \in Bit
<1> DEFINE dot == bsg_mul_booth_dot(SDN_i[i + 1], y_vec_i[pos][i][1], y_vec_i[pos][i][0])
<1>1. /\ dot \in Bit
      /\ pp(SDN_i, y_vec_i, pos, i) = dot
      /\ pp_bar(SDN_i, y_vec_i, pos, i) = 1 - dot
  BY PartialProduct
<1>2. SDN_i[i][0] \in Bit
  <2>1. SDN_i[i] \in [0 .. 2 -> Bit]
    BY DEF Controls
  <2> QED BY <2>1
<1>3. dot_vals(marks, SDN_i, y_vec_i, pos, i) =
        IF <<pos, i>> \in marks.S_above THEN SDN_i[i][0]
        ELSE IF <<pos, i>> \in marks.dot_bar THEN 1 - dot
        ELSE IF <<pos, i>> \in marks.B THEN 0
        ELSE IF <<pos, i>> \in marks.one THEN 1
        ELSE dot
  BY DEF dot_vals
<1> HIDE DEF dot
<1>4. 1 - dot \in Bit /\ 0 \in Bit /\ 1 \in Bit
  BY <1>1 DEF Bit
<1>5. DotIs(marks, SDN_i, y_vec_i, pos, i)
  BY <1>1, <1>3 DEF DotIs
<1> QED BY <1>1, <1>2, <1>3, <1>4, <1>5

LEMMA RowDotsType ==
  ASSUME NEW rows \in Nat \ {0}, NEW marks, NEW SDN_i \in Controls,
         NEW y_vec_i \in Multiplicand(rows)
  PROVE  RowDots(rows, marks, SDN_i, y_vec_i) \in Dots(rows)
BY DotValue DEF RowDots, Dots

(* The middle of a row adds the dots of the row it replaces.               *)
LEMMA MiddleAdds ==
  ASSUME NEW rows \in Nat \ {0}, NEW SDN_i \in Controls,
         NEW y_vec_i \in Multiplicand(rows), NEW cr_i \in Bit
  PROVE  Adds(rows, generate_booth_4_block(rows, SDN_i, y_vec_i, cr_i),
              RowDots(rows, NoMarks, SDN_i, y_vec_i), cr_i)
<1> DEFINE d == [b \in 0 .. 3 |-> [pos \in 0 .. rows - 1 |-> pp(SDN_i, y_vec_i, pos, b)]]
<1>1. RowDots(rows, NoMarks, SDN_i, y_vec_i) = d
  <2>1. ASSUME NEW i \in 0 .. 3, NEW pos \in 0 .. rows - 1
        PROVE  dot_vals(NoMarks, SDN_i, y_vec_i, pos, i) = pp(SDN_i, y_vec_i, pos, i)
    <3>1. /\ NoMarks.S_above = {} /\ NoMarks.dot_bar = {}
          /\ NoMarks.B = {} /\ NoMarks.one = {}
      BY DEF NoMarks, Marks
    <3>2. DotIs(NoMarks, SDN_i, y_vec_i, pos, i)
      BY DotValue
    <3> QED BY <3>1, <3>2 DEF DotIs
  <2> QED BY <2>1 DEF RowDots
<1>2. RowDots(rows, NoMarks, SDN_i, y_vec_i) \in Dots(rows)
  BY RowDotsType
<1>3. generate_booth_4_block(rows, SDN_i, y_vec_i, cr_i) = generate_c42_block(rows, d, cr_i)
  BY DEF generate_booth_4_block
<1> HIDE DEF d
<1>4. Adds(rows, generate_c42_block(rows, d, cr_i), d, cr_i)
  BY <1>1, <1>2, HardCompressorAdds
<1> QED BY <1>1, <1>3, <1>4

(* So does an unhardened row, whatever its marks.                          *)
LEMMA RepAdds ==
  ASSUME NEW rows \in Nat \ {0}, NEW marks, NEW SDN_i \in Controls,
         NEW y_vec_i \in Multiplicand(rows), NEW cr_i \in Bit
  PROVE  Adds(rows, bsg_mul_booth_4_block_rep(rows, marks, SDN_i, y_vec_i, cr_i),
              RowDots(rows, marks, SDN_i, y_vec_i), cr_i)
<1> DEFINE d == RowDots(rows, marks, SDN_i, y_vec_i)
<1>1. d \in Dots(rows)
  BY RowDotsType
<1>2. bsg_mul_booth_4_block_rep(rows, marks, SDN_i, y_vec_i, cr_i)
        = bsg_mul_comp42_rep(rows, d, cr_i)
  BY DEF bsg_mul_booth_4_block_rep, RowDots
<1> HIDE DEF d
<1>3. Adds(rows, bsg_mul_comp42_rep(rows, d, cr_i), d, cr_i)
  BY <1>1, RepCompressorAdds
<1> QED BY <1>2, <1>3 DEF d

-----------------------------------------------------------------------------
(* The low end.  Column pos of the block is column adj of a row of eight.  *)
Adj(rows, pos) == start_row(rows) + pos
SignAbove(rows, SDN_i, pos) ==
  IF Adj(rows, pos) % 2 = 1 THEN 0 ELSE SDN_i[Adj(rows, pos) \div 2][0]
SecondDot(rows, SDN_i, y_vec_i, pos) ==
  IF Adj(rows, pos) >= 4 THEN pp(SDN_i, y_vec_i, pos, 1) ELSE 0
LowSum(rows, SDN_i, y_vec_i, pos) ==
  Sum(SignAbove(rows, SDN_i, pos), SecondDot(rows, SDN_i, y_vec_i, pos),
      pp(SDN_i, y_vec_i, pos, 0))
LowCarry(rows, SDN_i, y_vec_i, pos) ==
  Carry(SignAbove(rows, SDN_i, pos), SecondDot(rows, SDN_i, y_vec_i, pos),
        pp(SDN_i, y_vec_i, pos, 0))

LEMMA AdjRange ==
  ASSUME NEW rows \in {6, 8}, NEW pos \in 0 .. rows - 1
  PROVE  /\ Adj(rows, pos) \in 0 .. 7
         /\ Adj(rows, pos) = 7 <=> pos = rows - 1
BY DEF Adj, start_row

LEMMA LowTypes ==
  ASSUME NEW rows \in {6, 8}, NEW SDN_i \in Controls, NEW y_vec_i \in Multiplicand(rows),
         NEW pos \in 0 .. rows - 1
  PROVE  /\ \A b \in 0 .. 3 : pp(SDN_i, y_vec_i, pos, b) \in Bit
         /\ SignAbove(rows, SDN_i, pos) \in Bit
         /\ SecondDot(rows, SDN_i, y_vec_i, pos) \in Bit
<1>1. rows \in Nat \ {0}
  OBVIOUS
<1>2. \A b \in 0 .. 3 : pp(SDN_i, y_vec_i, pos, b) \in Bit
  BY <1>1, DotValue
<1>3. SignAbove(rows, SDN_i, pos) \in Bit
  <2> DEFINE a == Adj(rows, pos)
  <2>1. a \in 0 .. 7
    BY AdjRange
  <2> HIDE DEF a
  <2>2. a \div 2 \in 0 .. 4
    BY <2>1
  <2>3. SDN_i[a \div 2] \in [0 .. 2 -> Bit]
    BY <2>2 DEF Controls
  <2>4. SDN_i[a \div 2][0] \in Bit /\ 0 \in Bit
    BY <2>3 DEF Bit
  <2> QED BY <2>4 DEF SignAbove, a
<1>4. SecondDot(rows, SDN_i, y_vec_i, pos) \in Bit
  <2>1. 0 \in Bit
    BY DEF Bit
  <2> QED BY <1>2, <2>1 DEF SecondDot
<1> QED BY <1>2, <1>3, <1>4

(* The dots of the row replaced: a sign, nothing below it, dots beyond.    *)
LEMMA LowDots ==
  ASSUME NEW rows \in {6, 8}, NEW SDN_i \in Controls, NEW y_vec_i \in Multiplicand(rows),
         NEW pos \in 0 .. rows - 1, NEW i \in 0 .. 3
  PROVE  RowDots(rows, Cornice(rows), SDN_i, y_vec_i)[i][pos] =
           IF Adj(rows, pos) = 2 * i THEN SDN_i[i][0]
           ELSE IF Adj(rows, pos) < 2 * i + 2 THEN 0
           ELSE pp(SDN_i, y_vec_i, pos, i)
<1> DEFINE cells == (0 .. rows - 1) \X (0 .. 3)
           above == {c \in cells : start_row(rows) + c[1] = 2 * c[2]}
           blank == {c \in cells : start_row(rows) + c[1] < 2 * c[2] + 2} \ above
           marks == Cornice(rows)
<1>1. marks.S_above = above /\ marks.dot_bar = {} /\ marks.B = blank /\ marks.one = {}
  BY DEF Cornice, Marks
<1>2. <<pos, i>> \in above <=> Adj(rows, pos) = 2 * i
  BY DEF Adj
<1>3. <<pos, i>> \in blank <=> Adj(rows, pos) # 2 * i /\ Adj(rows, pos) < 2 * i + 2
  BY DEF Adj
<1> HIDE DEF above, blank, marks, cells
<1>4. DotIs(marks, SDN_i, y_vec_i, pos, i)
  <2>1. rows \in Nat \ {0}
    OBVIOUS
  <2> QED BY <2>1, DotValue
<1>5. dot_vals(marks, SDN_i, y_vec_i, pos, i) =
        IF Adj(rows, pos) = 2 * i THEN SDN_i[i][0]
        ELSE IF Adj(rows, pos) < 2 * i + 2 THEN 0
        ELSE pp(SDN_i, y_vec_i, pos, i)
  BY <1>1, <1>2, <1>3, <1>4 DEF DotIs
<1>6. RowDots(rows, marks, SDN_i, y_vec_i)[i][pos] = dot_vals(marks, SDN_i, y_vec_i, pos, i)
  BY DEF RowDots
<1> QED BY <1>5, <1>6 DEF marks

(* What the block gives out, column by column.                             *)
LEMMA LowOutputs ==
  ASSUME NEW rows \in {6, 8}, NEW SDN_i, NEW y_vec_i, NEW pos \in 0 .. rows - 1
  PROVE  LET out == generate_cornice(rows, SDN_i, y_vec_i)
             a == Adj(rows, pos)
             early == IF a > 6 THEN LowCarry(rows, SDN_i, y_vec_i, pos - 1) ELSE 0
             sum == LowSum(rows, SDN_i, y_vec_i, pos)
         IN  /\ a = 0 => out.s[pos] = SDN_i[0][0] /\ out.c[pos] = 0
             /\ a = 1 => out.s[pos] = 0 /\ out.c[pos] = 0
             /\ a = 3 => out.s[pos] = pp(SDN_i, y_vec_i, pos, 0) /\ out.c[pos] = 0
             /\ a \in {2, 4, 5} => /\ out.s[pos] = sum
                                   /\ out.c[pos] = LowCarry(rows, SDN_i, y_vec_i, pos)
             /\ a \in {6, 7} => /\ out.s[pos] = Sum(pp(SDN_i, y_vec_i, pos, 2), sum, early)
                                /\ out.c[pos] = Carry(pp(SDN_i, y_vec_i, pos, 2), sum, early)
             /\ out.cl = LowCarry(rows, SDN_i, y_vec_i, rows - 1)
<1> DEFINE out == generate_cornice(rows, SDN_i, y_vec_i)
           a == Adj(rows, pos)
<1>1. ASSUME a = 0 PROVE out.s[pos] = SDN_i[0][0] /\ out.c[pos] = 0
  BY <1>1 DEF generate_cornice, Adj
<1>2. ASSUME a = 1 PROVE out.s[pos] = 0 /\ out.c[pos] = 0
  BY <1>2 DEF generate_cornice, Adj
<1>3. ASSUME a = 3 PROVE out.s[pos] = pp(SDN_i, y_vec_i, pos, 0) /\ out.c[pos] = 0
  BY <1>3 DEF generate_cornice, Adj
<1>4. ASSUME a \in {2, 4, 5}
      PROVE  /\ out.s[pos] = LowSum(rows, SDN_i, y_vec_i, pos)
             /\ out.c[pos] = LowCarry(rows, SDN_i, y_vec_i, pos)
  BY <1>4 DEF generate_cornice, Adj, LowSum, LowCarry, SignAbove, SecondDot
<1>5. ASSUME a \in {6, 7}
      PROVE  LET early == IF a > 6 THEN LowCarry(rows, SDN_i, y_vec_i, pos - 1) ELSE 0
                 sum == LowSum(rows, SDN_i, y_vec_i, pos)
             IN  /\ out.s[pos] = Sum(pp(SDN_i, y_vec_i, pos, 2), sum, early)
                 /\ out.c[pos] = Carry(pp(SDN_i, y_vec_i, pos, 2), sum, early)
  BY <1>5 DEF generate_cornice, Adj, LowSum, LowCarry, SignAbove, SecondDot
<1>6. out.cl = LowCarry(rows, SDN_i, y_vec_i, rows - 1)
  BY DEF generate_cornice, Adj, LowCarry, SignAbove, SecondDot
<1> HIDE DEF out, a
<1> QED BY <1>1, <1>2, <1>3, <1>4, <1>5, <1>6 DEF out, a

(* The low end adds the dots of the row it replaces.                       *)
LEMMA CorniceAdds ==
  ASSUME NEW rows \in {6, 8}, NEW SDN_i \in Controls, NEW y_vec_i \in Multiplicand(rows)
  PROVE  Adds(rows, generate_cornice(rows, SDN_i, y_vec_i),
              RowDots(rows, Cornice(rows), SDN_i, y_vec_i), 0)
<1> DEFINE out == generate_cornice(rows, SDN_i, y_vec_i)
           dots == RowDots(rows, Cornice(rows), SDN_i, y_vec_i)
           early == [p \in 0 .. rows |->
                       IF Adj(rows, p) > 6 THEN LowCarry(rows, SDN_i, y_vec_i, p - 1) ELSE 0]
<1>1. ASSUME NEW p \in 0 .. rows - 1 PROVE LowCarry(rows, SDN_i, y_vec_i, p) \in Bit
  <2>1. /\ pp(SDN_i, y_vec_i, p, 0) \in Bit
        /\ SignAbove(rows, SDN_i, p) \in Bit
        /\ SecondDot(rows, SDN_i, y_vec_i, p) \in Bit
    BY LowTypes
  <2> QED BY <2>1, FullAdder DEF LowCarry
<1>2. early \in [0 .. rows -> Bit]
  <2>1. ASSUME NEW p \in 0 .. rows, Adj(rows, p) > 6 PROVE p - 1 \in 0 .. rows - 1
    BY <2>1 DEF Adj, start_row
  <2>2. 0 \in Bit
    BY DEF Bit
  <2> QED BY <1>1, <2>1, <2>2
<1>3. early[0] = 0 /\ early[rows] = out.cl
  <2>1. ~(Adj(rows, 0) > 6) /\ Adj(rows, rows) > 6
    BY DEF Adj, start_row
  <2>2. out.cl = LowCarry(rows, SDN_i, y_vec_i, rows - 1)
    BY DEF generate_cornice, Adj, LowCarry, SignAbove, SecondDot
  <2>3. 0 \in 0 .. rows /\ rows \in 0 .. rows
    OBVIOUS
  <2>4. early[0] = 0
    BY <2>1, <2>3
  <2>5. early[rows] = LowCarry(rows, SDN_i, y_vec_i, rows - 1)
    BY <2>1, <2>3
  <2> HIDE DEF out, early
  <2> QED BY <2>2, <2>4, <2>5
<1>4. ASSUME NEW pos \in 0 .. rows - 1
      PROVE  out.s[pos] + 2 * out.c[pos] + 2 * early[pos + 1]
               = dots[0][pos] + dots[1][pos] + dots[2][pos] + dots[3][pos] + early[pos]
  <2> DEFINE a == Adj(rows, pos)
             d0 == pp(SDN_i, y_vec_i, pos, 0)
             d1 == SecondDot(rows, SDN_i, y_vec_i, pos)
             d2 == pp(SDN_i, y_vec_i, pos, 2)
             sign == SignAbove(rows, SDN_i, pos)
             e == early[pos]
             s == out.s[pos]
             c == out.c[pos]
             up == early[pos + 1]
             sum == LowSum(rows, SDN_i, y_vec_i, pos)
             carry == LowCarry(rows, SDN_i, y_vec_i, pos)
             total == dots[0][pos] + dots[1][pos] + dots[2][pos] + dots[3][pos]
  <2>1. a \in 0 .. 7
    BY AdjRange
  <2>2. d0 \in Bit /\ d1 \in Bit /\ d2 \in Bit /\ sign \in Bit /\ e \in Bit
    BY LowTypes, <1>2
  <2>3. total = IF a \in {0, 1} THEN sign
                ELSE IF a \in 2 .. 5 THEN sign + d1 + d0
                ELSE sign + d1 + d0 + d2
    <3>1. /\ dots[0][pos] = IF a = 0 THEN SDN_i[0][0] ELSE IF a < 2 THEN 0 ELSE d0
          /\ dots[1][pos] = IF a = 2 THEN SDN_i[1][0] ELSE IF a < 4 THEN 0
                            ELSE pp(SDN_i, y_vec_i, pos, 1)
          /\ dots[2][pos] = IF a = 4 THEN SDN_i[2][0] ELSE IF a < 6 THEN 0 ELSE d2
          /\ dots[3][pos] = IF a = 6 THEN SDN_i[3][0] ELSE IF a < 8 THEN 0
                            ELSE pp(SDN_i, y_vec_i, pos, 3)
      BY LowDots
    <3>2. d1 = IF a >= 4 THEN pp(SDN_i, y_vec_i, pos, 1) ELSE 0
      BY DEF SecondDot
    <3>3. sign = IF a % 2 = 1 THEN 0 ELSE SDN_i[a \div 2][0]
      BY DEF SignAbove
    <3>4. /\ 0 \div 2 = 0 /\ 2 \div 2 = 1 /\ 4 \div 2 = 2 /\ 6 \div 2 = 3
          /\ 0 % 2 = 0 /\ 2 % 2 = 0 /\ 4 % 2 = 0 /\ 6 % 2 = 0
          /\ 1 % 2 = 1 /\ 3 % 2 = 1 /\ 5 % 2 = 1 /\ 7 % 2 = 1
      OBVIOUS
    <3>5. sign = CASE a = 0 -> SDN_i[0][0] [] a = 2 -> SDN_i[1][0] [] a = 4 -> SDN_i[2][0]
                   [] a = 6 -> SDN_i[3][0] [] OTHER -> 0
      <4> HIDE DEF a, sign
      <4> QED BY <2>1, <3>3, <3>4
    <3> HIDE DEF a, d0, d1, d2, sign, dots
    <3>6. /\ d0 \in Int /\ d1 \in Int /\ d2 \in Int /\ sign \in Int
      BY <2>2, BitsAreInts
    <3>7. CASE a \in {0, 1}
      BY <3>1, <3>2, <3>5, <3>6, <3>7, <2>1
    <3>8. CASE a \in {2, 3}
      BY <3>1, <3>2, <3>5, <3>6, <3>8, <2>1
    <3>9. CASE a \in {4, 5}
      BY <3>1, <3>2, <3>5, <3>6, <3>9, <2>1
    <3>10. CASE a \in {6, 7}
      BY <3>1, <3>2, <3>5, <3>6, <3>10, <2>1
    <3> QED BY <2>1, <3>7, <3>8, <3>9, <3>10
  <2>4. /\ e = IF a > 6 THEN LowCarry(rows, SDN_i, y_vec_i, pos - 1) ELSE 0
        /\ up = IF a > 5 THEN carry ELSE 0
    <3>1. pos + 1 \in 0 .. rows /\ pos \in 0 .. rows /\ (pos + 1) - 1 = pos
      OBVIOUS
    <3>2. Adj(rows, pos + 1) = a + 1 /\ (a + 1 > 6 <=> a > 5)
      BY <2>1 DEF Adj, start_row
    <3> QED BY <3>1, <3>2
  <2>5. /\ a = 0 => s = sign /\ c = 0
        /\ a = 1 => s = 0 /\ c = 0
        /\ a = 3 => s = d0 /\ c = 0
        /\ a \in {2, 4, 5} => s = sum /\ c = carry
        /\ a \in {6, 7} => s = Sum(d2, sum, e) /\ c = Carry(d2, sum, e)
    <3>1. a = 0 => sign = SDN_i[0][0]
      <4>1. 0 % 2 = 0 /\ 0 \div 2 = 0
        OBVIOUS
      <4> QED BY <4>1 DEF SignAbove
    <3>2. LET carried == IF a > 6 THEN LowCarry(rows, SDN_i, y_vec_i, pos - 1) ELSE 0
          IN  /\ a = 0 => s = SDN_i[0][0] /\ c = 0
              /\ a = 1 => s = 0 /\ c = 0
              /\ a = 3 => s = d0 /\ c = 0
              /\ a \in {2, 4, 5} => s = sum /\ c = carry
              /\ a \in {6, 7} => s = Sum(d2, sum, carried) /\ c = Carry(d2, sum, carried)
      BY LowOutputs
    <3> HIDE DEF a, s, c, d0, d2, e, sum, carry, sign
    <3> QED BY <2>4, <3>1, <3>2
  <2>6. /\ a = 1 => sign = 0
        /\ a = 3 => sign = 0 /\ d1 = 0
    <3>1. 1 % 2 = 1 /\ 3 % 2 = 1
      OBVIOUS
    <3> QED BY <3>1 DEF SignAbove, SecondDot
  <2>7. sum = Sum(sign, d1, d0) /\ carry = Carry(sign, d1, d0)
    BY DEF LowSum, LowCarry
  <2>8. sum \in Bit /\ carry \in Bit /\ sum + 2 * carry = sign + d1 + d0
    BY <2>2, <2>7, FullAdder
  <2>9. Sum(d2, Sum(sign, d1, d0), e) + 2 * Carry(d2, Sum(sign, d1, d0), e)
          + 2 * Carry(sign, d1, d0) = d2 + e + sign + d1 + d0
    <3> HIDE DEF d0, d1, d2, sign, e
    <3> QED BY <2>2, TwoAdders
  <2>10. s + 2 * c + 2 * up = total + e
    <3> HIDE DEF a, d0, d1, d2, sign, e, s, c, up, sum, carry, total, early, out, dots
    <3>1. /\ d0 \in Int /\ d1 \in Int /\ d2 \in Int /\ sign \in Int /\ e \in Int
          /\ sum \in Int /\ carry \in Int
      BY <2>2, <2>8, BitsAreInts
    <3>2. CASE a \in {0, 1}
      BY <2>3, <2>4, <2>5, <2>6, <3>1, <3>2
    <3>3. CASE a = 3
      BY <2>3, <2>4, <2>5, <2>6, <3>1, <3>3
    <3>4. CASE a \in {2, 4, 5}
      BY <2>3, <2>4, <2>5, <2>8, <3>1, <3>4
    <3>5. CASE a \in {6, 7}
      <4>1. s = Sum(d2, sum, e) /\ c = Carry(d2, sum, e) /\ up = carry
        BY <2>4, <2>5, <3>5
      <4>2. s + 2 * c + 2 * up = d2 + e + sign + d1 + d0
        BY <4>1, <2>7, <2>9
      <4>3. total = sign + d1 + d0 + d2
        BY <2>3, <3>5
      <4> QED BY <4>2, <4>3, <3>1
    <3> QED BY <2>1, <3>2, <3>3, <3>4, <3>5
  <2> QED BY <2>10
<1> HIDE DEF out, dots, early
<1>5. Adds(rows, out, dots, 0)
  BY <1>2, <1>3, <1>4 DEF Adds
<1> QED BY <1>5 DEF out, dots

-----------------------------------------------------------------------------
(* The high end: dots, the complement of the last, a one, and no more.     *)
HighDot(SDN_i, y_vec_i, pos, b) ==
  IF pos = 2 * b THEN pp_bar(SDN_i, y_vec_i, pos, b)
  ELSE IF pos < 2 * b THEN pp(SDN_i, y_vec_i, pos, b)
  ELSE IF pos = 2 * b + 1 THEN 1
  ELSE 0

LEMMA HighDots ==
  ASSUME NEW rows \in {7, 8}, NEW SDN_i \in Controls, NEW y_vec_i \in Multiplicand(rows),
         NEW pos \in 0 .. rows - 1, NEW i \in 0 .. 3
  PROVE  /\ RowDots(rows, EndCornice(rows), SDN_i, y_vec_i)[i][pos]
              = HighDot(SDN_i, y_vec_i, pos, i)
         /\ HighDot(SDN_i, y_vec_i, pos, i) \in Bit
<1> DEFINE cells == (0 .. rows - 1) \X (0 .. 3)
           bar == {c \in cells : c[1] = 2 * c[2]}
           blank == {c \in cells : c[1] > 2 * c[2] + 1}
           one == {c \in cells : c[1] = 2 * c[2] + 1}
           marks == EndCornice(rows)
           value == dot_vals(marks, SDN_i, y_vec_i, pos, i)
<1>1. marks.S_above = {} /\ marks.dot_bar = bar /\ marks.B = blank /\ marks.one = one
  BY DEF EndCornice, Marks
<1>2. /\ <<pos, i>> \in bar <=> pos = 2 * i
      /\ <<pos, i>> \in blank <=> pos > 2 * i + 1
      /\ <<pos, i>> \in one <=> pos = 2 * i + 1
  OBVIOUS
<1>3. RowDots(rows, marks, SDN_i, y_vec_i)[i][pos] = value
  BY DEF RowDots
<1> HIDE DEF bar, blank, one, marks, cells
<1>4. DotIs(marks, SDN_i, y_vec_i, pos, i) /\ value \in Bit
  <2>1. rows \in Nat \ {0}
    OBVIOUS
  <2> QED BY <2>1, DotValue
<1>5. value = HighDot(SDN_i, y_vec_i, pos, i)
  <2>1. pos \in Int /\ i \in Int
    OBVIOUS
  <2>2. CASE pos = 2 * i
    BY <1>1, <1>2, <1>4, <2>2 DEF DotIs, HighDot
  <2>3. CASE pos < 2 * i
    BY <1>1, <1>2, <1>4, <2>1, <2>3 DEF DotIs, HighDot
  <2>4. CASE pos = 2 * i + 1
    BY <1>1, <1>2, <1>4, <2>1, <2>4 DEF DotIs, HighDot
  <2>5. CASE pos > 2 * i + 1
    BY <1>1, <1>2, <1>4, <2>1, <2>5 DEF DotIs, HighDot
  <2> QED BY <2>1, <2>2, <2>3, <2>4, <2>5
<1> HIDE DEF value
<1> QED BY <1>3, <1>4, <1>5 DEF marks

(* The early carry of a column, and what the block gives out.              *)
HighCarry(SDN_i, y_vec_i, pos) ==
  Carry(HighDot(SDN_i, y_vec_i, pos, 3), HighDot(SDN_i, y_vec_i, pos, 2),
        HighDot(SDN_i, y_vec_i, pos, 1))

LEMMA HighOutputs ==
  ASSUME NEW rows \in {7, 8}, NEW SDN_i, NEW y_vec_i, NEW cr_i, NEW pos \in 0 .. rows - 1
  PROVE  LET out == generate_end_cornice(rows, SDN_i, y_vec_i, cr_i)
             d(b) == HighDot(SDN_i, y_vec_i, pos, b)
             early == IF pos > 0 THEN HighCarry(SDN_i, y_vec_i, pos - 1) ELSE cr_i
             third == IF pos = 4 THEN HighCarry(SDN_i, y_vec_i, 3) ELSE 0
         IN  /\ pos < 4 => /\ out.s[pos] = Sum(d(0), Sum(d(3), d(2), d(1)), early)
                           /\ out.c[pos] = Carry(d(0), Sum(d(3), d(2), d(1)), early)
             /\ pos \in {4, 5} => /\ out.s[pos] = Sum(d(3), d(2), third)
                                  /\ out.c[pos] = Carry(d(3), d(2), third)
             /\ pos \in {6, 7} => out.s[pos] = d(3) /\ out.c[pos] = 0
             /\ out.cl = 0
<1> DEFINE out == generate_end_cornice(rows, SDN_i, y_vec_i, cr_i)
           d(b) == HighDot(SDN_i, y_vec_i, pos, b)
           early == IF pos > 0 THEN HighCarry(SDN_i, y_vec_i, pos - 1) ELSE cr_i
           third == IF pos = 4 THEN HighCarry(SDN_i, y_vec_i, 3) ELSE 0
<1>1. ASSUME pos < 4
      PROVE  /\ out.s[pos] = Sum(d(0), Sum(d(3), d(2), d(1)), early)
             /\ out.c[pos] = Carry(d(0), Sum(d(3), d(2), d(1)), early)
  BY <1>1 DEF generate_end_cornice, HighDot, HighCarry
<1>2. ASSUME pos \in {4, 5}
      PROVE  /\ out.s[pos] = Sum(d(3), d(2), third)
             /\ out.c[pos] = Carry(d(3), d(2), third)
  BY <1>2 DEF generate_end_cornice, HighDot, HighCarry
<1>3. ASSUME pos \in {6, 7} PROVE out.s[pos] = d(3) /\ out.c[pos] = 0
  BY <1>3 DEF generate_end_cornice, HighDot
<1>4. out.cl = 0
  BY DEF generate_end_cornice
<1> HIDE DEF out, d
<1> QED BY <1>1, <1>2, <1>3, <1>4 DEF out, d

(* The high end adds the dots of the row it replaces.                      *)
LEMMA EndCorniceAdds ==
  ASSUME NEW rows \in {7, 8}, NEW SDN_i \in Controls, NEW y_vec_i \in Multiplicand(rows),
         NEW cr_i \in Bit
  PROVE  Adds(rows, generate_end_cornice(rows, SDN_i, y_vec_i, cr_i),
              RowDots(rows, EndCornice(rows), SDN_i, y_vec_i), cr_i)
<1> DEFINE out == generate_end_cornice(rows, SDN_i, y_vec_i, cr_i)
           dots == RowDots(rows, EndCornice(rows), SDN_i, y_vec_i)
           early == [p \in 0 .. rows |->
                       IF p = 0 THEN cr_i
                       ELSE IF p <= 4 THEN HighCarry(SDN_i, y_vec_i, p - 1) ELSE 0]
<1>1. ASSUME NEW p \in 0 .. rows - 1 PROVE HighCarry(SDN_i, y_vec_i, p) \in Bit
  <2>1. \A b \in 0 .. 3 : HighDot(SDN_i, y_vec_i, p, b) \in Bit
    BY HighDots
  <2>2. /\ HighDot(SDN_i, y_vec_i, p, 1) \in Bit
        /\ HighDot(SDN_i, y_vec_i, p, 2) \in Bit
        /\ HighDot(SDN_i, y_vec_i, p, 3) \in Bit
    BY <2>1
  <2> QED BY <2>2, FullAdder DEF HighCarry
<1>2. early \in [0 .. rows -> Bit]
  <2>1. ASSUME NEW p \in 0 .. rows, p # 0 PROVE p - 1 \in 0 .. rows - 1
    BY <2>1
  <2>2. 0 \in Bit
    BY DEF Bit
  <2> QED BY <1>1, <2>1, <2>2
<1>3. early[0] = cr_i /\ early[rows] = out.cl
  <2>1. 0 \in 0 .. rows /\ rows \in 0 .. rows /\ rows # 0 /\ ~(rows <= 4)
    OBVIOUS
  <2>2. out.cl = 0
    BY DEF generate_end_cornice
  <2> HIDE DEF out
  <2> QED BY <2>1, <2>2
<1>4. ASSUME NEW pos \in 0 .. rows - 1
      PROVE  out.s[pos] + 2 * out.c[pos] + 2 * early[pos + 1]
               = dots[0][pos] + dots[1][pos] + dots[2][pos] + dots[3][pos] + early[pos]
  <2> DEFINE d0 == HighDot(SDN_i, y_vec_i, pos, 0)
             d1 == HighDot(SDN_i, y_vec_i, pos, 1)
             d2 == HighDot(SDN_i, y_vec_i, pos, 2)
             d3 == HighDot(SDN_i, y_vec_i, pos, 3)
             e == early[pos]
             s == out.s[pos]
             c == out.c[pos]
             up == early[pos + 1]
  <2>1. /\ dots[0][pos] = d0 /\ dots[1][pos] = d1 /\ dots[2][pos] = d2 /\ dots[3][pos] = d3
        /\ d0 \in Bit /\ d1 \in Bit /\ d2 \in Bit /\ d3 \in Bit
    BY HighDots
  <2>2. e \in Bit
    BY <1>2
  <2>3. pos \in 0 .. 7 /\ pos + 1 \in 0 .. rows /\ pos \in 0 .. rows /\ (pos + 1) - 1 = pos
    OBVIOUS
  <2>4. /\ pos < 4 => up = HighCarry(SDN_i, y_vec_i, pos)
        /\ pos >= 4 => up = 0
        /\ pos = 0 => e = cr_i
        /\ pos > 0 /\ pos <= 4 => e = HighCarry(SDN_i, y_vec_i, pos - 1)
        /\ pos > 4 => e = 0
    BY <2>3
  <2>5. HighCarry(SDN_i, y_vec_i, pos) = Carry(d3, d2, d1)
    BY DEF HighCarry
  <2>6. /\ pos < 4 => s = Sum(d0, Sum(d3, d2, d1), e) /\ c = Carry(d0, Sum(d3, d2, d1), e)
        /\ pos \in {4, 5} => s = Sum(d3, d2, e) /\ c = Carry(d3, d2, e)
        /\ pos \in {6, 7} => s = d3 /\ c = 0
    <3>1. LET carried == IF pos > 0 THEN HighCarry(SDN_i, y_vec_i, pos - 1) ELSE cr_i
              third == IF pos = 4 THEN HighCarry(SDN_i, y_vec_i, 3) ELSE 0
          IN  /\ pos < 4 => /\ s = Sum(d0, Sum(d3, d2, d1), carried)
                            /\ c = Carry(d0, Sum(d3, d2, d1), carried)
              /\ pos \in {4, 5} => s = Sum(d3, d2, third) /\ c = Carry(d3, d2, third)
              /\ pos \in {6, 7} => s = d3 /\ c = 0
      BY HighOutputs
    <3>2. pos < 4 => e = IF pos > 0 THEN HighCarry(SDN_i, y_vec_i, pos - 1) ELSE cr_i
      <4> HIDE DEF e
      <4> QED BY <2>3, <2>4
    <3>3. pos \in {4, 5} => e = IF pos = 4 THEN HighCarry(SDN_i, y_vec_i, 3) ELSE 0
      <4>1. 4 - 1 = 3
        OBVIOUS
      <4> HIDE DEF e
      <4> QED BY <2>3, <2>4, <4>1
    <3> HIDE DEF e, s, c, d0, d1, d2, d3
    <3> QED BY <3>1, <3>2, <3>3
  <2>7. /\ pos >= 4 => d0 = 0
        /\ pos >= 4 => d1 = 0
        /\ pos >= 6 => d2 = 0
    BY <2>3 DEF HighDot
  <2>8. Sum(d0, Sum(d3, d2, d1), e) + 2 * Carry(d0, Sum(d3, d2, d1), e)
          + 2 * Carry(d3, d2, d1) = d0 + e + d3 + d2 + d1
    <3> HIDE DEF d0, d1, d2, d3, e
    <3> QED BY <2>1, <2>2, TwoAdders
  <2>9. Sum(d3, d2, e) + 2 * Carry(d3, d2, e) = d3 + d2 + e
    <3> HIDE DEF d0, d1, d2, d3, e
    <3> QED BY <2>1, <2>2, FullAdder
  <2>10. s + 2 * c + 2 * up = d0 + d1 + d2 + d3 + e
    <3> HIDE DEF d0, d1, d2, d3, e, s, c, up, early, out, dots
    <3>1. /\ d0 \in Int /\ d1 \in Int /\ d2 \in Int /\ d3 \in Int /\ e \in Int
      BY <2>1, <2>2, BitsAreInts
    <3>2. CASE pos < 4
      <4>1. s + 2 * c + 2 * up = d0 + e + d3 + d2 + d1
        BY <2>4, <2>5, <2>6, <2>8, <3>2
      <4> QED BY <3>1, <4>1
    <3>3. CASE pos \in {4, 5}
      <4>1. s + 2 * c = d3 + d2 + e /\ up = 0 /\ d0 = 0 /\ d1 = 0
        BY <2>4, <2>6, <2>7, <2>9, <3>3
      <4>2. s \in Int /\ c \in Int
        BY <2>1, <2>2, <2>6, <3>3, FullAdder, BitsAreInts
      <4> QED BY <3>1, <4>1, <4>2
    <3>4. CASE pos \in {6, 7}
      <4>1. s = d3 /\ c = 0 /\ up = 0 /\ d0 = 0 /\ d1 = 0 /\ d2 = 0 /\ e = 0
        BY <2>4, <2>6, <2>7, <3>4
      <4> QED BY <3>1, <4>1
    <3> QED BY <2>3, <3>2, <3>3, <3>4
  <2> HIDE DEF d0, d1, d2, d3, dots
  <2> QED BY <2>1, <2>10
<1> HIDE DEF out, dots, early
<1>5. Adds(rows, out, dots, cr_i)
  BY <1>2, <1>3, <1>4 DEF Adds
<1> QED BY <1>5 DEF out, dots

-----------------------------------------------------------------------------
(* Whichever block the wrapper of bsg_mul_booth_4_block_rep chooses, for a *)
(* row of any length and with any marks, it adds up the dots of the row in *)
(* whose place it stands.  The low end has no carry coming in: there is    *)
(* nothing to the right of it.                                             *)
THEOREM HardRowsAdd ==
  ASSUME NEW rows \in Nat \ {0}, NEW marks, NEW SDN_i \in Controls,
         NEW y_vec_i \in Multiplicand(rows), NEW cr_i \in Bit,
         marks = Cornice(rows) => cr_i = 0
  PROVE  Adds(rows, hard_booth_rep(rows, marks, SDN_i, y_vec_i, cr_i),
              RowDots(rows, marks, SDN_i, y_vec_i), cr_i)
<1> DEFINE middle == rows \in 5 .. 8 /\ marks = NoMarks
           low == rows \in {6, 8} /\ marks = Cornice(rows)
           high == rows \in {7, 8} /\ marks = EndCornice(rows)
           out == hard_booth_rep(rows, marks, SDN_i, y_vec_i, cr_i)
<1>1. ~(middle /\ low) /\ ~(middle /\ high) /\ ~(low /\ high)
  <2>1. NoMarks.S_above = {} /\ NoMarks.dot_bar = {} /\ EndCornice(rows).S_above = {}
    BY DEF NoMarks, EndCornice, Marks
  <2>2. ASSUME rows \in {6, 8} PROVE Cornice(rows).S_above # {}
    <3>1. <<IF rows = 8 THEN 0 ELSE 0, IF rows = 8 THEN 0 ELSE 1>> \in Cornice(rows).S_above
      BY <2>2 DEF Cornice, Marks, start_row
    <3> QED BY <3>1
  <2>3. ASSUME rows \in {7, 8} PROVE EndCornice(rows).dot_bar # {}
    <3>1. <<0, 0>> \in EndCornice(rows).dot_bar
      BY <2>3 DEF EndCornice, Marks
    <3> QED BY <3>1
  <2> QED BY <2>1, <2>2, <2>3
<1>2. CASE middle
  <2>1. out = generate_booth_4_block(rows, SDN_i, y_vec_i, cr_i)
    BY <1>1, <1>2 DEF hard_booth_rep
  <2> QED BY <1>2, <2>1, MiddleAdds
<1>3. CASE low
  <2>1. out = generate_cornice(rows, SDN_i, y_vec_i)
    BY <1>1, <1>3 DEF hard_booth_rep
  <2> QED BY <1>3, <2>1, CorniceAdds
<1>4. CASE high
  <2>1. out = generate_end_cornice(rows, SDN_i, y_vec_i, cr_i)
    BY <1>1, <1>4 DEF hard_booth_rep
  <2> QED BY <1>4, <2>1, EndCorniceAdds
<1>5. CASE ~middle /\ ~low /\ ~high
  <2>1. out = bsg_mul_booth_4_block_rep(rows, marks, SDN_i, y_vec_i, cr_i)
    BY <1>5 DEF hard_booth_rep
  <2> QED BY <2>1, RepAdds
<1> QED BY <1>2, <1>3, <1>4, <1>5

(* A row of adders with an AND, at one position.                           *)
AndAdded(rows, x_i, y_i, z_and1_i, z_and2_i, pos) ==
  LET out == generate_and_csa_block(rows, x_i, y_i, z_and1_i, z_and2_i)
  IN  out.s[pos] + 2 * out.c[pos] = x_i[pos] + y_i[pos] + z_and1_i[pos] * z_and2_i[pos]

(* A row of adders with an AND in front of the third bit adds, in every    *)
(* column of a row of any length (generate_and_csa_block).                 *)
THEOREM AndAddersAdd ==
  ASSUME NEW rows \in Nat \ {0},
         NEW x_i \in [0 .. rows - 1 -> Bit], NEW y_i \in [0 .. rows - 1 -> Bit],
         NEW z_and1_i \in [0 .. rows - 1 -> Bit], NEW z_and2_i \in [0 .. rows - 1 -> Bit],
         NEW pos \in 0 .. rows - 1
  PROVE  AndAdded(rows, x_i, y_i, z_and1_i, z_and2_i, pos)
<1> DEFINE x == x_i[pos]  y == y_i[pos]  z1 == z_and1_i[pos]  z2 == z_and2_i[pos]
           and == Gate("AND2X1", <<z1, z2>>)
           out == generate_and_csa_block(rows, x_i, y_i, z_and1_i, z_and2_i)
<1>1. x \in Bit /\ y \in Bit /\ z1 \in Bit /\ z2 \in Bit
  OBVIOUS
<1>2. out.s[pos] = Sum(and, x, y) /\ out.c[pos] = Carry(and, x, y)
  BY DEF generate_and_csa_block
<1> HIDE DEF out, x, y, z1, z2
<1>3. and = IF z1 = 1 /\ z2 = 1 THEN 1 ELSE 0
  BY AndCell, TwoOnes
<1> HIDE DEF and
<1>4. and \in Bit /\ and = z1 * z2
  BY <1>1, <1>3 DEF Bit
<1>5. Sum(and, x, y) + 2 * Carry(and, x, y) = and + x + y
  BY <1>1, <1>4, FullAdder
<1>6. and + x + y = x + y + and
  BY <1>1, <1>4, BitsAreInts
<1>7. out.s[pos] + 2 * out.c[pos] = x + y + z1 * z2
  BY <1>2, <1>4, <1>5, <1>6
<1> QED BY <1>7 DEF out, x, y, z1, z2, AndAdded

(* So two kinds of inputs, at the even and at the odd positions, are added *)
(* whatever the number of rows.                                            *)
LEMMA AddersWithAnd ==
  ASSUME NEW rows \in Nat \ {0}
  PROVE  AddsWithAnd(rows)
<1> SUFFICES ASSUME NEW e \in [1 .. 4 -> Bit], NEW o \in [1 .. 4 -> Bit]
             PROVE  LET in(k) == [pos \in 0 .. rows - 1 |-> IF pos % 2 = 0 THEN e[k] ELSE o[k]]
                    IN  \A pos \in 0 .. rows - 1 :
                          AndAdded(rows, in(1), in(2), in(3), in(4), pos)
  BY Zenon DEF AddsWithAnd, AndAdded
<1> DEFINE in(k) == [pos \in 0 .. rows - 1 |-> IF pos % 2 = 0 THEN e[k] ELSE o[k]]
<1>1. /\ in(1) \in [0 .. rows - 1 -> Bit] /\ in(2) \in [0 .. rows - 1 -> Bit]
      /\ in(3) \in [0 .. rows - 1 -> Bit] /\ in(4) \in [0 .. rows - 1 -> Bit]
  <2>1. /\ e[1] \in Bit /\ e[2] \in Bit /\ e[3] \in Bit /\ e[4] \in Bit
        /\ o[1] \in Bit /\ o[2] \in Bit /\ o[3] \in Bit /\ o[4] \in Bit
    OBVIOUS
  <2>2. QED
    BY <2>1
<1> HIDE DEF in
<1>2. \A pos \in 0 .. rows - 1 : AndAdded(rows, in(1), in(2), in(3), in(4), pos)
  BY <1>1, AndAddersAdd
<1>3. QED
  BY <1>2 DEF in

-----------------------------------------------------------------------------
(* The gates of the other scripts, by kind.                                *)

(* A cell is in one list only.                                             *)
LEMMA KindsApart ==
  /\ \A c \in Nors : c \notin Nands
  /\ \A c \in AndOrInverts : c \notin Nands /\ c \notin Nors
  /\ \A c \in Inverters : c \notin Nands /\ c \notin Nors /\ c \notin AndOrInverts
  /\ \A c \in Nands : c \notin Nors /\ c \notin AndOrInverts /\ c \notin Inverters
                        /\ c \notin Ands /\ c \notin Xors /\ c \notin Xnors
  /\ \A c \in Nors : c \notin AndOrInverts /\ c \notin Inverters
                        /\ c \notin Ands /\ c \notin Xors /\ c \notin Xnors
  /\ \A c \in AndOrInverts : c \notin Inverters
                        /\ c \notin Ands /\ c \notin Xors /\ c \notin Xnors
  /\ \A c \in Inverters : c \notin Ands /\ c \notin Xors /\ c \notin Xnors
BY DEF Nands, Nors, AndOrInverts, Inverters, Ands, Xors, Xnors

LEMMA NandGate ==
  ASSUME NEW c \in Nands, NEW in
  PROVE  Gate(c, in) = IF in \in AllOnes THEN 0 ELSE 1
<1>1. /\ c \in Nands /\ c \notin Nors /\ c \notin AndOrInverts /\ c \notin Inverters
      /\ c \notin Ands /\ c \notin Xors /\ c \notin Xnors
  BY KindsApart
<1>2. QED
  BY <1>1 DEF Gate

LEMMA NorGate ==
  ASSUME NEW c \in Nors, NEW in
  PROVE  Gate(c, in) = IF in \in AllZeros THEN 1 ELSE 0
<1>1. /\ c \in Nors /\ c \notin Nands /\ c \notin AndOrInverts /\ c \notin Inverters
      /\ c \notin Ands /\ c \notin Xors /\ c \notin Xnors
  BY KindsApart
<1>2. QED
  BY <1>1 DEF Gate

LEMMA AoiGate ==
  ASSUME NEW c \in AndOrInverts, NEW in
  PROVE  Gate(c, in) = IF in \in OnePair THEN 0 ELSE 1
<1>1. /\ c \in AndOrInverts /\ c \notin Nands /\ c \notin Nors /\ c \notin Inverters
      /\ c \notin Ands /\ c \notin Xors /\ c \notin Xnors
  BY KindsApart
<1>2. QED
  BY <1>1 DEF Gate

LEMMA InvGate ==
  ASSUME NEW c \in Inverters, NEW in
  PROVE  Gate(c, in) = IF in \in AllOnes THEN 0 ELSE 1
<1>1. /\ c \in Inverters /\ c \notin Nands /\ c \notin Nors /\ c \notin AndOrInverts
      /\ c \notin Ands /\ c \notin Xors /\ c \notin Xnors
  BY KindsApart
<1>2. QED
  BY <1>1 DEF Gate

(* One to four pins are all ones, or all zeros, when each is.              *)
LEMMA PinsOnes ==
  ASSUME NEW n \in 1 .. 4, NEW in, in = [k \in 1 .. n |-> in[k]]
  PROVE  /\ in \in AllOnes <=> \A k \in 1 .. n : in[k] = 1
         /\ in \in AllZeros <=> \A k \in 1 .. n : in[k] = 0
<1>1. ASSUME NEW v, NEW m \in 1 .. 4, in = [k \in 1 .. m |-> v]
      PROVE  \A k \in 1 .. n : in[k] = v
  <2>1. DOMAIN in = 1 .. n /\ DOMAIN in = 1 .. m
    BY <1>1
  <2>2. 1 .. m = 1 .. n
    BY <2>1
  <2>3. QED
    BY <1>1, <2>2
<1>2. ASSUME NEW v, \A k \in 1 .. n : in[k] = v
      PROVE  in = [k \in 1 .. n |-> v]
  BY <1>2
<1>3. in \in AllOnes <=> \A k \in 1 .. n : in[k] = 1
  BY <1>1, <1>2 DEF AllOnes
<1>4. in \in AllZeros <=> \A k \in 1 .. n : in[k] = 0
  BY <1>1, <1>2 DEF AllZeros
<1>5. QED
  BY <1>3, <1>4

LEMMA OnePin ==
  ASSUME NEW a PROVE <<a>> \in AllOnes <=> a = 1
<1>1. PICK in : in = <<a>>
  OBVIOUS
<1>2. in = [k \in 1 .. 1 |-> in[k]] /\ in[1] = a
  BY <1>1
<1>3. QED
  BY <1>1, <1>2, PinsOnes

LEMMA TwoPins ==
  ASSUME NEW a, NEW b
  PROVE  /\ <<a, b>> \in AllOnes <=> a = 1 /\ b = 1
         /\ <<a, b>> \in AllZeros <=> a = 0 /\ b = 0
<1>1. PICK in : in = <<a, b>>
  OBVIOUS
<1>2. in = [k \in 1 .. 2 |-> in[k]] /\ in[1] = a /\ in[2] = b /\ 1 .. 2 = {1, 2} /\ 2 \in 1 .. 4
  BY <1>1
<1>3. QED
  BY <1>1, <1>2, PinsOnes

LEMMA ThreePins ==
  ASSUME NEW a, NEW b, NEW c
  PROVE  <<a, b, c>> \in AllOnes <=> a = 1 /\ b = 1 /\ c = 1
<1>1. PICK in : in = <<a, b, c>>
  OBVIOUS
<1>2. /\ in = [k \in 1 .. 3 |-> in[k]] /\ in[1] = a /\ in[2] = b /\ in[3] = c
      /\ 1 .. 3 = {1, 2, 3} /\ 3 \in 1 .. 4
  BY <1>1
<1>3. QED
  BY <1>1, <1>2, PinsOnes

LEMMA FourPins ==
  ASSUME NEW a, NEW b, NEW c, NEW d
  PROVE  <<a, b, c, d>> \in AllOnes <=> a = 1 /\ b = 1 /\ c = 1 /\ d = 1
<1>1. PICK in : in = <<a, b, c, d>>
  OBVIOUS
<1>2. /\ in = [k \in 1 .. 4 |-> in[k]] /\ in[1] = a /\ in[2] = b /\ in[3] = c /\ in[4] = d
      /\ 1 .. 4 = {1, 2, 3, 4} /\ 4 \in 1 .. 4
  BY <1>1
<1>3. QED
  BY <1>1, <1>2, PinsOnes
=============================================================================
