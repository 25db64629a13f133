--------------------------- MODULE HardenedCells ----------------------------
(***************************************************************************)
(* The scripts that write the hardened ("rp group") versions of the small  *)
(* building blocks as netlists of standard cells: bsg_gate_stack_gen.py,   *)
(* bsg_mux_gen.py and bsg_reduce_gen.py, each once for every fabrication   *)
(* process.  A script's text differs between the processes in the names of *)
(* the cells only; a cell here is that name, and what the cell computes is *)
(* taken from the library.                                                 *)
(*                                                                         *)
(* A vector of bits is a function from 0 .. width-1 to {0, 1}; the pins of *)
(* a gate are a sequence, in the order #1, #2, ... of the script.          *)
(***************************************************************************)
EXTENDS Integers, Sequences, FiniteSets

Bit == {0, 1}
-----------------------------------------------------------------------------
(* The standard-cell libraries: the cells the scripts name, by function.   *)

Nands ==
  {"SC7P5T_ND2X2_SSC14SL", "SC7P5T_ND3X2_SSC14SL", "SC7P5T_ND4X2_SSC14SL",
   "ND2D2BWP", "ND3D2BWP", "ND4D2BWP", "ND4D1BWP",
   "NAND2X2", "NAND3X2", "NAND4X2", "NAND4X1", "NAND2XL", "NAND3XL"}
Nors ==
  {"SC7P5T_NR2X2_SSC14SL", "SC7P5T_NR2X4_SSC14SL", "SC7P5T_NR3X4_SSC14SL",
   "SC7P5T_NR4X4_SSC14SL", "NR2D2BWP", "NR2D4BWP", "NR3D4BWP", "NR4D4BWP",
   "NR3D1BWP", "NOR2X2", "NOR2X4", "NOR3X4", "NOR4X4"}
AndOrInverts == {"SC7P5T_AOI22X1_SSC14SL", "AOI22D1BWP", "AOI22X1"}
Inverters ==
  {"SC7P5T_INVX8_SSC14SL", "SC7P5T_INVX3_SSC14SL", "INVD8BWP", "INVD3BWP",
   "INVX8", "INVX3"}
Ands == {"AND2X1"}
Xors == {"XOR2X1", "XOR2D1BWP"}
Xnors == {"XNOR2X1", "XNR2D1BWP"}

(* The output of a gate, by the inputs for which it differs.               *)
Pins(n) == [1 .. n -> Bit]
AllOnes == {[k \in 1 .. n |-> 1] : n \in 1 .. 4}
AllZeros == {[k \in 1 .. n |-> 0] : n \in 1 .. 4}
OnePair == {in \in Pins(4) : in[1] + in[2] = 2 \/ in[3] + in[4] = 2}
Odd == {in \in Pins(2) : in[1] # in[2]}

Gate(cell, in) ==
  CASE cell \in Nands -> IF in \in AllOnes THEN 0 ELSE 1
    [] cell \in Nors -> IF in \in AllZeros THEN 1 ELSE 0
    [] cell \in AndOrInverts -> IF in \in OnePair THEN 0 ELSE 1
    [] cell \in Inverters -> IF in \in AllOnes THEN 0 ELSE 1
    [] cell \in Ands -> IF in \in AllOnes THEN 1 ELSE 0
    [] cell \in Xors -> IF in \in Odd THEN 1 ELSE 0
    [] cell \in Xnors -> IF in \in Odd THEN 0 ELSE 1

-----------------------------------------------------------------------------
(* The cells of each script in each process.                               *)

gf_14_mux ==
  [nand2 |-> "SC7P5T_ND2X2_SSC14SL", nand3 |-> "SC7P5T_ND3X2_SSC14SL",
   nand4 |-> "SC7P5T_ND4X2_SSC14SL"]
tsmc_40_mux ==
  [nand2 |-> "ND2D2BWP", nand3 |-> "ND3D2BWP", nand4 |-> "ND4D2BWP"]
tsmc_250_mux ==
  [nand2 |-> "NAND2X2", nand3 |-> "NAND3X2", nand4 |-> "NAND4X2"]

(* A gate per input and bit, data before select, and a joining gate per    *)
(* bit.  data_i holds the inputs one after the other.                      *)
Joiner(cells, inputs) ==
  CASE inputs = 4 -> cells.nand4
    [] inputs = 3 -> cells.nand3
    [] inputs = 2 -> cells.nand2

(* Seeded fault: data_i read as if the inputs were interleaved.            *)
MutMux(cells, inputs, bits, data_i, sel_one_hot_i) ==
  [b \in 0 .. bits - 1 |->
     Gate(Joiner(cells, inputs),
          [w \in 1 .. inputs |->
             Gate(cells.nand2, <<data_i[inputs * b + w - 1], sel_one_hot_i[w - 1]>>)])]

generate_mux_shift(cells, inputs, bits, data_i, sel_one_hot_i) ==
  [b \in 0 .. bits - 1 |->
     Gate(Joiner(cells, inputs),
          [w \in 1 .. inputs |->
             Gate(cells.nand2, <<data_i[bits * (w - 1) + b], sel_one_hot_i[w - 1]>>)])]

(* The same text in every process.                                         *)
gf_14_mux_shift(inputs, bits, data_i, sel_one_hot_i) ==
  generate_mux_shift(gf_14_mux, inputs, bits, data_i, sel_one_hot_i)
tsmc_40_mux_shift(inputs, bits, data_i, sel_one_hot_i) ==
  generate_mux_shift(tsmc_40_mux, inputs, bits, data_i, sel_one_hot_i)
tsmc_250_mux_shift(inputs, bits, data_i, sel_one_hot_i) ==
  generate_mux_shift(tsmc_250_mux, inputs, bits, data_i, sel_one_hot_i)

-----------------------------------------------------------------------------
(* A stack of equal gates, one for each bit.  The signature of the gate    *)
(* has a mark for the name of the instance, for every input and for the    *)
(* output, and the ports i0, i1, ... of the stack come from their count.   *)
generate_gate_stack(gatename, rows, marks, i) ==
  LET num_inputs == marks - 2
  IN  [pos \in 0 .. rows - 1 |->
         Gate(gatename, [x \in 1 .. num_inputs |-> i[x][pos]])]

-----------------------------------------------------------------------------
(* The reductions: a row of NANDs over groups of inputs, and a NOR.        *)

gf_14_nand == <<"", "SC7P5T_ND2X2_SSC14SL", "SC7P5T_ND3X2_SSC14SL",
                "SC7P5T_ND4X2_SSC14SL">>
gf_14_nor == <<"", "SC7P5T_NR2X4_SSC14SL", "SC7P5T_NR3X4_SSC14SL",
               "SC7P5T_NR4X4_SSC14SL">>
tsmc_40_nand == <<"", "ND2D2BWP", "ND3D2BWP", "ND4D2BWP">>
tsmc_40_nor == <<"", "NR2D4BWP", "NR3D4BWP", "NR4D4BWP">>
tsmc_250_nand == <<"", "NAND2X2", "NAND3X2", "NAND4X2">>
tsmc_250_nor == <<"", "NOR2X4", "NOR3X4", "NOR4X4">>

(* The widths a script writes: the groups of inputs, and their size.       *)
Grouping ==
  [w \in {4, 6, 8, 9, 12, 16} |->
     CASE w = 4 -> [groups |-> 2, size |-> 2]
       [] w = 6 -> [groups |-> 2, size |-> 3]
       [] w = 8 -> [groups |-> 2, size |-> 4]
       [] w = 9 -> [groups |-> 3, size |-> 3]
       [] w = 12 -> [groups |-> 3, size |-> 4]
       [] w = 16 -> [groups |-> 4, size |-> 4]]

ReduceAnd(nand, nor, w, i) ==
  LET g == Grouping[w]
      lo(k) == Gate(nand[g.size], [x \in 1 .. g.size |-> i[g.size * (k - 1) + x - 1]])
  IN  Gate(nor[g.groups], [k \in 1 .. g.groups |-> lo(k)])

gf_14_reduce_and(w, i) == ReduceAnd(gf_14_nand, gf_14_nor, w, i)
tsmc_40_reduce_and(w, i) == ReduceAnd(tsmc_40_nand, tsmc_40_nor, w, i)
tsmc_250_reduce_and(w, i) == ReduceAnd(tsmc_250_nand, tsmc_250_nor, w, i)

(* The wrapper picks the narrowest block that has room for its input, and  *)
(* widens the input with zeros.                                            *)
Block(width_p) ==
  CHOOSE w \in DOMAIN Grouping :
    w >= width_p /\ \A v \in DOMAIN Grouping : v >= width_p => w <= v

widen(width_p, i) ==
  [x \in 0 .. Block(width_p) - 1 |-> IF x < width_p THEN i[x] ELSE 0]

bsg_reduce_and(width_p, i) ==
  IF width_p < 4 THEN IF 0 \in {i[x] : x \in 0 .. width_p - 1} THEN 0 ELSE 1
  ELSE tsmc_40_reduce_and(Block(width_p), widen(width_p, i))

-----------------------------------------------------------------------------
(* What the unhardened modules of the same ports compute.                  *)
MuxSelects(mux_shift(_, _, _, _), inputs, bits) ==
  \A data_i \in [0 .. inputs * bits - 1 -> Bit], chosen \in 0 .. inputs - 1 :
    mux_shift(inputs, bits, data_i,
              [w \in 0 .. inputs - 1 |-> IF w = chosen THEN 1 ELSE 0])
      = [b \in 0 .. bits - 1 |-> data_i[bits * chosen + b]]

(* For inputs with up to two zeros.                                        *)
ReducesAll(reduce_and(_, _), w) ==
  \A j, k \in 0 .. w :
    reduce_and(w, [x \in 0 .. w - 1 |-> IF x \in {j, k} THEN 0 ELSE 1])
      = IF j = w /\ k = w THEN 1 ELSE 0
=============================================================================
