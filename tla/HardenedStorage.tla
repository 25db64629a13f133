-------------------------- MODULE HardenedStorage ---------------------------
(***************************************************************************)
(* The storage that scripts write out as cells: register files             *)
(* (bsg_rf_gen.py), the shifting datapath of a queue (bsg_fifo_shift_gen.  *)
(* py) and registers (bsg_dff_gen.py), beside the words that the           *)
(* unhardened module of the same ports would hold.                         *)
(***************************************************************************)
EXTENDS HardenedCells

CONSTANTS
  Arrays,       \* what the scripts are asked to write
  MaxWrites(_)  \* writes to a register file of so many words

Fabs == {"gf_14", "tsmc_40", "tsmc_250"}

(* What the scripts can be asked for: bsg_rf_gen.py asserts that it is     *)
(* called with these sizes, bsg_dff_gen.py knows these cells.              *)
Written(a) ==
  /\ a.bits \in Nat \ {0}
  /\ \/ /\ a.kind = "rf" /\ a.fab \in Fabs
        /\ \/ a.words \in {2, 4} /\ a.ports = 1
           \/ a.words \in {8, 16, 32} /\ a.ports \in Nat \ {0}
     \/ a.kind = "shift" /\ a.words \in Nat \ {0}
     \/ /\ a.kind = "dff" /\ a.words = 1 /\ a.fab \in Fabs
        /\ \/ a.cell \in {"dff1", "dff2", "dff4", "dff8", "dffe1"}
           \/ a.fab # "gf_14" /\ a.cell \in {"dffr1", "dffre1", "dffre2"}

ASSUME ArraysAssumption == \A a \in Arrays : Written(a)

VARIABLES
  array,        \* the module under test
  reg,          \* its flops: for each word, its bits
  held,         \* the words of the unhardened module
  writes        \* history: writes so far

storage_vars == <<array, reg, held, writes>>

Words == 0 .. array.words - 1
Bits == 0 .. array.bits - 1
Vector == [Bits -> Bit]

-----------------------------------------------------------------------------
(* Register files. *)

gf_14_rf ==
  [aoi22 |-> "SC7P5T_AOI22X1_SSC14SL", nand4 |-> "SC7P5T_ND4X2_SSC14SL",
   nor2 |-> "SC7P5T_NR2X2_SSC14SL", nand2 |-> "SC7P5T_ND2X2_SSC14SL",
   inv |-> "SC7P5T_INVX8_SSC14SL", invx3 |-> "SC7P5T_INVX3_SSC14SL"]
tsmc_40_rf ==
  [aoi22 |-> "AOI22D1BWP", nand4 |-> "ND4D1BWP", nor2 |-> "NR2D2BWP",
   nand2 |-> "ND2D2BWP", inv |-> "INVD8BWP", invx3 |-> "INVD3BWP"]
tsmc_250_rf ==
  [aoi22 |-> "AOI22X1", nand4 |-> "NAND4X1", nor2 |-> "NOR2X2",
   nand2 |-> "NAND2X2", inv |-> "INVX8", invx3 |-> "INVX3"]

(* A flop with an enable, after a clock edge.                              *)
dffe(d, en, q) == IF en = 1 THEN d ELSE q

(* The scripts for two and for four words; sel is read_sel_one_hot_i.      *)
generate_2_word_1r1w_array(cells, bits, sel, q) ==
  [b \in 0 .. bits - 1 |->
     Gate(cells.invx3,
          <<Gate(cells.aoi22, <<sel[0], q[0][b], sel[1], q[1][b]>>)>>)]

generate_4_word_1r1w_array(cells, bits, sel, q) ==
  LET qaoi(bank, b) ==
        Gate(cells.aoi22, <<sel[2 * bank], q[2 * bank][b],
                            sel[2 * bank + 1], q[2 * bank + 1][b]>>)
  IN  [b \in 0 .. bits - 1 |-> Gate(cells.nand2, <<qaoi(0, b), qaoi(1, b)>>)]

(* The script for 8, 16 and 32 words: what a flop stores, inverted, and a  *)
(* tree of gates for every port.                                           *)
data_i_inv(cells, data_i) == [b \in DOMAIN data_i |-> Gate(cells.inv, <<data_i[b]>>)]

(* Seeded fault: the upper half of thirty-two words is left out.           *)
MutOther(words) == 0

(* The second input of the last gate: the upper half, or the same input    *)
(* twice where there is none.                                              *)
other_nor2(words) == IF words > 16 THEN 16 ELSE 0

generate_Nr1w_array(cells, words, bits, readports, sel, q) ==
  LET qaoi(p, w, b) ==
        Gate(cells.aoi22, <<sel[words * p + w], q[w][b],
                            sel[words * p + w + 1], q[w + 1][b]>>)
      nand(p, w, b) ==
        Gate(cells.nand4, <<qaoi(p, w, b), qaoi(p, w + 2, b),
                            qaoi(p, w + 4, b), qaoi(p, w + 6, b)>>)
      nor2(p, w, b) == Gate(cells.nor2, <<nand(p, w, b), nand(p, w + 8, b)>>)
      nand2(p, b) ==
        Gate(cells.nand2, <<nor2(p, 0, b), nor2(p, other_nor2(words), b)>>)
  IN  [x \in 0 .. bits * readports - 1 |->
         LET p == x \div bits
             b == x % bits
         IN  Gate(cells.inv, <<IF words >= 16 THEN nand2(p, b) ELSE nand(p, 0, b)>>)]

ReadArray(cells, words, bits, readports, sel, q) ==
  CASE words = 2 -> generate_2_word_1r1w_array(cells, bits, sel, q)
    [] words = 4 -> generate_4_word_1r1w_array(cells, bits, sel, q)
    [] words \in {8, 16, 32} ->
         generate_Nr1w_array(cells, words, bits, readports, sel, q)

(* The same text, once for every process.                                  *)
gf_14_read(sel) == ReadArray(gf_14_rf, array.words, array.bits, array.ports, sel, reg)
tsmc_40_read(sel) == ReadArray(tsmc_40_rf, array.words, array.bits, array.ports, sel, reg)
tsmc_250_read(sel) == ReadArray(tsmc_250_rf, array.words, array.bits, array.ports, sel, reg)

data_o(sel) ==
  CASE array.fab = "gf_14" -> gf_14_read(sel)
    [] array.fab = "tsmc_40" -> tsmc_40_read(sel)
    [] array.fab = "tsmc_250" -> tsmc_250_read(sel)

rf_cells == [gf_14 |-> gf_14_rf, tsmc_40 |-> tsmc_40_rf, tsmc_250 |-> tsmc_250_rf]

stored(data_i) ==
  IF array.kind # "rf" \/ array.words < 8 THEN data_i
  ELSE data_i_inv(rf_cells[array.fab], data_i)

(* The wrapper: an address, if valid, as a one-hot vector, and the ports   *)
(* one after the other.                                                    *)
one_hot(v, addr, w) == IF v /\ w = addr THEN 1 ELSE 0

read_sel(addr) ==
  [x \in 0 .. array.words * array.ports - 1 |->
     one_hot(TRUE, addr[x \div array.words], x % array.words)]

(* Where the gates of a column of muxes go: name, word, row.  Every row    *)
(* has room for one cell.                                                  *)
(* Seeded fault: the last row, where the inverter is.                      *)
MutNand2Row(words) == words - 1

nand2_row(words) == IF words > 16 THEN 15 ELSE 13

placement(words, p) ==
  (IF p = 0 THEN {<<"inv_in", 0, 1>>} ELSE {})
    \cup {<<"aoi22", w, w>> : w \in {w \in 0 .. words - 1 : w % 2 = 0}}
    \cup {<<"nand4", w, w + 3>> : w \in {w \in 0 .. words - 1 : w % 8 = 0}}
    \cup (IF words < 16 THEN {}
          ELSE {<<"nor2", w, w + 7>> : w \in {w \in 0 .. words - 1 : w % 16 = 0}}
                 \cup {<<"nand2", 0, nand2_row(words)>>})
    \cup {<<"inv_out", 0, words - 1>>}

-----------------------------------------------------------------------------
(* The shifting datapath: every word keeps its value (0), takes the one    *)
(* after it (1) or the new one (2); the last word has none after it.       *)
generate_fifo_shift_array(words, bits, data_i, sel, q) ==
  LET source(w, b, g) ==
        CASE g = 0 -> q[w][b]
          [] g = 1 -> q[w + 1][b]
          [] g = 2 -> data_i[b]
      a2(w, b, g) == Gate("NAND2XL", <<sel[3 * w + g], source(w, b, g)>>)
  IN  [w \in 0 .. words - 1 |->
         [b \in 0 .. bits - 1 |->
            IF w < words - 1
            THEN Gate("NAND3XL", <<a2(w, b, 2), a2(w, b, 0), a2(w, b, 1)>>)
            ELSE Gate("NAND2XL", <<a2(w, b, 0), a2(w, b, 2)>>)]]

sel_onehot(sel_i) ==
  [x \in 0 .. 3 * array.words - 1 |-> IF sel_i[x \div 3] = x % 3 THEN 1 ELSE 0]

(* bsg_fifo_shift_datapath with the default_p that the hardened one takes. *)
Shifted(data_i, sel_i) ==
  [w \in Words |->
     CASE sel_i[w] = 0 -> held[w]
       [] sel_i[w] = 1 -> IF w + 1 \in Words THEN held[w + 1] ELSE [b \in Bits |-> 0]
       [] sel_i[w] = 2 -> data_i]

-----------------------------------------------------------------------------
(* Registers: the pins, besides data, clock and output, of the cell behind *)
(* a base cell.  (The resettable cells of gf_14 are asynchronous, which    *)
(* its script says is to be fixed; they are left out.)                     *)
gf_14_cell(basecell) ==
  CASE basecell = "dffe1" -> {"en_i"}
    [] basecell \in {"dff1", "dff2", "dff4", "dff8"} -> {}

tsmc_40_cell(basecell) ==
  CASE basecell \in {"dffre1", "dffre2"} -> {"en_i", "nreset_i"}
    [] basecell = "dffr1" -> {"nreset_i"}
    [] basecell = "dffe1" -> {"en_i"}
    [] basecell \in {"dff1", "dff2", "dff4", "dff8"} -> {}

tsmc_250_cell(basecell) ==
  CASE basecell \in {"dffre1", "dffre2"} -> {"en_i", "nreset_i"}
    [] basecell = "dffr1" -> {"nreset_i"}
    [] basecell = "dffe1" -> {"en_i"}
    [] basecell \in {"dff1", "dff2", "dff4", "dff8"} -> {}

(* The module written around the cells: its name, less strength and width, *)
(* and its ports.                                                          *)
string_to_suffix(basecell) ==
  CASE basecell \in {"dffre1", "dffre2"} -> "dff_nreset_en"
    [] basecell = "dffr1" -> "dff_nreset"
    [] basecell = "dffe1" -> "dff_en"
    [] basecell \in {"dff1", "dff2", "dff4", "dff8"} -> "dff"

string_to_param_list(basecell) ==
  CASE basecell \in {"dffre1", "dffre2"} -> {"nreset_i", "en_i"}
    [] basecell = "dffr1" -> {"nreset_i"}
    [] basecell = "dffe1" -> {"en_i"}
    [] basecell \in {"dff1", "dff2", "dff4", "dff8"} -> {}

(* A pin whose wire is no port of the module is not driven (0 here); reset *)
(* has priority over enable.                                               *)
generate_dff_nreset_en(pins, ports, data_i, en_i, nreset_i, q) ==
  LET en == IF "en_i" \in ports THEN en_i ELSE 0
      nreset == IF "nreset_i" \in ports THEN nreset_i ELSE 0
  IN  [b \in DOMAIN data_i |->
         IF "nreset_i" \in pins /\ nreset = 0 THEN 0
         ELSE IF "en_i" \in pins THEN dffe(data_i[b], en, q[b]) ELSE data_i[b]]

gf_14_dff(basecell, data_i, en_i, nreset_i, q) ==
  generate_dff_nreset_en(gf_14_cell(basecell), string_to_param_list(basecell),
                         data_i, en_i, nreset_i, q)
tsmc_40_dff(basecell, data_i, en_i, nreset_i, q) ==
  generate_dff_nreset_en(tsmc_40_cell(basecell), string_to_param_list(basecell),
                         data_i, en_i, nreset_i, q)
tsmc_250_dff(basecell, data_i, en_i, nreset_i, q) ==
  generate_dff_nreset_en(tsmc_250_cell(basecell), string_to_param_list(basecell),
                         data_i, en_i, nreset_i, q)

(* bsg_dff, bsg_dff_en, bsg_dff_reset and bsg_dff_reset_en.                *)
Registered(data_i, en_i, nreset_i) ==
  LET kind == string_to_suffix(array.cell)
  IN  IF kind \in {"dff_nreset", "dff_nreset_en"} /\ nreset_i = 0
      THEN [b \in Bits |-> 0]
      ELSE IF kind \in {"dff_en", "dff_nreset_en"} /\ en_i = 0 THEN held[0]
      ELSE data_i

-----------------------------------------------------------------------------
(* Before the first write all words are alike.                             *)
StorageInit ==
  /\ array \in Arrays
  /\ \E bit \in Bit : held = [w \in Words |-> [b \in Bits |-> bit]]
  /\ reg = [w \in Words |-> stored(held[w])]
  /\ writes = 0

(* A clock edge with a write to one word, or to none.                      *)
Write(v, addr, data_i) ==
  /\ array.kind = "rf"
  /\ writes < MaxWrites(array.words)
  /\ reg' = [w \in Words |->
               [b \in Bits |->
                  dffe(stored(data_i)[b], one_hot(v, addr, w), reg[w][b])]]
  /\ held' = IF v THEN [held EXCEPT ![addr] = data_i] ELSE held
  /\ writes' = writes + 1
  /\ UNCHANGED array

Shift(data_i, sel_i) ==
  /\ reg' = generate_fifo_shift_array(array.words, array.bits, data_i,
                                      sel_onehot(sel_i), reg)
  /\ held' = Shifted(data_i, sel_i)
  /\ UNCHANGED <<array, writes>>

Clock(data_i, en_i, nreset_i) ==
  /\ array.kind = "dff"
  /\ reg' = [w \in Words |->
       CASE array.fab = "gf_14" -> gf_14_dff(array.cell, data_i, en_i, nreset_i, reg[w])
         [] array.fab = "tsmc_40" -> tsmc_40_dff(array.cell, data_i, en_i, nreset_i, reg[w])
         [] array.fab = "tsmc_250" -> tsmc_250_dff(array.cell, data_i, en_i, nreset_i, reg[w])]
  /\ held' = [w \in Words |-> Registered(data_i, en_i, nreset_i)]
  /\ UNCHANGED <<array, writes>>

StorageNext ==
  \E data_i \in Vector :
    \/ \E v \in BOOLEAN, addr \in Words : Write(v, addr, data_i)
    \/ array.kind = "shift" /\ \E sel_i \in [Words -> 0 .. 2] : Shift(data_i, sel_i)
    \/ \E en_i, nreset_i \in Bit : Clock(data_i, en_i, nreset_i)

StorageSpec == StorageInit /\ [][StorageNext]_storage_vars

-----------------------------------------------------------------------------
(* Whatever was written, the hardened module shows what the unhardened one *)
(* shows: a register file on every port for every address, with different  *)
(* addresses on its ports.                                                 *)
StorageMatches ==
  IF array.kind = "rf"
  THEN \A a \in Words :
         LET addr == [p \in 0 .. array.ports - 1 |-> (a + p) % array.words]
             out == data_o(read_sel(addr))
         IN  \A p \in 0 .. array.ports - 1, b \in Bits :
               out[p * array.bits + b] = held[addr[p]][b]
  ELSE reg = held

(* No two cells of a column are placed in the same row, and none outside.  *)
OneCellPerSlot ==
  array.kind = "rf" /\ array.words >= 8 =>
    \A p \in 0 .. array.ports - 1 :
      LET cells == placement(array.words, p)
      IN  /\ \A c \in cells : c[3] \in Words
          /\ Cardinality(cells) = Cardinality({c[3] : c \in cells})
=============================================================================
