---------------------------- MODULE MCGenerated -----------------------------
(***************************************************************************)
(* What the library's scripts generate, each with what it stands for: the  *)
(* round-robin arbiters, next to the thermometer-coded one; register       *)
(* files, shift arrays and registers of cells; muxes and reductions of     *)
(* cells; the multiplier with and without hardened rows; the tables of the *)
(* channel switchbox; and the ring through a mesh.  One unit is under test *)
(* and the others stay as they are at first.                               *)
(***************************************************************************)
EXTENDS RoundRobinArb, Multiplier32, HardenedStorage

CONSTANTS width_p, Channels, Recalibrated, topX, topY

VARIABLES
  unit,
  lowcode, highcode, reqs_low, reqs_high, last_low, last_high,
  netlist,
  num_channels_p, channel_active_i,
  fwd_sel_r, fwd_dpath_sel_r, bk_sel_r, bk_dpath_sel_r, settled,
  mesh, tile, first, steps

two == INSTANCE ArbRoundRobin
sbox == INSTANCE ScatterGather
ring == INSTANCE RingStitch

ASSUME TwoLevelAssumption == width_p \in Nat \ {0}
ASSUME ChannelsAssumption == Channels \subseteq Nat
ASSUME TopAssumption == topX \in Nat /\ topY \in Nat

-----------------------------------------------------------------------------
(* Every process has the same arrays, where its script writes them.        *)

Array(kind, fab, words, ports, cell) ==
  [kind |-> kind, fab |-> fab, words |-> words, bits |-> 2, ports |-> ports, cell |-> cell]

TheArrays ==
  {Array("rf", f, w, 1, "") : f \in Fabs, w \in {2, 4, 8, 16, 32}}
  \cup {Array("rf", f, w, 2, "") : f \in Fabs, w \in {8, 16, 32}}
  \cup {Array("shift", "tsmc_250", w, 1, "") : w \in {2, 4}}
  \cup {Array("dff", f, 1, 1, c) : f \in Fabs, c \in {"dff1", "dff2", "dff4", "dff8", "dffe1"}}
  \cup {Array("dff", f, 1, 1, c) : f \in Fabs \ {"gf_14"}, c \in {"dffr1", "dffre1", "dffre2"}}

TheWrites(words) == IF words <= 4 THEN 3 ELSE IF words = 8 THEN 2 ELSE 1

(* Combinational cells, by what was written. *)
Netlists ==
  {[kind |-> "mux", fab |-> f, inputs |-> n] : f \in Fabs, n \in 2 .. 4}
  \cup {[kind |-> "reduce", fab |-> f, width |-> w] : f \in Fabs, w \in DOMAIN Grouping}
  \cup {[kind |-> "and_csa", rows |-> r] : r \in 5 .. 8}

(* Operands at the ends of their ranges, of alternating bits and others;   *)
(* after the unsigned product the signed one with the operands exchanged.  *)
Operands ==
  LET Number(one(_)) == Wires([p \in 0 .. 31 |-> IF one(p) THEN 1 ELSE 0])
  IN  {Number(LAMBDA p : FALSE), Number(LAMBDA p : TRUE), Number(LAMBDA p : p = 0),
       Number(LAMBDA p : p = 31), Number(LAMBDA p : p < 31),
       Number(LAMBDA p : p % 2 = 0), Number(LAMBDA p : p % 2 = 1),
       Number(LAMBDA p : (p * (p + 3)) % 7 < 3), Number(LAMBDA p : (p * p) % 11 > 4)}

TheOperations ==
  [x_i : Operands, y_i : Operands, signed_i : {FALSE}, hard : BOOLEAN]

Exchanged(o) == {[x_i |-> o.y_i, y_i |-> o.x_i, signed_i |-> TRUE, hard |-> o.hard]}
TheFollowing(o) == {o} \cup (IF o.signed_i THEN {} ELSE Exchanged(o))

-----------------------------------------------------------------------------
two_vars == <<lowcode, highcode, reqs_low, reqs_high, last_low, last_high>>
switch == <<num_channels_p, channel_active_i, fwd_sel_r, fwd_dpath_sel_r,
            bk_sel_r, bk_dpath_sel_r, settled>>
stitch == <<mesh, tile, first, steps>>
all == <<unit, vars, two_vars, storage_vars, mul_vars, netlist, switch, stitch>>

SomeArray == CHOOSE a \in TheArrays : a.kind = "dff"
Nothing == [kind |-> "none"]

NoStorage ==
  /\ array = SomeArray
  /\ held = << >> /\ reg = << >> /\ writes = 0
NoProduct == op = NoOperation /\ pipe = << >> /\ held_op = NoOperation
NoSwitch ==
  /\ num_channels_p = 1 /\ channel_active_i = {} /\ settled = {}
  /\ fwd_sel_r = << >> /\ fwd_dpath_sel_r = << >>
  /\ bk_sel_r = << >> /\ bk_dpath_sel_r = << >>
NoRing == mesh = <<1, 2>> /\ tile = <<0, 0>> /\ first = tile /\ steps = 0

GeneratedInit ==
  /\ unit \in {"arbiter", "two_level", "storage", "cells", "multiplier", "sbox", "ring"}
  /\ Init
  /\ unit # "arbiter" => policy = "plain"
  /\ two!Init
  /\ IF unit = "storage" THEN StorageInit ELSE NoStorage
  /\ netlist \in IF unit = "cells" THEN Netlists ELSE {Nothing}
  /\ IF unit = "multiplier" THEN MulInit ELSE NoProduct
  /\ IF unit = "sbox" THEN sbox!Init ELSE NoSwitch
  /\ IF unit = "ring" THEN ring!Init ELSE NoRing

Arbitrate == UNCHANGED <<two_vars, storage_vars, mul_vars, netlist, switch, stitch>>
OnlyTwo == UNCHANGED <<vars, storage_vars, mul_vars, netlist, switch, stitch>>
OnlyStorage == UNCHANGED <<vars, two_vars, mul_vars, netlist, switch, stitch>>
OnlyProduct == UNCHANGED <<vars, two_vars, storage_vars, netlist, switch, stitch>>
OnlySwitch == UNCHANGED <<vars, two_vars, storage_vars, mul_vars, netlist, stitch>>
OnlyRing == UNCHANGED <<vars, two_vars, storage_vars, mul_vars, netlist, switch>>

GeneratedNext ==
  /\ UNCHANGED unit
  /\ \/ unit = "arbiter" /\ Next /\ Arbitrate
     \/ unit = "two_level" /\ two!Next /\ OnlyTwo
     \/ unit = "storage" /\ StorageNext /\ OnlyStorage
     \/ unit = "multiplier" /\ MulNext /\ OnlyProduct
     \/ unit = "sbox" /\ sbox!Next /\ OnlySwitch
     \/ unit = "ring" /\ ring!Next /\ OnlyRing

GeneratedSpec == GeneratedInit /\ [][GeneratedNext]_all

-----------------------------------------------------------------------------
(* The scan of the two-level arbiter finds the item whose turn it is, at   *)
(* both levels.                                                            *)
GrantsNextInTurn == two!GrantsNextInTurn

(* Muxes of cells select, reductions of cells reduce and rows of adders    *)
(* with an AND add, as the unhardened modules do.                          *)
CellsMatch ==
  CASE netlist.kind = "mux" ->
         (CASE netlist.fab = "gf_14" -> MuxSelects(gf_14_mux_shift, netlist.inputs, 2)
            [] netlist.fab = "tsmc_40" -> MuxSelects(tsmc_40_mux_shift, netlist.inputs, 2)
            [] netlist.fab = "tsmc_250" -> MuxSelects(tsmc_250_mux_shift, netlist.inputs, 2))
    [] netlist.kind = "reduce" ->
         (CASE netlist.fab = "gf_14" -> ReducesAll(gf_14_reduce_and, netlist.width)
            [] netlist.fab = "tsmc_40" -> ReducesAll(tsmc_40_reduce_and, netlist.width)
            [] netlist.fab = "tsmc_250" -> ReducesAll(tsmc_250_reduce_and, netlist.width))
    [] netlist.kind = "and_csa" -> AddsWithAnd(netlist.rows)
    [] netlist.kind = "none" -> TRUE

(* The switchbox routes every active channel to its place and back.        *)
Concentrates == unit = "sbox" => sbox!Concentrates

(* The ring goes through every tile once, between neighbours.              *)
RingIsClosed == ring!RingIsClosed

-----------------------------------------------------------------------------
(* The ring alone, for its ids.                                            *)
RingInit == unit = "ring" /\ GeneratedInit
RingSpec == RingInit /\ [][GeneratedNext]_all

(* Ids count up along the ring: what the comments beside the wires of      *)
(* bsg_mesh_to_ring_stitch and the labels of its table of ids say.         *)
IdsFollowTheRing == ring!IdsFollowTheRing

(* The hardened reduction of every width that the wrapper takes.           *)
ReduceInit ==
  /\ unit = "cells" /\ Init /\ policy = "plain" /\ two!Init
  /\ netlist \in {[kind |-> "wrapper", width |-> w] : w \in 2 .. 16}
  /\ NoStorage /\ NoProduct /\ NoSwitch /\ NoRing
ReduceSpec == ReduceInit /\ [][UNCHANGED all]_all

(* bsg_reduce with and_p = 1 is the AND of all its inputs, for any width   *)
(* that it takes: the first line of the module's description.              *)
ReducesAnyWidth ==
  netlist.kind = "wrapper" => ReducesAll(bsg_reduce_and, netlist.width)
=============================================================================
