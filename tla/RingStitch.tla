----------------------------- MODULE RingStitch ------------------------------
(***************************************************************************)
(* bsg_mesh_to_ring_stitch.py: the tiles of a mesh as a ring of nearest    *)
(* neighbours, for every size that the script is run with.  A single bit   *)
(* goes round the ring from register to register, as in the test of the    *)
(* module.                                                                 *)
(***************************************************************************)
EXTENDS Integers, Sequences, SequencesExt

CONSTANTS topX, topY   \* the script makes every mesh up to this size

VARIABLES
  mesh,     \* x_max_p and y_max_p
  tile,     \* the tile whose register holds the bit
  first,    \* where it set out
  steps     \* history: clock edges since

vars == <<mesh, tile, first, steps>>

-----------------------------------------------------------------------------
(* The order of the tiles: up and down (or to and fro) in pairs of columns *)
(* (rows), and back along the bottom (the left edge).                      *)
column(x, n) == [y \in 1 .. n |-> <<x, y>>]
row(y, n) == [x \in 1 .. n |-> <<x, y>>]

(* Seeded fault: both columns of a pair upwards.                           *)
MutColumns(maxX, maxY) ==
  FlattenSeq([p \in 1 .. maxX \div 2 |->
                column(2 * p - 2, maxY - 1) \o column(2 * p - 1, maxY - 1)])

columns(maxX, maxY) ==
  FlattenSeq([p \in 1 .. maxX \div 2 |->
                column(2 * p - 2, maxY - 1)
                  \o Reverse(column(2 * p - 1, maxY - 1))])

rows(maxX, maxY) ==
  FlattenSeq([p \in 1 .. maxY \div 2 |->
                row(2 * p - 2, maxX - 1)
                  \o Reverse(row(2 * p - 1, maxX - 1))])

order(maxX, maxY) ==
  IF <<maxX, maxY>> = <<1, 2>> THEN << <<0, 0>>, <<0, 1>> >>
  ELSE IF <<maxX, maxY>> = <<2, 1>> THEN << <<0, 0>>, <<1, 0>> >>
  ELSE IF maxX % 2 = 0
       THEN columns(maxX, maxY) \o Reverse([k \in 1 .. maxX |-> <<k - 1, 0>>])
       ELSE rows(maxX, maxY) \o Reverse([k \in 1 .. maxY |-> <<0, k - 1>>])

Sizes ==
  {s \in (2 .. topX) \X (2 .. topY) : s[1] % 2 = 0 \/ s[2] % 2 = 0}
    \cup {<<1, 2>>, <<2, 1>>}

Tiles == (0 .. mesh[1] - 1) \X (0 .. mesh[2] - 1)
Count == mesh[1] * mesh[2]

(* The place of a tile in the order, and the wires between them.           *)
matrix(t) == (CHOOSE k \in 1 .. Count : order(mesh[1], mesh[2])[k] = t) - 1
my_dict(position) == order(mesh[1], mesh[2])[position + 1]

above(position) == IF position + 1 = Count THEN 0 ELSE position + 1
below(position) == IF position = 0 THEN Count - 1 ELSE position - 1

fwd_data_in_o(t) == my_dict(above(matrix(t)))
back_data_in_o(t) == my_dict(below(matrix(t)))

(* The positions as a vector: the script prints them from x = 0 and y = 0  *)
(* on, and the first one printed has the highest indices.                  *)
id_o(t) == matrix(<<mesh[1] - 1 - t[1], mesh[2] - 1 - t[2]>>)

-----------------------------------------------------------------------------
Init ==
  /\ mesh \in Sizes
  /\ first \in {<<0, 0>>, <<mesh[1] - 1, mesh[2] - 1>>}
  /\ tile = first
  /\ steps = 0

Clk ==
  /\ steps < Count
  /\ tile' = fwd_data_in_o(tile)
  /\ steps' = steps + 1
  /\ UNCHANGED <<mesh, first>>

Next == Clk

Spec == Init /\ [][Next]_vars

-----------------------------------------------------------------------------
Neighbours(s, t) ==
  <<s[1] - t[1], s[2] - t[2]>> \in {<<0, 1>>, <<0, -1>>, <<1, 0>>, <<-1, 0>>}

(* Every wire is between neighbours, the wires back are those forward the  *)
(* other way round, and a bit comes back to its tile when it has been in   *)
(* all the others and no sooner.                                           *)
RingIsClosed ==
  /\ Neighbours(tile, fwd_data_in_o(tile))
  /\ back_data_in_o(fwd_data_in_o(tile)) = tile
  /\ tile = first <=> steps \in {0, Count}

(* Ids count up along the ring: what the comments beside the wires say     *)
(* ("0->1") and the table of ids is labelled for ("// x = 0").             *)
IdsFollowTheRing == id_o(fwd_data_in_o(tile)) = above(id_o(tile))
=============================================================================
