------------------------------ MODULE CacheLru ------------------------------
(***************************************************************************)
(* The tree pseudo-LRU replacement of bsg_cache: bsg_lru_pseudo_tree_decode,*)
(* _encode and _backup.  ways_p ways are the leaves of a binary tree whose  *)
(* inner nodes are numbered from the root on, rank by rank.  The LRU bits   *)
(* are the set of the nodes whose bit is 1; a 1 points to the right.        *)
(***************************************************************************)
EXTENDS Integers

CONSTANT ways_p

ASSUME WaysAssumption == \E k \in 0..ways_p : ways_p = 2^k

Ways == 0..(ways_p - 1)
lg_ways == CHOOSE k \in 0..ways_p : 2^k = ways_p
Nodes == 0..(ways_p - 2)

(* The node of a rank that the path from the root to a way passes.          *)
NodeOf(rank, way) == 2^rank - 1 + way \div 2^(lg_ways - rank)

(* mask_o and data_o of the decoder: the nodes above a way, and those of    *)
(* them from which the way is to the left, so that 1 points away from it.   *)
lru_mask(way) == {NodeOf(rank, way) : rank \in 0..(lg_ways - 1)}
lru_data(way) ==
  {NodeOf(rank, way) :
     rank \in {r \in 0..(lg_ways - 1) : (way \div 2^(lg_ways - 1 - r)) % 2 = 0}}

(* A way has been used: its nodes are overwritten. *)
Touched(bits, way) == (bits \ lru_mask(way)) \cup lru_data(way)

(* way_id_o of the encoder: the leaf the bits lead to. *)
lru_way_id(bits) ==
  LET prefix[rank \in 0..lg_ways] ==
        IF rank = 0 THEN 0 ELSE
        2 * prefix[rank - 1] +
          (IF 2^(rank - 1) - 1 + prefix[rank - 1] \in bits THEN 1 ELSE 0)
  IN  prefix[lg_ways]

(* The ways below the left and the right child of a node.                   *)
RankOf(node) == CHOOSE r \in 0..lg_ways : 2^r <= node + 1 /\ node + 1 < 2^(r + 1)
Below(node, side) ==
  {w \in Ways : NodeOf(RankOf(node), w) = node
                /\ (w \div 2^(lg_ways - 1 - RankOf(node))) % 2 = side}

(* modify_data_o and modify_mask_o of the backup finder, applied to the     *)
(* bits: a node with only disabled ways on one side points to the other.    *)
Backed(bits, disabled) ==
  LET left  == {n \in Nodes : Below(n, 0) \subseteq disabled}
      right == {n \in Nodes : Below(n, 1) \subseteq disabled}
  IN  (bits \ (left \cup right)) \cup left

(* What the miss handler expects of them: the bits stay bits, and with the  *)
(* backup finder in between they lead to a way that is not disabled, as     *)
(* long as there is one.                                                    *)
NamesEnabledWay ==
  \A bits \in SUBSET Nodes :
    /\ \A way \in Ways : Touched(bits, way) \subseteq Nodes
    /\ \A disabled \in SUBSET Ways :
         LET way == lru_way_id(Backed(bits, disabled))
         IN  way \in Ways /\ (disabled # Ways => way \notin disabled)
=============================================================================
