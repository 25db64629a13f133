---------------------------- MODULE ScatterGather ----------------------------
(***************************************************************************)
(* bsg_scatter_gather, the tables that bsg_scatter_gather.py prints for    *)
(* every number of channels, between the two sides of bsg_sbox: whichever  *)
(* channels are active, the concentrated side sees them as its first ones. *)
(* A bit vector over the channels is the set of its bits.                  *)
(***************************************************************************)
EXTENDS Integers, FiniteSets

CONSTANTS
  Channels,       \* the numbers of channels
  Recalibrated    \* those of them whose active channels change

VARIABLES
  num_channels_p,
  channel_active_i,
  fwd_sel_r, fwd_dpath_sel_r, bk_sel_r, bk_dpath_sel_r,
  settled         \* history: the active channels at the last clock edge

vars == <<num_channels_p, channel_active_i, fwd_sel_r, fwd_dpath_sel_r,
          bk_sel_r, bk_dpath_sel_r, settled>>

-----------------------------------------------------------------------------
(* One line of each table, for n channels of which those in vec are set.   *)
position(vec, i) == Cardinality({j \in vec : j < i})

spare(n, vec) ==
  CHOOSE i \in 0 .. n - 1 : i \notin vec /\ \A j \in 0 .. n - 1 : j \notin vec => j <= i

gen_fwd_vec_line(n, vec) ==
  [pos \in 0 .. n - 1 |->
     IF pos < Cardinality(vec) THEN CHOOSE i \in vec : position(vec, i) = pos
     ELSE spare(n, vec)]

gen_fwd_vec_line_dpath(n, vec) ==
  [pos \in 0 .. n - 1 |->
     IF pos < Cardinality(vec) THEN gen_fwd_vec_line(n, vec)[pos] - pos ELSE 0]

(* Seeded fault: the safe value of the data path in the control path.      *)
MutBackVecLine(n, vec) ==
  [i \in 0 .. n - 1 |-> IF i \in vec THEN position(vec, i) ELSE 0]

gen_back_vec_line(n, vec) ==
  [i \in 0 .. n - 1 |-> IF i \in vec THEN position(vec, i) ELSE n - 1]

gen_back_vec_line_dpath(n, vec) ==
  [i \in 0 .. n - 1 |-> IF i \in vec THEN position(vec, i) ELSE 0]

-----------------------------------------------------------------------------
(* bsg_sbox without its optional queues: a bit of a vector, or a word of   *)
(* an array, for every channel of the other side.                          *)
Ports == 0 .. num_channels_p - 1

in_v_o(in_v_i) == {k \in Ports : fwd_sel_r[k] \in in_v_i}
in_yumi_o(in_yumi_i) == {i \in Ports : bk_sel_r[i] \in in_yumi_i}
in_data_o(in_data_i) == [k \in Ports |-> in_data_i[k + fwd_dpath_sel_r[k]]]

out_me_v_o(out_me_v_i) == {i \in Ports : bk_sel_r[i] \in out_me_v_i}
out_me_ready_o(out_me_ready_i) == {k \in Ports : fwd_sel_r[k] \in out_me_ready_i}
out_me_data_o(out_me_data_i) == [i \in Ports |-> out_me_data_i[bk_dpath_sel_r[i]]]

Selects(active) ==
  /\ fwd_sel_r' = gen_fwd_vec_line(num_channels_p, active)
  /\ fwd_dpath_sel_r' = gen_fwd_vec_line_dpath(num_channels_p, active)
  /\ bk_sel_r' = gen_back_vec_line(num_channels_p, active)
  /\ bk_dpath_sel_r' = gen_back_vec_line_dpath(num_channels_p, active)

Init ==
  /\ num_channels_p \in Channels
  /\ channel_active_i \in SUBSET Ports
  /\ fwd_sel_r = gen_fwd_vec_line(num_channels_p, channel_active_i)
  /\ fwd_dpath_sel_r = gen_fwd_vec_line_dpath(num_channels_p, channel_active_i)
  /\ bk_sel_r = gen_back_vec_line(num_channels_p, channel_active_i)
  /\ bk_dpath_sel_r = gen_back_vec_line_dpath(num_channels_p, channel_active_i)
  /\ settled = channel_active_i

Clk ==
  /\ Selects(channel_active_i)
  /\ settled' = channel_active_i
  /\ channel_active_i' \in
       IF num_channels_p \in Recalibrated THEN SUBSET Ports ELSE {channel_active_i}
  /\ UNCHANGED num_channels_p

Next == Clk

Spec == Init /\ [][Next]_vars

-----------------------------------------------------------------------------
(* The active channels appear, in their order, at the first ports of the   *)
(* concentrated side, and nothing at the others; a word that is taken      *)
(* there is taken from its own channel and from no other; and a word given *)
(* to one of these ports goes to the channel that its ready came from.     *)
(* The channels are those of one clock edge ago, and an inactive one has   *)
(* no valid words.                                                         *)
Concentrates ==
  LET words == [p \in Ports |-> p]
      nth(i) == position(settled, i)
      Some == {settled} \cup {{i} : i \in settled}
  IN  /\ \A valid \in Some :
           /\ in_v_o(valid) = {nth(i) : i \in valid}
           /\ in_yumi_o({nth(i) : i \in valid}) = valid
           /\ out_me_v_o({nth(i) : i \in valid}) = valid
           /\ out_me_ready_o(valid) = {nth(i) : i \in valid}
      /\ \A i \in settled :
           /\ in_data_o(words)[nth(i)] = i
           /\ out_me_data_o(words)[i] = nth(i)
=============================================================================
