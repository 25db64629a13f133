----------------------------- MODULE LargeFifo ------------------------------
(***************************************************************************)
(* bsg_fifo_1r1w_large: a queue in a single-ported RAM of double width.    *)
(* Words arrive in a serial-in-parallel-out buffer of three (sipo), are    *)
(* dealt alternately to two output queues of two words (little) while      *)
(* those keep up, and otherwise spill into the RAM in pairs, to be fetched *)
(* back in pairs.  The output takes from the two queues in turn.  The      *)
(* output queues are TwoFifos and the sipo is a shift register; both are   *)
(* the sequences of their words.                                           *)
(***************************************************************************)
EXTENDS Integers, Sequences

CONSTANTS
  els_p,
  MinReset,     \* the fewest edges reset_i is held for
  Data, Junk

LargeAssumption == els_p \in Nat \ {0} /\ els_p % 2 = 0 /\ MinReset \in Nat

VARIABLES
  sipo,
  rd_ptr, wr_ptr, last_op_is_read_r, mem, big_data_lo,  \* big1p, of pairs
  big_deq_r,
  rr222_head_r,     \* the output queue the next word goes to
  little,
  tag_r,            \* the output queue the next word comes from
  reset_edges,      \* history: edges of reset_i since it rose, up to MinReset
  q                 \* history: the words accepted and not yet taken

vars == <<sipo, rd_ptr, wr_ptr, last_op_is_read_r, mem, big_data_lo, big_deq_r,
          rr222_head_r, little, tag_r, reset_edges, q>>

big1p == INSTANCE OneRwFifo WITH
  els_p <- els_p \div 2, Junk <- <<Junk, Junk>>,
  data_o <- big_data_lo

-----------------------------------------------------------------------------
(* The sipo: the words it holds and, at once, the one arriving; the first  *)
(* two are its outputs.                                                    *)
ready_and_o == Len(sipo) < 3
Arrived(v_i, d) == IF v_i /\ ready_and_o THEN Append(sipo, d) ELSE sipo
valid_sipo(s) == IF Len(s) < 2 THEN Len(s) ELSE 2

(* bsg_round_robin_2_to_2: output queue 0 or 1 for the first and the       *)
(* second word of a cycle.                                                 *)
Dest(k) == (rr222_head_r + k - 1) % 2
little_ready(k) == Len(little[Dest(k)]) < 2
BothReady == little_ready(1) /\ little_ready(2)

(* bsg_round_robin_n_to_1, strict. *)
v_o == little[tag_r] # <<>>
data_o == Head(little[tag_r])

-----------------------------------------------------------------------------
(* Where the words at the head of the sipo go, s being what it holds.      *)
bypass_mode == ~big_deq_r /\ little_ready(1) /\ big1p!empty_o
emergency == BothReady /\ ~big1p!empty_o /\ ~big_deq_r

will_spill(s) ==
  /\ ~big1p!full_o /\ ~bypass_mode
  /\ valid_sipo(s) = 2
  /\ ~emergency

(* Whether a pair is fetched back. *)
big_deq(s) ==
  /\ ~will_spill(s) /\ ~big1p!empty_o
  /\ IF big_deq_r THEN \A i \in 0 .. 1 : little[i] = <<>> ELSE BothReady

(* How many words bypass the RAM, in a cycle that fetched nothing.         *)
Bypassed(s) ==
  IF ~bypass_mode THEN 0
  ELSE IF valid_sipo(s) = 2 /\ little_ready(2) THEN 2
  ELSE IF valid_sipo(s) >= 1 THEN 1 ELSE 0

(* Seeded fault: words that bypass the RAM are not taken off the sipo. *)
MutStay(s) == IF will_spill(s) THEN 2 ELSE 0

yumi_cnt_sipo(s) == IF will_spill(s) THEN 2 ELSE Bypassed(s)

(* The words dealt to the output queues; a queue that is full would drop   *)
(* its word.                                                               *)
Dealt(s) == IF big_deq_r THEN big_data_lo ELSE SubSeq(s, 1, Bypassed(s))

Delivered(s, i) ==
  LET k == CHOOSE n \in 1 .. 2 : Dest(n) = i
  IN  IF k <= Len(Dealt(s)) /\ little_ready(k)
        THEN Append(little[i], Dealt(s)[k]) ELSE little[i]

Taken(s) == {k \in 1 .. Len(Dealt(s)) : little_ready(k)}
RrNext(s) == IF Taken(s) \in {{1}, {2}} THEN 1 - rr222_head_r ELSE rr222_head_r

BigEdge(reset_i, s) ==
  big1p!OneRwEdge(reset_i, will_spill(s), big_deq(s), SubSeq(s, 1, 2))

-----------------------------------------------------------------------------
Init ==
  /\ sipo = <<>>
  /\ big1p!OneRwInit
  /\ big_deq_r = FALSE
  /\ rr222_head_r = 0 /\ tag_r = 0
  /\ little = [i \in 0 .. 1 |-> <<>>]
  /\ reset_edges = MinReset
  /\ q = <<>>

Clk ==
  \E v_i, yumi_i \in BOOLEAN, d \in Data :
    LET s == Arrived(v_i, d) IN
    /\ reset_edges = MinReset
    /\ yumi_i => v_o
    /\ sipo' = SubSeq(s, yumi_cnt_sipo(s) + 1, Len(s))
    /\ BigEdge(FALSE, s)
    /\ big_deq_r' = big_deq(s)
    /\ rr222_head_r' = RrNext(s)
    /\ little' = [i \in 0 .. 1 |-> IF yumi_i /\ i = tag_r
                                     THEN Tail(Delivered(s, i))
                                     ELSE Delivered(s, i)]
    /\ tag_r' = IF yumi_i THEN 1 - tag_r ELSE tag_r
    /\ q' = LET a == IF v_i /\ ready_and_o THEN Append(q, d) ELSE q
            IN  IF yumi_i /\ a # <<>> THEN Tail(a) ELSE a
    /\ UNCHANGED reset_edges

(* An edge with reset_i high.  big_deq_r is not reset: it keeps following  *)
(* big_deq, which falls one edge after the RAM's pointers are cleared.     *)
Reset ==
  /\ sipo' = <<>>
  /\ \E v_i \in BOOLEAN, d \in Data :
       /\ BigEdge(TRUE, Arrived(v_i, d))
       /\ big_deq_r' = big_deq(Arrived(v_i, d))
  /\ rr222_head_r' = 0 /\ tag_r' = 0
  /\ little' = [i \in 0 .. 1 |-> <<>>]
  /\ q' = <<>>
  /\ reset_edges' = IF reset_edges = MinReset THEN 1 % (MinReset + 1)
                    ELSE reset_edges + 1

Next == Clk \/ Reset

Spec == Init /\ [][Next]_vars

-----------------------------------------------------------------------------
operational == reset_edges = MinReset

(* The words in the output queues, in the order they will be taken.        *)
Dealing ==
  LET a == little[tag_r]
      b == little[1 - tag_r]
  IN  [n \in 1 .. Len(a) + Len(b) |->
         IF n % 2 = 1 THEN a[(n + 1) \div 2] ELSE b[n \div 2]]

(* The pairs in the RAM, unpacked, oldest first. *)
Spilled ==
  [n \in 1 .. 2 * big1p!Count |->
     mem[(rd_ptr + (n - 1) \div 2) % (els_p \div 2)][2 - (n % 2)]]

contents ==
  Dealing \o (IF big_deq_r THEN big_data_lo ELSE <<>>) \o Spilled \o sipo

(* The queue is the output queues dealt alternately, the pair on its way,  *)
(* the RAM and the sipo, in that order: no word is lost or overtakes one   *)
(* that took the longer way.                                               *)
NothingLost ==
  operational =>
    /\ Len(little[tag_r]) - Len(little[1 - tag_r]) \in 0 .. 1
    /\ contents = q

(* "it will never say it's full if it has less than N elements in it".     *)
NeverFalselyFull == operational /\ Len(q) < els_p => ready_and_o

(* "it will never say it's empty if it has more than 0 elements in it".    *)
NeverFalselyEmpty == operational /\ q # <<>> => v_o

=============================================================================
