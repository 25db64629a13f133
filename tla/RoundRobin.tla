----------------------------- MODULE RoundRobin -----------------------------
(***************************************************************************)
(* The combinational part of bsg_round_robin_arb, for any number n of      *)
(* inputs.  A request vector is the set of the inputs that request.        *)
(***************************************************************************)
EXTENDS Integers

(* How long input i waits when every input requests and last_r is `last`:  *)
(* the input after last_r comes first, last_r itself comes last.           *)
Turn(n, last, i) == (i - last - 1) % n

(* tag_o, and where some input requests the one bit of sel_one_hot_o.      *)
tag_o(n, last, reqs) ==
  IF reqs = {} THEN 0 ELSE
  CHOOSE i \in reqs : \A j \in reqs : Turn(n, last, i) <= Turn(n, last, j)

(* hold_on_sr, as generated: the string of the request that should hold    *)
(* the pointer is built most significant input first.                      *)
hold_on_sr(n, last, reqs) == reqs = {n - 1 - ((last + 1) % n)}

(* reset_on_sr: exactly one input requests. *)
reset_on_sr(reqs) == \E i \in reqs : reqs = {i}

(* Seeded fault: an accepted grant leaves the pointer in front of the      *)
(* input it went to.                                                       *)
MutLastNext(n, policy, last, reqs, yumi_i) ==
  IF yumi_i THEN (tag_o(n, last, reqs) - 1) % n ELSE last

(* Seeded fault: an offer that is not taken moves the pointer past it. *)
MutPastOffer(n, policy, last, reqs, yumi_i) ==
  IF reqs # {} THEN tag_o(n, last, reqs) ELSE last

(* last_n.  The four policies are the settings of hold_on_sr_p,            *)
(* reset_on_sr_p and hold_on_valid_p, in the order the code tests them.    *)
LastNext(n, policy, last, reqs, yumi_i) ==
  LET granted == IF yumi_i THEN tag_o(n, last, reqs) ELSE last
  IN  IF n = 1 THEN 0 ELSE
      CASE policy = "hold_on_sr"    -> IF hold_on_sr(n, last, reqs) THEN last
                                       ELSE granted
        [] policy = "reset_on_sr"   -> IF reset_on_sr(reqs) THEN n - 2
                                       ELSE granted
        [] policy = "hold_on_valid" -> IF ~yumi_i /\ reqs # {}
                                       THEN (tag_o(n, last, reqs) - 1) % n
                                       ELSE granted
        [] policy = "plain"         -> granted
=============================================================================
