--------------------------- MODULE RoundRobinArb ----------------------------
(***************************************************************************)
(* bsg_round_robin_arb between inputs that keep requesting until they are  *)
(* granted and a consumer that takes an offer when it likes.               *)
(***************************************************************************)
EXTENDS RoundRobin, FiniteSets

CONSTANT inputs_p     \* the number of inputs

ASSUME InputsAssumption == inputs_p \in Nat \ {0}

Policies == {"plain", "hold_on_sr", "reset_on_sr", "hold_on_valid"}

VARIABLES
  policy,       \* the instance's parameters
  last_r,       \* the input granted last
  reqs_i,       \* the inputs that request
  passed,       \* history: grants to others since an input's request began
  refused       \* history: the inputs offered in the last cycle and not taken

vars == <<policy, last_r, reqs_i, passed, refused>>

Inputs == 0 .. inputs_p - 1

sel == tag_o(inputs_p, last_r, reqs_i)

Init ==
  /\ policy \in Policies
  /\ last_r = 0
  /\ reqs_i = {}
  /\ passed = [i \in Inputs |-> 0]
  /\ refused = {}

(* A clock edge.  The consumer raises yumi_i when it takes the offer (with *)
(* grants_en_i low it cannot); an input may request again in the cycle     *)
(* after its grant.  With reset_on_sr_p the consumer takes every offer: a  *)
(* lone request that is refused sends the pointer back each time, and then *)
(* there is no bound on how often another input can be overtaken.          *)
Edge(yumi_i) ==
  /\ yumi_i => reqs_i # {}
  /\ policy = "reset_on_sr" /\ reqs_i # {} => yumi_i
  /\ last_r' = LastNext(inputs_p, policy, last_r, reqs_i, yumi_i)
  /\ \E new \in SUBSET Inputs :
       reqs_i' = (IF yumi_i THEN reqs_i \ {sel} ELSE reqs_i) \cup new
  /\ passed' = [i \in Inputs |->
                  IF i \notin reqs_i \/ (yumi_i /\ i = sel) THEN 0
                  ELSE IF yumi_i THEN passed[i] + 1 ELSE passed[i]]
  /\ refused' = IF reqs_i # {} /\ ~yumi_i THEN {sel} ELSE {}
  /\ UNCHANGED policy

Next == \E yumi_i \in BOOLEAN : Edge(yumi_i)

Spec == Init /\ [][Next]_vars

-----------------------------------------------------------------------------
(* Every register holds a value of its width. *)
TypeOK ==
  /\ policy \in Policies
  /\ last_r \in Inputs
  /\ reqs_i \subseteq Inputs
  /\ passed \in [Inputs -> Nat]
  /\ refused \subseteq Inputs

(* Round robin: a request is overtaken at most once by each other input,   *)
(* however the requests and the consumer interleave.                       *)
BoundedWait == \A i \in Inputs : passed[i] < inputs_p

(* The hold_on_valid policy: an input that is offered and not taken is     *)
(* still the one offered in the next cycle, whoever else begins to         *)
(* request; a consumer may look at the data before it takes it.            *)
KeepsOffer == policy = "hold_on_valid" => \A i \in refused : sel = i

(* The hold_on_sr policy, as the generator documents it: when one input    *)
(* requests, and it has the highest priority, the pointer does not move.   *)
SingleTopRequestHolds ==
  [][policy = "hold_on_sr" /\ reqs_i = {(last_r + 1) % inputs_p}
       => last_r' = last_r]_vars

(* Why waiting is bounded: a request still has as many turns before it as  *)
(* there are inputs, less the grants that have passed it.                  *)
WaitInv ==
  \A i \in Inputs :
    IF i \in reqs_i THEN passed[i] + Turn(inputs_p, last_r, i) < inputs_p
    ELSE passed[i] = 0

(* Why the offer stands: the pointer was moved to just before it.          *)
OfferInv ==
  policy = "hold_on_valid" =>
    \A i \in refused : i \in reqs_i /\ Turn(inputs_p, last_r, i) = 0

IInv == TypeOK /\ WaitInv /\ OfferInv
=============================================================================
