--------------------------- MODULE ArbRoundRobin ----------------------------
(***************************************************************************)
(* bsg_arb_round_robin_two_level, made of two bsg_arb_round_robin, each    *)
(* with its place in a thermometer code.  A vector is the set of its bits. *)
(***************************************************************************)
EXTENDS Integers

CONSTANT width_p      \* the number of items

VARIABLES
  lowcode, highcode,      \* thermocode_r of the instances low and hi
  reqs_low, reqs_high,    \* reqs_i[1] and reqs_i[0]
  last_low, last_high     \* history: the items granted last at each level

regs == <<lowcode, highcode>>
vars == <<regs, reqs_low, reqs_high, last_low, last_high>>

Items == 0 .. width_p - 1

(* bsg_arb_round_robin_composable: the cyclic scan over the requests, with *)
(* those below the thermometer code a second time on top.                  *)
scan_li(code, reqs) == reqs \cup {width_p + i : i \in code \cap reqs}

scan_lo(code, reqs) ==
  {k \in 0 .. 2 * width_p - 1 : \E j \in scan_li(code, reqs) : j >= k}

edge_detect(code, reqs) ==
  {k \in scan_lo(code, reqs) : k + 1 \notin scan_lo(code, reqs)}

grants_o(code, reqs) ==
  {i \in Items : {i, width_p + i} \cap edge_detect(code, reqs) # {}}

(* thermocode_n_o: the upper half of the scan, or after a wrap-around the  *)
(* lower half.                                                             *)
thermocode_n(code, reqs) ==
  {i \in 0 .. width_p - 2 :
     IF \E j \in scan_li(code, reqs) : j >= width_p
     THEN width_p + 1 + i \in scan_lo(code, reqs)
     ELSE 1 + i \in scan_lo(code, reqs)}

granted_high_o == reqs_high # {}
granted_low_lo == reqs_low # {} /\ ~granted_high_o

grants == IF granted_high_o THEN grants_o(highcode, reqs_high)
          ELSE grants_o(lowcode, reqs_low)

Init ==
  /\ lowcode = {} /\ highcode = {}
  /\ reqs_low = {} /\ reqs_high = {}
  /\ last_low = 0 /\ last_high = 0

(* Seeded fault: an accepted grant of the high level also turns the low    *)
(* one.                                                                    *)
MutRegs(yumi_i) ==
  /\ lowcode' = IF yumi_i /\ reqs_low # {}
                THEN thermocode_n(lowcode, reqs_low) ELSE lowcode
  /\ highcode' = IF granted_high_o /\ yumi_i
                 THEN thermocode_n(highcode, reqs_high) ELSE highcode

(* The registers of both levels at a clock edge. *)
Regs(yumi_i) ==
  /\ lowcode' = IF granted_low_lo /\ yumi_i
                THEN thermocode_n(lowcode, reqs_low) ELSE lowcode
  /\ highcode' = IF granted_high_o /\ yumi_i
                 THEN thermocode_n(highcode, reqs_high) ELSE highcode

(* Requests stay until granted; `taken` are those granted at this edge.    *)
Level(reqs, taken, reqs_n, last, last_n) ==
  /\ \E new \in SUBSET Items : reqs_n = (reqs \ taken) \cup new
  /\ last_n = IF taken = {} THEN last ELSE CHOOSE i \in taken : TRUE

(* A clock edge; the user raises yumi_i only for a grant. *)
Edge(yumi_i) ==
  /\ yumi_i => granted_high_o \/ granted_low_lo
  /\ Regs(yumi_i)
  /\ Level(reqs_high, IF yumi_i /\ granted_high_o THEN grants ELSE {},
           reqs_high', last_high, last_high')
  /\ Level(reqs_low, IF yumi_i /\ granted_low_lo THEN grants ELSE {},
           reqs_low', last_low, last_low')

Next == \E yumi_i \in BOOLEAN : Edge(yumi_i)

Spec == Init /\ [][Next]_vars

-----------------------------------------------------------------------------
(* Cyclically downwards, starting below the item granted last: the order   *)
(* "high-to-low, wrapping around" of the source.                           *)
Turn(last, i) == (last - 1 - i) % width_p
First(last, reqs) ==
  {i \in reqs : \A j \in reqs : Turn(last, i) <= Turn(last, j)}

(* The scan finds exactly the item whose turn it is, at each level: one    *)
(* grant, never two, and the code always stands for the item granted last, *)
(* although grants of the high level override those of the low one.        *)
GrantsNextInTurn ==
  /\ grants_o(highcode, reqs_high) = First(last_high, reqs_high)
  /\ grants_o(lowcode, reqs_low) = First(last_low, reqs_low)
=============================================================================
