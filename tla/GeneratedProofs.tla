-------------------------- MODULE GeneratedProofs ---------------------------
(***************************************************************************)
(* The arbiters for every number of inputs: bounded waiting of the         *)
(* generated round-robin arbiter under all four policies, and its offer    *)
(* that stands; the two-level arbiter with thermometer codes, which grants *)
(* the item whose turn it is; the tables of the channel switchbox; the     *)
(* ring through a mesh of any size; and the storage, muxes and reductions  *)
(* written as cells, for every size the scripts write.                     *)
(***************************************************************************)
EXTENDS MCGenerated, HardenedMultiplierProofs, FiniteSetTheorems,
        WellFoundedInduction, TLAPS

(* Every set of numbers has a least one. *)
LEMMA Least ==
  ASSUME NEW T, T \subseteq Nat, T # {}
  PROVE  \E x \in T : \A y \in T : x <= y
<1> DEFINE R == {ss \in Nat \X Nat : ss[1] < ss[2]}
<1>1. IsWellFoundedOn(R, Nat)
  BY NatLessThanWellFounded, Zenon DEF OpToRel
<1>2. PICK x \in T : \A y \in T : ~(<<y, x>> \in R)
  <2> HIDE DEF R
  <2> QED
    BY <1>1, WFMin
<1>3. ASSUME NEW y \in T
      PROVE  x <= y
  <2>1. x \in Nat /\ y \in Nat
    OBVIOUS
  <2>2. ~(y < x)
    BY <2>1, <1>2
  <2>3. QED
    BY <2>1, <2>2
<1>4. QED
  BY <1>3

-----------------------------------------------------------------------------
(* Turns: the inputs in the order in which they are served.                *)

LEMMA TurnValue ==
  ASSUME NEW n \in Nat \ {0}, NEW last \in 0 .. n - 1, NEW i \in 0 .. n - 1
  PROVE  /\ Turn(n, last, i) = IF i > last THEN i - last - 1 ELSE i - last - 1 + n
         /\ Turn(n, last, i) \in 0 .. n - 1
BY DEF Turn

(* The input granted requests, and no other request has an earlier turn.   *)
LEMMA GrantedFirst ==
  ASSUME NEW n \in Nat \ {0}, NEW last \in 0 .. n - 1,
         NEW reqs, reqs \subseteq 0 .. n - 1, reqs # {}
  PROVE  /\ tag_o(n, last, reqs) \in reqs
         /\ \A j \in reqs : Turn(n, last, tag_o(n, last, reqs)) <= Turn(n, last, j)
<1> DEFINE T == {Turn(n, last, j) : j \in reqs}
<1>1. T \subseteq Nat /\ T # {}
  <2>1. \A j \in reqs : Turn(n, last, j) \in Nat
    BY TurnValue
  <2>2. QED
    BY <2>1
<1>2. PICK x \in T : \A y \in T : x <= y
  <2> HIDE DEF T
  <2> QED
    BY <1>1, Least
<1>3. \E i \in reqs : \A j \in reqs : Turn(n, last, i) <= Turn(n, last, j)
  BY <1>2
<1>4. QED
  BY <1>3 DEF tag_o

(* After a grant to j the turns count from j on. *)
LEMMA TurnAfterGrant ==
  ASSUME NEW n \in Nat \ {0}, NEW last \in 0 .. n - 1,
         NEW i \in 0 .. n - 1, NEW j \in 0 .. n - 1, i # j,
         Turn(n, last, j) <= Turn(n, last, i)
  PROVE  Turn(n, j, i) = Turn(n, last, i) - Turn(n, last, j) - 1
<1>1. /\ Turn(n, last, i) = IF i > last THEN i - last - 1 ELSE i - last - 1 + n
      /\ Turn(n, last, j) = IF j > last THEN j - last - 1 ELSE j - last - 1 + n
      /\ Turn(n, j, i) = IF i > j THEN i - j - 1 ELSE i - j - 1 + n
  BY TurnValue
<1>2. QED
  BY <1>1

(* Just before j is the pointer that gives j the first turn. *)
LEMMA TurnBefore ==
  ASSUME NEW n \in Nat \ {0}, NEW last \in 0 .. n - 1,
         NEW i \in 0 .. n - 1, NEW j \in 0 .. n - 1,
         Turn(n, last, j) <= Turn(n, last, i)
  PROVE  /\ (j - 1) % n \in 0 .. n - 1
         /\ Turn(n, (j - 1) % n, j) = 0
         /\ Turn(n, (j - 1) % n, i) = Turn(n, last, i) - Turn(n, last, j)
<1>1. (j - 1) % n = IF j = 0 THEN n - 1 ELSE j - 1
  OBVIOUS
<1> DEFINE k == (j - 1) % n
<1>2. k \in 0 .. n - 1
  BY <1>1
<1> HIDE DEF k
<1>3. /\ Turn(n, last, i) = IF i > last THEN i - last - 1 ELSE i - last - 1 + n
      /\ Turn(n, last, j) = IF j > last THEN j - last - 1 ELSE j - last - 1 + n
      /\ Turn(n, k, i) = IF i > k THEN i - k - 1 ELSE i - k - 1 + n
      /\ Turn(n, k, j) = IF j > k THEN j - k - 1 ELSE j - k - 1 + n
  BY <1>2, TurnValue
<1>4. k = IF j = 0 THEN n - 1 ELSE j - 1
  BY <1>1 DEF k
<1>5. Turn(n, k, j) = 0 /\ Turn(n, k, i) = Turn(n, last, i) - Turn(n, last, j)
  BY <1>3, <1>4
<1>6. QED
  BY <1>2, <1>5 DEF k

-----------------------------------------------------------------------------
USE InputsAssumption DEF Inputs

LEMMA InitInv == Init => IInv
<1> SUFFICES ASSUME Init
             PROVE  IInv
  OBVIOUS
<1>1. TypeOK
  BY DEF Init, TypeOK
<1>2. WaitInv /\ OfferInv
  BY DEF Init, WaitInv, OfferInv
<1>3. QED
  BY <1>1, <1>2 DEF IInv

(* The input offered is the one with the first turn of those that request. *)
LEMMA SelFirst ==
  ASSUME TypeOK
  PROVE  /\ sel \in Inputs
         /\ reqs_i # {} => sel \in reqs_i
         /\ \A j \in reqs_i :
              Turn(inputs_p, last_r, sel) <= Turn(inputs_p, last_r, j)
<1>1. last_r \in 0 .. inputs_p - 1 /\ reqs_i \subseteq 0 .. inputs_p - 1
  BY DEF TypeOK
<1>2. CASE reqs_i = {}
  BY <1>2 DEF sel, tag_o
<1>3. CASE reqs_i # {}
  BY <1>1, <1>3, GrantedFirst DEF sel
<1>4. QED
  BY <1>2, <1>3

(* Where the pointer goes, under each policy. *)
LEMMA PointerMoves ==
  ASSUME TypeOK, NEW yumi_i \in BOOLEAN, Edge(yumi_i)
  PROVE  \/ last_r' = last_r /\ ~yumi_i
            /\ (policy = "hold_on_valid" => reqs_i = {} \/ inputs_p = 1)
         \/ last_r' \in Inputs /\ yumi_i /\ reqs_i \subseteq {sel}
         \/ last_r' = sel /\ yumi_i
         \/ last_r' = (sel - 1) % inputs_p /\ ~yumi_i /\ reqs_i # {}
<1>1. /\ last_r' = LastNext(inputs_p, policy, last_r, reqs_i, yumi_i)
      /\ yumi_i => reqs_i # {}
      /\ policy = "reset_on_sr" /\ reqs_i # {} => yumi_i
      /\ last_r \in Inputs /\ sel \in Inputs /\ reqs_i \subseteq Inputs
      /\ reqs_i # {} => sel \in reqs_i
  BY SelFirst DEF Edge, TypeOK
<1>2. CASE inputs_p = 1
  <2>1. last_r' = 0 /\ last_r = 0 /\ sel = 0 /\ reqs_i \subseteq {0}
    BY <1>1, <1>2 DEF LastNext
  <2>2. QED
    BY <2>1, <1>1, <1>2
<1>3. CASE inputs_p # 1 /\ policy = "plain"
  BY <1>1, <1>3 DEF LastNext, sel
<1>4. CASE inputs_p # 1 /\ policy = "hold_on_sr"
  <2>1. CASE hold_on_sr(inputs_p, last_r, reqs_i)
    <3>1. last_r' = last_r
      BY <2>1, <1>1, <1>4 DEF LastNext
    <3>2. yumi_i => reqs_i \subseteq {sel}
      BY <2>1, <1>1 DEF hold_on_sr
    <3>3. QED
      BY <3>1, <3>2, <1>1, <1>4
  <2>2. CASE ~hold_on_sr(inputs_p, last_r, reqs_i)
    BY <2>2, <1>1, <1>4 DEF LastNext, sel
  <2>3. QED
    BY <2>1, <2>2
<1>5. CASE inputs_p # 1 /\ policy = "reset_on_sr"
  <2>1. CASE reset_on_sr(reqs_i)
    <3>1. last_r' = inputs_p - 2 /\ inputs_p - 2 \in Inputs
      BY <2>1, <1>1, <1>5 DEF LastNext
    <3>2. yumi_i /\ reqs_i \subseteq {sel}
      BY <2>1, <1>1, <1>5 DEF reset_on_sr
    <3>3. QED
      BY <3>1, <3>2
  <2>2. CASE ~reset_on_sr(reqs_i)
    BY <2>2, <1>1, <1>5 DEF LastNext, sel
  <2>3. QED
    BY <2>1, <2>2
<1>6. CASE inputs_p # 1 /\ policy = "hold_on_valid"
  BY <1>1, <1>6 DEF LastNext, sel
<1>7. QED
  BY <1>2, <1>3, <1>4, <1>5, <1>6 DEF TypeOK, Policies

(* How many turns a request that is not granted has left.                  *)
LEMMA TurnsLeft ==
  ASSUME TypeOK, NEW yumi_i \in BOOLEAN, Edge(yumi_i),
         NEW i \in reqs_i, yumi_i => i # sel
  PROVE  Turn(inputs_p, last_r', i) <=
           Turn(inputs_p, last_r, i) - (IF yumi_i THEN 1 ELSE 0)
<1> DEFINE before == Turn(inputs_p, last_r, i)
           top == Turn(inputs_p, last_r, sel)
<1>1. /\ last_r \in 0 .. inputs_p - 1 /\ sel \in 0 .. inputs_p - 1
      /\ i \in 0 .. inputs_p - 1 /\ top <= before
  BY SelFirst DEF TypeOK
<1>2. before \in 0 .. inputs_p - 1 /\ top \in 0 .. inputs_p - 1
  BY <1>1, TurnValue
<1>3. CASE last_r' = last_r /\ ~yumi_i
  BY <1>3, <1>2
<1>4. CASE last_r' = sel /\ yumi_i
  <2>1. Turn(inputs_p, last_r', i) = before - top - 1
    BY <1>1, <1>4, TurnAfterGrant
  <2> HIDE DEF before, top
  <2>2. before - top - 1 <= before - 1
    BY <1>2
  <2>3. QED
    BY <2>1, <2>2, <1>4 DEF before
<1>5. CASE last_r' = (sel - 1) % inputs_p /\ ~yumi_i
  <2>1. Turn(inputs_p, last_r', i) = before - top
    BY <1>1, <1>5, TurnBefore
  <2> HIDE DEF before, top
  <2>2. before - top <= before - 0
    BY <1>2
  <2>3. QED
    BY <2>1, <2>2, <1>5 DEF before
<1>6. QED
  BY <1>3, <1>4, <1>5, PointerMoves

LEMMA NextInv == IInv /\ [Next]_vars => IInv'
<1> SUFFICES ASSUME IInv, [Next]_vars
             PROVE  IInv'
  OBVIOUS
<1>1. ASSUME NEW yumi_i \in BOOLEAN, Edge(yumi_i)
      PROVE  IInv'
  <2>1. last_r' \in Inputs
    <3>1. sel \in 0 .. inputs_p - 1 /\ last_r \in 0 .. inputs_p - 1
      BY SelFirst DEF IInv, TypeOK
    <3>2. (sel - 1) % inputs_p \in Inputs
      BY <3>1
    <3>3. QED
      BY <3>1, <3>2, <1>1, PointerMoves DEF IInv
  <2>2. TypeOK'
    <3>1. PICK new \in SUBSET Inputs :
            reqs_i' = (IF yumi_i THEN reqs_i \ {sel} ELSE reqs_i) \cup new
      BY <1>1 DEF Edge
    <3>2. reqs_i' \subseteq Inputs
      BY <3>1 DEF IInv, TypeOK
    <3>3. passed' \in [Inputs -> Nat]
      BY <1>1 DEF Edge, IInv, TypeOK
    <3>4. refused' \subseteq Inputs
      BY <1>1, SelFirst DEF Edge, IInv
    <3>5. QED
      BY <2>1, <3>2, <3>3, <3>4, <1>1 DEF Edge, IInv, TypeOK
  <2>3. ASSUME NEW i \in Inputs
        PROVE  IF i \in reqs_i' THEN passed'[i] + Turn(inputs_p, last_r', i) < inputs_p
               ELSE passed'[i] = 0
    <3>1. Turn(inputs_p, last_r', i) \in 0 .. inputs_p - 1
      BY <2>1, TurnValue
    <3>2. CASE i \notin reqs_i \/ (yumi_i /\ i = sel)
      <4>1. passed'[i] = 0
        BY <3>2, <1>1 DEF Edge
      <4>2. QED
        BY <4>1, <3>1
    <3>3. CASE i \in reqs_i /\ (yumi_i => i # sel)
      <4> DEFINE grant == IF yumi_i THEN 1 ELSE 0
                 before == Turn(inputs_p, last_r, i)
                 after == Turn(inputs_p, last_r', i)
      <4>1. passed'[i] = passed[i] + grant
        BY <3>3, <1>1 DEF Edge, IInv, TypeOK
      <4>2. i \in reqs_i'
        BY <3>3, <1>1 DEF Edge
      <4>3. passed[i] \in Nat /\ passed[i] + before < inputs_p
        BY <3>3 DEF IInv, TypeOK, WaitInv
      <4>4. before \in 0 .. inputs_p - 1 /\ after \in 0 .. inputs_p - 1
        BY <3>1, TurnValue DEF IInv, TypeOK
      <4>5. after <= before - grant
        BY <1>1, <3>3, TurnsLeft DEF IInv
      <4>6. grant \in 0 .. 1
        OBVIOUS
      <4> HIDE DEF grant, before, after
      <4>7. passed'[i] + after < inputs_p
        BY <4>1, <4>3, <4>4, <4>5, <4>6
      <4>8. QED
        BY <4>2, <4>7 DEF after
    <3>4. QED
      BY <3>2, <3>3
  <2>4. WaitInv'
    BY <2>3 DEF WaitInv
  <2>5. OfferInv'
    <3>1. SUFFICES ASSUME policy = "hold_on_valid", reqs_i # {}, ~yumi_i
                   PROVE  sel \in reqs_i' /\ Turn(inputs_p, last_r', sel) = 0
      BY <1>1 DEF Edge, OfferInv
    <3>2. sel \in reqs_i /\ sel \in reqs_i'
      BY <3>1, <1>1, SelFirst DEF Edge, IInv
    <3>3. sel \in 0 .. inputs_p - 1 /\ last_r \in 0 .. inputs_p - 1
      BY SelFirst DEF IInv, TypeOK
    <3>4. CASE inputs_p = 1
      <4>1. Turn(inputs_p, last_r', sel) \in 0 .. inputs_p - 1
        BY <2>1, <3>3, TurnValue
      <4>2. QED
        BY <4>1, <3>2, <3>4
    <3>5. CASE last_r' = (sel - 1) % inputs_p
      <4>1. Turn(inputs_p, (sel - 1) % inputs_p, sel) = 0
        <5>1. Turn(inputs_p, last_r, sel) <= Turn(inputs_p, last_r, sel)
          BY <3>3, TurnValue
        <5>2. QED
          BY <5>1, <3>3, TurnBefore
      <4>2. QED
        BY <4>1, <3>2, <3>5
    <3>6. QED
      BY <3>1, <3>4, <3>5, <1>1, PointerMoves DEF IInv
  <2>6. QED
    BY <2>2, <2>4, <2>5 DEF IInv
<1>2. CASE UNCHANGED vars
  BY <1>2 DEF vars, IInv, TypeOK, WaitInv, OfferInv
<1>3. QED
  BY <1>1, <1>2 DEF Next

THEOREM InductiveInvariant == Spec => []IInv
BY InitInv, NextInv, PTL DEF Spec

(* A request is overtaken less often than there are inputs, for every      *)
(* number of inputs and every policy.                                      *)
THEOREM WaitIsBounded == Spec => []BoundedWait
<1>1. IInv => BoundedWait
  <2> SUFFICES ASSUME IInv, NEW i \in Inputs
               PROVE  passed[i] < inputs_p
    BY DEF BoundedWait
  <2>1. Turn(inputs_p, last_r, i) \in 0 .. inputs_p - 1 /\ passed[i] \in Nat
    BY TurnValue DEF IInv, TypeOK
  <2>2. QED
    BY <2>1 DEF IInv, WaitInv
<1>2. QED
  BY <1>1, InductiveInvariant, PTL

(* With hold_on_valid_p a refused offer stands, for every number of inputs. *)
THEOREM OfferIsKept == Spec => []KeepsOffer
<1>1. IInv => KeepsOffer
  <2> SUFFICES ASSUME IInv, policy = "hold_on_valid", NEW i \in refused
               PROVE  sel = i
    BY DEF KeepsOffer
  <2>1. i \in reqs_i /\ Turn(inputs_p, last_r, i) = 0
    BY DEF IInv, OfferInv
  <2>2. /\ i \in 0 .. inputs_p - 1 /\ last_r \in 0 .. inputs_p - 1
        /\ sel \in 0 .. inputs_p - 1 /\ Turn(inputs_p, last_r, sel) <= 0
    BY <2>1, SelFirst DEF IInv, TypeOK
  <2>3. /\ Turn(inputs_p, last_r, i) =
             IF i > last_r THEN i - last_r - 1 ELSE i - last_r - 1 + inputs_p
        /\ Turn(inputs_p, last_r, sel) =
             IF sel > last_r THEN sel - last_r - 1
             ELSE sel - last_r - 1 + inputs_p
    BY <2>2, TurnValue
  <2>4. QED
    BY <2>1, <2>2, <2>3
<1>2. QED
  BY <1>1, InductiveInvariant, PTL

-----------------------------------------------------------------------------
USE DEF two!Items

(* The thermometer code that stands for an item l granted last.            *)
Code(l) == {i \in two!Items : i < l}

(* At each level the requests are of items and the code stands for the     *)
(* item granted last.                                                      *)
LevelInv(code, reqs, l) == l \in two!Items /\ reqs \subseteq two!Items /\ code = Code(l)

ArbInv ==
  LevelInv(lowcode, reqs_low, last_low) /\ LevelInv(highcode, reqs_high, last_high)

-----------------------------------------------------------------------------
(* A set of naturals bounded by m has a greatest element. *)
LEMMA GreatestElement ==
  ASSUME NEW m \in Nat, NEW S \in SUBSET (0 .. m), S # {}
  PROVE  \E x \in S : \A y \in S : y <= x
<1> DEFINE T == {k \in Nat : k <= m /\ m - k \in S}
<1>1. T \in SUBSET Nat
  OBVIOUS
<1>2. T # {}
  <2>1. PICK y \in S : TRUE
    OBVIOUS
  <2>2. m - y \in Nat /\ m - y <= m /\ m - (m - y) = y
    OBVIOUS
  <2>3. m - y \in T
    BY <2>2
  <2>4. QED
    BY <2>3
<1>3. PICK k \in T : \A l \in T : k <= l
  <2> HIDE DEF T
  <2>1. QED
    BY <1>1, <1>2, Least
<1>4. k \in Nat /\ m - k \in S
  OBVIOUS
<1>5. ASSUME NEW y \in S
      PROVE  y <= m - k
  <2>1. m - y \in Nat /\ m - y <= m /\ m - (m - y) = y /\ y \in Nat
    OBVIOUS
  <2>2. m - y \in T
    BY <2>1
  <2>3. k <= m - y
    BY <1>3, <2>2
  <2>4. QED
    BY <1>4, <2>1, <2>3
<1>6. QED
  BY <1>4, <1>5

(* Remainders of a difference of two items.                                *)
LEMMA Remainder ==
  ASSUME NEW n \in Nat \ {0}, NEW a \in Int
  PROVE  /\ a \in 0 .. n - 1 => a % n = a
         /\ a \in -n .. -1 => a % n = a + n
OBVIOUS

LEMMA TurnIs ==
  ASSUME width_p \in Nat \ {0}, NEW l \in two!Items, NEW i \in two!Items
  PROVE  two!Turn(l, i) = IF i < l THEN l - 1 - i ELSE l - 1 - i + width_p
<1>1. CASE i < l
  <2>1. l - 1 - i \in 0 .. width_p - 1
    BY <1>1
  <2>2. QED
    BY <1>1, <2>1, Remainder DEF two!Turn
<1>2. CASE ~(i < l)
  <2>1. l - 1 - i \in -width_p .. -1 /\ l - 1 - i \in Int
    BY <1>2
  <2>2. QED
    BY <1>2, <2>1, Remainder DEF two!Turn
<1>3. QED
  BY <1>1, <1>2

-----------------------------------------------------------------------------
(* The edge of the scan is its highest request.                            *)
LEMMA EdgeIsTop ==
  ASSUME width_p \in Nat \ {0}, NEW code, NEW reqs,
         two!scan_li(code, reqs) \subseteq 0 .. 2 * width_p - 1, NEW k
  PROVE  k \in two!edge_detect(code, reqs) <=>
           k \in two!scan_li(code, reqs) /\ \A j \in two!scan_li(code, reqs) : j <= k
<1> DEFINE S == two!scan_li(code, reqs)
           m == 2 * width_p - 1
<1>1. m \in Nat /\ S \subseteq 0 .. m
  OBVIOUS
<1>2. two!edge_detect(code, reqs) =
        {x \in {y \in 0 .. m : \E j \in S : j >= y} :
           x + 1 \notin {y \in 0 .. m : \E j \in S : j >= y}}
  BY DEF two!edge_detect, two!scan_lo
<1> HIDE DEF S, m
<1>3. ASSUME k \in two!edge_detect(code, reqs)
      PROVE  k \in S /\ \A j \in S : j <= k
  <2>1. /\ k \in 0 .. m /\ \E j \in S : j >= k
        /\ ~(k + 1 \in 0 .. m /\ \E j \in S : j >= k + 1)
    BY <1>2, <1>3
  <2>2. ASSUME NEW j \in S PROVE j <= k
    <3>1. j \in 0 .. m
      BY <1>1
    <3>2. ~(j >= k + 1) \/ k + 1 \notin 0 .. m
      BY <2>1
    <3>3. QED
      BY <2>1, <3>1, <3>2, <1>1
  <2>3. PICK j \in S : j >= k
    BY <2>1
  <2>4. j = k
    BY <2>1, <2>2, <2>3, <1>1
  <2>5. QED
    BY <2>2, <2>3, <2>4
<1>4. ASSUME k \in S, \A j \in S : j <= k
      PROVE  k \in two!edge_detect(code, reqs)
  <2>1. k \in 0 .. m /\ k >= k
    BY <1>1, <1>4
  <2>2. \A j \in S : ~(j >= k + 1)
    BY <1>1, <1>4, <2>1
  <2>3. QED
    BY <1>2, <1>4, <2>1, <2>2
<1>5. QED
  BY <1>3, <1>4 DEF S

(* What the scan finds for a code that stands for the item l: the highest  *)
(* request below l or, when there is none, the highest of all.             *)
Found(l, reqs, i) ==
  /\ i \in reqs
  /\ IF \E j \in reqs : j < l THEN i < l /\ \A j \in reqs : j < l => j <= i
                              ELSE \A j \in reqs : j <= i

LEMMA ScanIs ==
  ASSUME width_p \in Nat \ {0}, NEW l \in two!Items, NEW reqs \in SUBSET two!Items
  PROVE  /\ two!scan_li(Code(l), reqs) \subseteq 0 .. 2 * width_p - 1
         /\ \A k : k \in two!scan_li(Code(l), reqs) <=>
              \/ k \in reqs
              \/ \E j \in reqs : j < l /\ k = width_p + j
<1>1. \A k : k \in two!scan_li(Code(l), reqs) <=>
        k \in reqs \/ \E j \in reqs : j < l /\ k = width_p + j
  BY DEF two!scan_li, Code
<1>2. ASSUME NEW k \in two!scan_li(Code(l), reqs)
      PROVE  k \in 0 .. 2 * width_p - 1
  <2>1. k \in reqs \/ \E j \in reqs : k = width_p + j
    BY <1>1, <1>2
  <2>2. \A j \in reqs : j \in 0 .. width_p - 1
    OBVIOUS
  <2>3. CASE k \in reqs
    BY <2>2, <2>3
  <2>4. CASE \E j \in reqs : k = width_p + j
    <3>1. PICK j \in reqs : k = width_p + j
      BY <2>4
    <3>2. j \in 0 .. width_p - 1
      BY <2>2
    <3>3. QED
      BY <3>1, <3>2
  <2>5. QED
    BY <2>1, <2>3, <2>4
<1>3. QED
  BY <1>1, <1>2

LEMMA GrantIsFound ==
  ASSUME width_p \in Nat \ {0}, NEW l \in two!Items, NEW reqs \in SUBSET two!Items,
         NEW i \in two!Items
  PROVE  i \in two!grants_o(Code(l), reqs) <=> Found(l, reqs, i)
<1> DEFINE S == two!scan_li(Code(l), reqs)
           n == width_p
<1>1. \A k : k \in S <=> k \in reqs \/ \E j \in reqs : j < l /\ k = n + j
  BY ScanIs
<1>2. \A k : k \in two!edge_detect(Code(l), reqs) <=> k \in S /\ \A j \in S : j <= k
  BY ScanIs, EdgeIsTop
<1>3. i \in two!grants_o(Code(l), reqs) <=>
        \/ i \in two!edge_detect(Code(l), reqs)
        \/ n + i \in two!edge_detect(Code(l), reqs)
  BY DEF two!grants_o
<1>4. \A j \in reqs : j \in two!Items /\ j < n /\ j \in Int
  OBVIOUS
<1>5. i < n /\ i \in Int /\ n \in Int /\ l \in Int /\ 0 <= i
  OBVIOUS
<1> HIDE DEF S
<1>6. i \in two!edge_detect(Code(l), reqs) <=>
        i \in reqs /\ (\A j \in reqs : j <= i) /\ ~(\E j \in reqs : j < l)
  <2>1. ASSUME i \in two!edge_detect(Code(l), reqs)
        PROVE  i \in reqs /\ (\A j \in reqs : j <= i) /\ ~(\E j \in reqs : j < l)
    <3>1. i \in S /\ \A j \in S : j <= i
      BY <2>1, <1>2
    <3>2. \A j \in reqs : j <= i
      BY <3>1, <1>1
    <3>3. ASSUME NEW j \in reqs, j < l PROVE FALSE
      <4>1. n + j \in S
        BY <3>3, <1>1
      <4>2. n + j <= i
        BY <4>1, <3>1
      <4>3. j >= 0 /\ j \in Int
        OBVIOUS
      <4>4. QED
        BY <4>2, <4>3, <1>5
    <3>4. i \in reqs
      BY <3>1, <3>3, <1>1
    <3>5. QED
      BY <3>2, <3>3, <3>4
  <2>2. ASSUME i \in reqs, \A j \in reqs : j <= i, ~(\E j \in reqs : j < l)
        PROVE  i \in two!edge_detect(Code(l), reqs)
    <3>1. i \in S /\ \A j \in S : j <= i
      BY <2>2, <1>1
    <3>2. QED
      BY <3>1, <1>2
  <2>3. QED
    BY <2>1, <2>2
<1>7. n + i \in two!edge_detect(Code(l), reqs) <=>
        i \in reqs /\ i < l /\ \A j \in reqs : j < l => j <= i
  <2>1. n + i \in S <=> i \in reqs /\ i < l
    <3>1. n + i \notin reqs
      BY <1>4, <1>5
    <3>2. \A j \in reqs : n + i = n + j => i = j
      BY <1>4, <1>5
    <3>3. QED
      BY <3>1, <3>2, <1>1
  <2>2. ASSUME n + i \in two!edge_detect(Code(l), reqs)
        PROVE  i \in reqs /\ i < l /\ \A j \in reqs : j < l => j <= i
    <3>1. n + i \in S /\ \A j \in S : j <= n + i
      BY <2>2, <1>2
    <3>2. ASSUME NEW j \in reqs, j < l PROVE j <= i
      <4>1. n + j \in S
        BY <3>2, <1>1
      <4>2. n + j <= n + i /\ j \in Int
        BY <4>1, <3>1, <1>4
      <4>3. QED
        BY <4>2, <1>5
    <3>3. QED
      BY <2>1, <3>1, <3>2
  <2>3. ASSUME i \in reqs, i < l, \A j \in reqs : j < l => j <= i
        PROVE  n + i \in two!edge_detect(Code(l), reqs)
    <3>1. n + i \in S
      BY <2>1, <2>3
    <3>2. ASSUME NEW k \in S PROVE k <= n + i
      <4>1. CASE k \in reqs
        BY <4>1, <1>4, <1>5
      <4>2. CASE \E j \in reqs : j < l /\ k = n + j
        BY <4>2, <2>3, <1>4, <1>5
      <4>3. QED
        BY <3>2, <4>1, <4>2, <1>1
    <3>3. QED
      BY <3>1, <3>2, <1>2
  <2>4. QED
    BY <2>2, <2>3
<1>8. QED
  BY <1>3, <1>6, <1>7 DEF Found

(* The item found is the one whose turn it is.                             *)
LEMMA FoundIsFirst ==
  ASSUME width_p \in Nat \ {0}, NEW l \in two!Items, NEW reqs \in SUBSET two!Items,
         NEW i \in two!Items
  PROVE  Found(l, reqs, i) <=> i \in two!First(l, reqs)
<1> DEFINE t(j) == IF j < l THEN l - 1 - j ELSE l - 1 - j + width_p
<1>1. \A j \in two!Items : two!Turn(l, j) = t(j)
  BY TurnIs
<1>2. i \in two!First(l, reqs) <=> i \in reqs /\ \A j \in reqs : t(i) <= t(j)
  BY <1>1 DEF two!First
<1>3. ASSUME Found(l, reqs, i)
      PROVE  \A j \in reqs : t(i) <= t(j)
  BY <1>3 DEF Found
<1>4. ASSUME i \in reqs, \A j \in reqs : t(i) <= t(j)
      PROVE  Found(l, reqs, i)
  BY <1>4 DEF Found
<1>5. QED
  BY <1>2, <1>3, <1>4 DEF Found

-----------------------------------------------------------------------------
(* There is something to find, and only one item.                          *)
LEMMA SomethingFound ==
  ASSUME width_p \in Nat \ {0}, NEW l \in two!Items, NEW reqs \in SUBSET two!Items,
         reqs # {}
  PROVE  \E g \in reqs : Found(l, reqs, g)
<1> DEFINE below == {j \in reqs : j < l}
<1>1. width_p - 1 \in Nat /\ reqs \in SUBSET (0 .. width_p - 1)
  OBVIOUS
<1>2. CASE below # {}
  <2>1. below \in SUBSET (0 .. width_p - 1)
    BY <1>1
  <2> HIDE DEF below
  <2>2. PICK g \in below : \A j \in below : j <= g
    BY <1>1, <1>2, <2>1, GreatestElement
  <2>3. QED
    BY <2>2 DEF Found, below
<1>3. CASE below = {}
  <2>1. PICK g \in reqs : \A j \in reqs : j <= g
    BY <1>1, GreatestElement
  <2>2. QED
    BY <2>1, <1>3 DEF Found
<1>4. QED
  BY <1>2, <1>3

LEMMA OneFound ==
  ASSUME width_p \in Nat \ {0}, NEW l \in two!Items, NEW reqs \in SUBSET two!Items,
         NEW g \in two!Items, NEW h \in two!Items, Found(l, reqs, g), Found(l, reqs, h)
  PROVE  g = h
BY DEF Found

(* The code after a grant stands for the item granted.                     *)
LEMMA NextCode ==
  ASSUME width_p \in Nat \ {0}, NEW l \in two!Items, NEW reqs \in SUBSET two!Items,
         NEW g \in two!Items, Found(l, reqs, g)
  PROVE  two!thermocode_n(Code(l), reqs) = Code(g)
<1> DEFINE S == two!scan_li(Code(l), reqs)
           n == width_p
           wraps == \E j \in S : j >= n
<1>1. /\ S \subseteq 0 .. 2 * n - 1
      /\ \A k : k \in S <=> k \in reqs \/ \E j \in reqs : j < l /\ k = n + j
  BY ScanIs
<1>2. two!thermocode_n(Code(l), reqs) =
        {i \in 0 .. n - 2 :
           IF wraps
           THEN n + 1 + i \in {k \in 0 .. 2 * n - 1 : \E j \in S : j >= k}
           ELSE 1 + i \in {k \in 0 .. 2 * n - 1 : \E j \in S : j >= k}}
  BY DEF two!thermocode_n, two!scan_lo
<1>3. \A j \in reqs : j \in 0 .. n - 1
  OBVIOUS
<1>4. g \in 0 .. n - 1 /\ n \in Nat /\ l \in 0 .. n - 1 /\ g \in reqs
  BY DEF Found
<1> HIDE DEF S
<1>5. wraps <=> \E j \in reqs : j < l
  <2>1. ASSUME NEW j \in reqs, j < l PROVE wraps
    <3>1. n + j \in S /\ n + j >= n
      BY <2>1, <1>1, <1>3, <1>4
    <3>2. QED
      BY <3>1
  <2>2. ASSUME wraps PROVE \E j \in reqs : j < l
    <3>1. PICK k \in S : k >= n
      BY <2>2
    <3>2. ASSUME k \in reqs PROVE FALSE
      <4>1. k \in 0 .. n - 1
        BY <3>2, <1>3
      <4>2. QED
        BY <4>1, <3>1, <1>4
    <3>3. QED
      BY <3>1, <3>2, <1>1
  <2>3. QED
    BY <2>1, <2>2
<1> HIDE DEF wraps
<1>6. CASE wraps
  <2>1. /\ n + g \in S
        /\ \A k \in S : k <= n + g
    <3>1. g < l /\ \A j \in reqs : j < l => j <= g
      BY <1>5, <1>6 DEF Found
    <3>2. n + g \in S
      BY <3>1, <1>1, <1>4
    <3>3. ASSUME NEW k \in S PROVE k <= n + g
      <4>1. CASE k \in reqs
        BY <4>1, <1>3, <1>4
      <4>2. CASE \E j \in reqs : j < l /\ k = n + j
        BY <4>2, <3>1, <1>3, <1>4
      <4>3. QED
        BY <3>3, <4>1, <4>2, <1>1
    <3>4. QED
      BY <3>2, <3>3
  <2>2. ASSUME NEW i \in 0 .. n - 2
        PROVE  n + 1 + i \in {k \in 0 .. 2 * n - 1 : \E j \in S : j >= k} <=> i < g
    <3>1. n + 1 + i \in 0 .. 2 * n - 1
      BY <1>4
    <3>2. (\E j \in S : j >= n + 1 + i) <=> n + g >= n + 1 + i
      BY <2>1, <1>1, <1>4
    <3>3. QED
      BY <3>1, <3>2, <1>4
  <2>3. two!thermocode_n(Code(l), reqs) = {i \in 0 .. n - 2 : i < g}
    <3>1. two!thermocode_n(Code(l), reqs) =
            {i \in 0 .. n - 2 :
               n + 1 + i \in {k \in 0 .. 2 * n - 1 : \E j \in S : j >= k}}
      BY <1>2, <1>6
    <3>2. QED
      BY <3>1, <2>2, Zenon
  <2>4. \A i : i \in 0 .. n - 2 /\ i < g <=> i \in 0 .. n - 1 /\ i < g
    BY <1>4
  <2>5. QED
    BY <2>3, <2>4 DEF Code
<1>7. CASE ~wraps
  <2>1. /\ g \in S
        /\ \A k \in S : k <= g
    <3>1. \A j \in reqs : j <= g
      BY <1>5, <1>7 DEF Found
    <3>2. QED
      BY <3>1, <1>1, <1>4, <1>5, <1>7
  <2>2. ASSUME NEW i \in 0 .. n - 2
        PROVE  1 + i \in {k \in 0 .. 2 * n - 1 : \E j \in S : j >= k} <=> i < g
    <3>1. 1 + i \in 0 .. 2 * n - 1
      BY <1>4
    <3>2. (\E j \in S : j >= 1 + i) <=> g >= 1 + i
      BY <2>1, <1>1, <1>4
    <3>3. QED
      BY <3>1, <3>2, <1>4
  <2>3. two!thermocode_n(Code(l), reqs) = {i \in 0 .. n - 2 : i < g}
    <3>1. two!thermocode_n(Code(l), reqs) =
            {i \in 0 .. n - 2 :
               1 + i \in {k \in 0 .. 2 * n - 1 : \E j \in S : j >= k}}
      BY <1>2, <1>7
    <3>2. QED
      BY <3>1, <2>2, Zenon
  <2>4. \A i : i \in 0 .. n - 2 /\ i < g <=> i \in 0 .. n - 1 /\ i < g
    BY <1>4
  <2>5. QED
    BY <2>3, <2>4 DEF Code
<1>8. QED
  BY <1>6, <1>7

-----------------------------------------------------------------------------
(* A grant at a level: one item, for which the next code stands.           *)
LEMMA LevelGrants ==
  ASSUME width_p \in Nat \ {0}, NEW code, NEW reqs, NEW l,
         LevelInv(code, reqs, l), reqs # {}
  PROVE  \E g \in two!Items : /\ two!grants_o(code, reqs) = {g}
                          /\ two!thermocode_n(code, reqs) = Code(g)
<1>1. l \in two!Items /\ reqs \in SUBSET two!Items /\ code = Code(l)
  BY DEF LevelInv
<1>2. PICK g \in reqs : Found(l, reqs, g)
  BY <1>1, SomethingFound
<1>3. g \in two!Items
  BY <1>1
<1>4. \A i \in two!Items : i \in two!grants_o(Code(l), reqs) <=> i = g
  BY <1>1, <1>2, <1>3, GrantIsFound, OneFound
<1>5. two!grants_o(Code(l), reqs) \subseteq two!Items
  BY DEF two!grants_o
<1>6. two!grants_o(code, reqs) = {g}
  BY <1>1, <1>3, <1>4, <1>5
<1>7. two!thermocode_n(code, reqs) = Code(g)
  BY <1>1, <1>2, <1>3, NextCode
<1>8. QED
  BY <1>3, <1>6, <1>7

(* A level after an edge, whether it has granted or not.                   *)
LEMMA LevelStep ==
  ASSUME width_p \in Nat \ {0}, NEW code, NEW reqs, NEW l,
         LevelInv(code, reqs, l),
         NEW grant \in BOOLEAN, grant => reqs # {},
         NEW code_n, code_n = IF grant THEN two!thermocode_n(code, reqs) ELSE code,
         NEW taken, taken = IF grant THEN two!grants_o(code, reqs) ELSE {},
         NEW reqs_n, NEW l_n, two!Level(reqs, taken, reqs_n, l, l_n)
  PROVE  LevelInv(code_n, reqs_n, l_n)
<1>1. reqs_n \subseteq two!Items
  BY DEF two!Level, LevelInv
<1>2. CASE grant
  <2>1. PICK g \in two!Items :
          two!grants_o(code, reqs) = {g} /\ two!thermocode_n(code, reqs) = Code(g)
    BY <1>2, LevelGrants
  <2>2. taken = {g} /\ code_n = Code(g)
    BY <2>1, <1>2
  <2>3. l_n = g
    BY <2>2 DEF two!Level
  <2>4. QED
    BY <2>2, <2>3, <1>1 DEF LevelInv
<1>3. CASE ~grant
  BY <1>1, <1>3 DEF two!Level, LevelInv
<1>4. QED
  BY <1>2, <1>3

LEMMA EdgeInv ==
  ASSUME width_p \in Nat \ {0}, ArbInv, NEW yumi_i \in BOOLEAN, two!Edge(yumi_i)
  PROVE  ArbInv'
<1> DEFINE high == yumi_i /\ two!granted_high_o
           low == yumi_i /\ two!granted_low_lo
<1>1. /\ high \in BOOLEAN /\ low \in BOOLEAN
      /\ high => reqs_high # {}
      /\ low => reqs_low # {} /\ ~two!granted_high_o
  BY DEF two!granted_high_o, two!granted_low_lo
<1>2. /\ highcode' = IF high THEN two!thermocode_n(highcode, reqs_high) ELSE highcode
      /\ lowcode' = IF low THEN two!thermocode_n(lowcode, reqs_low) ELSE lowcode
  BY DEF two!Edge, two!Regs
<1>3. /\ two!Level(reqs_high, IF high THEN two!grants_o(highcode, reqs_high) ELSE {},
               reqs_high', last_high, last_high')
      /\ two!Level(reqs_low, IF low THEN two!grants_o(lowcode, reqs_low) ELSE {},
               reqs_low', last_low, last_low')
  <2>1. /\ two!Level(reqs_high, IF high THEN two!grants ELSE {},
                 reqs_high', last_high, last_high')
        /\ two!Level(reqs_low, IF low THEN two!grants ELSE {},
                 reqs_low', last_low, last_low')
    BY DEF two!Edge
  <2>2. /\ high => two!grants = two!grants_o(highcode, reqs_high)
        /\ low => two!grants = two!grants_o(lowcode, reqs_low)
    BY <1>1 DEF two!grants
  <2>3. /\ (IF high THEN two!grants ELSE {})
             = IF high THEN two!grants_o(highcode, reqs_high) ELSE {}
        /\ (IF low THEN two!grants ELSE {})
             = IF low THEN two!grants_o(lowcode, reqs_low) ELSE {}
    BY <2>2
  <2>4. QED
    BY <2>1, <2>3
<1> HIDE DEF high, low
<1>4. LevelInv(highcode', reqs_high', last_high')
  BY <1>1, <1>2, <1>3, LevelStep DEF ArbInv
<1>5. LevelInv(lowcode', reqs_low', last_low')
  BY <1>1, <1>2, <1>3, LevelStep DEF ArbInv
<1>6. QED
  BY <1>4, <1>5 DEF ArbInv

THEOREM ArbInvariant ==
  ASSUME width_p \in Nat \ {0}
  PROVE  two!Spec => []ArbInv
<1>1. two!Init => ArbInv
  BY DEF two!Init, ArbInv, LevelInv, Code
<1>2. ArbInv /\ [two!Next]_(two!vars) => ArbInv'
  <2>1. ASSUME ArbInv, UNCHANGED two!vars PROVE ArbInv'
    BY <2>1 DEF two!vars, two!regs, ArbInv
  <2>2. QED
    BY <2>1, EdgeInv DEF two!Next
<1>3. QED
  BY <1>1, <1>2, PTL DEF two!Spec

(* bsg_arb_round_robin grants the item whose turn it is and no other, at   *)
(* both levels of the two-level arbiter, for every number of items and     *)
(* whatever the grants before.                                             *)
THEOREM TurnsAreTaken ==
  ASSUME width_p \in Nat \ {0}
  PROVE  two!Spec => []two!GrantsNextInTurn
<1>1. ASSUME NEW code, NEW reqs, NEW l, LevelInv(code, reqs, l)
      PROVE  two!grants_o(code, reqs) = two!First(l, reqs)
  <2>1. l \in two!Items /\ reqs \in SUBSET two!Items /\ code = Code(l)
    BY <1>1 DEF LevelInv
  <2>2. \A i \in two!Items : i \in two!grants_o(code, reqs) <=> i \in two!First(l, reqs)
    BY <2>1, GrantIsFound, FoundIsFirst
  <2>3. two!grants_o(code, reqs) \subseteq two!Items /\ two!First(l, reqs) \subseteq two!Items
    BY <2>1 DEF two!grants_o, two!First
  <2>4. QED
    BY <2>2, <2>3
<1>2. ArbInv => two!GrantsNextInTurn
  BY <1>1 DEF ArbInv, two!GrantsNextInTurn
<1>3. QED
  BY <1>2, ArbInvariant, PTL

(* Side by side with the other units the two-level arbiter goes on as it   *)
(* does alone, so both its levels always grant the item whose turn it is.  *)
THEOREM GrantsInTurn == GeneratedSpec => []GrantsNextInTurn
<1>1. GeneratedInit => two!Init
  BY DEF GeneratedInit
<1>2. [GeneratedNext]_all => [two!Next]_(two!vars)
  <2>1. SUFFICES ASSUME [GeneratedNext]_all
                 PROVE  two!Next \/ UNCHANGED two!vars
    OBVIOUS
  <2>2. UNCHANGED two_vars => UNCHANGED two!vars
    BY DEF two_vars, two!vars, two!regs
  <2>3. CASE UNCHANGED all
    BY <2>2, <2>3 DEF all
  <2>4. CASE GeneratedNext
    BY <2>2, <2>4, Zenon DEF GeneratedNext, Arbitrate, OnlyStorage, OnlyProduct, OnlySwitch, OnlyRing
  <2>5. QED
    BY <2>1, <2>3, <2>4
<1>3. two!Spec => []two!GrantsNextInTurn
  BY TwoLevelAssumption, TurnsAreTaken
<1>4. QED
  BY <1>1, <1>2, <1>3, PTL DEF GeneratedSpec, two!Spec, GrantsNextInTurn

-----------------------------------------------------------------------------
(* The switchbox for any number of channels.  Its instance counts with     *)
(* the same function.                                                      *)
LEMMA SameSize == \A S : sbox!Cardinality(S) = Cardinality(S)
BY DEF sbox!Cardinality, Cardinality

(* Among the channels of a set every one has its own place, and every      *)
(* place from 0 on is taken.                                               *)
LEMMA PlaceOfEach ==
  ASSUME NEW n \in Nat, NEW vec \in SUBSET (0 .. n - 1)
  PROVE  /\ Cardinality(vec) \in 0 .. n
         /\ Cardinality(vec) = n => vec = 0 .. n - 1
         /\ \A i \in vec : sbox!position(vec, i) \in 0 .. Cardinality(vec) - 1
         /\ \A i, j \in vec : sbox!position(vec, i) = sbox!position(vec, j) => i = j
         /\ \A k \in 0 .. Cardinality(vec) - 1 : \E i \in vec : sbox!position(vec, i) = k
<1> DEFINE below(i) == {j \in vec : j < i}
           c == Cardinality(vec)
           place == [i \in vec |-> sbox!position(vec, i)]
<1>1. IsFiniteSet(0 .. n - 1) /\ Cardinality(0 .. n - 1) = n
  BY FS_Interval
<1>2. IsFiniteSet(vec) /\ c \in 0 .. n /\ (c = n => vec = 0 .. n - 1)
  <2>1. IsFiniteSet(vec) /\ c <= n /\ (n = c => 0 .. n - 1 = vec)
    BY <1>1, FS_Subset
  <2>2. c \in Nat
    BY <2>1, FS_CardinalityType
  <2> HIDE DEF c
  <2>3. QED
    BY <2>1, <2>2
<1>3. \A i : IsFiniteSet(below(i)) /\ Cardinality(below(i)) \in Nat
  BY <1>2, FS_Subset, FS_CardinalityType
<1>4. ASSUME NEW i \in vec, NEW j \in vec, i < j
      PROVE  Cardinality(below(i)) < Cardinality(below(j))
  <2>1. below(i) \in SUBSET below(j) /\ i \in below(j) /\ i \notin below(i)
    <3>1. \A x \in vec : x \in Int
      OBVIOUS
    <3>2. \A x \in vec : x < i => x < j
      BY <3>1, <1>4
    <3>3. i < j /\ ~(i < i)
      BY <3>1, <1>4
    <3>4. QED
      BY <3>2, <3>3
  <2>2. Cardinality(below(i)) <= Cardinality(below(j))
        /\ (Cardinality(below(j)) = Cardinality(below(i)) => below(j) = below(i))
    BY <2>1, <1>3, FS_Subset
  <2> HIDE DEF below
  <2>3. QED
    BY <2>1, <2>2, <1>3
<1>5. ASSUME NEW i \in vec PROVE Cardinality(below(i)) \in 0 .. c - 1
  <2>1. below(i) \in SUBSET vec /\ i \notin below(i) /\ i \in vec
    <3>1. i \in Int
      OBVIOUS
    <3>2. QED
      BY <3>1
  <2>2. Cardinality(below(i)) <= c /\ (c = Cardinality(below(i)) => vec = below(i))
    BY <2>1, <1>2, FS_Subset
  <2> HIDE DEF below, c
  <2>3. QED
    BY <2>1, <2>2, <1>2, <1>3
<1>6. \A i : sbox!position(vec, i) = Cardinality(below(i))
  BY SameSize DEF sbox!position
<1>c. c \in Nat
  BY <1>2
<1> HIDE DEF below, c
<1>7. \A i \in vec : sbox!position(vec, i) \in 0 .. c - 1
  BY <1>5, <1>6
<1>8. ASSUME NEW i \in vec, NEW j \in vec, sbox!position(vec, i) = sbox!position(vec, j)
      PROVE  i = j
  <2>1. i \in Int /\ j \in Int
    OBVIOUS
  <2>2. i < j \/ j < i \/ i = j
    BY <2>1
  <2>3. QED
    BY <1>3, <1>4, <1>6, <1>8, <2>2
<1>9. place \in Injection(vec, 0 .. c - 1)
  BY <1>7, <1>8 DEF Injection, IsInjective
<1>10. IsFiniteSet(0 .. c - 1) /\ Cardinality(0 .. c - 1) = c
  <2>1. 0 \in Int /\ c - 1 \in Int
    BY <1>c
  <2>2. QED
    BY <2>1, <1>c, FS_Interval
<1>11. place \in Surjection(vec, 0 .. c - 1)
  BY <1>2, <1>9, <1>10, FS_Injection DEF c
<1>12. ASSUME NEW k \in 0 .. c - 1 PROVE \E i \in vec : sbox!position(vec, i) = k
  BY <1>11 DEF Surjection
<1>13. QED
  BY <1>2, <1>7, <1>8, <1>12 DEF c

(* The registers are the lines of the tables for the channels that were    *)
(* active an edge ago.                                                     *)
SboxInv ==
  /\ num_channels_p \in Nat
  /\ channel_active_i \in SUBSET sbox!Ports
  /\ settled \in SUBSET sbox!Ports
  /\ fwd_sel_r = sbox!gen_fwd_vec_line(num_channels_p, settled)
  /\ fwd_dpath_sel_r = sbox!gen_fwd_vec_line_dpath(num_channels_p, settled)
  /\ bk_sel_r = sbox!gen_back_vec_line(num_channels_p, settled)
  /\ bk_dpath_sel_r = sbox!gen_back_vec_line_dpath(num_channels_p, settled)

(* A channel has a spare as long as there is one that is not active.       *)
LEMMA SpareIsIdle ==
  ASSUME NEW n \in Nat, NEW vec \in SUBSET (0 .. n - 1), vec # 0 .. n - 1
  PROVE  sbox!spare(n, vec) \notin vec
<1> DEFINE idle(m) == m \in Nat /\ n - 1 - m \in 0 .. n - 1 /\ n - 1 - m \notin vec
           T == {m \in Nat : idle(m)}
<1>1. T # {}
  <2>1. PICK i \in 0 .. n - 1 : i \notin vec
    OBVIOUS
  <2>2. n - 1 - i \in Nat /\ n - 1 - (n - 1 - i) = i
    OBVIOUS
  <2>3. n - 1 - i \in T
    BY <2>1, <2>2
  <2>4. QED
    BY <2>3
<1>2. PICK m \in T : \A k \in T : m <= k
  BY <1>1, Least
<1>3. n - 1 - m \in 0 .. n - 1 /\ n - 1 - m \notin vec
  OBVIOUS
<1>4. ASSUME NEW j \in 0 .. n - 1, j \notin vec PROVE j <= n - 1 - m
  <2>1. n - 1 - j \in Nat /\ n - 1 - (n - 1 - j) = j
    OBVIOUS
  <2>2. n - 1 - j \in T
    BY <1>4, <2>1
  <2>3. m <= n - 1 - j
    BY <1>2, <2>2
  <2> HIDE DEF T
  <2>4. m \in Nat
    BY <1>2 DEF T
  <2>5. QED
    BY <2>3, <2>4
<1>5. QED
  BY <1>3, <1>4 DEF sbox!spare

(* What the selects are: an active channel and its place name each other,  *)
(* the other places name no active channel, and an idle channel names a    *)
(* place that no channel has.                                              *)
LEMMA SelectsNameEachOther ==
  ASSUME SboxInv
  PROVE  /\ \A i \in settled :
              /\ i \in sbox!Ports /\ sbox!position(settled, i) \in sbox!Ports
              /\ fwd_sel_r[sbox!position(settled, i)] = i
              /\ fwd_dpath_sel_r[sbox!position(settled, i)] = i - sbox!position(settled, i)
              /\ bk_sel_r[i] = sbox!position(settled, i)
              /\ bk_dpath_sel_r[i] = sbox!position(settled, i)
         /\ \A i, j \in settled :
              sbox!position(settled, i) = sbox!position(settled, j) => i = j
         /\ \A k \in sbox!Ports :
              \/ fwd_sel_r[k] \notin settled
              \/ \E i \in settled : sbox!position(settled, i) = k
         /\ \A j \in sbox!Ports \ settled, i \in settled :
              bk_sel_r[j] # sbox!position(settled, i)
<1> DEFINE n == num_channels_p
           c == Cardinality(settled)
           nth(i) == sbox!position(settled, i)
<1>1. n \in Nat /\ settled \in SUBSET (0 .. n - 1) /\ sbox!Ports = 0 .. n - 1
  BY DEF SboxInv, sbox!Ports
<1>2. /\ c \in 0 .. n
      /\ c = n => settled = 0 .. n - 1
      /\ \A i \in settled : nth(i) \in 0 .. c - 1
      /\ \A i, j \in settled : nth(i) = nth(j) => i = j
      /\ \A k \in 0 .. c - 1 : \E i \in settled : nth(i) = k
  BY <1>1, PlaceOfEach
<1>3. \A k \in 0 .. n - 1 :
        /\ fwd_sel_r[k] = IF k < c THEN CHOOSE i \in settled : nth(i) = k
                          ELSE sbox!spare(n, settled)
        /\ fwd_dpath_sel_r[k] = IF k < c THEN fwd_sel_r[k] - k ELSE 0
  BY SameSize DEF SboxInv, sbox!gen_fwd_vec_line, sbox!gen_fwd_vec_line_dpath
<1>4. \A i \in 0 .. n - 1 :
        /\ bk_sel_r[i] = IF i \in settled THEN nth(i) ELSE n - 1
        /\ bk_dpath_sel_r[i] = IF i \in settled THEN nth(i) ELSE 0
  BY DEF SboxInv, sbox!gen_back_vec_line, sbox!gen_back_vec_line_dpath
<1>5. c # n => sbox!spare(n, settled) \notin settled
  <2>1. c # n => settled # 0 .. n - 1
    BY <1>1, FS_Interval
  <2>2. QED
    BY <1>1, <2>1, SpareIsIdle
<1> HIDE DEF n, c, nth
<1>6. ASSUME NEW i \in settled
      PROVE  /\ i \in 0 .. n - 1 /\ nth(i) \in 0 .. n - 1 /\ nth(i) < c
             /\ fwd_sel_r[nth(i)] = i /\ fwd_dpath_sel_r[nth(i)] = i - nth(i)
             /\ bk_sel_r[i] = nth(i) /\ bk_dpath_sel_r[i] = nth(i)
  <2>1. i \in 0 .. n - 1 /\ nth(i) \in 0 .. n - 1 /\ nth(i) < c
    BY <1>1, <1>2
  <2>2. (CHOOSE j \in settled : nth(j) = nth(i)) = i
    BY <1>2
  <2>3. QED
    BY <1>3, <1>4, <2>1, <2>2
<1>7. ASSUME NEW k \in 0 .. n - 1, fwd_sel_r[k] \in settled
      PROVE  \E i \in settled : nth(i) = k
  <2>1. CASE k < c
    BY <1>1, <1>2, <2>1
  <2>2. CASE ~(k < c)
    <3>1. c # n
      <4>1. n \in Nat /\ c \in 0 .. n /\ k \in 0 .. n - 1 /\ ~(k < c)
        BY <1>1, <1>2, <2>2
      <4>2. QED
        BY ONLY <4>1
    <3>2. fwd_sel_r[k] = sbox!spare(n, settled)
      BY <1>3, <2>2
    <3>3. QED
      BY <1>5, <1>7, <3>1, <3>2
  <2>3. QED
    BY <2>1, <2>2
<1>8. ASSUME NEW j \in 0 .. n - 1, j \notin settled, NEW i \in settled
      PROVE  bk_sel_r[j] # nth(i)
  <2>1. c # n /\ bk_sel_r[j] = n - 1
    BY <1>2, <1>4, <1>8
  <2>2. nth(i) \in 0 .. c - 1
    BY <1>2
  <2>3. QED
    BY <1>1, <1>2, <2>1, <2>2
<1>9. QED
  BY <1>1, <1>2, <1>6, <1>7, <1>8 DEF nth

(* An edge puts the lines for the channels that are active into the        *)
(* registers.                                                              *)
LEMMA SboxStep == SboxInv /\ [sbox!Next]_(sbox!vars) => SboxInv'
<1>1. ASSUME SboxInv, UNCHANGED sbox!vars PROVE SboxInv'
  BY <1>1 DEF SboxInv, sbox!vars, sbox!Ports
<1>2. ASSUME SboxInv, sbox!Next PROVE SboxInv'
  <2>1. /\ num_channels_p' = num_channels_p /\ settled' = channel_active_i
        /\ channel_active_i' \in SUBSET sbox!Ports
        /\ fwd_sel_r' = sbox!gen_fwd_vec_line(num_channels_p, channel_active_i)
        /\ fwd_dpath_sel_r' = sbox!gen_fwd_vec_line_dpath(num_channels_p, channel_active_i)
        /\ bk_sel_r' = sbox!gen_back_vec_line(num_channels_p, channel_active_i)
        /\ bk_dpath_sel_r' = sbox!gen_back_vec_line_dpath(num_channels_p, channel_active_i)
    BY <1>2 DEF SboxInv, sbox!Next, sbox!Clk, sbox!Selects
  <2>2. sbox!Ports' = sbox!Ports
    BY <2>1 DEF sbox!Ports
  <2>3. QED
    BY <1>2, <2>1, <2>2 DEF SboxInv
<1>3. QED
  BY <1>1, <1>2

(* What the two sides of bsg_sbox then see.                                *)
LEMMA EveryChannelInItsPlace == SboxInv => sbox!Concentrates
<1> SUFFICES ASSUME SboxInv PROVE sbox!Concentrates
  OBVIOUS
<1> DEFINE nth(i) == sbox!position(settled, i)
           places(S) == {nth(i) : i \in S}
<1> HIDE DEF nth
<1>1. /\ \A i \in settled :
           /\ i \in sbox!Ports /\ nth(i) \in sbox!Ports
           /\ fwd_sel_r[nth(i)] = i /\ fwd_dpath_sel_r[nth(i)] = i - nth(i)
           /\ bk_sel_r[i] = nth(i) /\ bk_dpath_sel_r[i] = nth(i)
      /\ \A i, j \in settled : nth(i) = nth(j) => i = j
      /\ \A k \in sbox!Ports :
           fwd_sel_r[k] \notin settled \/ \E i \in settled : nth(i) = k
      /\ \A j \in sbox!Ports \ settled, i \in settled : bk_sel_r[j] # nth(i)
  BY SelectsNameEachOther DEF nth
<1>2. ASSUME NEW valid \in SUBSET settled
      PROVE  {k \in sbox!Ports : fwd_sel_r[k] \in valid} = places(valid)
  <2>1. ASSUME NEW k \in sbox!Ports, fwd_sel_r[k] \in valid PROVE k \in places(valid)
    <3>1. PICK i \in settled : nth(i) = k
      BY <1>1, <2>1
    <3>2. fwd_sel_r[k] = i
      BY <1>1, <3>1
    <3>3. QED
      BY <2>1, <3>1, <3>2
  <2>2. ASSUME NEW i \in valid
        PROVE  nth(i) \in sbox!Ports /\ fwd_sel_r[nth(i)] \in valid
    BY <1>1
  <2>3. QED
    BY <2>1, <2>2
<1>3. ASSUME NEW valid \in SUBSET settled
      PROVE  {i \in sbox!Ports : bk_sel_r[i] \in places(valid)} = valid
  <2>1. ASSUME NEW i \in sbox!Ports, bk_sel_r[i] \in places(valid) PROVE i \in valid
    <3>1. PICK j \in valid : bk_sel_r[i] = nth(j)
      BY <2>1
    <3>2. i \in settled
      BY <1>1, <3>1
    <3>3. nth(i) = nth(j)
      BY <1>1, <3>1, <3>2
    <3>4. QED
      BY <1>1, <3>2, <3>3
  <2>2. ASSUME NEW i \in valid
        PROVE  i \in sbox!Ports /\ bk_sel_r[i] \in places(valid)
    BY <1>1
  <2>3. QED
    BY <2>1, <2>2
<1>4. ASSUME NEW i \in settled
      PROVE  LET words == [p \in sbox!Ports |-> p]
             IN  /\ [k \in sbox!Ports |-> words[k + fwd_dpath_sel_r[k]]][nth(i)] = i
                 /\ [j \in sbox!Ports |-> words[bk_dpath_sel_r[j]]][i] = nth(i)
  <2>1. /\ i \in sbox!Ports /\ nth(i) \in sbox!Ports
        /\ fwd_dpath_sel_r[nth(i)] = i - nth(i) /\ bk_dpath_sel_r[i] = nth(i)
    BY <1>1
  <2>2. sbox!Ports \subseteq Int
    BY DEF SboxInv, sbox!Ports
  <2>3. nth(i) + fwd_dpath_sel_r[nth(i)] = i
    <3>1. PICK k \in Int : k = nth(i)
      BY <2>1, <2>2
    <3>2. i \in Int /\ k + (i - k) = i
      BY <2>1, <2>2
    <3>3. QED
      BY <2>1, <3>1, <3>2
  <2>4. QED
    BY <2>1, <2>3
<1>5. \A valid \in {settled} \cup {{i} : i \in settled} : valid \in SUBSET settled
  OBVIOUS
<1>6. /\ \A S : sbox!in_v_o(S) = {k \in sbox!Ports : fwd_sel_r[k] \in S}
      /\ \A S : sbox!out_me_ready_o(S) = {k \in sbox!Ports : fwd_sel_r[k] \in S}
      /\ \A S : sbox!in_yumi_o(S) = {i \in sbox!Ports : bk_sel_r[i] \in S}
      /\ \A S : sbox!out_me_v_o(S) = {i \in sbox!Ports : bk_sel_r[i] \in S}
  BY DEF sbox!in_v_o, sbox!in_yumi_o, sbox!out_me_v_o, sbox!out_me_ready_o
<1>7. ASSUME NEW valid \in {settled} \cup {{i} : i \in settled}
      PROVE  /\ sbox!in_v_o(valid) = {sbox!position(settled, i) : i \in valid}
             /\ sbox!in_yumi_o({sbox!position(settled, i) : i \in valid}) = valid
             /\ sbox!out_me_v_o({sbox!position(settled, i) : i \in valid}) = valid
             /\ sbox!out_me_ready_o(valid) = {sbox!position(settled, i) : i \in valid}
  <2>1. {sbox!position(settled, i) : i \in valid} = places(valid)
    BY DEF nth
  <2>2. valid \in SUBSET settled
    BY <1>5
  <2> HIDE DEF places
  <2>3. PICK P : P = places(valid)
    OBVIOUS
  <2>4. {k \in sbox!Ports : fwd_sel_r[k] \in valid} = P
    BY <1>2, <2>2, <2>3
  <2>5. {i \in sbox!Ports : bk_sel_r[i] \in P} = valid
    BY <1>3, <2>2, <2>3
  <2>6. {sbox!position(settled, i) : i \in valid} = P
    BY <2>1, <2>3
  <2>7. sbox!in_v_o(valid) = P /\ sbox!out_me_ready_o(valid) = P
    BY <1>6, <2>4
  <2>8. sbox!in_yumi_o(P) = valid /\ sbox!out_me_v_o(P) = valid
    BY <1>6, <2>5
  <2>9. QED
    BY <2>6, <2>7, <2>8
<1>8. ASSUME NEW i \in settled
      PROVE  LET words == [p \in sbox!Ports |-> p]
             IN  /\ sbox!in_data_o(words)[sbox!position(settled, i)] = i
                 /\ sbox!out_me_data_o(words)[i] = sbox!position(settled, i)
  BY <1>4 DEF nth, sbox!in_data_o, sbox!out_me_data_o
<1>9. QED
  BY <1>7, <1>8 DEF sbox!Concentrates

(* Every active channel has its place and gets its own words back, for     *)
(* every number of channels, whichever are active and however they change. *)
THEOREM ChannelsConcentrate ==
  ASSUME Channels \subseteq Nat
  PROVE  sbox!Spec => []sbox!Concentrates
<1>1. sbox!Init => SboxInv
  BY DEF sbox!Init, SboxInv
<1>2. QED
  BY <1>1, SboxStep, EveryChannelInItsPlace, PTL DEF sbox!Spec

(* And so in the run, whatever the switchbox stands among.                 *)
THEOREM PlacesAndBack == GeneratedSpec => []Concentrates
<1>1. ASSUME GeneratedInit PROVE unit = "sbox" => SboxInv
  BY <1>1, ChannelsAssumption DEF GeneratedInit, sbox!Init, SboxInv
<1>2. ASSUME unit = "sbox" => SboxInv, [GeneratedNext]_all
      PROVE  (unit = "sbox" => SboxInv)'
  <2>1. unit' = unit /\ ([sbox!Next]_(sbox!vars) \/ unit # "sbox")
    BY <1>2 DEF GeneratedNext, all, switch, sbox!vars, Arbitrate, OnlyTwo, OnlyStorage,
                OnlyProduct, OnlyRing
  <2>2. QED
    BY <1>2, <2>1, SboxStep
<1>3. QED
  BY <1>1, <1>2, EveryChannelInItsPlace, PTL DEF GeneratedSpec, Concentrates

-----------------------------------------------------------------------------
(* The ring through a mesh of any size.                                    *)

(* The sequence flatten of FlattenSeq, by its recursion.                   *)
Flattens(g, q, m) ==
  g = [i \in 1 .. m |-> IF i = 1 THEN q[i] ELSE g[i - 1] \o q[i]]

(* There is one for every length: a least length without one would follow  *)
(* one that has it.                                                        *)
LEMMA FlattensExists ==
  ASSUME NEW q, NEW N \in Nat \ {0}
  PROVE  \E g : Flattens(g, q, N)
<1> DEFINE T == {m \in Nat \ {0} : ~\E g : Flattens(g, q, m)}
<1>1. T = {}
  <2> SUFFICES ASSUME T # {} PROVE FALSE
    OBVIOUS
  <2>1. PICK m \in T : \A n \in T : m <= n
    BY Least
  <2>2. m \in Nat \ {0} /\ ~\E g : Flattens(g, q, m)
    BY <2>1
  <2>3. CASE m = 1
    <3>1. Flattens([i \in 1 .. 1 |-> q[i]], q, 1)
      BY DEF Flattens
    <3>2. QED
      BY <2>2, <2>3, <3>1
  <2>4. CASE m # 1
    <3>1. m - 1 \in Nat \ {0} /\ ~(m <= m - 1)
      BY <2>2, <2>4
    <3>2. PICK g : Flattens(g, q, m - 1)
      BY <2>1, <3>1
    <3>3. PICK h : h = [i \in 1 .. m |-> IF i < m THEN g[i] ELSE g[m - 1] \o q[m]]
      OBVIOUS
    <3>4. \A i \in 1 .. m : h[i] = IF i = 1 THEN q[i] ELSE h[i - 1] \o q[i]
      <4>1. TAKE i \in 1 .. m
      <4>2. CASE i = m
        <5>1. h[i] = g[m - 1] \o q[m] /\ h[m - 1] = g[m - 1]
          <6>1. i \in 1 .. m /\ m - 1 \in 1 .. m /\ m - 1 < m /\ ~(m < m)
            BY <2>2, <3>1, <4>2
          <6>2. QED
            BY <3>3, <4>2, <6>1
        <5>2. QED
          BY <2>4, <4>2, <5>1
      <4>3. CASE i < m
        <5>1. h[i] = g[i] /\ i \in 1 .. m - 1
          BY <2>2, <3>3, <4>3
        <5>2. g[i] = IF i = 1 THEN q[i] ELSE g[i - 1] \o q[i]
          BY <3>2, <5>1 DEF Flattens
        <5>3. i # 1 => h[i - 1] = g[i - 1]
          BY <2>2, <3>3, <4>3
        <5>4. QED
          BY <5>1, <5>2, <5>3
      <4>4. QED
        BY <2>2, <4>2, <4>3
    <3>5. Flattens(h, q, m)
      BY <3>3, <3>4 DEF Flattens
    <3>6. QED
      BY <2>2, <3>5
  <2>5. QED
    BY <2>3, <2>4
<1>2. QED
  BY <1>1

(* FlattenSeq is the last of it.                                           *)
LEMMA FlattenSeqIs ==
  ASSUME NEW q, NEW N \in Nat \ {0}, Len(q) = N
  PROVE  \E g : Flattens(g, q, N) /\ ring!FlattenSeq(q) = g[N]
<1> DEFINE P(g) == g = [i \in 1 .. Len(q) |-> IF i = 1 THEN q[i] ELSE g[i - 1] \o q[i]]
<1>1. \A g : P(g) <=> Flattens(g, q, N)
  BY DEF Flattens
<1>2. \E g : P(g)
  BY <1>1, FlattensExists
<1>3. P(CHOOSE g : P(g))
  BY <1>2, Zenon
<1>4. Len(q) # 0
  OBVIOUS
<1>5. ring!FlattenSeq(q) = (CHOOSE g : P(g))[Len(q)]
  BY <1>4, Zenon DEF ring!FlattenSeq
<1>6. PICK g : g = (CHOOSE h : P(h))
  OBVIOUS
<1>7. P(g) /\ ring!FlattenSeq(q) = g[N]
  BY <1>3, <1>5, <1>6, Zenon
<1>8. QED
  BY <1>1, <1>7

(* One line more is n tiles more.                                          *)
LEMMA OneMore ==
  ASSUME NEW p \in Nat \ {0}, NEW L \in Nat
  PROVE  (p - 1) * L \in Nat /\ p * L = (p - 1) * L + L
<1>1. PICK d : d \in Nat /\ p = d + 1
  <2>1. p - 1 \in Nat /\ p = (p - 1) + 1
    OBVIOUS
  <2>2. QED
    BY <2>1
<1>2. d * L \in Nat /\ (d + 1) * L = d * L + L
  BY <1>1
<1>3. p - 1 = d
  BY <1>1
<1>4. QED
  BY <1>1, <1>2, <1>3

(* The length of two sequences joined.                                     *)
LEMMA JoinedLength ==
  ASSUME NEW S, NEW a \in Seq(S), NEW b \in Seq(S)
  PROVE  Len(a \o b) = Len(a) + Len(b)
OBVIOUS

(* And where the second one lies.                                          *)
LEMMA JoinedSecond ==
  ASSUME NEW S, NEW a \in Seq(S), NEW b \in Seq(S), NEW k, Len(a) = k
  PROVE  \A i \in 1 .. Len(b) : (a \o b)[k + i] = b[i]
OBVIOUS

(* More lines have no fewer tiles.                                         *)
LEMMA TimesMonotone ==
  ASSUME NEW a \in Nat, NEW b \in Nat, NEW L \in Nat, a <= b
  PROVE  a * L \in Nat /\ b * L \in Nat /\ a * L <= b * L
<1>1. PICK d : d \in Nat /\ b = a + d
  <2>1. b - a \in Nat /\ b = a + (b - a)
    OBVIOUS
  <2>2. QED
    BY <2>1
<1>2. d * L \in Nat /\ a * L \in Nat
  BY <1>1
<1>3. (a + d) * L = a * L + d * L
  BY <1>1
<1>4. QED
  BY <1>1, <1>2, <1>3

(* Pieces of one length L follow each other.                               *)
InPieces(F, q, N, L) ==
  \A p \in 1 .. N, j \in 1 .. L : F[(p - 1) * L + j] = q[p][j]

(* A sequence of them is flattened to that.                                *)
LEMMA FlattenPieces ==
  ASSUME NEW S, NEW N \in Nat \ {0}, NEW L \in Nat \ {0}, NEW q, Len(q) = N,
         \A p \in 1 .. N : q[p] \in Seq(S) /\ Len(q[p]) = L
  PROVE  /\ ring!FlattenSeq(q) \in Seq(S) /\ Len(ring!FlattenSeq(q)) = N * L
         /\ InPieces(ring!FlattenSeq(q), q, N, L)
<1>1. PICK g : Flattens(g, q, N) /\ ring!FlattenSeq(q) = g[N]
  BY FlattenSeqIs
<1> DEFINE Good(m) == /\ g[m] \in Seq(S) /\ Len(g[m]) = m * L
                      /\ \A p \in 1 .. m, j \in 1 .. L : g[m][(p - 1) * L + j] = q[p][j]
           T == {m \in 1 .. N : ~Good(m)}
<1>2. \A m \in 1 .. N : g[m] = IF m = 1 THEN q[m] ELSE g[m - 1] \o q[m]
  BY <1>1 DEF Flattens
<1>3. Good(1)
  <2>1. g[1] = q[1] /\ 1 \in 1 .. N
    BY <1>2
  <2>2. \A p \in 1 .. 1, j \in 1 .. L : (p - 1) * L + j = j /\ p = 1
    OBVIOUS
  <2>3. 1 * L = L
    OBVIOUS
  <2>4. QED
    BY <2>1, <2>2, <2>3
<1>4. \A m \in 2 .. N : Good(m - 1) => Good(m)
  <2> SUFFICES ASSUME NEW m \in 2 .. N, Good(m - 1) PROVE Good(m)
    OBVIOUS
  <2>1. PICK k, a, b : k = m - 1 /\ a = g[k] /\ b = q[m]
    OBVIOUS
  <2>2. k \in Nat /\ m = k + 1 /\ m \in 1 .. N /\ m # 1
    BY <2>1
  <2>3. PICK kl : kl = k * L
    OBVIOUS
  <2>4. m * L = kl + L /\ kl \in Nat
    BY <2>2, <2>3
  <2>5. /\ a \in Seq(S) /\ Len(a) = kl
        /\ \A p \in 1 .. k, j \in 1 .. L : a[(p - 1) * L + j] = q[p][j]
    BY <2>1, <2>3
  <2>6. b \in Seq(S) /\ Len(b) = L /\ g[m] = a \o b
    BY <1>2, <2>1, <2>2
  <2>7. /\ a \o b \in Seq(S) /\ Len(a \o b) = kl + L
        /\ \A i \in 1 .. kl : (a \o b)[i] = a[i]
        /\ \A i \in 1 .. L : (a \o b)[kl + i] = b[i]
    <3> HIDE DEF Good
    <3>1. a \in Seq(S) /\ b \in Seq(S) /\ Len(a) = kl /\ Len(b) = L /\ kl \in Nat
      BY <2>4, <2>5, <2>6
    <3>2. a \o b \in Seq(S) /\ Len(a \o b) = kl + L
      <4>1. a \o b \in Seq(S)
        BY <3>1
      <4>2. Len(a \o b) = Len(a) + Len(b)
        BY <3>1, JoinedLength
      <4>3. QED
        BY <3>1, <4>1, <4>2
    <3>3. \A i \in 1 .. kl : (a \o b)[i] = a[i]
      BY <3>1
    <3>4. \A i \in 1 .. L : (a \o b)[kl + i] = b[i]
      BY <3>1
    <3>5. QED
      BY <3>2, <3>3, <3>4
  <2>8. \A p \in 1 .. m, j \in 1 .. L : g[m][(p - 1) * L + j] = q[p][j]
    <3>1. TAKE p \in 1 .. m, j \in 1 .. L
    <3>2. CASE p = m
      <4>1. (p - 1) * L + j = kl + j
        BY <2>2, <2>3, <3>2
      <4>2. QED
        BY <2>1, <2>6, <2>7, <3>2, <4>1
    <3>3. CASE p # m
      <4>1. p \in 1 .. k
        BY <2>2, <3>3
      <4>2. PICK z : z = (p - 1) * L + j
        OBVIOUS
      <4>3. z \in 1 .. kl
        <5>1. p * L <= kl
          BY <2>2, <2>3, <4>1, TimesMonotone
        <5>2. PICK pl : pl = (p - 1) * L
          OBVIOUS
        <5>3. p * L = pl + L /\ pl \in Nat
          BY <4>1, <5>2, OneMore
        <5>4. z = pl + j /\ pl + L <= kl
          BY <4>2, <5>1, <5>2, <5>3
        <5>5. QED
          BY <2>4, <5>3, <5>4
      <4>4. g[m][z] = a[z]
        BY <2>6, <2>7, <4>3
      <4>5. a[z] = q[p][j]
        BY <2>5, <4>1, <4>2
      <4>6. QED
        BY <4>2, <4>4, <4>5
    <3>4. QED
      BY <3>2, <3>3
  <2>9. QED
    BY <2>4, <2>6, <2>7, <2>8
<1>5. T = {}
  <2> SUFFICES ASSUME T # {} PROVE FALSE
    OBVIOUS
  <2> HIDE DEF Good
  <2>1. PICK m \in T : \A n \in T : m <= n
    <3>1. T \subseteq Nat
      OBVIOUS
    <3>2. QED
      BY <3>1, Least
  <2>2. m \in 1 .. N /\ ~Good(m)
    OBVIOUS
  <2>3. m # 1
    BY <1>3, <2>2
  <2>4. m - 1 \in 1 .. N /\ m \in 2 .. N /\ ~(m <= m - 1)
    BY <2>2, <2>3
  <2>5. Good(m - 1)
    BY <2>1, <2>4
  <2>6. QED
    BY <1>4, <2>2, <2>4, <2>5
<1>6. Good(N)
  <2> HIDE DEF Good
  <2>1. N \in 1 .. N
    OBVIOUS
  <2>2. QED
    BY <1>5, <2>1
<1>7. QED
  BY <1>1, <1>6 DEF InPieces

(* Before line a = 2d lie d pairs of lines,                                *)
LEMMA EvenLine ==
  ASSUME NEW d \in Nat, NEW n \in Nat, NEW a, a = d + d
  PROVE  d * (n + n) = a * n /\ a * n \in Nat
<1>1. PICK z : z = d * n
  OBVIOUS
<1>2. z \in Nat /\ d * (n + n) = z + z /\ (d + d) * n = z + z
  BY <1>1
<1>3. QED
  BY <1>2

(* and before line 2d + 1 one line more.                                   *)
LEMMA OddLine ==
  ASSUME NEW d \in Nat, NEW n \in Nat, NEW a, a = d + d + 1
  PROVE  a * n = d * (n + n) + n /\ d * (n + n) \in Nat
<1>1. PICK z : z = d * n
  OBVIOUS
<1>2. z \in Nat /\ d * (n + n) = z + z /\ (d + d + 1) * n = z + z + n
  BY <1>1
<1>3. QED
  BY <1>2

(* A sequence that is there and back: u and then v backwards.              *)
Return(s, u, v, n) ==
  /\ \A j \in 1 .. n : s[j] = u[j]
  /\ \A j \in 1 .. n : s[n + j] = v[n + 1 - j]

(* W lines of n tiles, every second one backwards.                         *)
InLines(F, cell, W, n) ==
  \A a \in 0 .. W - 1, b \in 1 .. n :
    F[a * n + (IF a % 2 = 0 THEN b ELSE n + 1 - b)] = cell[a][b]

(* Pair p of lines, as a piece of its own.                                 *)
Pairs(q, S, cell, h, n) ==
  \A p \in 1 .. h :
    /\ q[p] \in Seq(S) /\ Len(q[p]) = n + n
    /\ Return(q[p], cell[2 * p - 2], cell[2 * p - 1], n)

(* The h pairs of lines of n tiles, the second of every pair backwards.    *)
LEMMA PairsOfLines ==
  ASSUME NEW S, NEW h \in Nat \ {0}, NEW n \in Nat \ {0}, NEW q, Len(q) = h, NEW cell,
         Pairs(q, S, cell, h, n),
         NEW F, F = ring!FlattenSeq(q), NEW W, W = h + h
  PROVE  F \in Seq(S) /\ Len(F) = W * n /\ InLines(F, cell, W, n)
<1>1. n + n \in Nat \ {0} /\ \A p \in 1 .. h : q[p] \in Seq(S) /\ Len(q[p]) = n + n
  BY DEF Pairs
<1>2. \A p \in 1 .. h : /\ \A j \in 1 .. n : q[p][j] = cell[2 * p - 2][j]
                       /\ \A j \in 1 .. n : q[p][n + j] = cell[2 * p - 1][n + 1 - j]
  BY Zenon DEF Pairs, Return
<1>3. F \in Seq(S) /\ Len(F) = h * (n + n)
  BY <1>1, FlattenPieces
<1>4. \A p \in 1 .. h, j \in 1 .. n + n : F[(p - 1) * (n + n) + j] = q[p][j]
  <2>1. PICK L : L = n + n
    OBVIOUS
  <2>2. L \in Nat \ {0} /\ \A p \in 1 .. h : q[p] \in Seq(S) /\ Len(q[p]) = L
    BY <1>1, <2>1
  <2>3. InPieces(F, q, h, L)
    BY <2>2, FlattenPieces
  <2>4. QED
    BY <2>1, <2>3, Zenon DEF InPieces
<1>6. ASSUME NEW a \in 0 .. W - 1, NEW b \in 1 .. n, a % 2 = 0
      PROVE  F[a * n + b] = cell[a][b]
  <2>1. PICK d : d \in 0 .. h - 1 /\ a = d + d
    <3>1. a \div 2 \in 0 .. h - 1 /\ a = (a \div 2) + (a \div 2)
      BY <1>6
    <3>2. QED
      BY <3>1
  <2>2. PICK p : p = d + 1
    OBVIOUS
  <2>3. p \in 1 .. h /\ p - 1 = d /\ 2 * p - 2 = a /\ b \in 1 .. n + n
    BY <2>1, <2>2
  <2>4. F[d * (n + n) + b] = q[p][b] /\ q[p][b] = cell[a][b]
    BY <1>2, <1>4, <2>3
  <2>5. d * (n + n) = a * n
    BY <2>1, EvenLine
  <2>6. QED
    BY <2>4, <2>5
<1>7. ASSUME NEW a \in 0 .. W - 1, NEW b \in 1 .. n, a % 2 # 0
      PROVE  F[a * n + (n + 1 - b)] = cell[a][b]
  <2>1. PICK d : d \in 0 .. h - 1 /\ a = d + d + 1
    <3>1. a \div 2 \in 0 .. h - 1 /\ a = (a \div 2) + (a \div 2) + 1
      BY <1>7
    <3>2. QED
      BY <3>1
  <2>2. PICK p, j : p = d + 1 /\ j = n + 1 - b
    OBVIOUS
  <2>3. p \in 1 .. h /\ p - 1 = d /\ 2 * p - 1 = a /\ j \in 1 .. n /\ n + j \in 1 .. n + n
        /\ n + 1 - j = b
    BY <2>1, <2>2
  <2>4. F[d * (n + n) + (n + j)] = q[p][n + j] /\ q[p][n + j] = cell[a][b]
    BY <1>2, <1>4, <2>3
  <2>5. PICK z, w : z = d * (n + n) /\ w = a * n
    OBVIOUS
  <2>6. z \in Nat /\ w = z + n
    <3>1. a * n = d * (n + n) + n /\ d * (n + n) \in Nat
      BY <2>1, OddLine
    <3>2. QED
      BY <2>5, <3>1, Zenon
  <2>7. z + (n + j) = w + j
    BY <2>3, <2>6
  <2>8. QED
    BY <2>2, <2>4, <2>5, <2>7
<1>8. h * (n + n) = W * n
  BY EvenLine
<1>9. ASSUME NEW a \in 0 .. W - 1, NEW b \in 1 .. n
      PROVE  F[a * n + (IF a % 2 = 0 THEN b ELSE n + 1 - b)] = cell[a][b]
  <2>1. CASE a % 2 = 0
    BY <1>6, <2>1, Zenon
  <2>2. CASE a % 2 # 0
    BY <1>7, <2>2, Zenon
  <2>3. QED
    BY <2>1, <2>2
<1>10. QED
  <2>1. InLines(F, cell, W, n)
    BY <1>9, Zenon DEF InLines
  <2>2. QED
    BY <1>3, <1>8, <2>1, Zenon

(* One sequence and then another backwards is there and back.              *)
LEMMA ThereAndBack ==
  ASSUME NEW S, NEW n \in Nat, NEW u \in Seq(S), NEW v \in Seq(S), Len(u) = n, Len(v) = n
  PROVE  /\ u \o ring!Reverse(v) \in Seq(S) /\ Len(u \o ring!Reverse(v)) = n + n
         /\ Return(u \o ring!Reverse(v), u, v, n)
<1>1. PICK w : w = ring!Reverse(v)
  OBVIOUS
<1>2. w = [i \in 1 .. n |-> v[(n - i) + 1]]
  BY <1>1 DEF ring!Reverse
<1>3. w \in Seq(S) /\ Len(w) = n
  <2>1. \A i \in 1 .. n : v[(n - i) + 1] \in S
    <3>1. TAKE i \in 1 .. n
    <3>2. (n - i) + 1 \in 1 .. n
      OBVIOUS
    <3>3. QED
      BY <3>2
  <2>2. QED
    BY <1>2, <2>1
<1>4. u \o w \in Seq(S)
  BY <1>3
<1>5. Len(u \o w) = n + n
  BY <1>3, JoinedLength
<1>6. \A j \in 1 .. n : (u \o w)[j] = u[j]
  BY <1>3
<1>7. \A j \in 1 .. n : (u \o w)[n + j] = w[j]
  BY <1>3
<1>8. \A j \in 1 .. n : w[j] = v[n + 1 - j]
  <2>1. TAKE j \in 1 .. n
  <2>2. (n - j) + 1 = n + 1 - j
    OBVIOUS
  <2>3. QED
    BY <1>2, <2>2
<1>9. QED
  BY <1>1, <1>4, <1>5, <1>6, <1>7, <1>8, Zenon DEF Return

(* The place of a tile in the order: W lines of n tiles and one beside     *)
(* them on the way back.                                                   *)
Along(W, n, a, b) ==
  IF b = 0 THEN W * n + (W - 1 - a)
  ELSE a * n + (IF a % 2 = 0 THEN b - 1 ELSE n - b)

(* Line a lies within the W lines.                                         *)
LEMMA WithinLines ==
  ASSUME NEW W \in Nat, NEW n \in Nat, NEW a \in 0 .. W - 1
  PROVE  a * n \in Nat /\ W * n \in Nat /\ a * n + n <= W * n
<1>1. a \in Nat /\ a + 1 \in Nat /\ a + 1 <= W
  OBVIOUS
<1>2. a * n \in Nat /\ (a + 1) * n = a * n + n
  <2>1. (a + 1) - 1 = a /\ a + 1 \in Nat \ {0}
    BY <1>1
  <2>2. QED
    BY <1>1, <2>1, OneMore
<1>3. (a + 1) * n <= W * n /\ W * n \in Nat
  BY <1>1, TimesMonotone
<1>4. QED
  BY <1>2, <1>3

(* An order with every tile at its place.                                  *)
GoesAlong(o, cell, W, n) ==
  \A a \in 0 .. W - 1, b \in 0 .. n : o[Along(W, n, a, b) + 1] = cell[a][b]

(* The lines and then e backwards is one.                                  *)
LEMMA LinesAndBack ==
  ASSUME NEW S, NEW W \in Nat, NEW n \in Nat \ {0}, NEW cell, NEW F \in Seq(S), Len(F) = W * n,
         NEW e \in Seq(S), Len(e) = W, InLines(F, cell, W, n),
         \A a \in 0 .. W - 1 : e[a + 1] = cell[a][0]
  PROVE  GoesAlong(F \o ring!Reverse(e), cell, W, n)
<1>1. PICK w : w = ring!Reverse(e)
  OBVIOUS
<1>2. w = [i \in 1 .. W |-> e[(W - i) + 1]]
  BY <1>1 DEF ring!Reverse
<1>3. w \in Seq(S) /\ Len(w) = W
  <2>1. \A i \in 1 .. W : e[(W - i) + 1] \in S
    <3>1. TAKE i \in 1 .. W
    <3>2. (W - i) + 1 \in 1 .. W
      OBVIOUS
    <3>3. QED
      BY <3>2
  <2>2. QED
    BY <1>2, <2>1
<1>4. PICK wn : wn = W * n
  OBVIOUS
<1>5. wn \in Nat /\ Len(F) = wn
  BY <1>4
<1>6. \A i \in 1 .. wn : (F \o w)[i] = F[i]
  BY <1>3, <1>5
<1>7. \A i \in 1 .. W : (F \o w)[wn + i] = w[i]
  BY <1>3, <1>5, JoinedSecond
<1>8. ASSUME NEW a \in 0 .. W - 1
      PROVE  (F \o w)[Along(W, n, a, 0) + 1] = cell[a][0]
  <2>1. PICK i : i = W - a
    OBVIOUS
  <2>2. i \in 1 .. W /\ (W - i) + 1 = a + 1
    BY <2>1
  <2>3. (F \o w)[wn + i] = e[a + 1]
    BY <1>2, <1>7, <2>2
  <2>4. Along(W, n, a, 0) + 1 = wn + i
    BY <1>4, <1>5, <2>1 DEF Along
  <2>5. QED
    BY <2>3, <2>4
<1>9. ASSUME NEW a \in 0 .. W - 1, NEW b \in 1 .. n
      PROVE  (F \o w)[Along(W, n, a, b) + 1] = cell[a][b]
  <2>1. PICK j : j = IF a % 2 = 0 THEN b ELSE n + 1 - b
    OBVIOUS
  <2>2. j \in 1 .. n
    BY <2>1
  <2>3. PICK z : z = a * n
    OBVIOUS
  <2>4. z \in Nat /\ z + n <= wn
    BY <1>4, <2>3, WithinLines
  <2>5. z + j \in 1 .. wn
    BY <1>5, <2>2, <2>4
  <2>6. F[z + j] = cell[a][b]
    BY <2>1, <2>3, Zenon DEF InLines
  <2>7. Along(W, n, a, b) + 1 = z + j
    <3>1. b # 0
      OBVIOUS
    <3>2. Along(W, n, a, b) = z + (IF a % 2 = 0 THEN b - 1 ELSE n - b)
      BY <2>3, <3>1, Zenon DEF Along
    <3>3. QED
      BY <2>1, <2>4, <3>2
  <2>8. QED
    BY <1>6, <2>5, <2>6, <2>7
<1>10. ASSUME NEW a \in 0 .. W - 1, NEW b \in 0 .. n
       PROVE  (F \o w)[Along(W, n, a, b) + 1] = cell[a][b]
  <2>1. b = 0 \/ b \in 1 .. n
    OBVIOUS
  <2>2. QED
    BY <1>8, <1>9, <2>1, Zenon
<1>11. QED
  BY <1>1, <1>10, Zenon DEF GoesAlong

(* The tiles of an even number of columns in their order.                  *)
LEMMA OrderByColumns ==
  ASSUME NEW h \in Nat \ {0}, NEW n \in Nat \ {0}, NEW W, W = h + h, NEW Y, Y = n + 1
  PROVE  GoesAlong(ring!order(W, Y), [a \in 0 .. W - 1 |-> [b \in 0 .. n |-> <<a, b>>]], W, n)
<1>1. PICK cell : cell = [a \in 0 .. W - 1 |-> [b \in 0 .. n |-> <<a, b>>]]
  OBVIOUS
<1>2. PICK q : q = [p \in 1 .. h |-> ring!column(2 * p - 2, n)
                                       \o ring!Reverse(ring!column(2 * p - 1, n))]
  OBVIOUS
<1>3. Len(q) = h
  BY <1>2
<1>4. ASSUME NEW p \in 1 .. h
      PROVE  /\ q[p] \in Seq(Nat \X Nat) /\ Len(q[p]) = n + n
             /\ Return(q[p], cell[2 * p - 2], cell[2 * p - 1], n)
  <2>1. PICK x, y : x = 2 * p - 2 /\ y = 2 * p - 1
    OBVIOUS
  <2>2. x \in 0 .. W - 1 /\ y \in 0 .. W - 1
    BY <2>1
  <2>3. PICK u, v : u = ring!column(x, n) /\ v = ring!column(y, n)
    OBVIOUS
  <2>4. u = [b \in 1 .. n |-> <<x, b>>] /\ v = [b \in 1 .. n |-> <<y, b>>]
    BY <2>3 DEF ring!column
  <2>5. /\ u \in Seq(Nat \X Nat) /\ Len(u) = n
        /\ v \in Seq(Nat \X Nat) /\ Len(v) = n
    BY <2>2, <2>4
  <2>6. q[p] = u \o ring!Reverse(v)
    BY <1>2, <2>1, <2>3
  <2>7. q[p] \in Seq(Nat \X Nat) /\ Len(q[p]) = n + n /\ Return(q[p], u, v, n)
    BY <2>5, <2>6, ThereAndBack
  <2>8. \A j \in 1 .. n : u[j] = cell[x][j] /\ v[j] = cell[y][j]
    BY <1>1, <2>2, <2>4
  <2>9. \A j \in 1 .. n : n + 1 - j \in 1 .. n
    OBVIOUS
  <2>10. Return(q[p], cell[x], cell[y], n)
    BY <2>7, <2>8, <2>9, Zenon DEF Return
  <2>11. QED
    BY <2>1, <2>7, <2>10, Zenon
<1>5. PICK F : F = ring!FlattenSeq(q)
  OBVIOUS
<1>6. F \in Seq(Nat \X Nat) /\ Len(F) = W * n /\ InLines(F, cell, W, n)
  <2>1. Pairs(q, Nat \X Nat, cell, h, n)
    BY <1>4, Zenon DEF Pairs
  <2>2. QED
    BY <1>3, <1>5, <2>1, PairsOfLines
<1>7. PICK e : e = [k \in 1 .. W |-> <<k - 1, 0>>]
  OBVIOUS
<1>8. /\ e \in Seq(Nat \X Nat) /\ Len(e) = W
      /\ \A a \in 0 .. W - 1 : e[a + 1] = cell[a][0]
  <2>1. e \in Seq(Nat \X Nat) /\ Len(e) = W
    BY <1>7
  <2>2. ASSUME NEW a \in 0 .. W - 1 PROVE e[a + 1] = cell[a][0]
    <3>1. a + 1 \in 1 .. W /\ (a + 1) - 1 = a /\ 0 \in 0 .. n
      OBVIOUS
    <3>2. e[a + 1] = <<a, 0>> /\ cell[a][0] = <<a, 0>>
      BY <1>1, <1>7, <3>1
    <3>3. QED
      BY <3>2
  <2>3. QED
    BY <2>1, <2>2
<1>9. ring!order(W, Y) = F \o ring!Reverse(e)
  <2>1. W # 1 /\ Y # 1 /\ W % 2 = 0 /\ W \div 2 = h /\ Y - 1 = n
    OBVIOUS
  <2>2. ring!columns(W, Y) = F
    BY <1>2, <1>5, <2>1 DEF ring!columns
  <2>3. <<W, Y>> # <<1, 2>> /\ <<W, Y>> # <<2, 1>>
    BY <2>1
  <2>4. QED
    BY <1>7, <2>1, <2>2, <2>3, Zenon DEF ring!order
<1>10. W \in Nat
  OBVIOUS
<1>11. GoesAlong(F \o ring!Reverse(e), cell, W, n)
  BY <1>6, <1>8, <1>10, LinesAndBack, Zenon
<1>12. QED
  BY <1>1, <1>9, <1>11, Zenon

(* The other meshes have an odd number of columns.                         *)
IsOdd(n) == n % 2 # 0

(* The tiles of an even number of rows in their order.                     *)
LEMMA OrderByRows ==
  ASSUME NEW h \in Nat \ {0}, NEW n \in Nat \ {0}, NEW W, W = h + h, NEW X, X = n + 1, IsOdd(X)
  PROVE  GoesAlong(ring!order(X, W), [a \in 0 .. W - 1 |-> [b \in 0 .. n |-> <<b, a>>]], W, n)
<1>1. PICK cell : cell = [a \in 0 .. W - 1 |-> [b \in 0 .. n |-> <<b, a>>]]
  OBVIOUS
<1>2. PICK q : q = [p \in 1 .. h |-> ring!row(2 * p - 2, n)
                                       \o ring!Reverse(ring!row(2 * p - 1, n))]
  OBVIOUS
<1>3. Len(q) = h
  BY <1>2
<1>4. ASSUME NEW p \in 1 .. h
      PROVE  /\ q[p] \in Seq(Nat \X Nat) /\ Len(q[p]) = n + n
             /\ Return(q[p], cell[2 * p - 2], cell[2 * p - 1], n)
  <2>1. PICK x, y : x = 2 * p - 2 /\ y = 2 * p - 1
    OBVIOUS
  <2>2. x \in 0 .. W - 1 /\ y \in 0 .. W - 1
    BY <2>1
  <2>3. PICK u, v : u = ring!row(x, n) /\ v = ring!row(y, n)
    OBVIOUS
  <2>4. u = [b \in 1 .. n |-> <<b, x>>] /\ v = [b \in 1 .. n |-> <<b, y>>]
    BY <2>3 DEF ring!row
  <2>5. /\ u \in Seq(Nat \X Nat) /\ Len(u) = n
        /\ v \in Seq(Nat \X Nat) /\ Len(v) = n
    BY <2>2, <2>4
  <2>6. q[p] = u \o ring!Reverse(v)
    BY <1>2, <2>1, <2>3
  <2>7. q[p] \in Seq(Nat \X Nat) /\ Len(q[p]) = n + n /\ Return(q[p], u, v, n)
    BY <2>5, <2>6, ThereAndBack
  <2>8. \A j \in 1 .. n : u[j] = cell[x][j] /\ v[j] = cell[y][j]
    BY <1>1, <2>2, <2>4
  <2>9. \A j \in 1 .. n : n + 1 - j \in 1 .. n
    OBVIOUS
  <2>10. Return(q[p], cell[x], cell[y], n)
    BY <2>7, <2>8, <2>9, Zenon DEF Return
  <2>11. QED
    BY <2>1, <2>7, <2>10, Zenon
<1>5. PICK F : F = ring!FlattenSeq(q)
  OBVIOUS
<1>6. F \in Seq(Nat \X Nat) /\ Len(F) = W * n /\ InLines(F, cell, W, n)
  <2>1. Pairs(q, Nat \X Nat, cell, h, n)
    BY <1>4, Zenon DEF Pairs
  <2>2. QED
    BY <1>3, <1>5, <2>1, PairsOfLines
<1>7. PICK e : e = [k \in 1 .. W |-> <<0, k - 1>>]
  OBVIOUS
<1>8. /\ e \in Seq(Nat \X Nat) /\ Len(e) = W
      /\ \A a \in 0 .. W - 1 : e[a + 1] = cell[a][0]
  <2>1. e \in Seq(Nat \X Nat) /\ Len(e) = W
    BY <1>7
  <2>2. ASSUME NEW a \in 0 .. W - 1 PROVE e[a + 1] = cell[a][0]
    <3>1. a + 1 \in 1 .. W /\ (a + 1) - 1 = a /\ 0 \in 0 .. n
      OBVIOUS
    <3>2. e[a + 1] = <<0, a>> /\ cell[a][0] = <<0, a>>
      BY <1>1, <1>7, <3>1
    <3>3. QED
      BY <3>2
  <2>3. QED
    BY <2>1, <2>2
<1>9. ring!order(X, W) = F \o ring!Reverse(e)
  <2>1. X # 1 /\ W # 1 /\ W \div 2 = h /\ X - 1 = n
    OBVIOUS
  <2> X % 2 # 0
    BY DEF IsOdd
  <2>2. ring!rows(X, W) = F
    BY <1>2, <1>5, <2>1 DEF ring!rows
  <2>3. <<X, W>> # <<1, 2>> /\ <<X, W>> # <<2, 1>>
    BY <2>1
  <2>4. QED
    BY <1>7, <2>1, <2>2, <2>3, Zenon DEF ring!order
<1>10. W \in Nat
  OBVIOUS
<1>11. GoesAlong(F \o ring!Reverse(e), cell, W, n)
  BY <1>6, <1>8, <1>10, LinesAndBack, Zenon
<1>12. QED
  BY <1>1, <1>9, <1>11, Zenon

(* The tile after a tile: along the line, over to the next line at its     *)
(* end, and back from the last.                                            *)
Onward(W, n, a, b) ==
  IF b = 0 THEN (IF a > 0 THEN <<a - 1, 0>> ELSE <<0, 1>>)
  ELSE IF a % 2 = 0 THEN (IF b < n THEN <<a, b + 1>> ELSE <<a + 1, b>>)
  ELSE IF b > 1 THEN <<a, b - 1>>
  ELSE IF a < W - 1 THEN <<a + 1, b>> ELSE <<a, 0>>

(* Next to each other in a row or a column.                                *)
Beside(s, t) ==
  <<s[1] - t[1], s[2] - t[2]>> \in {<<0, 1>>, <<0, -1>>, <<1, 0>>, <<-1, 0>>}

(* The tile at c along and d across comes after that at a and b.           *)
ComesAfter(W, n, a, b, c, d) ==
  /\ c \in 0 .. W - 1 /\ d \in 0 .. n
  /\ Along(W, n, c, d) = IF Along(W, n, a, b) + 1 = W * n + W THEN 0 ELSE Along(W, n, a, b) + 1
  /\ Beside(<<a, b>>, <<c, d>>)

(* The bounds of a place, and its value without nested differences.        *)
InRange(W, n, a, b) ==
  /\ Along(W, n, a, b) \in 0 .. (W * n + W) - 1
  /\ b # 0 => Along(W, n, a, b) < W * n
  /\ Along(W, n, a, b) = IF b = 0 THEN W * n + (W - 1 - a)
                         ELSE IF a % 2 = 0 THEN a * n + b - 1 ELSE a * n + n - b

(* The places are 0 to W * n + W - 1, those on the lines the first ones.   *)
LEMMA AlongRange ==
  ASSUME NEW W \in Nat, NEW n \in Nat \ {0}, NEW a \in 0 .. W - 1, NEW b \in 0 .. n
  PROVE  InRange(W, n, a, b)
<1>1. PICK z, wn : z = a * n /\ wn = W * n
  OBVIOUS
<1>2. z \in Nat /\ wn \in Nat /\ z + n <= wn
  BY <1>1, WithinLines
<1>3. Along(W, n, a, b) = IF b = 0 THEN wn + (W - 1 - a)
                          ELSE z + (IF a % 2 = 0 THEN b - 1 ELSE n - b)
  BY <1>1, Zenon DEF Along
<1>4. PICK p : p = Along(W, n, a, b)
  OBVIOUS
<1>5. /\ p \in 0 .. (wn + W) - 1
      /\ b # 0 => p < wn
      /\ p = IF b = 0 THEN wn + (W - 1 - a)
             ELSE IF a % 2 = 0 THEN z + b - 1 ELSE z + n - b
  BY <1>2, <1>3, <1>4
<1>6. QED
  BY <1>1, <1>4, <1>5, Zenon DEF InRange

(* It has the next place.                                                  *)
LEMMA OnwardAlong ==
  ASSUME NEW h \in Nat \ {0}, NEW W, W = h + h, NEW n \in Nat \ {0},
         NEW a \in 0 .. W - 1, NEW b \in 0 .. n
  PROVE  \E c, d : Onward(W, n, a, b) = <<c, d>> /\ ComesAfter(W, n, a, b, c, d)
<1> W \in Nat
  OBVIOUS
<1>1. PICK z, wn, p : z = a * n /\ wn = W * n /\ p = Along(W, n, a, b)
  OBVIOUS
<1>2. z \in Nat /\ wn \in Nat /\ z + n <= wn
  BY <1>1, WithinLines
<1>3. /\ p \in 0 .. (wn + W) - 1
      /\ b # 0 => p < wn
      /\ p = IF b = 0 THEN wn + (W - 1 - a)
             ELSE IF a % 2 = 0 THEN z + b - 1 ELSE z + n - b
  <2>1. InRange(W, n, a, b)
    BY AlongRange
  <2>2. QED
    BY <1>1, <2>1, Zenon DEF InRange
<1>4. CASE b = 0 /\ a > 0
  <2>1. PICK c : c = a - 1 /\ c \in 0 .. W - 1
    BY <1>4
  <2>2. Onward(W, n, a, b) = <<c, 0>>
    BY <1>4, <2>1 DEF Onward
  <2>3. Along(W, n, c, 0) = wn + (W - 1 - c)
    BY <1>1 DEF Along
  <2>4. Along(W, n, c, 0) = p + 1 /\ p + 1 # wn + W
    BY <1>2, <1>3, <1>4, <2>1, <2>3
  <2>5. Beside(<<a, b>>, <<c, 0>>)
    BY <1>4, <2>1 DEF Beside
  <2>6. QED
    BY <1>1, <2>1, <2>2, <2>4, <2>5 DEF ComesAfter
<1>5. CASE b = 0 /\ a = 0
  <2>1. Onward(W, n, a, b) = <<0, 1>>
    BY <1>5 DEF Onward
  <2>2. Along(W, n, 0, 1) = 0 * n + 0
    BY DEF Along
  <2>3. Along(W, n, 0, 1) = 0
    BY <2>2
  <2>4. p + 1 = wn + W
    BY <1>2, <1>3, <1>5
  <2>5. Beside(<<a, b>>, <<0, 1>>)
    BY <1>5 DEF Beside
  <2>6. 0 \in 0 .. W - 1 /\ 1 \in 0 .. n
    OBVIOUS
  <2>7. QED
    BY <1>1, <2>1, <2>3, <2>4, <2>5, <2>6 DEF ComesAfter
<1>6. CASE b # 0 /\ a % 2 = 0 /\ b < n
  <2>1. PICK d : d = b + 1 /\ d \in 1 .. n
    BY <1>6
  <2>2. Onward(W, n, a, b) = <<a, d>>
    BY <1>6, <2>1 DEF Onward
  <2>3. Along(W, n, a, d) = z + d - 1
    <3>1. InRange(W, n, a, d)
      BY <2>1, AlongRange
    <3>2. Along(W, n, a, d) = a * n + d - 1
      BY <3>1, <1>1, <1>6, <2>1 DEF InRange
    <3>3. QED
      BY <1>1, <3>2, Zenon
  <2>4. Along(W, n, a, d) = p + 1 /\ p + 1 # wn + W
    BY <1>2, <1>3, <1>6, <2>1, <2>3
  <2>5. Beside(<<a, b>>, <<a, d>>)
    BY <2>1 DEF Beside
  <2>6. QED
    BY <1>1, <2>1, <2>2, <2>4, <2>5 DEF ComesAfter
<1>7. CASE b # 0 /\ a % 2 = 0 /\ ~(b < n)
  <2>1. PICK c : c = a + 1 /\ c \in 0 .. W - 1 /\ c % 2 = 1 /\ b = n
    BY <1>7
  <2>2. Onward(W, n, a, b) = <<c, b>>
    BY <1>7, <2>1 DEF Onward
  <2>3. c * n = z + n
    BY <1>1, <2>1
  <2>4. Along(W, n, c, b) = c * n + n - b
    <3>1. InRange(W, n, c, b)
      BY <2>1, AlongRange
    <3>2. QED
      BY <3>1, <1>7, <2>1 DEF InRange
  <2>5. Along(W, n, c, b) = z + n
    BY <1>2, <2>1, <2>3, <2>4
  <2>6. Along(W, n, c, b) = p + 1 /\ p + 1 # wn + W
    BY <1>2, <1>3, <1>7, <2>1, <2>5
  <2>7. Beside(<<a, b>>, <<c, b>>)
    BY <2>1 DEF Beside
  <2>8. QED
    BY <1>1, <2>1, <2>2, <2>6, <2>7 DEF ComesAfter
<1>8. CASE b # 0 /\ a % 2 # 0 /\ b > 1
  <2>1. PICK d : d = b - 1 /\ d \in 1 .. n
    BY <1>8
  <2>2. Onward(W, n, a, b) = <<a, d>>
    BY <1>8, <2>1 DEF Onward
  <2>3. Along(W, n, a, d) = z + n - d
    <3>1. InRange(W, n, a, d)
      BY <2>1, AlongRange
    <3>2. Along(W, n, a, d) = a * n + n - d
      BY <3>1, <1>1, <1>8, <2>1 DEF InRange
    <3>3. QED
      BY <1>1, <3>2, Zenon
  <2>4. Along(W, n, a, d) = p + 1 /\ p + 1 # wn + W
    BY <1>2, <1>3, <1>8, <2>1, <2>3
  <2>5. Beside(<<a, b>>, <<a, d>>)
    BY <2>1 DEF Beside
  <2>6. QED
    BY <1>1, <2>1, <2>2, <2>4, <2>5 DEF ComesAfter
<1>9. CASE b # 0 /\ a % 2 # 0 /\ ~(b > 1) /\ a < W - 1
  <2>1. PICK c : c = a + 1 /\ c \in 0 .. W - 1 /\ c % 2 = 0 /\ b = 1
    BY <1>9
  <2>2. Onward(W, n, a, b) = <<c, b>>
    BY <1>9, <2>1 DEF Onward
  <2>3. c * n = z + n
    BY <1>1, <2>1
  <2>4. Along(W, n, c, b) = c * n + b - 1
    <3>1. InRange(W, n, c, b)
      BY <2>1, AlongRange
    <3>2. QED
      BY <3>1, <1>9, <2>1 DEF InRange
  <2>5. Along(W, n, c, b) = z + n
    BY <1>2, <2>1, <2>3, <2>4
  <2>6. Along(W, n, c, b) = p + 1 /\ p + 1 # wn + W
    BY <1>2, <1>3, <1>9, <2>1, <2>5
  <2>7. Beside(<<a, b>>, <<c, b>>)
    BY <2>1 DEF Beside
  <2>8. QED
    BY <1>1, <2>1, <2>2, <2>6, <2>7 DEF ComesAfter
<1>10. CASE b # 0 /\ a % 2 # 0 /\ ~(b > 1) /\ ~(a < W - 1)
  <2>1. a = W - 1 /\ b = 1
    BY <1>10
  <2>2. Onward(W, n, a, b) = <<a, 0>>
    BY <1>10 DEF Onward
  <2>3. Along(W, n, a, 0) = wn + (W - 1 - a)
    BY <1>1 DEF Along
  <2>4. wn = z + n
    BY <1>1, <2>1
  <2>5. Along(W, n, a, 0) = p + 1 /\ p + 1 # wn + W
    BY <1>2, <1>3, <1>10, <2>1, <2>3, <2>4
  <2>6. Beside(<<a, b>>, <<a, 0>>)
    BY <2>1 DEF Beside
  <2>7. QED
    BY <1>1, <2>2, <2>5, <2>6 DEF ComesAfter
<1>11. QED
  BY <1>4, <1>5, <1>6, <1>7, <1>8, <1>9, <1>10

(* The tiles of a mesh, whichever it is.                                   *)
TilesOf(X, Y) == (0 .. X - 1) \X (0 .. Y - 1)

(* Tiles have a place in the order, and the tile after each has the next.  *)
Numbered(X, Y, place, succ) ==
  /\ \A t \in TilesOf(X, Y) :
       /\ place[t] \in 0 .. X * Y - 1
       /\ succ[t] \in TilesOf(X, Y)
       /\ ring!order(X, Y)[place[t] + 1] = t
       /\ place[succ[t]] = IF place[t] + 1 = X * Y THEN 0 ELSE place[t] + 1
       /\ Beside(t, succ[t])
  /\ \E t \in TilesOf(X, Y) : place[t] = 0

(* Columns in pairs do so,                                                 *)
LEMMA NumberedColumns ==
  ASSUME NEW h \in Nat \ {0}, NEW n \in Nat \ {0}, NEW W, W = h + h, NEW Y, Y = n + 1
  PROVE  \E place, succ : Numbered(W, Y, place, succ)
<1> W \in Nat
  OBVIOUS
<1>1. PICK cell : cell = [a \in 0 .. W - 1 |-> [b \in 0 .. n |-> <<a, b>>]]
  OBVIOUS
<1>2. GoesAlong(ring!order(W, Y), cell, W, n)
  BY <1>1, OrderByColumns
<1>3. PICK place, succ :
        /\ place = [t \in TilesOf(W, Y) |-> Along(W, n, t[1], t[2])]
        /\ succ = [t \in TilesOf(W, Y) |-> Onward(W, n, t[1], t[2])]
  OBVIOUS
<1>4. PICK c : c = W * Y
  OBVIOUS
<1>5. W * n + W = c
  BY <1>4
<1>6. \A t : t \in TilesOf(W, Y) <=> \E a \in 0 .. W - 1, b \in 0 .. n : t = <<a, b>>
  BY DEF TilesOf
<1>7. ASSUME NEW t \in TilesOf(W, Y)
      PROVE  /\ place[t] \in 0 .. c - 1
             /\ succ[t] \in TilesOf(W, Y)
             /\ ring!order(W, Y)[place[t] + 1] = t
             /\ place[succ[t]] = IF place[t] + 1 = c THEN 0 ELSE place[t] + 1
             /\ Beside(t, succ[t])
  <2>1. PICK a \in 0 .. W - 1, b \in 0 .. n : t = <<a, b>>
    BY <1>6
  <2>2. place[t] = Along(W, n, a, b) /\ succ[t] = Onward(W, n, a, b)
    BY <1>3, <2>1
  <2>3. place[t] \in 0 .. c - 1
    <3>1. InRange(W, n, a, b)
      BY AlongRange
    <3>2. QED
      BY <1>5, <2>2, <3>1, Zenon DEF InRange
  <2>4. ring!order(W, Y)[place[t] + 1] = t
    <3>1. ring!order(W, Y)[place[t] + 1] = cell[a][b]
      BY <1>2, <2>2, Zenon DEF GoesAlong
    <3>2. cell[a][b] = <<a, b>>
      BY <1>1
    <3>3. QED
      BY <2>1, <3>1, <3>2, Zenon
  <2>5. PICK x, y : succ[t] = <<x, y>> /\ ComesAfter(W, n, a, b, x, y)
    BY <2>2, OnwardAlong
  <2>6. /\ x \in 0 .. W - 1 /\ y \in 0 .. n
        /\ Along(W, n, x, y) = IF place[t] + 1 = c THEN 0 ELSE place[t] + 1
        /\ Beside(t, succ[t])
    BY <1>5, <2>1, <2>2, <2>5, Zenon DEF ComesAfter
  <2>7. succ[t] \in TilesOf(W, Y)
    BY <1>6, <2>5, <2>6
  <2>8. place[succ[t]] = Along(W, n, x, y)
    BY <1>3, <2>5, <2>7
  <2>9. QED
    BY <2>3, <2>4, <2>6, <2>7, <2>8, Zenon
<1>8. PICK t : t = <<0, 1>>
  OBVIOUS
<1>9. t \in TilesOf(W, Y) /\ place[t] = 0
  <2>1. t \in TilesOf(W, Y)
    BY <1>8 DEF TilesOf
  <2>2. place[t] = Along(W, n, 0, 1)
    BY <1>3, <1>8, <2>1
  <2>3. Along(W, n, 0, 1) = 0 * n + 0
    BY DEF Along
  <2>4. QED
    BY <2>1, <2>2, <2>3
<1>10. Numbered(W, Y, place, succ)
  BY <1>4, <1>7, <1>9, Zenon DEF Numbered
<1>11. QED
  BY <1>10

(* and rows in pairs,                                                      *)
LEMMA NumberedRows ==
  ASSUME NEW h \in Nat \ {0}, NEW n \in Nat \ {0}, NEW W, W = h + h, NEW X, X = n + 1, IsOdd(X)
  PROVE  \E place, succ : Numbered(X, W, place, succ)
<1> W \in Nat
  OBVIOUS
<1>1. PICK cell : cell = [a \in 0 .. W - 1 |-> [b \in 0 .. n |-> <<b, a>>]]
  OBVIOUS
<1>2. GoesAlong(ring!order(X, W), cell, W, n)
  BY <1>1, OrderByRows
<1>3. PICK place, succ :
        /\ place = [t \in TilesOf(X, W) |-> Along(W, n, t[2], t[1])]
        /\ succ = [t \in TilesOf(X, W) |-> <<Onward(W, n, t[2], t[1])[2], Onward(W, n, t[2], t[1])[1]>>]
  OBVIOUS
<1>4. PICK c : c = X * W
  OBVIOUS
<1>5. W * n + W = c
  BY <1>4
<1>6. \A t : t \in TilesOf(X, W) <=> \E a \in 0 .. W - 1, b \in 0 .. n : t = <<b, a>>
  BY DEF TilesOf
<1>7. ASSUME NEW t \in TilesOf(X, W)
      PROVE  /\ place[t] \in 0 .. c - 1
             /\ succ[t] \in TilesOf(X, W)
             /\ ring!order(X, W)[place[t] + 1] = t
             /\ place[succ[t]] = IF place[t] + 1 = c THEN 0 ELSE place[t] + 1
             /\ Beside(t, succ[t])
  <2>1. PICK a \in 0 .. W - 1, b \in 0 .. n : t = <<b, a>>
    BY <1>6
  <2>2. place[t] = Along(W, n, a, b) /\ succ[t] = <<Onward(W, n, a, b)[2], Onward(W, n, a, b)[1]>>
    BY <1>3, <2>1
  <2>3. place[t] \in 0 .. c - 1
    <3>1. InRange(W, n, a, b)
      BY AlongRange
    <3>2. QED
      BY <1>5, <2>2, <3>1, Zenon DEF InRange
  <2>4. ring!order(X, W)[place[t] + 1] = t
    <3>1. ring!order(X, W)[place[t] + 1] = cell[a][b]
      BY <1>2, <2>2, Zenon DEF GoesAlong
    <3>2. cell[a][b] = <<b, a>>
      BY <1>1
    <3>3. QED
      BY <2>1, <3>1, <3>2, Zenon
  <2>5. PICK x, y : succ[t] = <<y, x>> /\ ComesAfter(W, n, a, b, x, y)
    <3>1. PICK x, y : Onward(W, n, a, b) = <<x, y>> /\ ComesAfter(W, n, a, b, x, y)
      BY OnwardAlong
    <3>2. succ[t] = <<y, x>>
      BY <2>2, <3>1
    <3>3. QED
      BY <3>1, <3>2
  <2>6. /\ x \in 0 .. W - 1 /\ y \in 0 .. n
        /\ Along(W, n, x, y) = IF place[t] + 1 = c THEN 0 ELSE place[t] + 1
        /\ Beside(t, succ[t])
    <3>1. /\ x \in 0 .. W - 1 /\ y \in 0 .. n
          /\ Along(W, n, x, y) = IF place[t] + 1 = c THEN 0 ELSE place[t] + 1
          /\ Beside(<<a, b>>, <<x, y>>)
      BY <1>5, <2>2, <2>5, Zenon DEF ComesAfter
    <3>2. Beside(<<b, a>>, <<y, x>>)
      BY <3>1 DEF Beside
    <3>3. QED
      BY <2>1, <2>5, <3>1, <3>2, Zenon
  <2>7. succ[t] \in TilesOf(X, W)
    BY <1>6, <2>5, <2>6
  <2>8. place[succ[t]] = Along(W, n, x, y)
    BY <1>3, <2>5, <2>7
  <2>9. QED
    BY <2>3, <2>4, <2>6, <2>7, <2>8, Zenon
<1>8. PICK t : t = <<1, 0>>
  OBVIOUS
<1>9. t \in TilesOf(X, W) /\ place[t] = 0
  <2>1. t \in TilesOf(X, W)
    BY <1>8 DEF TilesOf
  <2>2. place[t] = Along(W, n, 0, 1)
    BY <1>3, <1>8, <2>1
  <2>3. Along(W, n, 0, 1) = 0 * n + 0
    BY DEF Along
  <2>4. QED
    BY <2>1, <2>2, <2>3
<1>10. Numbered(X, W, place, succ)
  BY <1>4, <1>7, <1>9, Zenon DEF Numbered
<1>11. QED
  BY <1>10

(* and the two meshes of two tiles.                                        *)
LEMMA NumberedPair ==
  /\ \E place, succ : Numbered(1, 2, place, succ)
  /\ \E place, succ : Numbered(2, 1, place, succ)
<1>1. PICK p, s : /\ p = [t \in TilesOf(1, 2) |-> t[2]]
                  /\ s = [t \in TilesOf(1, 2) |-> <<0, 1 - t[2]>>]
  OBVIOUS
<1>2. TilesOf(1, 2) = {<<0, 0>>, <<0, 1>>}
  BY DEF TilesOf
<1>3. ring!order(1, 2) = << <<0, 0>>, <<0, 1>> >>
  BY DEF ring!order
<1>4. /\ p[<<0, 0>>] = 0 /\ p[<<0, 1>>] = 1
      /\ s[<<0, 0>>] = <<0, 1>> /\ s[<<0, 1>>] = <<0, 0>>
  <2>1. \A t \in TilesOf(1, 2) : p[t] = t[2] /\ s[t] = <<0, 1 - t[2]>>
    BY <1>1
  <2>2. <<0, 0>> \in TilesOf(1, 2) /\ <<0, 1>> \in TilesOf(1, 2)
    BY <1>2
  <2>3. p[<<0, 0>>] = 0 /\ p[<<0, 1>>] = 1 /\ s[<<0, 0>>] = <<0, 1 - 0>> /\ s[<<0, 1>>] = <<0, 1 - 1>>
    BY <2>1, <2>2
  <2>4. QED
    BY <2>3
<1>5. Numbered(1, 2, p, s)
  BY <1>2, <1>3, <1>4 DEF Numbered, Beside
<1>6. PICK q, r : /\ q = [t \in TilesOf(2, 1) |-> t[1]]
                  /\ r = [t \in TilesOf(2, 1) |-> <<1 - t[1], 0>>]
  OBVIOUS
<1>7. TilesOf(2, 1) = {<<0, 0>>, <<1, 0>>}
  BY DEF TilesOf
<1>8. ring!order(2, 1) = << <<0, 0>>, <<1, 0>> >>
  BY DEF ring!order
<1>9. /\ q[<<0, 0>>] = 0 /\ q[<<1, 0>>] = 1
      /\ r[<<0, 0>>] = <<1, 0>> /\ r[<<1, 0>>] = <<0, 0>>
  <2>1. \A t \in TilesOf(2, 1) : q[t] = t[1] /\ r[t] = <<1 - t[1], 0>>
    BY <1>6
  <2>2. <<0, 0>> \in TilesOf(2, 1) /\ <<1, 0>> \in TilesOf(2, 1)
    BY <1>7
  <2>3. q[<<0, 0>>] = 0 /\ q[<<1, 0>>] = 1 /\ r[<<0, 0>>] = <<1 - 0, 0>> /\ r[<<1, 0>>] = <<1 - 1, 0>>
    BY <2>1, <2>2
  <2>4. QED
    BY <2>3
<1>10. Numbered(2, 1, q, r)
  BY <1>7, <1>8, <1>9 DEF Numbered, Beside
<1>11. QED
  BY <1>5, <1>10

(* Every size that the script is run for.                                  *)
LEMMA EveryMeshNumbered ==
  ASSUME topX \in Nat, topY \in Nat, NEW size \in ring!Sizes
  PROVE  /\ size[1] \in Nat \ {0} /\ size[2] \in Nat \ {0}
         /\ \E place, succ : Numbered(size[1], size[2], place, succ)
<1>1. CASE size \in {<<1, 2>>, <<2, 1>>}
  BY <1>1, NumberedPair
<1>2. CASE ~(size \in {<<1, 2>>, <<2, 1>>})
  <2>1. PICK X, Y : X = size[1] /\ Y = size[2]
    OBVIOUS
  <2>2. X \in 2 .. topX /\ Y \in 2 .. topY /\ (X % 2 = 0 \/ Y % 2 = 0)
    BY <1>2, <2>1 DEF ring!Sizes
  <2>3. \A k \in Nat : k >= 2 /\ k % 2 = 0 => \E h \in Nat \ {0} : k = h + h
    <3>1. SUFFICES ASSUME NEW k \in Nat, k >= 2, k % 2 = 0
                   PROVE  \E h \in Nat \ {0} : k = h + h
      OBVIOUS
    <3>2. k \div 2 \in Nat \ {0} /\ k = (k \div 2) + (k \div 2)
      BY <3>1
    <3>3. QED
      BY <3>2
  <2>4. X \in Nat /\ Y \in Nat /\ X >= 2 /\ Y >= 2
    BY <2>2
  <2>5. PICK m, n : m = X - 1 /\ n = Y - 1
    OBVIOUS
  <2>6. m \in Nat \ {0} /\ n \in Nat \ {0} /\ X = m + 1 /\ Y = n + 1
    BY <2>4, <2>5
  <2>7. CASE X % 2 = 0
    <3>1. PICK h \in Nat \ {0} : X = h + h
      BY <2>3, <2>4, <2>7
    <3>2. \E place, succ : Numbered(X, Y, place, succ)
      BY <2>6, <3>1, NumberedColumns
    <3>3. QED
      BY <2>1, <2>4, <3>2
  <2>8. CASE X % 2 # 0
    <3>1. IsOdd(X) /\ Y % 2 = 0
      BY <2>2, <2>8 DEF IsOdd
    <3>2. PICK h \in Nat \ {0} : Y = h + h
      BY <2>3, <2>4, <3>1
    <3>3. \E place, succ : Numbered(X, Y, place, succ)
      BY <2>6, <3>1, <3>2, NumberedRows
    <3>4. QED
      BY <2>1, <2>4, <3>3
  <2>9. QED
    BY <2>7, <2>8
<1>3. QED
  BY <1>1, <1>2

(* Every place is a tile's: from the tile at 0 on, one after another.      *)
LEMMA EveryPlaceTaken ==
  ASSUME NEW X \in Nat \ {0}, NEW Y \in Nat \ {0}, NEW place, NEW succ,
         Numbered(X, Y, place, succ)
  PROVE  \A k \in 0 .. X * Y - 1 : \E t \in TilesOf(X, Y) : place[t] = k
<1>1. PICK c : c = X * Y
  OBVIOUS
<1>2. c \in Nat
  BY <1>1
<1>3. /\ \E t \in TilesOf(X, Y) : place[t] = 0
      /\ \A t \in TilesOf(X, Y) :
           succ[t] \in TilesOf(X, Y)
             /\ place[succ[t]] = IF place[t] + 1 = c THEN 0 ELSE place[t] + 1
  BY <1>1, Zenon DEF Numbered
<1> DEFINE T == {k \in 0 .. c - 1 : ~\E t \in TilesOf(X, Y) : place[t] = k}
<1>4. T = {}
  <2> SUFFICES ASSUME T # {} PROVE FALSE
    OBVIOUS
  <2>1. T \subseteq Nat
    OBVIOUS
  <2>2. PICK k \in T : \A j \in T : k <= j
    <3> HIDE DEF T
    <3> QED
      BY <2>1, Least
  <2>3. k # 0 /\ k \in 0 .. c - 1
    BY <1>3
  <2>4. k - 1 \in 0 .. c - 1 /\ ~(k <= k - 1)
    BY <1>2, <2>3
  <2>5. PICK t \in TilesOf(X, Y) : place[t] = k - 1
    BY <2>2, <2>4
  <2>6. place[succ[t]] = k /\ succ[t] \in TilesOf(X, Y)
    BY <1>2, <1>3, <2>3, <2>5
  <2>7. QED
    BY <2>6
<1>5. QED
  BY <1>1, <1>4

(* So the script finds for a tile the place that it has.                   *)
LEMMA PlaceFound ==
  ASSUME NEW X \in Nat \ {0}, NEW Y \in Nat \ {0}, NEW place, NEW succ,
         Numbered(X, Y, place, succ), NEW t \in TilesOf(X, Y)
  PROVE  (CHOOSE k \in 1 .. X * Y : ring!order(X, Y)[k] = t) = place[t] + 1
<1>1. PICK c, o : c = X * Y /\ o = ring!order(X, Y)
  OBVIOUS
<1>2. c \in Nat
  BY <1>1
<1>3. \A s \in TilesOf(X, Y) : place[s] \in 0 .. c - 1 /\ o[place[s] + 1] = s
  BY <1>1, Zenon DEF Numbered
<1>4. \A k \in 0 .. c - 1 : \E s \in TilesOf(X, Y) : place[s] = k
  BY <1>1, EveryPlaceTaken
<1>5. place[t] + 1 \in 1 .. c /\ o[place[t] + 1] = t
  BY <1>2, <1>3
<1>6. ASSUME NEW k \in 1 .. c, o[k] = t PROVE k = place[t] + 1
  <2>1. PICK j : j = k - 1 /\ j \in 0 .. c - 1 /\ k = j + 1
    BY <1>2
  <2>2. PICK s \in TilesOf(X, Y) : place[s] = j
    BY <1>4, <2>1
  <2>3. o[k] = s
    BY <1>3, <2>1, <2>2
  <2>4. QED
    BY <1>6, <2>1, <2>2, <2>3
<1>7. PICK k : k = CHOOSE i \in 1 .. c : o[i] = t
  OBVIOUS
<1>8. k \in 1 .. c /\ o[k] = t
  BY <1>5, <1>7
<1>9. QED
  BY <1>1, <1>6, <1>7, <1>8

-----------------------------------------------------------------------------
(* The wires: a tile's data go to the one with the next place.             *)
WellWired(t) ==
  /\ ring!matrix(t) \in 0 .. ring!Count - 1
  /\ ring!fwd_data_in_o(t) \in ring!Tiles
  /\ ring!matrix(ring!fwd_data_in_o(t)) = ring!above(ring!matrix(t))
  /\ ring!my_dict(ring!matrix(t)) = t
  /\ ring!back_data_in_o(ring!fwd_data_in_o(t)) = t
  /\ ring!Neighbours(t, ring!fwd_data_in_o(t))

(* Every tile of every mesh is well wired.                                 *)
LEMMA EveryTileWired ==
  ASSUME topX \in Nat, topY \in Nat, mesh \in ring!Sizes
  PROVE  ring!Count \in Nat \ {0} /\ \A t \in ring!Tiles : WellWired(t)
<1>1. PICK X, Y : X = mesh[1] /\ Y = mesh[2]
  OBVIOUS
<1>2. X \in Nat \ {0} /\ Y \in Nat \ {0}
  BY <1>1, EveryMeshNumbered
<1>3. PICK place, succ : Numbered(X, Y, place, succ)
  BY <1>1, EveryMeshNumbered
<1>4. PICK c, o : c = X * Y /\ o = ring!order(X, Y)
  OBVIOUS
<1>5. c \in Nat \ {0}
  BY <1>2, <1>4
<1>6. ring!Count = c /\ ring!Tiles = TilesOf(X, Y)
  BY <1>1, <1>4, Zenon DEF ring!Count, ring!Tiles, TilesOf
<1>7. ASSUME NEW t \in TilesOf(X, Y) PROVE ring!matrix(t) = place[t] /\ place[t] \in 0 .. c - 1
  <2>1. (CHOOSE k \in 1 .. c : o[k] = t) = place[t] + 1
    BY <1>2, <1>3, <1>4, PlaceFound
  <2>2. place[t] \in 0 .. c - 1
    BY <1>3, <1>4, Zenon DEF Numbered
  <2>3. ring!matrix(t) = (CHOOSE k \in 1 .. c : o[k] = t) - 1
    BY <1>1, <1>4, <1>6, Zenon DEF ring!matrix
  <2>4. PICK a, p : a = (CHOOSE k \in 1 .. c : o[k] = t) /\ p = place[t]
    OBVIOUS
  <2>5. a = p + 1 /\ p \in 0 .. c - 1 /\ ring!matrix(t) = a - 1
    BY <2>1, <2>2, <2>3, <2>4, Zenon
  <2>6. ring!matrix(t) = p
    BY <1>5, <2>5
  <2>7. QED
    BY <2>4, <2>5, <2>6
<1>8. \A k : ring!my_dict(k) = o[k + 1]
  BY <1>1, <1>4, Zenon DEF ring!my_dict
<1>9. ASSUME NEW t \in TilesOf(X, Y) PROVE WellWired(t)
  <2>1. PICK p, s : p = place[t] /\ s = succ[t]
    OBVIOUS
  <2>2. /\ s \in TilesOf(X, Y) /\ o[p + 1] = t /\ Beside(t, s) /\ o[place[s] + 1] = s
        /\ place[s] = IF p + 1 = c THEN 0 ELSE p + 1
    BY <1>3, <1>4, <2>1, Zenon DEF Numbered
  <2>3. p \in 0 .. c - 1 /\ ring!matrix(t) = p /\ ring!matrix(s) = place[s]
    BY <1>7, <2>1, <2>2
  <2>4. ring!above(p) = place[s]
    BY <1>6, <2>2, Zenon DEF ring!above
  <2>5. ring!fwd_data_in_o(t) = s
    BY <1>8, <2>2, <2>3, <2>4, Zenon DEF ring!fwd_data_in_o
  <2>6. ring!below(place[s]) = p
    BY <1>5, <1>6, <2>2, <2>3 DEF ring!below
  <2>7. ring!back_data_in_o(s) = t
    BY <1>8, <2>2, <2>3, <2>6, Zenon DEF ring!back_data_in_o
  <2>8. ring!Neighbours(t, s)
    BY <2>2, Zenon DEF Beside, ring!Neighbours
  <2>9. QED
    BY <1>6, <1>8, <2>2, <2>3, <2>4, <2>5, <2>7, <2>8, Zenon DEF WellWired
<1>10. QED
  BY <1>5, <1>6, <1>9, Zenon

(* The bit is where its steps have taken it.                               *)
RingInv ==
  /\ mesh \in ring!Sizes
  /\ first \in ring!Tiles /\ tile \in ring!Tiles
  /\ steps \in 0 .. ring!Count
  /\ ring!matrix(tile) = IF ring!matrix(first) + steps < ring!Count
                         THEN ring!matrix(first) + steps
                         ELSE ring!matrix(first) + steps - ring!Count

(* It sets out from where it is.                                           *)
LEMMA RingStart ==
  ASSUME topX \in Nat, topY \in Nat, mesh \in ring!Sizes,
         first \in {<<0, 0>>, <<mesh[1] - 1, mesh[2] - 1>>}, tile = first, steps = 0
  PROVE  RingInv
<1>1. mesh[1] \in Nat \ {0} /\ mesh[2] \in Nat \ {0}
  BY EveryMeshNumbered
<1>2. first \in ring!Tiles
  <2>1. PICK X, Y : X = mesh[1] /\ Y = mesh[2]
    OBVIOUS
  <2>2. first \in (0 .. X - 1) \X (0 .. Y - 1)
    BY <1>1, <2>1
  <2>3. QED
    BY <2>1, <2>2 DEF ring!Tiles
<1>3. PICK c, p : c = ring!Count /\ p = ring!matrix(first)
  OBVIOUS
<1>4. c \in Nat \ {0} /\ p \in 0 .. c - 1
  BY <1>2, <1>3, EveryTileWired, Zenon DEF WellWired
<1>5. p = IF p + 0 < c THEN p + 0 ELSE p + 0 - c
  BY <1>4
<1>6. 0 \in 0 .. c
  BY <1>4
<1>7. QED
  BY <1>2, <1>3, <1>5, <1>6, Zenon DEF RingInv

(* Each step takes it one place on.                                        *)
LEMMA RingStep ==
  ASSUME topX \in Nat, topY \in Nat, RingInv, [ring!Next]_(ring!vars)
  PROVE  RingInv'
<1>1. CASE UNCHANGED ring!vars
  BY <1>1 DEF RingInv, ring!vars, ring!Tiles, ring!Count, ring!matrix
<1>2. CASE ring!Next
  <2>1. /\ steps < ring!Count /\ tile' = ring!fwd_data_in_o(tile) /\ steps' = steps + 1
        /\ mesh' = mesh /\ first' = first
    BY <1>2 DEF ring!Next, ring!Clk
  <2>2. /\ mesh \in ring!Sizes /\ first \in ring!Tiles /\ tile \in ring!Tiles
        /\ WellWired(tile) /\ WellWired(first)
    BY EveryTileWired, Zenon DEF RingInv
  <2>3. PICK c, p, q, k : /\ c = ring!Count /\ p = ring!matrix(first)
                          /\ q = ring!matrix(tile) /\ k = steps
    OBVIOUS
  <2>4. c \in Nat \ {0} /\ p \in 0 .. c - 1 /\ q \in 0 .. c - 1 /\ k \in 0 .. c
    BY <2>2, <2>3, EveryTileWired, Zenon DEF RingInv, WellWired
  <2>5. q = (IF p + k < c THEN p + k ELSE p + k - c) /\ k < c
    BY <2>1, <2>3, Zenon DEF RingInv
  <2>6. PICK t, r : t = tile' /\ r = ring!matrix(t)
    OBVIOUS
  <2>7. t \in ring!Tiles /\ r = ring!above(q)
    BY <2>1, <2>2, <2>3, <2>6, Zenon DEF WellWired
  <2>8. r = IF q + 1 = c THEN 0 ELSE q + 1
    BY <2>3, <2>7, Zenon DEF ring!above
  <2>9. r = (IF p + (k + 1) < c THEN p + (k + 1) ELSE p + (k + 1) - c) /\ k + 1 \in 0 .. c
    BY <2>4, <2>5, <2>8
  <2>10. /\ ring!Count' = ring!Count /\ ring!Tiles' = ring!Tiles
         /\ ring!matrix(first)' = ring!matrix(first)
         /\ ring!matrix(tile)' = ring!matrix(t)
         /\ ring!Sizes' = ring!Sizes
    BY <2>1, <2>6 DEF ring!Count, ring!Tiles, ring!matrix, ring!Sizes
  <2>11. QED
    BY <2>1, <2>2, <2>3, <2>6, <2>7, <2>9, <2>10, Zenon DEF RingInv
<1>3. QED
  BY <1>1, <1>2

(* Only after no step or after all of them is it where it set out.         *)
LEMMA RingInvCloses ==
  ASSUME topX \in Nat, topY \in Nat, RingInv
  PROVE  ring!RingIsClosed
<1>1. WellWired(tile) /\ WellWired(first) /\ ring!Count \in Nat \ {0}
  BY EveryTileWired, Zenon DEF RingInv
<1>2. PICK c, p, q, k : /\ c = ring!Count /\ p = ring!matrix(first)
                        /\ q = ring!matrix(tile) /\ k = steps
  OBVIOUS
<1>3. c \in Nat \ {0} /\ p \in 0 .. c - 1 /\ q \in 0 .. c - 1 /\ k \in 0 .. c
  BY <1>1, <1>2, Zenon DEF RingInv, WellWired
<1>4. q = IF p + k < c THEN p + k ELSE p + k - c
  BY <1>2, Zenon DEF RingInv
<1>5. p = q <=> k \in {0, c}
  BY <1>3, <1>4
<1>6. p = q <=> tile = first
  <2>1. ring!my_dict(q) = tile /\ ring!my_dict(p) = first
    BY <1>1, <1>2, Zenon DEF WellWired
  <2>2. QED
    BY <1>2, <2>1, Zenon
<1>7. tile = first <=> steps \in {0, ring!Count}
  BY <1>2, <1>5, <1>6, Zenon
<1>8. QED
  BY <1>1, <1>7, Zenon DEF WellWired, ring!RingIsClosed

(* The ring of every mesh that the script is run for, of whatever size,    *)
(* goes through every tile once, between neighbours, and comes back.       *)
THEOREM EveryRingIsClosed ==
  ASSUME topX \in Nat, topY \in Nat
  PROVE  ring!Spec => []ring!RingIsClosed
<1>1. ring!Init => RingInv
  BY RingStart, Zenon DEF ring!Init
<1>2. QED
  BY <1>1, RingStep, RingInvCloses, PTL DEF ring!Spec

(* And so in the run, whatever the ring stands among.                      *)
THEOREM RingComesRound == GeneratedSpec => []RingIsClosed
<1>1. ASSUME GeneratedInit PROVE RingInv
  <2>1. CASE unit = "ring"
    BY <1>1, <2>1, TopAssumption, RingStart, Zenon DEF GeneratedInit, ring!Init
  <2>2. CASE unit # "ring"
    <3>1. mesh = <<1, 2>> /\ tile = <<0, 0>> /\ first = tile /\ steps = 0
      BY <1>1, <2>2 DEF GeneratedInit, NoRing
    <3>2. mesh \in ring!Sizes
      BY <3>1 DEF ring!Sizes
    <3>3. QED
      BY <3>1, <3>2, TopAssumption, RingStart
  <2>3. QED
    BY <2>1, <2>2
<1>2. ASSUME RingInv, [GeneratedNext]_all PROVE RingInv'
  <2>1. [ring!Next]_(ring!vars)
    BY <1>2 DEF GeneratedNext, all, stitch, ring!vars, Arbitrate, OnlyTwo, OnlyStorage,
                OnlyProduct, OnlySwitch
  <2>2. QED
    BY <1>2, <2>1, RingStep, TopAssumption
<1>3. RingInv => RingIsClosed
  BY RingInvCloses, TopAssumption DEF RingIsClosed
<1>4. QED
  BY <1>1, <1>2, <1>3, PTL DEF GeneratedSpec
-----------------------------------------------------------------------------
(* The storage written as cells, for every array a script can write.       *)
HIDE InputsAssumption DEF two!Items

(* The cells of a register file are of the kinds its script takes them     *)
(* for, in every process.                                                  *)
RfCells(cells) ==
  /\ cells.aoi22 \in AndOrInverts
  /\ cells.nand4 \in Nands /\ cells.nand2 \in Nands
  /\ cells.nor2 \in Nors
  /\ cells.inv \in Inverters /\ cells.invx3 \in Inverters

LEMMA EveryRfCell ==
  ASSUME NEW f \in Fabs
  PROVE  RfCells(rf_cells[f])
<1>1. CASE f = "gf_14"
  BY <1>1 DEF rf_cells, gf_14_rf, RfCells, AndOrInverts, Nands, Nors, Inverters
<1>2. CASE f = "tsmc_40"
  BY <1>2 DEF rf_cells, tsmc_40_rf, RfCells, AndOrInverts, Nands, Nors, Inverters
<1>3. CASE f = "tsmc_250"
  BY <1>3 DEF rf_cells, tsmc_250_rf, RfCells, AndOrInverts, Nands, Nors, Inverters
<1>4. QED
  BY <1>1, <1>2, <1>3 DEF Fabs

(* The gates of a register file, on bits.                                  *)
LEMMA Inverts ==
  ASSUME NEW c \in Inverters, NEW a \in Bit
  PROVE  Gate(c, <<a>>) = 1 - a
<1>1. Gate(c, <<a>>) = IF <<a>> \in AllOnes THEN 0 ELSE 1
  BY InvGate
<1>2. <<a>> \in AllOnes <=> a = 1
  BY OnePin
<1>3. QED
  BY <1>1, <1>2 DEF Bit

LEMMA Nand2 ==
  ASSUME NEW c \in Nands, NEW a, NEW b
  PROVE  Gate(c, <<a, b>>) = IF a = 1 /\ b = 1 THEN 0 ELSE 1
<1>1. Gate(c, <<a, b>>) = IF <<a, b>> \in AllOnes THEN 0 ELSE 1
  BY NandGate
<1>2. QED
  BY <1>1, TwoPins

LEMMA Nand3 ==
  ASSUME NEW c \in Nands, NEW x, NEW y, NEW z
  PROVE  Gate(c, <<x, y, z>>) = IF x = 1 /\ y = 1 /\ z = 1 THEN 0 ELSE 1
<1>1. Gate(c, <<x, y, z>>) = IF <<x, y, z>> \in AllOnes THEN 0 ELSE 1
  BY NandGate
<1>2. QED
  BY <1>1, ThreePins

LEMMA Nand4 ==
  ASSUME NEW c \in Nands, NEW x, NEW y, NEW z, NEW u
  PROVE  Gate(c, <<x, y, z, u>>) = IF x = 1 /\ y = 1 /\ z = 1 /\ u = 1 THEN 0 ELSE 1
<1>1. Gate(c, <<x, y, z, u>>) = IF <<x, y, z, u>> \in AllOnes THEN 0 ELSE 1
  BY NandGate
<1>2. QED
  BY <1>1, FourPins

LEMMA Nor2 ==
  ASSUME NEW c \in Nors, NEW a, NEW b
  PROVE  Gate(c, <<a, b>>) = IF a = 0 /\ b = 0 THEN 1 ELSE 0
<1>1. Gate(c, <<a, b>>) = IF <<a, b>> \in AllZeros THEN 1 ELSE 0
  BY NorGate
<1>2. QED
  BY <1>1, TwoPins

LEMMA Aoi ==
  ASSUME NEW c \in AndOrInverts, NEW a \in Bit, NEW b \in Bit, NEW d \in Bit, NEW e \in Bit
  PROVE  Gate(c, <<a, b, d, e>>) = IF (a = 1 /\ b = 1) \/ (d = 1 /\ e = 1) THEN 0 ELSE 1
<1>1. PICK in : in = <<a, b, d, e>>
  OBVIOUS
<1>2. Gate(c, in) = IF in \in OnePair THEN 0 ELSE 1
  BY AoiGate
<1>3. in \in Pins(4) /\ in[1] = a /\ in[2] = b /\ in[3] = d /\ in[4] = e
  BY <1>1 DEF Pins
<1>4. in \in OnePair <=> a + b = 2 \/ d + e = 2
  BY <1>3 DEF OnePair
<1>5. (a + b = 2 <=> a = 1 /\ b = 1) /\ (d + e = 2 <=> d = 1 /\ e = 1)
  BY DEF Bit
<1>6. QED
  BY <1>1, <1>2, <1>4, <1>5

(* The gates of a tree show the bit v of the chosen word a if it is one of *)
(* the words in A: as it is (High), or inverted (Low).                     *)
High(a, v, A, g) == v \in Bit /\ g = IF a \in A /\ v = 1 THEN 1 ELSE 0
Low(a, v, A, g) == v \in Bit /\ g = IF a \in A /\ v = 1 THEN 0 ELSE 1

(* The inputs for a word: its select and its bit.                          *)
Leaf(a, v, w, s, x) ==
  /\ s = IF w = a THEN 1 ELSE 0
  /\ x \in Bit /\ v \in Bit
  /\ w = a => x = v

LEMMA AoiShows ==
  ASSUME NEW c \in AndOrInverts, NEW a, NEW v, NEW w, NEW u, NEW s, NEW x, NEW t, NEW y,
         Leaf(a, v, w, s, x), Leaf(a, v, u, t, y)
  PROVE  Low(a, v, {w, u}, Gate(c, <<s, x, t, y>>))
<1>1. s \in Bit /\ t \in Bit /\ x \in Bit /\ y \in Bit
  BY DEF Leaf, Bit
<1>2. Gate(c, <<s, x, t, y>>) = IF (s = 1 /\ x = 1) \/ (t = 1 /\ y = 1) THEN 0 ELSE 1
  BY <1>1, Aoi
<1>3. PICK g : g = Gate(c, <<s, x, t, y>>)
  OBVIOUS
<1>4. Low(a, v, {w, u}, g)
  BY <1>2, <1>3 DEF Leaf, Low, Bit
<1>5. QED
  BY <1>3, <1>4

LEMMA NandShows2 ==
  ASSUME NEW c \in Nands, NEW a, NEW v, NEW A, NEW B, NEW x, NEW y,
         Low(a, v, A, x), Low(a, v, B, y)
  PROVE  High(a, v, A \cup B, Gate(c, <<x, y>>))
<1>1. Gate(c, <<x, y>>) = IF x = 1 /\ y = 1 THEN 0 ELSE 1
  BY Nand2
<1>2. PICK g : g = Gate(c, <<x, y>>)
  OBVIOUS
<1>3. High(a, v, A \cup B, g)
  BY <1>1, <1>2 DEF Low, High, Bit
<1>4. QED
  BY <1>2, <1>3

LEMMA NandShows4 ==
  ASSUME NEW c \in Nands, NEW a, NEW v, NEW A, NEW B, NEW C, NEW D,
         NEW x, NEW y, NEW z, NEW u,
         Low(a, v, A, x), Low(a, v, B, y), Low(a, v, C, z), Low(a, v, D, u)
  PROVE  High(a, v, A \cup B \cup C \cup D, Gate(c, <<x, y, z, u>>))
<1>1. Gate(c, <<x, y, z, u>>) = IF x = 1 /\ y = 1 /\ z = 1 /\ u = 1 THEN 0 ELSE 1
  BY Nand4
<1>2. PICK g : g = Gate(c, <<x, y, z, u>>)
  OBVIOUS
<1>3. High(a, v, A \cup B \cup C \cup D, g)
  BY <1>1, <1>2 DEF Low, High, Bit
<1>4. QED
  BY <1>2, <1>3

LEMMA NorShows ==
  ASSUME NEW c \in Nors, NEW a, NEW v, NEW A, NEW B, NEW x, NEW y,
         High(a, v, A, x), High(a, v, B, y)
  PROVE  Low(a, v, A \cup B, Gate(c, <<x, y>>))
<1>1. Gate(c, <<x, y>>) = IF x = 0 /\ y = 0 THEN 1 ELSE 0
  BY Nor2
<1>2. PICK g : g = Gate(c, <<x, y>>)
  OBVIOUS
<1>3. Low(a, v, A \cup B, g)
  BY <1>1, <1>2 DEF Low, High, Bit
<1>4. QED
  BY <1>2, <1>3

(* The inverter of a two-word array, and the one of the others.            *)
LEMMA InverterShows ==
  ASSUME NEW c \in Inverters, NEW a, NEW v, NEW A, NEW x, a \in A
  PROVE  /\ Low(a, v, A, x) => Gate(c, <<x>>) = v
         /\ High(a, v, A, x) => Gate(c, <<x>>) = 1 - v
<1>1. x \in Bit => Gate(c, <<x>>) = 1 - x
  BY Inverts
<1>2. Low(a, v, A, x) => x = 1 - v /\ x \in Bit /\ 1 - x = v
  BY DEF Low, Bit
<1>3. High(a, v, A, x) => x = v /\ x \in Bit
  BY DEF High, Bit
<1>4. QED
  BY <1>1, <1>2, <1>3

(* The selects of a port, from place base on: one for the word a.          *)
OneHotAt(selects, base, words, a) ==
  \A w \in 0 .. words - 1 : selects[base + w] = IF w = a THEN 1 ELSE 0

(* The two small arrays show the chosen word.                              *)
ShowsWord(out, q, a, b) == out[b] = q[a][b]

(* First the one for two words, then the one for four.                     *)
LEMMA TwoWordsRead ==
  ASSUME NEW cells, RfCells(cells), NEW bits \in Nat, NEW selects, NEW a \in 0 .. 1,
         OneHotAt(selects, 0, 2, a), NEW q \in [0 .. 1 -> [0 .. bits - 1 -> Bit]],
         NEW b \in 0 .. bits - 1
  PROVE  ShowsWord(generate_2_word_1r1w_array(cells, bits, selects, q), q, a, b)
<1>1. cells.aoi22 \in AndOrInverts /\ cells.invx3 \in Inverters
  BY DEF RfCells
<1>2. PICK v : v = q[a][b]
  OBVIOUS
<1>3. Leaf(a, v, 0, selects[0], q[0][b]) /\ Leaf(a, v, 1, selects[1], q[1][b])
  BY <1>2 DEF OneHotAt, Leaf
<1>4. PICK x : x = Gate(cells.aoi22, <<selects[0], q[0][b], selects[1], q[1][b]>>)
  OBVIOUS
<1>5. Low(a, v, {0, 1}, x)
  BY <1>1, <1>3, <1>4, AoiShows
<1>6. a \in {0, 1}
  OBVIOUS
<1>7. Gate(cells.invx3, <<x>>) = v
  BY <1>1, <1>5, <1>6, InverterShows
<1>8. generate_2_word_1r1w_array(cells, bits, selects, q)[b] = Gate(cells.invx3, <<x>>)
  BY <1>4 DEF generate_2_word_1r1w_array
<1>9. QED
  BY <1>2, <1>7, <1>8 DEF ShowsWord

LEMMA FourWordsRead ==
  ASSUME NEW cells, RfCells(cells), NEW bits \in Nat, NEW selects, NEW a \in 0 .. 3,
         OneHotAt(selects, 0, 4, a), NEW q \in [0 .. 3 -> [0 .. bits - 1 -> Bit]],
         NEW b \in 0 .. bits - 1
  PROVE  ShowsWord(generate_4_word_1r1w_array(cells, bits, selects, q), q, a, b)
<1>1. cells.aoi22 \in AndOrInverts /\ cells.nand2 \in Nands
  BY DEF RfCells
<1>2. PICK v : v = q[a][b]
  OBVIOUS
<1>3. /\ Leaf(a, v, 0, selects[0], q[0][b]) /\ Leaf(a, v, 1, selects[1], q[1][b])
      /\ Leaf(a, v, 2, selects[2], q[2][b]) /\ Leaf(a, v, 3, selects[3], q[3][b])
  BY <1>2 DEF OneHotAt, Leaf
<1>4. PICK x : x = Gate(cells.aoi22, <<selects[0], q[0][b], selects[1], q[1][b]>>)
  OBVIOUS
<1>5. PICK y : y = Gate(cells.aoi22, <<selects[2], q[2][b], selects[3], q[3][b]>>)
  OBVIOUS
<1>6. Low(a, v, {0, 1}, x) /\ Low(a, v, {2, 3}, y)
  BY <1>1, <1>3, <1>4, <1>5, AoiShows
<1>7. PICK g : g = Gate(cells.nand2, <<x, y>>)
  OBVIOUS
<1>8. High(a, v, {0, 1} \cup {2, 3}, g)
  BY <1>1, <1>6, <1>7, NandShows2
<1>9. g = v
  BY <1>8 DEF High, Bit
<1>10. generate_4_word_1r1w_array(cells, bits, selects, q)[b] = g
  <2>1. 2 * 0 = 0 /\ 2 * 0 + 1 = 1 /\ 2 * 1 = 2 /\ 2 * 1 + 1 = 3
    OBVIOUS
  <2>2. QED
    BY <1>4, <1>5, <1>7, <2>1 DEF generate_4_word_1r1w_array
<1>11. QED
  BY <1>2, <1>9, <1>10 DEF ShowsWord

(* Place x of a vector that holds, for each of some ports, n bits one      *)
(* after the other: the bit b of port p.                                   *)
Place(x, n, ports, p, b) ==
  x \in 0 .. n * ports - 1 /\ x \div n = p /\ x % n = b

(* Every bit of every port has its place.                                  *)
LEMMA PortAndBit ==
  ASSUME NEW bits \in Nat \ {0}, NEW ports \in Nat, NEW p \in 0 .. ports - 1,
         NEW b \in 0 .. bits - 1
  PROVE  Place(p * bits + b, bits, ports, p, b)
<1>1. PICK m \in Nat : m = p * bits
  OBVIOUS
<1>2. PICK x \in Nat : x = m + b
  BY <1>1
<1>3. x = bits * (x \div bits) + (x % bits) /\ x \div bits \in Nat /\ x % bits \in 0 .. bits - 1
  BY <1>2
<1>4. PICK d \in Nat, e \in 0 .. bits - 1 : d = x \div bits /\ e = x % bits
  BY <1>3
<1>5. bits * p + b = bits * d + e
  BY <1>1, <1>2, <1>3, <1>4
<1>6. d = p
  <2>1. bits * (p - d) = e - b
    BY <1>5
  <2>2. p - d \in Int /\ e - b < bits /\ b - e < bits
    BY <1>4
  <2>3. ~(p - d >= 1)
    <3>1. p - d >= 1 => bits * (p - d) >= bits
      BY <2>2
    <3>2. QED
      BY <2>1, <2>2, <3>1
  <2>4. ~(p - d <= -1)
    <3>1. p - d <= -1 => bits * (p - d) <= -bits
      BY <2>2
    <3>2. QED
      BY <2>1, <2>2, <3>1
  <2>5. QED
    BY <2>2, <2>3, <2>4
<1>7. e = b
  BY <1>5, <1>6
<1>8. x \in 0 .. bits * ports - 1
  <2>1. bits * p <= bits * (ports - 1)
    BY p <= ports - 1
  <2>2. bits * (ports - 1) = bits * ports - bits
    OBVIOUS
  <2>3. QED
    BY <1>1, <1>2, <2>1, <2>2
<1>9. QED
  BY <1>1, <1>2, <1>4, <1>6, <1>7, <1>8 DEF Place

(* The trees of the large arrays, for a port and a bit.                    *)
Qaoi(cells, selects, base, q, b, w) ==
  Gate(cells.aoi22, <<selects[base + w], q[w][b], selects[base + w + 1], q[w + 1][b]>>)

NandOf(cells, selects, base, q, b, w) ==
  Gate(cells.nand4, <<Qaoi(cells, selects, base, q, b, w),
                      Qaoi(cells, selects, base, q, b, w + 2),
                      Qaoi(cells, selects, base, q, b, w + 4),
                      Qaoi(cells, selects, base, q, b, w + 6)>>)

NorOf(cells, selects, base, q, b, w) ==
  Gate(cells.nor2, <<NandOf(cells, selects, base, q, b, w),
                     NandOf(cells, selects, base, q, b, w + 8)>>)

TreeOf(cells, words, selects, base, q, b) ==
  IF words >= 16
  THEN Gate(cells.nand2, <<NorOf(cells, selects, base, q, b, 0),
                           NorOf(cells, selects, base, q, b, other_nor2(words))>>)
  ELSE NandOf(cells, selects, base, q, b, 0)

(* An output of the large arrays is such a tree, inverted.                 *)
OutputIsTree(cells, words, bits, ports, selects, q, p, b) ==
  generate_Nr1w_array(cells, words, bits, ports, selects, q)[p * bits + b]
    = Gate(cells.inv, <<TreeOf(cells, words, selects, words * p, q, b)>>)

(* Every port and bit has its output.                                      *)
LEMMA TreeIsOutput ==
  ASSUME NEW cells, NEW words, NEW bits \in Nat \ {0}, NEW ports \in Nat,
         NEW p \in 0 .. ports - 1, NEW b \in 0 .. bits - 1, NEW selects, NEW q
  PROVE  OutputIsTree(cells, words, bits, ports, selects, q, p, b)
<1>1. PICK x : x = p * bits + b
  OBVIOUS
<1>2. x \in 0 .. bits * ports - 1 /\ x \div bits = p /\ x % bits = b
  <2>1. Place(p * bits + b, bits, ports, p, b)
    BY PortAndBit
  <2>2. QED
    BY <1>1, <2>1 DEF Place
<1>3. generate_Nr1w_array(cells, words, bits, ports, selects, q)
        = [y \in 0 .. bits * ports - 1 |->
             Gate(cells.inv,
                  <<TreeOf(cells, words, selects, words * (y \div bits), q, y % bits)>>)]
  BY Zenon DEF generate_Nr1w_array, TreeOf, NorOf, NandOf, Qaoi
<1>4. generate_Nr1w_array(cells, words, bits, ports, selects, q)[x]
        = Gate(cells.inv, <<TreeOf(cells, words, selects, words * (x \div bits), q, x % bits)>>)
  BY <1>2, <1>3
<1>5. QED
  BY <1>1, <1>2, <1>4 DEF OutputIsTree

(* Which words a gate shows matters for the chosen one only.               *)
LEMMA ShowsSame ==
  ASSUME NEW a, NEW v, NEW A, NEW B, NEW g, a \in A <=> a \in B
  PROVE  /\ High(a, v, A, g) => High(a, v, B, g)
         /\ Low(a, v, A, g) => Low(a, v, B, g)
BY DEF High, Low

(* The tree shows the chosen word.                                         *)
LEMMA TreeShows ==
  ASSUME NEW cells, RfCells(cells), NEW words \in {8, 16, 32}, NEW base \in Nat,
         NEW selects, NEW a \in 0 .. words - 1, OneHotAt(selects, base, words, a),
         NEW bits \in Nat, NEW q \in [0 .. words - 1 -> [0 .. bits - 1 -> Bit]],
         NEW b \in 0 .. bits - 1, NEW v, v = q[a][b]
  PROVE  High(a, v, 0 .. words - 1, TreeOf(cells, words, selects, base, q, b))
<1>1. /\ cells.aoi22 \in AndOrInverts /\ cells.nand4 \in Nands
      /\ cells.nand2 \in Nands /\ cells.nor2 \in Nors
  BY DEF RfCells
<1>2. ASSUME NEW w \in 0 .. words - 1
      PROVE  Leaf(a, v, w, selects[base + w], q[w][b])
  BY <1>2 DEF OneHotAt, Leaf
<1> DEFINE pair(w) == Qaoi(cells, selects, base, q, b, w)
           nand(w) == NandOf(cells, selects, base, q, b, w)
           nor(w) == NorOf(cells, selects, base, q, b, w)
<1>3. ASSUME NEW w \in Nat, w + 1 < words
      PROVE  Low(a, v, {w, w + 1}, pair(w))
  <2>1. w \in 0 .. words - 1 /\ w + 1 \in 0 .. words - 1 /\ base + (w + 1) = base + w + 1
    BY <1>3
  <2>2. Leaf(a, v, w, selects[base + w], q[w][b])
    BY <1>2, <2>1
  <2>3. Leaf(a, v, w + 1, selects[base + (w + 1)], q[w + 1][b])
    BY <1>2, <2>1
  <2>4. Leaf(a, v, w + 1, selects[base + w + 1], q[w + 1][b])
    BY <2>1, <2>3
  <2>5. QED
    BY <1>1, <2>2, <2>4, AoiShows DEF Qaoi
<1>4. ASSUME NEW w \in Nat, w + 7 < words
      PROVE  High(a, v, w .. w + 7, nand(w))
  <2>1. /\ w + 2 \in Nat /\ w + 4 \in Nat /\ w + 6 \in Nat
        /\ w + 1 < words /\ w + 2 + 1 < words /\ w + 4 + 1 < words /\ w + 6 + 1 < words
    BY <1>4
  <2>2. /\ Low(a, v, {w, w + 1}, pair(w)) /\ Low(a, v, {w + 2, w + 2 + 1}, pair(w + 2))
        /\ Low(a, v, {w + 4, w + 4 + 1}, pair(w + 4)) /\ Low(a, v, {w + 6, w + 6 + 1}, pair(w + 6))
    BY <1>3, <2>1
  <2>3. High(a, v, {w, w + 1} \cup {w + 2, w + 2 + 1} \cup {w + 4, w + 4 + 1} \cup {w + 6, w + 6 + 1},
             nand(w))
    BY <1>1, <2>2, NandShows4 DEF NandOf
  <2>4. a \in {w, w + 1} \cup {w + 2, w + 2 + 1} \cup {w + 4, w + 4 + 1} \cup {w + 6, w + 6 + 1}
          <=> a \in w .. w + 7
    OBVIOUS
  <2>5. QED
    BY <2>3, <2>4, ShowsSame
<1>5. ASSUME NEW w \in Nat, w + 15 < words
      PROVE  Low(a, v, w .. w + 15, nor(w))
  <2>1. w + 8 \in Nat /\ w + 7 < words /\ w + 8 + 7 < words
    BY <1>5
  <2>2. High(a, v, w .. w + 7, nand(w)) /\ High(a, v, w + 8 .. w + 8 + 7, nand(w + 8))
    BY <1>4, <2>1
  <2>3. Low(a, v, (w .. w + 7) \cup (w + 8 .. w + 8 + 7), nor(w))
    BY <1>1, <2>2, NorShows DEF NorOf
  <2>4. (w .. w + 7) \cup (w + 8 .. w + 8 + 7) = w .. w + 15
    OBVIOUS
  <2>5. QED
    BY <2>3, <2>4
<1>6. CASE words = 8
  <2>1. 0 + 7 < words /\ 0 \in Nat /\ words - 1 = 0 + 7
    BY <1>6
  <2>2. High(a, v, 0 .. 0 + 7, nand(0))
    BY <1>4, <2>1
  <2>3. TreeOf(cells, words, selects, base, q, b) = nand(0)
    BY <1>6 DEF TreeOf
  <2>4. QED
    BY <2>1, <2>2, <2>3
<1>7. CASE words \in {16, 32}
  <2>1. PICK u : u = other_nor2(words)
    OBVIOUS
  <2>2. /\ u \in Nat /\ u + 15 < words /\ 0 + 15 < words /\ 0 + 15 = 15
        /\ a \in (0 .. 15) \cup (u .. u + 15) <=> a \in 0 .. words - 1
    <3>1. CASE words = 16
      <4>1. u = 0
        BY <2>1, <3>1 DEF other_nor2
      <4>2. QED
        BY <3>1, <4>1
    <3>2. CASE words = 32
      <4>1. u = 16
        BY <2>1, <3>2 DEF other_nor2
      <4>2. QED
        BY <3>2, <4>1
    <3>3. QED
      BY <1>7, <3>1, <3>2
  <2>3. Low(a, v, 0 .. 15, nor(0)) /\ Low(a, v, u .. u + 15, nor(u))
    BY <1>5, <2>2
  <2>4. High(a, v, (0 .. 15) \cup (u .. u + 15), Gate(cells.nand2, <<nor(0), nor(u)>>))
    BY <1>1, <2>3, NandShows2
  <2>5. TreeOf(cells, words, selects, base, q, b) = Gate(cells.nand2, <<nor(0), nor(u)>>)
    BY <1>7, <2>1 DEF TreeOf
  <2>6. QED
    BY <2>2, <2>4, <2>5, ShowsSame
<1>8. QED
  BY <1>6, <1>7

(* The large arrays show the chosen word, inverted, on every port.         *)
OutputIsInverse(cells, words, bits, ports, selects, q, p, b, a) ==
  generate_Nr1w_array(cells, words, bits, ports, selects, q)[p * bits + b] = 1 - q[a][b]

(* So it is whatever they hold.                                            *)
LEMMA LargeArraysRead ==
  ASSUME NEW cells, RfCells(cells), NEW words \in {8, 16, 32}, NEW bits \in Nat \ {0},
         NEW ports \in Nat, NEW p \in 0 .. ports - 1, NEW b \in 0 .. bits - 1,
         NEW selects, NEW a \in 0 .. words - 1, OneHotAt(selects, words * p, words, a),
         NEW q \in [0 .. words - 1 -> [0 .. bits - 1 -> Bit]]
  PROVE  OutputIsInverse(cells, words, bits, ports, selects, q, p, b, a)
<1>1. PICK v : v = q[a][b]
  OBVIOUS
<1>2. PICK base \in Nat : base = words * p
  OBVIOUS
<1>3. PICK g : g = TreeOf(cells, words, selects, base, q, b)
  OBVIOUS
<1>4. High(a, v, 0 .. words - 1, g)
  BY <1>1, <1>2, <1>3, TreeShows
<1>5. cells.inv \in Inverters
  BY DEF RfCells
<1>6. Gate(cells.inv, <<g>>) = 1 - v
  BY <1>4, <1>5, InverterShows
<1>7. OutputIsTree(cells, words, bits, ports, selects, q, p, b)
  BY TreeIsOutput
<1>8. QED
  BY <1>1, <1>2, <1>3, <1>6, <1>7 DEF OutputIsTree, OutputIsInverse

(* The wrapper's selects: for every port one, at its address.              *)
LEMMA SelectsOneHot ==
  ASSUME NEW words \in Nat \ {0}, NEW ports \in Nat, array.words = words, array.ports = ports,
         NEW addr \in [0 .. ports - 1 -> 0 .. words - 1], NEW p \in 0 .. ports - 1
  PROVE  OneHotAt(read_sel(addr), words * p, words, addr[p])
<1>1. ASSUME NEW w \in 0 .. words - 1
      PROVE  read_sel(addr)[words * p + w] = IF w = addr[p] THEN 1 ELSE 0
  <2>1. PICK x : x = p * words + w
    OBVIOUS
  <2>2. x \in 0 .. words * ports - 1 /\ x \div words = p /\ x % words = w
    <3>1. Place(p * words + w, words, ports, p, w)
      BY PortAndBit
    <3>2. QED
      BY <2>1, <3>1 DEF Place
  <2>3. words * p + w = x
    BY <2>1
  <2>4. read_sel(addr)[x] = one_hot(TRUE, addr[x \div words], x % words)
    BY <2>2 DEF read_sel
  <2>5. QED
    BY <2>2, <2>3, <2>4 DEF one_hot
<1>2. QED
  BY <1>1 DEF OneHotAt

(* What is stored is what is held, or in the large register files its      *)
(* inverse.                                                                *)
Recorded ==
  /\ held \in [Words -> Vector]
  /\ reg = [w \in Words |-> stored(held[w])]

Large == array.kind = "rf" /\ array.words >= 8

LEMMA StoredBits ==
  ASSUME array \in Arrays, NEW d \in Vector
  PROVE  /\ ~Large => stored(d) = d
         /\ Large => stored(d) = [b \in Bits |-> 1 - d[b]]
         /\ stored(d) \in Vector
<1>1. Written(array)
  BY ArraysAssumption
<1>2. ~Large => stored(d) = d
  <2>1. array.kind = "rf" => array.words \in Nat
    BY <1>1 DEF Written
  <2>2. ~Large <=> array.kind # "rf" \/ array.words < 8
    BY <2>1 DEF Large
  <2>3. QED
    BY <2>2 DEF stored
<1>3. ASSUME Large
      PROVE  stored(d) = [b \in Bits |-> 1 - d[b]]
  <2>1. array.fab \in Fabs /\ ~(array.words < 8) /\ array.kind = "rf"
    BY <1>1, <1>3 DEF Written, Large
  <2>2. PICK c : c = rf_cells[array.fab].inv
    OBVIOUS
  <2>3. c \in Inverters
    BY <2>1, <2>2, EveryRfCell DEF RfCells
  <2>4. stored(d) = [b \in DOMAIN d |-> Gate(c, <<d[b]>>)]
    BY <2>1, <2>2 DEF stored, data_i_inv
  <2>5. DOMAIN d = Bits /\ \A b \in Bits : d[b] \in Bit
    BY DEF Vector
  <2>6. \A b \in Bits : Gate(c, <<d[b]>>) = 1 - d[b]
    BY <2>3, <2>5, Inverts
  <2>7. QED
    BY <2>4, <2>5, <2>6
<1>4. stored(d) \in Vector
  <2>1. CASE ~Large
    BY <1>2, <2>1
  <2>2. CASE Large
    <3>1. \A b \in Bits : 1 - d[b] \in Bit
      BY DEF Vector, Bit
    <3>2. QED
      BY <1>3, <2>2, <3>1 DEF Vector
  <2>3. QED
    BY <2>1, <2>2
<1>5. QED
  BY <1>2, <1>3, <1>4

(* A register file shows the word addressed, on every port.                *)
LEMMA FileReads ==
  ASSUME array \in Arrays, array.kind = "rf", Recorded,
         NEW addr \in [0 .. array.ports - 1 -> Words],
         NEW p \in 0 .. array.ports - 1, NEW b \in Bits
  PROVE  data_o(read_sel(addr))[p * array.bits + b] = held[addr[p]][b]
<1>1. /\ array.bits \in Nat \ {0} /\ array.fab \in Fabs
      /\ \/ array.words \in {2, 4} /\ array.ports = 1
         \/ array.words \in {8, 16, 32} /\ array.ports \in Nat \ {0}
  BY ArraysAssumption DEF Written
<1>2. PICK cells : cells = rf_cells[array.fab]
  OBVIOUS
<1>3. RfCells(cells)
  BY <1>1, <1>2, EveryRfCell
<1>4. PICK selects : selects = read_sel(addr)
  OBVIOUS
<1>5. data_o(selects) = ReadArray(cells, array.words, array.bits, array.ports, selects, reg)
  BY <1>1, <1>2 DEF data_o, gf_14_read, tsmc_40_read, tsmc_250_read, Fabs, rf_cells
<1>6. PICK words \in Nat \ {0} : words = array.words
  BY <1>1
<1>7. PICK ports \in Nat \ {0} : ports = array.ports
  BY <1>1
<1>8. PICK bits \in Nat \ {0} : bits = array.bits
  BY <1>1
<1>9. PICK a : a = addr[p]
  OBVIOUS
<1>10. a \in 0 .. words - 1 /\ Words = 0 .. words - 1 /\ Bits = 0 .. bits - 1
  BY <1>6, <1>8, <1>9 DEF Words, Bits
<1>11. OneHotAt(selects, words * p, words, a)
  BY <1>4, <1>6, <1>7, <1>9, <1>10, SelectsOneHot
<1>12. reg \in [0 .. words - 1 -> [0 .. bits - 1 -> Bit]]
  <2>1. \A w \in Words : stored(held[w]) \in Vector
    BY StoredBits DEF Recorded
  <2>2. QED
    BY <1>10, <2>1 DEF Recorded, Vector
<1>13. held[a] \in Vector /\ reg[a] = stored(held[a])
  BY <1>10 DEF Recorded
<1>14. CASE words \in {2, 4}
  <2>1. p = 0 /\ words * p = 0 /\ p * bits + b = b
    BY <1>1, <1>6, <1>14, <1>10
  <2>2. OneHotAt(selects, 0, words, a)
    BY <1>11, <2>1
  <2>3. reg[a] = held[a]
    BY <1>6, <1>13, <1>14, StoredBits DEF Large
  <2>4. CASE words = 2
    <3>1. ReadArray(cells, words, bits, ports, selects, reg)
            = generate_2_word_1r1w_array(cells, bits, selects, reg)
      BY <2>4 DEF ReadArray
    <3>2. generate_2_word_1r1w_array(cells, bits, selects, reg)[b] = reg[a][b]
      <4>1. /\ a \in 0 .. 1 /\ reg \in [0 .. 1 -> [0 .. bits - 1 -> Bit]]
            /\ OneHotAt(selects, 0, 2, a) /\ b \in 0 .. bits - 1 /\ bits \in Nat
        BY <1>10, <1>12, <2>2, <2>4
      <4>2. ShowsWord(generate_2_word_1r1w_array(cells, bits, selects, reg), reg, a, b)
        BY <1>3, <4>1, TwoWordsRead
      <4>3. QED
        BY <4>2 DEF ShowsWord
    <3>3. QED
      BY <1>4, <1>5, <1>6, <1>7, <1>8, <1>9, <2>1, <2>3, <3>1, <3>2
  <2>5. CASE words = 4
    <3>1. ReadArray(cells, words, bits, ports, selects, reg)
            = generate_4_word_1r1w_array(cells, bits, selects, reg)
      BY <2>5 DEF ReadArray
    <3>2. generate_4_word_1r1w_array(cells, bits, selects, reg)[b] = reg[a][b]
      <4>1. /\ a \in 0 .. 3 /\ reg \in [0 .. 3 -> [0 .. bits - 1 -> Bit]]
            /\ OneHotAt(selects, 0, 4, a) /\ b \in 0 .. bits - 1 /\ bits \in Nat
        BY <1>10, <1>12, <2>2, <2>5
      <4>2. ShowsWord(generate_4_word_1r1w_array(cells, bits, selects, reg), reg, a, b)
        BY <1>3, <4>1, FourWordsRead
      <4>3. QED
        BY <4>2 DEF ShowsWord
    <3>3. QED
      BY <1>4, <1>5, <1>6, <1>7, <1>8, <1>9, <2>1, <2>3, <3>1, <3>2
  <2>6. QED
    BY <1>14, <2>4, <2>5
<1>15. CASE words \in {8, 16, 32}
  <2>1. reg[a][b] = 1 - held[a][b]
    <3>1. Large
      BY <1>6, <1>15 DEF Large
    <3>2. QED
      BY <1>13, <3>1, StoredBits
  <2>2. ReadArray(cells, words, bits, ports, selects, reg)
          = generate_Nr1w_array(cells, words, bits, ports, selects, reg)
    BY <1>15 DEF ReadArray
  <2>3. PICK out : out = generate_Nr1w_array(cells, words, bits, ports, selects, reg)
    OBVIOUS
  <2>4. out[p * bits + b] = 1 - reg[a][b]
    <3>1. ports \in Nat /\ p \in 0 .. ports - 1 /\ b \in 0 .. bits - 1
      BY <1>7, <1>10
    <3>2. OutputIsInverse(cells, words, bits, ports, selects, reg, p, b, a)
      BY <1>3, <1>10, <1>11, <1>12, <1>15, <3>1, LargeArraysRead
    <3>3. QED
      BY <2>3, <3>2 DEF OutputIsInverse
  <2>5. 1 - (1 - held[a][b]) = held[a][b]
    BY <1>10, <1>13 DEF Vector, Bit
  <2>6. QED
    BY <1>4, <1>5, <1>6, <1>7, <1>8, <1>9, <2>1, <2>2, <2>3, <2>4, <2>5
<1>16. QED
  BY <1>1, <1>6, <1>14, <1>15

(* The selects of the shifting datapath: for every word one of three.      *)
LEMMA ShiftSelects ==
  ASSUME NEW words \in Nat \ {0}, array.words = words, NEW sel_i, NEW w \in 0 .. words - 1,
         NEW g \in 0 .. 2
  PROVE  sel_onehot(sel_i)[3 * w + g] = IF sel_i[w] = g THEN 1 ELSE 0
<1>1. PICK x : x = 3 * w + g
  OBVIOUS
<1>2. x \in 0 .. 3 * words - 1 /\ x \div 3 = w /\ x % 3 = g
  BY <1>1
<1>3. sel_onehot(sel_i)[x] = IF sel_i[x \div 3] = x % 3 THEN 1 ELSE 0
  BY <1>2 DEF sel_onehot
<1>4. QED
  BY <1>1, <1>2, <1>3

(* A word of the shifting datapath takes what its selects choose.          *)
OneOfThree(mode, s0, s1, s2) ==
  /\ mode \in 0 .. 2
  /\ s0 = IF mode = 0 THEN 1 ELSE 0
  /\ s1 = IF mode = 1 THEN 1 ELSE 0
  /\ s2 = IF mode = 2 THEN 1 ELSE 0

Taken(mode, q0, q1, d) == IF mode = 0 THEN q0 ELSE IF mode = 1 THEN q1 ELSE d

(* The gates of a word, and of the last word, which has none after it.     *)
Joined(s0, s1, s2, q0, q1, d) ==
  Gate("NAND3XL", <<Gate("NAND2XL", <<s2, d>>), Gate("NAND2XL", <<s0, q0>>),
                    Gate("NAND2XL", <<s1, q1>>)>>)
JoinedLast(s0, s2, q0, d) ==
  Gate("NAND2XL", <<Gate("NAND2XL", <<s0, q0>>), Gate("NAND2XL", <<s2, d>>)>>)

(* The last word takes zeros where others take the word after them.        *)
LEMMA ShiftGates ==
  ASSUME NEW mode, NEW s0, NEW s1, NEW s2, OneOfThree(mode, s0, s1, s2),
         NEW q0 \in Bit, NEW q1 \in Bit, NEW d \in Bit
  PROVE  /\ Joined(s0, s1, s2, q0, q1, d) = Taken(mode, q0, q1, d)
         /\ JoinedLast(s0, s2, q0, d) = Taken(mode, q0, 0, d)
<1>1. "NAND3XL" \in Nands /\ "NAND2XL" \in Nands
  BY DEF Nands
<1>2. PICK nand3 \in Nands : nand3 = "NAND3XL"
  BY <1>1
<1>3. PICK nand2 \in Nands : nand2 = "NAND2XL"
  BY <1>1
<1>4. PICK g0 : g0 = Gate(nand2, <<s0, q0>>)
  OBVIOUS
<1>5. PICK g1 : g1 = Gate(nand2, <<s1, q1>>)
  OBVIOUS
<1>6. PICK g2 : g2 = Gate(nand2, <<s2, d>>)
  OBVIOUS
<1>7. /\ g0 = IF s0 = 1 /\ q0 = 1 THEN 0 ELSE 1
      /\ g1 = IF s1 = 1 /\ q1 = 1 THEN 0 ELSE 1
      /\ g2 = IF s2 = 1 /\ d = 1 THEN 0 ELSE 1
  BY <1>4, <1>5, <1>6, Nand2
<1>8. Gate(nand3, <<g2, g0, g1>>) = IF g2 = 1 /\ g0 = 1 /\ g1 = 1 THEN 0 ELSE 1
  BY Nand3
<1>9. Gate(nand2, <<g0, g2>>) = IF g0 = 1 /\ g2 = 1 THEN 0 ELSE 1
  BY Nand2
<1>10. /\ Gate(nand3, <<g2, g0, g1>>) = Taken(mode, q0, q1, d)
       /\ Gate(nand2, <<g0, g2>>) = Taken(mode, q0, 0, d)
  <2>1. CASE mode = 0
    BY <2>1, <1>7, <1>8, <1>9 DEF Bit, OneOfThree, Taken
  <2>2. CASE mode = 1
    BY <2>2, <1>7, <1>8, <1>9 DEF Bit, OneOfThree, Taken
  <2>3. CASE mode = 2
    BY <2>3, <1>7, <1>8, <1>9 DEF Bit, OneOfThree, Taken
  <2>4. QED
    BY <2>1, <2>2, <2>3 DEF OneOfThree
<1>11. QED
  BY <1>2, <1>3, <1>4, <1>5, <1>6, <1>10 DEF Joined, JoinedLast

(* So a shift of the cells is a shift of the words.                        *)
LEMMA ShiftsWords ==
  ASSUME NEW words \in Nat \ {0}, NEW bits \in Nat \ {0},
         array.words = words, array.bits = bits, held \in [Words -> Vector],
         NEW data_i \in Vector, NEW sel_i \in [Words -> 0 .. 2]
  PROVE  generate_fifo_shift_array(words, bits, data_i, sel_onehot(sel_i), held)
           = Shifted(data_i, sel_i)
<1>1. Words = 0 .. words - 1 /\ Bits = 0 .. bits - 1
  BY DEF Words, Bits
<1> DEFINE one == sel_onehot(sel_i)
           word(w) == Shifted(data_i, sel_i)[w]
           out == generate_fifo_shift_array(words, bits, data_i, one, held)
           joined(w, b) ==
             IF w < words - 1
             THEN Joined(one[3 * w + 0], one[3 * w + 1], one[3 * w + 2],
                         held[w][b], held[w + 1][b], data_i[b])
             ELSE JoinedLast(one[3 * w + 0], one[3 * w + 2], held[w][b], data_i[b])
<1>2. out = [w \in 0 .. words - 1 |-> [b \in 0 .. bits - 1 |-> joined(w, b)]]
  BY DEF generate_fifo_shift_array, Joined, JoinedLast
<1>3. ASSUME NEW w \in 0 .. words - 1
      PROVE  /\ one[3 * w + 0] = IF sel_i[w] = 0 THEN 1 ELSE 0
             /\ one[3 * w + 1] = IF sel_i[w] = 1 THEN 1 ELSE 0
             /\ one[3 * w + 2] = IF sel_i[w] = 2 THEN 1 ELSE 0
  BY ShiftSelects
<1>4. ASSUME NEW w \in 0 .. words - 1
      PROVE  /\ sel_i[w] = 0 => word(w) = held[w]
             /\ sel_i[w] = 1 /\ w + 1 \in Words => word(w) = held[w + 1]
             /\ sel_i[w] = 1 /\ w + 1 \notin Words => word(w) = [b \in Bits |-> 0]
             /\ sel_i[w] = 2 => word(w) = data_i
  BY <1>1 DEF Shifted
<1> HIDE DEF one, out, word
<1>5. ASSUME NEW w \in 0 .. words - 1, NEW b \in 0 .. bits - 1
      PROVE  joined(w, b) = word(w)[b]
  <2>1. PICK mode \in 0 .. 2 : mode = sel_i[w]
    BY <1>1
  <2>2. PICK s0 : s0 = one[3 * w + 0]
    OBVIOUS
  <2>3. PICK s1 : s1 = one[3 * w + 1]
    OBVIOUS
  <2>4. PICK s2 : s2 = one[3 * w + 2]
    OBVIOUS
  <2>5. OneOfThree(mode, s0, s1, s2)
    BY <1>3, <2>1, <2>2, <2>3, <2>4 DEF OneOfThree
  <2>6. PICK q0 \in Bit : q0 = held[w][b]
    BY <1>1 DEF Vector
  <2>7. PICK d \in Bit : d = data_i[b]
    BY <1>1 DEF Vector
  <2>m. mode \in 0 .. 2 /\ 0 \in Bit
    BY DEF Bit
  <2>a. mode = 0 => word(w) = held[w]
    BY <1>4, <2>1
  <2>b. mode = 1 /\ w + 1 \in Words => word(w) = held[w + 1]
    BY <1>4, <2>1
  <2>c. mode = 1 /\ w + 1 \notin Words => word(w) = [c \in Bits |-> 0]
    BY <1>4, <2>1
  <2>d. mode = 2 => word(w) = data_i
    BY <1>4, <2>1
  <2>8. CASE w < words - 1
    <3>1. w + 1 \in Words
      BY <1>1, <2>8
    <3>2. PICK q1 \in Bit : q1 = held[w + 1][b]
      BY <1>1, <3>1 DEF Vector
    <3>3. joined(w, b) = Joined(s0, s1, s2, q0, q1, d)
      BY <2>2, <2>3, <2>4, <2>6, <2>7, <2>8, <3>2
    <3> HIDE DEF joined
    <3>4. joined(w, b) = Taken(mode, q0, q1, d)
      BY <2>5, <3>3, ShiftGates
    <3>5. word(w)[b] = Taken(mode, q0, q1, d)
      <4>1. CASE mode = 0
        BY <2>a, <2>6, <4>1 DEF Taken
      <4>2. CASE mode = 1
        BY <2>b, <3>1, <3>2, <4>2 DEF Taken
      <4>3. CASE mode = 2
        BY <2>d, <2>7, <4>3 DEF Taken
      <4>4. QED
        BY <2>m, <4>1, <4>2, <4>3
    <3>6. QED
      BY <3>4, <3>5
  <2>9. CASE ~(w < words - 1)
    <3>1. w + 1 \notin Words
      BY <1>1, <2>9
    <3>2. joined(w, b) = JoinedLast(s0, s2, q0, d)
      BY <2>2, <2>4, <2>6, <2>7, <2>9
    <3> HIDE DEF joined
    <3>3. joined(w, b) = Taken(mode, q0, 0, d)
      BY <2>m, <2>5, <3>2, ShiftGates
    <3>4. word(w)[b] = Taken(mode, q0, 0, d)
      <4>1. CASE mode = 0
        BY <2>a, <2>6, <4>1 DEF Taken
      <4>2. CASE mode = 1
        BY <1>1, <2>c, <3>1, <4>2 DEF Taken
      <4>3. CASE mode = 2
        BY <2>d, <2>7, <4>3 DEF Taken
      <4>4. QED
        BY <2>m, <4>1, <4>2, <4>3
    <3>5. QED
      BY <3>3, <3>4
  <2>10. QED
    BY <2>8, <2>9
<1> HIDE DEF joined
<1>6. ASSUME NEW w \in 0 .. words - 1
      PROVE  word(w) \in [Bits -> Bit]
  <2>1. sel_i[w] \in 0 .. 2 /\ held[w] \in [Bits -> Bit] /\ data_i \in [Bits -> Bit]
    BY <1>1 DEF Vector
  <2>2. CASE sel_i[w] = 0
    BY <1>4, <2>1, <2>2
  <2>3. CASE sel_i[w] = 2
    BY <1>4, <2>1, <2>3
  <2>4. CASE sel_i[w] = 1
    <3>1. w + 1 \in Words => held[w + 1] \in [Bits -> Bit]
      BY DEF Vector
    <3>2. [b \in Bits |-> 0] \in [Bits -> Bit]
      BY DEF Bit
    <3>3. QED
      BY <1>4, <2>4, <3>1, <3>2
  <2>5. QED
    BY <2>1, <2>2, <2>3, <2>4
<1>7. \A w \in 0 .. words - 1 : out[w] = word(w)
  <2>1. ASSUME NEW w \in 0 .. words - 1
        PROVE  out[w] = word(w)
    <3>1. out[w] = [b \in 0 .. bits - 1 |-> joined(w, b)]
      BY <1>2
    <3>2. word(w) = [b \in 0 .. bits - 1 |-> word(w)[b]]
      BY <1>1, <1>6
    <3>3. QED
      BY <1>5, <3>1, <3>2
  <2>2. QED
    BY <2>1
<1>8. Shifted(data_i, sel_i) = [w \in 0 .. words - 1 |-> word(w)]
  BY <1>1 DEF Shifted, word
<1>9. out = [w \in 0 .. words - 1 |-> out[w]]
  BY <1>2
<1>10. out = Shifted(data_i, sel_i)
  BY <1>7, <1>8, <1>9
<1>11. QED
  BY <1>10 DEF out, one

(* What a register of these pins holds after a clock edge.                 *)
AfterClock(pins, d, en, nreset, q) ==
  IF "nreset_i" \in pins /\ nreset = 0 THEN [b \in Bits |-> 0]
  ELSE IF "en_i" \in pins /\ en = 0 THEN q
  ELSE d

(* The cells do so when the module has a port for each of their pins.      *)
LEMMA CellsClock ==
  ASSUME NEW pins, NEW d \in Vector, NEW q \in Vector, NEW en \in Bit, NEW nreset \in Bit
  PROVE  generate_dff_nreset_en(pins, pins, d, en, nreset, q) = AfterClock(pins, d, en, nreset, q)
<1>1. DOMAIN d = Bits /\ d = [b \in Bits |-> d[b]] /\ q = [b \in Bits |-> q[b]]
  BY DEF Vector
<1> DEFINE out == generate_dff_nreset_en(pins, pins, d, en, nreset, q)
           e == IF "en_i" \in pins THEN en ELSE 0
           n == IF "nreset_i" \in pins THEN nreset ELSE 0
<1>2. out = [b \in Bits |-> IF "nreset_i" \in pins /\ n = 0 THEN 0
                            ELSE IF "en_i" \in pins THEN dffe(d[b], e, q[b]) ELSE d[b]]
  BY <1>1 DEF generate_dff_nreset_en
<1>g. SUFFICES out = AfterClock(pins, d, en, nreset, q)
  BY <1>g
<1> HIDE DEF out
<1>3. CASE "nreset_i" \in pins /\ nreset = 0
  BY <1>2, <1>3 DEF AfterClock
<1>4. CASE ~("nreset_i" \in pins /\ nreset = 0) /\ "en_i" \in pins /\ en = 0
  <2>1. out = [b \in Bits |-> q[b]]
    BY <1>2, <1>4 DEF dffe
  <2>2. QED
    BY <1>1, <1>4, <2>1 DEF AfterClock
<1>5. CASE ~("nreset_i" \in pins /\ nreset = 0) /\ ~("en_i" \in pins /\ en = 0)
  <2>1. out = [b \in Bits |-> d[b]]
    BY <1>2, <1>5 DEF dffe, Bit
  <2>2. QED
    BY <1>1, <1>5, <2>1 DEF AfterClock
<1>6. QED
  BY <1>3, <1>4, <1>5

(* Every process has a cell with the pins the module has ports for.        *)
LEMMA PinsArePorts ==
  ASSUME array \in Arrays, array.kind = "dff"
  PROVE  /\ array.words = 1 /\ array.fab \in Fabs
         /\ array.fab = "gf_14" => gf_14_cell(array.cell) = string_to_param_list(array.cell)
         /\ array.fab = "tsmc_40" => tsmc_40_cell(array.cell) = string_to_param_list(array.cell)
         /\ array.fab = "tsmc_250" => tsmc_250_cell(array.cell) = string_to_param_list(array.cell)
<1>1. PICK cell : cell = array.cell
  OBVIOUS
<1>2. /\ array.words = 1 /\ array.fab \in Fabs
      /\ \/ cell \in {"dff1", "dff2", "dff4", "dff8", "dffe1"}
         \/ array.fab # "gf_14" /\ cell \in {"dffr1", "dffre1", "dffre2"}
  BY <1>1, ArraysAssumption DEF Written
<1>3. CASE cell \in {"dff1", "dff2", "dff4", "dff8"}
  BY <1>1, <1>2, <1>3 DEF gf_14_cell, tsmc_40_cell, tsmc_250_cell, string_to_param_list
<1>4. CASE cell = "dffe1"
  BY <1>1, <1>2, <1>4 DEF gf_14_cell, tsmc_40_cell, tsmc_250_cell, string_to_param_list
<1>5. CASE array.fab # "gf_14" /\ cell = "dffr1"
  BY <1>1, <1>2, <1>5 DEF tsmc_40_cell, tsmc_250_cell, string_to_param_list
<1>6. CASE array.fab # "gf_14" /\ cell \in {"dffre1", "dffre2"}
  <2>1. /\ string_to_param_list(cell) = {"nreset_i", "en_i"}
        /\ tsmc_40_cell(cell) = {"en_i", "nreset_i"}
        /\ tsmc_250_cell(cell) = {"en_i", "nreset_i"}
    BY <1>6 DEF tsmc_40_cell, tsmc_250_cell, string_to_param_list
  <2>2. {"nreset_i", "en_i"} = {"en_i", "nreset_i"}
    OBVIOUS
  <2>3. QED
    BY <1>1, <1>2, <1>6, <2>1, <2>2
<1>7. QED
  BY <1>2, <1>3, <1>4, <1>5, <1>6

(* The register that a module stands for does the same.                    *)
LEMMA RegisterClocks ==
  ASSUME array \in Arrays, array.kind = "dff",
         NEW d, NEW en \in Bit, NEW nreset \in Bit
  PROVE  Registered(d, en, nreset)
           = AfterClock(string_to_param_list(array.cell), d, en, nreset, held[0])
<1>1. PICK cell : cell = array.cell
  OBVIOUS
<1>2. cell \in {"dff1", "dff2", "dff4", "dff8", "dffe1", "dffr1", "dffre1", "dffre2"}
  BY <1>1, ArraysAssumption DEF Written
<1>3. CASE cell \in {"dff1", "dff2", "dff4", "dff8"}
  <2>1. string_to_param_list(cell) = {} /\ string_to_suffix(cell) = "dff"
    BY <1>3 DEF string_to_param_list, string_to_suffix
  <2>2. QED
    BY <1>1, <2>1 DEF Registered, AfterClock
<1>4. CASE cell = "dffe1"
  <2>1. string_to_param_list(cell) = {"en_i"} /\ string_to_suffix(cell) = "dff_en"
    BY <1>4 DEF string_to_param_list, string_to_suffix
  <2>2. QED
    BY <1>1, <2>1 DEF Registered, AfterClock
<1>5. CASE cell = "dffr1"
  <2>1. string_to_param_list(cell) = {"nreset_i"} /\ string_to_suffix(cell) = "dff_nreset"
    BY <1>5 DEF string_to_param_list, string_to_suffix
  <2>2. QED
    BY <1>1, <2>1 DEF Registered, AfterClock
<1>6. CASE cell \in {"dffre1", "dffre2"}
  <2>1. /\ string_to_param_list(cell) = {"nreset_i", "en_i"}
        /\ string_to_suffix(cell) = "dff_nreset_en"
    BY <1>6 DEF string_to_param_list, string_to_suffix
  <2>2. QED
    BY <1>1, <2>1 DEF Registered, AfterClock
<1>7. QED
  BY <1>2, <1>3, <1>4, <1>5, <1>6

(* The storage under test records what was written; without one, the flops *)
(* and the words stay as they are at first.                                *)
StoredWell ==
  IF unit = "storage" THEN array \in Arrays /\ Recorded
  ELSE array.kind = "dff" /\ reg = held

(* The flops of the next state, written with the array of this one.        *)
RecordedNext ==
  /\ array' = array
  /\ held' \in [Words -> Vector]
  /\ reg' = [w \in Words |-> stored(held'[w])]

(* That is all a step has to show, as the array stays.                     *)
LEMMA StillRecorded ==
  ASSUME RecordedNext
  PROVE  Recorded'
BY DEF RecordedNext, Recorded, Words, Vector, Bits, stored

(* Every storage starts with alike words, recorded.                        *)
LEMMA StorageStarts ==
  ASSUME StorageInit
  PROVE  array \in Arrays /\ Recorded
<1>1. PICK bit \in Bit : held = [w \in Words |-> [b \in Bits |-> bit]]
  BY DEF StorageInit
<1>2. [b \in Bits |-> bit] \in Vector
  BY DEF Vector
<1>3. held \in [Words -> Vector]
  BY <1>1, <1>2
<1>4. QED
  BY <1>3 DEF StorageInit, Recorded

(* A write: the flops of the word addressed take what stores the data.     *)
LEMMA WriteRecords ==
  ASSUME array \in Arrays, Recorded, NEW data_i \in Vector,
         NEW v \in BOOLEAN, NEW addr \in Words, Write(v, addr, data_i)
  PROVE  RecordedNext
<1>1. /\ array' = array
      /\ reg' = [w \in Words |->
                   [b \in Bits |-> dffe(stored(data_i)[b], one_hot(v, addr, w), reg[w][b])]]
      /\ held' = IF v THEN [held EXCEPT ![addr] = data_i] ELSE held
  BY DEF Write
<1>2. held' \in [Words -> Vector]
  BY <1>1 DEF Recorded
<1>3. ASSUME NEW w \in Words
      PROVE  [b \in Bits |-> dffe(stored(data_i)[b], one_hot(v, addr, w), reg[w][b])]
               = stored(held'[w])
  <2>1. PICK s : s = stored(data_i)
    OBVIOUS
  <2>2. PICK r : r = reg[w]
    OBVIOUS
  <2>3. s = [b \in Bits |-> s[b]]
    BY <2>1, StoredBits DEF Vector
  <2>4. r = stored(held[w]) /\ r = [b \in Bits |-> r[b]]
    <3>1. r = stored(held[w]) /\ held[w] \in Vector
      BY <2>2 DEF Recorded
    <3>2. QED
      BY <3>1, StoredBits DEF Vector
  <2>5. CASE v /\ w = addr
    <3>1. held'[w] = data_i
      BY <1>1, <2>5 DEF Recorded
    <3>2. one_hot(v, addr, w) = 1
      BY <2>5 DEF one_hot
    <3>3. [b \in Bits |-> dffe(s[b], 1, r[b])] = [b \in Bits |-> s[b]]
      BY DEF dffe
    <3>4. QED
      BY <2>1, <2>2, <2>3, <3>1, <3>2, <3>3
  <2>6. CASE ~(v /\ w = addr)
    <3>1. held'[w] = held[w]
      BY <1>1, <2>6 DEF Recorded
    <3>2. one_hot(v, addr, w) = 0
      BY <2>6 DEF one_hot
    <3>3. [b \in Bits |-> dffe(s[b], 0, r[b])] = [b \in Bits |-> r[b]]
      BY DEF dffe
    <3>4. QED
      BY <2>1, <2>2, <2>4, <3>1, <3>2, <3>3
  <2>7. QED
    BY <2>5, <2>6
<1>4. QED
  BY <1>1, <1>2, <1>3 DEF RecordedNext

(* Outside large register files the flops hold the words themselves.       *)
LEMMA FlopsAreWords ==
  ASSUME array \in Arrays, ~Large, held \in [Words -> Vector]
  PROVE  /\ Recorded <=> reg = held
         /\ array' = array /\ held' \in [Words -> Vector] /\ reg' = held' => RecordedNext
<1>1. \A d \in Vector : stored(d) = d
  BY StoredBits
<1>2. [w \in Words |-> stored(held[w])] = held
  <2>1. \A w \in Words : stored(held[w]) = held[w]
    BY <1>1
  <2>2. QED
    BY <2>1
<1>3. ASSUME held' \in [Words -> Vector]
      PROVE  [w \in Words |-> stored(held'[w])] = held'
  <2>1. \A w \in Words : stored(held'[w]) = held'[w]
    BY <1>1, <1>3
  <2>2. QED
    BY <1>3, <2>1
<1>4. QED
  BY <1>2, <1>3 DEF Recorded, RecordedNext

(* A shift of the queue's datapath.                                        *)
LEMMA ShiftRecords ==
  ASSUME array \in Arrays, array.kind = "shift", Recorded, NEW data_i \in Vector,
         NEW sel_i \in [Words -> 0 .. 2], Shift(data_i, sel_i)
  PROVE  RecordedNext
<1>1. ~Large /\ array.words \in Nat \ {0} /\ array.bits \in Nat \ {0}
  BY ArraysAssumption DEF Written, Large
<1>2. held \in [Words -> Vector] /\ reg = held
  BY <1>1, FlopsAreWords DEF Recorded
<1>3. PICK words \in Nat \ {0} : words = array.words
  BY <1>1
<1>4. PICK bits \in Nat \ {0} : bits = array.bits
  BY <1>1
<1>5. generate_fifo_shift_array(words, bits, data_i, sel_onehot(sel_i), held)
        = Shifted(data_i, sel_i)
  BY <1>2, <1>3, <1>4, ShiftsWords
<1>6. array' = array /\ reg' = Shifted(data_i, sel_i) /\ held' = Shifted(data_i, sel_i)
  BY <1>2, <1>3, <1>4, <1>5 DEF Shift
<1>7. Shifted(data_i, sel_i) \in [Words -> Vector]
  <2>1. [b \in Bits |-> 0] \in Vector
    BY DEF Vector, Bit
  <2>2. \A w \in Words : sel_i[w] \in 0 .. 2 /\ held[w] \in Vector
    BY <1>2
  <2>3. \A w \in Words : w + 1 \in Words => held[w + 1] \in Vector
    BY <1>2
  <2>4. ASSUME NEW w \in Words
        PROVE  (CASE sel_i[w] = 0 -> held[w]
                  [] sel_i[w] = 1 -> IF w + 1 \in Words THEN held[w + 1] ELSE [b \in Bits |-> 0]
                  [] sel_i[w] = 2 -> data_i) \in Vector
    <3>1. PICK next \in Vector :
            next = IF w + 1 \in Words THEN held[w + 1] ELSE [b \in Bits |-> 0]
      BY <2>1, <2>3
    <3>2. QED
      BY <2>2, <3>1
  <2>5. QED
    BY <2>4 DEF Shifted
<1>8. QED
  BY <1>1, <1>2, <1>6, <1>7, FlopsAreWords

(* A clock edge of a register.                                             *)
LEMMA ClockRecords ==
  ASSUME array \in Arrays, Recorded, NEW data_i \in Vector,
         NEW en_i \in Bit, NEW nreset_i \in Bit, Clock(data_i, en_i, nreset_i)
  PROVE  RecordedNext
<1>1. array.kind = "dff" /\ array' = array
  BY DEF Clock
<1>2. ~Large
  BY <1>1 DEF Large
<1>3. held \in [Words -> Vector] /\ reg = held
  BY <1>2, FlopsAreWords DEF Recorded
<1>4. Words = {0} /\ held[0] \in Vector
  <2>1. array.words = 1
    BY <1>1, PinsArePorts
  <2>2. Words = {0}
    BY <2>1 DEF Words
  <2>3. QED
    BY <1>3, <2>2
<1>5. PICK pins : pins = string_to_param_list(array.cell)
  OBVIOUS
<1>6. PICK d : d = AfterClock(pins, data_i, en_i, nreset_i, held[0])
  OBVIOUS
<1>7. d \in Vector
  <2>1. [b \in Bits |-> 0] \in Vector
    BY DEF Vector, Bit
  <2>2. QED
    BY <1>4, <1>6, <2>1 DEF AfterClock
<1>8. generate_dff_nreset_en(pins, pins, data_i, en_i, nreset_i, held[0]) = d
  BY <1>4, <1>6, CellsClock
<1>9. ASSUME NEW w \in Words
      PROVE  (CASE array.fab = "gf_14" -> gf_14_dff(array.cell, data_i, en_i, nreset_i, reg[w])
                [] array.fab = "tsmc_40" -> tsmc_40_dff(array.cell, data_i, en_i, nreset_i, reg[w])
                [] array.fab = "tsmc_250" -> tsmc_250_dff(array.cell, data_i, en_i, nreset_i, reg[w]))
               = d
  <2>1. reg[w] = held[0]
    BY <1>3, <1>4
  <2>2. array.fab \in {"gf_14", "tsmc_40", "tsmc_250"}
    BY <1>1, PinsArePorts DEF Fabs
  <2>3. CASE array.fab = "gf_14"
    <3>1. gf_14_dff(array.cell, data_i, en_i, nreset_i, reg[w]) = d
      BY <1>1, <1>5, <1>8, <2>1, <2>3, PinsArePorts DEF gf_14_dff
    <3>2. QED
      BY <2>3, <3>1
  <2>4. CASE array.fab = "tsmc_40"
    <3>1. tsmc_40_dff(array.cell, data_i, en_i, nreset_i, reg[w]) = d
      BY <1>1, <1>5, <1>8, <2>1, <2>4, PinsArePorts DEF tsmc_40_dff
    <3>2. QED
      BY <2>4, <3>1
  <2>5. CASE array.fab = "tsmc_250"
    <3>1. tsmc_250_dff(array.cell, data_i, en_i, nreset_i, reg[w]) = d
      BY <1>1, <1>5, <1>8, <2>1, <2>5, PinsArePorts DEF tsmc_250_dff
    <3>2. QED
      BY <2>5, <3>1
  <2>6. QED
    BY <2>2, <2>3, <2>4, <2>5
<1>10. reg' = [w \in Words |-> d]
  BY <1>9 DEF Clock
<1>11. Registered(data_i, en_i, nreset_i) = d
  BY <1>1, <1>5, <1>6, RegisterClocks
<1>12. held' = [w \in Words |-> d]
  BY <1>11 DEF Clock
<1>13. QED
  BY <1>1, <1>2, <1>3, <1>7, <1>10, <1>12, FlopsAreWords

(* So the storage stays well, whatever the other units do.                 *)
LEMMA StoredWellStart == GeneratedInit => StoredWell
<1> SUFFICES ASSUME GeneratedInit PROVE StoredWell
  OBVIOUS
<1>1. CASE unit = "storage"
  BY <1>1, StorageStarts DEF GeneratedInit, StoredWell
<1>2. CASE unit # "storage"
  <2>1. NoStorage
    BY <1>2 DEF GeneratedInit
  <2>2. \E a \in TheArrays : a.kind = "dff"
    <3> DEFINE a == Array("dff", "gf_14", 1, 1, "dff1")
    <3>1. a \in TheArrays
      BY DEF TheArrays, Fabs
    <3>2. a.kind = "dff"
      BY DEF Array
    <3>3. QED
      BY <3>1, <3>2
  <2>3. SomeArray.kind = "dff"
    BY <2>2 DEF SomeArray
  <2>4. QED
    BY <1>2, <2>1, <2>3 DEF NoStorage, StoredWell
<1>3. QED
  BY <1>1, <1>2

(* Every step of the storage, and every step of another unit.              *)
LEMMA StoredWellStep == StoredWell /\ [GeneratedNext]_all => StoredWell'
<1> SUFFICES ASSUME StoredWell, [GeneratedNext]_all PROVE StoredWell'
  OBVIOUS
<1>1. ASSUME UNCHANGED <<unit, array, reg, held>>
      PROVE  StoredWell'
  BY <1>1 DEF StoredWell, Recorded, Words, Vector, Bits, stored
<1>2. CASE UNCHANGED all
  BY <1>1, <1>2 DEF all, storage_vars
<1>3. CASE GeneratedNext /\ unit # "storage"
  <2>1. UNCHANGED unit /\ UNCHANGED storage_vars
    BY <1>3, Zenon DEF GeneratedNext, Arbitrate, OnlyTwo, OnlyProduct, OnlySwitch, OnlyRing
  <2>2. QED
    BY <1>1, <2>1 DEF storage_vars
<1>4. CASE GeneratedNext /\ unit = "storage"
  <2>1. UNCHANGED unit /\ StorageNext
    BY <1>4 DEF GeneratedNext
  <2>2. array \in Arrays /\ Recorded
    BY <1>4 DEF StoredWell
  <2>3. RecordedNext
    <3>1. PICK data_i \in Vector :
            \/ \E v \in BOOLEAN, addr \in Words : Write(v, addr, data_i)
            \/ array.kind = "shift" /\ \E sel_i \in [Words -> 0 .. 2] : Shift(data_i, sel_i)
            \/ \E en_i, nreset_i \in Bit : Clock(data_i, en_i, nreset_i)
      BY <2>1 DEF StorageNext
    <3>2. CASE \E v \in BOOLEAN, addr \in Words : Write(v, addr, data_i)
      BY <2>2, <3>2, WriteRecords
    <3>3. CASE array.kind = "shift" /\ \E sel_i \in [Words -> 0 .. 2] : Shift(data_i, sel_i)
      BY <2>2, <3>3, ShiftRecords
    <3>4. CASE \E en_i, nreset_i \in Bit : Clock(data_i, en_i, nreset_i)
      BY <2>2, <3>4, ClockRecords
    <3>5. QED
      BY <3>1, <3>2, <3>3, <3>4
  <2>4. Recorded'
    BY <2>3, StillRecorded
  <2>5. QED
    BY <1>4, <2>1, <2>2, <2>3, <2>4 DEF RecordedNext, StoredWell
<1>5. QED
  BY <1>2, <1>3, <1>4

LEMMA StoredWellAlways == GeneratedSpec => []StoredWell
BY StoredWellStart, StoredWellStep, PTL DEF GeneratedSpec

(* Whatever was written before, the storage written as cells shows what    *)
(* the memory, the queue or the register it stands for holds: for every    *)
(* array the scripts write, in every process.                              *)
THEOREM StorageOfCells == GeneratedSpec => []StorageMatches
<1>1. StoredWell => StorageMatches
  <2> SUFFICES ASSUME StoredWell PROVE StorageMatches
    OBVIOUS
  <2>1. CASE array.kind # "rf"
    <3>1. CASE unit = "storage"
      <4>1. array \in Arrays /\ Recorded /\ ~Large
        BY <2>1, <3>1 DEF StoredWell, Large
      <4>2. reg = held
        BY <4>1, FlopsAreWords DEF Recorded
      <4>3. QED
        BY <2>1, <4>2, Zenon DEF StorageMatches
    <3>2. CASE unit # "storage"
      <4>1. reg = held
        BY <3>2 DEF StoredWell
      <4>2. QED
        BY <2>1, <4>1, Zenon DEF StorageMatches
    <3>3. QED
      BY <3>1, <3>2
  <2>2. CASE array.kind = "rf"
    <3>1. array \in Arrays /\ Recorded
      BY <2>2 DEF StoredWell
    <3>2. array.words \in Nat \ {0} /\ array.ports \in Nat \ {0}
      BY <2>2, <3>1, ArraysAssumption DEF Written
    <3>3. ASSUME NEW a \in Words
          PROVE  [p \in 0 .. array.ports - 1 |-> (a + p) % array.words]
                   \in [0 .. array.ports - 1 -> Words]
      BY <3>2 DEF Words
    <3>4. ASSUME NEW a \in Words, NEW addr,
                 addr = [p \in 0 .. array.ports - 1 |-> (a + p) % array.words],
                 NEW p \in 0 .. array.ports - 1, NEW b \in Bits
          PROVE  data_o(read_sel(addr))[p * array.bits + b] = held[addr[p]][b]
      <4>1. addr \in [0 .. array.ports - 1 -> Words]
        BY <3>3, <3>4
      <4>2. QED
        BY <2>2, <3>1, <4>1, FileReads
    <3>5. ASSUME NEW a \in Words, NEW p \in 0 .. array.ports - 1, NEW b \in Bits
          PROVE  LET addr == [q \in 0 .. array.ports - 1 |-> (a + q) % array.words]
                 IN  data_o(read_sel(addr))[p * array.bits + b] = held[addr[p]][b]
      BY <3>4, Zenon
    <3>6. QED
      BY <2>2, <3>5, Zenon DEF StorageMatches
  <2>3. QED
    BY <2>1, <2>2
<1>2. QED
  BY <1>1, StoredWellAlways, PTL

(* The rows of a column, of eight, sixteen or thirty-two words: a cell is  *)
(* found by its row.                                                       *)
LEMMA RowsApart ==
  ASSUME NEW words \in {8, 16, 32}, NEW p,
         NEW c \in placement(words, p), NEW d \in placement(words, p), c[3] = d[3]
  PROVE  c = d
<1> DEFINE Even == {w \in 0 .. words - 1 : w % 2 = 0}
           Eighth == {w \in 0 .. words - 1 : w % 8 = 0}
           Sixteenth == {w \in 0 .. words - 1 : w % 16 = 0}
           Last == nand2_row(words)
           Kind(e) ==
             \/ e = <<"inv_in", 0, 1>>
             \/ \E w \in Even : e = <<"aoi22", w, w>>
             \/ \E w \in Eighth : e = <<"nand4", w, w + 3>>
             \/ words >= 16 /\ \E w \in Sixteenth : e = <<"nor2", w, w + 7>>
             \/ words >= 16 /\ e = <<"nand2", 0, Last>>
             \/ e = <<"inv_out", 0, words - 1>>
<1>1. ASSUME NEW e \in placement(words, p) PROVE Kind(e)
  BY <1>1 DEF placement
<1>2. words >= 16 => (words = 16 /\ Last = 13) \/ (words = 32 /\ Last = 15)
  BY DEF nand2_row
<1> HIDE DEF Last
<1>3. Kind(c) /\ Kind(d)
  BY <1>1
<1>4. QED
  BY <1>2, <1>3

(* Every cell of a column has its row.                                     *)
LEMMA RowsInside ==
  ASSUME NEW words \in {8, 16, 32}, NEW p, NEW c \in placement(words, p)
  PROVE  c[3] \in 0 .. words - 1
<1> DEFINE Even == {w \in 0 .. words - 1 : w % 2 = 0}
           Eighth == {w \in 0 .. words - 1 : w % 8 = 0}
           Sixteenth == {w \in 0 .. words - 1 : w % 16 = 0}
           Last == nand2_row(words)
<1>1. \/ c = <<"inv_in", 0, 1>>
      \/ \E w \in Even : c = <<"aoi22", w, w>>
      \/ \E w \in Eighth : c = <<"nand4", w, w + 3>>
      \/ words >= 16 /\ \E w \in Sixteenth : c = <<"nor2", w, w + 7>>
      \/ words >= 16 /\ c = <<"nand2", 0, Last>>
      \/ c = <<"inv_out", 0, words - 1>>
  BY DEF placement
<1>2. words >= 16 => (words = 16 /\ Last = 13) \/ (words = 32 /\ Last = 15)
  BY DEF nand2_row
<1> HIDE DEF Last
<1>3. QED
  BY <1>1, <1>2

(* When no two have the same row, there are as many rows as cells.         *)
LEMMA AsManyRows ==
  ASSUME NEW cells, NEW n \in Nat,
         \A c \in cells : c[3] \in 0 .. n - 1,
         \A c, d \in cells : c[3] = d[3] => c = d
  PROVE  Cardinality(cells) = Cardinality({c[3] : c \in cells})
<1> DEFINE Rows == {c[3] : c \in cells}
           cell == [r \in Rows |-> CHOOSE c \in cells : c[3] = r]
<1>1. IsFiniteSet(Rows)
  <2>1. 0 \in Int /\ n - 1 \in Int
    OBVIOUS
  <2>2. IsFiniteSet(0 .. n - 1)
    BY <2>1, FS_Interval
  <2>3. Rows \in SUBSET (0 .. n - 1)
    OBVIOUS
  <2>4. QED
    BY <2>2, <2>3, FS_Subset
<1>2. ASSUME NEW r \in Rows
      PROVE  cell[r] \in cells /\ cell[r][3] = r
  <2>1. \E c \in cells : c[3] = r
    OBVIOUS
  <2>2. QED
    BY <2>1
<1>3. ASSUME NEW c \in cells PROVE c[3] \in Rows /\ cell[c[3]] = c
  <2>1. c[3] \in Rows
    OBVIOUS
  <2>2. QED
    BY <1>2, <2>1
<1>4. cell \in [Rows -> cells]
  BY <1>2
<1>5. \A r, s \in Rows : cell[r] = cell[s] => r = s
  <2> SUFFICES ASSUME NEW r \in Rows, NEW s \in Rows, cell[r] = cell[s] PROVE r = s
    OBVIOUS
  <2>1. cell[r][3] = r /\ cell[s][3] = s
    BY <1>2
  <2>2. QED
    BY <2>1
<1>6. \A c \in cells : \E r \in Rows : cell[r] = c
  BY <1>3
<1> HIDE DEF cell, Rows
<1>7. ExistsBijection(Rows, cells)
  BY <1>4, <1>5, <1>6 DEF ExistsBijection, Bijection, Injection, Surjection, IsInjective
<1>8. Cardinality(cells) = Cardinality(Rows)
  BY <1>1, <1>7, FS_Bijection
<1>9. QED
  BY <1>8 DEF Rows

(* The gates of a column of a register file each have a row of their own,  *)
(* within the height of the column: for every number of words and of read  *)
(* ports the script takes.                                                 *)
THEOREM EveryCellHasASlot == GeneratedSpec => []OneCellPerSlot
<1>1. StoredWell => OneCellPerSlot
  <2> SUFFICES ASSUME StoredWell, array.kind = "rf" /\ array.words >= 8,
                      NEW p \in 0 .. array.ports - 1
               PROVE  LET cells == placement(array.words, p)
                      IN  /\ \A c \in cells : c[3] \in Words
                          /\ Cardinality(cells) = Cardinality({c[3] : c \in cells})
    BY Zenon DEF OneCellPerSlot
  <2>1. PICK words \in {8, 16, 32} : words = array.words
    <3>1. array \in Arrays
      BY DEF StoredWell
    <3>2. QED
      BY <3>1, ArraysAssumption DEF Written
  <2>2. PICK cells : cells = placement(words, p)
    OBVIOUS
  <2>3. \A c \in cells : c[3] \in 0 .. words - 1
    BY <2>2, RowsInside
  <2>4. \A c, d \in cells : c[3] = d[3] => c = d
    BY <2>2, RowsApart
  <2>5. Cardinality(cells) = Cardinality({c[3] : c \in cells})
    BY <2>1, <2>3, <2>4, AsManyRows
  <2>6. QED
    BY <2>1, <2>2, <2>3, <2>5 DEF Words
<1>2. QED
  BY <1>1, StoredWellAlways, PTL

-----------------------------------------------------------------------------
(* The combinational cells, for every width.                               *)

(* Two to four inputs, each gated by its select, joined: the chosen one.   *)
GatedBy(gate, in, s) == gate = IF in = 1 /\ s = 1 THEN 0 ELSE 1

AllGated(lo, inputs, d, chosen) ==
  /\ lo = [w \in 1 .. inputs |-> lo[w]]
  /\ \A w \in 1 .. inputs : GatedBy(lo[w], d[w - 1], IF w - 1 = chosen THEN 1 ELSE 0)

(* The joining gate shows it.                                              *)
LEMMA JoinerShows ==
  ASSUME NEW inputs \in 2 .. 4, NEW join \in Nands, NEW lo,
         NEW chosen \in 0 .. inputs - 1, NEW d \in [0 .. inputs - 1 -> Bit],
         AllGated(lo, inputs, d, chosen)
  PROVE  Gate(join, lo) = d[chosen]
<1>1. Gate(join, lo) = IF lo \in AllOnes THEN 0 ELSE 1
  BY NandGate
<1>2. lo \in AllOnes <=> \A w \in 1 .. inputs : lo[w] = 1
  <2>1. inputs \in 1 .. 4
    OBVIOUS
  <2>2. QED
    BY <2>1, PinsOnes DEF AllGated
<1>3. chosen + 1 \in 1 .. inputs /\ (chosen + 1) - 1 = chosen
  OBVIOUS
<1>4. lo[chosen + 1] = IF d[chosen] = 1 THEN 0 ELSE 1
  BY <1>3 DEF GatedBy, AllGated
<1>5. \A w \in 1 .. inputs : w # chosen + 1 => lo[w] = 1
  BY DEF GatedBy, AllGated
<1>6. lo \in AllOnes <=> d[chosen] # 1
  BY <1>2, <1>3, <1>4, <1>5
<1>7. d[chosen] \in Bit
  OBVIOUS
<1>8. QED
  BY <1>1, <1>6, <1>7 DEF Bit

(* The cells of a mux are NANDs.                                           *)
MuxCells(cells) == cells.nand2 \in Nands /\ cells.nand3 \in Nands /\ cells.nand4 \in Nands

LEMMA EveryMuxCell ==
  MuxCells(gf_14_mux) /\ MuxCells(tsmc_40_mux) /\ MuxCells(tsmc_250_mux)
<1>1. MuxCells(gf_14_mux)
  BY DEF MuxCells, Nands, gf_14_mux
<1>2. MuxCells(tsmc_40_mux)
  BY DEF MuxCells, Nands, tsmc_40_mux
<1>3. MuxCells(tsmc_250_mux)
  BY DEF MuxCells, Nands, tsmc_250_mux
<1>4. QED
  BY <1>1, <1>2, <1>3

(* A mux of such cells selects, whatever the width of its inputs.          *)
Selected(cells, inputs, bits, data_i, chosen) ==
  generate_mux_shift(cells, inputs, bits, data_i,
                     [w \in 0 .. inputs - 1 |-> IF w = chosen THEN 1 ELSE 0])
    = [b \in 0 .. bits - 1 |-> data_i[bits * chosen + b]]

(* For every input and every choice.                                       *)
LEMMA MuxShows ==
  ASSUME NEW cells, MuxCells(cells), NEW inputs \in 2 .. 4, NEW bits \in Nat,
         NEW data_i \in [0 .. inputs * bits - 1 -> Bit], NEW chosen \in 0 .. inputs - 1
  PROVE  Selected(cells, inputs, bits, data_i, chosen)
<1> DEFINE one == [w \in 0 .. inputs - 1 |-> IF w = chosen THEN 1 ELSE 0]
           lo(b) == [w \in 1 .. inputs |->
                       Gate(cells.nand2, <<data_i[bits * (w - 1) + b], one[w - 1]>>)]
<1>1. Joiner(cells, inputs) \in Nands
  BY DEF Joiner, MuxCells
<1>2. cells.nand2 \in Nands
  BY DEF MuxCells
<1>3. ASSUME NEW b \in 0 .. bits - 1
      PROVE  Gate(Joiner(cells, inputs), lo(b)) = data_i[bits * chosen + b]
  <2>1. PICK d : d = [w \in 0 .. inputs - 1 |-> data_i[bits * w + b]]
    OBVIOUS
  <2>2. d \in [0 .. inputs - 1 -> Bit] /\ d[chosen] = data_i[bits * chosen + b]
    <3>1. ASSUME NEW w \in 0 .. inputs - 1
          PROVE  bits * w + b \in 0 .. inputs * bits - 1
      <4>1. bits * w <= bits * (inputs - 1)
        BY w <= inputs - 1
      <4>2. bits * (inputs - 1) = inputs * bits - bits
        OBVIOUS
      <4>3. QED
        BY <4>1, <4>2
    <3>2. QED
      BY <2>1, <3>1
  <2>3. ASSUME NEW w \in 1 .. inputs
        PROVE  GatedBy(lo(b)[w], d[w - 1], IF w - 1 = chosen THEN 1 ELSE 0)
    <3>1. PICK u \in 0 .. inputs - 1 : u = w - 1
      OBVIOUS
    <3>2. PICK x : x = data_i[bits * u + b]
      OBVIOUS
    <3>3. PICK s : s = one[u]
      OBVIOUS
    <3>4. lo(b)[w] = Gate(cells.nand2, <<x, s>>)
      BY <3>1, <3>2, <3>3
    <3>5. Gate(cells.nand2, <<x, s>>) = IF x = 1 /\ s = 1 THEN 0 ELSE 1
      BY <1>2, Nand2
    <3>6. d[u] = x /\ s = IF u = chosen THEN 1 ELSE 0
      BY <2>1, <3>2, <3>3
    <3>7. QED
      BY <3>1, <3>4, <3>5, <3>6 DEF GatedBy
  <2>4. lo(b) = [w \in 1 .. inputs |-> lo(b)[w]]
    OBVIOUS
  <2> HIDE DEF lo
  <2>5. AllGated(lo(b), inputs, d, chosen)
    BY <2>3, <2>4 DEF AllGated
  <2>6. PICK join \in Nands : join = Joiner(cells, inputs)
    BY <1>1
  <2>7. PICK gates : gates = lo(b)
    OBVIOUS
  <2>8. AllGated(gates, inputs, d, chosen) /\ d \in [0 .. inputs - 1 -> Bit]
    BY <2>2, <2>5, <2>7
  <2>9. Gate(join, gates) = d[chosen]
    BY <2>8, JoinerShows
  <2>10. QED
    BY <2>2, <2>6, <2>7, <2>9
<1>4. generate_mux_shift(cells, inputs, bits, data_i, one)
        = [b \in 0 .. bits - 1 |-> Gate(Joiner(cells, inputs), lo(b))]
  BY Zenon DEF generate_mux_shift
<1>5. QED
  BY <1>3, <1>4 DEF Selected

(* In every process, muxes of two to four inputs of any width select what  *)
(* the unhardened mux selects.                                             *)
THEOREM MuxesSelect ==
  ASSUME NEW inputs \in 2 .. 4, NEW bits \in Nat
  PROVE  /\ MuxSelects(gf_14_mux_shift, inputs, bits)
         /\ MuxSelects(tsmc_40_mux_shift, inputs, bits)
         /\ MuxSelects(tsmc_250_mux_shift, inputs, bits)
<1>1. ASSUME NEW cells, MuxCells(cells)
      PROVE  \A data_i \in [0 .. inputs * bits - 1 -> Bit], chosen \in 0 .. inputs - 1 :
               Selected(cells, inputs, bits, data_i, chosen)
  BY <1>1, MuxShows
<1>2. MuxSelects(gf_14_mux_shift, inputs, bits)
  <2>1. \A data_i \in [0 .. inputs * bits - 1 -> Bit], chosen \in 0 .. inputs - 1 :
          Selected(gf_14_mux, inputs, bits, data_i, chosen)
    BY <1>1, EveryMuxCell
  <2>2. QED
    BY <2>1, Zenon DEF MuxSelects, gf_14_mux_shift, Selected
<1>3. MuxSelects(tsmc_40_mux_shift, inputs, bits)
  <2>1. \A data_i \in [0 .. inputs * bits - 1 -> Bit], chosen \in 0 .. inputs - 1 :
          Selected(tsmc_40_mux, inputs, bits, data_i, chosen)
    BY <1>1, EveryMuxCell
  <2>2. QED
    BY <2>1, Zenon DEF MuxSelects, tsmc_40_mux_shift, Selected
<1>4. MuxSelects(tsmc_250_mux_shift, inputs, bits)
  <2>1. \A data_i \in [0 .. inputs * bits - 1 -> Bit], chosen \in 0 .. inputs - 1 :
          Selected(tsmc_250_mux, inputs, bits, data_i, chosen)
    BY <1>1, EveryMuxCell
  <2>2. QED
    BY <2>1, Zenon DEF MuxSelects, tsmc_250_mux_shift, Selected
<1>5. QED
  BY <1>2, <1>3, <1>4

(* Gates of the reductions, on vectors of two to four inputs.              *)
LEMMA NandOfMany ==
  ASSUME NEW c \in Nands, NEW n \in 2 .. 4, NEW v, v = [k \in 1 .. n |-> v[k]]
  PROVE  Gate(c, v) = IF \A k \in 1 .. n : v[k] = 1 THEN 0 ELSE 1
<1>1. Gate(c, v) = IF v \in AllOnes THEN 0 ELSE 1
  BY NandGate
<1>2. n \in 1 .. 4
  OBVIOUS
<1>3. v \in AllOnes <=> \A k \in 1 .. n : v[k] = 1
  BY <1>2, PinsOnes
<1>4. QED
  BY <1>1, <1>3

LEMMA NorOfMany ==
  ASSUME NEW c \in Nors, NEW n \in 2 .. 4, NEW v, v = [k \in 1 .. n |-> v[k]]
  PROVE  Gate(c, v) = IF \A k \in 1 .. n : v[k] = 0 THEN 1 ELSE 0
<1>1. Gate(c, v) = IF v \in AllZeros THEN 1 ELSE 0
  BY NorGate
<1>2. n \in 1 .. 4
  OBVIOUS
<1>3. v \in AllZeros <=> \A k \in 1 .. n : v[k] = 0
  BY <1>2, PinsOnes
<1>4. QED
  BY <1>1, <1>3

(* The cells of a reduction, by their number of inputs.                    *)
ReduceCells(nand, nor) == \A n \in 2 .. 4 : nand[n] \in Nands /\ nor[n] \in Nors

LEMMA EveryReduceCell ==
  /\ ReduceCells(gf_14_nand, gf_14_nor)
  /\ ReduceCells(tsmc_40_nand, tsmc_40_nor)
  /\ ReduceCells(tsmc_250_nand, tsmc_250_nor)
<1>1. ASSUME NEW n \in 2 .. 4 PROVE n = 2 \/ n = 3 \/ n = 4
  OBVIOUS
<1>2. ReduceCells(gf_14_nand, gf_14_nor)
  <2>1. gf_14_nand[2] \in Nands /\ gf_14_nand[3] \in Nands /\ gf_14_nand[4] \in Nands
    BY DEF gf_14_nand, Nands
  <2>2. gf_14_nor[2] \in Nors /\ gf_14_nor[3] \in Nors /\ gf_14_nor[4] \in Nors
    BY DEF gf_14_nor, Nors
  <2>3. QED
    BY <1>1, <2>1, <2>2 DEF ReduceCells
<1>3. ReduceCells(tsmc_40_nand, tsmc_40_nor)
  <2>1. tsmc_40_nand[2] \in Nands /\ tsmc_40_nand[3] \in Nands /\ tsmc_40_nand[4] \in Nands
    BY DEF tsmc_40_nand, Nands
  <2>2. tsmc_40_nor[2] \in Nors /\ tsmc_40_nor[3] \in Nors /\ tsmc_40_nor[4] \in Nors
    BY DEF tsmc_40_nor, Nors
  <2>3. QED
    BY <1>1, <2>1, <2>2 DEF ReduceCells
<1>4. ReduceCells(tsmc_250_nand, tsmc_250_nor)
  <2>1. tsmc_250_nand[2] \in Nands /\ tsmc_250_nand[3] \in Nands /\ tsmc_250_nand[4] \in Nands
    BY DEF tsmc_250_nand, Nands
  <2>2. tsmc_250_nor[2] \in Nors /\ tsmc_250_nor[3] \in Nors /\ tsmc_250_nor[4] \in Nors
    BY DEF tsmc_250_nor, Nors
  <2>3. QED
    BY <1>1, <2>1, <2>2 DEF ReduceCells
<1>5. QED
  BY <1>2, <1>3, <1>4

(* Every width is a number of groups of one size.                          *)
LEMMA Groups ==
  ASSUME NEW w \in DOMAIN Grouping
  PROVE  /\ Grouping[w].groups \in 2 .. 4 /\ Grouping[w].size \in 2 .. 4
         /\ w = Grouping[w].groups * Grouping[w].size
<1>1. w \in {4, 6, 8, 9, 12, 16}
  BY DEF Grouping
<1>2. CASE w = 4
  BY <1>2 DEF Grouping
<1>3. CASE w = 6
  BY <1>3 DEF Grouping
<1>4. CASE w = 8
  BY <1>4 DEF Grouping
<1>5. CASE w = 9
  BY <1>5 DEF Grouping
<1>6. CASE w = 12
  BY <1>6 DEF Grouping
<1>7. CASE w = 16
  BY <1>7 DEF Grouping
<1>8. QED
  BY <1>1, <1>2, <1>3, <1>4, <1>5, <1>6, <1>7

(* A reduction of such cells is one when all its inputs are.               *)
Reduced(nand, nor, w, i) ==
  ReduceAnd(nand, nor, w, i) = IF \A x \in 0 .. w - 1 : i[x] = 1 THEN 1 ELSE 0

(* Whatever its inputs are.                                                *)
LEMMA ReduceShows ==
  ASSUME NEW nand, NEW nor, ReduceCells(nand, nor), NEW w \in DOMAIN Grouping, NEW i
  PROVE  Reduced(nand, nor, w, i)
<1>1. PICK g : g = Grouping[w]
  OBVIOUS
<1>2. PICK n \in 2 .. 4 : n = g.groups
  BY <1>1, Groups
<1>3. PICK m \in 2 .. 4 : m = g.size
  BY <1>1, Groups
<1>4. w = n * m
  BY <1>1, <1>2, <1>3, Groups
<1> DEFINE ins(k) == [x \in 1 .. m |-> i[m * (k - 1) + x - 1]]
           lo(k) == Gate(nand[m], ins(k))
           los == [k \in 1 .. n |-> lo(k)]
<1>5. ReduceAnd(nand, nor, w, i) = Gate(nor[n], los)
  BY <1>1, <1>2, <1>3 DEF ReduceAnd
<1>6. nand[m] \in Nands /\ nor[n] \in Nors
  BY DEF ReduceCells
<1>7. ASSUME NEW k \in 1 .. n
      PROVE  los[k] = 0 <=> \A x \in 1 .. m : i[m * (k - 1) + x - 1] = 1
  <2>1. PICK v : v = ins(k)
    OBVIOUS
  <2>2. v = [x \in 1 .. m |-> v[x]] /\ \A x \in 1 .. m : v[x] = i[m * (k - 1) + x - 1]
    BY <2>1
  <2>3. Gate(nand[m], v) = IF \A x \in 1 .. m : v[x] = 1 THEN 0 ELSE 1
    BY <1>6, <2>2, NandOfMany
  <2>4. los[k] = Gate(nand[m], v)
    BY <2>1
  <2>5. (\A x \in 1 .. m : v[x] = 1) <=> \A x \in 1 .. m : i[m * (k - 1) + x - 1] = 1
    <3>1. ASSUME NEW x \in 1 .. m
          PROVE  v[x] = 1 <=> i[m * (k - 1) + x - 1] = 1
      BY <2>2
    <3>2. QED
      BY <3>1, Zenon
  <2>6. Gate(nand[m], v) = 0 <=> \A x \in 1 .. m : v[x] = 1
    BY <2>3
  <2>7. QED
    BY <2>4, <2>5, <2>6
<1>8. los = [k \in 1 .. n |-> los[k]]
  OBVIOUS
<1> HIDE DEF los, lo
<1>9. Gate(nor[n], los) = IF \A k \in 1 .. n : los[k] = 0 THEN 1 ELSE 0
  BY <1>6, <1>8, NorOfMany
<1>10. (\A k \in 1 .. n : los[k] = 0) <=> (\A x \in 0 .. w - 1 : i[x] = 1)
  <2>1. ASSUME \A k \in 1 .. n : los[k] = 0, NEW x \in 0 .. w - 1
        PROVE  i[x] = 1
    <3>1. PICK k \in 1 .. n, y \in 1 .. m : x = m * (k - 1) + y - 1
      <4>1. PICK k \in 1 .. n : m * (k - 1) <= x /\ x <= m * (k - 1) + m - 1
        BY <1>4
      <4>2. x - m * (k - 1) + 1 \in 1 .. m
        BY <4>1
      <4>3. x = m * (k - 1) + (x - m * (k - 1) + 1) - 1
        BY <4>1
      <4>4. QED
        BY <4>2, <4>3
    <3>2. QED
      BY <1>7, <2>1, <3>1
  <2>2. ASSUME \A x \in 0 .. w - 1 : i[x] = 1, NEW k \in 1 .. n
        PROVE  los[k] = 0
    <3>1. ASSUME NEW y \in 1 .. m PROVE m * (k - 1) + y - 1 \in 0 .. w - 1
      <4>1. m * (k - 1) \in Nat /\ m * (k - 1) <= m * (n - 1) /\ m * (n - 1) = w - m
        BY <1>4
      <4>2. PICK t \in Nat : t = m * (k - 1)
        BY <4>1
      <4>3. t <= w - m /\ w \in Nat
        BY <1>4, <4>1, <4>2
      <4>4. t + y - 1 \in 0 .. w - 1
        BY <4>3
      <4>5. QED
        BY <4>2, <4>4
    <3>2. QED
      BY <1>7, <2>2, <3>1
  <2>3. QED
    BY <2>1, <2>2
<1>11. QED
  BY <1>5, <1>9, <1>10 DEF Reduced

(* In every process, reductions of every width are the AND of all inputs.  *)
THEOREM ReductionsReduce ==
  ASSUME NEW w \in DOMAIN Grouping, NEW i
  PROVE  LET all_ones == IF \A x \in 0 .. w - 1 : i[x] = 1 THEN 1 ELSE 0
         IN  /\ gf_14_reduce_and(w, i) = all_ones
             /\ tsmc_40_reduce_and(w, i) = all_ones
             /\ tsmc_250_reduce_and(w, i) = all_ones
BY EveryReduceCell, ReduceShows
   DEF Reduced, gf_14_reduce_and, tsmc_40_reduce_and, tsmc_250_reduce_and

(* What a reduction makes of a vector without the zeros at places j and k. *)
LEMMA ReducesBut ==
  ASSUME NEW w \in DOMAIN Grouping
  PROVE  /\ ReducesAll(gf_14_reduce_and, w)
         /\ ReducesAll(tsmc_40_reduce_and, w)
         /\ ReducesAll(tsmc_250_reduce_and, w)
<1> DEFINE but(j, k) == [x \in 0 .. w - 1 |-> IF x \in {j, k} THEN 0 ELSE 1]
           all_ones(i) == IF \A x \in 0 .. w - 1 : i[x] = 1 THEN 1 ELSE 0
<1>1. \A j, k \in 0 .. w : all_ones(but(j, k)) = IF j = w /\ k = w THEN 1 ELSE 0
  <2>1. w \in Nat
    BY DEF Grouping
  <2>2. QED
    BY <2>1
<1>2. \A i : /\ gf_14_reduce_and(w, i) = all_ones(i)
             /\ tsmc_40_reduce_and(w, i) = all_ones(i)
             /\ tsmc_250_reduce_and(w, i) = all_ones(i)
  BY ReductionsReduce
<1>3. \A j, k : /\ gf_14_reduce_and(w, but(j, k)) = all_ones(but(j, k))
                /\ tsmc_40_reduce_and(w, but(j, k)) = all_ones(but(j, k))
                /\ tsmc_250_reduce_and(w, but(j, k)) = all_ones(but(j, k))
  BY <1>2, Zenon
<1> HIDE DEF all_ones, but
<1>4. ASSUME NEW j \in 0 .. w, NEW k \in 0 .. w
      PROVE  /\ gf_14_reduce_and(w, but(j, k)) = IF j = w /\ k = w THEN 1 ELSE 0
             /\ tsmc_40_reduce_and(w, but(j, k)) = IF j = w /\ k = w THEN 1 ELSE 0
             /\ tsmc_250_reduce_and(w, but(j, k)) = IF j = w /\ k = w THEN 1 ELSE 0
  BY <1>1, <1>3
<1>5. ReducesAll(gf_14_reduce_and, w)
  BY <1>4, Zenon DEF ReducesAll, but
<1>6. ReducesAll(tsmc_40_reduce_and, w)
  BY <1>4, Zenon DEF ReducesAll, but
<1>7. ReducesAll(tsmc_250_reduce_and, w)
  BY <1>4, Zenon DEF ReducesAll, but
<1>8. QED
  BY <1>5, <1>6, <1>7

(* The netlist under test is one of those, and stays.                      *)
NetlistWritten == netlist \in Netlists \cup {Nothing}

(* Every mux, reduction and row of adders of cells computes what its       *)
(* unhardened module does.                                                 *)
THEOREM CellsCompute == GeneratedSpec => []CellsMatch
<1>1. GeneratedInit => NetlistWritten
  BY DEF GeneratedInit, NetlistWritten
<1>2. NetlistWritten /\ [GeneratedNext]_all => NetlistWritten'
  <2> SUFFICES ASSUME NetlistWritten, [GeneratedNext]_all PROVE NetlistWritten'
    OBVIOUS
  <2>1. netlist' = netlist
    <3>1. CASE UNCHANGED all
      BY <3>1 DEF all
    <3>2. CASE GeneratedNext
      BY <3>2, Zenon DEF GeneratedNext, Arbitrate, OnlyTwo, OnlyStorage, OnlyProduct,
                         OnlySwitch, OnlyRing
    <3>3. QED
      BY <3>1, <3>2
  <2>2. QED
    BY <2>1 DEF NetlistWritten
<1>3. NetlistWritten => CellsMatch
  <2> SUFFICES ASSUME NetlistWritten PROVE CellsMatch
    OBVIOUS
  <2>1. CASE netlist = Nothing
    <3>1. netlist.kind = "none"
      BY <2>1 DEF Nothing
    <3>2. QED
      BY <3>1 DEF CellsMatch
  <2>2. CASE netlist \in {[kind |-> "mux", fab |-> f, inputs |-> n] : f \in Fabs, n \in 2 .. 4}
    <3>1. PICK f \in Fabs, n \in 2 .. 4 : netlist = [kind |-> "mux", fab |-> f, inputs |-> n]
      BY <2>2
    <3>2. netlist.kind = "mux" /\ netlist.fab = f /\ netlist.inputs = n
      BY <3>1
    <3>3. /\ MuxSelects(gf_14_mux_shift, n, 2) /\ MuxSelects(tsmc_40_mux_shift, n, 2)
          /\ MuxSelects(tsmc_250_mux_shift, n, 2)
      BY MuxesSelect
    <3>4. QED
      BY <3>2, <3>3 DEF CellsMatch, Fabs
  <2>3. CASE netlist \in {[kind |-> "reduce", fab |-> f, width |-> w] :
                            f \in Fabs, w \in DOMAIN Grouping}
    <3>1. PICK f \in Fabs, w \in DOMAIN Grouping :
            netlist = [kind |-> "reduce", fab |-> f, width |-> w]
      BY <2>3
    <3>2. netlist.kind = "reduce" /\ netlist.fab = f /\ netlist.width = w
      BY <3>1
    <3>3. /\ ReducesAll(gf_14_reduce_and, w) /\ ReducesAll(tsmc_40_reduce_and, w)
          /\ ReducesAll(tsmc_250_reduce_and, w)
      BY ReducesBut
    <3>4. QED
      BY <3>2, <3>3 DEF CellsMatch, Fabs
  <2>4. CASE netlist \in {[kind |-> "and_csa", rows |-> r] : r \in 5 .. 8}
    <3>1. PICK r \in 5 .. 8 : netlist = [kind |-> "and_csa", rows |-> r]
      BY <2>4
    <3>2. netlist.kind = "and_csa" /\ netlist.rows = r
      BY <3>1
    <3>3. AddsWithAnd(r)
      BY AddersWithAnd
    <3>4. QED
      BY <3>2, <3>3 DEF CellsMatch
  <2>5. QED
    BY <2>1, <2>2, <2>3, <2>4 DEF NetlistWritten, Netlists
<1>4. QED
  BY <1>1, <1>2, <1>3, PTL DEF GeneratedSpec
=============================================================================
