-------------------------- MODULE CordicPipeProofs --------------------------
(***************************************************************************)
(* Proofs about the pipeline of a generated CORDIC unit, for every number  *)
(* of stages that the scripts can wire and every behaviour of the receiver.*)
(***************************************************************************)
EXTENDS CordicPipe, TLAPS

\* The iteration between register n - 1 and register n of a hyperbolic unit.
HypIter(neg, n) == IF n <= neg + 5 THEN n - 1 ELSE n - 2

(***************************************************************************)
(* The three generate branches of the hyperbolic scripts give every        *)
(* register one driver, the register before it, as long as there are four  *)
(* to eleven positive stages.                                              *)
(***************************************************************************)
THEOREM OneDriver ==
  ASSUME NEW neg \in Nat, NEW pos \in 4..11, NEW n \in 1..hyperbolic_last(neg, pos)
  PROVE  hyperbolic_drivers(neg, pos, n) = {wire(n - 1, HypIter(neg, n))}
<1>0. neg \in Int /\ pos \in Int /\ n \in Int /\ 0 <= neg /\ 4 <= pos /\ pos <= 11 /\ 1 <= n /\ n <= neg + pos + 2
  BY DEF hyperbolic_last
<1>1. CASE n <= neg + 1
  <2>1. stage_neg(neg, n) = {wire(n - 1, n - 1)}
    BY <1>0, <1>1 DEF stage_neg
  <2>2. stage_pos_twice(neg, pos, n) = {}
    BY <1>0, <1>1 DEF stage_pos_twice
  <2>3. stage_pos_after(neg, pos, n) = {} /\ stage_pos_before(neg, pos, n) = {}
    BY <1>0, <1>1 DEF stage_pos_after, stage_pos_before
  <2> QED BY <2>1, <2>2, <2>3, <1>0, <1>1 DEF hyperbolic_drivers, HypIter
<1>2. CASE neg + 2 <= n /\ n <= neg + 4
  <2>1. stage_neg(neg, n) = {}
    BY <1>0, <1>2 DEF stage_neg
  <2>2. stage_pos_twice(neg, pos, n) = {}
    BY <1>0, <1>2 DEF stage_pos_twice, Repeated
  <2>3. stage_pos_after(neg, pos, n) = {}
    BY <1>0, <1>2 DEF stage_pos_after
  <2>4. stage_pos_before(neg, pos, n) = {wire(n - 1, n - 1)}
    <3>1. {i \in {n - 1} \cap (neg + 1)..(neg + pos) : ~Repeated(neg, pos, i) /\ i < neg + 4} = {n - 1}
      BY <1>0, <1>2 DEF Repeated
    <3> QED BY <3>1 DEF stage_pos_before
  <2> QED BY <2>1, <2>2, <2>3, <2>4, <1>0, <1>2 DEF hyperbolic_drivers, HypIter
<1>3. CASE n = neg + 5
  <2>1. stage_neg(neg, n) = {}
    BY <1>0, <1>3 DEF stage_neg
  <2>2. stage_pos_twice(neg, pos, n) = {wire(n - 1, n - 1)}
    <3>1. {i \in {n - 1} \cap (neg + 1)..(neg + pos) : Repeated(neg, pos, i)} = {n - 1}
      BY <1>0, <1>3 DEF Repeated
    <3>2. {i \in {n - 2} \cap (neg + 1)..(neg + pos) : Repeated(neg, pos, i)} = {}
      BY <1>0, <1>3 DEF Repeated
    <3> QED BY <3>1, <3>2 DEF stage_pos_twice
  <2>3. stage_pos_after(neg, pos, n) = {} /\ stage_pos_before(neg, pos, n) = {}
    BY <1>0, <1>3 DEF stage_pos_after, stage_pos_before
  <2> QED BY <2>1, <2>2, <2>3, <1>0, <1>3 DEF hyperbolic_drivers, HypIter
<1>4. CASE n = neg + 6
  <2>1. stage_neg(neg, n) = {}
    BY <1>0, <1>4 DEF stage_neg
  <2>2. stage_pos_twice(neg, pos, n) = {wire(n - 1, n - 2)}
    <3>1. {i \in {n - 1} \cap (neg + 1)..(neg + pos) : Repeated(neg, pos, i)} = {}
      BY <1>0, <1>4 DEF Repeated
    <3>2. {i \in {n - 2} \cap (neg + 1)..(neg + pos) : Repeated(neg, pos, i)} = {n - 2}
      BY <1>0, <1>4 DEF Repeated
    <3>3. (n - 2) + 1 = n - 1
      BY <1>0
    <3> QED BY <3>1, <3>2, <3>3 DEF stage_pos_twice
  <2>3. stage_pos_after(neg, pos, n) = {} /\ stage_pos_before(neg, pos, n) = {}
    BY <1>0, <1>4 DEF stage_pos_after, stage_pos_before
  <2> QED BY <2>1, <2>2, <2>3, <1>0, <1>4 DEF hyperbolic_drivers, HypIter
<1>5. CASE neg + 7 <= n
  <2>1. stage_neg(neg, n) = {}
    BY <1>0, <1>5 DEF stage_neg
  <2>2. stage_pos_twice(neg, pos, n) = {}
    BY <1>0, <1>5 DEF stage_pos_twice, Repeated
  <2>3. stage_pos_after(neg, pos, n) = {wire(n - 1, n - 2)}
    <3>1. {i \in {n - 2} \cap (neg + 1)..(neg + pos) : ~Repeated(neg, pos, i) /\ i > neg + 4} = {n - 2}
      BY <1>0, <1>5 DEF Repeated
    <3>2. (n - 2) + 1 = n - 1
      BY <1>0
    <3> QED BY <3>1, <3>2 DEF stage_pos_after
  <2>4. stage_pos_before(neg, pos, n) = {}
    BY <1>0, <1>5 DEF stage_pos_before
  <2> QED BY <2>1, <2>2, <2>3, <2>4, <1>0, <1>5 DEF hyperbolic_drivers, HypIter
<1> QED BY <1>0, <1>1, <1>2, <1>3, <1>4, <1>5

(***************************************************************************)
(* With twelve positive stages, the default of the makefiles, the register *)
(* between the eleventh and the twelfth iteration has two drivers: only    *)
(* one of the two iterations takes place.                                  *)
(***************************************************************************)
THEOREM TwelveStagesCollide ==
  ASSUME NEW neg \in Nat
  PROVE  {wire(neg + 12, neg + 11), wire(neg + 12, neg + 12)} \subseteq hyperbolic_drivers(neg, 12, neg + 13)
<1>1. {i \in {(neg + 13) - 1} \cap (neg + 1)..(neg + 12) : Repeated(neg, 12, i)} = {neg + 12}
  BY DEF Repeated
<1>2. {i \in {(neg + 13) - 2} \cap (neg + 1)..(neg + 12) : ~Repeated(neg, 12, i) /\ i > neg + 4} = {neg + 11}
  BY DEF Repeated
<1>3. (neg + 11) + 1 = neg + 12
  OBVIOUS
<1> QED BY <1>1, <1>2, <1>3 DEF hyperbolic_drivers, stage_pos_twice, stage_pos_after

-----------------------------------------------------------------------------
USE PipesAssumption

Iter(p, n) ==
  IF p.kind = "hyperbolic" THEN HypIter(p.neg, n) ELSE IF p.kind = "circular" THEN n - 1 ELSE n - 2

\* The iterations made on the way to register n.
Made(p, n) == IF p.kind = "sine" /\ n > 0 THEN n - 1 ELSE n
Prefix(p, n) == [i \in 1..Made(p, n) |-> Schedule(p)[i]]

LEMMA PipeKinds ==
  ASSUME NEW p \in Pipes
  PROVE  /\ p.kind \in {"hyperbolic", "circular", "sine"} /\ p.neg \in Nat /\ p.pos \in Nat
         /\ p.kind = "hyperbolic" => p.pos \in 4..11
         /\ Last(p) \in Nat /\ Last(p) >= 1
         /\ p.kind = "hyperbolic" => Last(p) = p.neg + p.pos + 2
         /\ p.kind = "circular" => Last(p) = p.pos + 1
         /\ p.kind = "sine" => Last(p) = p.pos + 2
BY DEF Last, hyperbolic_last, circular_last

LEMMA CircularDriver ==
  ASSUME NEW precis \in Nat, NEW n \in 1..(precis + 1)
  PROVE  circular_drivers(precis, n) = {wire(n - 1, n - 1)}
BY DEF circular_drivers

(* Every register of every pipeline is loaded from the one before it.      *)
LEMMA DriverOf ==
  ASSUME NEW p \in Pipes, NEW n \in 1..Last(p)
  PROVE  driver(p, n) = wire(n - 1, Iter(p, n))
<1>1. drivers(p, n) = {wire(n - 1, Iter(p, n))}
  <2>1. CASE p.kind = "hyperbolic"
    <3>1. p.neg \in Nat /\ p.pos \in 4..11 /\ n \in 1..hyperbolic_last(p.neg, p.pos)
      BY <2>1, PipeKinds DEF hyperbolic_last
    <3>2. hyperbolic_drivers(p.neg, p.pos, n) = {wire(n - 1, HypIter(p.neg, n))}
      BY <3>1, OneDriver
    <3> QED BY <2>1, <3>2 DEF drivers, Iter
  <2>2. CASE p.kind = "circular"
    <3>1. p.pos \in Nat /\ n \in 1..(p.pos + 1)
      BY <2>2, PipeKinds
    <3>2. circular_drivers(p.pos, n) = {wire(n - 1, n - 1)}
      BY <3>1, CircularDriver
    <3> QED BY <2>2, <3>2 DEF drivers, Iter
  <2>3. CASE p.kind = "sine"
    <3>1. p.pos \in Nat /\ n \in 1..(p.pos + 2)
      BY <2>3, PipeKinds
    <3>2. drivers(p, n) = sine_drivers(p.pos, n) /\ Iter(p, n) = n - 2
      BY <2>3 DEF drivers, Iter
    <3>3. CASE n = 1
      BY <3>2, <3>3 DEF sine_drivers
    <3>4. CASE n # 1
      <4>1. n - 1 \in 1..(p.pos + 1) /\ (n - 1) - 1 = n - 2 /\ (n - 2) + 1 = n - 1
        BY <3>1, <3>4
      <4>2. circular_drivers(p.pos, n - 1) = {wire(n - 2, n - 2)}
        BY <4>1, <3>1, CircularDriver
      <4>3. sine_drivers(p.pos, n) = {wire(w.from + 1, w.iter) : w \in {wire(n - 2, n - 2)}}
        BY <4>2, <3>4 DEF sine_drivers
      <4>4. wire(n - 2, n - 2).from + 1 = n - 1 /\ wire(n - 2, n - 2).iter = n - 2
        BY <4>1 DEF wire
      <4>5. sine_drivers(p.pos, n) = {wire(n - 1, n - 2)}
        BY <4>3, <4>4
      <4> QED BY <4>5, <3>2
    <3> QED BY <3>3, <3>4
  <2> QED BY <2>1, <2>2, <2>3, PipeKinds
<1> QED BY <1>1 DEF driver

-----------------------------------------------------------------------------
Slot == [v : BOOLEAN, op : Nat, did : Seq(Int)]

TypeOK ==
  /\ pipe \in Pipes
  /\ slot \in [0..Last(pipe) -> Slot]
  /\ issued \in Nat /\ taken \in Nat
  /\ taken <= issued

Within == \A n \in 0..Last(pipe) : slot[n].op # 0 => slot[n].v /\ taken < slot[n].op /\ slot[n].op <= issued
Present == \A k \in (taken + 1)..issued : \E n \in 0..Last(pipe) : slot[n].v /\ slot[n].op = k
Ordered == \A a, b \in 0..Last(pipe) : a < b /\ slot[a].v /\ slot[b].op # 0 => slot[b].op < slot[a].op
OnSchedule == \A n \in 0..Last(pipe) : slot[n].op # 0 => slot[n].did = Prefix(pipe, n)

IInv == TypeOK /\ Within /\ Present /\ Ordered /\ OnSchedule

LEMMA Through ==
  ASSUME NEW s \in Slot, NEW i \in Int
  PROVE  /\ through(s, i) \in Slot
         /\ through(s, i).v = s.v
         /\ through(s, i).op = s.op
         /\ s.op # 0 /\ i >= 0 => through(s, i).did = Append(s.did, i)
         /\ i < 0 => through(s, i) = s
BY DEF through, Slot

\* The next iteration of a schedule is the one the next stage makes.
LEMMA NextIteration ==
  ASSUME NEW p \in Pipes, NEW n \in 1..Last(p)
  PROVE  /\ Iter(p, n) \in Int
         /\ Made(p, n - 1) \in Nat
         /\ Iter(p, n) < 0 => Made(p, n) = Made(p, n - 1)
         /\ Iter(p, n) >= 0 => /\ Made(p, n) = Made(p, n - 1) + 1
                               /\ Schedule(p)[Made(p, n)] = Iter(p, n)
<1>0. n \in Int /\ n >= 1 /\ n <= Last(p)
  BY PipeKinds
<1>1. CASE p.kind = "hyperbolic"
  <2>1. p.neg \in Nat /\ p.pos \in Nat /\ n \in 1..(p.neg + p.pos + 2)
    BY <1>1, <1>0, PipeKinds
  <2>2. Made(p, n) = n /\ Made(p, n - 1) = n - 1 /\ Iter(p, n) = HypIter(p.neg, n)
    BY <1>1 DEF Made, Iter
  <2>3. Schedule(p)[n] = HypIter(p.neg, n)
    BY <1>1, <2>1 DEF Schedule, HypIter
  <2>4. HypIter(p.neg, n) \in Int /\ HypIter(p.neg, n) >= 0
    BY <2>1 DEF HypIter
  <2> QED BY <2>1, <2>2, <2>3, <2>4
<1>2. CASE p.kind = "circular"
  <2>1. p.pos \in Nat /\ n \in 1..(p.pos + 1)
    BY <1>2, <1>0, PipeKinds
  <2>2. Made(p, n) = n /\ Made(p, n - 1) = n - 1 /\ Iter(p, n) = n - 1
    BY <1>2 DEF Made, Iter
  <2>3. Schedule(p)[n] = n - 1
    BY <1>2, <2>1 DEF Schedule
  <2> QED BY <2>1, <2>2, <2>3
<1>3. CASE p.kind = "sine"
  <2>1. p.pos \in Nat /\ n \in 1..(p.pos + 2)
    BY <1>3, <1>0, PipeKinds
  <2>2. Made(p, n) = n - 1 /\ Made(p, n - 1) = (IF n = 1 THEN 0 ELSE n - 2) /\ Iter(p, n) = n - 2
    BY <1>3, <2>1 DEF Made, Iter
  <2>3. n # 1 => n - 1 \in 1..(p.pos + 1) /\ Schedule(p)[n - 1] = (n - 1) - 1
    BY <1>3, <2>1 DEF Schedule
  <2> QED BY <2>1, <2>2, <2>3
<1> QED BY <1>1, <1>2, <1>3, PipeKinds

\* At the last register the schedule is complete.
LEMMA WholeSchedule ==
  ASSUME NEW p \in Pipes
  PROVE  Prefix(p, Last(p)) = Schedule(p)
<1>1. CASE p.kind = "hyperbolic"
  <2>1. Made(p, Last(p)) = p.neg + p.pos + 2
    BY <1>1, PipeKinds DEF Made
  <2>2. Schedule(p) = [i \in 1..(p.neg + p.pos + 2) |-> IF i <= p.neg + 5 THEN i - 1 ELSE i - 2]
    BY <1>1 DEF Schedule
  <2> QED BY <2>1, <2>2 DEF Prefix
<1>2. CASE p.kind # "hyperbolic"
  <2>1. Made(p, Last(p)) = p.pos + 1
    BY <1>2, PipeKinds DEF Made
  <2>2. Schedule(p) = [i \in 1..(p.pos + 1) |-> i - 1]
    BY <1>2 DEF Schedule
  <2> QED BY <2>1, <2>2 DEF Prefix
<1> QED BY <1>1, <1>2

\* One more iteration extends the prefix of the schedule.
LEMMA PrefixStep ==
  ASSUME NEW p \in Pipes, NEW n \in 1..Last(p), NEW s \in Slot,
         s.op # 0, s.did = Prefix(p, n - 1)
  PROVE  through(s, Iter(p, n)).did = Prefix(p, n)
<1>1. CASE Iter(p, n) < 0
  BY <1>1, NextIteration, Through DEF Prefix
<1>2. CASE Iter(p, n) >= 0
  <2> DEFINE m == Made(p, n - 1)
             it == Iter(p, n)
  <2>1. m \in Nat /\ it \in Int /\ Made(p, n) = m + 1 /\ Schedule(p)[m + 1] = it
    BY <1>2, NextIteration
  <2>2. through(s, it).did = Append(s.did, it)
    BY <1>2, <2>1, Through
  <2>3. s.did \in Seq(Int) /\ s.did = [i \in 1..m |-> Schedule(p)[i]]
    BY DEF Slot, Prefix
  <2>4. Len(s.did) = m
    BY <2>1, <2>3
  <2>5. Append(s.did, it) = [i \in 1..(m + 1) |-> IF i = m + 1 THEN it ELSE s.did[i]]
    BY <2>1, <2>3, <2>4
  <2>6. \A i \in 1..(m + 1) : (IF i = m + 1 THEN it ELSE s.did[i]) = Schedule(p)[i]
    BY <2>1, <2>3
  <2>7. Append(s.did, it) = [i \in 1..(m + 1) |-> Schedule(p)[i]]
    BY <2>5, <2>6
  <2> QED BY <2>1, <2>2, <2>7 DEF Prefix
<1> QED BY <1>1, <1>2, NextIteration

-----------------------------------------------------------------------------
LEMMA LoadedSlot ==
  ASSUME NEW v \in BOOLEAN, NEW op \in Nat
  PROVE  /\ Loaded(v, op) \in Slot
         /\ Loaded(v, op).v = v /\ Loaded(v, op).op = op /\ Loaded(v, op).did = << >>
<1>1. << >> \in Seq(Int)
  OBVIOUS
<1> QED BY <1>1 DEF Loaded, Slot

LEMMA InitInv == Init => IInv
<1> SUFFICES ASSUME Init PROVE IInv
  OBVIOUS
<1>1. slot \in [0..Last(pipe) -> Slot] /\ \A n \in 0..Last(pipe) : slot[n].op = 0
  <2>1. Empty \in Slot /\ Empty.op = 0 /\ Loaded(TRUE, 0) \in Slot /\ Loaded(TRUE, 0).op = 0
    BY LoadedSlot DEF Empty
  <2>2. slot \in [0..Last(pipe) -> {Empty, Loaded(TRUE, 0)}]
    BY DEF Init
  <2> QED BY <2>1, <2>2
<1>2. pipe \in Pipes /\ issued = 0 /\ taken = 0
  BY DEF Init
<1>3. TypeOK
  BY <1>1, <1>2 DEF TypeOK
<1>4. Present
  BY <1>2 DEF Present
<1> QED BY <1>1, <1>3, <1>4 DEF IInv, Within, Ordered, OnSchedule

\* The oldest operand in the unit is the next to be delivered.
LEMMA OldestFirst ==
  ASSUME IInv, out.v, out.op # 0
  PROVE  out.op = taken + 1
<1>1. Last(pipe) \in Nat /\ slot[Last(pipe)] \in Slot /\ out = slot[Last(pipe)]
  BY PipeKinds DEF IInv, TypeOK, out
<1>2. out.op \in Nat /\ taken < out.op /\ out.op <= issued /\ taken \in Nat /\ issued \in Nat
  BY <1>1, PipeKinds DEF IInv, TypeOK, Within, Slot
<1>3. taken + 1 \in (taken + 1)..issued
  BY <1>2
<1>4. PICK n \in 0..Last(pipe) : slot[n].v /\ slot[n].op = taken + 1
  BY <1>3 DEF IInv, Present
<1>5. n # Last(pipe) => out.op < slot[n].op
  BY <1>1, <1>4 DEF IInv, Ordered
<1> QED BY <1>1, <1>2, <1>4, <1>5

LEMMA OfferedSlot ==
  ASSUME issued \in Nat, NEW val_i \in BOOLEAN
  PROVE  /\ offered(val_i) \in Slot
         /\ val_i => offered(val_i).v /\ offered(val_i).op = issued + 1 /\ offered(val_i).did = << >>
         /\ ~val_i => ~offered(val_i).v /\ offered(val_i).op = 0
<1>1. issued + 1 \in Nat
  OBVIOUS
<1>2. CASE val_i
  <2>1. offered(val_i) = Loaded(TRUE, issued + 1)
    BY <1>2 DEF offered
  <2>2. Loaded(TRUE, issued + 1) \in Slot
    BY <1>1, LoadedSlot
  <2>3. Loaded(TRUE, issued + 1).v /\ Loaded(TRUE, issued + 1).op = issued + 1 /\ Loaded(TRUE, issued + 1).did = << >>
    BY DEF Loaded
  <2> QED BY <1>2, <2>1, <2>2, <2>3
<1>3. CASE ~val_i
  <2>1. offered(val_i) = Loaded(FALSE, 0)
    BY <1>3 DEF offered, Empty
  <2>2. Loaded(FALSE, 0) \in Slot
    BY LoadedSlot
  <2>3. ~Loaded(FALSE, 0).v /\ Loaded(FALSE, 0).op = 0
    BY DEF Loaded
  <2> QED BY <1>3, <2>1, <2>2, <2>3
<1> QED BY <1>2, <1>3

\* What a clock edge that is not stalled does to the registers.
LEMMA Shift ==
  ASSUME IInv, NEW val_i \in BOOLEAN
  PROVE  /\ shifted(val_i) \in [0..Last(pipe) -> Slot]
         /\ shifted(val_i)[0] = offered(val_i)
         /\ \A n \in 1..Last(pipe) : /\ n - 1 \in 0..Last(pipe)
                                     /\ shifted(val_i)[n] = through(slot[n - 1], Iter(pipe, n))
<1>0. pipe \in Pipes /\ Last(pipe) \in Nat /\ Last(pipe) >= 1 /\ slot \in [0..Last(pipe) -> Slot] /\ issued \in Nat
  BY PipeKinds DEF IInv, TypeOK
<1>1. \A n \in 1..Last(pipe) : driver(pipe, n).from = n - 1 /\ driver(pipe, n).iter = Iter(pipe, n)
  BY <1>0, DriverOf DEF wire
<1> DEFINE first == offered(val_i)
           next(n) == through(slot[driver(pipe, n).from], driver(pipe, n).iter)
<1>2. first \in Slot
  BY <1>0, OfferedSlot
<1>3. shifted(val_i) = [n \in 0..Last(pipe) |-> IF n = 0 THEN first ELSE next(n)]
  BY Zenon DEF shifted
<1>4. \A n \in 1..Last(pipe) : n - 1 \in 0..Last(pipe)
  BY <1>0
<1>5. \A n \in 1..Last(pipe) : next(n) = through(slot[n - 1], Iter(pipe, n))
  BY <1>1
<1>6. \A n \in 1..Last(pipe) : next(n) \in Slot
  <2> TAKE n \in 1..Last(pipe)
  <2>1. slot[n - 1] \in Slot
    BY <1>0, <1>4
  <2>2. Iter(pipe, n) \in Int
    BY <1>0, NextIteration
  <2> QED BY <1>5, <2>1, <2>2, Through
<1>7. 0 \in 0..Last(pipe) /\ \A n \in 0..Last(pipe) : n # 0 => n \in 1..Last(pipe)
  BY <1>0
<1>8. \A n \in 1..Last(pipe) : n \in 0..Last(pipe) /\ n # 0
  BY <1>0
<1> HIDE DEF first, next
<1>9. shifted(val_i) \in [0..Last(pipe) -> Slot]
  BY <1>2, <1>3, <1>6, <1>7
<1>10. shifted(val_i)[0] = first
  BY <1>3, <1>7
<1>11. \A n \in 1..Last(pipe) : shifted(val_i)[n] = next(n)
  BY <1>3, <1>8
<1> QED BY <1>4, <1>5, <1>9, <1>10, <1>11 DEF first

LEMMA Above ==
  ASSUME NEW a \in Nat, NEW b \in Nat, NEW k \in (a + 1)..b
  PROVE  k \in Nat /\ a < k /\ k <= b
OBVIOUS

(* Every clock edge preserves the invariant: a stall changes nothing, and  *)
(* otherwise every operand moves one register on.                          *)
LEMMA NextInv == IInv /\ [Next]_vars => IInv'
<1> SUFFICES ASSUME IInv, [Next]_vars PROVE IInv'
  OBVIOUS
<1>1. CASE UNCHANGED vars
  BY <1>1 DEF vars, IInv, TypeOK, Within, Present, Ordered, OnSchedule
<1>2. CASE Next
  <2> PICK val_i \in BOOLEAN, ready_i \in BOOLEAN : Clock(val_i, ready_i)
    BY <1>2 DEF Next
  <2>1. CASE stall_pipe(ready_i)
    <3>1. UNCHANGED <<pipe, slot, issued>> /\ taken' = taken
      BY <2>1 DEF Clock, stall_pipe
    <3> QED BY <3>1 DEF IInv, TypeOK, Within, Present, Ordered, OnSchedule
  <2>2. CASE ~stall_pipe(ready_i)
    <3> DEFINE L == Last(pipe)
    <3>0. /\ pipe' = pipe /\ pipe \in Pipes /\ L \in Nat /\ L >= 1 /\ Last(pipe') = L
          /\ slot \in [0..L -> Slot] /\ issued \in Nat /\ taken \in Nat /\ taken <= issued
      BY PipeKinds DEF Clock, IInv, TypeOK
    <3>1. slot' = shifted(val_i) /\ issued' = (IF val_i THEN issued + 1 ELSE issued)
          /\ taken' = (IF out.v /\ out.op # 0 THEN out.op ELSE taken)
      BY <2>2 DEF Clock, stall_pipe
    <3>2. /\ slot' \in [0..L -> Slot]
          /\ slot'[0] = offered(val_i)
          /\ \A n \in 1..L : n - 1 \in 0..L /\ slot'[n] = through(slot[n - 1], Iter(pipe, n))
      BY <3>1, Shift
    <3>3. \A n \in 1..L : slot'[n].v = slot[n - 1].v /\ slot'[n].op = slot[n - 1].op
      <4> TAKE n \in 1..L
      <4>1. slot[n - 1] \in Slot /\ Iter(pipe, n) \in Int
        BY <3>0, <3>2, NextIteration
      <4>2. through(slot[n - 1], Iter(pipe, n)).v = slot[n - 1].v
        BY <4>1, Through
      <4>3. through(slot[n - 1], Iter(pipe, n)).op = slot[n - 1].op
        BY <4>1, Through
      <4>4. slot'[n] = through(slot[n - 1], Iter(pipe, n))
        BY <3>2
      <4> QED BY <4>2, <4>3, <4>4, Zenon
    <3>4. out = slot[L] /\ slot[L] \in Slot
      BY <3>0 DEF out
    <3>5. /\ val_i => slot'[0].v /\ slot'[0].op = issued + 1 /\ slot'[0].did = << >>
          /\ ~val_i => ~slot'[0].v /\ slot'[0].op = 0
      BY <3>0, <3>2, OfferedSlot
    <3>6. \A n \in 0..L : slot[n].op \in Nat /\ (slot[n].op # 0 => slot[n].v /\ taken < slot[n].op /\ slot[n].op <= issued)
      BY <3>0 DEF IInv, Within, Slot
    <3>7. issued' \in Nat /\ issued <= issued' /\ (val_i => issued' = issued + 1) /\ (~val_i => issued' = issued)
      BY <3>0, <3>1
    <3>8. IF out.v /\ out.op # 0 THEN taken' = taken + 1 /\ out.op = taken + 1 ELSE taken' = taken
      BY <3>1, OldestFirst
    <3>9. taken' \in Nat /\ taken' <= issued /\ taken <= taken'
      BY <3>0, <3>4, <3>6, <3>8
    <3>10. \A n \in 0..L : n # 0 => n \in 1..L /\ n - 1 \in 0..L /\ n - 1 # L
      BY <3>0
    <3>11. slot[L].op = 0 \/ (out.v /\ slot[L].op = taken + 1 /\ taken' = taken + 1)
      BY <3>0, <3>4, <3>6, <3>8
    <3>12. \A n \in 0..L : n # L /\ slot[n].op # 0 => taken' < slot[n].op
      <4> TAKE n \in 0..L
      <4> SUFFICES ASSUME n # L, slot[n].op # 0 PROVE taken' < slot[n].op
        OBVIOUS
      <4>1. n < L /\ L \in 0..L
        BY <3>0
      <4>2. slot[n].v /\ taken < slot[n].op /\ slot[n].op \in Nat
        BY <3>6
      <4>3. CASE slot[L].op = 0
        BY <3>4, <3>8, <4>2, <4>3
      <4>4. CASE slot[L].op # 0
        BY <3>11, <4>1, <4>2, <4>4 DEF IInv, Ordered
      <4> QED BY <4>3, <4>4
    <3>13. TypeOK'
      BY <3>0, <3>2, <3>7, <3>9 DEF TypeOK
    <3>14. Within'
      <4> SUFFICES ASSUME NEW n \in 0..L, slot'[n].op # 0
                   PROVE  slot'[n].v /\ taken' < slot'[n].op /\ slot'[n].op <= issued'
        BY <3>0 DEF Within
      <4>1. CASE n = 0
        BY <4>1, <3>0, <3>5, <3>7, <3>9
      <4>2. CASE n # 0
        <5>1. n - 1 \in 0..L /\ n - 1 # L /\ slot'[n].v = slot[n - 1].v /\ slot'[n].op = slot[n - 1].op
          BY <4>2, <3>3, <3>10
        <5>2. taken' < slot[n - 1].op
          BY <5>1, <3>12
        <5>3. slot[n - 1].v /\ slot[n - 1].op <= issued /\ slot[n - 1].op \in Nat
          BY <5>1, <3>6
        <5> QED BY <5>1, <5>2, <5>3, <3>0, <3>7
      <4> QED BY <4>1, <4>2
    <3>15. Present'
      <4> SUFFICES ASSUME NEW k \in (taken' + 1)..issued'
                   PROVE  \E n \in 0..L : slot'[n].v /\ slot'[n].op = k
        BY <3>0 DEF Present
      <4>0. k \in Nat /\ taken' < k /\ k <= issued'
        <5>1. taken' \in Nat /\ issued' \in Nat
          BY <3>7, <3>9
        <5> QED BY <5>1, Above
      <4>1. CASE k > issued
        BY <4>0, <4>1, <3>0, <3>5, <3>7
      <4>2. CASE k <= issued
        <5>1. k \in (taken + 1)..issued
          BY <4>0, <4>2, <3>0, <3>9
        <5>2. PICK n \in 0..L : slot[n].v /\ slot[n].op = k
          BY <5>1 DEF IInv, Present
        <5>3. n # L
          <6>1. CASE slot[L].op = 0
            <7>1. k # 0
              BY <4>0, <3>9
            <7> QED BY <5>2, <6>1, <7>1
          <6>2. CASE slot[L].op = taken + 1 /\ taken' = taken + 1
            <7>1. k # taken + 1
              BY <4>0, <6>2, <3>0
            <7> QED BY <5>2, <6>2, <7>1
          <6> QED BY <6>1, <6>2, <3>11
        <5>4. n + 1 \in 1..L /\ (n + 1) - 1 = n /\ n + 1 \in 0..L
          BY <5>3, <3>0
        <5>5. slot'[n + 1].v = slot[n].v /\ slot'[n + 1].op = slot[n].op
          BY <5>4, <3>3
        <5> QED BY <5>2, <5>4, <5>5
      <4> QED BY <4>0, <4>1, <4>2, <3>0
    <3>16. Ordered'
      <4> SUFFICES ASSUME NEW a \in 0..L, NEW b \in 0..L, a < b, slot'[a].v, slot'[b].op # 0
                   PROVE  slot'[b].op < slot'[a].op
        BY <3>0 DEF Ordered
      <4>1. b # 0 /\ b - 1 \in 0..L /\ slot'[b].op = slot[b - 1].op
        BY <3>0, <3>3, <3>10
      <4>2. slot[b - 1].op <= issued /\ slot[b - 1].op \in Nat
        BY <4>1, <3>6
      <4>3. CASE a = 0
        BY <4>1, <4>2, <4>3, <3>0, <3>5
      <4>4. CASE a # 0
        <5>1. a - 1 \in 0..L /\ slot'[a].v = slot[a - 1].v /\ slot'[a].op = slot[a - 1].op
          BY <4>4, <3>3, <3>10
        <5>2. a - 1 < b - 1
          BY <3>0
        <5> QED BY <4>1, <5>1, <5>2 DEF IInv, Ordered
      <4> QED BY <4>3, <4>4
    <3>17. OnSchedule'
      <4> SUFFICES ASSUME NEW n \in 0..L, slot'[n].op # 0
                   PROVE  slot'[n].did = Prefix(pipe, n)
        BY <3>0 DEF OnSchedule
      <4>1. CASE n = 0
        <5>1. slot'[0].did = << >>
          BY <4>1, <3>5
        <5>2. Made(pipe, 0) = 0
          BY DEF Made
        <5>3. Prefix(pipe, 0) = << >>
          BY <5>2 DEF Prefix
        <5> QED BY <4>1, <5>1, <5>3
      <4>2. CASE n # 0
        <5>1. n \in 1..L /\ n - 1 \in 0..L /\ slot'[n].op = slot[n - 1].op /\ slot'[n] = through(slot[n - 1], Iter(pipe, n))
          BY <4>2, <3>2, <3>3, <3>10
        <5>2. slot[n - 1] \in Slot /\ slot[n - 1].op # 0 /\ slot[n - 1].did = Prefix(pipe, n - 1)
          BY <5>1, <3>0 DEF IInv, OnSchedule
        <5> QED BY <5>1, <5>2, <3>0, PrefixStep
      <4> QED BY <4>1, <4>2
    <3> QED BY <3>13, <3>14, <3>15, <3>16, <3>17 DEF IInv
  <2> QED BY <2>1, <2>2
<1> QED BY <1>1, <1>2

THEOREM Invariance == Spec => []IInv
BY InitInv, NextInv, PTL DEF Spec

(***************************************************************************)
(* Whatever the number of stages, the operands and the stalls: results     *)
(* come out in order, none lost and none twice.                            *)
(***************************************************************************)
THEOREM ResultsInOrder == Spec => []InOrder
<1>1. IInv => InOrder
  <2> SUFFICES ASSUME IInv PROVE InOrder
    OBVIOUS
  <2>0. Last(pipe) \in Nat /\ \A n \in 0..Last(pipe) : slot[n].op \in Nat
    BY PipeKinds DEF IInv, TypeOK, Slot
  <2>1. {slot[n].op : n \in Valid} \ {0} \subseteq (taken + 1)..issued
    BY <2>0 DEF IInv, TypeOK, Within, Valid
  <2>2. ASSUME NEW k \in (taken + 1)..issued PROVE k \in {slot[n].op : n \in Valid} \ {0}
    <3>1. PICK n \in 0..Last(pipe) : slot[n].v /\ slot[n].op = k
      BY DEF IInv, Present
    <3>2. k # 0
      BY DEF IInv, TypeOK
    <3> QED BY <3>1, <3>2 DEF Valid
  <2>3. \A a, b \in Valid : a < b /\ slot[b].op # 0 => slot[b].op < slot[a].op
    BY DEF IInv, Ordered, Valid
  <2> QED BY <2>1, <2>2, <2>3 DEF InOrder
<1> QED BY <1>1, Invariance, PTL

(***************************************************************************)
(* ... and each has been through every iteration of its function, in       *)
(* order, the fourth positive one twice.                                   *)
(***************************************************************************)
THEOREM EveryIterationMade == Spec => []EveryIteration
<1>1. IInv => EveryIteration
  <2> SUFFICES ASSUME IInv, out.v, out.op # 0 PROVE out.did = Schedule(pipe)
    BY DEF EveryIteration
  <2>1. pipe \in Pipes /\ Last(pipe) \in 0..Last(pipe)
    BY PipeKinds DEF IInv, TypeOK
  <2>2. out.did = Prefix(pipe, Last(pipe))
    BY <2>1 DEF IInv, OnSchedule, out
  <2> QED BY <2>1, <2>2, WholeSchedule
<1> QED BY <1>1, Invariance, PTL
=============================================================================
