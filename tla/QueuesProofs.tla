---------------------------- MODULE QueuesProofs ----------------------------
(***************************************************************************)
(* The queues for every depth, every set of words and every memory content *)
(* at power-up: the small one in registers by itself, then beside the one  *)
(* in a RAM, which offers the same words; the reorder queue, whose words   *)
(* leave in their turn whatever the order in which they are written; the   *)
(* pseudo-large queue, whose words go through a RAM with one port or past  *)
(* it; and the large queue, which collects them in pairs for that RAM and  *)
(* deals them out to two queues.                                           *)
(***************************************************************************)
EXTENDS MCQueues, SequenceTheorems, TLAPS

USE ElsAssumption DEF Slots, hardened!Slots, reorder!Slots

-----------------------------------------------------------------------------
(* Counting slots around the memory.                                       *)
LEMMA AheadInSlots ==
  ASSUME NEW r \in Slots, NEW n \in 0 .. els_p
  PROVE  Ahead(r, n) \in Slots
BY ElsAssumption DEF Slots, Ahead

LEMMA AheadSucc ==
  ASSUME NEW r \in Slots, NEW n \in 0 .. els_p - 1
  PROVE  Succ(Ahead(r, n)) = Ahead(r, n + 1)
BY ElsAssumption DEF Slots, Ahead, Succ

LEMMA SuccAhead ==
  ASSUME NEW r \in Slots, NEW n \in 0 .. els_p - 1
  PROVE  /\ Succ(r) \in Slots
         /\ Ahead(Succ(r), n) = Ahead(r, n + 1)
BY ElsAssumption DEF Slots, Ahead, Succ

LEMMA AheadInjective ==
  ASSUME NEW r \in Slots, NEW m \in 0 .. els_p, NEW n \in 0 .. els_p,
         m < n, m # 0 \/ n # els_p
  PROVE  Ahead(r, m) # Ahead(r, n)
BY ElsAssumption DEF Slots, Ahead

LEMMA AheadSelf == ASSUME NEW r \in Slots PROVE Ahead(r, 0) = r /\ Ahead(r, els_p) = r
BY ElsAssumption DEF Slots, Ahead

(* What a handshake does to a sequence.                                    *)
LEMMA Enqueue ==
  ASSUME NEW s \in Seq(Data), NEW d \in Data
  PROVE  /\ Append(s, d) \in Seq(Data)
         /\ Append(s, d) # <<>>
         /\ Len(Append(s, d)) = Len(s) + 1
         /\ \A i \in 1 .. Len(s) : Append(s, d)[i] = s[i]
         /\ Append(s, d)[Len(s) + 1] = d
OBVIOUS

LEMMA Dequeue ==
  ASSUME NEW s \in Seq(Data), s # <<>>
  PROVE  /\ Tail(s) \in Seq(Data)
         /\ Len(Tail(s)) = Len(s) - 1
         /\ \A i \in 1 .. Len(Tail(s)) : Tail(s)[i] = s[i + 1]
OBVIOUS

(* The invariant holds after reset, from any memory content.               *)
LEMMA InitInv == Init => IInv
<1> SUFFICES ASSUME Init
             PROVE  IInv
  OBVIOUS
<1>1. q \in Seq(Data) /\ Len(q) = 0 /\ rptr_r = 0 /\ wptr_r = 0
  BY DEF Init, TrackerReset
<1>2. TypeOK
  <2>1. 0 \in Slots
    OBVIOUS
  <2>2. QED
    BY <1>1, <2>1, Zenon DEF Init, TrackerReset, TypeOK, TrackerTypeOK
<1>3. FlagInv
  BY <1>1 DEF Init, TrackerReset, FlagInv
<1>4. PtrInv /\ MemInv
  BY <1>1 DEF PtrInv, MemInv, Ahead
<1>5. QED
  BY <1>2, <1>3, <1>4 DEF IInv

(* Equal pointers mean an empty or a full queue.                           *)
LEMMA EqualPointers ==
  IInv => (rptr_r = wptr_r <=> Len(q) \in {0, els_p})
BY AheadInjective, AheadSelf
   DEF IInv, TypeOK, TrackerTypeOK, PtrInv, Ahead

(* The flags say how many words are in flight.                             *)
LEMMA FlagsFromInv == IInv => ExactFlags
BY EqualPointers
   DEF IInv, TypeOK, TrackerTypeOK, PtrInv, FlagInv, ExactFlags,
       ready_param_o, v_o, full_o, empty_o

(* Every edge out of reset keeps the invariant: one case per handshake.    *)
LEMMA ClkInv ==
  ASSUME IInv, NEW enque \in BOOLEAN, NEW d \in Data, NEW deque \in BOOLEAN,
         Edge(FALSE, enque, d, deque), q' = InFlight(enque, d, deque)
  PROVE  IInv'
<1> DEFINE r == rptr_r
           n == Len(q)
<1>1. /\ r \in Slots /\ wptr_r = Ahead(r, n) /\ wptr_r \in Slots
      /\ mem \in [Slots -> Data \cup {Junk}]
      /\ q \in Seq(Data) /\ n \in 0 .. els_p
      /\ FlagInv
      /\ \A i \in 1 .. n : mem[Ahead(r, i - 1)] = q[i]
  BY DEF IInv, TypeOK, TrackerTypeOK, PtrInv, MemInv, Slot
<1>2. /\ enque => n < els_p
      /\ deque => q # <<>>
  BY FlagsFromInv DEF Edge, ExactFlags
<1>3. /\ rptr_r' = rptr_n(deque)
      /\ wptr_r' = IF enque THEN Succ(wptr_r) ELSE wptr_r
      /\ enq_r' = IF enque \/ deque THEN enque ELSE enq_r
      /\ deq_r' = IF enque \/ deque THEN deque ELSE deq_r
      /\ mem' = IF enque THEN [mem EXCEPT ![wptr_r] = d] ELSE mem
  BY DEF Edge, TrackerEdge
<1>4. TrackerTypeOK' /\ mem' \in [Slots -> Data \cup {Junk}]
  BY <1>1, <1>3, SMTT(30) DEF IInv, TypeOK, TrackerTypeOK, rptr_n, Succ
<1>5. CASE ~enque /\ ~deque
  <2>1. q' = q /\ UNCHANGED <<rptr_r, wptr_r, enq_r, deq_r, mem>>
    BY <1>3, <1>5 DEF InFlight, Enqueued, rptr_n
  <2>2. QED
    BY <2>1 DEF IInv, TypeOK, TrackerTypeOK, PtrInv, FlagInv, MemInv, Slot
<1>6. CASE enque /\ ~deque
  <2>1. /\ q' \in Seq(Data) /\ Len(q') = n + 1
        /\ \A i \in 1 .. n : q'[i] = q[i]
        /\ q'[n + 1] = d
    BY <1>1, <1>6, Enqueue DEF InFlight, Enqueued
  <2>2. rptr_r' = r /\ wptr_r' = Ahead(r, n + 1) /\ n < els_p
    BY <1>1, <1>2, <1>3, <1>6, AheadSucc DEF rptr_n
  <2>3. FlagInv'
    <3>1. ASSUME rptr_r' = wptr_r' PROVE n + 1 = els_p
      <4>1. n + 1 \in 0 .. els_p /\ 0 \in 0 .. els_p /\ 0 < n + 1
        BY <2>2, <1>1
      <4>2. Ahead(r, 0) = Ahead(r, n + 1)
        BY <3>1, <2>2, <1>1, AheadSelf
      <4>3. QED
        BY <4>1, <4>2, <1>1, AheadInjective
    <3>2. QED
      BY <3>1, <2>1, <1>3, <1>6 DEF FlagInv
  <2>4. ASSUME NEW i \in 1 .. n + 1
        PROVE  mem'[Ahead(r, i - 1)] = q'[i]
    <3>1. CASE i = n + 1
      BY <3>1, <2>1, <1>1, <1>3, <1>6
    <3>2. CASE i \in 1 .. n
      <4>1. i - 1 \in 0 .. els_p /\ n \in 0 .. els_p /\ i - 1 < n /\ n # els_p
        BY <3>2, <2>2, <1>1
      <4>2. Ahead(r, i - 1) \in Slots /\ Ahead(r, i - 1) # Ahead(r, n)
        BY <4>1, <1>1, AheadInSlots, AheadInjective
      <4>3. QED
        BY <4>2, <3>2, <2>1, <1>1, <1>3, <1>6
    <3>3. QED
      BY <3>1, <3>2, <1>1
  <2>5. QED
    BY <2>1, <2>2, <2>3, <2>4, <1>1, <1>4
       DEF IInv, TypeOK, PtrInv, MemInv, Slot
<1>7. CASE deque
  <2> DEFINE s == Enqueued(enque, d)
             m == Len(s)
  <2>1. q' = Tail(s)
    BY <1>2, <1>7 DEF InFlight
  <2>2. /\ s \in Seq(Data) /\ s # <<>>
        /\ m = IF enque THEN n + 1 ELSE n
        /\ n >= 1 /\ m >= 1
        /\ \A i \in 1 .. n : s[i] = q[i]
        /\ enque => s[n + 1] = d
    BY <1>1, <1>2, <1>7, Enqueue DEF Enqueued
  <2>3. /\ q' \in Seq(Data) /\ Len(q') = m - 1
        /\ \A i \in 1 .. m - 1 : q'[i] = s[i + 1]
    BY <2>1, <2>2, Dequeue
  <2>4. rptr_r' = Succ(r) /\ Succ(r) \in Slots
    BY <1>1, <1>3, <1>7, SuccAhead DEF rptr_n
  <2>5. wptr_r' = Ahead(r, m) /\ m \in 1 .. els_p
    BY <2>2, <1>1, <1>2, <1>3, AheadSucc
  <2>6. wptr_r' = Ahead(Succ(r), m - 1)
    <3>1. m - 1 \in 0 .. els_p - 1 /\ (m - 1) + 1 = m
      BY <2>2, <2>5, <1>1
    <3>2. QED
      BY <2>5, <3>1, <1>1, SuccAhead
  <2>7. FlagInv'
    <3>1. ASSUME rptr_r' = wptr_r' PROVE m = 1 /\ ~enque
      <4>1. Ahead(Succ(r), 0) = Ahead(Succ(r), m - 1)
        BY <3>1, <2>4, <2>6, AheadSelf
      <4>2. /\ 0 \in 0 .. els_p /\ m - 1 \in 0 .. els_p /\ m - 1 # els_p
            /\ m - 1 = 0 \/ 0 < m - 1
        <5> HIDE DEF m
        <5> QED
          BY <2>5
      <4>3. m - 1 = 0
        BY <4>1, <4>2, <2>4, AheadInjective
      <4>4. QED
        BY <4>3, <2>2
    <3>2. ~enque => enq_r' = FALSE /\ deq_r' = TRUE
      BY <1>3, <1>7
    <3>3. m = 1 => Len(q') = 0
      BY <2>3
    <3>4. QED
      BY <3>1, <3>2, <3>3 DEF FlagInv
  <2>8. ASSUME NEW i \in 1 .. m - 1
        PROVE  mem'[Ahead(Succ(r), i - 1)] = q'[i]
    <3>1. Ahead(Succ(r), i - 1) = Ahead(r, i)
      <4>1. i - 1 \in 0 .. els_p - 1 /\ (i - 1) + 1 = i
        BY <2>2, <2>4, <2>5, <1>1
      <4>2. QED
        BY <4>1, <1>1, SuccAhead
    <3>2. q'[i] = s[i + 1]
      BY <2>3
    <3>3. CASE i = n
      BY <3>1, <3>2, <3>3, <2>2, <1>1, <1>3
    <3>4. CASE i \in 1 .. n - 1
      <4>0. i \in 0 .. els_p /\ n \in 0 .. els_p /\ i < n /\ i # 0
        BY <3>4, <1>1
      <4>1. Ahead(r, i) \in Slots /\ Ahead(r, i) # Ahead(r, n)
        BY <4>0, <1>1, AheadInSlots, AheadInjective
      <4>2. mem[Ahead(r, i)] = q[i + 1]
        <5>1. i + 1 \in 1 .. n /\ (i + 1) - 1 = i
          BY <3>4, <1>1
        <5>2. QED
          BY <5>1, <1>1
      <4>3. s[i + 1] = q[i + 1]
        <5>1. i + 1 \in 1 .. n
          BY <3>4, <1>1
        <5>2. QED
          BY <5>1, <2>2
      <4>4. mem'[Ahead(r, i)] = mem[Ahead(r, i)]
        BY <4>1, <1>1, <1>3
      <4>5. QED
        BY <4>2, <4>3, <4>4, <3>1, <3>2
    <3>5. QED
      BY <3>3, <3>4, <2>2, <1>1
  <2>9. QED
    BY <2>3, <2>4, <2>5, <2>6, <2>7, <2>8, <1>1, <1>4
       DEF IInv, TypeOK, PtrInv, MemInv, Slot
<1>8. QED
  BY <1>5, <1>6, <1>7

(* A step of the specification is an edge out of reset, one in reset or    *)
(* none.                                                                   *)
LEMMA NextInv == IInv /\ [Next]_vars => IInv'
<1> SUFFICES ASSUME IInv, [Next]_vars
             PROVE  IInv'
  OBVIOUS
<1>1. CASE Clk
  <2>1. PICK enque \in BOOLEAN, deque \in BOOLEAN, d \in Data :
          /\ Edge(FALSE, enque, d, deque)
          /\ q' = InFlight(enque, d, deque)
    BY <1>1 DEF Clk
  <2>2. QED
    BY <2>1, ClkInv
<1>2. CASE Reset
  <2>1. /\ rptr_r' = 0 /\ wptr_r' = 0 /\ enq_r' = FALSE /\ deq_r' = TRUE
        /\ q' = <<>>
        /\ mem' \in [Slots -> Data \cup {Junk}]
    BY <1>2 DEF Reset, Edge, TrackerEdge, IInv, TypeOK, TrackerTypeOK
  <2>2. Len(q') = 0 /\ q' \in Seq(Data)
    BY <2>1
  <2>3. TypeOK'
    <3>1. 0 \in Slots
      OBVIOUS
    <3>2. QED
      BY <2>1, <2>2, <3>1, Zenon DEF TypeOK, TrackerTypeOK
  <2>4. FlagInv'
    BY <2>1, <2>2 DEF FlagInv
  <2>5. PtrInv' /\ MemInv'
    BY <2>1, <2>2 DEF PtrInv, MemInv, Ahead
  <2>6. QED
    BY <2>3, <2>4, <2>5 DEF IInv
<1>3. CASE UNCHANGED vars
  BY <1>3 DEF vars, tracker, IInv, TypeOK, TrackerTypeOK, PtrInv, FlagInv,
              MemInv, Slot
<1>4. QED
  BY <1>1, <1>2, <1>3 DEF Next

THEOREM InductiveInvariant == Spec => []IInv
BY InitInv, NextInv, PTL DEF Spec

(* The registers and the history always have their types.                  *)
THEOREM TypeCorrect == Spec => []TypeOK
<1>1. IInv => TypeOK
  BY DEF IInv
<1>2. QED
  BY <1>1, InductiveInvariant, PTL

(* A queue of any depth accepts exactly while it has room and offers a     *)
(* word exactly while it holds one.                                        *)
THEOREM FlagsAreExact == Spec => []ExactFlags
BY FlagsFromInv, InductiveInvariant, PTL

(* What is offered is always the oldest word in flight.                    *)
THEOREM OrderIsKept == Spec => []OldestFirst
<1>1. IInv => OldestFirst
  <2> SUFFICES ASSUME IInv, v_o
               PROVE  q # <<>> /\ data_o = Head(q)
    BY DEF OldestFirst
  <2>1. q # <<>> /\ q \in Seq(Data)
    BY FlagsFromInv DEF ExactFlags, IInv, TypeOK
  <2>2. Len(q) >= 1 /\ Head(q) = q[1]
    BY <2>1
  <2>3. mem[Slot(1)] = q[1]
    BY <2>2 DEF IInv, MemInv
  <2>4. Slot(1) = rptr_r
    BY DEF Slot, IInv, TypeOK, TrackerTypeOK
  <2>5. QED
    BY <2>1, <2>2, <2>3, <2>4 DEF data_o
<1>2. QED
  BY <1>1, InductiveInvariant, PTL

(* The register file is never read at the address being written.           *)
THEOREM NoCollision == Spec => []NoSameAddr
<1>1. IInv => NoSameAddr
  BY FlagsFromInv DEF IInv, TypeOK, TrackerTypeOK, FlagInv, NoSameAddr,
     ExactFlags
<1>2. QED
  BY <1>1, InductiveInvariant, PTL

(* Under the invariant the memory between the pointers is the history.     *)
LEMMA ContentsAreInFlight == IInv => contents = q
<1> SUFFICES ASSUME IInv
             PROVE  contents = q
  OBVIOUS
<1>1. Count = Len(q)
  <2>1. /\ rptr_r \in Slots /\ Len(q) \in 0 .. els_p
        /\ wptr_r = Ahead(rptr_r, Len(q)) /\ wptr_r \in Slots
    BY DEF IInv, TypeOK, TrackerTypeOK, PtrInv
  <2>2. full_o <=> Len(q) = els_p
    BY <2>1, FlagsFromInv DEF ExactFlags, ready_param_o
  <2>3. QED
    BY <2>1, <2>2 DEF Count, Ahead
<1>2. q \in Seq(Data) /\ \A i \in 1 .. Len(q) : mem[Slot(i)] = q[i]
  BY DEF IInv, TypeOK, MemInv
<1>3. q = [i \in 1 .. Len(q) |-> q[i]]
  BY <1>2
<1>4. contents = [i \in 1 .. Len(q) |-> q[i]]
  BY <1>1, <1>2 DEF contents
<1>5. QED
  BY <1>3, <1>4

(* Every step of the registers is a step of a queue of depth els_p, or a   *)
(* stutter.                                                                *)
LEMMA StepImplements ==
  IInv /\ IInv' /\ [Next]_vars => [Fifo!Next]_contents
<1> SUFFICES ASSUME IInv, IInv', [Next]_vars
             PROVE  [Fifo!Next]_contents
  OBVIOUS
<1>1. contents = q
  BY ContentsAreInFlight
<1>2. contents' = q'
  <2>1. IInv' => (contents = q)'
    BY ContentsAreInFlight, PTL
  <2>2. QED
    BY <2>1
<1>3. ASSUME NEW enque \in BOOLEAN, NEW deque \in BOOLEAN, NEW d \in Data,
             Edge(FALSE, enque, d, deque), q' = InFlight(enque, d, deque)
      PROVE  [Fifo!Next]_contents
  <2>1. /\ q \in Seq(Data)
        /\ enque => Len(q) < els_p
        /\ deque => q # <<>>
    BY <1>3, FlagsFromInv DEF Edge, ExactFlags, IInv, TypeOK
  <2>2. CASE enque /\ deque
    <3>1. Tail(Append(q, d)) = Append(Tail(q), d)
      BY <2>1, <2>2
    <3>2. Fifo!EnqDeq(d)
      BY <3>1, <2>1, <2>2, <1>1, <1>2, <1>3 DEF InFlight, Enqueued, Fifo!EnqDeq
    <3>3. QED
      BY <3>2 DEF Fifo!Next
  <2>3. CASE enque /\ ~deque
    <3>1. Fifo!Enq(d)
      BY <2>1, <2>3, <1>1, <1>2, <1>3 DEF InFlight, Enqueued, Fifo!Enq
    <3>2. QED
      BY <3>1 DEF Fifo!Next
  <2>4. CASE ~enque /\ deque
    BY <2>1, <2>4, <1>1, <1>2, <1>3 DEF InFlight, Enqueued, Fifo!Deq, Fifo!Next
  <2>5. CASE ~enque /\ ~deque
    BY <2>5, <1>1, <1>2, <1>3 DEF InFlight, Enqueued
  <2>6. QED
    BY <2>2, <2>3, <2>4, <2>5
<1>4. CASE Clk
  BY <1>3, <1>4 DEF Clk
<1>5. CASE Reset
  BY <1>5, <1>2 DEF Reset, Fifo!Next, Fifo!Reset
<1>6. CASE UNCHANGED vars
  BY <1>6, <1>1, <1>2 DEF vars
<1>7. QED
  BY <1>4, <1>5, <1>6 DEF Next

(* bsg_fifo_1r1w_small_unhardened implements a queue of depth els_p.       *)
THEOREM Refinement == Spec => ImplementsFifo
<1>1. Init => Fifo!Init
  <2> SUFFICES ASSUME Init
               PROVE  contents = <<>>
    BY DEF Fifo!Init
  <2>1. IInv /\ q = <<>>
    BY InitInv DEF Init
  <2>2. QED
    BY <2>1, ContentsAreInFlight
<1>2. QED
  BY <1>1, StepImplements, InductiveInvariant, PTL
  DEF Spec, ImplementsFifo, Fifo!Spec

-----------------------------------------------------------------------------
(* Both after reset. *)
LEMMA HardenedInitInv == BothInit => IInv /\ HardenedInv
<1> SUFFICES ASSUME BothInit
             PROVE  IInv /\ HardenedInv
  OBVIOUS
<1>1. IInv
  BY InitInv DEF BothInit
<1>2. q = <<>>
  BY DEF BothInit, Init
<1>3. hardened!HardenedTypeOK
  BY DEF BothInit, hardened!HardenedInit, hardened!HardenedTypeOK
<1>4. QED
  BY <1>1, <1>2, <1>3 DEF HardenedInv, OfferInv, RamInv

(* Where the write pointer meets the next read pointer.                    *)
LEMMA SameAddress ==
  ASSUME NEW r \in Slots, NEW n \in 0 .. els_p, NEW m \in 0 .. 1,
         n # els_p \/ m # 0, n # 0 \/ m = 0
  PROVE  Ahead(r, n) = Ahead(r, m) <=> n = m
<1>1. CASE n < m
  BY <1>1, AheadInjective
<1>2. CASE m < n
  BY <1>2, AheadInjective
<1>3. QED
  BY <1>1, <1>2

(* A clock edge out of reset. *)
LEMMA HardenedClkInv ==
  ASSUME IInv, HardenedInv, IInv',
         NEW enque \in BOOLEAN, NEW d \in Data, NEW deque \in BOOLEAN,
         Edge(FALSE, enque, d, deque), hardened!Edge(FALSE, enque, d, deque),
         q' = InFlight(enque, d, deque)
  PROVE  HardenedInv'
<1> DEFINE r == rptr_r
           n == Len(q)
           rn == rptr_n(deque)
           same == enque /\ wptr_r = rn
<1>1. /\ r \in Slots /\ wptr_r = Ahead(r, n) /\ wptr_r \in Slots
      /\ q \in Seq(Data) /\ n \in 0 .. els_p
  BY DEF IInv, TypeOK, TrackerTypeOK, PtrInv
<1>2. /\ enque => n < els_p
      /\ deque => q # <<>> /\ n >= 1
  BY <1>1, FlagsFromInv DEF Edge, ExactFlags
<1>3. /\ rptr_r' = rn
      /\ rn \in Slots
      /\ rn = IF deque THEN Succ(r) ELSE r
  BY <1>1 DEF Edge, TrackerEdge, rptr_n, Succ
<1>4. Succ(r) = Ahead(r, 1) /\ r = Ahead(r, 0)
  BY <1>1 DEF Succ, Ahead
<1>5. /\ ram \in [Slots -> Data \cup {Junk}]
      /\ data_o_mem \in Data \cup {Junk} /\ data_o_reg \in Data \cup {Junk}
      /\ read_write_same_addr_r \in BOOLEAN
      /\ q # <<>> => hardened!data_o = q[1]
      /\ \A i \in 2 .. n : ram[Ahead(r, i - 1)] = q[i]
  BY <1>1 DEF HardenedInv, hardened!HardenedTypeOK, OfferInv, RamInv, Slot
<1>6. /\ ram' = IF enque /\ ~same THEN [ram EXCEPT ![wptr_r] = d] ELSE ram
      /\ data_o_mem' = IF deque /\ wptr_r # rn THEN ram'[rn] ELSE data_o_mem
      /\ data_o_reg' = IF same THEN d ELSE data_o_reg
      /\ read_write_same_addr_r' = (same \/ (read_write_same_addr_r /\ ~deque))
  BY DEF hardened!Edge, hardened!MemStep, hardened!BypassStep,
         hardened!read_write_same_addr_n, hardened!rptr_n, hardened!Succ,
         rptr_n, Succ
<1>7. hardened!HardenedTypeOK'
  <2>1. ram' \in [Slots -> Data \cup {Junk}]
    BY <1>1, <1>5, <1>6
  <2>2. data_o_mem' \in Data \cup {Junk}
    BY <2>1, <1>3, <1>5, <1>6
  <2>3. QED
    BY <2>1, <2>2, <1>5, <1>6 DEF hardened!HardenedTypeOK
<1>8. CASE ~enque /\ ~deque
  <2>1. q' = q /\ rptr_r' = r
    BY <1>8, <1>3 DEF InFlight, Enqueued
  <2>2. UNCHANGED <<ram, data_o_mem, data_o_reg, read_write_same_addr_r>>
    BY <1>8, <1>5, <1>6
  <2>3. QED
    BY <2>1, <2>2, <1>7
       DEF HardenedInv, OfferInv, RamInv, Slot, hardened!data_o
<1>9. CASE enque /\ ~deque
  <2>1. /\ q' \in Seq(Data) /\ q' # <<>> /\ Len(q') = n + 1
        /\ \A i \in 1 .. n : q'[i] = q[i]
        /\ q'[n + 1] = d
    BY <1>1, <1>9, Enqueue DEF InFlight, Enqueued
  <2>2. same <=> n = 0
    <3>1. 0 \in 0 .. 1 /\ n # els_p
      BY <1>9, <1>1, <1>2
    <3>2. QED
      BY <3>1, <1>9, <1>1, <1>3, <1>4, SameAddress
  <2>3. CASE n = 0
    <3>1. hardened!data_o' = d
      BY <2>2, <2>3, <1>6 DEF hardened!data_o
    <3>2. Head(q') = d /\ Len(q') = 1
      BY <2>1, <2>3
    <3>3. QED
      BY <3>1, <3>2, <1>7 DEF HardenedInv, OfferInv, RamInv
  <2>4. CASE n # 0
    <3>1. hardened!data_o' = hardened!data_o
      BY <2>2, <2>4, <1>9, <1>5, <1>6 DEF hardened!data_o
    <3>2. Head(q') = q[1] /\ q # <<>>
      BY <2>1, <2>4, <1>1
    <3>3. ASSUME NEW i \in 2 .. n + 1
          PROVE  ram'[Ahead(r, i - 1)] = q'[i]
      <4>1. ram' = [ram EXCEPT ![Ahead(r, n)] = d] /\ Ahead(r, n) \in Slots
        BY <2>2, <2>4, <1>1, <1>6, <1>9
      <4>2. CASE i = n + 1
        BY <4>1, <4>2, <2>1, <1>1, <1>5
      <4>3. CASE i \in 2 .. n
        <5>1. i - 1 \in 0 .. els_p /\ i - 1 < n /\ n # els_p
          BY <4>3, <1>1, <1>2, <1>9
        <5>2. Ahead(r, i - 1) \in Slots /\ Ahead(r, i - 1) # Ahead(r, n)
          BY <5>1, <1>1, AheadInSlots, AheadInjective
        <5>3. q'[i] = q[i]
          BY <4>3, <2>1
        <5>4. QED
          BY <5>2, <5>3, <4>1, <4>3, <1>5
      <4>4. QED
        BY <4>2, <4>3, <1>1
    <3>4. RamInv'
      BY <3>3, <2>1, <1>3, <1>9 DEF RamInv, Slot
    <3>5. QED
      BY <3>1, <3>2, <3>4, <1>5, <1>7 DEF HardenedInv, OfferInv
  <2>5. QED
    BY <2>3, <2>4
<1>10. CASE deque
  <2> DEFINE s == Enqueued(enque, d)
             m == Len(s)
  <2>1. q' = Tail(s)
    BY <1>2, <1>10 DEF InFlight
  <2>2. /\ s \in Seq(Data) /\ s # <<>>
        /\ m = IF enque THEN n + 1 ELSE n
        /\ n >= 1 /\ m >= 1 /\ m <= els_p
        /\ \A i \in 1 .. n : s[i] = q[i]
        /\ enque => s[n + 1] = d
    BY <1>1, <1>2, <1>10, Enqueue DEF Enqueued
  <2>3. /\ q' \in Seq(Data) /\ Len(q') = m - 1
        /\ \A i \in 1 .. m - 1 : q'[i] = s[i + 1]
    BY <2>1, <2>2, Dequeue
  <2>4. rn = Ahead(r, 1) /\ (wptr_r = rn <=> n = 1)
    <3>1. 1 \in 0 .. 1 /\ n # 0
      BY <2>2
    <3>2. Ahead(r, n) = Ahead(r, 1) <=> n = 1
      <4>1. 1 # 0
        OBVIOUS
      <4> HIDE DEF r, n
      <4>2. QED
        BY <4>1, <3>1, <1>1, SameAddress
    <3>3. QED
      BY <3>2, <1>1, <1>3, <1>4, <1>10
  <2>5. CASE n = 1 /\ enque
    <3>1. hardened!data_o' = d
      BY <2>4, <2>5, <1>6 DEF hardened!data_o
    <3>2. Len(q') = 1 /\ q'[1] = s[2] /\ s[2] = d
      <4>1. m = 2 /\ 1 \in 1 .. m - 1 /\ 1 + 1 = 2
        BY <2>2, <2>5
      <4>2. Len(q') = 1 /\ q'[1] = s[1 + 1]
        BY <4>1, <2>3
      <4>3. n + 1 = 2
        BY <2>5
      <4>4. s[n + 1] = d
        BY <2>2, <2>5, Zenon
      <4>5. QED
        BY <4>1, <4>2, <4>3, <4>4
    <3>3. QED
      BY <3>1, <3>2, <1>7 DEF HardenedInv, OfferInv, RamInv
  <2>6. CASE n = 1 /\ ~enque
    <3>1. q' = <<>> /\ Len(q') = 0
      BY <2>2, <2>3, <2>6
    <3>2. QED
      BY <3>1, <1>7 DEF HardenedInv, OfferInv, RamInv
  <2>7. CASE n # 1
    <3>1. n >= 2 /\ ~same
      BY <2>2, <2>4, <2>7, <1>1
    <3>2. ram' = IF enque THEN [ram EXCEPT ![Ahead(r, n)] = d] ELSE ram
      BY <3>1, <1>1, <1>6
    <3>3. ASSUME NEW i \in 1 .. m - 1
          PROVE  ram'[Ahead(r, i)] = q'[i]
      <4>1. q'[i] = s[i + 1]
        BY <2>3
      <4>2. CASE i = n
        BY <4>1, <4>2, <3>2, <2>2, <1>1, <1>5
      <4>3. CASE i \in 1 .. n - 1
        <5>1. i \in 0 .. els_p /\ n \in 0 .. els_p /\ i < n /\ i # 0
          BY <4>3, <1>1
        <5>2. Ahead(r, i) \in Slots /\ Ahead(r, i) # Ahead(r, n)
          BY <5>1, <1>1, AheadInSlots, AheadInjective
        <5>3. i + 1 \in 2 .. n /\ (i + 1) - 1 = i
          BY <4>3, <1>1
        <5>4. ram[Ahead(r, i)] = q[i + 1] /\ s[i + 1] = q[i + 1]
          BY <5>3, <2>2, <1>5
        <5>5. QED
          BY <5>2, <5>4, <4>1, <3>2, <1>5
      <4>4. QED
        BY <4>2, <4>3, <2>2, <1>1
    <3>4. hardened!data_o' = Head(q')
      <4>1. data_o_mem' = ram'[Ahead(r, 1)] /\ ~read_write_same_addr_r'
        BY <3>1, <2>4, <2>7, <1>6, <1>10
      <4>2. 1 \in 1 .. m - 1 /\ Head(q') = q'[1]
        BY <3>1, <2>2, <2>3
      <4>3. QED
        BY <4>1, <4>2, <3>3 DEF hardened!data_o
    <3>5. RamInv'
      <4>1. ASSUME NEW i \in 2 .. m - 1
            PROVE  Ahead(rptr_r', i - 1) = Ahead(r, i)
        <5>1. i - 1 \in 0 .. els_p - 1 /\ (i - 1) + 1 = i
          BY <2>2, <1>1
        <5>2. QED
          BY <5>1, <1>1, <1>3, <1>10, SuccAhead
      <4>2. \A i \in 2 .. m - 1 : i \in 1 .. m - 1
        BY <2>2
      <4>3. QED
        BY <4>1, <4>2, <3>3, <2>3 DEF RamInv, Slot
    <3>6. QED
      BY <3>4, <3>5, <1>7 DEF HardenedInv, OfferInv
  <2>8. QED
    BY <2>5, <2>6, <2>7
<1>11. QED
  BY <1>8, <1>9, <1>10

(* A step of both is a step of the first, and keeps the invariant of the   *)
(* second.                                                                 *)
LEMMA BothStep == [BothNext]_both => [Next]_vars
BY DEF BothNext, BothClk, BothReset, both, Next, Clk, Reset

LEMMA HardenedNextInv ==
  IInv /\ IInv' /\ HardenedInv /\ [BothNext]_both => HardenedInv'
<1> SUFFICES ASSUME IInv, IInv', HardenedInv, [BothNext]_both
             PROVE  HardenedInv'
  OBVIOUS
<1>1. CASE BothClk
  BY <1>1, HardenedClkInv DEF BothClk
<1>2. CASE BothReset
  <2>1. PICK enque \in BOOLEAN, deque \in BOOLEAN, d \in Data :
          hardened!Edge(TRUE, enque, d, deque) /\ q' = <<>>
    BY <1>2 DEF BothReset
  <2>2. hardened!rptr_n(deque) \in Slots /\ wptr_r \in Slots
    BY DEF IInv, TypeOK, TrackerTypeOK, hardened!rptr_n, hardened!Succ
  <2>3. hardened!HardenedTypeOK'
    BY <2>1, <2>2 DEF HardenedInv, hardened!HardenedTypeOK, hardened!Edge,
       hardened!MemStep, hardened!BypassStep, hardened!read_write_same_addr_n
  <2>4. QED
    BY <2>1, <2>3 DEF HardenedInv, OfferInv, RamInv
<1>3. CASE UNCHANGED both
  BY <1>3 DEF both, vars, tracker, hardened!regs, HardenedInv,
     hardened!HardenedTypeOK, OfferInv, RamInv, Slot, hardened!data_o
<1>4. QED
  BY <1>1, <1>2, <1>3 DEF BothNext

(* The invariant of both queues, for every depth.                          *)
THEOREM HardenedInvariant == BothSpec => [](IInv /\ HardenedInv)
<1>1. BothSpec => Spec
  <2>1. BothInit => Init
    BY DEF BothInit
  <2>2. QED
    BY <2>1, BothStep, PTL DEF BothSpec, Spec
<1>2. QED
  BY <1>1, InductiveInvariant, HardenedInitInv, HardenedNextInv, PTL
  DEF BothSpec

(* The queue in a RAM and the queue in registers, given the same           *)
(* handshakes, offer the same word at every edge.                          *)
THEOREM FunctionallyEquivalent == BothSpec => []SameWords
<1>1. IInv /\ HardenedInv => SameWords
  <2> SUFFICES ASSUME IInv, HardenedInv, v_o
               PROVE  hardened!data_o = data_o
    BY DEF SameWords
  <2>1. q # <<>> /\ q \in Seq(Data)
    BY FlagsFromInv DEF ExactFlags, IInv, TypeOK
  <2>2. Len(q) >= 1 /\ Head(q) = q[1]
    BY <2>1
  <2>3. mem[Slot(1)] = q[1]
    BY <2>2 DEF IInv, MemInv
  <2>4. Slot(1) = rptr_r
    BY AheadSelf DEF Slot, IInv, TypeOK, TrackerTypeOK
  <2>5. QED
    BY <2>1, <2>2, <2>3, <2>4 DEF HardenedInv, OfferInv, data_o
<1>2. QED
  BY <1>1, HardenedInvariant, PTL

-----------------------------------------------------------------------------
(* A ticket of the reorder queue. *)
Ticket == [id : Slots, word : Data \cup {Junk}]

(* The slots from r on belong to the tickets tk, in their order: a slot is *)
(* marked exactly when its ticket has its word, which is what the memory   *)
(* holds there.  A slot without a ticket is not marked, so that the next   *)
(* owner of it does not find the word of the last.                         *)
Held(r, tk, valid, store) ==
  /\ \A i \in 1 .. Len(tk) :
       /\ tk[i].id = Ahead(r, i - 1)
       /\ tk[i].id \in valid <=> tk[i].word # Junk
       /\ tk[i].word # Junk => store[tk[i].id] = tk[i].word
  /\ \A k \in Len(tk) + 1 .. els_p : Ahead(r, k - 1) \notin valid

HeldInv == Held(o_rptr_r, tickets, valid_r, o_mem)

ReorderTypeOK ==
  /\ reorder!TrackerTypeOK
  /\ valid_r \subseteq Slots
  /\ o_mem \in [Slots -> Data \cup {Junk}]
  /\ tickets \in Seq(Ticket)

(* The pointers are as many slots apart as ids are out, and equal pointers *)
(* tell none from all by the last operation.                               *)
OutInv ==
  /\ Len(tickets) \in 0 .. els_p
  /\ o_wptr_r = Ahead(o_rptr_r, Len(tickets))
  /\ o_rptr_r = o_wptr_r =>
       IF Len(tickets) = 0 THEN ~o_enq_r /\ o_deq_r ELSE o_enq_r /\ ~o_deq_r

ReorderInv == ReorderTypeOK /\ OutInv /\ HeldInv

(* After reset. *)
LEMMA InitReorder == reorder!Init => ReorderInv
<1> SUFFICES ASSUME reorder!Init
             PROVE  ReorderInv
  OBVIOUS
<1>1. tickets = <<>> /\ Len(tickets) = 0 /\ o_rptr_r = 0 /\ o_wptr_r = 0
  BY DEF reorder!Init, reorder!TrackerReset
<1>2. ReorderTypeOK
  <2>1. 0 \in Slots
    OBVIOUS
  <2>2. QED
    BY <2>1, <1>1 DEF reorder!Init, reorder!TrackerReset, reorder!TrackerTypeOK, ReorderTypeOK
<1>3. OutInv
  BY <1>1 DEF reorder!Init, reorder!TrackerReset, OutInv, Ahead
<1>4. HeldInv
  BY <1>1 DEF reorder!Init, HeldInv, Held
<1>5. QED
  BY <1>2, <1>3, <1>4 DEF ReorderInv

-----------------------------------------------------------------------------
(* No two tickets, and no ticket and slot beyond them, share a slot.       *)
LEMMA OneOwner ==
  ASSUME NEW r \in Slots, NEW m \in 1 .. els_p, NEW n \in 1 .. els_p, m # n
  PROVE  Ahead(r, m - 1) # Ahead(r, n - 1)
<1>1. /\ m - 1 \in 0 .. els_p /\ n - 1 \in 0 .. els_p
      /\ m - 1 # els_p /\ n - 1 # els_p
      /\ m - 1 < n - 1 \/ n - 1 < m - 1
  OBVIOUS
<1>2. QED
  BY <1>1, AheadInjective

(* Handing out an id. *)
LEMMA TakeId ==
  ASSUME NEW r \in Slots, NEW tk \in Seq(Ticket), NEW valid, NEW store,
         Junk \notin Data, Len(tk) < els_p, Held(r, tk, valid, store),
         NEW t, t = [id |-> Ahead(r, Len(tk)), word |-> Junk]
  PROVE  /\ Append(tk, t) \in Seq(Ticket)
         /\ Len(Append(tk, t)) = Len(tk) + 1
         /\ Held(r, Append(tk, t), valid, store)
<1> DEFINE n == Len(tk)
           s == Append(tk, t)
<1>1. n \in Nat /\ n \in 0 .. els_p - 1
  OBVIOUS
<1>2. t.id = Ahead(r, n) /\ t.word = Junk
  OBVIOUS
<1>3. Ahead(r, n) \in Slots
  BY <1>1, AheadInSlots
<1>4. t \in Ticket
  BY <1>3 DEF Ticket
<1>5. /\ s \in Seq(Ticket) /\ Len(s) = n + 1 /\ s[n + 1] = t
      /\ \A i \in 1 .. n : s[i] = tk[i]
  BY <1>4
<1>6. n + 1 \in n + 1 .. els_p /\ (n + 1) - 1 = n
  BY <1>1
<1>7. Ahead(r, n) \notin valid
  BY <1>6 DEF Held
<1>8. ASSUME NEW i \in 1 .. n + 1
      PROVE  /\ s[i].id = Ahead(r, i - 1)
             /\ s[i].id \in valid <=> s[i].word # Junk
             /\ s[i].word # Junk => store[s[i].id] = s[i].word
  <2>1. CASE i = n + 1
    BY <2>1, <1>2, <1>5, <1>6, <1>7
  <2>2. CASE i \in 1 .. n
    BY <2>2, <1>5 DEF Held
  <2>3. QED
    BY <2>1, <2>2, <1>1
<1>9. ASSUME NEW k \in n + 2 .. els_p
      PROVE  Ahead(r, k - 1) \notin valid
  <2>1. k \in n + 1 .. els_p
    BY <1>1
  <2>2. QED
    BY <2>1 DEF Held
<1>10. QED
  BY <1>5, <1>8, <1>9 DEF Held

(* The tickets and the memory with the word w written for the id a.        *)
FillIn(tk, a, w) ==
  [i \in DOMAIN tk |-> IF tk[i].id = a THEN [id |-> a, word |-> w] ELSE tk[i]]
StoreIn(store, a, w) == [b \in Slots |-> IF b = a THEN w ELSE store[b]]

(* Writing the word of an open id. *)
LEMMA WriteWord ==
  ASSUME NEW r \in Slots, NEW tk \in Seq(Ticket), NEW valid, NEW store,
         Junk \notin Data, Len(tk) <= els_p, Held(r, tk, valid, store),
         NEW j \in 1 .. Len(tk), tk[j].word = Junk, NEW w \in Data
  PROVE  /\ FillIn(tk, tk[j].id, w) \in Seq(Ticket)
         /\ Len(FillIn(tk, tk[j].id, w)) = Len(tk)
         /\ Held(r, FillIn(tk, tk[j].id, w), valid \cup {tk[j].id},
                 StoreIn(store, tk[j].id, w))
<1> DEFINE n == Len(tk)
           a == tk[j].id
           t == [id |-> a, word |-> w]
           filled == FillIn(tk, a, w)
           store_n == StoreIn(store, a, w)
<1>1. n \in Nat /\ DOMAIN tk = 1 .. n /\ n <= els_p
  OBVIOUS
<1>2. \A i \in 1 .. n : tk[i].id = Ahead(r, i - 1) /\ i \in 1 .. els_p
  BY <1>1 DEF Held
<1>3. a \in Slots /\ t \in Ticket /\ t.id = a /\ t.word = w /\ w # Junk
  <2>1. tk[j] \in Ticket
    BY <1>1
  <2>2. a \in Slots
    BY <2>1 DEF Ticket
  <2>3. t \in Ticket
    BY <2>2 DEF Ticket
  <2>4. QED
    BY <2>2, <2>3
<1>4. \A i \in 1 .. n : tk[i].id = a <=> i = j
  BY <1>2, OneOwner
<1>5. \A i \in 1 .. n : filled[i] = IF i = j THEN t ELSE tk[i]
  <2> HIDE DEF t, a
  <2>1. filled = [i \in DOMAIN tk |-> IF tk[i].id = a THEN t ELSE tk[i]]
    BY DEF t, a, FillIn
  <2>2. QED
    BY <2>1, <1>1, <1>4
<1>6. filled \in Seq(Ticket) /\ Len(filled) = n
  <2>1. \A i \in 1 .. n : filled[i] \in Ticket
    BY <1>3, <1>5
  <2>2. filled = [i \in 1 .. n |-> filled[i]]
    BY <1>1 DEF FillIn
  <2> HIDE DEF n
  <2>3. QED
    BY <2>1, <2>2, <1>1
<1>7. ASSUME NEW i \in 1 .. n
      PROVE  /\ filled[i].id = Ahead(r, i - 1)
             /\ filled[i].id \in valid \cup {a} <=> filled[i].word # Junk
             /\ filled[i].word # Junk => store_n[filled[i].id] = filled[i].word
  <2>1. CASE i = j
    BY <2>1, <1>2, <1>3, <1>5 DEF StoreIn
  <2>2. CASE i # j
    <3>1. filled[i] = tk[i] /\ tk[i].id # a /\ tk[i].id \in Slots
      <4>1. tk[i] \in Ticket
        BY <1>1
      <4>2. tk[i].id \in Slots
        BY <4>1 DEF Ticket
      <4>3. QED
        BY <4>2, <2>2, <1>4, <1>5
    <3>2. store_n[tk[i].id] = store[tk[i].id]
      BY <3>1 DEF StoreIn
    <3>3. QED
      BY <3>1, <3>2 DEF Held
  <2>3. QED
    BY <2>1, <2>2
<1>8. ASSUME NEW k \in n + 1 .. els_p
      PROVE  Ahead(r, k - 1) \notin valid \cup {a}
  <2>1. k \in 1 .. els_p /\ k # j
    BY <1>1
  <2>2. Ahead(r, k - 1) # a
    BY <2>1, <1>2, OneOwner
  <2>3. QED
    BY <2>2 DEF Held
<1>9. QED
  BY <1>6, <1>7, <1>8 DEF Held

(* Dequeuing the word of the oldest id. *)
LEMMA DropOldest ==
  ASSUME NEW r \in Slots, NEW tk \in Seq(Ticket), NEW valid, NEW store,
         tk # <<>>, Len(tk) <= els_p, Held(r, tk, valid, store)
  PROVE  /\ Tail(tk) \in Seq(Ticket)
         /\ Len(Tail(tk)) = Len(tk) - 1
         /\ Held(Succ(r), Tail(tk), valid \ {r}, store)
<1> DEFINE n == Len(tk)
           s == Tail(tk)
<1>1. n \in Nat /\ n >= 1 /\ n <= els_p
  OBVIOUS
<1>2. s \in Seq(Ticket) /\ Len(s) = n - 1 /\ \A i \in 1 .. n - 1 : s[i] = tk[i + 1]
  OBVIOUS
<1>3. \A i \in 1 .. els_p : Ahead(Succ(r), i - 1) = Ahead(r, i)
  <2> TAKE i \in 1 .. els_p
  <2>1. i - 1 \in 0 .. els_p - 1 /\ (i - 1) + 1 = i
    OBVIOUS
  <2>2. QED
    BY <2>1, SuccAhead
<1>4. \A i \in 1 .. els_p - 1 : Ahead(r, i) # r
  <2> TAKE i \in 1 .. els_p - 1
  <2>1. i + 1 \in 1 .. els_p /\ 1 \in 1 .. els_p /\ (i + 1) - 1 = i /\ i + 1 # 1
    OBVIOUS
  <2>2. Ahead(r, (i + 1) - 1) # Ahead(r, 1 - 1)
    BY <2>1, OneOwner
  <2>3. QED
    BY <2>1, <2>2, AheadSelf
<1>5. ASSUME NEW i \in 1 .. n - 1
      PROVE  /\ s[i].id = Ahead(Succ(r), i - 1)
             /\ s[i].id \in valid \ {r} <=> s[i].word # Junk
             /\ s[i].word # Junk => store[s[i].id] = s[i].word
  <2>1. i + 1 \in 1 .. n /\ (i + 1) - 1 = i /\ i \in 1 .. els_p - 1
        /\ i \in 1 .. els_p
    BY <1>1
  <2>2. s[i] = tk[i + 1]
    BY <1>2
  <2>3. /\ tk[i + 1].id = Ahead(r, i)
        /\ tk[i + 1].id \in valid <=> tk[i + 1].word # Junk
        /\ tk[i + 1].word # Junk => store[tk[i + 1].id] = tk[i + 1].word
    BY <2>1 DEF Held
  <2>4. QED
    BY <2>1, <2>2, <2>3, <1>3, <1>4
<1>6. ASSUME NEW k \in n .. els_p
      PROVE  Ahead(Succ(r), k - 1) \notin valid \ {r}
  <2>1. k \in 1 .. els_p
    BY <1>1
  <2>2. Ahead(Succ(r), k - 1) = Ahead(r, k)
    BY <2>1, <1>3
  <2>3. CASE k = els_p
    BY <2>2, <2>3, AheadSelf
  <2>4. CASE k # els_p
    <3>1. k + 1 \in n + 1 .. els_p /\ (k + 1) - 1 = k
      BY <2>1, <2>4, <1>1
    <3>2. QED
      BY <3>1, <2>2 DEF Held
  <2>5. QED
    BY <2>3, <2>4
<1>7. QED
  BY <1>1, <1>2, <1>5, <1>6 DEF Held

-----------------------------------------------------------------------------
(* The ids that are open are those of tickets, and never the oldest one    *)
(* while its word is on offer.                                             *)
LEMMA OpenIds ==
  ASSUME NEW alloc, NEW wrs \in reorder!Writes(reorder!Open(alloc)), wrs # {}
  PROVE  \E j \in DOMAIN reorder!Given(alloc), w \in Data :
           /\ reorder!Given(alloc)[j].word = Junk
           /\ wrs = {[id |-> reorder!Given(alloc)[j].id, word |-> w]}
<1>1. PICK wr \in [id : reorder!Open(alloc), word : Data] : wrs = {wr}
  BY DEF reorder!Writes
<1>2. wr = [id |-> wr.id, word |-> wr.word] /\ wr.id \in reorder!Open(alloc) /\ wr.word \in Data
  BY <1>1
<1>3. PICK j \in DOMAIN reorder!Given(alloc) : reorder!Given(alloc)[j].word = Junk /\ wr.id = reorder!Given(alloc)[j].id
  BY <1>2 DEF reorder!Open
<1>4. wrs = {[id |-> reorder!Given(alloc)[j].id, word |-> wr.word]}
  BY <1>1, <1>2, <1>3
<1>5. QED
  BY <1>2, <1>3, <1>4

(* The memory after an edge with the writes wrs.                           *)
Stored(wrs) ==
  [b \in Slots |-> IF b \in reorder!Written(wrs)
                     THEN (CHOOSE wr \in wrs : wr.id = b).word
                     ELSE o_mem[b]]

(* What a set of one write does to the tickets and to the memory.          *)
LEMMA OneWrite ==
  ASSUME NEW alloc, NEW a, NEW w, NEW wrs, wrs = {[id |-> a, word |-> w]}
  PROVE  /\ reorder!Written(wrs) = {a}
         /\ reorder!Filled(alloc, wrs) = FillIn(reorder!Given(alloc), a, w)
         /\ Stored(wrs) = StoreIn(o_mem, a, w)
<1> DEFINE t == [id |-> a, word |-> w]
<1>1. t.id = a /\ t.word = w /\ wrs = {t}
  OBVIOUS
<1> HIDE DEF t
<1>2. reorder!Written(wrs) = {a}
  BY <1>1 DEF reorder!Written
<1>3. (CHOOSE wr \in wrs : wr.id = a) = t
  BY <1>1
<1>4. ASSUME NEW x, NEW e
      PROVE  (IF x \in reorder!Written(wrs) THEN CHOOSE wr \in wrs : wr.id = x ELSE e)
             = IF x = a THEN t ELSE e
  <2>1. CASE x = a
    BY <1>2, <1>3, <2>1
  <2>2. CASE x # a
    BY <1>2, <2>2
  <2>3. QED
    BY <2>1, <2>2
<1>5. reorder!Filled(alloc, wrs) =
        [i \in DOMAIN reorder!Given(alloc) |->
           IF reorder!Given(alloc)[i].id = a THEN t ELSE reorder!Given(alloc)[i]]
  BY <1>4 DEF reorder!Filled
<1>6. ASSUME NEW b \in Slots
      PROVE  (IF b \in reorder!Written(wrs) THEN (CHOOSE wr \in wrs : wr.id = b).word
              ELSE o_mem[b])
             = IF b = a THEN w ELSE o_mem[b]
  <2>1. CASE b = a
    BY <1>1, <1>2, <1>3, <2>1
  <2>2. CASE b # a
    BY <1>2, <2>2
  <2>3. QED
    BY <2>1, <2>2
<1>7. QED
  BY <1>2, <1>5, <1>6 DEF t, FillIn, StoreIn, Stored

(* A clock edge out of reset: an id is handed out, a word is written, and  *)
(* the oldest word leaves, each or none of them.                           *)
LEMMA ClkReorder ==
  ASSUME Junk \notin Data, ReorderInv,
         NEW alloc \in BOOLEAN, NEW deq \in BOOLEAN, NEW wrs,
         reorder!Step(alloc, wrs, deq)
  PROVE  ReorderInv'
<1> DEFINE r == o_rptr_r
           n == Len(tickets)
           G == reorder!Given(alloc)
           F == reorder!Filled(alloc, wrs)
           m == Len(F)
           V == valid_r \cup reorder!Written(wrs)
<1>1. /\ r \in Slots /\ o_wptr_r = Ahead(r, n) /\ o_wptr_r \in Slots
      /\ tickets \in Seq(Ticket) /\ n \in 0 .. els_p
      /\ valid_r \subseteq Slots /\ o_mem \in [Slots -> Data \cup {Junk}]
      /\ o_enq_r \in BOOLEAN /\ o_deq_r \in BOOLEAN
      /\ r = o_wptr_r => IF n = 0 THEN ~o_enq_r /\ o_deq_r ELSE o_enq_r /\ ~o_deq_r
      /\ Held(r, tickets, valid_r, o_mem)
  BY DEF ReorderInv, ReorderTypeOK, reorder!TrackerTypeOK, OutInv, HeldInv
<1>2. /\ alloc => ~reorder!full_o
      /\ deq => ~reorder!empty_o /\ r \in valid_r
      /\ wrs \in reorder!Writes(reorder!Open(alloc))
      /\ reorder!Edge(FALSE, alloc, wrs, deq)
      /\ tickets' = IF deq /\ tickets # <<>> THEN Tail(F) ELSE F
  BY DEF reorder!Step, reorder!fifo_alloc_v_o, reorder!fifo_deq_v_o
<1>3. alloc => n < els_p
  <2>1. n = els_p => reorder!full_o
    BY <1>1, AheadSelf DEF reorder!full_o
  <2>2. QED
    BY <2>1, <1>1, <1>2
<1>4. deq => n >= 1 /\ tickets # <<>>
  <2>1. n = 0 => reorder!empty_o
    BY <1>1, AheadSelf DEF reorder!empty_o
  <2>2. QED
    BY <2>1, <1>1, <1>2
<1>5. /\ G \in Seq(Ticket)
      /\ Len(G) = IF alloc THEN n + 1 ELSE n
      /\ Held(r, G, valid_r, o_mem)
  <2>1. CASE alloc
    <3> DEFINE t == [id |-> Ahead(r, n), word |-> Junk]
    <3>1. G = Append(tickets, t)
      BY <2>1, <1>1 DEF reorder!Given, reorder!fifo_alloc_id_o
    <3>2. /\ Append(tickets, t) \in Seq(Ticket)
          /\ Len(Append(tickets, t)) = n + 1
          /\ Held(r, Append(tickets, t), valid_r, o_mem)
      BY <2>1, <1>1, <1>3, TakeId
    <3>3. QED
      BY <3>1, <3>2, <2>1
  <2>2. CASE ~alloc
    BY <2>2, <1>1 DEF reorder!Given
  <2>3. QED
    BY <2>1, <2>2
<1>6. /\ Len(G) \in 0 .. els_p /\ DOMAIN G = 1 .. Len(G)
  BY <1>1, <1>3, <1>5
<1>7. /\ o_rptr_r' = IF deq THEN Succ(r) ELSE r
      /\ o_wptr_r' = Ahead(r, Len(G))
      /\ o_enq_r' = IF alloc \/ deq THEN alloc ELSE o_enq_r
      /\ o_deq_r' = IF alloc \/ deq THEN deq ELSE o_deq_r
  <2>1. /\ o_rptr_r' = IF deq THEN Succ(r) ELSE r
        /\ o_wptr_r' = IF alloc THEN Succ(o_wptr_r) ELSE o_wptr_r
        /\ o_enq_r' = IF alloc \/ deq THEN alloc ELSE o_enq_r
        /\ o_deq_r' = IF alloc \/ deq THEN deq ELSE o_deq_r
    BY <1>2 DEF reorder!Edge, reorder!TrackerEdge, reorder!rptr_n, reorder!Succ, Succ,
              reorder!fifo_alloc_v_o
  <2>2. alloc => Succ(Ahead(r, n)) = Ahead(r, n + 1)
    <3>1. alloc => n \in 0 .. els_p - 1
      BY <1>1, <1>3
    <3>2. QED
      BY <3>1, <1>1, AheadSucc
  <2>3. QED
    BY <2>1, <2>2, <1>1, <1>5
<1>8. /\ F \in Seq(Ticket) /\ m = Len(G)
      /\ Held(r, F, V, o_mem')
      /\ o_mem' \in [Slots -> Data \cup {Junk}]
      /\ V \subseteq Slots
      /\ deq => r \notin reorder!Written(wrs)
  <2>1. o_mem' = Stored(wrs)
    BY <1>2 DEF reorder!Edge, Stored
  <2>2. CASE wrs = {}
    <3>1. reorder!Written(wrs) = {}
      BY <2>2 DEF reorder!Written
    <3>2. F = G
      <4>1. F = [i \in DOMAIN G |-> G[i]]
        BY <3>1 DEF reorder!Filled
      <4>2. G = [i \in DOMAIN G |-> G[i]]
        BY <1>5
      <4>3. QED
        BY <4>1, <4>2
    <3>3. o_mem' = o_mem
      BY <2>1, <3>1, <1>1 DEF Stored
    <3>4. QED
      BY <3>1, <3>2, <3>3, <1>1, <1>5
  <2>3. CASE wrs # {}
    <3>1. PICK j \in DOMAIN G, w \in Data :
            G[j].word = Junk /\ wrs = {[id |-> G[j].id, word |-> w]}
      BY <2>3, <1>2, OpenIds
    <3>2. /\ reorder!Written(wrs) = {G[j].id}
          /\ F = FillIn(G, G[j].id, w)
          /\ o_mem' = StoreIn(o_mem, G[j].id, w)
      <4>1. wrs = {[id |-> G[j].id, word |-> w]}
        BY <3>1
      <4>2. /\ reorder!Written(wrs) = {G[j].id}
            /\ F = FillIn(G, G[j].id, w)
            /\ Stored(wrs) = StoreIn(o_mem, G[j].id, w)
        <5> DEFINE a == G[j].id
        <5>1. wrs = {[id |-> a, word |-> w]}
          BY <4>1
        <5> HIDE DEF a
        <5>2. /\ reorder!Written(wrs) = {a}
              /\ reorder!Filled(alloc, wrs) = FillIn(reorder!Given(alloc), a, w)
              /\ Stored(wrs) = StoreIn(o_mem, a, w)
          BY <5>1, OneWrite, SMTT(30)
        <5>3. QED
          BY <5>2 DEF a
      <4>3. QED
        BY <4>2, <2>1
    <3>3. j \in 1 .. Len(G) /\ Len(G) <= els_p
      BY <1>6
    <3>4. /\ F \in Seq(Ticket) /\ Len(F) = Len(G)
          /\ Held(r, F, valid_r \cup {G[j].id}, o_mem')
      <4>1. G \in Seq(Ticket) /\ Held(r, G, valid_r, o_mem) /\ r \in Slots
        BY <1>1, <1>5
      <4>2. G[j].word = Junk
        BY <3>1
      <4> HIDE DEF r, G, F
      <4>3. QED
        BY <3>2, <3>3, <4>1, <4>2, WriteWord, ZenonT(60)
    <3>5. G[j] \in Ticket
      BY <3>3, <1>5
    <3>6. G[j].id \in Slots
      BY <3>5 DEF Ticket
    <3>7. o_mem' \in [Slots -> Data \cup {Junk}]
      BY <3>2, <1>1 DEF StoreIn
    <3>8. deq => r # G[j].id
      <4>1. ASSUME deq
            PROVE  /\ 1 \in 1 .. Len(G) /\ G[1].id = Ahead(r, 0)
                   /\ G[1].id \in valid_r <=> G[1].word # Junk
                   /\ G[j].id \in valid_r <=> G[j].word # Junk
        <5>1. 1 \in 1 .. Len(G)
          BY <4>1, <1>1, <1>4, <1>5
        <5>2. QED
          BY <5>1, <3>3, <1>5 DEF Held
      <4>2. QED
        BY <4>1, <3>1, <1>1, <1>2, AheadSelf
    <3>9. QED
      BY <3>2, <3>4, <3>6, <3>7, <3>8, <1>1
  <2>4. QED
    BY <2>2, <2>3
<1>9. reorder!TrackerTypeOK'
  <2>1. o_wptr_r' \in Slots
    BY <1>1, <1>6, <1>7, AheadInSlots
  <2>2. o_rptr_r' \in Slots
    BY <1>1, <1>7 DEF Succ
  <2>3. o_enq_r' \in BOOLEAN /\ o_deq_r' \in BOOLEAN
    BY <1>1, <1>7
  <2>4. QED
    BY <2>1, <2>2, <2>3 DEF reorder!TrackerTypeOK
<1>10. valid_r' = (valid_r \ (IF deq THEN {r} ELSE {})) \cup reorder!Written(wrs)
  BY <1>2 DEF reorder!Edge, reorder!ValidNext
<1>11. CASE ~deq
  <2>1. tickets' = F /\ valid_r' = V /\ o_rptr_r' = r
    BY <1>2, <1>7, <1>10, <1>11
  <2>2. ReorderTypeOK'
    BY <2>1, <1>8, <1>9 DEF ReorderTypeOK
  <2>3. HeldInv'
    BY <2>1, <1>8 DEF HeldInv
  <2>4. OutInv'
    <3>1. Len(F) \in 0 .. els_p /\ o_wptr_r' = Ahead(r, Len(F))
      BY <1>6, <1>7, <1>8
    <3>2. CASE ~alloc
      <4>1. Len(F) = n /\ o_enq_r' = o_enq_r /\ o_deq_r' = o_deq_r /\ o_wptr_r' = o_wptr_r
        BY <3>2, <1>1, <1>5, <1>7, <1>8, <1>11
      <4>2. QED
        BY <4>1, <3>1, <2>1, <1>1 DEF OutInv
    <3>3. CASE alloc
      <4>1. Len(F) # 0 /\ o_enq_r' /\ ~o_deq_r'
        <5>1. Len(F) = n + 1
          BY <3>3, <1>5, <1>8
        <5>2. o_enq_r' = alloc /\ o_deq_r' = deq
          BY <3>3, <1>7
        <5>3. Len(F) # 0
          BY <5>1, <1>1
        <5>4. QED
          BY <5>2, <5>3, <3>3, <1>11
      <4>2. QED
        BY <4>1, <3>1, <2>1 DEF OutInv
    <3>4. QED
      BY <3>2, <3>3
  <2>5. QED
    BY <2>2, <2>3, <2>4 DEF ReorderInv
<1>12. CASE deq
  <2>1. tickets' = Tail(F) /\ valid_r' = V \ {r} /\ o_rptr_r' = Succ(r)
    <3>1. valid_r' = (valid_r \ {r}) \cup reorder!Written(wrs) /\ r \notin reorder!Written(wrs)
      BY <1>8, <1>10, <1>12
    <3>2. QED
      BY <3>1, <1>2, <1>4, <1>7, <1>12
  <2>2. m \in 1 .. els_p /\ F # <<>>
    BY <1>1, <1>4, <1>5, <1>6, <1>8, <1>12
  <2>3. /\ Tail(F) \in Seq(Ticket) /\ Len(Tail(F)) = m - 1
        /\ Held(Succ(r), Tail(F), V \ {r}, o_mem')
    <3>1. m <= els_p
      BY <2>2
    <3> HIDE DEF r, F, V
    <3>2. QED
      BY <3>1, <2>2, <1>1, <1>8, DropOldest DEF m
  <2>4. ReorderTypeOK'
    BY <2>1, <2>3, <1>8, <1>9 DEF ReorderTypeOK
  <2>5. HeldInv'
    BY <2>1, <2>3 DEF HeldInv
  <2>6. OutInv'
    <3>1. m - 1 \in 0 .. els_p - 1 /\ (m - 1) + 1 = m /\ m - 1 \in 0 .. els_p
          /\ m - 1 # els_p /\ 0 \in 0 .. els_p /\ (m - 1 = 0 \/ 0 < m - 1)
      <4> HIDE DEF m
      <4>1. QED
        BY <2>2
    <3>2. Succ(r) \in Slots /\ o_wptr_r' = Ahead(Succ(r), m - 1)
      BY <3>1, <1>1, <1>7, <1>8, SuccAhead, ZenonT(60)
    <3>3. ASSUME o_rptr_r' = o_wptr_r' PROVE m - 1 = 0 /\ ~o_enq_r' /\ o_deq_r'
      <4>1. Ahead(Succ(r), 0) = Ahead(Succ(r), m - 1)
        BY <3>2, <3>3, <2>1, AheadSelf
      <4>2. m - 1 = 0
        <5> HIDE DEF m, r
        <5>1. QED
          BY <4>1, <3>1, <3>2, AheadInjective
      <4>3. ~alloc
        BY <4>2, <1>1, <1>4, <1>5, <1>8, <1>12
      <4>4. QED
        BY <4>2, <4>3, <1>7, <1>12
    <3>4. QED
      BY <3>1, <3>2, <3>3, <2>1, <2>3 DEF OutInv
  <2>7. QED
    BY <2>4, <2>5, <2>6 DEF ReorderInv
<1>13. QED
  BY <1>11, <1>12

(* A step of the specification. *)
LEMMA NextReorder ==
  ASSUME Junk \notin Data, ReorderInv, [reorder!Next]_(reorder!vars)
  PROVE  ReorderInv'
<1>1. CASE reorder!Clk
  BY <1>1, ClkReorder DEF reorder!Clk
<1>2. CASE reorder!Reset
  <2>1. PICK alloc \in BOOLEAN, deq \in BOOLEAN, wrs \in reorder!Writes(Slots) :
          reorder!Edge(TRUE, alloc, wrs, deq) /\ tickets' = <<>>
    BY <1>2 DEF reorder!Reset
  <2>2. /\ o_rptr_r' = 0 /\ o_wptr_r' = 0 /\ o_enq_r' = FALSE /\ o_deq_r' = TRUE
        /\ valid_r' = {} /\ tickets' = <<>> /\ Len(tickets') = 0
    BY <2>1 DEF reorder!Edge, reorder!TrackerEdge
  <2>3. o_mem' \in [Slots -> Data \cup {Junk}]
    <3>1. o_mem \in [Slots -> Data \cup {Junk}]
      BY DEF ReorderInv, ReorderTypeOK
    <3>2. ASSUME NEW a \in reorder!Written(wrs)
          PROVE  (CHOOSE wr \in wrs : wr.id = a).word \in Data
      <4>1. \A wr \in wrs : wr.word \in Data
        BY DEF reorder!Writes
      <4>2. \E wr \in wrs : wr.id = a
        BY <3>2 DEF reorder!Written
      <4>3. (CHOOSE wr \in wrs : wr.id = a) \in wrs
        BY <4>2
      <4>4. QED
        BY <4>1, <4>3
    <3>3. QED
      BY <2>1, <3>1, <3>2 DEF reorder!Edge
  <2>4. ReorderTypeOK'
    <3>1. 0 \in Slots
      OBVIOUS
    <3>2. reorder!TrackerTypeOK'
      BY <2>2, <3>1, Zenon DEF reorder!TrackerTypeOK
    <3>3. valid_r' \subseteq Slots /\ tickets' \in Seq(Ticket)
      BY <2>2
    <3>4. QED
      BY <2>3, <3>2, <3>3, Zenon DEF ReorderTypeOK
  <2>5. OutInv'
    BY <2>2 DEF OutInv, Ahead
  <2>6. HeldInv'
    BY <2>2 DEF HeldInv, Held
  <2>7. QED
    BY <2>4, <2>5, <2>6 DEF ReorderInv
<1>3. CASE UNCHANGED reorder!vars
  BY <1>3 DEF reorder!vars, reorder!tracker, ReorderInv, ReorderTypeOK, reorder!TrackerTypeOK, OutInv,
              HeldInv
<1>4. QED
  BY <1>1, <1>2, <1>3 DEF reorder!Next

(* Slots, marks and memory always stand for the ids that are out.          *)
THEOREM ReorderInvariant ==
  ASSUME Junk \notin Data
  PROVE  reorder!Spec => []ReorderInv
BY InitReorder, NextReorder, PTL DEF reorder!Spec

(* A word is on offer exactly when the oldest id has been written, and it  *)
(* is the word written for that id: bsg_fifo_reorder delivers in the order *)
(* in which the ids were handed out, for every depth.                      *)
THEOREM DeliversInOrder ==
  ASSUME Junk \notin Data
  PROVE  reorder!Spec => []reorder!OwnWord
<1>1. ReorderInv => reorder!OwnWord
  <2> SUFFICES ASSUME ReorderInv
               PROVE  reorder!OwnWord
    OBVIOUS
  <2> DEFINE n == Len(tickets)
  <2>1. /\ o_rptr_r \in Slots /\ tickets \in Seq(Ticket) /\ n \in 0 .. els_p
        /\ o_wptr_r = Ahead(o_rptr_r, n)
        /\ o_rptr_r = o_wptr_r => IF n = 0 THEN ~o_enq_r /\ o_deq_r ELSE o_enq_r /\ ~o_deq_r
        /\ Held(o_rptr_r, tickets, valid_r, o_mem)
    BY DEF ReorderInv, ReorderTypeOK, reorder!TrackerTypeOK, OutInv, HeldInv
  <2>2. reorder!empty_o <=> n = 0
    BY <2>1, AheadSelf DEF reorder!empty_o
  <2>3. CASE n = 0
    BY <2>1, <2>2, <2>3 DEF reorder!OwnWord, reorder!fifo_deq_v_o
  <2>4. CASE n # 0
    <3>1. tickets # <<>> /\ Head(tickets) = tickets[1] /\ 1 \in 1 .. n
      BY <2>1, <2>4
    <3>2. /\ tickets[1].id = o_rptr_r
          /\ o_rptr_r \in valid_r <=> tickets[1].word # Junk
          /\ tickets[1].word # Junk => o_mem[o_rptr_r] = tickets[1].word
      BY <3>1, <2>1, AheadSelf DEF Held
    <3>3. QED
      BY <3>1, <3>2, <2>2, <2>4 DEF reorder!OwnWord, reorder!fifo_deq_v_o, reorder!fifo_deq_data_o
  <2>5. QED
    BY <2>3, <2>4
<1>2. QED
  BY <1>1, ReorderInvariant, PTL

(* The same beside the other queues. *)
THEOREM OwnWordInTurn == QueuesSpec => []OwnWord
<1>1. QueuesInit => reorder!Init
  BY DEF QueuesInit
<1>2. [QueuesNext]_all => [reorder!Next]_(reorder!vars)
  <2>1. SUFFICES ASSUME [QueuesNext]_all
                 PROVE  reorder!Next \/ UNCHANGED reorder!vars
    OBVIOUS
  <2>2. UNCHANGED reorder_vars => UNCHANGED reorder!vars
    BY DEF reorder_vars, reorder!vars, reorder!tracker
  <2>3. CASE UNCHANGED all
    BY <2>2, <2>3 DEF all
  <2>4. CASE QueuesNext
    BY <2>2, <2>4, Zenon DEF QueuesNext
  <2>5. QED
    BY <2>1, <2>3, <2>4
<1>3. reorder!Spec => []reorder!OwnWord
  BY DeliversInOrder, ReorderAssumption DEF reorder!ReorderAssumption
<1>4. QED
  BY <1>1, <1>2, <1>3, PTL DEF QueuesSpec, reorder!Spec, OwnWord
-----------------------------------------------------------------------------
(* The queue over one port (bsg_fifo_1rw_large): the place n after p in a  *)
(* memory of N.                                                            *)
Place(p, n, N) == IF p + n < N THEN p + n ELSE p + n - N
Nxt(p, N) == IF p = N - 1 THEN 0 ELSE p + 1

(* The memory m holds the words B from the read pointer on, oldest first.  *)
RamHolds(rd, wr, m, B, N) ==
  /\ rd \in 0 .. N - 1 /\ wr \in 0 .. N - 1
  /\ Len(B) <= N
  /\ wr = Place(rd, Len(B), N)
  /\ \A i \in 1 .. Len(B) : B[i] = m[Place(rd, i - 1, N)]

MemWith(m, p, d) == [m EXCEPT ![p] = d]

(* How many there are, as far as the pointers tell.                        *)
LEMMA RamLen ==
  ASSUME NEW N \in Nat \ {0}, NEW S, NEW B \in Seq(S),
         NEW rd, NEW wr, NEW m, RamHolds(rd, wr, m, B, N)
  PROVE  /\ Len(B) \in Nat /\ Len(B) <= N /\ rd \in 0 .. N - 1 /\ wr \in 0 .. N - 1
         /\ rd = wr <=> Len(B) = 0 \/ Len(B) = N
         /\ B = <<>> <=> Len(B) = 0
         /\ B # <<>> => m[rd] = Head(B) /\ Head(B) \in S
         /\ rd # wr => Len(B) = IF wr >= rd THEN wr - rd ELSE wr - rd + N
<1>1. Len(B) \in Nat
  BY LenProperties
<1>2. /\ rd \in 0 .. N - 1 /\ wr \in 0 .. N - 1 /\ Len(B) <= N
      /\ wr = Place(rd, Len(B), N)
  BY DEF RamHolds
<1>3. rd = wr <=> Len(B) = 0 \/ Len(B) = N
  BY <1>1, <1>2 DEF Place
<1>4. B = <<>> <=> Len(B) = 0
  BY EmptySeq
<1>5. B # <<>> => m[rd] = Head(B) /\ Head(B) \in S
  <2>1. B # <<>> => B[1] = m[Place(rd, 1 - 1, N)]
    BY <1>1, <1>4 DEF RamHolds
  <2>2. Place(rd, 1 - 1, N) = rd
    BY <1>2 DEF Place
  <2>3. QED
    BY <2>1, <2>2, HeadTailProperties
<1>6. rd # wr => Len(B) = IF wr >= rd THEN wr - rd ELSE wr - rd + N
  BY <1>1, <1>2 DEF Place
<1>7. QED
  BY <1>1, <1>2, <1>3, <1>4, <1>5, <1>6

(* Writing the slot at the write pointer of a memory with room appends.    *)
LEMMA RamPut ==
  ASSUME NEW N \in Nat \ {0}, NEW S, NEW B \in Seq(S), NEW d \in S,
         NEW rd, NEW wr, NEW M, NEW m \in [0 .. N - 1 -> M],
         RamHolds(rd, wr, m, B, N), Len(B) < N
  PROVE  RamHolds(rd, Nxt(wr, N), MemWith(m, wr, d), Append(B, d), N)
<1> DEFINE n == Len(B)
           B2 == Append(B, d)
           m2 == MemWith(m, wr, d)
<1>1. n \in Nat /\ n < N
  BY LenProperties
<1>2. /\ rd \in 0 .. N - 1 /\ wr \in 0 .. N - 1 /\ wr = Place(rd, n, N)
      /\ \A i \in 1 .. n : B[i] = m[Place(rd, i - 1, N)]
  BY DEF RamHolds
<1>3. Len(B2) = n + 1 /\ B2[n + 1] = d /\ \A i \in 1 .. n : B2[i] = B[i]
  BY AppendProperties
<1>4. Nxt(wr, N) \in 0 .. N - 1 /\ Nxt(wr, N) = Place(rd, n + 1, N)
  BY <1>1, <1>2, SMTT(30) DEF Place, Nxt
<1>5. ASSUME NEW i \in 1 .. n + 1 PROVE B2[i] = m2[Place(rd, i - 1, N)]
  <2>1. CASE i = n + 1
    <3>1. Place(rd, i - 1, N) = wr
      BY <1>1, <1>2, <2>1
    <3>2. m2[wr] = d
      BY <1>2 DEF MemWith
    <3>3. QED
      BY <3>1, <3>2, <2>1, <1>3
  <2>2. CASE i # n + 1
    <3>1. i \in 1 .. n
      BY <1>1, <2>2
    <3>2. Place(rd, i - 1, N) \in 0 .. N - 1 /\ Place(rd, i - 1, N) # wr
      BY <3>1, <1>1, <1>2 DEF Place
    <3>3. m2[Place(rd, i - 1, N)] = m[Place(rd, i - 1, N)]
      BY <3>2 DEF MemWith
    <3>4. QED
      BY <3>1, <3>3, <1>2, <1>3
  <2>3. QED
    BY <2>1, <2>2
<1>6. Len(B2) <= N /\ Nxt(wr, N) = Place(rd, Len(B2), N)
      /\ \A i \in 1 .. Len(B2) : B2[i] = m2[Place(rd, i - 1, N)]
  BY <1>1, <1>3, <1>4, <1>5, SMTT(30)
<1> HIDE DEF B2, m2
<1>7. RamHolds(rd, Nxt(wr, N), m2, B2, N)
  BY <1>2, <1>4, <1>6 DEF RamHolds
<1>8. QED
  BY <1>7 DEF B2, m2

(* Reading the slot at the read pointer drops the oldest.                  *)
LEMMA RamTake ==
  ASSUME NEW N \in Nat \ {0}, NEW S, NEW B \in Seq(S),
         NEW rd, NEW wr, NEW m,
         RamHolds(rd, wr, m, B, N), B # <<>>
  PROVE  RamHolds(Nxt(rd, N), wr, m, Tail(B), N)
<1> DEFINE n == Len(B)
           B2 == Tail(B)
<1>1. n \in Nat /\ n # 0
  BY EmptySeq, LenProperties
<1>2. /\ rd \in 0 .. N - 1 /\ wr \in 0 .. N - 1 /\ n <= N /\ wr = Place(rd, n, N)
      /\ \A i \in 1 .. n : B[i] = m[Place(rd, i - 1, N)]
  BY DEF RamHolds
<1>3. Len(B2) = n - 1 /\ \A i \in 1 .. n - 1 : B2[i] = B[i + 1]
  BY HeadTailProperties
<1>4. Nxt(rd, N) \in 0 .. N - 1 /\ Place(Nxt(rd, N), n - 1, N) = wr
  BY <1>1, <1>2 DEF Place, Nxt
<1>5. ASSUME NEW i \in 1 .. n - 1
      PROVE B2[i] = m[Place(Nxt(rd, N), i - 1, N)]
  <2>1. Place(Nxt(rd, N), i - 1, N) = Place(rd, (i + 1) - 1, N)
    BY <1>1, <1>2 DEF Place, Nxt
  <2>2. i + 1 \in 1 .. n
    BY <1>1
  <2>3. QED
    BY <2>1, <2>2, <1>2, <1>3
<1>6. Len(B2) <= N /\ wr = Place(Nxt(rd, N), Len(B2), N)
      /\ \A i \in 1 .. Len(B2) : B2[i] = m[Place(Nxt(rd, N), i - 1, N)]
  BY <1>1, <1>2, <1>3, <1>4, <1>5
<1> HIDE DEF B2
<1>7. RamHolds(Nxt(rd, N), wr, m, B2, N)
  BY <1>2, <1>4, <1>6 DEF RamHolds
<1>8. QED
  BY <1>7 DEF B2

(* The place i after p, found by division. *)
LEMMA PlaceMod ==
  ASSUME NEW N \in Nat \ {0}, NEW p \in 0 .. N - 1, NEW i \in 0 .. N
  PROVE  (p + i) % N = Place(p, i, N)
BY DEF Place

(* An empty memory. *)
LEMMA RamEmpty ==
  ASSUME NEW N \in Nat \ {0}, NEW m, NEW z, z = 0
  PROVE  RamHolds(z, z, m, <<>>, N)
BY DEF RamHolds, Place

-----------------------------------------------------------------------------
(* The two-word queue at the output: its memory holds the words L from the *)
(* head on.                                                                *)
TwoHolds(hd, tl, m, L) ==
  /\ hd \in 0 .. 1
  /\ Len(L) <= 2
  /\ tl = IF Len(L) = 1 THEN 1 - hd ELSE hd
  /\ Len(L) > 0 => m[hd] = L[1]
  /\ Len(L) = 2 => m[1 - hd] = L[2]

(* The numbers up to two. *)
LEMMA UpToTwo == ASSUME NEW n \in Nat, n <= 2 PROVE n = 0 \/ n = 1 \/ n = 2
OBVIOUS

(* How many there are, and the slot for the next.                          *)
LEMMA TwoLen ==
  ASSUME NEW S, NEW L \in Seq(S), NEW m, NEW hd, NEW tl, TwoHolds(hd, tl, m, L)
  PROVE  /\ Len(L) = 0 \/ Len(L) = 1 \/ Len(L) = 2
         /\ L = <<>> <=> Len(L) = 0
         /\ hd \in 0 .. 1 /\ tl \in 0 .. 1
         /\ L # <<>> => m[hd] = Head(L)
<1>1. Len(L) \in Nat /\ Len(L) <= 2
  BY LenProperties DEF TwoHolds
<1>2. Len(L) = 0 \/ Len(L) = 1 \/ Len(L) = 2
  BY ONLY <1>1, UpToTwo
<1>3. L = <<>> <=> Len(L) = 0
  BY EmptySeq
<1>4. hd \in 0 .. 1 /\ tl \in 0 .. 1
  BY DEF TwoHolds
<1>5. L # <<>> => m[hd] = Head(L)
  BY <1>2, <1>3 DEF TwoHolds
<1>6. QED
  BY <1>2, <1>3, <1>4, <1>5

(* A word enters a queue with room. *)
LEMMA TwoPut ==
  ASSUME NEW S, NEW L \in Seq(S), NEW d \in S, NEW M, NEW m \in [0 .. 1 -> M],
         NEW hd, NEW tl, TwoHolds(hd, tl, m, L), Len(L) # 2
  PROVE  TwoHolds(hd, 1 - tl, MemWith(m, tl, d), Append(L, d))
<1> DEFINE L2 == Append(L, d)
           m2 == MemWith(m, tl, d)
<1>1. Len(L) = 0 \/ Len(L) = 1
  BY TwoLen
<1>2. Len(L2) = Len(L) + 1 /\ L2[Len(L) + 1] = d /\ (Len(L) = 1 => L2[1] = L[1])
  BY <1>1, AppendProperties
<1>3. /\ hd \in 0 .. 1
      /\ tl = IF Len(L) = 1 THEN 1 - hd ELSE hd
      /\ Len(L) > 0 => m[hd] = L[1]
  BY DEF TwoHolds
<1>4. /\ tl \in 0 .. 1 /\ m2[tl] = d
      /\ \A p \in 0 .. 1 : p # tl => m2[p] = m[p]
  BY <1>1, <1>3 DEF MemWith
<1> HIDE DEF L2, m2
<1>5. TwoHolds(hd, 1 - tl, m2, L2)
  <2>1. CASE Len(L) = 0
    BY <2>1, <1>2, <1>3, <1>4 DEF TwoHolds
  <2>2. CASE Len(L) = 1
    <3>1. hd # tl /\ 1 - hd = tl /\ 1 - tl = hd
      BY <1>3, <2>2
    <3>2. m2[hd] = L2[1] /\ m2[1 - hd] = L2[2]
      BY <3>1, <1>2, <1>3, <1>4, <2>2
    <3>3. QED
      BY <3>1, <3>2, <1>2, <1>3, <2>2 DEF TwoHolds
  <2>3. QED
    BY <1>1, <2>1, <2>2
<1>6. QED
  BY <1>5 DEF L2, m2

(* The oldest word leaves. *)
LEMMA TwoTake ==
  ASSUME NEW S, NEW L \in Seq(S), NEW m, NEW hd, NEW tl,
         TwoHolds(hd, tl, m, L), L # <<>>
  PROVE  TwoHolds(1 - hd, tl, m, Tail(L))
<1> DEFINE L2 == Tail(L)
<1>1. Len(L) = 1 \/ Len(L) = 2
  BY TwoLen
<1>2. Len(L2) = Len(L) - 1 /\ (Len(L) = 2 => L2[1] = L[2])
  BY <1>1, HeadTailProperties
<1>3. /\ hd \in 0 .. 1
      /\ tl = IF Len(L) = 1 THEN 1 - hd ELSE hd
      /\ Len(L) = 2 => m[1 - hd] = L[2]
  BY DEF TwoHolds
<1> HIDE DEF L2
<1>4. TwoHolds(1 - hd, tl, m, L2)
  <2>1. CASE Len(L) = 1
    BY <1>2, <1>3, <2>1 DEF TwoHolds
  <2>2. CASE Len(L) = 2
    BY <1>2, <1>3, <2>2 DEF TwoHolds
  <2>3. QED
    BY <1>1, <2>1, <2>2
<1>5. QED
  BY <1>4 DEF L2

(* A word enters as the oldest leaves, which may be the one it replaces.   *)
LEMMA TwoSwap ==
  ASSUME NEW S, NEW L \in Seq(S), NEW d \in S, NEW M, NEW m \in [0 .. 1 -> M],
         NEW hd, NEW tl, TwoHolds(hd, tl, m, L), L # <<>>
  PROVE  TwoHolds(1 - hd, 1 - tl, MemWith(m, tl, d), Append(Tail(L), d))
<1> DEFINE L2 == Append(Tail(L), d)
           m2 == MemWith(m, tl, d)
<1>1. Len(L) = 1 \/ Len(L) = 2
  BY TwoLen
<1>2. Tail(L) \in Seq(S) /\ Len(Tail(L)) = Len(L) - 1 /\ (Len(L) = 2 => Tail(L)[1] = L[2])
  BY <1>1, HeadTailProperties
<1>3. Len(L2) = Len(L) /\ L2[Len(L)] = d /\ (Len(L) = 2 => L2[1] = L[2])
  BY <1>1, <1>2, AppendProperties
<1>4. /\ hd \in 0 .. 1
      /\ tl = IF Len(L) = 1 THEN 1 - hd ELSE hd
      /\ Len(L) = 2 => m[1 - hd] = L[2]
  BY DEF TwoHolds
<1>5. /\ tl \in 0 .. 1 /\ m2[tl] = d
      /\ \A p \in 0 .. 1 : p # tl => m2[p] = m[p]
  BY <1>1, <1>4 DEF MemWith
<1> HIDE DEF L2, m2
<1>6. TwoHolds(1 - hd, 1 - tl, m2, L2)
  <2>1. CASE Len(L) = 1
    BY <2>1, <1>3, <1>4, <1>5 DEF TwoHolds
  <2>2. CASE Len(L) = 2
    <3>1. tl = hd /\ 1 - hd # tl /\ 1 - (1 - hd) = hd
      BY <1>4, <2>2
    <3>2. m2[1 - hd] = L2[1] /\ m2[hd] = L2[2]
      BY <3>1, <1>3, <1>4, <1>5, <2>2
    <3>3. QED
      BY <3>1, <3>2, <1>3, <1>4, <2>2 DEF TwoHolds
  <2>3. QED
    BY <1>1, <2>1, <2>2
<1>7. QED
  BY <1>6 DEF L2, m2

(* An empty queue. *)
LEMMA TwoEmpty ==
  ASSUME NEW m, NEW z, z = 0
  PROVE  TwoHolds(z, z, m, <<>>)
BY DEF TwoHolds

(* The words the memory holds, read from it.                               *)
LEMMA TwoContents ==
  ASSUME NEW S, NEW L \in Seq(S), NEW m, NEW hd, NEW tl, TwoHolds(hd, tl, m, L)
  PROVE  /\ Len(L) = 0 => L = <<>>
         /\ Len(L) = 1 => L = <<m[hd]>>
         /\ Len(L) = 2 => L = <<m[hd], m[1 - hd]>>
<1>1. \A i \in 1 .. Len(L) : L[i] \in S
  BY ElementOfSeq
<1>2. CASE Len(L) = 0
  BY <1>2, EmptySeq
<1>3. CASE Len(L) = 1
  BY <1>3, <1>1, SeqEqual DEF TwoHolds
<1>4. CASE Len(L) = 2
  BY <1>4, <1>1, SeqEqual DEF TwoHolds
<1>5. QED
  BY TwoLen, <1>2, <1>3, <1>4

-----------------------------------------------------------------------------
(* Sequences: moving the oldest word from one to the end of another keeps  *)
(* the words of both in their order.                                       *)
LEMMA MoveHead ==
  ASSUME NEW S, NEW B \in Seq(S), B # <<>>
  PROVE  <<Head(B)>> \o Tail(B) = B
<1>1. Head(B) \in S /\ Tail(B) \in Seq(S) /\ Head(B) = B[1]
      /\ Len(Tail(B)) = Len(B) - 1 /\ \A i \in 1 .. Len(Tail(B)) : Tail(B)[i] = B[i + 1]
  BY HeadTailProperties
<1>2. <<Head(B)>> \in Seq(S) /\ Len(<<Head(B)>>) = 1 /\ <<Head(B)>>[1] = B[1]
  BY <1>1
<1> DEFINE one == <<Head(B)>>
           whole == one \o Tail(B)
<1>3. Len(B) \in Nat /\ Len(B) # 0
  BY EmptySeq
<1> HIDE DEF one
<1>4. one \in Seq(S) /\ Len(one) = 1 /\ one[1] = B[1]
  BY <1>2 DEF one
<1>5. /\ whole \in Seq(S) /\ Len(whole) = Len(B)
      /\ \A i \in 1 .. Len(B) : whole[i] = IF i <= 1 THEN one[i] ELSE Tail(B)[i - 1]
  <2>1. 1 + Len(Tail(B)) = Len(B)
    BY <1>1, <1>3
  <2>2. one \in Seq(S) /\ Tail(B) \in Seq(S)
    BY <1>1, <1>4
  <2>3. /\ one \o Tail(B) \in Seq(S) /\ Len(one \o Tail(B)) = Len(one) + Len(Tail(B))
        /\ \A i \in 1 .. Len(one) + Len(Tail(B)) :
             (one \o Tail(B))[i] = IF i <= Len(one) THEN one[i] ELSE Tail(B)[i - Len(one)]
    BY ONLY <2>2, ConcatProperties, Zenon
  <2>4. QED
    BY <2>1, <2>3, <1>4
<1>6. ASSUME NEW i \in 1 .. Len(B) PROVE whole[i] = B[i]
  <2>1. CASE i = 1
    BY <2>1, <1>4, <1>5
  <2>2. CASE i # 1
    <3>1. i - 1 \in 1 .. Len(Tail(B)) /\ (i - 1) + 1 = i /\ ~(i <= 1)
      BY <2>2, <1>1, <1>3
    <3>2. Tail(B)[i - 1] = B[i]
      BY <3>1, <1>1
    <3>3. QED
      BY <3>1, <3>2, <1>5
  <2>3. QED
    BY <2>1, <2>2
<1>7. whole = B
  BY <1>5, <1>6, SeqEqual
<1>8. QED
  BY <1>7 DEF one

(* Taking the oldest of what two sequences hold takes it from the first.   *)
LEMMA TailOfFirst ==
  ASSUME NEW S, NEW L \in Seq(S), NEW X \in Seq(S), L # <<>>
  PROVE  L \o X # <<>> /\ Tail(L \o X) = Tail(L) \o X
<1>1. /\ L \o X \in Seq(S) /\ Len(L \o X) = Len(L) + Len(X)
      /\ \A i \in 1 .. Len(L) + Len(X) :
           (L \o X)[i] = IF i <= Len(L) THEN L[i] ELSE X[i - Len(L)]
  BY ConcatProperties
<1>2. Len(L) \in Nat /\ Len(L) # 0 /\ Len(X) \in Nat
  BY EmptySeq, LenProperties
<1>3. L \o X # <<>>
  BY <1>1, <1>2, EmptySeq
<1>4. /\ Tail(L) \in Seq(S) /\ Len(Tail(L)) = Len(L) - 1
      /\ \A i \in 1 .. Len(Tail(L)) : Tail(L)[i] = L[i + 1]
  BY HeadTailProperties
<1> DEFINE T == Tail(L \o X)
           U == Tail(L) \o X
<1>5. /\ T \in Seq(S) /\ Len(T) = Len(L) + Len(X) - 1
      /\ \A i \in 1 .. Len(T) : T[i] = (L \o X)[i + 1]
  BY <1>1, <1>3, HeadTailProperties
<1>6. /\ U \in Seq(S) /\ Len(U) = Len(L) - 1 + Len(X)
      /\ \A i \in 1 .. Len(L) - 1 + Len(X) :
           U[i] = IF i <= Len(L) - 1 THEN Tail(L)[i] ELSE X[i - (Len(L) - 1)]
  BY <1>4, ConcatProperties
<1>7. Len(T) = Len(U)
  BY <1>2, <1>5, <1>6
<1>8. ASSUME NEW i \in 1 .. Len(T) PROVE T[i] = U[i]
  <2> HIDE DEF T, U
  <2>1. i \in Nat /\ i >= 1 /\ i <= Len(L) + Len(X) - 1 /\ i + 1 \in 1 .. Len(L) + Len(X)
        /\ i \in 1 .. Len(L) - 1 + Len(X)
    BY <1>2, <1>5
  <2>2. T[i] = (L \o X)[i + 1]
    BY <1>5
  <2>3. CASE i <= Len(L) - 1
    <3>1. i + 1 <= Len(L) /\ i \in 1 .. Len(Tail(L))
      BY <2>1, <2>3, <1>2, <1>4
    <3>2. (L \o X)[i + 1] = L[i + 1]
      BY <3>1, <2>1, <1>1
    <3>3. U[i] = L[i + 1]
      BY <3>1, <2>1, <2>3, <1>4, <1>6
    <3>4. QED
      BY <3>2, <3>3, <2>2
  <2>4. CASE ~(i <= Len(L) - 1)
    <3>1. ~(i + 1 <= Len(L)) /\ (i + 1) - Len(L) = i - (Len(L) - 1)
      BY <2>1, <2>4, <1>2
    <3>2. (L \o X)[i + 1] = X[i - (Len(L) - 1)]
      BY <3>1, <2>1, <1>1
    <3>3. U[i] = X[i - (Len(L) - 1)]
      BY <2>1, <2>4, <1>6
    <3>4. QED
      BY <3>2, <3>3, <2>2
  <2>5. QED
    BY <2>3, <2>4
<1>9. T = U
  BY <1>5, <1>6, <1>7, <1>8, SeqEqual
<1>10. QED
  BY <1>3, <1>9

(* Concatenation, by a name of its own.                                    *)
Cat(s, t) == s \o t

(* The result is a sequence. *)
LEMMA CatSeq ==
  ASSUME NEW S, NEW s \in Seq(S), NEW t \in Seq(S)
  PROVE  Cat(s, t) \in Seq(S)
BY ConcatProperties DEF Cat

(* It may be read from either side. *)
LEMMA CatAssociative ==
  ASSUME NEW S, NEW s \in Seq(S), NEW t \in Seq(S), NEW u \in Seq(S)
  PROVE  Cat(Cat(s, t), u) = Cat(s, Cat(t, u))
BY ConcatAssociative DEF Cat

(* The empty sequence adds nothing. *)
LEMMA CatEmpty ==
  ASSUME NEW S, NEW s \in Seq(S)
  PROVE  Cat(s, <<>>) = s /\ Cat(<<>>, s) = s
BY ConcatEmptySeq DEF Cat

(* Four sequences, from the left or from the right. *)
LEMMA Regroup ==
  ASSUME NEW S, NEW s \in Seq(S), NEW t \in Seq(S), NEW u \in Seq(S), NEW z \in Seq(S)
  PROVE  /\ Cat(Cat(Cat(s, t), u), z) = Cat(s, Cat(t, Cat(u, z)))
         /\ Cat(Cat(Cat(s, t), u), z) \in Seq(S)
         /\ Cat(t, Cat(u, z)) \in Seq(S)
<1>1. Cat(s, t) \in Seq(S) /\ Cat(u, z) \in Seq(S)
  BY CatSeq
<1>2. Cat(Cat(s, t), u) \in Seq(S) /\ Cat(t, Cat(u, z)) \in Seq(S)
  BY <1>1, CatSeq
<1>3. Cat(Cat(Cat(s, t), u), z) \in Seq(S)
  BY <1>2, CatSeq
<1>4. Cat(Cat(Cat(s, t), u), z) = Cat(Cat(s, t), Cat(u, z))
  BY <1>1, CatAssociative
<1>5. Cat(Cat(s, t), Cat(u, z)) = Cat(s, Cat(t, Cat(u, z)))
  BY <1>1, CatAssociative
<1>6. QED
  BY <1>2, <1>3, <1>4, <1>5

(* At most one word. *)
One(c, w) == IF c THEN <<w>> ELSE <<>>
Rest(s, c) == IF c THEN Tail(s) ELSE s

(* At most one word is a sequence. *)
LEMMA OneSeq ==
  ASSUME NEW S, NEW c \in BOOLEAN, NEW w, c => w \in S
  PROVE  One(c, w) \in Seq(S)
<1>1. CASE c
  BY <1>1 DEF One
<1>2. CASE ~c
  BY <1>2, EmptySeq DEF One
<1>3. QED
  BY <1>1, <1>2

(* One word is taken from the output queue L (y), one moves on from the    *)
(* RAM, which holds B (x), one or none enters the output queue (f) and the *)
(* RAM (h), and what enters both is what was under way (p) with what the   *)
(* client brought (k).                                                     *)
Moves(S, L, B, p, f, h, k, y, x) ==
  /\ L \in Seq(S) /\ B \in Seq(S)
  /\ p \in Seq(S) /\ f \in Seq(S) /\ h \in Seq(S) /\ k \in Seq(S)
  /\ y \in BOOLEAN /\ x \in BOOLEAN
  /\ y => L # <<>>
  /\ x => B # <<>>
  /\ Cat(p, Cat(B, k)) = Cat(f, Cat(B, h))

(* All the words, with the one the client brought, and all the words after *)
(* the move.                                                               *)
Before(L, B, p, k) == Cat(Cat(Cat(L, p), B), k)
Afterwards(L, B, f, h, y, x) ==
  Cat(Cat(Cat(Rest(L, y), f), One(x, Head(B))), Cat(Rest(B, x), h))

(* The words keep their order. *)
LEMMA OrderKept ==
  ASSUME NEW S, NEW L, NEW B, NEW p, NEW f, NEW h, NEW k, NEW y, NEW x,
         Moves(S, L, B, p, f, h, k, y, x)
  PROVE  /\ Rest(Before(L, B, p, k), y) = Afterwards(L, B, f, h, y, x)
         /\ y => Before(L, B, p, k) # <<>>
<1> USE DEF Moves
<1> DEFINE c == Cat(p, Cat(B, k))
<1>1. /\ Cat(Cat(Cat(L, p), B), k) = Cat(L, c) /\ c \in Seq(S)
      /\ Cat(Cat(Cat(L, p), B), k) \in Seq(S)
  BY Regroup
<1> HIDE DEF c
<1>2. Rest(L, y) \in Seq(S) /\ Rest(B, x) \in Seq(S)
  BY HeadTailProperties DEF Rest
<1>3. /\ Rest(Cat(L, c), y) = Cat(Rest(L, y), c)
      /\ y => Cat(L, c) # <<>>
  BY <1>1, TailOfFirst, SMTT(30) DEF Rest, Cat
<1>4. x => Head(B) \in S
  BY HeadTailProperties
<1>5. One(x, Head(B)) \in Seq(S)
  BY <1>4, OneSeq
<1>6. Cat(One(x, Head(B)), Rest(B, x)) = B
  <2>1. CASE x
    BY <2>1, MoveHead DEF One, Rest, Cat
  <2>2. CASE ~x
    BY <2>2, CatEmpty DEF One, Rest
  <2>3. QED
    BY <2>1, <2>2
<1> DEFINE o == One(x, Head(B))
           R == Rest(B, x)
           T == Rest(L, y)
<1> HIDE DEF o, R, T
<1>7. o \in Seq(S) /\ R \in Seq(S) /\ T \in Seq(S) /\ Cat(o, R) = B
  BY <1>2, <1>5, <1>6 DEF o, R, T
<1>8. Cat(Cat(Cat(T, f), o), Cat(R, h)) = Cat(T, Cat(f, Cat(o, Cat(R, h))))
  <2>1. Cat(R, h) \in Seq(S)
    BY <1>7, CatSeq
  <2>2. QED
    BY <1>7, <2>1, Regroup
<1>9. Cat(o, Cat(R, h)) = Cat(B, h)
  BY <1>7, CatAssociative
<1>10. Cat(Cat(Cat(T, f), o), Cat(R, h)) = Cat(T, c)
  BY <1>8, <1>9 DEF c
<1>11. QED
  BY <1>1, <1>3, <1>10 DEF o, R, T, Before, Afterwards

-----------------------------------------------------------------------------
(* The pseudo-large queue: the word that left the RAM at the last edge, if *)
(* any. *)
Fetched == IF p_big_deq_r THEN <<p_big_data_lo>> ELSE <<>>

PseudoTypeOK ==
  /\ p_mem \in [0 .. pseudo_els_p - 1 -> Data \cup {Junk}]
  /\ little_mem \in [0 .. 1 -> Data \cup {Junk}]
  /\ empty_r \in BOOLEAN /\ full_r \in BOOLEAN /\ p_last_op \in BOOLEAN
  /\ p_big_deq_r \in BOOLEAN /\ last_v \in BOOLEAN
  /\ last_yumi \in BOOLEAN /\ half_rate \in BOOLEAN
  /\ p_q \in Seq(Data)

(* A fetched word has a place to go to and left one to be written.         *)
FetchInv(L, B) ==
  p_big_deq_r => /\ p_big_data_lo \in Data
                 /\ ~full_r
                 /\ Len(B) < pseudo_els_p

(* With clients at half rate, an output queue that runs empty does so      *)
(* because its word was just taken, with the next on its way; and while    *)
(* one that is not full does not fetch, a client just used the cycle.      *)
RateInv(L, B) ==
  half_rate =>
    /\ empty_r /\ p_q # <<>> => p_big_deq_r /\ last_yumi
    /\ ~empty_r /\ ~full_r /\ ~p_big_deq_r /\ Len(B) # 0 => last_yumi \/ last_v

(* The flags of the two queues say how many words they hold. *)
TwoFlags(L) == (empty_r <=> Len(L) = 0) /\ (full_r <=> Len(L) = 2)
RamFlag(B) == p_rd_ptr = p_wr_ptr => (p_last_op <=> Len(B) = 0)

PseudoHolds(L, B) ==
  /\ TwoHolds(head_r, tail_r, little_mem, L) /\ TwoFlags(L)
  /\ RamHolds(p_rd_ptr, p_wr_ptr, p_mem, B, pseudo_els_p) /\ RamFlag(B)
  /\ p_q = (L \o Fetched) \o B

PseudoParts(L, B) == PseudoHolds(L, B) /\ FetchInv(L, B) /\ RateInv(L, B)

(* Every word is in the output queue, on its way to it or in the RAM.      *)
PseudoInv ==
  /\ PseudoTypeOK
  /\ \E L \in Seq(Data), B \in Seq(Data) : PseudoParts(L, B)

(* The invariant holds after reset: no word is anywhere.                   *)
LEMMA PseudoInit == pseudo!Init => PseudoInv
<1> SUFFICES ASSUME pseudo!Init
             PROVE  PseudoInv
  OBVIOUS
<1>0. pseudo_els_p \in Nat \ {0}
  BY PseudoAssumption
<1>1. /\ p_rd_ptr = 0 /\ p_wr_ptr = 0 /\ p_last_op = TRUE
      /\ p_mem = [a \in 0 .. pseudo_els_p - 1 |-> Junk]
  BY DEF pseudo!Init, pseudo!big1p!OneRwInit, pseudo!big1p!Slots
<1>2. /\ head_r = 0 /\ tail_r = 0 /\ empty_r = TRUE /\ full_r = FALSE
      /\ little_mem = [a \in 0 .. 1 |-> Junk]
  BY DEF pseudo!Init, pseudo!little2p!TwoInit
<1>3. /\ p_big_deq_r = FALSE /\ p_q = <<>> /\ last_v = FALSE /\ last_yumi = FALSE
      /\ half_rate = TRUE
  BY DEF pseudo!Init
<1>4. PseudoTypeOK
  BY <1>1, <1>2, <1>3 DEF PseudoTypeOK
<1>5. <<>> \in Seq(Data) /\ Len(<<>>) = 0
  BY EmptySeq
<1>6. TwoHolds(head_r, tail_r, little_mem, <<>>) /\ TwoFlags(<<>>)
  BY <1>2, <1>5, TwoEmpty DEF TwoFlags
<1>7. RamHolds(p_rd_ptr, p_wr_ptr, p_mem, <<>>, pseudo_els_p) /\ RamFlag(<<>>)
  BY <1>0, <1>1, <1>5, RamEmpty DEF RamFlag
<1>8. p_q = (<<>> \o Fetched) \o <<>>
  BY <1>3, <1>5, ConcatEmptySeq DEF Fetched
<1>9. PseudoParts(<<>>, <<>>)
  BY <1>2, <1>3, <1>5, <1>6, <1>7, <1>8 DEF PseudoParts, PseudoHolds, FetchInv, RateInv
<1>10. QED
  BY <1>4, <1>5, <1>9 DEF PseudoInv

(* What a queue that held s holds when the oldest leaves (y) and w enters  *)
(* (e).                                                                    *)
After(s, y, e, w) == Cat(Rest(s, y), One(e, w))

(* The output queue in an edge without reset. *)
LEMMA LittleStep ==
  ASSUME NEW L \in Seq(Data), NEW w, NEW e \in BOOLEAN, NEW y \in BOOLEAN,
         PseudoTypeOK, TwoHolds(head_r, tail_r, little_mem, L), TwoFlags(L),
         pseudo!little2p!Edge(FALSE, e, w, y), e => w \in Data,
         y => ~empty_r, e => ~full_r \/ (early_yumi_p /\ y)
  PROVE  /\ TwoHolds(head_r', tail_r', little_mem', After(L, y, e, w))
         /\ TwoFlags(After(L, y, e, w))'
         /\ After(L, y, e, w) \in Seq(Data)
         /\ little_mem' \in [0 .. 1 -> Data \cup {Junk}]
         /\ empty_r' \in BOOLEAN /\ full_r' \in BOOLEAN
         /\ empty_r' <=> ~e /\ (empty_r \/ (~full_r /\ y))
         /\ full_r' <=> (~empty_r /\ e /\ ~y) \/ (full_r /\ (e <=> y))
<1> DEFINE A == After(L, y, e, w)
<1>1. early_yumi_p \in BOOLEAN
  BY PseudoAssumption
<1>2. /\ head_r \in 0 .. 1 /\ tail_r \in 0 .. 1
      /\ Len(L) = 0 \/ Len(L) = 1 \/ Len(L) = 2
      /\ L = <<>> <=> Len(L) = 0
  BY TwoLen
<1>3. /\ empty_r \in BOOLEAN /\ full_r \in BOOLEAN
      /\ little_mem \in [0 .. 1 -> Data \cup {Junk}]
      /\ (empty_r <=> Len(L) = 0) /\ (full_r <=> Len(L) = 2)
  BY DEF PseudoTypeOK, TwoFlags
<1>4. pseudo!little2p!enq(e) <=> e
  BY <1>1, <1>3 DEF pseudo!little2p!enq
<1>5. /\ little_mem' = IF e THEN MemWith(little_mem, tail_r, w) ELSE little_mem
      /\ tail_r' = IF e THEN 1 - tail_r ELSE tail_r
      /\ head_r' = IF y THEN 1 - head_r ELSE head_r
      /\ empty_r' = (~e /\ (empty_r \/ (~full_r /\ y)))
      /\ full_r' = (\/ ~empty_r /\ e /\ ~y
                    \/ full_r /\ IF early_yumi_p THEN y = e ELSE ~y)
  <2> DEFINE n == pseudo!little2p!enq(e)
  <2>1. /\ little_mem' = IF n THEN [little_mem EXCEPT ![tail_r] = w] ELSE little_mem
        /\ tail_r' = IF n THEN 1 - tail_r ELSE tail_r
        /\ head_r' = IF y THEN 1 - head_r ELSE head_r
        /\ empty_r' = (~n /\ (empty_r \/ (~full_r /\ y)))
        /\ full_r' = (\/ ~empty_r /\ n /\ ~y
                      \/ full_r /\ IF early_yumi_p THEN y = n ELSE ~y)
    BY DEF pseudo!little2p!Edge, pseudo!little2p!Flags, pseudo!little2p!Other
  <2>2. n \in BOOLEAN
    BY <1>1, <1>3 DEF pseudo!little2p!enq
  <2>3. n = e
    BY <1>4, <2>2
  <2> HIDE DEF n
  <2>4. QED
    BY <2>1, <2>3 DEF MemWith
<1>6. full_r' <=> (~empty_r /\ e /\ ~y) \/ (full_r /\ (e <=> y))
  BY <1>1, <1>3, <1>5
<1>7. empty_r' <=> ~e /\ (empty_r \/ (~full_r /\ y))
  BY <1>5
<1>8. empty_r' \in BOOLEAN /\ full_r' \in BOOLEAN
  BY <1>5
<1>9. little_mem' \in [0 .. 1 -> Data \cup {Junk}]
  BY <1>2, <1>3, <1>5 DEF MemWith
<1>10. /\ TwoHolds(head_r', tail_r', little_mem', A)
       /\ A \in Seq(Data)
       /\ Len(A) = Len(L) + (IF e THEN 1 ELSE 0) - (IF y THEN 1 ELSE 0)
  <2>1. CASE e /\ ~y
    <3>1. After(L, y, e, w) = Append(L, w) /\ Append(L, w) \in Seq(Data) /\ Len(Append(L, w)) = Len(L) + 1
      BY <2>1, AppendIsConcat, AppendProperties DEF After, Cat, Rest, One
    <3>2. /\ head_r' = head_r /\ tail_r' = 1 - tail_r
          /\ little_mem' = MemWith(little_mem, tail_r, w) /\ Len(L) # 2
      BY <2>1, <1>3, <1>5
    <3>3. TwoHolds(head_r, 1 - tail_r, MemWith(little_mem, tail_r, w), Append(L, w))
      BY <2>1, <1>3, <3>2, TwoPut
    <3>4. Len(Append(L, w)) = Len(L) + (IF e THEN 1 ELSE 0) - (IF y THEN 1 ELSE 0)
      BY <3>1, <2>1, <1>2
    <3>5. QED
      BY <3>1, <3>2, <3>3, <3>4
  <2>2. CASE ~e /\ y
    <3>1. L # <<>>
      BY <2>2, <1>2, <1>3
    <3>2. Tail(L) \in Seq(Data) /\ Len(Tail(L)) = Len(L) - 1
      BY <3>1, HeadTailProperties
    <3>3. After(L, y, e, w) = Tail(L)
      BY <2>2, <3>2, ConcatEmptySeq DEF After, Cat, Rest, One
    <3>4. head_r' = 1 - head_r /\ tail_r' = tail_r /\ little_mem' = little_mem
      BY <2>2, <1>5
    <3>5. TwoHolds(1 - head_r, tail_r, little_mem, Tail(L))
      BY <3>1, TwoTake
    <3>6. Len(Tail(L)) = Len(L) + (IF e THEN 1 ELSE 0) - (IF y THEN 1 ELSE 0)
      BY <3>2, <2>2, <1>2
    <3>7. QED
      BY <3>2, <3>3, <3>4, <3>5, <3>6
  <2>3. CASE e /\ y
    <3>1. L # <<>> /\ w \in Data
      BY <2>3, <1>2, <1>3
    <3>2. Tail(L) \in Seq(Data) /\ Len(Tail(L)) = Len(L) - 1
      BY <3>1, HeadTailProperties
    <3>3. /\ After(L, y, e, w) = Append(Tail(L), w) /\ Append(Tail(L), w) \in Seq(Data)
          /\ Len(Append(Tail(L), w)) = Len(Tail(L)) + 1
      BY <2>3, <3>1, <3>2, AppendIsConcat, AppendProperties DEF After, Cat, Rest, One
    <3>4. /\ head_r' = 1 - head_r /\ tail_r' = 1 - tail_r
          /\ little_mem' = MemWith(little_mem, tail_r, w)
      BY <2>3, <1>5
    <3>5. TwoHolds(1 - head_r, 1 - tail_r, MemWith(little_mem, tail_r, w), Append(Tail(L), w))
      BY <3>1, <1>3, TwoSwap
    <3>6. Len(Append(Tail(L), w)) = Len(L) + (IF e THEN 1 ELSE 0) - (IF y THEN 1 ELSE 0)
      BY <3>2, <3>3, <2>3, <1>2
    <3>7. QED
      BY <3>3, <3>4, <3>5, <3>6
  <2>4. CASE ~e /\ ~y
    <3>1. After(L, y, e, w) = L
      BY <2>4, ConcatEmptySeq DEF After, Cat, Rest, One
    <3>2. head_r' = head_r /\ tail_r' = tail_r /\ little_mem' = little_mem
      BY <2>4, <1>5
    <3>3. Len(L) = Len(L) + (IF e THEN 1 ELSE 0) - (IF y THEN 1 ELSE 0)
      BY <2>4, <1>2
    <3>4. QED
      BY <3>1, <3>2, <3>3
  <2>5. QED
    BY <2>1, <2>2, <2>3, <2>4
<1>11. (empty_r' <=> Len(A) = 0) /\ (full_r' <=> Len(A) = 2)
  <2> HIDE DEF A
  <2>1. CASE e /\ ~y
    <3>1. Len(A) = Len(L) + 1
      BY <2>1, <1>2, <1>10
    <3>2. (Len(A) = 0 <=> FALSE) /\ (Len(A) = 2 <=> Len(L) = 1)
      BY ONLY <3>1, <1>2
    <3>3. QED
      BY <2>1, <3>2, <1>2, <1>3, <1>6, <1>7, <1>8
  <2>2. CASE ~e /\ y
    <3>1. Len(A) = Len(L) - 1
      BY <2>2, <1>2, <1>10
    <3>2. Len(L) = 1 \/ Len(L) = 2
      BY <2>2, <1>2, <1>3
    <3>3. (Len(A) = 0 <=> Len(L) = 1) /\ (Len(A) = 2 <=> FALSE)
      <4>1. CASE Len(L) = 1
        BY <4>1, <3>1
      <4>2. CASE Len(L) = 2
        BY <4>2, <3>1
      <4>3. QED
        BY <3>2, <4>1, <4>2
    <3>4. QED
      BY ONLY <2>2, <3>3, <1>2, <1>3, <1>6, <1>7, <1>8, y => ~empty_r
  <2>3. CASE e /\ y
    <3>1. Len(A) = Len(L)
      BY <2>3, <1>2, <1>10
    <3>2. (Len(A) = 0 <=> Len(L) = 0) /\ (Len(A) = 2 <=> Len(L) = 2)
      BY ONLY <3>1, <1>2
    <3>3. QED
      BY <2>3, <3>2, <1>2, <1>3, <1>6, <1>7, <1>8
  <2>4. CASE ~e /\ ~y
    <3>1. Len(A) = Len(L)
      BY <2>4, <1>2, <1>10
    <3>2. (Len(A) = 0 <=> Len(L) = 0) /\ (Len(A) = 2 <=> Len(L) = 2)
      BY ONLY <3>1, <1>2
    <3>3. QED
      BY <2>4, <3>2, <1>2, <1>3, <1>6, <1>7, <1>8
  <2>5. QED
    BY <2>1, <2>2, <2>3, <2>4
<1>12. QED
  BY <1>6, <1>7, <1>8, <1>9, <1>10, <1>11 DEF TwoFlags

(* The RAM after an edge without reset, on which it is read (x), written   *)
(* (g) or idle.                                                            *)
LEMMA BigStep ==
  ASSUME NEW B \in Seq(Data), NEW d \in Data, NEW g \in BOOLEAN, NEW x \in BOOLEAN,
         PseudoTypeOK, RamHolds(p_rd_ptr, p_wr_ptr, p_mem, B, pseudo_els_p), RamFlag(B),
         pseudo!big1p!OneRwEdge(FALSE, g, x, d),
         ~(g /\ x), g => Len(B) < pseudo_els_p, x => B # <<>>
  PROVE  /\ RamHolds(p_rd_ptr', p_wr_ptr', p_mem', After(B, x, g, d), pseudo_els_p)
         /\ RamFlag(After(B, x, g, d))'
         /\ After(B, x, g, d) \in Seq(Data)
         /\ p_mem' \in [0 .. pseudo_els_p - 1 -> Data \cup {Junk}]
         /\ p_last_op' \in BOOLEAN
         /\ x => p_big_data_lo' = Head(B) /\ Head(B) \in Data
         /\ Len(After(B, x, g, d)) = Len(B) + (IF g THEN 1 ELSE 0) - (IF x THEN 1 ELSE 0)
<1> DEFINE A == After(B, x, g, d)
           N == pseudo_els_p
<1>1. N \in Nat \ {0}
  BY PseudoAssumption
<1>2. /\ Len(B) \in Nat /\ Len(B) <= N /\ p_rd_ptr \in 0 .. N - 1 /\ p_wr_ptr \in 0 .. N - 1
      /\ B = <<>> <=> Len(B) = 0
      /\ B # <<>> => p_mem[p_rd_ptr] = Head(B) /\ Head(B) \in Data
  BY <1>1, RamLen
<1>3. p_mem \in [0 .. N - 1 -> Data \cup {Junk}] /\ p_last_op \in BOOLEAN
  BY DEF PseudoTypeOK
<1>4. /\ p_mem' = IF g THEN MemWith(p_mem, p_wr_ptr, d) ELSE p_mem
      /\ p_wr_ptr' = IF g THEN Nxt(p_wr_ptr, N) ELSE p_wr_ptr
      /\ p_rd_ptr' = IF x THEN Nxt(p_rd_ptr, N) ELSE p_rd_ptr
      /\ p_last_op' = IF g \/ x THEN x ELSE p_last_op
      /\ x => p_big_data_lo' = p_mem[p_rd_ptr]
  BY DEF pseudo!big1p!OneRwEdge, pseudo!big1p!Succ, MemWith, Nxt
<1>5. p_mem' \in [0 .. N - 1 -> Data \cup {Junk}] /\ p_last_op' \in BOOLEAN
  BY <1>2, <1>3, <1>4 DEF MemWith
<1>6. x => p_big_data_lo' = Head(B) /\ Head(B) \in Data
  BY <1>2, <1>4
<1>7. /\ RamHolds(p_rd_ptr', p_wr_ptr', p_mem', A, N)
      /\ A \in Seq(Data)
      /\ Len(A) = Len(B) + (IF g THEN 1 ELSE 0) - (IF x THEN 1 ELSE 0)
      /\ RamFlag(A)'
  <2> HIDE DEF N
  <2>1. CASE g /\ ~x
    <3>1. A = Append(B, d) /\ Append(B, d) \in Seq(Data) /\ Len(Append(B, d)) = Len(B) + 1
      BY <2>1, AppendIsConcat, AppendProperties DEF After, Cat, Rest, One
    <3>2. /\ p_rd_ptr' = p_rd_ptr /\ p_wr_ptr' = Nxt(p_wr_ptr, N) /\ ~p_last_op'
          /\ p_mem' = MemWith(p_mem, p_wr_ptr, d) /\ Len(B) < N
      BY <2>1, <1>4 DEF N
    <3>3. /\ RamHolds(p_rd_ptr, p_wr_ptr, p_mem, B, N)
      BY DEF N
    <3>4. RamHolds(p_rd_ptr, Nxt(p_wr_ptr, N), MemWith(p_mem, p_wr_ptr, d), Append(B, d), N)
      BY <1>1, <1>3, <3>2, <3>3, RamPut
    <3>5. Len(Append(B, d)) = Len(B) + (IF g THEN 1 ELSE 0) - (IF x THEN 1 ELSE 0)
      BY <3>1, <2>1, <1>2
    <3>6. Len(A) # 0
      BY <3>1, <1>2
    <3>7. QED
      BY <3>1, <3>2, <3>4, <3>5, <3>6 DEF RamFlag
  <2>2. CASE ~g /\ x
    <3>1. B # <<>> /\ RamHolds(p_rd_ptr, p_wr_ptr, p_mem, B, N)
      BY <2>2 DEF N
    <3>2. Tail(B) \in Seq(Data) /\ Len(Tail(B)) = Len(B) - 1
      BY <3>1, HeadTailProperties
    <3>3. A = Tail(B)
      BY <2>2, <3>2, ConcatEmptySeq DEF After, Cat, Rest, One
    <3>4. p_rd_ptr' = Nxt(p_rd_ptr, N) /\ p_wr_ptr' = p_wr_ptr /\ p_last_op' /\ p_mem' = p_mem
      BY <2>2, <1>4
    <3>5. RamHolds(Nxt(p_rd_ptr, N), p_wr_ptr, p_mem, Tail(B), N)
      BY <1>1, <3>1, RamTake
    <3>6. Len(Tail(B)) = Len(B) + (IF g THEN 1 ELSE 0) - (IF x THEN 1 ELSE 0)
      BY <3>2, <2>2, <1>2
    <3>7. p_rd_ptr' = p_wr_ptr' => Len(A) = 0
      <4> DEFINE T == Tail(B)
      <4>1. T \in Seq(Data) /\ Len(T) = Len(B) - 1
        BY <3>2
      <4> HIDE DEF T
      <4>2. N \in Nat \ {0} /\ T \in Seq(Data)
            /\ RamHolds(p_rd_ptr', p_wr_ptr', p_mem', T, N)
        BY <4>1, <1>1, <3>4, <3>5 DEF T
      <4>3. p_rd_ptr' = p_wr_ptr' <=> Len(T) = 0 \/ Len(T) = N
        BY ONLY <4>2, RamLen
      <4>4. Len(B) \in Nat /\ Len(B) <= N /\ N \in Nat
        BY <1>1, <1>2 DEF N
      <4>5. Len(T) # N
        BY ONLY <4>1, <4>4
      <4>6. QED
        BY <4>3, <4>5, <3>3 DEF T
    <3>8. QED
      BY <3>2, <3>3, <3>4, <3>5, <3>6, <3>7 DEF RamFlag
  <2>3. CASE ~g /\ ~x
    <3>1. A = B
      BY <2>3, ConcatEmptySeq DEF After, Cat, Rest, One
    <3>2. p_rd_ptr' = p_rd_ptr /\ p_wr_ptr' = p_wr_ptr /\ p_mem' = p_mem /\ p_last_op' = p_last_op
      BY <2>3, <1>4
    <3>3. Len(B) = Len(B) + (IF g THEN 1 ELSE 0) - (IF x THEN 1 ELSE 0)
      BY <2>3, <1>2
    <3>4. RamHolds(p_rd_ptr, p_wr_ptr, p_mem, B, N)
      BY DEF N
    <3>5. QED
      BY <3>1, <3>2, <3>3, <3>4 DEF RamFlag
  <2>4. QED
    BY <2>1, <2>2, <2>3
<1>8. QED
  BY <1>5, <1>6, <1>7

(* Full and empty as the client and the control see them.                  *)
LEMMA BigFlags ==
  ASSUME NEW B \in Seq(Data), PseudoTypeOK,
         RamHolds(p_rd_ptr, p_wr_ptr, p_mem, B, pseudo_els_p), RamFlag(B)
  PROVE  /\ pseudo!big1p!empty_o <=> Len(B) = 0
         /\ pseudo!big1p!full_o <=> Len(B) = pseudo_els_p
         /\ pseudo!big1p!empty_o \in BOOLEAN
<1>1. pseudo_els_p \in Nat \ {0}
  BY PseudoAssumption
<1>2. /\ Len(B) \in Nat /\ Len(B) <= pseudo_els_p
      /\ p_rd_ptr = p_wr_ptr <=> Len(B) = 0 \/ Len(B) = pseudo_els_p
  BY <1>1, RamLen
<1>3. p_last_op \in BOOLEAN
  BY DEF PseudoTypeOK
<1>4. QED
  BY <1>1, <1>2, <1>3 DEF RamFlag, pseudo!big1p!empty_o, pseudo!big1p!full_o

(* What the control does in a cycle in which the client offers d (v) and   *)
(* takes a word (y): who enters the output queue, and whether the RAM is   *)
(* written or read.                                                        *)
LEMMA PseudoControl ==
  ASSUME NEW L \in Seq(Data), NEW B \in Seq(Data), NEW d \in Data,
         NEW v \in BOOLEAN, NEW y \in BOOLEAN,
         PseudoTypeOK, PseudoParts(L, B)
  PROVE  LET e == pseudo!little_valid(v, y)
             w == pseudo!little_data(d)
             g == pseudo!big_enq(v, y)
             x == pseudo!big_deq(v, y)
             space == ~full_r \/ (early_yumi_p /\ y)
             none == Len(B) = 0
             filled == Len(B) = pseudo_els_p
         IN  /\ e \in BOOLEAN /\ g \in BOOLEAN /\ x \in BOOLEAN
             /\ e <=> p_big_deq_r \/ (none /\ v /\ space)
             /\ g <=> v /\ (p_big_deq_r \/ (none /\ ~space) \/ (~none /\ ~filled))
             /\ x <=> ~none /\ ~g /\ IF p_big_deq_r THEN empty_r ELSE space
             /\ w = IF p_big_deq_r THEN p_big_data_lo ELSE d
             /\ pseudo!ready_and_o <=> ~filled
             /\ p_big_deq_r => ~filled /\ ~full_r
             /\ ~(none /\ filled)
             /\ p_big_deq_r \in BOOLEAN /\ empty_r \in BOOLEAN /\ full_r \in BOOLEAN
             /\ ~(empty_r /\ full_r)
<1> DEFINE none == Len(B) = 0
           filled == Len(B) = pseudo_els_p
<1>1. pseudo_els_p \in Nat \ {0} /\ early_yumi_p \in BOOLEAN
  BY PseudoAssumption
<1>2. /\ TwoFlags(L)
      /\ RamHolds(p_rd_ptr, p_wr_ptr, p_mem, B, pseudo_els_p) /\ RamFlag(B)
  BY DEF PseudoParts, PseudoHolds
<1>3. Len(B) \in Nat /\ Len(B) <= pseudo_els_p
  BY <1>1, <1>2, RamLen
<1>4. /\ pseudo!big1p!empty_o <=> none
      /\ pseudo!big1p!full_o <=> filled
  BY <1>2, BigFlags
<1>5. ~(none /\ filled)
  BY <1>1
<1>6. p_big_deq_r => ~filled /\ ~full_r
  BY <1>1, <1>3 DEF PseudoParts, FetchInv
<1>7. ~(empty_r /\ full_r)
  BY <1>2 DEF TwoFlags
<1>8. p_big_deq_r \in BOOLEAN /\ empty_r \in BOOLEAN /\ full_r \in BOOLEAN
  BY DEF PseudoTypeOK
<1> HIDE DEF none, filled
<1>9. pseudo!little_will_have_space(y) <=> ~full_r \/ (early_yumi_p /\ y)
  BY DEF pseudo!little_will_have_space, pseudo!little2p!ready_param_o
<1>10. /\ pseudo!little_valid(v, y) \in BOOLEAN
       /\ pseudo!little_valid(v, y) <=> p_big_deq_r \/ (none /\ v /\ (~full_r \/ (early_yumi_p /\ y)))
  BY <1>4, <1>8, <1>9 DEF pseudo!little_valid
<1>11. pseudo!ready_and_o <=> ~filled
  BY <1>4 DEF pseudo!ready_and_o
<1>12. /\ pseudo!big_enq(v, y) \in BOOLEAN
       /\ pseudo!big_enq(v, y)
            <=> v /\ (p_big_deq_r \/ (none /\ ~(~full_r \/ (early_yumi_p /\ y))) \/ (~none /\ ~filled))
  <2>1. pseudo!big_enq(v, y) =
          (v /\ IF p_big_deq_r THEN TRUE
                ELSE IF pseudo!big1p!empty_o THEN ~pseudo!little_will_have_space(y)
                ELSE pseudo!ready_and_o)
    BY DEF pseudo!big_enq
  <2>2. CASE p_big_deq_r
    BY <2>1, <2>2
  <2>3. CASE ~p_big_deq_r
    BY <2>1, <2>3, <1>4, <1>8, <1>9, <1>11, <1>5
  <2>4. QED
    BY <2>2, <2>3, <1>8
<1>13. /\ pseudo!big_deq(v, y) \in BOOLEAN
       /\ pseudo!big_deq(v, y)
            <=> ~none /\ ~pseudo!big_enq(v, y)
                /\ IF p_big_deq_r THEN empty_r ELSE ~full_r \/ (early_yumi_p /\ y)
  BY <1>4, <1>8, <1>9, <1>12 DEF pseudo!big_deq, pseudo!v_o, pseudo!little2p!v_o
<1>14. pseudo!little_data(d) = IF p_big_deq_r THEN p_big_data_lo ELSE d
  BY DEF pseudo!little_data
<1>15. QED
  BY <1>5, <1>6, <1>7, <1>8, <1>10, <1>11, <1>12, <1>13, <1>14 DEF none, filled

(* An edge without reset moves each word at most one place on.             *)
LEMMA PseudoClk == PseudoInv /\ pseudo!Clk => PseudoInv'
<1> SUFFICES ASSUME PseudoInv, pseudo!Clk
             PROVE  PseudoInv'
  OBVIOUS
<1>1. PICK v \in BOOLEAN, y \in BOOLEAN, d \in Data :
        /\ y => pseudo!v_o
        /\ pseudo!Edge(FALSE, v, d, y)
        /\ p_q' = LET s == IF v /\ pseudo!ready_and_o THEN Append(p_q, d) ELSE p_q
                  IN  IF y /\ s # <<>> THEN Tail(s) ELSE s
        /\ last_v' = v /\ last_yumi' = y
        /\ half_rate' = (half_rate /\ ~(last_v /\ v) /\ ~(last_yumi /\ y))
  BY DEF pseudo!Clk
<1>2. PICK L \in Seq(Data), B \in Seq(Data) : PseudoParts(L, B)
  BY DEF PseudoInv
<1>3. PseudoTypeOK
  BY DEF PseudoInv
<1> DEFINE space == ~full_r \/ (early_yumi_p /\ y)
           none == Len(B) = 0
           filled == Len(B) = pseudo_els_p
<1>4. PICK e \in BOOLEAN, g \in BOOLEAN, x \in BOOLEAN, w \in {pseudo!little_data(d)} :
        /\ e = pseudo!little_valid(v, y) /\ w = pseudo!little_data(d)
        /\ g = pseudo!big_enq(v, y) /\ x = pseudo!big_deq(v, y)
  <2>1. /\ pseudo!little_valid(v, y) \in BOOLEAN
        /\ pseudo!big_enq(v, y) \in BOOLEAN
        /\ pseudo!big_deq(v, y) \in BOOLEAN
    BY <1>2, <1>3, PseudoControl
  <2>2. QED
    BY <2>1
<1>5. /\ e <=> p_big_deq_r \/ (none /\ v /\ space)
      /\ g <=> v /\ (p_big_deq_r \/ (none /\ ~space) \/ (~none /\ ~filled))
      /\ x <=> ~none /\ ~g /\ IF p_big_deq_r THEN empty_r ELSE space
      /\ w = IF p_big_deq_r THEN p_big_data_lo ELSE d
      /\ pseudo!ready_and_o <=> ~filled
      /\ p_big_deq_r => ~filled /\ ~full_r
      /\ ~(none /\ filled)
      /\ p_big_deq_r \in BOOLEAN /\ empty_r \in BOOLEAN /\ full_r \in BOOLEAN
      /\ ~(empty_r /\ full_r)
  BY <1>2, <1>3, <1>4, PseudoControl
<1>6. /\ pseudo!little2p!Edge(FALSE, e, w, y)
      /\ pseudo!big1p!OneRwEdge(FALSE, g, x, d)
      /\ p_big_deq_r' = x
  BY <1>1, <1>4 DEF pseudo!Edge, pseudo!LittleEdge, pseudo!BigEdge
<1>7. y => ~empty_r
  BY <1>1 DEF pseudo!v_o, pseudo!little2p!v_o
<1>8. /\ TwoHolds(head_r, tail_r, little_mem, L) /\ TwoFlags(L)
      /\ RamHolds(p_rd_ptr, p_wr_ptr, p_mem, B, pseudo_els_p) /\ RamFlag(B)
      /\ p_q = (L \o Fetched) \o B
      /\ FetchInv(L, B) /\ RateInv(L, B)
  BY <1>2 DEF PseudoParts, PseudoHolds
<1>9. pseudo_els_p \in Nat \ {0}
  BY PseudoAssumption
<1>10. /\ Len(B) \in Nat /\ Len(B) <= pseudo_els_p
       /\ B = <<>> <=> none
  BY <1>8, <1>9, RamLen
<1>11. L = <<>> <=> empty_r
  BY <1>8, TwoLen DEF TwoFlags
<1>12. w \in Data
  BY <1>5, <1>8 DEF FetchInv
<1> HIDE DEF space, none, filled
<1>13. e => ~full_r \/ (early_yumi_p /\ y)
  BY <1>5 DEF space
<1>14. ~(g /\ x) /\ (g => ~filled) /\ (x => ~none)
  BY <1>5
<1>15. (g => Len(B) < pseudo_els_p) /\ (x => B # <<>>)
  <2>1. pseudo_els_p \in Nat /\ Len(B) \in Nat /\ Len(B) <= pseudo_els_p
    BY <1>9, <1>10
  <2>2. Len(B) # pseudo_els_p => Len(B) < pseudo_els_p
    BY ONLY <2>1
  <2>3. g => Len(B) # pseudo_els_p
    BY <1>14 DEF filled
  <2>4. QED
    BY <2>2, <2>3, <1>10, <1>14
<1>16. /\ TwoHolds(head_r', tail_r', little_mem', After(L, y, e, w))
       /\ TwoFlags(After(L, y, e, w))'
       /\ After(L, y, e, w) \in Seq(Data)
       /\ little_mem' \in [0 .. 1 -> Data \cup {Junk}]
       /\ empty_r' \in BOOLEAN /\ full_r' \in BOOLEAN
       /\ empty_r' <=> ~e /\ (empty_r \/ (~full_r /\ y))
       /\ full_r' <=> (~empty_r /\ e /\ ~y) \/ (full_r /\ (e <=> y))
  BY <1>3, <1>5, <1>6, <1>7, <1>8, <1>12, <1>13, LittleStep, ZenonT(60)
<1>17. /\ RamHolds(p_rd_ptr', p_wr_ptr', p_mem', After(B, x, g, d), pseudo_els_p)
       /\ RamFlag(After(B, x, g, d))'
       /\ After(B, x, g, d) \in Seq(Data)
       /\ p_mem' \in [0 .. pseudo_els_p - 1 -> Data \cup {Junk}]
       /\ p_last_op' \in BOOLEAN
       /\ x => p_big_data_lo' = Head(B) /\ Head(B) \in Data
  <2>1. /\ B \in Seq(Data) /\ d \in Data /\ g \in BOOLEAN /\ x \in BOOLEAN
        /\ PseudoTypeOK /\ RamHolds(p_rd_ptr, p_wr_ptr, p_mem, B, pseudo_els_p) /\ RamFlag(B)
        /\ pseudo!big1p!OneRwEdge(FALSE, g, x, d)
        /\ ~(g /\ x) /\ (g => Len(B) < pseudo_els_p) /\ (x => B # <<>>)
    BY <1>3, <1>6, <1>8, <1>14, <1>15
  <2>2. RamFlag(After(B, x, g, d))'
    BY ONLY <2>1, BigStep
  <2>3. /\ RamHolds(p_rd_ptr', p_wr_ptr', p_mem', After(B, x, g, d), pseudo_els_p)
        /\ After(B, x, g, d) \in Seq(Data)
        /\ p_mem' \in [0 .. pseudo_els_p - 1 -> Data \cup {Junk}]
        /\ p_last_op' \in BOOLEAN
        /\ x => p_big_data_lo' = Head(B) /\ Head(B) \in Data
    BY ONLY <2>1, BigStep
  <2>4. QED
    BY <2>2, <2>3
<1> DEFINE L2 == After(L, y, e, w)
           B2 == After(B, x, g, d)
           k == One(v /\ ~filled, d)
           p == One(p_big_deq_r, p_big_data_lo)
           f == One(e, w)
           h == One(g, d)
<1>18. p \in Seq(Data) /\ f \in Seq(Data) /\ h \in Seq(Data) /\ k \in Seq(Data)
  <2>1. p_big_deq_r => p_big_data_lo \in Data
    BY <1>8 DEF FetchInv
  <2>2. (v /\ ~filled) \in BOOLEAN
    BY DEF filled
  <2>3. QED
    BY <2>1, <2>2, <1>5, <1>12, OneSeq
<1>19. Cat(p, Cat(B, k)) = Cat(f, Cat(B, h))
  <2>0. Cat(B, k) \in Seq(Data) /\ Cat(B, h) \in Seq(Data)
    BY <1>18, CatSeq
  <2>1. CASE p_big_deq_r
    <3>1. f = p
      BY <2>1, <1>5 DEF One
    <3>2. h = k
      BY <2>1, <1>5 DEF One
    <3>3. QED
      BY <3>1, <3>2
  <2>2. CASE ~p_big_deq_r /\ ~none
    <3>1. p = <<>> /\ f = <<>> /\ h = k
      BY <2>2, <1>5 DEF One
    <3>2. QED
      BY <3>1
  <2>3. CASE ~p_big_deq_r /\ none /\ space
    <3>1. p = <<>> /\ f = k /\ h = <<>> /\ B = <<>>
      BY <2>3, <1>5, <1>10 DEF One
    <3>2. QED
      BY <3>1, <1>18, CatEmpty, ZenonT(60)
  <2>4. CASE ~p_big_deq_r /\ none /\ ~space
    <3>1. p = <<>> /\ f = <<>> /\ h = k
      BY <2>4, <1>5 DEF One
    <3>2. QED
      BY <3>1
  <2>5. QED
    BY <1>5, <2>1, <2>2, <2>3, <2>4
<1>20. p_q' = (L2 \o Fetched') \o B2
  <2> DEFINE s == Cat(Cat(Cat(L, p), B), k)
  <2>0. (y => L # <<>>) /\ (x => B # <<>>)
    BY <1>7, <1>11, <1>15
  <2>1. /\ Rest(s, y) = Cat(Cat(Cat(Rest(L, y), f), One(x, Head(B))), Cat(Rest(B, x), h))
        /\ y => s # <<>>
    <3>1. Moves(Data, L, B, p, f, h, k, y, x)
      BY <1>18, <1>19, <2>0 DEF Moves
    <3> HIDE DEF p, f, h, k
    <3>2. /\ Rest(Before(L, B, p, k), y) = Afterwards(L, B, f, h, y, x)
          /\ y => Before(L, B, p, k) # <<>>
      BY <3>1, OrderKept
    <3>3. QED
      BY <3>2 DEF Before, Afterwards
  <2>2. p_q = Cat(Cat(L, p), B)
    BY <1>8 DEF Cat, Fetched, One
  <2>3. s = IF v /\ pseudo!ready_and_o THEN Append(p_q, d) ELSE p_q
    <3>1. Cat(Cat(L, p), B) \in Seq(Data)
      BY <2>2, <1>3 DEF PseudoTypeOK
    <3>2. CASE v /\ ~filled
      <4>1. k = <<d>>
        BY <3>2 DEF One
      <4>2. Append(p_q, d) = Cat(p_q, <<d>>)
        BY <3>1, <2>2, AppendIsConcat DEF Cat
      <4>3. QED
        BY <4>1, <4>2, <2>2, <3>2, <1>5
    <3>3. CASE ~(v /\ ~filled)
      <4>1. k = <<>>
        BY <3>3 DEF One
      <4>2. QED
        BY <4>1, <2>2, <3>1, <3>3, <1>5, CatEmpty
    <3>4. QED
      BY <3>2, <3>3
  <2>4. p_q' = Rest(s, y)
    <3> HIDE DEF s
    <3>1. p_q' = IF y /\ s # <<>> THEN Tail(s) ELSE s
      BY <1>1, <2>3
    <3>2. QED
      BY <3>1, <2>1 DEF Rest, s
  <2>5. Fetched' = One(x, Head(B))
    BY <1>6, <1>17 DEF Fetched, One
  <2>6. L2 = Cat(Rest(L, y), f) /\ B2 = Cat(Rest(B, x), h)
    BY DEF After, Cat, Rest, One
  <2>7. QED
    BY <2>1, <2>4, <2>5, <2>6 DEF Cat
<1>21. (~g /\ ~x => B2 = B) /\ (x => B2 = Tail(B) /\ Len(B2) < pseudo_els_p)
  <2>1. CASE ~g /\ ~x
    BY <2>1, CatEmpty DEF After, Cat, Rest, One
  <2>2. CASE x
    <3>1. B # <<>> /\ ~g
      BY <2>2, <1>14, <1>15
    <3>2. Tail(B) \in Seq(Data) /\ Len(Tail(B)) = Len(B) - 1
      BY <3>1, HeadTailProperties
    <3>3. B2 = Tail(B)
      BY <3>1, <3>2, <2>2, CatEmpty DEF After, Cat, Rest, One
    <3>4. Len(B) - 1 < pseudo_els_p
      BY <1>9, <1>10
    <3>5. QED
      BY <3>2, <3>3, <3>4, <3>1, <2>2
  <2>3. QED
    BY <2>1, <2>2
<1> HIDE DEF L2, B2
<1>22. FetchInv(L2, B2)'
  <2>1. x => ~full_r'
    BY <1>5, <1>16 DEF space
  <2>2. QED
    BY <2>1, <1>6, <1>17, <1>21 DEF FetchInv
<1>23. RateInv(L2, B2)'
  <2>1. half_rate' => half_rate /\ ~(last_v /\ v) /\ ~(last_yumi /\ y)
    BY <1>1
  <2>2. last_v' = v /\ last_yumi' = y /\ p_big_deq_r' = x
    BY <1>1, <1>6
  <2>3. ~none => p_q # <<>>
    <3>1. B # <<>> /\ L \o Fetched \in Seq(Data) => (L \o Fetched) \o B # <<>>
      BY ConcatProperties, EmptySeq
    <3>2. L \o Fetched \in Seq(Data)
      <4>1. Fetched = p
        BY DEF Fetched, One
      <4>2. QED
        BY <4>1, <1>18, ConcatProperties
    <3>3. QED
      BY <3>1, <3>2, <1>8, <1>10
  <2>4. L2 = <<>> /\ ~x /\ B2 = <<>> => p_q' = <<>>
    <3>1. ~x => Fetched' = <<>>
      BY <2>2 DEF Fetched
    <3>2. QED
      BY <3>1, <1>20, EmptySeq, ConcatEmptySeq
  <2>5. empty_r' => L2 = <<>>
    BY <1>16, EmptySeq DEF TwoFlags, L2
  <2>6. ASSUME half_rate', empty_r', p_q' # <<>>
        PROVE  x /\ y
    <3>1. half_rate /\ ~(last_v /\ v) /\ ~(last_yumi /\ y)
      BY <2>6, <2>1
    <3>2. ~e /\ (empty_r \/ (~full_r /\ y))
      BY <2>6, <1>16
    <3>3. ~full_r /\ ~p_big_deq_r /\ space
      BY <3>2, <1>5 DEF space
    <3>4. ~(~g /\ ~x /\ none)
      BY <1>10, <1>21, <2>4, <2>5, <2>6
    <3>5. ~none
      BY <3>2, <3>3, <3>4, <1>5
    <3>6. ~empty_r /\ y
      BY <3>1, <3>2, <3>3, <3>5, <2>3, <1>8 DEF RateInv
    <3>7. last_v
      BY <3>1, <3>3, <3>5, <3>6, <1>8 DEF RateInv, none
    <3>8. QED
      BY <3>1, <3>3, <3>5, <3>6, <3>7, <1>5
  <2>7. ASSUME ~empty_r', ~full_r', ~x, Len(B2) # 0
        PROVE  y \/ v
    <3> SUFFICES ASSUME ~y, ~v
                 PROVE  FALSE
      OBVIOUS
    <3>1. ~g
      BY <1>5
    <3>2. ~none
      BY <3>1, <2>7, <1>21 DEF none
    <3>3. ~IF p_big_deq_r THEN empty_r ELSE space
      BY <3>1, <3>2, <2>7, <1>5
    <3>4. QED
      BY <3>2, <3>3, <2>7, <1>5, <1>16 DEF space
  <2>8. QED
    BY <2>2, <2>6, <2>7 DEF RateInv
<1>24. PseudoHolds(L2, B2)'
  BY <1>16, <1>17, <1>20 DEF PseudoHolds, L2, B2
<1>25. PseudoTypeOK'
  <2>1. p_q' \in Seq(Data)
    <3>1. Fetched' \in Seq(Data)
      BY <1>6, <1>17, EmptySeq DEF Fetched
    <3>2. L2 \in Seq(Data) /\ B2 \in Seq(Data)
      BY <1>16, <1>17 DEF L2, B2
    <3>3. QED
      BY <3>1, <3>2, <1>20, ConcatProperties
  <2>2. half_rate' \in BOOLEAN
    BY <1>1
  <2>3. QED
    BY <2>1, <2>2, <1>1, <1>6, <1>16, <1>17 DEF PseudoTypeOK
<1>26. PseudoParts(L2, B2)'
  BY <1>22, <1>23, <1>24 DEF PseudoParts
<1>27. L2 \in Seq(Data) /\ B2 \in Seq(Data)
  BY <1>16, <1>17 DEF L2, B2
<1>28. QED
  BY <1>25, <1>26, <1>27 DEF PseudoInv

(* A reset empties both queues; the memories are written through it.       *)
LEMMA PseudoReset == PseudoInv /\ pseudo!Reset => PseudoInv'
<1> SUFFICES ASSUME PseudoInv, pseudo!Reset
             PROVE  PseudoInv'
  OBVIOUS
<1>1. PICK v \in BOOLEAN, y \in BOOLEAN, d \in Data : pseudo!Edge(TRUE, v, d, y)
  BY DEF pseudo!Reset
<1>2. PICK L \in Seq(Data), B \in Seq(Data) : PseudoParts(L, B)
  BY DEF PseudoInv
<1>3. PseudoTypeOK
  BY DEF PseudoInv
<1>4. /\ TwoHolds(head_r, tail_r, little_mem, L)
      /\ RamHolds(p_rd_ptr, p_wr_ptr, p_mem, B, pseudo_els_p)
  BY <1>2 DEF PseudoParts, PseudoHolds
<1>5. tail_r \in 0 .. 1
  BY <1>4, TwoLen
<1>6. p_wr_ptr \in 0 .. pseudo_els_p - 1
  BY <1>4 DEF RamHolds
<1>7. pseudo!little_data(d) \in Data
  <2>1. p_big_deq_r => p_big_data_lo \in Data
    BY <1>2 DEF PseudoParts, FetchInv
  <2>2. QED
    BY <2>1 DEF pseudo!little_data
<1>8. /\ head_r' = 0 /\ tail_r' = 0 /\ empty_r' = TRUE /\ full_r' = FALSE
      /\ little_mem' = IF pseudo!little2p!enq(pseudo!little_valid(v, y))
                         THEN [little_mem EXCEPT ![tail_r] = pseudo!little_data(d)]
                         ELSE little_mem
  BY <1>1 DEF pseudo!Edge, pseudo!LittleEdge, pseudo!little2p!Edge
<1>9. /\ p_rd_ptr' = 0 /\ p_wr_ptr' = 0 /\ p_last_op' = TRUE
      /\ p_mem' = IF pseudo!big_enq(v, y) THEN [p_mem EXCEPT ![p_wr_ptr] = d] ELSE p_mem
  BY <1>1 DEF pseudo!Edge, pseudo!BigEdge, pseudo!big1p!OneRwEdge
<1>10. p_big_deq_r' = FALSE
  BY <1>1 DEF pseudo!Edge
<1>11. p_q' = <<>> /\ last_v' = FALSE /\ last_yumi' = FALSE /\ half_rate' = TRUE
  BY DEF pseudo!Reset
<1>12. /\ little_mem' \in [0 .. 1 -> Data \cup {Junk}]
       /\ p_mem' \in [0 .. pseudo_els_p - 1 -> Data \cup {Junk}]
  <2>1. /\ little_mem \in [0 .. 1 -> Data \cup {Junk}]
        /\ p_mem \in [0 .. pseudo_els_p - 1 -> Data \cup {Junk}]
    BY <1>3 DEF PseudoTypeOK
  <2>2. QED
    BY <2>1, <1>5, <1>6, <1>7, <1>8, <1>9
<1>13. PseudoTypeOK'
  BY <1>8, <1>9, <1>10, <1>11, <1>12, EmptySeq DEF PseudoTypeOK
<1>14. <<>> \in Seq(Data) /\ Len(<<>>) = 0
  BY EmptySeq
<1>15. TwoHolds(head_r', tail_r', little_mem', <<>>) /\ TwoFlags(<<>>)'
  BY <1>8, <1>14, TwoEmpty DEF TwoFlags
<1>16. RamHolds(p_rd_ptr', p_wr_ptr', p_mem', <<>>, pseudo_els_p) /\ RamFlag(<<>>)'
  BY <1>9, <1>14, RamEmpty, PseudoAssumption DEF RamFlag
<1>17. p_q' = (<<>> \o Fetched') \o <<>>
  BY <1>10, <1>11, <1>14, ConcatEmptySeq DEF Fetched
<1>18. PseudoParts(<<>>, <<>>)'
  BY <1>8, <1>10, <1>11, <1>14, <1>15, <1>16, <1>17
     DEF PseudoParts, PseudoHolds, FetchInv, RateInv
<1>19. QED
  BY <1>13, <1>14, <1>18 DEF PseudoInv

(* Every step keeps the invariant. *)
LEMMA PseudoNext == PseudoInv /\ [pseudo!Next]_(pseudo!vars) => PseudoInv'
<1> SUFFICES ASSUME PseudoInv, [pseudo!Next]_(pseudo!vars)
             PROVE  PseudoInv'
  OBVIOUS
<1>1. CASE pseudo!Clk
  BY <1>1, PseudoClk
<1>2. CASE pseudo!Reset
  BY <1>2, PseudoReset
<1>3. CASE UNCHANGED pseudo!vars
  <2>1. /\ p_rd_ptr' = p_rd_ptr /\ p_wr_ptr' = p_wr_ptr /\ p_last_op' = p_last_op
        /\ p_mem' = p_mem /\ p_big_data_lo' = p_big_data_lo
    BY <1>3 DEF pseudo!vars, pseudo!big
  <2>2. /\ head_r' = head_r /\ tail_r' = tail_r /\ empty_r' = empty_r /\ full_r' = full_r
        /\ little_mem' = little_mem
    BY <1>3 DEF pseudo!vars, pseudo!little
  <2>3. /\ p_big_deq_r' = p_big_deq_r /\ p_q' = p_q /\ last_v' = last_v
        /\ last_yumi' = last_yumi /\ half_rate' = half_rate
    BY <1>3 DEF pseudo!vars, pseudo!client
  <2>4. PseudoTypeOK'
    BY <2>1, <2>2, <2>3 DEF PseudoInv, PseudoTypeOK
  <2>5. PICK L \in Seq(Data), B \in Seq(Data) : PseudoParts(L, B)
    BY DEF PseudoInv
  <2>6. PseudoHolds(L, B)'
    BY <2>1, <2>2, <2>3, <2>5 DEF PseudoParts, PseudoHolds, TwoFlags, RamFlag, Fetched
  <2>7. FetchInv(L, B)' /\ RateInv(L, B)'
    BY <2>1, <2>2, <2>3, <2>5 DEF PseudoParts, FetchInv, RateInv
  <2>8. QED
    BY <2>4, <2>6, <2>7 DEF PseudoInv, PseudoParts
<1>4. QED
  BY <1>1, <1>2, <1>3 DEF pseudo!Next

(* In every state each word is in exactly one of the three places.         *)
THEOREM PseudoInvariant == pseudo!Spec => []PseudoInv
BY PseudoInit, PseudoNext, PTL DEF pseudo!Spec

(* The words as they are read out of the registers are the sequences of    *)
(* the invariant.                                                          *)
LEMMA PseudoContents == PseudoInv => pseudo!NothingLost
<1> SUFFICES ASSUME PseudoInv
             PROVE  pseudo!contents = p_q
  BY DEF pseudo!NothingLost
<1>1. PICK L \in Seq(Data), B \in Seq(Data) : PseudoParts(L, B)
  BY DEF PseudoInv
<1>2. PseudoTypeOK
  BY DEF PseudoInv
<1>3. /\ TwoHolds(head_r, tail_r, little_mem, L) /\ TwoFlags(L)
      /\ RamHolds(p_rd_ptr, p_wr_ptr, p_mem, B, pseudo_els_p) /\ RamFlag(B)
      /\ p_q = (L \o Fetched) \o B
  BY <1>1 DEF PseudoParts, PseudoHolds
<1> DEFINE N == pseudo_els_p
<1>4. N \in Nat \ {0}
  BY PseudoAssumption
<1>5. pseudo!little2p!contents = L
  <2>1. pseudo!little2p!contents =
          IF empty_r THEN <<>>
          ELSE IF full_r THEN <<little_mem[head_r], little_mem[1 - head_r]>>
          ELSE <<little_mem[head_r]>>
    BY DEF pseudo!little2p!contents, pseudo!little2p!Other
  <2>2. /\ Len(L) = 0 \/ Len(L) = 1 \/ Len(L) = 2
        /\ Len(L) = 0 => L = <<>>
        /\ Len(L) = 1 => L = <<little_mem[head_r]>>
        /\ Len(L) = 2 => L = <<little_mem[head_r], little_mem[1 - head_r]>>
    BY <1>3, TwoLen, TwoContents
  <2>3. (empty_r <=> Len(L) = 0) /\ (full_r <=> Len(L) = 2)
    BY <1>3 DEF TwoFlags
  <2>4. QED
    BY <2>1, <2>2, <2>3
<1>6. pseudo!big1p!Count = Len(B)
  <2>1. /\ Len(B) \in Nat /\ Len(B) <= N /\ p_rd_ptr \in 0 .. N - 1 /\ p_wr_ptr \in 0 .. N - 1
        /\ p_rd_ptr = p_wr_ptr <=> Len(B) = 0 \/ Len(B) = N
        /\ p_rd_ptr # p_wr_ptr => Len(B) = IF p_wr_ptr >= p_rd_ptr THEN p_wr_ptr - p_rd_ptr
                                           ELSE p_wr_ptr - p_rd_ptr + N
    BY <1>3, <1>4, RamLen
  <2>2. pseudo!big1p!full_o <=> Len(B) = N
    BY <1>2, <1>3, BigFlags
  <2>3. pseudo!big1p!Count =
          IF pseudo!big1p!full_o THEN N
          ELSE IF p_wr_ptr >= p_rd_ptr THEN p_wr_ptr - p_rd_ptr ELSE p_wr_ptr - p_rd_ptr + N
    BY DEF pseudo!big1p!Count
  <2> HIDE DEF N
  <2>4. CASE Len(B) = N
    BY <2>2, <2>3, <2>4
  <2>5. CASE Len(B) # N /\ p_rd_ptr # p_wr_ptr
    BY <2>1, <2>2, <2>3, <2>5
  <2>6. CASE Len(B) # N /\ p_rd_ptr = p_wr_ptr
    <3>1. Len(B) = 0
      BY <2>1, <2>6
    <3>2. p_wr_ptr >= p_rd_ptr /\ p_wr_ptr - p_rd_ptr = 0
      BY <2>1, <2>6
    <3>3. QED
      BY <3>1, <3>2, <2>2, <2>3, <2>6
  <2>7. QED
    BY <2>4, <2>5, <2>6
<1>7. [i \in 1 .. Len(B) |-> p_mem[(p_rd_ptr + i - 1) % N]] = B
  <2>1. /\ p_rd_ptr \in 0 .. N - 1 /\ Len(B) <= N
        /\ \A i \in 1 .. Len(B) : B[i] = p_mem[Place(p_rd_ptr, i - 1, N)]
    BY <1>3 DEF RamHolds
  <2>2. Len(B) \in Nat /\ DOMAIN B = 1 .. Len(B) /\ B = [i \in 1 .. Len(B) |-> B[i]]
    BY LenProperties
  <2>3. ASSUME NEW i \in 1 .. Len(B)
        PROVE  (p_rd_ptr + i - 1) % N = Place(p_rd_ptr, i - 1, N)
    <3> HIDE DEF N
    <3>1. i - 1 \in 0 .. N /\ p_rd_ptr + i - 1 = p_rd_ptr + (i - 1)
      BY <2>1, <2>2, <1>4
    <3>2. (p_rd_ptr + (i - 1)) % N = Place(p_rd_ptr, i - 1, N)
      BY <3>1, <2>1, <1>4, PlaceMod
    <3>3. QED
      BY <3>1, <3>2
  <2>4. QED
    BY <2>1, <2>2, <2>3
<1>8. pseudo!contents =
        (pseudo!little2p!contents \o (IF p_big_deq_r THEN <<p_big_data_lo>> ELSE <<>>))
          \o [i \in 1 .. pseudo!big1p!Count |-> p_mem[(p_rd_ptr + i - 1) % N]]
  BY DEF pseudo!contents
<1>9. QED
  BY <1>3, <1>5, <1>6, <1>7, <1>8 DEF Fetched

(* bsg_fifo_1r1w_pseudo_large loses, duplicates and overtakes no word and  *)
(* does not starve a half-rate receiver, whatever the size of its RAM and  *)
(* whether or not its yumi comes early.                                    *)
THEOREM PseudoKeepsWords == QueuesSpec => []PseudoIsExact
<1>1. QueuesInit => pseudo!Init
  BY DEF QueuesInit
<1>2. [QueuesNext]_all => [pseudo!Next]_(pseudo!vars)
  <2>1. SUFFICES ASSUME [QueuesNext]_all
                 PROVE  pseudo!Next \/ UNCHANGED pseudo!vars
    OBVIOUS
  <2>2. UNCHANGED pseudo_vars => UNCHANGED pseudo!vars
    BY DEF pseudo_vars, pseudo!vars, pseudo!big, pseudo!little, pseudo!client
  <2>3. CASE UNCHANGED all
    BY <2>2, <2>3 DEF all
  <2>4. CASE QueuesNext
    BY <2>2, <2>4, Zenon DEF QueuesNext
  <2>5. QED
    BY <2>1, <2>3, <2>4
<1>3. PseudoInv => PseudoIsExact
  <2> SUFFICES ASSUME PseudoInv
               PROVE  PseudoIsExact
    OBVIOUS
  <2>1. pseudo!NothingLost
    BY PseudoContents
  <2>2. pseudo!NeverStarved
    <3>1. PICK L \in Seq(Data), B \in Seq(Data) : RateInv(L, B)
      BY DEF PseudoInv, PseudoParts
    <3>2. QED
      BY <3>1 DEF RateInv, pseudo!NeverStarved, pseudo!v_o, pseudo!little2p!v_o
  <2>3. QED
    BY <2>1, <2>2 DEF PseudoIsExact
<1>4. pseudo!Spec => []PseudoIsExact
  BY <1>3, PseudoInvariant, PTL
<1>5. QED
  BY <1>1, <1>2, <1>4, PTL DEF QueuesSpec, pseudo!Spec
-----------------------------------------------------------------------------
(* The large queue.  Words dealt to two queues in turn: the first and the  *)
(* third to one, the second and the fourth to the other.                   *)
OddOf(D) ==
  IF Len(D) = 0 THEN <<>> ELSE IF Len(D) <= 2 THEN <<D[1]>> ELSE <<D[1], D[3]>>
EvenOf(D) ==
  IF Len(D) <= 1 THEN <<>> ELSE IF Len(D) <= 3 THEN <<D[2]>> ELSE <<D[2], D[4]>>

(* Queue t holds a and the other one b. *)
Pair2(t, a, b) == [i \in 0 .. 1 |-> IF i = t THEN a ELSE b]

(* The queue that the word after those of D goes to. *)
NextDest(t, D) == IF Len(D) = 1 \/ Len(D) = 3 THEN 1 - t ELSE t

(* The numbers up to four. *)
LEMMA UpToFour ==
  ASSUME NEW n \in Nat, n <= 4
  PROVE  n = 0 \/ n = 1 \/ n = 2 \/ n = 3 \/ n = 4
OBVIOUS

(* The numbers up to three. *)
LEMMA UpToThree ==
  ASSUME NEW n \in Nat, n <= 3
  PROVE  n = 0 \/ n = 1 \/ n = 2 \/ n = 3
OBVIOUS

(* Sequences of one word and of two. *)
LEMMA Tuples ==
  ASSUME NEW S, NEW a \in S, NEW b \in S
  PROVE  /\ <<a>> \in Seq(S) /\ <<a, b>> \in Seq(S)
         /\ Append(<<>>, a) = <<a>> /\ Append(<<a>>, b) = <<a, b>>
         /\ Head(<<a>>) = a /\ Head(<<a, b>>) = a
         /\ Tail(<<a>>) = <<>> /\ Tail(<<a, b>>) = <<b>>
         /\ Len(<<>>) = 0 /\ Len(<<a>>) = 1 /\ Len(<<a, b>>) = 2
<1>1. <<a>> \in Seq(S) /\ <<a, b>> \in Seq(S) /\ <<b>> \in Seq(S) /\ <<>> \in Seq(S)
  BY EmptySeq
<1>2. Len(<<>>) = 0 /\ Len(<<a>>) = 1 /\ Len(<<a, b>>) = 2 /\ Len(<<b>>) = 1
  BY EmptySeq
<1>3. Append(<<>>, a) = <<a>>
  OBVIOUS
<1>4. Append(<<a>>, b) = <<a, b>>
  <2> DEFINE A == Append(<<a>>, b)
             B == <<a, b>>
  <2>1. A \in Seq(S) /\ Len(A) = 2 /\ A[1] = a /\ A[2] = b
    BY <1>1, <1>2, AppendProperties
  <2>2. B \in Seq(S) /\ Len(B) = 2 /\ B[1] = a /\ B[2] = b
    BY <1>1, <1>2
  <2> HIDE DEF A, B
  <2>3. \A i \in 1 .. Len(A) : A[i] = B[i]
    BY <2>1, <2>2
  <2>4. A = B
    BY ONLY <2>1, <2>2, <2>3, SeqEqual
  <2>5. QED
    BY <2>4 DEF A, B
<1>5. Tail(<<a, b>>) = <<b>>
  <2> DEFINE A == Tail(<<a, b>>)
             B == <<b>>
  <2>1. A \in Seq(S) /\ Len(A) = 1 /\ A[1] = b
    BY <1>1, <1>2, HeadTailProperties
  <2>2. B \in Seq(S) /\ Len(B) = 1 /\ B[1] = b
    BY <1>1, <1>2
  <2> HIDE DEF A, B
  <2>3. \A i \in 1 .. Len(A) : A[i] = B[i]
    BY <2>1, <2>2
  <2>4. A = B
    BY ONLY <2>1, <2>2, <2>3, SeqEqual
  <2>5. QED
    BY <2>4 DEF A, B
<1>6. Tail(<<a>>) = <<>>
  BY <1>1, <1>2, HeadTailProperties, EmptySeq
<1>7. QED
  BY <1>1, <1>2, <1>3, <1>4, <1>5, <1>6

(* A sequence of one word or of two is those words. *)
LEMMA OneOrTwo ==
  ASSUME NEW S, NEW W \in Seq(S)
  PROVE  /\ Len(W) = 1 => W = <<W[1]>> /\ W[1] \in S
         /\ Len(W) = 2 => W = <<W[1], W[2]>> /\ W[1] \in S /\ W[2] \in S
<1>1. \A i \in 1 .. Len(W) : W[i] \in S
  BY ElementOfSeq
<1>2. ASSUME Len(W) = 1
      PROVE  W = <<W[1]>> /\ W[1] \in S
  <2> DEFINE B == <<W[1]>>
  <2>1. W[1] \in S
    BY <1>1, <1>2
  <2>2. B \in Seq(S) /\ Len(B) = 1 /\ B[1] = W[1]
    BY <2>1, Tuples
  <2> HIDE DEF B
  <2>3. \A i \in 1 .. Len(W) : W[i] = B[i]
    BY <1>2, <2>2
  <2>4. W = B
    BY <1>2, <2>2, <2>3, SeqEqual
  <2>5. QED
    BY <2>1, <2>4 DEF B
<1>3. ASSUME Len(W) = 2
      PROVE  W = <<W[1], W[2]>> /\ W[1] \in S /\ W[2] \in S
  <2> DEFINE B == <<W[1], W[2]>>
  <2>1. W[1] \in S /\ W[2] \in S
    BY <1>1, <1>3
  <2>2. B \in Seq(S) /\ Len(B) = 2 /\ B[1] = W[1] /\ B[2] = W[2]
    BY <2>1, Tuples
  <2> HIDE DEF B
  <2>3. \A i \in 1 .. Len(W) : W[i] = B[i]
    BY <1>3, <2>2
  <2>4. W = B
    BY <1>3, <2>2, <2>3, SeqEqual
  <2>5. QED
    BY <2>1, <2>4 DEF B
<1>4. QED
  BY <1>2, <1>3
(* What the two queues hold, by the number of words: of none, nothing. *)
LEMMA Dealt0 == ASSUME NEW D, Len(D) = 0 PROVE OddOf(D) = <<>> /\ EvenOf(D) = <<>>
BY DEF OddOf, EvenOf

(* One word is in the first queue. *)
LEMMA Dealt1 == ASSUME NEW D, Len(D) = 1 PROVE OddOf(D) = <<D[1]>> /\ EvenOf(D) = <<>>
BY DEF OddOf, EvenOf

(* Of two words, each queue has one. *)
LEMMA Dealt2 == ASSUME NEW D, Len(D) = 2 PROVE OddOf(D) = <<D[1]>> /\ EvenOf(D) = <<D[2]>>
BY DEF OddOf, EvenOf

(* The third word follows the first. *)
LEMMA Dealt3 ==
  ASSUME NEW D, Len(D) = 3 PROVE OddOf(D) = <<D[1], D[3]>> /\ EvenOf(D) = <<D[2]>>
BY DEF OddOf, EvenOf

(* The fourth word follows the second. *)
LEMMA Dealt4 ==
  ASSUME NEW D, Len(D) = 4 PROVE OddOf(D) = <<D[1], D[3]>> /\ EvenOf(D) = <<D[2], D[4]>>
BY DEF OddOf, EvenOf

(* One more word goes to the queue whose turn it is. *)
LEMMA DealOne ==
  ASSUME NEW S, NEW D \in Seq(S), NEW w \in S, Len(D) <= 3
  PROVE  /\ Len(D) = 0 \/ Len(D) = 2 =>
              OddOf(Append(D, w)) = Append(OddOf(D), w) /\ EvenOf(Append(D, w)) = EvenOf(D)
         /\ Len(D) = 1 \/ Len(D) = 3 =>
              OddOf(Append(D, w)) = OddOf(D) /\ EvenOf(Append(D, w)) = Append(EvenOf(D), w)
<1>1. Len(D) \in Nat
  BY LenProperties
<1>2. Len(D) = 0 \/ Len(D) = 1 \/ Len(D) = 2 \/ Len(D) = 3
  <2>1. Len(D) <= 3
    OBVIOUS
  <2>2. QED
    BY ONLY <1>1, <2>1, UpToThree
<1> DEFINE A == Append(D, w)
<1>3. Len(A) = Len(D) + 1 /\ A[Len(D) + 1] = w /\ \A i \in 1 .. Len(D) : A[i] = D[i]
  BY AppendProperties
<1>4. \A i \in 1 .. Len(D) : D[i] \in S
  BY ElementOfSeq
<1> HIDE DEF A
<1>5. CASE Len(D) = 0
  <2>1. Len(A) = 1 /\ A[1] = w
    BY <1>3, <1>5
  <2>2. OddOf(A) = <<w>> /\ EvenOf(A) = <<>> /\ OddOf(D) = <<>> /\ EvenOf(D) = <<>>
    BY <2>1, <1>5, Dealt0, Dealt1
  <2>3. Append(<<>>, w) = <<w>>
    BY Tuples
  <2>4. QED
    BY <2>2, <2>3, <1>5 DEF A
<1>6. CASE Len(D) = 1
  <2>1. Len(A) = 2 /\ A[1] = D[1] /\ A[2] = w
    BY <1>3, <1>6
  <2>2. OddOf(A) = <<D[1]>> /\ EvenOf(A) = <<w>> /\ OddOf(D) = <<D[1]>> /\ EvenOf(D) = <<>>
    BY <2>1, <1>6, Dealt1, Dealt2
  <2>3. Append(<<>>, w) = <<w>>
    BY Tuples
  <2>4. QED
    BY <2>2, <2>3, <1>6 DEF A
<1>7. CASE Len(D) = 2
  <2>1. Len(A) = 3 /\ A[1] = D[1] /\ A[2] = D[2] /\ A[3] = w /\ D[1] \in S
    BY <1>3, <1>7, <1>4
  <2>2. OddOf(A) = <<D[1], w>> /\ EvenOf(A) = <<D[2]>> /\ OddOf(D) = <<D[1]>> /\ EvenOf(D) = <<D[2]>>
    BY <2>1, <1>7, Dealt2, Dealt3
  <2>3. Append(<<D[1]>>, w) = <<D[1], w>>
    BY <2>1, Tuples
  <2>4. QED
    BY <2>2, <2>3, <1>7 DEF A
<1>8. CASE Len(D) = 3
  <2>1. Len(A) = 4 /\ A[1] = D[1] /\ A[2] = D[2] /\ A[3] = D[3] /\ A[4] = w /\ D[2] \in S
    BY <1>3, <1>8, <1>4
  <2>2. OddOf(A) = <<D[1], D[3]>> /\ EvenOf(A) = <<D[2], w>> /\ OddOf(D) = <<D[1], D[3]>>
        /\ EvenOf(D) = <<D[2]>>
    BY <2>1, <1>8, Dealt3, Dealt4
  <2>3. Append(<<D[2]>>, w) = <<D[2], w>>
    BY <2>1, Tuples, ZenonT(60)
  <2>4. QED
    BY <2>2, <2>3, <1>8 DEF A
<1>9. QED
  BY <1>2, <1>5, <1>6, <1>7, <1>8

(* The oldest is taken, and the queues change places. *)
LEMMA TakeOne ==
  ASSUME NEW S, NEW D \in Seq(S), Len(D) <= 4, D # <<>>
  PROVE  /\ OddOf(Tail(D)) = EvenOf(D)
         /\ EvenOf(Tail(D)) = Tail(OddOf(D))
         /\ OddOf(D) # <<>> /\ Head(OddOf(D)) = Head(D)
<1>1. Len(D) \in Nat /\ Len(D) # 0
  BY EmptySeq, LenProperties
<1>2. Len(D) = 1 \/ Len(D) = 2 \/ Len(D) = 3 \/ Len(D) = 4
  BY <1>1, UpToFour
<1> DEFINE A == Tail(D)
<1>3. Len(A) = Len(D) - 1 /\ Head(D) = D[1] /\ \A i \in 1 .. Len(D) - 1 : A[i] = D[i + 1]
  BY <1>1, HeadTailProperties
<1>4. \A i \in 1 .. Len(D) : D[i] \in S
  BY ElementOfSeq
<1>5. \A a, b \in S : <<a>> # <<>> /\ <<a, b>> # <<>>
  BY Tuples
<1> HIDE DEF A
<1>6. CASE Len(D) = 1
  <2>1. Len(A) = 0 /\ D[1] \in S
    BY <1>3, <1>6, <1>4
  <2>2. OddOf(A) = <<>> /\ EvenOf(A) = <<>> /\ OddOf(D) = <<D[1]>> /\ EvenOf(D) = <<>>
    BY <2>1, <1>6, Dealt0, Dealt1
  <2>3. Tail(<<D[1]>>) = <<>> /\ Head(<<D[1]>>) = D[1] /\ <<D[1]>> # <<>>
    BY <2>1, <1>5, Tuples
  <2>4. QED
    BY <2>2, <2>3, <1>3 DEF A
<1>7. CASE Len(D) = 2
  <2>1. Len(A) = 1 /\ A[1] = D[2] /\ D[1] \in S
    BY <1>3, <1>7, <1>4
  <2>2. OddOf(A) = <<D[2]>> /\ EvenOf(A) = <<>> /\ OddOf(D) = <<D[1]>> /\ EvenOf(D) = <<D[2]>>
    BY <2>1, <1>7, Dealt1, Dealt2
  <2>3. Tail(<<D[1]>>) = <<>> /\ Head(<<D[1]>>) = D[1] /\ <<D[1]>> # <<>>
    BY <2>1, <1>5, Tuples
  <2>4. QED
    BY <2>2, <2>3, <1>3 DEF A
<1>8. CASE Len(D) = 3
  <2>1. Len(A) = 2 /\ A[1] = D[2] /\ A[2] = D[3] /\ D[1] \in S /\ D[3] \in S
    BY <1>3, <1>8, <1>4
  <2>2. OddOf(A) = <<D[2]>> /\ EvenOf(A) = <<D[3]>> /\ OddOf(D) = <<D[1], D[3]>>
        /\ EvenOf(D) = <<D[2]>>
    BY <2>1, <1>8, Dealt2, Dealt3
  <2>3. Tail(<<D[1], D[3]>>) = <<D[3]>> /\ Head(<<D[1], D[3]>>) = D[1] /\ <<D[1], D[3]>> # <<>>
    BY <2>1, <1>5, Tuples
  <2>4. QED
    BY <2>2, <2>3, <1>3 DEF A
<1>9. CASE Len(D) = 4
  <2>1. Len(A) = 3 /\ A[1] = D[2] /\ A[2] = D[3] /\ A[3] = D[4] /\ D[1] \in S /\ D[3] \in S
    BY <1>3, <1>9, <1>4
  <2>2. OddOf(A) = <<D[2], D[4]>> /\ EvenOf(A) = <<D[3]>> /\ OddOf(D) = <<D[1], D[3]>>
        /\ EvenOf(D) = <<D[2], D[4]>>
    BY <2>1, <1>9, Dealt3, Dealt4
  <2>3. Tail(<<D[1], D[3]>>) = <<D[3]>> /\ Head(<<D[1], D[3]>>) = D[1] /\ <<D[1], D[3]>> # <<>>
    BY <2>1, <1>5, Tuples
  <2>4. QED
    BY <2>2, <2>3, <1>3 DEF A
<1>10. QED
  BY <1>2, <1>6, <1>7, <1>8, <1>9

(* How many words each of the two has. *)
DealLengths(n, a, b) ==
  \/ n = 0 /\ a = 0 /\ b = 0
  \/ n = 1 /\ a = 1 /\ b = 0
  \/ n = 2 /\ a = 1 /\ b = 1
  \/ n = 3 /\ a = 2 /\ b = 1
  \/ n = 4 /\ a = 2 /\ b = 2

(* These are the lengths of the two queues. *)
LEMMA DealLens ==
  ASSUME NEW S, NEW D \in Seq(S), Len(D) <= 4
  PROVE  /\ OddOf(D) \in Seq(S) /\ EvenOf(D) \in Seq(S)
         /\ DealLengths(Len(D), Len(OddOf(D)), Len(EvenOf(D)))
<1>1. Len(D) \in Nat
  BY LenProperties
<1>2. Len(D) = 0 \/ Len(D) = 1 \/ Len(D) = 2 \/ Len(D) = 3 \/ Len(D) = 4
  BY <1>1, UpToFour
<1>3. \A i \in 1 .. Len(D) : D[i] \in S
  BY ElementOfSeq
<1>4. CASE Len(D) = 0
  BY <1>4, Dealt0, EmptySeq DEF DealLengths
<1>5. CASE Len(D) = 1
  <2>1. D[1] \in S
    BY <1>3, <1>5
  <2>2. OddOf(D) = <<D[1]>> /\ EvenOf(D) = <<>>
    BY <1>5, Dealt1
  <2>3. /\ <<D[1]>> \in Seq(S) /\ Len(<<D[1]>>) = 1
        /\ <<>> \in Seq(S) /\ Len(<<>>) = 0
    BY ONLY <2>1, Tuples, EmptySeq
  <2>4. DealLengths(1, 1, 0)
    BY DEF DealLengths
  <2>5. QED
    BY ONLY <1>5, <2>2, <2>3, <2>4
<1>6. CASE Len(D) = 2
  <2>1. D[1] \in S /\ D[2] \in S
    BY <1>3, <1>6
  <2>2. OddOf(D) = <<D[1]>> /\ EvenOf(D) = <<D[2]>>
    BY <1>6, Dealt2
  <2>3. /\ <<D[1]>> \in Seq(S) /\ Len(<<D[1]>>) = 1
        /\ <<D[2]>> \in Seq(S) /\ Len(<<D[2]>>) = 1
    BY ONLY <2>1, Tuples, EmptySeq
  <2>4. DealLengths(2, 1, 1)
    BY DEF DealLengths
  <2>5. QED
    BY ONLY <1>6, <2>2, <2>3, <2>4
<1>7. CASE Len(D) = 3
  <2>1. D[1] \in S /\ D[2] \in S /\ D[3] \in S
    BY <1>3, <1>7
  <2>2. OddOf(D) = <<D[1], D[3]>> /\ EvenOf(D) = <<D[2]>>
    BY <1>7, Dealt3
  <2>3. /\ <<D[1], D[3]>> \in Seq(S) /\ Len(<<D[1], D[3]>>) = 2
        /\ <<D[2]>> \in Seq(S) /\ Len(<<D[2]>>) = 1
    BY ONLY <2>1, Tuples, EmptySeq
  <2>4. DealLengths(3, 2, 1)
    BY DEF DealLengths
  <2>5. QED
    BY ONLY <1>7, <2>2, <2>3, <2>4
<1>8. CASE Len(D) = 4
  <2>1. D[1] \in S /\ D[2] \in S /\ D[3] \in S /\ D[4] \in S
    BY <1>3, <1>8
  <2>2. OddOf(D) = <<D[1], D[3]>> /\ EvenOf(D) = <<D[2], D[4]>>
    BY <1>8, Dealt4
  <2>3. /\ <<D[1], D[3]>> \in Seq(S) /\ Len(<<D[1], D[3]>>) = 2
        /\ <<D[2], D[4]>> \in Seq(S) /\ Len(<<D[2], D[4]>>) = 2
    BY ONLY <2>1, Tuples, EmptySeq
  <2>4. DealLengths(4, 2, 2)
    BY DEF DealLengths
  <2>5. QED
    BY ONLY <1>8, <2>2, <2>3, <2>4
<1>9. QED
  BY <1>2, <1>4, <1>5, <1>6, <1>7, <1>8
-----------------------------------------------------------------------------
(* The two output queues lt hold the words D, the first of which is in     *)
(* queue t, and h is where the next one goes.                              *)
LittleHolds(t, D, lt, h) ==
  /\ t \in 0 .. 1
  /\ Len(D) <= 4
  /\ lt = Pair2(t, OddOf(D), EvenOf(D))
  /\ h = NextDest(t, D)

(* Word w is added to queue i, and the oldest word of queue i is taken.    *)
PutIn(lt, i, w) == [j \in 0 .. 1 |-> IF j = i THEN Append(lt[j], w) ELSE lt[j]]
TakeFrom(lt, i) == [j \in 0 .. 1 |-> IF j = i THEN Tail(lt[j]) ELSE lt[j]]

(* Either of the two queues of a pair. *)
LEMMA Pair2Is ==
  ASSUME NEW t \in 0 .. 1, NEW a, NEW b
  PROVE  Pair2(t, a, b)[t] = a /\ Pair2(t, a, b)[1 - t] = b /\ 1 - t \in 0 .. 1 /\ 1 - t # t
BY DEF Pair2

(* The number of words tells how many each of the two has. *)
LEMMA LensTell ==
  ASSUME NEW n, NEW x, NEW y, DealLengths(n, x, y)
  PROVE  /\ x = 0 <=> n = 0
         /\ x = 0 /\ y = 0 <=> n = 0
         /\ n = 1 \/ n = 3 => (y < 2 <=> n <= 3) /\ (x < 2 <=> n <= 2)
         /\ ~(n = 1 \/ n = 3) => (x < 2 <=> n <= 3) /\ (y < 2 <=> n <= 2)
BY DEF DealLengths

(* How many words there are tells which of the two have room or a word. *)
LEMMA LittleReady ==
  ASSUME NEW S, NEW D \in Seq(S), NEW t, NEW lt, NEW h, LittleHolds(t, D, lt, h)
  PROVE  /\ h \in 0 .. 1 /\ 1 - h \in 0 .. 1
         /\ Len(lt[h]) < 2 <=> Len(D) <= 3
         /\ Len(lt[1 - h]) < 2 <=> Len(D) <= 2
         /\ lt[t] = <<>> <=> Len(D) = 0
         /\ (\A i \in 0 .. 1 : lt[i] = <<>>) <=> Len(D) = 0
         /\ D # <<>> => Head(lt[t]) = Head(D)
<1> DEFINE a == OddOf(D)
           b == EvenOf(D)
           n == Len(D)
<1>1. t \in 0 .. 1 /\ n <= 4 /\ lt = Pair2(t, a, b) /\ h = NextDest(t, D)
  BY DEF LittleHolds
<1>2. a \in Seq(S) /\ b \in Seq(S) /\ DealLengths(n, Len(a), Len(b))
  BY <1>1, DealLens
<1>3. lt[t] = a /\ lt[1 - t] = b /\ 1 - t \in 0 .. 1 /\ 1 - (1 - t) = t
  BY <1>1, Pair2Is
<1>4. h = IF n = 1 \/ n = 3 THEN 1 - t ELSE t
  BY <1>1 DEF NextDest
<1>5. (a = <<>> <=> Len(a) = 0) /\ (b = <<>> <=> Len(b) = 0)
  BY <1>2, EmptySeq
<1>6. D # <<>> => Head(a) = Head(D)
  BY <1>1, TakeOne
<1>7. \A i \in 0 .. 1 : i = t \/ i = 1 - t
  BY <1>1
<1> HIDE DEF a, b, n
<1>8. /\ Len(a) = 0 <=> n = 0
      /\ Len(a) = 0 /\ Len(b) = 0 <=> n = 0
      /\ n = 1 \/ n = 3 => (Len(b) < 2 <=> n <= 3) /\ (Len(a) < 2 <=> n <= 2)
      /\ ~(n = 1 \/ n = 3) => (Len(a) < 2 <=> n <= 3) /\ (Len(b) < 2 <=> n <= 2)
  BY <1>2, LensTell
<1>9. h \in 0 .. 1 /\ 1 - h \in 0 .. 1
  BY <1>1, <1>3, <1>4
<1>10. (Len(lt[h]) < 2 <=> n <= 3) /\ (Len(lt[1 - h]) < 2 <=> n <= 2)
  <2>1. CASE n = 1 \/ n = 3
    <3>1. h = 1 - t /\ 1 - h = t
      BY <1>3, <1>4, <2>1
    <3>2. lt[h] = b /\ lt[1 - h] = a
      BY <1>3, <3>1
    <3>3. QED
      BY <1>8, <2>1, <3>2
  <2>2. CASE ~(n = 1 \/ n = 3)
    <3>1. h = t
      BY <1>4, <2>2
    <3>2. lt[h] = a /\ lt[1 - h] = b
      BY <1>3, <3>1
    <3>3. QED
      BY <1>8, <2>2, <3>2
  <2>3. QED
    BY <2>1, <2>2
<1>11. lt[t] = <<>> <=> n = 0
  BY <1>3, <1>5, <1>8
<1>12. (\A i \in 0 .. 1 : lt[i] = <<>>) <=> n = 0
  <2>1. (\A i \in 0 .. 1 : lt[i] = <<>>) <=> lt[t] = <<>> /\ lt[1 - t] = <<>>
    BY <1>1, <1>3, <1>7
  <2>2. lt[t] = <<>> /\ lt[1 - t] = <<>> <=> n = 0
    BY <1>3, <1>5, <1>8
  <2>3. QED
    BY <2>1, <2>2
<1>13. D # <<>> => Head(lt[t]) = Head(D)
  BY <1>3, <1>6
<1>14. QED
  BY <1>9, <1>10, <1>11, <1>12, <1>13 DEF n

(* A word is dealt to the queue whose turn it is. *)
LEMMA LittlePut ==
  ASSUME NEW S, NEW D \in Seq(S), NEW w \in S, NEW t, NEW lt, NEW h,
         LittleHolds(t, D, lt, h), Len(D) <= 3
  PROVE  LittleHolds(t, Append(D, w), PutIn(lt, h, w), 1 - h)
<1> DEFINE a == OddOf(D)
           b == EvenOf(D)
           n == Len(D)
           D2 == Append(D, w)
<1>1. t \in 0 .. 1 /\ lt = Pair2(t, a, b) /\ h = NextDest(t, D)
  BY DEF LittleHolds
<1>2. n \in Nat /\ n <= 3
  BY LenProperties
<1>3. n = 0 \/ n = 1 \/ n = 2 \/ n = 3
  BY ONLY <1>2, UpToThree
<1>4. Len(D2) = n + 1
  BY AppendProperties
<1>5. /\ n = 0 \/ n = 2 => OddOf(D2) = Append(a, w) /\ EvenOf(D2) = b
      /\ n = 1 \/ n = 3 => OddOf(D2) = a /\ EvenOf(D2) = Append(b, w)
  BY DealOne
<1>6. lt[t] = a /\ lt[1 - t] = b /\ 1 - t \in 0 .. 1 /\ 1 - t # t /\ 1 - (1 - t) = t
  BY <1>1, Pair2Is
<1>7. \A i \in 0 .. 1 : i = t \/ i = 1 - t
  BY <1>1
<1>8. h = IF n = 1 \/ n = 3 THEN 1 - t ELSE t
  BY <1>1 DEF NextDest
<1> HIDE DEF a, b, n, D2
<1>9. Len(D2) <= 4
  BY <1>2, <1>4
<1>10. CASE n = 0 \/ n = 2
  <2>1. h = t
    BY ONLY <1>8, <1>10
  <2>2. 1 - h = NextDest(t, D2)
    BY <1>4, <1>10, <2>1 DEF NextDest
  <2>3. OddOf(D2) = Append(a, w) /\ EvenOf(D2) = b
    BY <1>5, <1>10
  <2>4. PutIn(lt, h, w) = Pair2(t, Append(a, w), b)
    BY <1>6, <1>7, <2>1 DEF PutIn, Pair2
  <2>5. QED
    BY <1>1, <1>9, <2>2, <2>3, <2>4 DEF LittleHolds, D2
<1>11. CASE n = 1 \/ n = 3
  <2>1. h = 1 - t
    BY ONLY <1>8, <1>11
  <2>2. 1 - h = NextDest(t, D2)
    BY <1>4, <1>6, <1>11, <2>1 DEF NextDest
  <2>3. OddOf(D2) = a /\ EvenOf(D2) = Append(b, w)
    BY <1>5, <1>11
  <2>4. PutIn(lt, h, w) = Pair2(t, a, Append(b, w))
    BY <1>6, <1>7, <2>1 DEF PutIn, Pair2
  <2>5. QED
    BY <1>1, <1>9, <2>2, <2>3, <2>4 DEF LittleHolds, D2
<1>12. QED
  BY <1>3, <1>10, <1>11

(* The oldest word is taken. *)
LEMMA LittleTake ==
  ASSUME NEW S, NEW D \in Seq(S), NEW t, NEW lt, NEW h,
         LittleHolds(t, D, lt, h), D # <<>>
  PROVE  LittleHolds(1 - t, Tail(D), TakeFrom(lt, t), h)
<1> DEFINE a == OddOf(D)
           b == EvenOf(D)
           n == Len(D)
           D2 == Tail(D)
<1>1. t \in 0 .. 1 /\ n <= 4 /\ lt = Pair2(t, a, b) /\ h = NextDest(t, D)
  BY DEF LittleHolds
<1>2. n \in Nat /\ n # 0
  BY EmptySeq, LenProperties
<1>3. n = 0 \/ n = 1 \/ n = 2 \/ n = 3 \/ n = 4
  BY ONLY <1>1, <1>2, UpToFour
<1>4. Len(D2) = n - 1
  BY HeadTailProperties
<1>5. OddOf(D2) = b /\ EvenOf(D2) = Tail(a)
  BY <1>1, TakeOne
<1>6. lt[t] = a /\ lt[1 - t] = b /\ 1 - t \in 0 .. 1 /\ 1 - t # t /\ 1 - (1 - t) = t
  BY <1>1, Pair2Is
<1>7. \A i \in 0 .. 1 : i = t \/ i = 1 - t
  BY <1>1
<1> HIDE DEF a, b, n, D2
<1>8. Len(D2) <= 4
  BY <1>2, <1>1, <1>4
<1>9. TakeFrom(lt, t) = Pair2(1 - t, b, Tail(a))
  BY <1>6, <1>7 DEF TakeFrom, Pair2
<1>10. h = NextDest(1 - t, D2)
  <2>1. h = IF n = 1 \/ n = 3 THEN 1 - t ELSE t
    BY <1>1 DEF NextDest, n
  <2>2. NextDest(1 - t, D2) = IF n - 1 = 1 \/ n - 1 = 3 THEN t ELSE 1 - t
    BY <1>4, <1>6 DEF NextDest
  <2>3. QED
    BY <1>2, <1>3, <2>1, <2>2
<1>11. QED
  BY <1>5, <1>6, <1>8, <1>9, <1>10 DEF LittleHolds, D2
-----------------------------------------------------------------------------
(* The words of a sequence of pairs, one after the other: word n is the    *)
(* half At(n) of pair In(n).                                               *)
Pairs(S) == {g \in Seq(S) : Len(g) = 2}
In(n) == ((n - 1) \div 2) + 1
At(n) == 2 - (n % 2)
Flat(P) == [n \in 1 .. 2 * Len(P) |-> P[In(n)][At(n)]]

(* Every word is half of a pair that is there. *)
LEMMA InPairs ==
  ASSUME NEW k \in Nat, NEW n \in 1 .. 2 * k
  PROVE  In(n) \in 1 .. k /\ At(n) \in 1 .. 2
BY DEF In, At

(* The two words after those of k pairs are the halves of the next pair. *)
LEMMA InNextPair ==
  ASSUME NEW k \in Nat, NEW n \in (2 * k) + 1 .. (2 * k) + 2
  PROVE  In(n) = k + 1 /\ At(n) = n - (2 * k)
BY DEF In, At

(* The first two words are the halves of the first pair. *)
LEMMA InFirstPair ==
  ASSUME NEW n \in 1 .. 2
  PROVE  In(n) = 1 /\ At(n) = n
BY DEF In, At

(* The word two places on is the same half of the next pair. *)
LEMMA InLaterPair ==
  ASSUME NEW n \in Nat, n >= 3
  PROVE  In(n) = In(n - 2) + 1 /\ At(n) = At(n - 2)
BY DEF In, At

(* There are twice as many words as pairs. *)
LEMMA FlatSeq ==
  ASSUME NEW S, NEW P \in Seq(Pairs(S))
  PROVE  /\ Flat(P) \in Seq(S) /\ Len(Flat(P)) = 2 * Len(P)
         /\ \A n \in 1 .. 2 * Len(P) : Flat(P)[n] = P[In(n)][At(n)]
<1> DEFINE k == Len(P)
<1>1. k \in Nat
  BY LenProperties
<1>2. ASSUME NEW n \in 1 .. 2 * k PROVE P[In(n)][At(n)] \in S
  <2>1. In(n) \in 1 .. k /\ At(n) \in 1 .. 2
    BY <1>1, InPairs
  <2>2. P[In(n)] \in Pairs(S)
    BY <2>1, ElementOfSeq
  <2>3. P[In(n)] \in Seq(S) /\ Len(P[In(n)]) = 2
    BY <2>2 DEF Pairs
  <2>4. QED
    BY <2>1, <2>3, ElementOfSeq
<1> DEFINE m == 2 * k
<1>3. m \in Nat
  BY <1>1
<1>4. \A n \in 1 .. m : P[In(n)][At(n)] \in S
  BY <1>2
<1>5. Flat(P) = [n \in 1 .. m |-> P[In(n)][At(n)]]
  BY DEF Flat
<1> HIDE DEF m, k
<1>6. Flat(P) \in [1 .. m -> S]
  BY <1>4, <1>5
<1>7. Flat(P) \in Seq(S) /\ Len(Flat(P)) = m
  BY <1>3, <1>6
<1>8. \A n \in 1 .. m : Flat(P)[n] = P[In(n)][At(n)]
  BY <1>5
<1>9. QED
  BY <1>7, <1>8 DEF m, k

(* No pairs, no words. *)
LEMMA FlatEmpty == Flat(<<>>) = <<>>
<1>1. <<>> \in Seq(Pairs({})) /\ Len(<<>>) = 0
  BY EmptySeq
<1>2. Flat(<<>>) \in Seq({}) /\ Len(Flat(<<>>)) = 0
  <2>1. Flat(<<>>) \in Seq({}) /\ Len(Flat(<<>>)) = 2 * Len(<<>>)
    BY <1>1, FlatSeq
  <2>2. 2 * Len(<<>>) = 0
    BY <1>1
  <2>3. QED
    BY ONLY <2>1, <2>2
<1>3. QED
  BY <1>2, EmptySeq

(* A pair more is its two words more. *)
LEMMA FlatAppend ==
  ASSUME NEW S, NEW P \in Seq(Pairs(S)), NEW g \in Pairs(S)
  PROVE  Flat(Append(P, g)) = Cat(Flat(P), g)
<1> DEFINE k == Len(P)
           A == Append(P, g)
           X == Flat(A)
           Y == Cat(Flat(P), g)
<1>1. k \in Nat
  BY LenProperties
<1>2. /\ A \in Seq(Pairs(S)) /\ Len(A) = k + 1 /\ A[k + 1] = g
      /\ \A i \in 1 .. k : A[i] = P[i]
  BY AppendProperties
<1>3. X \in Seq(S) /\ Len(X) = 2 * (k + 1) /\ \A n \in 1 .. 2 * (k + 1) : X[n] = A[In(n)][At(n)]
  BY <1>2, FlatSeq
<1>4. /\ Flat(P) \in Seq(S) /\ Len(Flat(P)) = 2 * k
      /\ \A n \in 1 .. 2 * k : Flat(P)[n] = P[In(n)][At(n)]
  BY FlatSeq
<1>5. g \in Seq(S) /\ Len(g) = 2
  BY DEF Pairs
<1>6. /\ Y \in Seq(S) /\ Len(Y) = (2 * k) + 2
      /\ \A n \in 1 .. (2 * k) + 2 : Y[n] = IF n <= 2 * k THEN Flat(P)[n] ELSE g[n - (2 * k)]
  <2>1. /\ Cat(Flat(P), g) \in Seq(S) /\ Len(Cat(Flat(P), g)) = Len(Flat(P)) + Len(g)
        /\ \A i \in 1 .. Len(Flat(P)) + Len(g) :
             Cat(Flat(P), g)[i] = IF i <= Len(Flat(P)) THEN Flat(P)[i] ELSE g[i - Len(Flat(P))]
    BY ONLY <1>4, <1>5, ConcatProperties, Zenon DEF Cat
  <2>2. QED
    BY <1>4, <1>5, <2>1
<1> HIDE DEF k, A, X, Y
<1>7. ASSUME NEW n \in 1 .. (2 * k) + 2 PROVE X[n] = Y[n]
  <2>0. X[n] = A[In(n)][At(n)]
    BY <1>1, <1>3
  <2>1. CASE n <= 2 * k
    <3>1. n \in 1 .. 2 * k
      BY <1>1, <2>1
    <3>2. In(n) \in 1 .. k
      BY <1>1, <3>1, InPairs
    <3>3. A[In(n)] = P[In(n)] /\ Flat(P)[n] = P[In(n)][At(n)]
      BY <1>2, <1>4, <3>1, <3>2
    <3>4. Y[n] = Flat(P)[n]
      BY <1>6, <2>1
    <3>5. QED
      BY <2>0, <3>3, <3>4
  <2>2. CASE ~(n <= 2 * k)
    <3>1. n \in (2 * k) + 1 .. (2 * k) + 2
      BY <1>1, <2>2
    <3>2. In(n) = k + 1 /\ At(n) = n - (2 * k)
      BY <1>1, <3>1, InNextPair
    <3>3. Y[n] = g[n - (2 * k)]
      BY <1>6, <2>2
    <3>4. QED
      BY <1>2, <2>0, <3>2, <3>3
  <2>3. QED
    BY <2>1, <2>2
<1>8. Len(X) = Len(Y) /\ Len(X) = (2 * k) + 2
  BY <1>1, <1>3, <1>6
<1>9. X = Y
  BY <1>3, <1>6, <1>7, <1>8, SeqEqual
<1>10. QED
  BY <1>9 DEF X, Y, A

(* The first pair's words come first. *)
LEMMA FlatTail ==
  ASSUME NEW S, NEW P \in Seq(Pairs(S)), P # <<>>
  PROVE  Flat(P) = Cat(Head(P), Flat(Tail(P)))
<1> DEFINE k == Len(P)
           R == Tail(P)
           g == Head(P)
           X == Flat(P)
           Y == Cat(g, Flat(R))
<1>1. k \in Nat /\ k # 0
  BY LenProperties, EmptySeq
<1>2. /\ R \in Seq(Pairs(S)) /\ Len(R) = k - 1 /\ g \in Pairs(S) /\ g = P[1]
      /\ \A i \in 1 .. k - 1 : R[i] = P[i + 1]
  BY HeadTailProperties
<1>3. X \in Seq(S) /\ Len(X) = 2 * k /\ \A n \in 1 .. 2 * k : X[n] = P[In(n)][At(n)]
  BY FlatSeq
<1>4. /\ Flat(R) \in Seq(S) /\ Len(Flat(R)) = 2 * (k - 1)
      /\ \A n \in 1 .. 2 * (k - 1) : Flat(R)[n] = R[In(n)][At(n)]
  BY <1>2, FlatSeq
<1>5. g \in Seq(S) /\ Len(g) = 2
  BY <1>2 DEF Pairs
<1> HIDE DEF k, R, g
<1>6. /\ Y \in Seq(S) /\ Len(Y) = 2 * k
      /\ \A n \in 1 .. 2 * k : Y[n] = IF n <= 2 THEN g[n] ELSE Flat(R)[n - 2]
  <2>1. /\ Cat(g, Flat(R)) \in Seq(S) /\ Len(Cat(g, Flat(R))) = Len(g) + Len(Flat(R))
        /\ \A i \in 1 .. Len(g) + Len(Flat(R)) :
             Cat(g, Flat(R))[i] = IF i <= Len(g) THEN g[i] ELSE Flat(R)[i - Len(g)]
    BY ONLY <1>4, <1>5, ConcatProperties, Zenon DEF Cat
  <2>2. Len(g) + Len(Flat(R)) = 2 * k
    BY <1>1, <1>4, <1>5
  <2>3. QED
    BY <1>5, <2>1, <2>2
<1> HIDE DEF X, Y
<1>7. ASSUME NEW n \in 1 .. 2 * k PROVE X[n] = Y[n]
  <2>0. X[n] = P[In(n)][At(n)]
    BY <1>3
  <2>1. CASE n <= 2
    <3>1. n \in 1 .. 2
      BY <1>1, <2>1
    <3>2. In(n) = 1 /\ At(n) = n
      BY <3>1, InFirstPair
    <3>3. Y[n] = g[n]
      BY <1>6, <2>1
    <3>4. QED
      BY <1>2, <2>0, <3>2, <3>3
  <2>2. CASE ~(n <= 2)
    <3>1. n \in Nat /\ n >= 3 /\ n - 2 \in 1 .. 2 * (k - 1) /\ k - 1 \in Nat
      BY <1>1, <2>2
    <3>2. In(n) = In(n - 2) + 1 /\ At(n) = At(n - 2)
      BY <3>1, InLaterPair
    <3>3. In(n - 2) \in 1 .. k - 1
      BY <3>1, InPairs
    <3>4. R[In(n - 2)] = P[In(n)]
      BY <1>2, <3>2, <3>3
    <3>5. Flat(R)[n - 2] = R[In(n - 2)][At(n - 2)]
      BY <1>4, <3>1
    <3>6. Y[n] = Flat(R)[n - 2]
      BY <1>6, <2>2
    <3>7. QED
      BY <2>0, <3>2, <3>4, <3>5, <3>6
  <2>3. QED
    BY <2>1, <2>2
<1>8. X = Y
  BY <1>3, <1>6, <1>7, SeqEqual
<1>9. QED
  BY <1>8 DEF X, Y, R, g
-----------------------------------------------------------------------------
(* All words of the large queue: those of the output queues, the pair on   *)
(* its way, those in the RAM and those in the sipo.                        *)
InAll(D, F, P, s) == Cat(Cat(Cat(D, F), Flat(P)), s)

(* The words W go to the output queues, the pairs P of the RAM become Q,   *)
(* the pair on its way F becomes G and the sipo s becomes z.  What was on  *)
(* its way arrives, and a pair of the sipo may go to the RAM; or words     *)
(* bypass an empty RAM; or a pair is fetched.                              *)
LargeMove(S, D, F, P, s, W, G, Q, z) ==
  /\ D \in Seq(S) /\ F \in Seq(S) /\ P \in Seq(Pairs(S)) /\ s \in Seq(S)
  /\ W \in Seq(S) /\ z \in Seq(S)
  /\ \/ W = F /\ G = <<>> /\ Q = P /\ z = s
     \/ /\ W = F /\ G = <<>>
        /\ \E g \in Pairs(S) : Q = Append(P, g) /\ s = Cat(g, z)
     \/ F = <<>> /\ P = <<>> /\ Q = <<>> /\ G = <<>> /\ s = Cat(W, z)
     \/ F = <<>> /\ W = <<>> /\ P # <<>> /\ G = Head(P) /\ Q = Tail(P) /\ z = s

(* The words stay in order. *)
LEMMA LargeOrder ==
  ASSUME NEW S, NEW D, NEW F, NEW P, NEW s, NEW W, NEW G, NEW Q, NEW z,
         LargeMove(S, D, F, P, s, W, G, Q, z)
  PROVE  /\ InAll(D, F, P, s) = InAll(Cat(D, W), G, Q, z)
         /\ Cat(D, W) \in Seq(S) /\ G \in Seq(S) /\ Q \in Seq(Pairs(S)) /\ z \in Seq(S)
<1>1. /\ D \in Seq(S) /\ F \in Seq(S) /\ P \in Seq(Pairs(S)) /\ s \in Seq(S)
      /\ W \in Seq(S) /\ z \in Seq(S) /\ <<>> \in Seq(S) /\ <<>> \in Seq(Pairs(S))
  BY EmptySeq DEF LargeMove
<1>2. Flat(P) \in Seq(S) /\ Cat(D, W) \in Seq(S)
  BY <1>1, FlatSeq, CatSeq
<1>3. InAll(D, F, P, s) = Cat(D, Cat(F, Cat(Flat(P), s)))
  BY <1>1, <1>2, Regroup DEF InAll
<1>4. \A X \in Seq(S), Y \in Seq(Pairs(S)) :
        InAll(Cat(D, W), X, Y, z) = Cat(D, Cat(W, Cat(X, Cat(Flat(Y), z))))
  <2>1. SUFFICES ASSUME NEW X \in Seq(S), NEW Y \in Seq(Pairs(S))
                 PROVE  InAll(Cat(D, W), X, Y, z) = Cat(D, Cat(W, Cat(X, Cat(Flat(Y), z))))
    OBVIOUS
  <2>2. Flat(Y) \in Seq(S)
    BY FlatSeq
  <2> DEFINE u == Cat(X, Cat(Flat(Y), z))
  <2>3. Cat(Flat(Y), z) \in Seq(S)
    BY <1>1, <2>2, CatSeq
  <2>4. u \in Seq(S)
    BY <2>3, CatSeq
  <2>5. InAll(Cat(D, W), X, Y, z) = Cat(Cat(D, W), u)
    BY <1>1, <1>2, <2>2, Regroup DEF InAll
  <2> HIDE DEF u
  <2>6. Cat(Cat(D, W), u) = Cat(D, Cat(W, u))
    BY <1>1, <2>4, CatAssociative
  <2>7. QED
    BY <2>5, <2>6 DEF u
<1>5. \A X \in Seq(S) : Cat(<<>>, X) = X /\ Cat(X, <<>>) = X
  BY CatEmpty
<1>6. Cat(Flat(P), z) \in Seq(S) /\ Cat(Flat(P), s) \in Seq(S)
  BY <1>1, <1>2, CatSeq
<1>7. SUFFICES /\ G \in Seq(S) /\ Q \in Seq(Pairs(S))
               /\ Cat(W, Cat(G, Cat(Flat(Q), z))) = Cat(F, Cat(Flat(P), s))
  <2>1. InAll(Cat(D, W), G, Q, z) = Cat(D, Cat(W, Cat(G, Cat(Flat(Q), z))))
    BY ONLY <1>4, <1>7
  <2>2. InAll(D, F, P, s) = InAll(Cat(D, W), G, Q, z)
    BY ONLY <1>3, <1>7, <2>1
  <2>3. QED
    BY ONLY <1>1, <1>2, <1>7, <2>2
<1>8. CASE W = F /\ G = <<>> /\ Q = P /\ z = s
  <2>1. G \in Seq(S) /\ Q \in Seq(Pairs(S))
    BY <1>1, <1>8
  <2>2. Cat(G, Cat(Flat(Q), z)) = Cat(Flat(P), s)
    BY <1>5, <1>6, <1>8
  <2>3. QED
    BY <1>8, <2>1, <2>2
<1>9. CASE W = F /\ G = <<>> /\ \E g \in Pairs(S) : Q = Append(P, g) /\ s = Cat(g, z)
  <2>1. PICK g \in Pairs(S) : Q = Append(P, g) /\ s = Cat(g, z)
    BY <1>9
  <2>2. g \in Seq(S) /\ Q \in Seq(Pairs(S)) /\ Flat(Q) = Cat(Flat(P), g)
    BY <1>1, <2>1, AppendProperties, FlatAppend DEF Pairs
  <2>3. Cat(Flat(Q), z) = Cat(Flat(P), s)
    BY <1>1, <1>2, <2>1, <2>2, CatAssociative
  <2>4. Cat(G, Cat(Flat(Q), z)) = Cat(Flat(P), s)
    BY <1>5, <1>6, <1>9, <2>3
  <2>5. G \in Seq(S)
    BY <1>1, <1>9
  <2>6. QED
    BY <1>9, <2>2, <2>4, <2>5
<1>10. CASE F = <<>> /\ P = <<>> /\ Q = <<>> /\ G = <<>> /\ s = Cat(W, z)
  <2>1. Flat(Q) = <<>> /\ Flat(P) = <<>>
    BY <1>10, FlatEmpty
  <2>2. Cat(W, Cat(G, Cat(Flat(Q), z))) = s
    BY <1>1, <1>5, <1>10, <2>1
  <2>3. Cat(F, Cat(Flat(P), s)) = s
    BY <1>1, <1>5, <1>10, <2>1
  <2>4. G \in Seq(S) /\ Q \in Seq(Pairs(S))
    BY <1>1, <1>10
  <2>5. QED
    BY ONLY <2>2, <2>3, <2>4
<1>11. CASE F = <<>> /\ W = <<>> /\ P # <<>> /\ G = Head(P) /\ Q = Tail(P) /\ z = s
  <2>1. G \in Pairs(S) /\ Q \in Seq(Pairs(S))
    BY <1>1, <1>11, HeadTailProperties
  <2>2. G \in Seq(S) /\ Flat(Q) \in Seq(S)
    BY <2>1, FlatSeq DEF Pairs
  <2>3. Flat(P) = Cat(G, Flat(Q))
    BY <1>1, <1>11, FlatTail
  <2>4. Cat(Flat(P), s) = Cat(G, Cat(Flat(Q), z))
    BY <1>1, <1>11, <2>2, <2>3, CatAssociative
  <2>5. Cat(G, Cat(Flat(Q), z)) \in Seq(S)
    BY <1>6, <2>4
  <2>6. Cat(W, Cat(G, Cat(Flat(Q), z))) = Cat(F, Cat(Flat(P), s))
    BY <1>5, <1>6, <1>11, <2>4, <2>5
  <2>7. QED
    BY ONLY <2>1, <2>2, <2>6
<1>12. QED
  BY <1>8, <1>9, <1>10, <1>11 DEF LargeMove

(* The oldest word is in the output queues and is taken from there. *)
LEMMA LargeTake ==
  ASSUME NEW S, NEW D \in Seq(S), NEW F \in Seq(S), NEW P \in Seq(Pairs(S)), NEW s \in Seq(S),
         D # <<>>
  PROVE  /\ Tail(InAll(D, F, P, s)) = InAll(Tail(D), F, P, s)
         /\ InAll(D, F, P, s) # <<>>
         /\ Tail(D) \in Seq(S)
<1>1. Flat(P) \in Seq(S) /\ Tail(D) \in Seq(S)
  BY FlatSeq, HeadTailProperties
<1> DEFINE c == Cat(F, Cat(Flat(P), s))
<1>2. InAll(D, F, P, s) = Cat(D, c) /\ c \in Seq(S)
  BY <1>1, Regroup DEF InAll
<1>3. InAll(Tail(D), F, P, s) = Cat(Tail(D), c)
  <2> DEFINE T == Tail(D)
  <2>1. T \in Seq(S) /\ Flat(P) \in Seq(S)
    BY <1>1
  <2> HIDE DEF T
  <2>2. InAll(T, F, P, s) = Cat(T, Cat(F, Cat(Flat(P), s)))
    BY <2>1, Regroup DEF InAll
  <2>3. QED
    BY <2>2 DEF T
<1> HIDE DEF c
<1>4. Tail(Cat(D, c)) = Cat(Tail(D), c) /\ Cat(D, c) # <<>>
  BY <1>2, TailOfFirst DEF Cat
<1>5. QED
  BY <1>1, <1>2, <1>3, <1>4

(* Lengths add up. *)
LEMMA CatLen ==
  ASSUME NEW S, NEW s \in Seq(S), NEW t \in Seq(S)
  PROVE  Cat(s, t) \in Seq(S) /\ Len(Cat(s, t)) = Len(s) + Len(t)
BY ConcatProperties DEF Cat

(* How many words there are in all. *)
LEMMA LargeCount ==
  ASSUME NEW S, NEW D \in Seq(S), NEW F \in Seq(S), NEW P \in Seq(Pairs(S)), NEW s \in Seq(S)
  PROVE  /\ InAll(D, F, P, s) \in Seq(S)
         /\ Len(InAll(D, F, P, s)) = Len(D) + Len(F) + (2 * Len(P)) + Len(s)
<1> DEFINE a == Cat(D, F)
           f == Flat(P)
           b == Cat(a, f)
           c == Cat(b, s)
<1>1. f \in Seq(S) /\ Len(f) = 2 * Len(P)
  BY FlatSeq
<1>2. a \in Seq(S) /\ Len(a) = Len(D) + Len(F)
  BY CatLen
<1> HIDE DEF a, f
<1>3. b \in Seq(S) /\ Len(b) = Len(a) + Len(f)
  BY <1>1, <1>2, CatLen
<1> HIDE DEF b
<1>4. c \in Seq(S) /\ Len(c) = Len(b) + Len(s)
  BY <1>3, CatLen
<1>5. Len(c) = Len(D) + Len(F) + (2 * Len(P)) + Len(s)
  BY <1>1, <1>2, <1>3, <1>4
<1>6. InAll(D, F, P, s) = c
  BY DEF InAll, a, b, f
<1>7. QED
  BY ONLY <1>4, <1>5, <1>6
-----------------------------------------------------------------------------
(* The large queue by numbers, in a cycle that fetched a pair and in one   *)
(* that did not: T words in the output queues, p pairs in the RAM, which   *)
(* has room for N, n words in the sipo.  A pair is fetched only for two    *)
(* queues with room and words to go on with; the sipo has words only when  *)
(* the output queues are busy, and two or more beside a RAM with pairs     *)
(* only when that is full.                                                 *)
FlowBusy(T, p, n, N) ==
  /\ 1 <= T /\ T <= 2 /\ p < N
  /\ n = 3 => p = N - 1
FlowIdle(T, p, n, N) ==
  /\ p # 0 \/ n # 0 => T >= 2
  /\ p # 0 /\ n >= 2 => p = N
  /\ n = 3 => p = N

(* The sipo's words, with the one that arrived. *)
OneMore(n, m) == m = n \/ (m = n + 1 /\ n < 3)

(* A pair arrives in the output queues while the sipo spills another.      *)
LEMMA FlowArriveSpill ==
  ASSUME NEW T \in Nat, NEW p \in Nat, NEW n \in 0 .. 3, NEW m \in 0 .. 3, NEW N \in Nat,
         NEW y \in 0 .. 1, FlowBusy(T, p, n, N), OneMore(n, m), m >= 2
  PROVE  FlowIdle(T + 2 - y, p + 1, m - 2, N)
BY DEF FlowBusy, FlowIdle, OneMore

(* A pair arrives, and the sipo has none to spill. *)
LEMMA FlowArrive ==
  ASSUME NEW T \in Nat, NEW p \in Nat, NEW n \in 0 .. 3, NEW m \in 0 .. 3, NEW N \in Nat,
         NEW y \in 0 .. 1, FlowBusy(T, p, n, N), OneMore(n, m), m <= 1
  PROVE  FlowIdle(T + 2 - y, p, m, N)
BY DEF FlowBusy, FlowIdle, OneMore

(* Words bypass an empty RAM. *)
LEMMA FlowBypass ==
  ASSUME NEW T \in Nat, NEW n \in 0 .. 3, NEW m \in 0 .. 3, NEW N \in Nat, N # 0,
         NEW y \in 0 .. 1, NEW b \in 0 .. 2, FlowIdle(T, 0, n, N), OneMore(n, m),
         b <= m, m >= 1 => b >= 1, T <= 2 /\ m >= 2 => b = 2
  PROVE  FlowIdle(T + b - y, 0, m - b, N)
BY DEF FlowIdle, OneMore

(* A pair is fetched. *)
LEMMA FlowFetch ==
  ASSUME NEW T \in Nat, NEW p \in Nat, NEW n \in 0 .. 3, NEW m \in 0 .. 3, NEW N \in Nat,
         NEW y \in 0 .. 1, FlowIdle(T, p, n, N), OneMore(n, m), p # 0, p <= N, T <= 2
  PROVE  FlowBusy(T - y, p - 1, m, N)
BY DEF FlowBusy, FlowIdle, OneMore

(* The sipo spills a pair. *)
LEMMA FlowSpill ==
  ASSUME NEW T \in Nat, NEW p \in Nat, NEW n \in 0 .. 3, NEW m \in 0 .. 3, NEW N \in Nat,
         NEW y \in 0 .. 1, FlowIdle(T, p, n, N), OneMore(n, m), T >= 3, m >= 2
  PROVE  FlowIdle(T - y, p + 1, m - 2, N)
BY DEF FlowIdle, OneMore

(* Nothing moves. *)
LEMMA FlowWait ==
  ASSUME NEW T \in Nat, NEW p \in Nat, NEW n \in 0 .. 3, NEW m \in 0 .. 3, NEW N \in Nat,
         NEW y \in 0 .. 1, FlowIdle(T, p, n, N), OneMore(n, m), T >= 3, p = N \/ m <= 1
  PROVE  FlowIdle(T - y, p, m, N)
BY DEF FlowIdle, OneMore

-----------------------------------------------------------------------------
(* The RAM's size in pairs, and the words on their way from it. *)
LPairs == large_els_p \div 2
LFetched == IF l_big_deq_r THEN l_big_data_lo ELSE <<>>

LargeTypeOK ==
  /\ l_mem \in [0 .. LPairs - 1 -> Pairs(Data \cup {Junk})]
  /\ l_last_op \in BOOLEAN /\ l_big_deq_r \in BOOLEAN
  /\ sipo \in Seq(Data) /\ Len(sipo) <= 3
  /\ reset_edges \in 0 .. MinReset

LRamFlag(P) == l_rd_ptr = l_wr_ptr => (l_last_op <=> Len(P) = 0)

(* In operation: where the words are. *)
LargeHolds(D, P) ==
  /\ LittleHolds(tag_r, D, little, rr222_head_r)
  /\ RamHolds(l_rd_ptr, l_wr_ptr, l_mem, P, LPairs) /\ LRamFlag(P)
  /\ l_big_deq_r => l_big_data_lo \in Pairs(Data)
  /\ l_q = InAll(D, LFetched, P, sipo)

LargeFlow(D, P) ==
  /\ l_big_deq_r => FlowBusy(Len(D), Len(P), Len(sipo), LPairs)
  /\ ~l_big_deq_r => FlowIdle(Len(D), Len(P), Len(sipo), LPairs)

LargeParts(D, P) == LargeHolds(D, P) /\ LargeFlow(D, P)

(* Before the last edge of a reset, the RAM offers nothing. *)
LargeInv ==
  /\ LargeTypeOK
  /\ reset_edges = MinReset =>
       \E D \in Seq(Data), P \in Seq(Pairs(Data)) : LargeParts(D, P)
  /\ reset_edges # MinReset =>
       l_rd_ptr = 0 /\ l_wr_ptr = 0 /\ l_last_op = TRUE /\ reset_edges # 0

(* The RAM holds as many pairs as it has places for half the words. *)
LEMMA LPairsIs == LPairs \in Nat \ {0} /\ 2 * LPairs = large_els_p
BY LargeAssumption DEF large!LargeAssumption, LPairs

(* What the RAM's pointers and flag tell. *)
LEMMA LBigFlags ==
  ASSUME NEW S, NEW P \in Seq(S), RamHolds(l_rd_ptr, l_wr_ptr, l_mem, P, LPairs),
         LRamFlag(P), l_last_op \in BOOLEAN
  PROVE  /\ Len(P) \in Nat /\ Len(P) <= LPairs
         /\ large!big1p!empty_o <=> Len(P) = 0
         /\ large!big1p!full_o <=> Len(P) = LPairs
<1>1. /\ Len(P) \in Nat /\ Len(P) <= LPairs
      /\ l_rd_ptr = l_wr_ptr <=> Len(P) = 0 \/ Len(P) = LPairs
  BY LPairsIs, RamLen
<1>2. LPairs \in Nat /\ LPairs # 0
  BY LPairsIs
<1>3. l_rd_ptr = l_wr_ptr => (l_last_op <=> Len(P) = 0)
  BY DEF LRamFlag
<1> HIDE DEF LPairs
<1>4. /\ large!big1p!empty_o <=> l_rd_ptr = l_wr_ptr /\ l_last_op
      /\ large!big1p!full_o <=> l_rd_ptr = l_wr_ptr /\ ~l_last_op
  BY DEF large!big1p!empty_o, large!big1p!full_o
<1>5. QED
  BY <1>1, <1>2, <1>3, <1>4

(* Which output queues have room. *)
LEMMA LReady ==
  ASSUME NEW S, NEW D \in Seq(S), LittleHolds(tag_r, D, little, rr222_head_r)
  PROVE  /\ rr222_head_r \in 0 .. 1 /\ 1 - rr222_head_r \in 0 .. 1
         /\ large!Dest(1) = rr222_head_r /\ large!Dest(2) = 1 - rr222_head_r
         /\ large!little_ready(1) <=> Len(D) <= 3
         /\ large!little_ready(2) <=> Len(D) <= 2
         /\ large!BothReady <=> Len(D) <= 2
         /\ large!v_o <=> Len(D) # 0
         /\ (\A i \in 0 .. 1 : little[i] = <<>>) <=> Len(D) = 0
<1>1. /\ rr222_head_r \in 0 .. 1 /\ 1 - rr222_head_r \in 0 .. 1
      /\ Len(little[rr222_head_r]) < 2 <=> Len(D) <= 3
      /\ Len(little[1 - rr222_head_r]) < 2 <=> Len(D) <= 2
      /\ little[tag_r] = <<>> <=> Len(D) = 0
      /\ (\A i \in 0 .. 1 : little[i] = <<>>) <=> Len(D) = 0
  BY LittleReady
<1>2. Len(D) \in Nat
  BY LenProperties
<1>3. large!Dest(1) = rr222_head_r
  BY <1>1 DEF large!Dest
<1>4. large!Dest(2) = 1 - rr222_head_r
  BY <1>1 DEF large!Dest
<1>5. (large!little_ready(1) <=> Len(D) <= 3) /\ (large!little_ready(2) <=> Len(D) <= 2)
  BY <1>1, <1>3, <1>4 DEF large!little_ready
<1>6. large!BothReady <=> Len(D) <= 2
  BY <1>2, <1>5 DEF large!BothReady
<1>7. large!v_o <=> Len(D) # 0
  BY <1>1 DEF large!v_o
<1>8. QED
  BY <1>1, <1>3, <1>4, <1>5, <1>6, <1>7
(* Where words go in a cycle, by what is where. *)
LEMMA LControl ==
  ASSUME NEW D \in Seq(Data), NEW P \in Seq(Pairs(Data)), LargeHolds(D, P), LargeTypeOK,
         NEW s \in Seq(Data)
  PROVE  /\ l_big_deq_r =>
              /\ large!Bypassed(s) = 0
              /\ large!will_spill(s) <=> Len(P) # LPairs /\ Len(s) >= 2
              /\ large!big_deq(s) => Len(D) = 0
         /\ ~l_big_deq_r /\ Len(P) = 0 /\ Len(D) <= 3 =>
              /\ ~large!will_spill(s) /\ ~large!big_deq(s)
              /\ large!Bypassed(s) = IF Len(s) >= 2 /\ Len(D) <= 2 THEN 2
                                     ELSE IF Len(s) >= 1 THEN 1 ELSE 0
         /\ ~l_big_deq_r /\ Len(P) # 0 /\ Len(D) <= 2 =>
              ~large!will_spill(s) /\ large!big_deq(s) /\ large!Bypassed(s) = 0
         /\ ~l_big_deq_r /\ Len(D) >= 3 /\ (Len(P) # 0 \/ Len(D) = 4) =>
              /\ large!Bypassed(s) = 0 /\ ~large!big_deq(s)
              /\ large!will_spill(s) <=> Len(P) # LPairs /\ Len(s) >= 2
<1> DEFINE T == Len(D)
           p == Len(P)
           n == Len(s)
           N == LPairs
<1>1. LittleHolds(tag_r, D, little, rr222_head_r)
  BY DEF LargeHolds
<1>2. RamHolds(l_rd_ptr, l_wr_ptr, l_mem, P, LPairs) /\ LRamFlag(P) /\ l_last_op \in BOOLEAN
  BY DEF LargeHolds, LargeTypeOK
<1>3. /\ p \in Nat /\ (large!big1p!empty_o <=> p = 0) /\ (large!big1p!full_o <=> p = N)
  BY <1>2, LBigFlags
<1>4. /\ (large!little_ready(1) <=> T <= 3) /\ (large!little_ready(2) <=> T <= 2)
      /\ (large!BothReady <=> T <= 2) /\ ((\A i \in 0 .. 1 : little[i] = <<>>) <=> T = 0)
  BY <1>1, LReady
<1>5. T \in Nat /\ n \in Nat /\ N \in Nat /\ N # 0 /\ T <= 4
  BY <1>1, LPairsIs, LenProperties DEF LittleHolds
<1> HIDE DEF T, p, n, N
<1>6. large!valid_sipo(s) = IF n < 2 THEN n ELSE 2
  BY DEF large!valid_sipo, n
<1>7. large!bypass_mode <=> ~l_big_deq_r /\ T <= 3 /\ p = 0
  BY <1>3, <1>4 DEF large!bypass_mode
<1>8. large!emergency <=> T <= 2 /\ p # 0 /\ ~l_big_deq_r
  BY <1>3, <1>4 DEF large!emergency
<1>9. large!will_spill(s) <=>
        p # N /\ ~large!bypass_mode /\ large!valid_sipo(s) = 2 /\ ~large!emergency
  BY <1>3 DEF large!will_spill
<1>10. large!big_deq(s) <=>
         ~large!will_spill(s) /\ p # 0 /\ (IF l_big_deq_r THEN T = 0 ELSE T <= 2)
  BY <1>3, <1>4 DEF large!big_deq
<1>11. large!Bypassed(s) =
         IF ~large!bypass_mode THEN 0
         ELSE IF large!valid_sipo(s) = 2 /\ T <= 2 THEN 2
         ELSE IF large!valid_sipo(s) >= 1 THEN 1 ELSE 0
  BY <1>4 DEF large!Bypassed
<1>12. large!valid_sipo(s) = 2 <=> n >= 2
  BY <1>5, <1>6
<1>13. large!valid_sipo(s) >= 1 <=> n >= 1
  BY <1>5, <1>6
<1>14. CASE l_big_deq_r
  <2>1. ~large!bypass_mode /\ ~large!emergency
    BY <1>7, <1>8, <1>14
  <2>2. large!Bypassed(s) = 0
    BY <1>11, <2>1
  <2>3. large!will_spill(s) <=> p # N /\ n >= 2
    BY <1>9, <1>12, <2>1
  <2>4. large!big_deq(s) => T = 0
    BY <1>10, <1>14
  <2>5. QED
    BY ONLY <1>14, <2>2, <2>3, <2>4 DEF T, p, n, N
<1>15. CASE ~l_big_deq_r /\ p = 0 /\ T <= 3
  <2>1. large!bypass_mode
    BY <1>7, <1>15
  <2>2. ~large!will_spill(s) /\ ~large!big_deq(s)
    BY <1>9, <1>10, <1>15, <2>1
  <2>3. large!Bypassed(s) = IF n >= 2 /\ T <= 2 THEN 2 ELSE IF n >= 1 THEN 1 ELSE 0
    BY <1>11, <1>12, <1>13, <2>1
  <2>4. ~(T >= 3 /\ (p # 0 \/ T = 4)) /\ p = 0
    BY <1>5, <1>15
  <2>5. QED
    BY ONLY <1>15, <2>2, <2>3, <2>4 DEF T, p, n, N
<1>16. CASE ~l_big_deq_r /\ p # 0 /\ T <= 2
  <2>1. ~large!bypass_mode /\ large!emergency
    BY <1>7, <1>8, <1>16
  <2>2. ~large!will_spill(s) /\ large!Bypassed(s) = 0
    BY <1>9, <1>11, <2>1
  <2>3. QED
    BY <1>5, <1>10, <1>16, <2>2 DEF T, p, n, N
<1>17. CASE ~l_big_deq_r /\ T >= 3 /\ (p # 0 \/ T = 4)
  <2>1. ~large!bypass_mode /\ ~large!emergency
    BY <1>5, <1>7, <1>8, <1>17
  <2>2. large!Bypassed(s) = 0 /\ (large!will_spill(s) <=> p # N /\ n >= 2)
    BY <1>9, <1>11, <1>12, <2>1
  <2>3. ~large!big_deq(s)
    BY <1>5, <1>10, <1>17
  <2>4. ~(T <= 2) /\ ~(p = 0 /\ T <= 3)
    BY <1>5, <1>17
  <2>5. QED
    BY ONLY <1>17, <2>2, <2>3, <2>4 DEF T, p, n, N
<1>18. l_big_deq_r \/ (p = 0 /\ T <= 3) \/ (p # 0 /\ T <= 2) \/ (T >= 3 /\ (p # 0 \/ T = 4))
  BY <1>3, <1>5
<1>19. QED
  BY <1>14, <1>15, <1>16, <1>17, <1>18

(* The word of a cycle that goes to output queue i. *)
WordFor(i) == CHOOSE n \in 1 .. 2 : large!Dest(n) = i

(* What a queue is given is that word, if it has a place in the cycle. *)
LEMMA DeliveredIs ==
  ASSUME NEW s, NEW i
  PROVE  large!Delivered(s, i) =
           IF WordFor(i) <= Len(large!Dealt(s)) /\ large!little_ready(WordFor(i))
             THEN Append(little[i], large!Dealt(s)[WordFor(i)]) ELSE little[i]
BY DEF large!Delivered, WordFor

(* The words W are dealt to the output queues, which have room for them.   *)
LEMMA LittleDealt ==
  ASSUME NEW D \in Seq(Data), LittleHolds(tag_r, D, little, rr222_head_r),
         NEW s, NEW W \in Seq(Data), large!Dealt(s) = W,
         Len(W) <= 2, Len(D) + Len(W) <= 4
  PROVE  LittleHolds(tag_r, Cat(D, W), [i \in 0 .. 1 |-> large!Delivered(s, i)],
                     large!RrNext(s))
<1> DEFINE h == rr222_head_r
           X == [i \in 0 .. 1 |-> large!Delivered(s, i)]
           T == Len(D)
<1>1. /\ h \in 0 .. 1 /\ 1 - h \in 0 .. 1 /\ large!Dest(1) = h /\ large!Dest(2) = 1 - h
      /\ (large!little_ready(1) <=> T <= 3) /\ (large!little_ready(2) <=> T <= 2)
  BY LReady
<1>2. T \in Nat /\ Len(W) \in Nat /\ T + Len(W) <= 4 /\ Len(W) <= 2
  BY LenProperties
<1>3. Len(W) = 0 \/ Len(W) = 1 \/ Len(W) = 2
  BY ONLY <1>2, UpToTwo
<1>4. WordFor(h) = 1
  <2>1. \A n \in 1 .. 2 : large!Dest(n) = h <=> n = 1
    BY <1>1
  <2>2. QED
    BY <2>1 DEF WordFor
<1>5. WordFor(1 - h) = 2
  <2>1. \A n \in 1 .. 2 : large!Dest(n) = 1 - h <=> n = 2
    BY <1>1
  <2>2. QED
    BY <2>1 DEF WordFor
<1>6. large!Delivered(s, h) =
        IF 1 <= Len(W) /\ large!little_ready(1) THEN Append(little[h], W[1]) ELSE little[h]
  BY <1>4, DeliveredIs
<1>7. large!Delivered(s, 1 - h) =
        IF 2 <= Len(W) /\ large!little_ready(2) THEN Append(little[1 - h], W[2])
        ELSE little[1 - h]
  BY <1>5, DeliveredIs
<1>8. large!RrNext(s) =
        IF {k \in 1 .. Len(W) : large!little_ready(k)} \in {{1}, {2}} THEN 1 - h ELSE h
  BY DEF large!RrNext, large!Taken
<1>9. \A i \in 0 .. 1 : i = h \/ i = 1 - h
  BY <1>1
<1>10. \E a, b : little = [i \in 0 .. 1 |-> IF i = tag_r THEN a ELSE b]
  BY DEF LittleHolds, Pair2
<1>11. little = [i \in 0 .. 1 |-> little[i]]
  BY <1>10
<1> HIDE DEF h, X, T
<1>12. CASE Len(W) = 0
  <2>1. W = <<>>
    BY <1>12, EmptySeq
  <2>2. large!Delivered(s, h) = little[h] /\ large!Delivered(s, 1 - h) = little[1 - h]
    BY <1>6, <1>7, <1>12
  <2>3. X = little
    BY <1>9, <1>11, <2>2 DEF X
  <2>4. large!RrNext(s) = h
    <3>1. {k \in 1 .. Len(W) : large!little_ready(k)} = {}
      BY <1>12
    <3>2. QED
      BY <1>8, <3>1
  <2>5. Cat(D, W) = D
    BY <2>1, CatEmpty
  <2>6. QED
    BY <2>3, <2>4, <2>5 DEF X, h
<1>13. CASE Len(W) = 1
  <2>1. W = <<W[1]>> /\ W[1] \in Data
    BY <1>13, OneOrTwo
  <2>2. large!little_ready(1)
    BY <1>1, <1>2, <1>13
  <2>3. large!Delivered(s, h) = Append(little[h], W[1])
        /\ large!Delivered(s, 1 - h) = little[1 - h]
    BY <1>6, <1>7, <1>13, <2>2
  <2>4. X = PutIn(little, h, W[1])
    BY <1>1, <1>9, <2>3 DEF X, PutIn
  <2>5. large!RrNext(s) = 1 - h
    <3>1. {k \in 1 .. Len(W) : large!little_ready(k)} = {1}
      BY <1>13, <2>2
    <3>2. QED
      BY <1>8, <3>1
  <2>6. Cat(D, W) = Append(D, W[1])
    BY <2>1, AppendIsConcat DEF Cat
  <2>7. LittleHolds(tag_r, Append(D, W[1]), PutIn(little, h, W[1]), 1 - h)
    <3>1. Len(D) <= 3
      BY <1>2, <1>13 DEF T
    <3>2. QED
      BY <2>1, <3>1, LittlePut DEF h
  <2>8. QED
    BY <2>4, <2>5, <2>6, <2>7 DEF X
<1>14. CASE Len(W) = 2
  <2>1. W = <<W[1], W[2]>> /\ W[1] \in Data /\ W[2] \in Data
    BY <1>14, OneOrTwo
  <2>2. large!little_ready(1) /\ large!little_ready(2)
    BY <1>1, <1>2, <1>14
  <2>3. large!Delivered(s, h) = Append(little[h], W[1])
        /\ large!Delivered(s, 1 - h) = Append(little[1 - h], W[2])
    BY <1>6, <1>7, <1>14, <2>2
  <2>4. X = PutIn(PutIn(little, h, W[1]), 1 - h, W[2])
    <3> DEFINE u == PutIn(little, h, W[1])
    <3>1. h # 1 - h
      BY <1>1
    <3>2. u[h] = Append(little[h], W[1]) /\ u[1 - h] = little[1 - h]
      BY <1>1, <3>1 DEF PutIn
    <3> HIDE DEF u
    <3>3. X[h] = u[h] /\ X[1 - h] = Append(u[1 - h], W[2])
      BY <1>1, <2>3, <3>2 DEF X
    <3>4. X = [i \in 0 .. 1 |-> X[i]]
      BY DEF X
    <3>5. X = PutIn(u, 1 - h, W[2])
      BY <1>1, <1>9, <3>1, <3>3, <3>4 DEF PutIn
    <3>6. QED
      BY <3>5 DEF u
  <2>5. large!RrNext(s) = h
    <3>1. {k \in 1 .. Len(W) : large!little_ready(k)} = {1, 2}
      BY <1>14, <2>2
    <3>2. ~({1, 2} \in {{1}, {2}})
      <4>1. 1 \in {1, 2} /\ 2 \in {1, 2} /\ 1 \notin {2} /\ 2 \notin {1}
        OBVIOUS
      <4>2. {1, 2} # {1} /\ {1, 2} # {2}
        BY <4>1
      <4>3. QED
        BY <4>2
    <3>3. QED
      BY <1>8, <3>1, <3>2
  <2>6. Cat(D, W) = Append(Append(D, W[1]), W[2])
    <3>1. W = Append(<<W[1]>>, W[2]) /\ <<W[1]>> \in Seq(Data)
      BY <2>1, Tuples
    <3>2. W = Cat(<<W[1]>>, <<W[2]>>) /\ <<W[2]>> \in Seq(Data)
      BY <2>1, <3>1, AppendIsConcat DEF Cat
    <3>3. Cat(D, W) = Cat(Cat(D, <<W[1]>>), <<W[2]>>)
      <4> DEFINE a == <<W[1]>>
                 b == <<W[2]>>
      <4>1. D \in Seq(Data) /\ a \in Seq(Data) /\ b \in Seq(Data) /\ W = Cat(a, b)
        BY <3>1, <3>2
      <4> HIDE DEF a, b
      <4>2. Cat(Cat(D, a), b) = Cat(D, Cat(a, b))
        BY ONLY <4>1, CatAssociative
      <4>3. Cat(D, W) = Cat(Cat(D, a), b)
        BY ONLY <4>1, <4>2
      <4>4. QED
        BY <4>3 DEF a, b
    <3>4. Append(D, W[1]) = Cat(D, <<W[1]>>) /\ Append(D, W[1]) \in Seq(Data)
      BY <2>1, AppendIsConcat, AppendProperties DEF Cat
    <3>5. Append(Append(D, W[1]), W[2]) = Cat(Append(D, W[1]), <<W[2]>>)
      BY <2>1, <3>4, AppendIsConcat DEF Cat
    <3>6. QED
      BY <3>3, <3>4, <3>5
  <2>7. LittleHolds(tag_r, Append(D, W[1]), PutIn(little, h, W[1]), 1 - h)
    <3>1. Len(D) <= 3
      BY <1>2, <1>14 DEF T
    <3>2. QED
      BY <2>1, <3>1, LittlePut DEF h
  <2>8. LittleHolds(tag_r, Append(Append(D, W[1]), W[2]),
                    PutIn(PutIn(little, h, W[1]), 1 - h, W[2]), 1 - (1 - h))
    <3>1. Append(D, W[1]) \in Seq(Data) /\ Len(Append(D, W[1])) = Len(D) + 1
      BY <2>1, AppendProperties
    <3>2. Len(Append(D, W[1])) <= 3
      BY <1>2, <1>14, <3>1 DEF T
    <3>3. QED
      BY <2>1, <2>7, <3>1, <3>2, LittlePut
  <2>9. 1 - (1 - h) = h
    BY <1>1
  <2>10. QED
    BY <2>4, <2>5, <2>6, <2>8, <2>9 DEF X
<1>15. QED
  BY <1>3, <1>12, <1>13, <1>14
(* The RAM at an edge: a pair is written, read, or neither.                *)
LEMMA LBigStep ==
  ASSUME NEW P \in Seq(Pairs(Data)), NEW s \in Seq(Data), LargeTypeOK,
         RamHolds(l_rd_ptr, l_wr_ptr, l_mem, P, LPairs), LRamFlag(P),
         large!BigEdge(FALSE, s),
         large!will_spill(s) => Len(s) >= 2 /\ Len(P) # LPairs,
         large!big_deq(s) => ~large!will_spill(s) /\ P # <<>>
  PROVE  /\ l_mem' \in [0 .. LPairs - 1 -> Pairs(Data \cup {Junk})] /\ l_last_op' \in BOOLEAN
         /\ large!will_spill(s) =>
              /\ SubSeq(s, 1, 2) \in Pairs(Data)
              /\ RamHolds(l_rd_ptr', l_wr_ptr', l_mem', Append(P, SubSeq(s, 1, 2)), LPairs)
              /\ LRamFlag(Append(P, SubSeq(s, 1, 2)))'
         /\ large!big_deq(s) =>
              /\ RamHolds(l_rd_ptr', l_wr_ptr', l_mem', Tail(P), LPairs)
              /\ LRamFlag(Tail(P))'
              /\ l_big_data_lo' = Head(P) /\ Head(P) \in Pairs(Data)
         /\ ~large!will_spill(s) /\ ~large!big_deq(s) =>
              RamHolds(l_rd_ptr', l_wr_ptr', l_mem', P, LPairs) /\ LRamFlag(P)'
<1> DEFINE N == LPairs
           g == SubSeq(s, 1, 2)
           M == Pairs(Data \cup {Junk})
<1>1. N \in Nat \ {0}
  BY LPairsIs
<1>2. /\ Len(P) \in Nat /\ Len(P) <= N /\ l_rd_ptr \in 0 .. N - 1 /\ l_wr_ptr \in 0 .. N - 1
      /\ P # <<>> => l_mem[l_rd_ptr] = Head(P) /\ Head(P) \in Pairs(Data)
  BY <1>1, RamLen
<1>3. l_mem \in [0 .. N - 1 -> M] /\ l_last_op \in BOOLEAN
  BY DEF LargeTypeOK
<1>4. /\ l_mem' = IF large!will_spill(s) THEN MemWith(l_mem, l_wr_ptr, g) ELSE l_mem
      /\ l_wr_ptr' = IF large!will_spill(s) THEN Nxt(l_wr_ptr, N) ELSE l_wr_ptr
      /\ l_rd_ptr' = IF large!big_deq(s) THEN Nxt(l_rd_ptr, N) ELSE l_rd_ptr
      /\ l_last_op' = IF large!will_spill(s) \/ large!big_deq(s)
                        THEN large!big_deq(s) ELSE l_last_op
      /\ large!big_deq(s) => l_big_data_lo' = l_mem[l_rd_ptr]
  BY DEF large!BigEdge, large!big1p!OneRwEdge, large!big1p!Succ, MemWith, Nxt, LPairs
<1>5. large!will_spill(s) => g \in Pairs(Data) /\ g \in M
  <2>1. SUFFICES ASSUME large!will_spill(s)
                 PROVE  g \in Pairs(Data) /\ g \in M
    OBVIOUS
  <2>2. Len(s) \in Nat /\ Len(s) >= 2
    BY <2>1, LenProperties
  <2>3. \A i \in 1 .. 2 : s[i] \in Data
    BY <2>2, ElementOfSeq
  <2>4. g \in Seq(Data) /\ Len(g) = 2
    <3>1. 1 \in Int /\ 2 \in Int /\ (IF 1 <= 2 THEN 2 - 1 + 1 ELSE 0) = 2
      OBVIOUS
    <3>2. QED
      BY <2>3, <3>1, SubSeqProperties
  <2>5. g \in Seq(Data \cup {Junk})
    <3>1. \A i \in 1 .. 2 : s[i] \in Data \cup {Junk}
      BY <2>3
    <3>2. QED
      BY <3>1, SubSeqProperties
  <2>6. QED
    BY <2>4, <2>5 DEF Pairs
<1>6. RamHolds(l_rd_ptr, l_wr_ptr, l_mem, P, N)
  OBVIOUS
<1> HIDE DEF N, g, M
<1>7. CASE large!will_spill(s)
  <2>1. ~large!big_deq(s) /\ Len(P) # N
    BY <1>7 DEF N
  <2>2. /\ l_rd_ptr' = l_rd_ptr /\ l_wr_ptr' = Nxt(l_wr_ptr, N) /\ ~l_last_op'
        /\ l_mem' = MemWith(l_mem, l_wr_ptr, g)
    BY <1>4, <1>7, <2>1
  <2>3. Len(P) < N /\ g \in Pairs(Data) /\ g \in M
    BY <1>1, <1>2, <1>5, <1>7, <2>1
  <2>4. RamHolds(l_rd_ptr, Nxt(l_wr_ptr, N), MemWith(l_mem, l_wr_ptr, g), Append(P, g), N)
    BY <1>1, <1>3, <1>6, <2>3, RamPut
  <2>5. Len(Append(P, g)) # 0
    BY <1>2, <2>3, AppendProperties
  <2>6. l_mem' \in [0 .. N - 1 -> M]
    BY <1>2, <1>3, <2>2, <2>3 DEF MemWith
  <2>7. l_last_op' \in BOOLEAN
    <3>1. l_last_op' = large!big_deq(s)
      BY <1>4, <1>7
    <3>2. large!big_deq(s) \in BOOLEAN
      BY DEF large!big_deq
    <3>3. QED
      BY <3>1, <3>2
  <2>8. LRamFlag(Append(P, g))'
    BY <2>2, <2>5 DEF LRamFlag
  <2>9. RamHolds(l_rd_ptr', l_wr_ptr', l_mem', Append(P, g), N)
    BY <2>2, <2>4
  <2>10. QED
    BY <1>7, <2>1, <2>3, <2>6, <2>7, <2>8, <2>9 DEF N, g, M
<1>8. CASE ~large!will_spill(s) /\ large!big_deq(s)
  <2>1. P # <<>>
    BY <1>8
  <2>2. /\ l_rd_ptr' = Nxt(l_rd_ptr, N) /\ l_wr_ptr' = l_wr_ptr /\ l_last_op'
        /\ l_mem' = l_mem /\ l_big_data_lo' = l_mem[l_rd_ptr]
    BY <1>4, <1>8
  <2>3. l_big_data_lo' = Head(P) /\ Head(P) \in Pairs(Data)
    BY <1>2, <2>1, <2>2
  <2>4. RamHolds(Nxt(l_rd_ptr, N), l_wr_ptr, l_mem, Tail(P), N)
    BY <1>1, <1>6, <2>1, RamTake
  <2>5. RamHolds(l_rd_ptr', l_wr_ptr', l_mem', Tail(P), N)
    BY <2>2, <2>4
  <2>6. LRamFlag(Tail(P))'
    <3> DEFINE T == Tail(P)
    <3>1. T \in Seq(Pairs(Data)) /\ Len(T) = Len(P) - 1
      BY <2>1, HeadTailProperties
    <3>2. RamHolds(l_rd_ptr', l_wr_ptr', l_mem', T, N)
      BY <2>5
    <3> HIDE DEF T
    <3>3. l_rd_ptr' = l_wr_ptr' <=> Len(T) = 0 \/ Len(T) = N
      <4>1. N \in Nat \ {0} /\ T \in Seq(Pairs(Data))
            /\ RamHolds(l_rd_ptr', l_wr_ptr', l_mem', T, N)
        BY <1>1, <3>1, <3>2
      <4>2. QED
        BY ONLY <4>1, RamLen
    <3>4. N \in Nat /\ Len(T) # N
      BY <1>1, <1>2, <3>1
    <3>5. l_rd_ptr' = l_wr_ptr' => (l_last_op' <=> Len(T) = 0)
      BY <2>2, <3>3, <3>4
    <3>6. QED
      BY <3>5 DEF LRamFlag, T
  <2>7. l_last_op' \in BOOLEAN
    <3>1. l_last_op' = large!big_deq(s)
      BY <1>4, <1>8
    <3>2. large!big_deq(s) \in BOOLEAN
      BY DEF large!big_deq
    <3>3. QED
      BY <3>1, <3>2
  <2>8. QED
    BY <1>3, <1>8, <2>2, <2>3, <2>5, <2>6, <2>7 DEF N, M
<1>9. CASE ~large!will_spill(s) /\ ~large!big_deq(s)
  <2>1. /\ l_rd_ptr' = l_rd_ptr /\ l_wr_ptr' = l_wr_ptr /\ l_last_op' = l_last_op
        /\ l_mem' = l_mem
    BY <1>4, <1>9
  <2>2. RamHolds(l_rd_ptr', l_wr_ptr', l_mem', P, N)
    BY <1>6, <2>1
  <2>3. LRamFlag(P)'
    BY <2>1 DEF LRamFlag
  <2>4. QED
    BY <1>3, <1>9, <2>1, <2>2, <2>3 DEF N, M
<1>10. QED
  BY <1>7, <1>8, <1>9

(* The same as a range. *)
LEMMA InUpToThree == ASSUME NEW n \in Nat, n <= 3 PROVE n \in 0 .. 3
OBVIOUS

(* A word that arrives is the last of all. *)
LEMMA LastOfAll ==
  ASSUME NEW S, NEW D \in Seq(S), NEW F \in Seq(S), NEW P \in Seq(Pairs(S)), NEW s \in Seq(S),
         NEW d \in S
  PROVE  Append(InAll(D, F, P, s), d) = InAll(D, F, P, Append(s, d))
<1> DEFINE c == Cat(Cat(D, F), Flat(P))
           o == <<d>>
<1>1. Flat(P) \in Seq(S) /\ Cat(D, F) \in Seq(S)
  BY FlatSeq, CatSeq
<1>2. c \in Seq(S) /\ o \in Seq(S)
  BY <1>1, CatSeq
<1>3. InAll(D, F, P, s) = Cat(c, s) /\ InAll(D, F, P, Append(s, d)) = Cat(c, Append(s, d))
  BY DEF InAll
<1>4. Append(s, d) = Cat(s, o)
  BY AppendIsConcat DEF Cat
<1> HIDE DEF c
<1>5. Cat(c, s) \in Seq(S)
  BY <1>2, CatSeq
<1>6. Append(Cat(c, s), d) = Cat(Cat(c, s), o)
  BY <1>5, AppendIsConcat DEF Cat
<1> HIDE DEF o
<1>7. Cat(Cat(c, s), o) = Cat(c, Cat(s, o))
  BY <1>2, CatAssociative
<1>8. QED
  BY <1>3, <1>4, <1>6, <1>7

(* The sipo in a cycle, with the word that arrives. *)
LEMMA LArrives ==
  ASSUME NEW D \in Seq(Data), NEW F \in Seq(Data), NEW P \in Seq(Pairs(Data)), LargeTypeOK,
         NEW v \in BOOLEAN, NEW d \in Data, l_q = InAll(D, F, P, sipo)
  PROVE  /\ large!Arrived(v, d) \in Seq(Data)
         /\ Len(large!Arrived(v, d)) \in 0 .. 3 /\ Len(sipo) \in 0 .. 3
         /\ OneMore(Len(sipo), Len(large!Arrived(v, d)))
         /\ (IF v /\ large!ready_and_o THEN Append(l_q, d) ELSE l_q)
              = InAll(D, F, P, large!Arrived(v, d))
<1> DEFINE s == large!Arrived(v, d)
           a == IF v /\ large!ready_and_o THEN Append(l_q, d) ELSE l_q
<1>1. sipo \in Seq(Data) /\ Len(sipo) \in Nat /\ Len(sipo) <= 3
  BY LenProperties DEF LargeTypeOK
<1>2. Len(sipo) \in 0 .. 3
  BY ONLY <1>1, InUpToThree
<1>3. CASE v /\ large!ready_and_o
  <2>1. s = Append(sipo, d) /\ a = Append(l_q, d)
    BY <1>3 DEF large!Arrived
  <2>2. Append(sipo, d) \in Seq(Data) /\ Len(Append(sipo, d)) = Len(sipo) + 1
    BY <1>1, AppendProperties
  <2>3. Len(sipo) < 3
    BY <1>3 DEF large!ready_and_o
  <2>4. Append(InAll(D, F, P, sipo), d) = InAll(D, F, P, Append(sipo, d))
    <3>1. /\ D \in Seq(Data) /\ F \in Seq(Data) /\ P \in Seq(Pairs(Data))
          /\ sipo \in Seq(Data) /\ d \in Data
      BY <1>1
    <3>2. QED
      BY ONLY <3>1, LastOfAll
  <2> HIDE DEF s, a
  <2>5. a = InAll(D, F, P, s)
    BY <2>1, <2>4
  <2>6. Len(s) = Len(sipo) + 1
    BY <2>1, <2>2
  <2>7. Len(s) \in 0 .. 3 /\ OneMore(Len(sipo), Len(s))
    BY ONLY <1>1, <2>3, <2>6 DEF OneMore
  <2>8. s \in Seq(Data)
    BY <2>1, <2>2
  <2>9. QED
    BY ONLY <1>2, <2>5, <2>7, <2>8 DEF s, a
<1>4. CASE ~(v /\ large!ready_and_o)
  <2>1. s = sipo /\ a = l_q
    BY <1>4 DEF large!Arrived
  <2> HIDE DEF s, a
  <2>2. Len(s) \in 0 .. 3 /\ OneMore(Len(sipo), Len(s)) /\ s \in Seq(Data)
    BY <1>1, <1>2, <2>1 DEF OneMore
  <2>3. a = InAll(D, F, P, s)
    BY <2>1
  <2>4. QED
    BY ONLY <1>2, <2>2, <2>3 DEF s, a
<1>5. QED
  BY <1>3, <1>4
(* The first words of a sequence and the rest of it. *)
LEMMA SplitAt ==
  ASSUME NEW S, NEW s \in Seq(S), NEW c \in Nat, c <= Len(s)
  PROVE  /\ SubSeq(s, 1, c) \in Seq(S) /\ Len(SubSeq(s, 1, c)) = c
         /\ SubSeq(s, c + 1, Len(s)) \in Seq(S)
         /\ Len(SubSeq(s, c + 1, Len(s))) = Len(s) - c
         /\ s = Cat(SubSeq(s, 1, c), SubSeq(s, c + 1, Len(s)))
         /\ c = 0 => SubSeq(s, 1, c) = <<>> /\ SubSeq(s, c + 1, Len(s)) = s
<1> DEFINE n == Len(s)
           u == SubSeq(s, 1, c)
           z == SubSeq(s, c + 1, n)
<1>1. n \in Nat /\ \A i \in 1 .. n : s[i] \in S
  BY LenProperties, ElementOfSeq
<1>2. u \in Seq(S) /\ Len(u) = c
  <2>1. 1 \in Int /\ c \in Int /\ \A i \in 1 .. c : s[i] \in S
    BY <1>1
  <2>2. u \in Seq(S) /\ Len(u) = IF 1 <= c THEN c - 1 + 1 ELSE 0
    BY <2>1, SubSeqProperties
  <2>3. (IF 1 <= c THEN c - 1 + 1 ELSE 0) = c
    OBVIOUS
  <2>4. QED
    BY <2>2, <2>3
<1>3. z \in Seq(S) /\ Len(z) = n - c
  <2>1. n \in Nat /\ c \in Nat /\ c <= n
    BY <1>1
  <2> HIDE DEF n
  <2>2. c + 1 \in Int /\ n \in Int /\ \A i \in c + 1 .. n : s[i] \in S
    BY <1>1, <2>1 DEF n
  <2>3. z \in Seq(S) /\ Len(z) = IF c + 1 <= n THEN n - (c + 1) + 1 ELSE 0
    BY <2>2, SubSeqProperties
  <2>4. (IF c + 1 <= n THEN n - (c + 1) + 1 ELSE 0) = n - c
    BY <2>1
  <2>5. QED
    BY <2>3, <2>4
<1>4. Cat(u, z) = s
  <2>1. 1 \in 1 .. Len(s) + 1 /\ c \in 1 - 1 .. Len(s) /\ Len(s) \in c .. Len(s)
    BY <1>1
  <2>2. SubSeq(s, 1, c) \o SubSeq(s, c + 1, Len(s)) = SubSeq(s, 1, Len(s))
    BY <2>1, ConcatAdjacentSubSeq
  <2>3. SubSeq(s, 1, Len(s)) = s
    BY SubSeqFull
  <2>4. QED
    BY <2>2, <2>3 DEF Cat
<1>5. ASSUME c = 0 PROVE u = <<>> /\ z = s
  <2>1. u = <<>>
    BY <1>2, <1>5, EmptySeq
  <2>2. z = SubSeq(s, 1, Len(s))
    BY <1>5
  <2>3. QED
    BY <2>1, <2>2, SubSeqFull
<1>6. QED
  BY <1>2, <1>3, <1>4, <1>5

(* What a cycle does to the words, r of which leave the output queues.     *)
LNext(D, P, s, r, W, G, Q, z) ==
  /\ LargeMove(Data, D, LFetched, P, s, W, G, Q, z)
  /\ W = large!Dealt(s) /\ Len(W) <= 2 /\ Len(D) + Len(W) <= 4
  /\ RamHolds(l_rd_ptr', l_wr_ptr', l_mem', Q, LPairs) /\ LRamFlag(Q)'
  /\ l_big_deq_r' => l_big_data_lo' \in Pairs(Data)
  /\ G = LFetched'
  /\ sipo' = z /\ Len(z) <= 3
  /\ l_big_deq_r' => FlowBusy(Len(D) + Len(W) - r, Len(Q), Len(z), LPairs)
  /\ ~l_big_deq_r' => FlowIdle(Len(D) + Len(W) - r, Len(Q), Len(z), LPairs)

(* Each cycle does one of the things that LargeMove allows. *)
LEMMA LStep ==
  ASSUME NEW D \in Seq(Data), NEW P \in Seq(Pairs(Data)), LargeParts(D, P), LargeTypeOK,
         NEW s \in Seq(Data), Len(s) \in 0 .. 3, Len(sipo) \in 0 .. 3,
         OneMore(Len(sipo), Len(s)), NEW r \in 0 .. 1,
         sipo' = SubSeq(s, large!yumi_cnt_sipo(s) + 1, Len(s)),
         large!BigEdge(FALSE, s), l_big_deq_r' = large!big_deq(s)
  PROVE  /\ l_mem' \in [0 .. LPairs - 1 -> Pairs(Data \cup {Junk})] /\ l_last_op' \in BOOLEAN
         /\ \E W, G, Q, z : LNext(D, P, s, r, W, G, Q, z)
<1> DEFINE T == Len(D)
           p == Len(P)
           n == Len(sipo)
           m == Len(s)
           N == LPairs
           c == large!yumi_cnt_sipo(s)
           g == SubSeq(s, 1, 2)
<1>1. LargeHolds(D, P) /\ LargeFlow(D, P)
  BY DEF LargeParts
<1>2. /\ LittleHolds(tag_r, D, little, rr222_head_r)
      /\ RamHolds(l_rd_ptr, l_wr_ptr, l_mem, P, LPairs) /\ LRamFlag(P)
      /\ l_big_deq_r => l_big_data_lo \in Pairs(Data)
  BY <1>1 DEF LargeHolds
<1>3. l_last_op \in BOOLEAN
  BY DEF LargeTypeOK
<1>4. /\ p \in Nat /\ p <= N
      /\ (large!big1p!empty_o <=> p = 0) /\ (large!big1p!full_o <=> p = N)
  BY <1>2, <1>3, LBigFlags
<1>5. T \in Nat /\ T <= 4 /\ n \in 0 .. 3 /\ m \in 0 .. 3 /\ N \in Nat /\ N # 0 /\ OneMore(n, m)
  BY <1>2, LPairsIs, LenProperties DEF LittleHolds
<1>6. P = <<>> <=> p = 0
  BY EmptySeq
<1>7. large!will_spill(s) => m >= 2 /\ p # N
  <2>1. large!will_spill(s) => large!valid_sipo(s) = 2 /\ ~large!big1p!full_o
    BY DEF large!will_spill
  <2>2. large!valid_sipo(s) = IF m < 2 THEN m ELSE 2
    BY DEF large!valid_sipo
  <2> HIDE DEF m, p, N
  <2>3. large!valid_sipo(s) = 2 => m >= 2
    BY <1>5, <2>2
  <2>4. QED
    BY <1>4, <2>1, <2>3
<1>8. large!big_deq(s) => ~large!will_spill(s) /\ P # <<>>
  BY <1>4, <1>6 DEF large!big_deq
<1>9. /\ l_mem' \in [0 .. LPairs - 1 -> Pairs(Data \cup {Junk})] /\ l_last_op' \in BOOLEAN
      /\ large!will_spill(s) =>
           /\ g \in Pairs(Data)
           /\ RamHolds(l_rd_ptr', l_wr_ptr', l_mem', Append(P, g), N)
           /\ LRamFlag(Append(P, g))'
      /\ large!big_deq(s) =>
           /\ RamHolds(l_rd_ptr', l_wr_ptr', l_mem', Tail(P), N)
           /\ LRamFlag(Tail(P))'
           /\ l_big_data_lo' = Head(P) /\ Head(P) \in Pairs(Data)
      /\ ~large!will_spill(s) /\ ~large!big_deq(s) =>
           RamHolds(l_rd_ptr', l_wr_ptr', l_mem', P, N) /\ LRamFlag(P)'
  BY <1>2, <1>7, <1>8, LBigStep
<1>10. /\ l_big_deq_r => FlowBusy(T, p, n, N)
       /\ ~l_big_deq_r => FlowIdle(T, p, n, N)
  BY <1>1 DEF LargeFlow
<1>11. /\ l_big_deq_r => LFetched \in Seq(Data) /\ Len(LFetched) = 2
       /\ ~l_big_deq_r => LFetched = <<>>
  BY <1>2 DEF LFetched, Pairs
<1>12. /\ l_big_deq_r => large!Dealt(s) = LFetched
       /\ ~l_big_deq_r => large!Dealt(s) = SubSeq(s, 1, large!Bypassed(s))
  BY DEF large!Dealt, LFetched
<1>13. /\ large!big_deq(s) => LFetched' = l_big_data_lo'
       /\ ~large!big_deq(s) => LFetched' = <<>>
  BY DEF LFetched
<1>14. c = IF large!will_spill(s) THEN 2 ELSE large!Bypassed(s)
  BY DEF large!yumi_cnt_sipo
<1>15. \A k \in Nat : k <= m =>
         /\ SubSeq(s, 1, k) \in Seq(Data) /\ Len(SubSeq(s, 1, k)) = k
         /\ SubSeq(s, k + 1, m) \in Seq(Data) /\ Len(SubSeq(s, k + 1, m)) = m - k
         /\ s = Cat(SubSeq(s, 1, k), SubSeq(s, k + 1, m))
         /\ k = 0 => SubSeq(s, 1, k) = <<>> /\ SubSeq(s, k + 1, m) = s
  BY SplitAt
<1>16. /\ sipo' = SubSeq(s, c + 1, m)
       /\ l_big_deq_r' = large!big_deq(s)
       /\ <<>> \in Seq(Data) /\ Len(<<>>) = 0
  BY EmptySeq
<1>17. \A h \in Pairs(Data) : Append(P, h) \in Seq(Pairs(Data)) /\ Len(Append(P, h)) = p + 1
  BY AppendProperties
<1>18. /\ l_big_deq_r =>
            /\ large!Bypassed(s) = 0
            /\ large!will_spill(s) <=> p # N /\ m >= 2
            /\ large!big_deq(s) => T = 0
       /\ ~l_big_deq_r /\ p = 0 /\ T <= 3 =>
            /\ ~large!will_spill(s) /\ ~large!big_deq(s)
            /\ large!Bypassed(s) = IF m >= 2 /\ T <= 2 THEN 2 ELSE IF m >= 1 THEN 1 ELSE 0
       /\ ~l_big_deq_r /\ p # 0 /\ T <= 2 =>
            ~large!will_spill(s) /\ large!big_deq(s) /\ large!Bypassed(s) = 0
       /\ ~l_big_deq_r /\ T >= 3 /\ (p # 0 \/ T = 4) =>
            /\ large!Bypassed(s) = 0 /\ ~large!big_deq(s)
            /\ large!will_spill(s) <=> p # N /\ m >= 2
  BY <1>1, LControl
<1>19. /\ D \in Seq(Data) /\ P \in Seq(Pairs(Data)) /\ s \in Seq(Data) /\ LFetched \in Seq(Data)
  BY <1>11, <1>16
<1> HIDE DEF T, p, n, m, N, c, g
<1>20. CASE l_big_deq_r /\ large!will_spill(s)
  <2> DEFINE z == SubSeq(s, 3, m)
  <2>1. ~large!big_deq(s) /\ c = 2 /\ m >= 2 /\ FlowBusy(T, p, n, N)
    BY <1>7, <1>8, <1>10, <1>14, <1>20
  <2>2. /\ g \in Seq(Data) /\ g \in Pairs(Data) /\ z \in Seq(Data) /\ Len(z) = m - 2
        /\ s = Cat(g, z)
    <3>1. 2 \in Nat /\ 2 <= m /\ 2 + 1 = 3
      BY <1>5, <2>1
    <3>2. /\ SubSeq(s, 1, 2) \in Seq(Data) /\ SubSeq(s, 2 + 1, m) \in Seq(Data)
          /\ Len(SubSeq(s, 2 + 1, m)) = m - 2
          /\ s = Cat(SubSeq(s, 1, 2), SubSeq(s, 2 + 1, m))
      BY <1>15, <3>1
    <3>3. QED
      BY <1>9, <1>20, <3>1, <3>2 DEF g
  <2>3. T + 2 <= 4
    BY <1>5, <2>1 DEF FlowBusy
  <2>4. FlowIdle(T + 2 - r, p + 1, m - 2, N)
    BY <1>4, <1>5, <2>1, FlowArriveSpill
  <2> HIDE DEF z
  <2>5. LargeMove(Data, D, LFetched, P, s, LFetched, <<>>, Append(P, g), z)
    BY <1>19, <2>2 DEF LargeMove
  <2>6. sipo' = z /\ Len(z) <= 3
    <3>1. c + 1 = 3
      BY <2>1
    <3>2. m - 2 <= 3
      BY <1>5
    <3>3. QED
      BY <1>16, <2>2, <3>1, <3>2 DEF z
  <2>7. LFetched = large!Dealt(s) /\ Len(LFetched) = 2
    BY <1>11, <1>12, <1>20
  <2>8. Len(Append(P, g)) = p + 1
    BY <1>17, <2>2
  <2>9. ~l_big_deq_r' /\ LFetched' = <<>>
    BY <1>13, <1>16, <2>1
  <2>10. RamHolds(l_rd_ptr', l_wr_ptr', l_mem', Append(P, g), N) /\ LRamFlag(Append(P, g))'
    BY <1>9, <1>20
  <2>11. /\ FlowIdle(T + Len(LFetched) - r, Len(Append(P, g)), Len(z), N)
         /\ T + Len(LFetched) <= 4 /\ Len(LFetched) <= 2
    BY <2>2, <2>3, <2>4, <2>7, <2>8
  <2>12. LNext(D, P, s, r, LFetched, <<>>, Append(P, g), z)
    BY <2>5, <2>6, <2>7, <2>9, <2>10, <2>11 DEF LNext, T, N
  <2>13. QED
    BY <1>9, <2>12 DEF N
<1>21. CASE l_big_deq_r /\ ~large!will_spill(s)
  <2>1. FlowBusy(T, p, n, N) /\ large!Bypassed(s) = 0
    BY <1>10, <1>18, <1>21
  <2>2. ~large!big_deq(s)
    BY <1>5, <1>18, <1>21, <2>1 DEF FlowBusy
  <2>3. m <= 1
    BY <1>4, <1>5, <1>18, <1>21, <2>1 DEF FlowBusy
  <2>4. T + 2 <= 4
    BY <1>5, <2>1 DEF FlowBusy
  <2>5. FlowIdle(T + 2 - r, p, m, N)
    BY <1>4, <1>5, <2>1, <2>3, FlowArrive
  <2>6. LargeMove(Data, D, LFetched, P, s, LFetched, <<>>, P, s)
    BY <1>19 DEF LargeMove
  <2>7. sipo' = s /\ Len(s) <= 3
    <3>1. c = 0
      BY <1>14, <1>21, <2>1
    <3>2. SubSeq(s, 0 + 1, m) = s
      BY <1>5, <1>15
    <3>3. m <= 3
      BY <1>5
    <3>4. QED
      BY <1>16, <3>1, <3>2, <3>3 DEF m
  <2>8. LFetched = large!Dealt(s) /\ Len(LFetched) = 2
    BY <1>11, <1>12, <1>21
  <2>9. ~l_big_deq_r' /\ LFetched' = <<>>
    BY <1>13, <1>16, <2>2
  <2>10. RamHolds(l_rd_ptr', l_wr_ptr', l_mem', P, N) /\ LRamFlag(P)'
    BY <1>9, <1>21, <2>2
  <2>11. LNext(D, P, s, r, LFetched, <<>>, P, s)
    BY <2>4, <2>5, <2>6, <2>7, <2>8, <2>9, <2>10 DEF LNext, T, N, p, m
  <2>12. QED
    BY <1>9, <2>11 DEF N
<1>22. CASE ~l_big_deq_r /\ p = 0 /\ T <= 3
  <2> DEFINE b == large!Bypassed(s)
             W == SubSeq(s, 1, b)
             z == SubSeq(s, b + 1, m)
  <2>1. ~large!will_spill(s) /\ ~large!big_deq(s) /\ FlowIdle(T, p, n, N)
    BY <1>10, <1>18, <1>22
  <2>2. b = IF m >= 2 /\ T <= 2 THEN 2 ELSE IF m >= 1 THEN 1 ELSE 0
    BY <1>18, <1>22
  <2> HIDE DEF b
  <2>3. b \in 0 .. 2 /\ b <= m /\ (m >= 1 => b >= 1) /\ (T <= 2 /\ m >= 2 => b = 2) /\ T + b <= 4
    BY <1>5, <1>22, <2>2
  <2>4. FlowIdle(T + b - r, 0, m - b, N)
    BY <1>5, <1>22, <2>1, <2>3, FlowBypass
  <2>5. /\ W \in Seq(Data) /\ Len(W) = b /\ z \in Seq(Data) /\ Len(z) = m - b /\ s = Cat(W, z)
    BY <1>15, <2>3
  <2>6. P = <<>> /\ LFetched = <<>>
    BY <1>6, <1>11, <1>22
  <2>7. large!Dealt(s) = W
    BY <1>12, <1>22 DEF b
  <2>8. sipo' = z
    BY <1>14, <1>16, <2>1 DEF b
  <2> HIDE DEF W, z
  <2>9. LargeMove(Data, D, LFetched, P, s, W, <<>>, P, z)
    BY <1>19, <2>5, <2>6 DEF LargeMove
  <2>10. Len(W) <= 2 /\ Len(z) <= 3 /\ T + Len(W) <= 4
    BY <1>5, <2>3, <2>5
  <2>11. ~l_big_deq_r' /\ LFetched' = <<>>
    BY <1>13, <1>16, <2>1
  <2>12. RamHolds(l_rd_ptr', l_wr_ptr', l_mem', P, N) /\ LRamFlag(P)'
    BY <1>9, <2>1
  <2>13. FlowIdle(T + Len(W) - r, Len(P), Len(z), N)
    BY <1>22, <2>4, <2>5 DEF p
  <2>14. LNext(D, P, s, r, W, <<>>, P, z)
    BY <2>7, <2>8, <2>9, <2>10, <2>11, <2>12, <2>13 DEF LNext, T, N
  <2>15. QED
    BY <1>9, <2>14 DEF N
<1>23. ASSUME ~l_big_deq_r, large!Bypassed(s) = 0
       PROVE  /\ LFetched = <<>> /\ large!Dealt(s) = <<>>
              /\ ~large!will_spill(s) => sipo' = s
              /\ m <= 3 /\ Len(s) <= 3
  <2>1. SubSeq(s, 1, 0) = <<>> /\ SubSeq(s, 0 + 1, m) = s
    BY <1>5, <1>15
  <2>2. ~large!will_spill(s) => c = 0
    BY <1>14, <1>23
  <2>3. m <= 3
    BY <1>5
  <2>4. QED
    BY <1>11, <1>12, <1>16, <1>23, <2>1, <2>2, <2>3 DEF m
<1>24. CASE ~l_big_deq_r /\ p # 0 /\ T <= 2
  <2>1. ~large!will_spill(s) /\ large!big_deq(s) /\ FlowIdle(T, p, n, N) /\ large!Bypassed(s) = 0
    BY <1>10, <1>18, <1>24
  <2>2. FlowBusy(T - r, p - 1, m, N)
    BY <1>4, <1>5, <1>24, <2>1, FlowFetch
  <2>3. LFetched = <<>> /\ large!Dealt(s) = <<>> /\ sipo' = s /\ Len(s) <= 3
    BY <1>23, <1>24, <2>1
  <2>4. P # <<>>
    BY <1>6, <1>24
  <2>5. Tail(P) \in Seq(Pairs(Data)) /\ Len(Tail(P)) = p - 1
    BY <2>4, HeadTailProperties DEF p
  <2>6. LargeMove(Data, D, LFetched, P, s, <<>>, Head(P), Tail(P), s)
    BY <1>16, <1>19, <2>3, <2>4 DEF LargeMove
  <2>7. l_big_deq_r' /\ LFetched' = Head(P) /\ l_big_data_lo' \in Pairs(Data)
    BY <1>9, <1>13, <1>16, <2>1
  <2>8. RamHolds(l_rd_ptr', l_wr_ptr', l_mem', Tail(P), N) /\ LRamFlag(Tail(P))'
    BY <1>9, <2>1
  <2>9. T + Len(<<>>) - r = T - r /\ T + Len(<<>>) <= 4 /\ Len(<<>>) <= 2
    BY <1>5, <1>16
  <2>10. FlowBusy(T + Len(<<>>) - r, Len(Tail(P)), Len(s), N)
    BY <2>2, <2>5, <2>9 DEF m
  <2>11. LNext(D, P, s, r, <<>>, Head(P), Tail(P), s)
    BY <2>3, <2>6, <2>7, <2>8, <2>9, <2>10 DEF LNext, T, N
  <2>12. QED
    BY <1>9, <2>11 DEF N
<1>25. CASE ~l_big_deq_r /\ T >= 3 /\ (p # 0 \/ T = 4)
  <2>1. /\ large!Bypassed(s) = 0 /\ ~large!big_deq(s) /\ FlowIdle(T, p, n, N)
        /\ large!will_spill(s) <=> p # N /\ m >= 2
    BY <1>10, <1>18, <1>25
  <2>2. LFetched = <<>> /\ large!Dealt(s) = <<>> /\ m <= 3
    BY <1>23, <1>25, <2>1
  <2>3. ~l_big_deq_r' /\ LFetched' = <<>>
    BY <1>13, <1>16, <2>1
  <2>4. T + Len(<<>>) - r = T - r /\ T + Len(<<>>) <= 4 /\ Len(<<>>) <= 2
    BY <1>5, <1>16
  <2>5. CASE large!will_spill(s)
    <3> DEFINE z == SubSeq(s, 3, m)
    <3>1. c = 2 /\ m >= 2
      BY <1>14, <2>1, <2>5
    <3>2. /\ g \in Seq(Data) /\ g \in Pairs(Data) /\ z \in Seq(Data) /\ Len(z) = m - 2
          /\ s = Cat(g, z)
      <4>1. 2 \in Nat /\ 2 <= m /\ 2 + 1 = 3
        BY <1>5, <3>1
      <4>2. /\ SubSeq(s, 1, 2) \in Seq(Data) /\ SubSeq(s, 2 + 1, m) \in Seq(Data)
            /\ Len(SubSeq(s, 2 + 1, m)) = m - 2
            /\ s = Cat(SubSeq(s, 1, 2), SubSeq(s, 2 + 1, m))
        BY <1>15, <4>1
      <4>3. QED
        BY <1>9, <2>5, <4>1, <4>2 DEF g
    <3>3. FlowIdle(T - r, p + 1, m - 2, N)
      BY <1>4, <1>5, <1>25, <2>1, <3>1, FlowSpill
    <3> HIDE DEF z
    <3>4. LargeMove(Data, D, LFetched, P, s, <<>>, <<>>, Append(P, g), z)
      BY <1>16, <1>19, <2>2, <3>2 DEF LargeMove
    <3>5. sipo' = z /\ Len(z) <= 3
      <4>1. c + 1 = 3
        BY <3>1
      <4>2. m - 2 <= 3
        BY <1>5
      <4>3. QED
        BY <1>16, <3>2, <4>1, <4>2 DEF z
    <3>6. Len(Append(P, g)) = p + 1
      BY <1>17, <3>2
    <3>7. RamHolds(l_rd_ptr', l_wr_ptr', l_mem', Append(P, g), N) /\ LRamFlag(Append(P, g))'
      BY <1>9, <2>5
    <3>8. FlowIdle(T + Len(<<>>) - r, Len(Append(P, g)), Len(z), N)
      BY <2>4, <3>2, <3>3, <3>6
    <3>9. LNext(D, P, s, r, <<>>, <<>>, Append(P, g), z)
      BY <2>2, <2>3, <2>4, <3>4, <3>5, <3>7, <3>8 DEF LNext, T, N
    <3>10. QED
      BY <1>9, <3>9 DEF N
  <2>6. CASE ~large!will_spill(s)
    <3>1. p = N \/ m <= 1
      BY <1>5, <2>1, <2>6
    <3>2. FlowIdle(T - r, p, m, N)
      BY <1>4, <1>5, <1>25, <2>1, <3>1, FlowWait
    <3>3. sipo' = s /\ Len(s) <= 3
      BY <1>23, <1>25, <2>1, <2>6
    <3>4. LargeMove(Data, D, LFetched, P, s, <<>>, <<>>, P, s)
      BY <1>16, <1>19, <2>2 DEF LargeMove
    <3>5. RamHolds(l_rd_ptr', l_wr_ptr', l_mem', P, N) /\ LRamFlag(P)'
      BY <1>9, <2>1, <2>6
    <3>6. FlowIdle(T + Len(<<>>) - r, Len(P), Len(s), N)
      BY <2>4, <3>2 DEF p, m
    <3>7. LNext(D, P, s, r, <<>>, <<>>, P, s)
      BY <2>2, <2>3, <2>4, <3>3, <3>4, <3>5, <3>6 DEF LNext, T, N
    <3>8. QED
      BY <1>9, <3>7 DEF N
  <2>7. QED
    BY <2>5, <2>6
<1>26. l_big_deq_r \/ (p = 0 /\ T <= 3) \/ (p # 0 /\ T <= 2) \/ (T >= 3 /\ (p # 0 \/ T = 4))
  BY <1>4, <1>5
<1>27. QED
  BY <1>20, <1>21, <1>22, <1>24, <1>25, <1>26
(* A cycle in operation keeps the words and their order. *)
LEMMA LargeClk == LargeInv /\ large!Clk => LargeInv'
<1> SUFFICES ASSUME LargeInv, large!Clk
             PROVE  LargeInv'
  OBVIOUS
<1>1. PICK v \in BOOLEAN, y \in BOOLEAN, d \in Data :
        /\ reset_edges = MinReset
        /\ y => large!v_o
        /\ sipo' = SubSeq(large!Arrived(v, d), large!yumi_cnt_sipo(large!Arrived(v, d)) + 1,
                          Len(large!Arrived(v, d)))
        /\ large!BigEdge(FALSE, large!Arrived(v, d))
        /\ l_big_deq_r' = large!big_deq(large!Arrived(v, d))
        /\ rr222_head_r' = large!RrNext(large!Arrived(v, d))
        /\ little' = [i \in 0 .. 1 |-> IF y /\ i = tag_r
                                         THEN Tail(large!Delivered(large!Arrived(v, d), i))
                                         ELSE large!Delivered(large!Arrived(v, d), i)]
        /\ tag_r' = IF y THEN 1 - tag_r ELSE tag_r
        /\ l_q' = LET a == IF v /\ large!ready_and_o THEN Append(l_q, d) ELSE l_q
                  IN  IF y /\ a # <<>> THEN Tail(a) ELSE a
        /\ reset_edges' = reset_edges
  BY DEF large!Clk
<1>2. LargeTypeOK
  BY DEF LargeInv
<1>3. PICK D \in Seq(Data), P \in Seq(Pairs(Data)) : LargeParts(D, P)
  BY <1>1 DEF LargeInv
<1>4. /\ LittleHolds(tag_r, D, little, rr222_head_r)
      /\ l_q = InAll(D, LFetched, P, sipo)
      /\ l_big_deq_r => l_big_data_lo \in Pairs(Data)
  BY <1>3 DEF LargeParts, LargeHolds
<1>5. PICK F \in Seq(Data) : F = LFetched
  <2>1. LFetched \in Seq(Data)
    BY <1>4, EmptySeq DEF LFetched, Pairs
  <2>2. QED
    BY <2>1
<1>6. PICK s : s = large!Arrived(v, d)
  OBVIOUS
<1>7. PICK a : a = IF v /\ large!ready_and_o THEN Append(l_q, d) ELSE l_q
  OBVIOUS
<1>8. /\ s \in Seq(Data) /\ Len(s) \in 0 .. 3 /\ Len(sipo) \in 0 .. 3
      /\ OneMore(Len(sipo), Len(s))
      /\ a = InAll(D, F, P, s)
  <2>1. l_q = InAll(D, F, P, sipo)
    BY <1>4, <1>5
  <2>2. QED
    BY <1>2, <1>6, <1>7, <2>1, LArrives
<1>9. PICK r \in 0 .. 1 : r = IF y THEN 1 ELSE 0
  OBVIOUS
<1>10. /\ l_mem' \in [0 .. LPairs - 1 -> Pairs(Data \cup {Junk})] /\ l_last_op' \in BOOLEAN
       /\ \E W, G, Q, z : LNext(D, P, s, r, W, G, Q, z)
  <2>1. /\ sipo' = SubSeq(s, large!yumi_cnt_sipo(s) + 1, Len(s))
        /\ large!BigEdge(FALSE, s) /\ l_big_deq_r' = large!big_deq(s)
    BY <1>1, <1>6
  <2>2. QED
    BY <1>2, <1>3, <1>8, <2>1, LStep
<1>11. PICK W, G, Q, z : LNext(D, P, s, r, W, G, Q, z)
  BY <1>10
<1>12. LargeMove(Data, D, F, P, s, W, G, Q, z)
  BY <1>5, <1>11 DEF LNext
<1> DEFINE E == Cat(D, W)
           X == [i \in 0 .. 1 |-> large!Delivered(s, i)]
<1>13. /\ InAll(D, F, P, s) = InAll(E, G, Q, z)
       /\ E \in Seq(Data) /\ G \in Seq(Data) /\ Q \in Seq(Pairs(Data)) /\ z \in Seq(Data)
  BY <1>12, LargeOrder
<1>14. W \in Seq(Data) /\ W = large!Dealt(s) /\ Len(W) <= 2 /\ Len(D) + Len(W) <= 4
  BY <1>11, <1>12 DEF LNext, LargeMove
<1>15. LittleHolds(tag_r, E, X, large!RrNext(s))
  BY <1>4, <1>14, LittleDealt
<1>16. Len(E) = Len(D) + Len(W) /\ Len(E) \in Nat
  BY <1>13, <1>14, CatLen, LenProperties
<1>17. y => E # <<>>
  <2>1. large!v_o <=> Len(D) # 0
    BY <1>4, LReady
  <2>2. Len(D) \in Nat /\ Len(W) \in Nat
    BY <1>14, LenProperties
  <2>3. y => Len(E) # 0
    BY <1>1, <1>16, <2>1, <2>2
  <2>4. QED
    BY <1>13, <2>3, EmptySeq
<1>18. rr222_head_r' = large!RrNext(s)
  BY <1>1, <1>6
<1>19. little' = IF y THEN TakeFrom(X, tag_r) ELSE X
  <2>1. little' = [i \in 0 .. 1 |-> IF y /\ i = tag_r THEN Tail(large!Delivered(s, i))
                                     ELSE large!Delivered(s, i)]
    BY <1>1, <1>6
  <2>2. CASE y
    BY <2>1, <2>2 DEF TakeFrom
  <2>3. CASE ~y
    BY <2>1, <2>3
  <2>4. QED
    BY <2>2, <2>3
<1>20. l_q' = IF y /\ a # <<>> THEN Tail(a) ELSE a
  BY <1>1, <1>7
<1> HIDE DEF E, X
<1>21. a = InAll(E, G, Q, z)
  BY <1>8, <1>13
<1>22. PICK D2 \in Seq(Data) :
         /\ LittleHolds(tag_r', D2, little', rr222_head_r')
         /\ l_q' = InAll(D2, G, Q, z)
         /\ Len(D2) = Len(E) - r
  <2>1. CASE y
    <3>1. E # <<>>
      BY <1>17, <2>1
    <3>2. LittleHolds(1 - tag_r, Tail(E), TakeFrom(X, tag_r), large!RrNext(s))
      BY <1>13, <1>15, <3>1, LittleTake
    <3>3. LittleHolds(tag_r', Tail(E), little', rr222_head_r')
      BY <1>1, <1>18, <1>19, <2>1, <3>2
    <3>4. /\ Tail(InAll(E, G, Q, z)) = InAll(Tail(E), G, Q, z)
          /\ InAll(E, G, Q, z) # <<>> /\ Tail(E) \in Seq(Data)
      <4>1. /\ E \in Seq(Data) /\ G \in Seq(Data) /\ Q \in Seq(Pairs(Data))
            /\ z \in Seq(Data) /\ E # <<>>
        BY <1>13, <3>1
      <4>2. QED
        BY ONLY <4>1, LargeTake
    <3>5. l_q' = InAll(Tail(E), G, Q, z)
      BY <1>20, <1>21, <2>1, <3>4
    <3>6. Len(Tail(E)) = Len(E) - r
      BY <1>9, <1>13, <2>1, <3>1, HeadTailProperties
    <3>7. QED
      BY <3>3, <3>4, <3>5, <3>6
  <2>2. CASE ~y
    <3>1. LittleHolds(tag_r', E, little', rr222_head_r')
      BY <1>1, <1>15, <1>18, <1>19, <2>2
    <3>2. l_q' = InAll(E, G, Q, z)
      BY <1>20, <1>21, <2>2
    <3>3. r = 0 /\ Len(E) - 0 = Len(E)
      BY <1>9, <1>16, <2>2
    <3>4. QED
      BY <1>13, <3>1, <3>2, <3>3
  <2>3. QED
    BY <2>1, <2>2
<1>23. /\ RamHolds(l_rd_ptr', l_wr_ptr', l_mem', Q, LPairs) /\ LRamFlag(Q)'
       /\ l_big_deq_r' => l_big_data_lo' \in Pairs(Data)
       /\ G = LFetched' /\ sipo' = z /\ Len(z) <= 3
       /\ l_big_deq_r' => FlowBusy(Len(D) + Len(W) - r, Len(Q), Len(z), LPairs)
       /\ ~l_big_deq_r' => FlowIdle(Len(D) + Len(W) - r, Len(Q), Len(z), LPairs)
  BY <1>11 DEF LNext
<1>24. LargeHolds(D2, Q)'
  BY <1>22, <1>23 DEF LargeHolds
<1>25. LargeFlow(D2, Q)'
  <2>1. Len(D2) = Len(D) + Len(W) - r
    BY <1>16, <1>22
  <2>2. QED
    BY <1>23, <2>1 DEF LargeFlow
<1>26. LargeTypeOK'
  <2>1. l_big_deq_r' \in BOOLEAN
    <3>1. large!big_deq(large!Arrived(v, d)) \in BOOLEAN
      BY DEF large!big_deq
    <3>2. QED
      BY <1>1, <3>1
  <2>2. sipo' \in Seq(Data) /\ Len(sipo') <= 3
    BY <1>13, <1>23
  <2>3. reset_edges' \in 0 .. MinReset
    BY <1>1, <1>2 DEF LargeTypeOK
  <2>4. QED
    BY <1>10, <2>1, <2>2, <2>3 DEF LargeTypeOK
<1>27. LargeParts(D2, Q)'
  BY <1>24, <1>25 DEF LargeParts
<1>28. QED
  <2>1. reset_edges' = MinReset
    BY <1>1
  <2>2. \E D3 \in Seq(Data), P3 \in Seq(Pairs(Data)) : LargeParts(D3, P3)'
    BY <1>13, <1>22, <1>27
  <2>3. QED
    BY <1>26, <2>1, <2>2 DEF LargeInv
(* After a reset of at least two edges. *)
LargeCleared ==
  /\ sipo = <<>> /\ l_q = <<>> /\ rr222_head_r = 0 /\ tag_r = 0
  /\ little = [i \in 0 .. 1 |-> <<>>]
  /\ l_rd_ptr = 0 /\ l_wr_ptr = 0 /\ l_last_op = TRUE
  /\ l_big_deq_r = FALSE

(* No word is anywhere then. *)
LEMMA LargeEmpty ==
  LargeCleared => \E D \in Seq(Data), P \in Seq(Pairs(Data)) : LargeParts(D, P)
<1> SUFFICES ASSUME LargeCleared
             PROVE  LargeParts(<<>>, <<>>)
  BY EmptySeq
<1>1. /\ sipo = <<>> /\ l_q = <<>> /\ rr222_head_r = 0 /\ tag_r = 0
      /\ little = [i \in 0 .. 1 |-> <<>>]
      /\ l_rd_ptr = 0 /\ l_wr_ptr = 0 /\ l_last_op = TRUE
      /\ l_big_deq_r = FALSE
  BY DEF LargeCleared
<1>2. <<>> \in Seq(Data) /\ <<>> \in Seq(Pairs(Data)) /\ Len(<<>>) = 0
  BY EmptySeq
<1>3. LittleHolds(tag_r, <<>>, little, rr222_head_r)
  <2>1. OddOf(<<>>) = <<>> /\ EvenOf(<<>>) = <<>>
    BY <1>2, Dealt0
  <2>2. little = Pair2(tag_r, OddOf(<<>>), EvenOf(<<>>))
    BY <1>1, <2>1 DEF Pair2
  <2>3. rr222_head_r = NextDest(tag_r, <<>>)
    BY <1>1, <1>2 DEF NextDest
  <2>4. tag_r \in 0 .. 1 /\ Len(<<>>) <= 4
    BY <1>1, <1>2
  <2>5. QED
    BY <2>2, <2>3, <2>4 DEF LittleHolds
<1>4. RamHolds(l_rd_ptr, l_wr_ptr, l_mem, <<>>, LPairs) /\ LRamFlag(<<>>)
  BY <1>1, <1>2, LPairsIs, RamEmpty DEF LRamFlag
<1>5. LFetched = <<>>
  BY <1>1 DEF LFetched
<1>6. InAll(<<>>, <<>>, <<>>, <<>>) = <<>>
  BY <1>2, FlatEmpty, CatEmpty DEF InAll
<1>7. LargeHolds(<<>>, <<>>)
  BY <1>1, <1>3, <1>4, <1>5, <1>6 DEF LargeHolds
<1>8. LargeFlow(<<>>, <<>>)
  BY <1>1, <1>2 DEF LargeFlow, FlowIdle
<1>9. QED
  BY <1>7, <1>8 DEF LargeParts

(* The invariant holds at power-up. *)
LEMMA LargeInit == large!Init => LargeInv
<1> SUFFICES ASSUME large!Init
             PROVE  LargeInv
  OBVIOUS
<1>1. /\ LargeCleared /\ reset_edges = MinReset
      /\ l_mem = [a \in 0 .. LPairs - 1 |-> <<Junk, Junk>>]
  BY DEF large!Init, large!big1p!OneRwInit, large!big1p!Slots, LargeCleared, LPairs
<1>2. <<Junk, Junk>> \in Pairs(Data \cup {Junk})
  BY Tuples DEF Pairs
<1>3. l_mem \in [0 .. LPairs - 1 -> Pairs(Data \cup {Junk})]
  BY <1>1, <1>2
<1>4. <<>> \in Seq(Data) /\ Len(<<>>) = 0
  BY EmptySeq
<1>5. MinReset \in 0 .. MinReset
  BY LargeAssumption DEF large!LargeAssumption
<1>6. LargeTypeOK
  <2>1. sipo \in Seq(Data) /\ Len(sipo) <= 3
    BY <1>1, <1>4 DEF LargeCleared
  <2>2. l_last_op \in BOOLEAN /\ l_big_deq_r \in BOOLEAN /\ reset_edges \in 0 .. MinReset
    BY <1>1, <1>5 DEF LargeCleared
  <2>3. QED
    BY <1>3, <2>1, <2>2 DEF LargeTypeOK
<1>7. QED
  BY <1>1, <1>6, LargeEmpty DEF LargeInv

(* An edge of a reset keeps the invariant: when the last one has passed,   *)
(* big_deq_r has followed the RAM, which was empty before it.              *)
LEMMA LargeReset ==
  ASSUME MinReset >= 2
  PROVE  LargeInv /\ large!Reset => LargeInv'
<1> SUFFICES ASSUME LargeInv, large!Reset
             PROVE  LargeInv'
  OBVIOUS
<1>1. PICK v \in BOOLEAN, d \in Data :
        /\ large!BigEdge(TRUE, large!Arrived(v, d))
        /\ l_big_deq_r' = large!big_deq(large!Arrived(v, d))
  BY DEF large!Reset
<1>2. PICK s : s = large!Arrived(v, d)
  OBVIOUS
<1>3. /\ sipo' = <<>> /\ l_q' = <<>> /\ rr222_head_r' = 0 /\ tag_r' = 0
      /\ little' = [i \in 0 .. 1 |-> <<>>]
      /\ reset_edges' = IF reset_edges = MinReset THEN 1 % (MinReset + 1) ELSE reset_edges + 1
  BY DEF large!Reset
<1>4. LargeTypeOK
  BY DEF LargeInv
<1>5. /\ l_rd_ptr' = 0 /\ l_wr_ptr' = 0 /\ l_last_op' = TRUE
      /\ l_mem' = IF large!will_spill(s) THEN [l_mem EXCEPT ![l_wr_ptr] = SubSeq(s, 1, 2)]
                  ELSE l_mem
  BY <1>1, <1>2 DEF large!BigEdge, large!big1p!OneRwEdge
<1>6. s \in Seq(Data)
  <2>1. sipo \in Seq(Data)
    BY <1>4 DEF LargeTypeOK
  <2>2. QED
    BY <1>2, <2>1, AppendProperties DEF large!Arrived
<1>7. l_mem' \in [0 .. LPairs - 1 -> Pairs(Data \cup {Junk})]
  <2>1. l_mem \in [0 .. LPairs - 1 -> Pairs(Data \cup {Junk})]
    BY <1>4 DEF LargeTypeOK
  <2>2. ASSUME large!will_spill(s)
        PROVE  SubSeq(s, 1, 2) \in Pairs(Data \cup {Junk})
    <3>1. large!valid_sipo(s) = 2
      BY <2>2 DEF large!will_spill
    <3>2. large!valid_sipo(s) = IF Len(s) < 2 THEN Len(s) ELSE 2
      BY DEF large!valid_sipo
    <3>3. Len(s) \in Nat
      BY <1>6, LenProperties
    <3>4. Len(s) >= 2
      BY <3>1, <3>2, <3>3
    <3>5. \A i \in 1 .. 2 : s[i] \in Data \cup {Junk}
      BY <1>6, <3>3, <3>4, ElementOfSeq
    <3>6. 1 \in Int /\ 2 \in Int /\ (IF 1 <= 2 THEN 2 - 1 + 1 ELSE 0) = 2
      OBVIOUS
    <3>7. QED
      BY <3>5, <3>6, SubSeqProperties DEF Pairs
  <2>3. QED
    BY <1>5, <2>1, <2>2
<1>8. l_big_deq_r' \in BOOLEAN
  BY <1>1 DEF large!big_deq
<1>9. /\ reset_edges \in 0 .. MinReset /\ MinReset \in Nat
      /\ reset_edges # MinReset => reset_edges # 0
  BY <1>4, LargeAssumption DEF LargeTypeOK, LargeInv, large!LargeAssumption
<1>10. 1 % (MinReset + 1) = 1
  BY <1>9
<1>11. reset_edges' \in 0 .. MinReset /\ reset_edges' # 0
  BY <1>3, <1>9, <1>10
<1>12. LargeTypeOK'
  <2>1. <<>> \in Seq(Data) /\ Len(<<>>) = 0
    BY EmptySeq
  <2>2. sipo' \in Seq(Data) /\ Len(sipo') <= 3
    BY <1>3, <2>1
  <2>3. l_last_op' \in BOOLEAN
    BY <1>5
  <2>4. QED
    BY <1>7, <1>8, <1>11, <2>2, <2>3 DEF LargeTypeOK
<1>13. reset_edges' = MinReset => LargeCleared'
  <2>1. SUFFICES ASSUME reset_edges' = MinReset
                 PROVE  LargeCleared'
    OBVIOUS
  <2>2. reset_edges # MinReset
    BY <1>3, <1>9, <1>10, <2>1
  <2>3. l_rd_ptr = l_wr_ptr /\ l_last_op = TRUE
    BY <2>2 DEF LargeInv
  <2>4. ~large!big_deq(s)
    BY <2>3 DEF large!big_deq, large!big1p!empty_o
  <2>5. l_big_deq_r' = FALSE
    BY <1>1, <1>2, <1>8, <2>4
  <2>6. QED
    BY <1>3, <1>5, <2>5 DEF LargeCleared
<1>14. LargeCleared' => (\E D \in Seq(Data), P \in Seq(Pairs(Data)) : LargeParts(D, P))'
  BY LargeEmpty, PTL
<1>15. QED
  BY <1>5, <1>11, <1>12, <1>13, <1>14 DEF LargeInv

(* Every step keeps the invariant. *)
LEMMA LargeNext ==
  ASSUME MinReset >= 2
  PROVE  LargeInv /\ [large!Next]_(large!vars) => LargeInv'
<1> SUFFICES ASSUME LargeInv, [large!Next]_(large!vars)
             PROVE  LargeInv'
  OBVIOUS
<1>1. CASE large!Clk
  BY <1>1, LargeClk
<1>2. CASE large!Reset
  BY <1>2, LargeReset
<1>3. CASE UNCHANGED large!vars
  <2>1. /\ sipo' = sipo /\ l_rd_ptr' = l_rd_ptr /\ l_wr_ptr' = l_wr_ptr
        /\ l_last_op' = l_last_op /\ l_mem' = l_mem /\ l_big_data_lo' = l_big_data_lo
        /\ l_big_deq_r' = l_big_deq_r /\ rr222_head_r' = rr222_head_r /\ little' = little
        /\ tag_r' = tag_r /\ reset_edges' = reset_edges /\ l_q' = l_q
    BY <1>3 DEF large!vars
  <2>2. LargeTypeOK'
    BY <2>1 DEF LargeInv, LargeTypeOK
  <2>3. \A D \in Seq(Data), P \in Seq(Pairs(Data)) : LargeParts(D, P) => LargeParts(D, P)'
    BY <2>1 DEF LargeParts, LargeHolds, LargeFlow, LRamFlag, LFetched
  <2>4. QED
    BY <2>1, <2>2, <2>3 DEF LargeInv
<1>4. QED
  BY <1>1, <1>2, <1>3 DEF large!Next

(* In every reachable state of the large queue in operation, its words are *)
(* those of the two output queues in turn, the pair on its way, those of   *)
(* the RAM and those of the sipo, in this order, and a pair fetched finds  *)
(* room.                                                                   *)
THEOREM LargeInvariant ==
  ASSUME MinReset >= 2
  PROVE  large!Spec => []LargeInv
BY LargeInit, LargeNext, PTL DEF large!Spec
-----------------------------------------------------------------------------
(* Reading the two output queues in turn gives the words in order.         *)
LEMMA HalvesAre ==
  ASSUME NEW S, NEW D \in Seq(S), Len(D) <= 4, NEW n \in 1 .. Len(D)
  PROVE  D[n] = IF n % 2 = 1 THEN OddOf(D)[(n + 1) \div 2] ELSE EvenOf(D)[n \div 2]
<1>1. Len(D) \in Nat
  BY LenProperties
<1>2. Len(D) = 0 \/ Len(D) = 1 \/ Len(D) = 2 \/ Len(D) = 3 \/ Len(D) = 4
  <2>1. Len(D) <= 4
    OBVIOUS
  <2>2. QED
    BY ONLY <1>1, <2>1, UpToFour
<1> DEFINE k == Len(D)
<1>3. n \in 1 .. k /\ k \in Nat /\ k <= 4
  BY <1>1
<1> HIDE DEF k
<1>4. n \in Nat /\ (n = 1 \/ n = 2 \/ n = 3 \/ n = 4)
  BY <1>3
<1>5. CASE n = 1
  <2>1. n % 2 = 1 /\ (n + 1) \div 2 = 1
    BY <1>5
  <2>2. k = 1 \/ k = 2 \/ k = 3 \/ k = 4
    BY <1>3, <1>5
  <2>3. OddOf(D)[1] = D[1]
    BY <2>2, Dealt1, Dealt2, Dealt3, Dealt4 DEF k
  <2>4. QED
    BY <1>5, <2>1, <2>3
<1>6. CASE n = 2
  <2>1. n % 2 # 1 /\ n \div 2 = 1
    BY <1>6
  <2>2. k = 2 \/ k = 3 \/ k = 4
    BY <1>3, <1>6
  <2>3. EvenOf(D)[1] = D[2]
    BY <2>2, Dealt2, Dealt3, Dealt4 DEF k
  <2>4. QED
    BY <1>6, <2>1, <2>3
<1>7. CASE n = 3
  <2>1. n % 2 = 1 /\ (n + 1) \div 2 = 2
    BY <1>7
  <2>2. k = 3 \/ k = 4
    BY <1>3, <1>7
  <2>3. OddOf(D)[2] = D[3]
    BY <2>2, Dealt3, Dealt4 DEF k
  <2>4. QED
    BY <1>7, <2>1, <2>3
<1>8. CASE n = 4
  <2>1. n % 2 # 1 /\ n \div 2 = 2
    BY <1>8
  <2>2. k = 4
    BY <1>3, <1>8
  <2>3. EvenOf(D)[2] = D[4]
    BY <2>2, Dealt4 DEF k
  <2>4. QED
    BY <1>8, <2>1, <2>3
<1>9. QED
  BY <1>4, <1>5, <1>6, <1>7, <1>8

(* The words read out of the registers are those in flight.                *)
LEMMA LargeContents ==
  ASSUME NEW D \in Seq(Data), NEW P \in Seq(Pairs(Data)), LargeHolds(D, P), LargeTypeOK
  PROVE  /\ large!contents = l_q
         /\ Len(little[tag_r]) - Len(little[1 - tag_r]) \in 0 .. 1
<1> DEFINE N == LPairs
<1>1. /\ LittleHolds(tag_r, D, little, rr222_head_r)
      /\ RamHolds(l_rd_ptr, l_wr_ptr, l_mem, P, N) /\ LRamFlag(P)
      /\ l_q = InAll(D, LFetched, P, sipo)
  BY DEF LargeHolds
<1>2. N \in Nat \ {0}
  BY LPairsIs
<1>3. /\ tag_r \in 0 .. 1 /\ Len(D) <= 4 /\ little[tag_r] = OddOf(D)
      /\ little[1 - tag_r] = EvenOf(D)
  BY <1>1, Pair2Is DEF LittleHolds
<1>4. DealLengths(Len(D), Len(OddOf(D)), Len(EvenOf(D)))
  BY <1>3, DealLens
<1>5. Len(OddOf(D)) + Len(EvenOf(D)) = Len(D) /\ Len(OddOf(D)) - Len(EvenOf(D)) \in 0 .. 1
  <2> DEFINE k == Len(D)
             a == Len(OddOf(D))
             b == Len(EvenOf(D))
  <2>1. DealLengths(k, a, b)
    BY <1>4
  <2> HIDE DEF k, a, b
  <2>2. a + b = k /\ a - b \in 0 .. 1
    BY <2>1 DEF DealLengths
  <2>3. QED
    BY <2>2 DEF k, a, b
<1>6. large!Dealing = D
  <2>1. large!Dealing = [n \in 1 .. Len(D) |->
                           IF n % 2 = 1 THEN OddOf(D)[(n + 1) \div 2] ELSE EvenOf(D)[n \div 2]]
    BY <1>3, <1>5 DEF large!Dealing
  <2>2. \A n \in 1 .. Len(D) :
          D[n] = IF n % 2 = 1 THEN OddOf(D)[(n + 1) \div 2] ELSE EvenOf(D)[n \div 2]
    BY <1>3, HalvesAre
  <2>3. D = [n \in 1 .. Len(D) |-> D[n]]
    BY LenProperties
  <2>4. QED
    BY <2>1, <2>2, <2>3
<1>7. large!big1p!Count = Len(P)
  <2>1. /\ Len(P) \in Nat /\ Len(P) <= N /\ l_rd_ptr \in 0 .. N - 1 /\ l_wr_ptr \in 0 .. N - 1
        /\ l_rd_ptr = l_wr_ptr <=> Len(P) = 0 \/ Len(P) = N
        /\ l_rd_ptr # l_wr_ptr => Len(P) = IF l_wr_ptr >= l_rd_ptr THEN l_wr_ptr - l_rd_ptr
                                           ELSE l_wr_ptr - l_rd_ptr + N
    BY <1>1, <1>2, RamLen
  <2>2. large!big1p!full_o <=> Len(P) = N
    BY <1>1, LBigFlags DEF LargeTypeOK
  <2>3. large!big1p!Count =
          IF large!big1p!full_o THEN N
          ELSE IF l_wr_ptr >= l_rd_ptr THEN l_wr_ptr - l_rd_ptr ELSE l_wr_ptr - l_rd_ptr + N
    BY DEF large!big1p!Count, LPairs
  <2> HIDE DEF N
  <2>4. CASE Len(P) = N
    BY <2>2, <2>3, <2>4
  <2>5. CASE Len(P) # N /\ l_rd_ptr # l_wr_ptr
    BY <2>1, <2>2, <2>3, <2>5
  <2>6. CASE Len(P) # N /\ l_rd_ptr = l_wr_ptr
    <3>1. Len(P) = 0
      BY <2>1, <2>6
    <3>2. l_wr_ptr >= l_rd_ptr /\ l_wr_ptr - l_rd_ptr = 0
      BY <2>1, <2>6
    <3>3. QED
      BY <3>1, <3>2, <2>2, <2>3, <2>6
  <2>7. QED
    BY <2>4, <2>5, <2>6
<1>8. large!Spilled = Flat(P)
  <2>1. /\ l_rd_ptr \in 0 .. N - 1 /\ Len(P) <= N /\ Len(P) \in Nat
        /\ \A i \in 1 .. Len(P) : P[i] = l_mem[Place(l_rd_ptr, i - 1, N)]
    BY <1>1, LenProperties DEF RamHolds
  <2>2. large!Spilled = [n \in 1 .. 2 * Len(P) |->
                           l_mem[(l_rd_ptr + ((n - 1) \div 2)) % N][2 - (n % 2)]]
    BY <1>7 DEF large!Spilled, LPairs
  <2>3. ASSUME NEW n \in 1 .. 2 * Len(P)
        PROVE  l_mem[(l_rd_ptr + ((n - 1) \div 2)) % N][2 - (n % 2)] = P[In(n)][At(n)]
    <3>1. In(n) \in 1 .. Len(P)
      BY <2>1, InPairs
    <3>2. P[In(n)] = l_mem[Place(l_rd_ptr, In(n) - 1, N)]
      BY <2>1, <3>1
    <3> DEFINE h == (n - 1) \div 2
               l == Len(P)
    <3>3. h + 1 = In(n) /\ n \in 1 .. 2 * l
      BY DEF In
    <3>4. l \in Nat /\ l <= N /\ In(n) \in 1 .. l
      BY <2>1, <3>1
    <3>5. h \in Int
      BY <3>4
    <3> HIDE DEF h, l, N
    <3>6. h \in 0 .. N /\ In(n) - 1 = h
      BY <1>2, <3>3, <3>4, <3>5
    <3>7. (l_rd_ptr + h) % N = Place(l_rd_ptr, h, N)
      BY <1>2, <2>1, <3>6, PlaceMod
    <3>8. QED
      BY <3>2, <3>6, <3>7 DEF h, At
  <2>4. QED
    BY <2>2, <2>3 DEF Flat
<1>9. large!contents =
        ((large!Dealing \o (IF l_big_deq_r THEN l_big_data_lo ELSE <<>>)) \o large!Spilled) \o sipo
  BY DEF large!contents
<1>10. large!contents = l_q
  BY <1>1, <1>6, <1>8, <1>9 DEF InAll, Cat, LFetched
<1>11. QED
  BY <1>3, <1>5, <1>10

(* The invariant says what the run checks. *)
LEMMA LargeExact == LargeInv => LargeIsExact
<1> SUFFICES ASSUME LargeInv, large!operational
             PROVE  /\ Len(little[tag_r]) - Len(little[1 - tag_r]) \in 0 .. 1
                    /\ large!contents = l_q
                    /\ Len(l_q) < large_els_p => large!ready_and_o
                    /\ l_q # <<>> => large!v_o
  BY DEF LargeIsExact, large!NothingLost, large!NeverFalselyFull, large!NeverFalselyEmpty
<1>1. LargeTypeOK
  BY DEF LargeInv
<1>2. PICK D \in Seq(Data), P \in Seq(Pairs(Data)) : LargeParts(D, P)
  BY DEF LargeInv, large!operational
<1>3. LargeHolds(D, P) /\ LargeFlow(D, P)
  BY <1>2 DEF LargeParts
<1>4. /\ large!contents = l_q
      /\ Len(little[tag_r]) - Len(little[1 - tag_r]) \in 0 .. 1
  BY <1>1, <1>3, LargeContents
<1>5. /\ LittleHolds(tag_r, D, little, rr222_head_r)
      /\ l_q = InAll(D, LFetched, P, sipo)
      /\ l_big_deq_r => l_big_data_lo \in Pairs(Data)
  BY <1>3 DEF LargeHolds
<1> DEFINE T == Len(D)
           p == Len(P)
           n == Len(sipo)
           f == Len(LFetched)
           N == LPairs
<1>6. sipo \in Seq(Data) /\ n <= 3 /\ LFetched \in Seq(Data)
  BY <1>1, <1>5, EmptySeq DEF LargeTypeOK, LFetched, Pairs
<1>7. l_q \in Seq(Data) /\ Len(l_q) = T + f + (2 * p) + n
  <2>1. /\ D \in Seq(Data) /\ LFetched \in Seq(Data) /\ P \in Seq(Pairs(Data))
        /\ sipo \in Seq(Data)
    BY <1>6
  <2>2. /\ InAll(D, LFetched, P, sipo) \in Seq(Data)
        /\ Len(InAll(D, LFetched, P, sipo)) = Len(D) + Len(LFetched) + (2 * Len(P)) + Len(sipo)
    BY ONLY <2>1, LargeCount
  <2>3. QED
    BY <1>5, <2>2
<1>8. T \in Nat /\ p \in Nat /\ n \in Nat /\ N \in Nat /\ 2 * N = large_els_p
  BY <1>6, LenProperties, LPairsIs
<1>9. (l_big_deq_r => f = 2) /\ (~l_big_deq_r => f = 0)
  BY <1>5, EmptySeq DEF LFetched, Pairs
<1>10. /\ l_big_deq_r => FlowBusy(T, p, n, N)
       /\ ~l_big_deq_r => FlowIdle(T, p, n, N)
  BY <1>3 DEF LargeFlow
<1>11. large!v_o <=> T # 0
  BY <1>5, LReady
<1>12. large!ready_and_o <=> n < 3
  BY DEF large!ready_and_o
<1> DEFINE x == Len(l_q)
<1>13. x = T + f + (2 * p) + n /\ (l_q # <<>> => x # 0)
  BY <1>7, EmptySeq
<1>14. n \in Nat /\ n <= 3
  BY <1>6, <1>8
<1> HIDE DEF T, p, n, f, N, x
<1>15. x < 2 * N => n < 3
  <2>1. SUFFICES ASSUME n >= 3
                 PROVE  x >= 2 * N
    <3>1. x \in Nat
      BY <1>8, <1>9, <1>13
    <3>2. QED
      BY <1>8, <2>1, <3>1
  <2>2. n = 3
    BY ONLY <1>14, <2>1
  <2>3. CASE l_big_deq_r
    <3>1. f = 2 /\ T >= 1 /\ p = N - 1
      BY <1>9, <1>10, <2>2, <2>3 DEF FlowBusy
    <3>2. QED
      BY <1>8, <1>13, <2>2, <3>1
  <2>4. CASE ~l_big_deq_r
    <3>1. f = 0 /\ p = N
      BY <1>9, <1>10, <2>2, <2>4 DEF FlowIdle
    <3>2. QED
      BY <1>8, <1>13, <2>2, <3>1
  <2>5. QED
    BY <2>3, <2>4
<1>16. x # 0 => T # 0
  <2>1. SUFFICES ASSUME T = 0
                 PROVE  x = 0
    OBVIOUS
  <2>2. ~l_big_deq_r
    BY <1>10, <2>1 DEF FlowBusy
  <2>3. f = 0 /\ p = 0 /\ n = 0
    BY <1>8, <1>9, <1>10, <2>1, <2>2 DEF FlowIdle
  <2>4. QED
    BY <1>13, <2>1, <2>3
<1>17. QED
  BY <1>4, <1>8, <1>11, <1>12, <1>13, <1>15, <1>16 DEF x

(* bsg_fifo_1r1w_large loses, duplicates and overtakes no word, and is     *)
(* neither full with fewer words than it has places nor empty with any,    *)
(* whatever its size, when its resets last for two edges or more.          *)
THEOREM LargeKeepsWords ==
  ASSUME MinReset >= 2
  PROVE  QueuesSpec => []LargeIsExact
<1>1. QueuesInit => large!Init
  BY DEF QueuesInit
<1>2. [QueuesNext]_all => [large!Next]_(large!vars)
  <2> SUFFICES ASSUME [QueuesNext]_all
               PROVE  [large!Next]_(large!vars)
    OBVIOUS
  <2>1. CASE unit = "large" /\ large!Next
    BY <2>1
  <2>2. CASE UNCHANGED large_vars
    <3>1. /\ sipo' = sipo /\ l_rd_ptr' = l_rd_ptr /\ l_wr_ptr' = l_wr_ptr
          /\ l_last_op' = l_last_op /\ l_mem' = l_mem /\ l_big_data_lo' = l_big_data_lo
          /\ l_big_deq_r' = l_big_deq_r /\ rr222_head_r' = rr222_head_r /\ little' = little
          /\ tag_r' = tag_r /\ reset_edges' = reset_edges /\ l_q' = l_q
      BY <2>2 DEF large_vars
    <3>2. UNCHANGED large!vars
      BY <3>1 DEF large!vars
    <3>3. QED
      BY <3>2
  <2>3. CASE UNCHANGED all
    BY <2>2, <2>3 DEF all
  <2>4. QED
    BY <2>1, <2>2, <2>3 DEF QueuesNext
<1>3. large!Spec => []LargeInv
  BY LargeInvariant
<1>4. QED
  BY <1>1, <1>2, <1>3, LargeExact, PTL DEF QueuesSpec, large!Spec
=============================================================================
