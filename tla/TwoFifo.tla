------------------------------ MODULE TwoFifo -------------------------------
(***************************************************************************)
(* bsg_two_fifo: a queue of two words, which keeps empty and full as flops *)
(* of their own beside one-bit pointers.  With allow_enq_deq_on_full_p a   *)
(* client that is told of a dequeue early may replace a word of a full     *)
(* queue in one edge.                                                      *)
(***************************************************************************)
EXTENDS Naturals, Sequences, SequenceTheorems, TLAPS

CONSTANTS
  allow_enq_deq_on_full_p,
  Data,                       \* the words enqueued
  Junk                        \* what a memory word holds before it is written

VARIABLES
  head_r, tail_r,     \* where the next word is read and written
  empty_r, full_r,
  mem,                \* mem_1r1w
  q                   \* history: the words accepted and not yet given back

vars == <<head_r, tail_r, empty_r, full_r, mem, q>>

(* Outputs. *)
v_o == ~empty_r
ready_param_o == ~full_r
data_o == mem[head_r]

Other(p) == 1 - p

TwoInit ==
  /\ head_r = 0 /\ tail_r = 0
  /\ empty_r = TRUE /\ full_r = FALSE
  /\ mem = [a \in 0 .. 1 |-> Junk]

Init == TwoInit /\ q = <<>>

Flags(enq_i, deq_i) ==
  /\ empty_r' = (~enq_i /\ (empty_r \/ (~full_r /\ deq_i)))
  /\ full_r' =
       \/ ~empty_r /\ enq_i /\ ~deq_i
       \/ full_r /\ IF allow_enq_deq_on_full_p THEN deq_i = enq_i ELSE ~deq_i

(* With ready_THEN_valid_p, which follows allow_enq_deq_on_full_p, the     *)
(* client has looked at ready before it raises v_i.                        *)
enq(v_i) == v_i /\ (allow_enq_deq_on_full_p \/ ~full_r)

(* The memory is written through a reset, the other registers are cleared. *)
Edge(reset_i, v_i, d, deq_i) ==
  /\ mem' = IF enq(v_i) THEN [mem EXCEPT ![tail_r] = d] ELSE mem
  /\ IF reset_i
       THEN head_r' = 0 /\ tail_r' = 0 /\ empty_r' = TRUE /\ full_r' = FALSE
       ELSE /\ tail_r' = IF enq(v_i) THEN Other(tail_r) ELSE tail_r
            /\ head_r' = IF deq_i THEN Other(head_r) ELSE head_r
            /\ Flags(enq(v_i), deq_i)

(* What the assertions ask of the clients: no dequeue from an empty queue, *)
(* and no word for a full one, unless it may replace the one dequeued.     *)
Legal(v_i, deq_i) ==
  /\ deq_i => v_o
  /\ v_i /\ allow_enq_deq_on_full_p /\ full_r => deq_i

(* The words in flight after the handshakes of this edge. *)
Enqueued(v_i, d) == IF enq(v_i) THEN Append(q, d) ELSE q
InFlight(v_i, d, deq_i) ==
  IF deq_i /\ q # <<>> THEN Tail(Enqueued(v_i, d)) ELSE Enqueued(v_i, d)

Clk ==
  \E v_i, deq_i \in BOOLEAN, d \in Data :
    /\ Legal(v_i, deq_i)
    /\ Edge(FALSE, v_i, d, deq_i)
    /\ q' = InFlight(v_i, d, deq_i)

Reset ==
  /\ \E v_i, deq_i \in BOOLEAN, d \in Data : Edge(TRUE, v_i, d, deq_i)
  /\ q' = <<>>

Next == Clk \/ Reset

Spec == Init /\ [][Next]_vars

-----------------------------------------------------------------------------
(* Every register holds a value of its width. *)
TypeOK ==
  /\ {head_r, tail_r} \subseteq 0 .. 1
  /\ {empty_r, full_r} \subseteq BOOLEAN
  /\ mem \in [0 .. 1 -> Data \cup {Junk}]
  /\ q \in Seq(Data)

(* The two flops are updated without looking at the pointers and still say *)
(* exactly whether there is a word and whether there is room; with it the  *)
(* assertion that they are never both set.                                 *)
ExactFlags ==
  /\ v_o <=> q # <<>>
  /\ ready_param_o <=> Len(q) < 2

(* The word offered is the oldest in flight, also while a full queue       *)
(* replaces it in the slot it is read from.                                *)
OldestFirst == v_o => q # <<>> /\ data_o = Head(q)

(* The words the registers hold, oldest first. *)
contents ==
  IF empty_r THEN <<>>
  ELSE IF full_r THEN <<mem[head_r], mem[Other(head_r)]>>
  ELSE <<mem[head_r]>>

(* The inductive invariant: with one word the pointers differ, else they   *)
(* meet, and the registers hold the words in flight.                       *)
PtrInv ==
  /\ ~(empty_r /\ full_r)
  /\ tail_r = IF empty_r \/ full_r THEN head_r ELSE Other(head_r)

IInv == TypeOK /\ PtrInv /\ contents = q

(* It implements the abstract queue of depth two, with either setting.     *)
Fifo == INSTANCE FifoSpec WITH Depth <- 2, q <- contents
ImplementsFifo == Fifo!Spec

-----------------------------------------------------------------------------
(* Proved for both settings of allow_enq_deq_on_full_p, every set of words *)
(* and every memory content at power-up.                                   *)

(* The pointers are one bit wide. *)
LEMMA OtherPointer ==
  ASSUME NEW p \in 0 .. 1
  PROVE  Other(p) \in 0 .. 1 /\ Other(p) # p /\ Other(Other(p)) = p
BY DEF Other

(* What handshakes do to the short sequences of a two-word queue.          *)
LEMMA AppendToOne ==
  ASSUME NEW S, NEW a \in S, NEW b \in S
  PROVE  Append(<<a>>, b) = <<a, b>>
<1> DEFINE s == Append(<<a>>, b)
           t == <<a, b>>
<1>1. <<a>> \in Seq(S) /\ Len(<<a>>) = 1 /\ <<a>>[1] = a
  OBVIOUS
<1>2. s \in Seq(S) /\ Len(s) = 2 /\ s[1] = a /\ s[2] = b
  BY <1>1
<1>3. t \in Seq(S) /\ Len(t) = 2 /\ t[1] = a /\ t[2] = b
  OBVIOUS
<1> HIDE DEF s, t
<1>4. s = t
  BY <1>2, <1>3, SeqEqual
<1>5. QED
  BY <1>4 DEF s, t

LEMMA AppendToTwo ==
  ASSUME NEW S, NEW a \in S, NEW b \in S, NEW c \in S
  PROVE  Append(<<a, b>>, c) = <<a, b, c>>
<1> DEFINE s == Append(<<a, b>>, c)
           t == <<a, b, c>>
<1>1. <<a, b>> \in Seq(S) /\ Len(<<a, b>>) = 2 /\ <<a, b>>[1] = a /\ <<a, b>>[2] = b
  OBVIOUS
<1>2. s \in Seq(S) /\ Len(s) = 3 /\ s[1] = a /\ s[2] = b /\ s[3] = c
  BY <1>1
<1>3. t \in Seq(S) /\ Len(t) = 3 /\ t[1] = a /\ t[2] = b /\ t[3] = c
  OBVIOUS
<1> HIDE DEF s, t
<1>4. s = t
  BY <1>2, <1>3, SeqEqual
<1>5. QED
  BY <1>4 DEF s, t

LEMMA Handshakes ==
  ASSUME NEW a, NEW b, NEW c
  PROVE  /\ Append(<<>>, c) = <<c>>
         /\ Append(<<a>>, c) = <<a, c>>
         /\ Tail(<<a>>) = <<>> /\ Tail(<<a, b>>) = <<b>>
         /\ Tail(Append(<<a>>, c)) = <<c>>
         /\ Append(<<a, b>>, c) = <<a, b, c>>
         /\ Tail(Append(<<a, b>>, c)) = <<b, c>>
<1>1. Append(<<>>, c) = <<c>> /\ Tail(<<a>>) = <<>>
  OBVIOUS
<1>2. Tail(<<a, b>>) = <<b>> /\ Tail(<<a, c>>) = <<c>>
  OBVIOUS
<1>3. Tail(<<a, b, c>>) = <<b, c>>
  OBVIOUS
<1> DEFINE S == {a, b, c}
<1>4. a \in S /\ b \in S /\ c \in S
  OBVIOUS
<1> HIDE DEF S
<1>5. Append(<<a>>, c) = <<a, c>>
  BY <1>4, AppendToOne
<1>6. Append(<<a, b>>, c) = <<a, b, c>>
  BY <1>4, AppendToTwo
<1>7. QED
  BY <1>1, <1>2, <1>3, <1>5, <1>6, Zenon

LEMMA ShortLengths ==
  ASSUME NEW a, NEW b
  PROVE  /\ Len(<<>>) = 0 /\ Len(<<a>>) = 1 /\ Len(<<a, b>>) = 2
         /\ <<a>> # <<>> /\ <<a, b>> # <<>>
OBVIOUS

(* The invariant after reset. *)
LEMMA InitInv == Init => IInv
<1> SUFFICES ASSUME Init
             PROVE  IInv
  OBVIOUS
<1>1. /\ head_r = 0 /\ tail_r = 0 /\ empty_r = TRUE /\ full_r = FALSE
      /\ mem = [a \in 0 .. 1 |-> Junk] /\ q = <<>>
  BY DEF Init, TwoInit
<1>2. QED
  BY <1>1 DEF IInv, TypeOK, PtrInv, contents

(* What the invariant says in each of the three states of the flops.       *)
LEMMA ThreeStates ==
  ASSUME IInv
  PROVE  \/ /\ empty_r = TRUE /\ full_r = FALSE /\ tail_r = head_r
            /\ q = <<>>
         \/ /\ empty_r = FALSE /\ full_r = FALSE /\ tail_r = Other(head_r)
            /\ q = <<mem[head_r]>>
         \/ /\ empty_r = FALSE /\ full_r = TRUE /\ tail_r = head_r
            /\ q = <<mem[head_r], mem[Other(head_r)]>>
BY DEF IInv, TypeOK, PtrInv, contents

(* The flags say how many words are in flight. *)
LEMMA FlagsFromInv == IInv => ExactFlags
<1> SUFFICES ASSUME IInv
             PROVE  ExactFlags
  OBVIOUS
<1>1. CASE empty_r = TRUE /\ full_r = FALSE /\ q = <<>>
  BY <1>1, ShortLengths DEF ExactFlags, v_o, ready_param_o
<1>2. CASE empty_r = FALSE /\ full_r = FALSE /\ q = <<mem[head_r]>>
  <2>1. Len(q) = 1 /\ q # <<>>
    BY <1>2, ShortLengths
  <2>2. QED
    BY <1>2, <2>1 DEF ExactFlags, v_o, ready_param_o
<1>3. CASE empty_r = FALSE /\ full_r = TRUE /\ q = <<mem[head_r], mem[Other(head_r)]>>
  <2>1. Len(q) = 2 /\ q # <<>>
    BY <1>3, ShortLengths
  <2>2. QED
    BY <1>3, <2>1 DEF ExactFlags, v_o, ready_param_o
<1>4. QED
  BY <1>1, <1>2, <1>3, ThreeStates

(* An edge out of reset: one case for each of the three states.            *)
LEMMA ClkInv ==
  ASSUME IInv, NEW v_i \in BOOLEAN, NEW deq_i \in BOOLEAN, NEW d \in Data,
         Legal(v_i, deq_i), Edge(FALSE, v_i, d, deq_i),
         q' = InFlight(v_i, d, deq_i)
  PROVE  IInv'
<1> DEFINE h == head_r
           t == tail_r
           e == enq(v_i)
<1>1. /\ h \in 0 .. 1 /\ t \in 0 .. 1 /\ mem \in [0 .. 1 -> Data \cup {Junk}]
      /\ empty_r \in BOOLEAN /\ full_r \in BOOLEAN /\ q \in Seq(Data)
  BY DEF IInv, TypeOK
<1>2. /\ Other(h) \in 0 .. 1 /\ Other(h) # h /\ Other(Other(h)) = h
      /\ Other(t) \in 0 .. 1
  BY <1>1, OtherPointer
<1>3. /\ e \in BOOLEAN
      /\ deq_i => ~empty_r
      /\ e /\ full_r => deq_i /\ allow_enq_deq_on_full_p
  BY <1>1 DEF Legal, enq, v_o
<1>4. /\ mem' = IF e THEN [mem EXCEPT ![t] = d] ELSE mem
      /\ tail_r' = IF e THEN Other(t) ELSE t
      /\ head_r' = IF deq_i THEN Other(h) ELSE h
      /\ empty_r' = (~e /\ (empty_r \/ (~full_r /\ deq_i)))
      /\ full_r' = \/ ~empty_r /\ e /\ ~deq_i
                   \/ full_r /\ IF allow_enq_deq_on_full_p THEN deq_i = e
                                ELSE ~deq_i
  BY DEF Edge, Flags
<1>5. q' = IF deq_i /\ q # <<>> THEN Tail(IF e THEN Append(q, d) ELSE q)
           ELSE IF e THEN Append(q, d) ELSE q
  BY DEF InFlight, Enqueued
<1> DEFINE x == mem[h]
           y == mem[Other(h)]
<1>a. /\ Append(<<>>, d) = <<d>> /\ Append(<<x>>, d) = <<x, d>>
      /\ Tail(<<x>>) = <<>> /\ Tail(<<x, y>>) = <<y>>
      /\ Tail(Append(<<x>>, d)) = <<d>>
      /\ Tail(Append(<<x, y>>, d)) = <<y, d>>
      /\ <<x>> # <<>> /\ <<x, y>> # <<>>
  <2> HIDE DEF x, y
  <2>1. Append(<<>>, d) = <<d>> /\ Append(<<x>>, d) = <<x, d>>
    BY Handshakes
  <2>2. Tail(<<x>>) = <<>> /\ Tail(<<x, y>>) = <<y>>
    BY Handshakes
  <2>3. Tail(Append(<<x>>, d)) = <<d>>
    BY Handshakes
  <2>4. Tail(Append(<<x, y>>, d)) = <<y, d>>
    <3> DEFINE S == {x, y, d}
    <3>0. x \in S /\ y \in S /\ d \in S
      OBVIOUS
    <3> HIDE DEF S
    <3>1. Append(<<x, y>>, d) = <<x, y, d>>
      BY <3>0, AppendToTwo
    <3>2. Tail(<<x, y, d>>) = <<y, d>>
      OBVIOUS
    <3>3. QED
      BY <3>1, <3>2, Zenon
  <2>5. <<x>> # <<>> /\ <<x, y>> # <<>>
    BY ShortLengths
  <2>6. QED
    BY <2>1, <2>2, <2>3, <2>4, <2>5, Zenon
<1>6. TypeOK'
  <2>1. {head_r', tail_r'} \subseteq 0 .. 1 /\ {empty_r', full_r'} \subseteq BOOLEAN
    BY <1>1, <1>2, <1>4
  <2>2. mem' \in [0 .. 1 -> Data \cup {Junk}]
    BY <1>1, <1>4
  <2>3. q' \in Seq(Data)
    BY <1>1, <1>5
  <2>4. QED
    BY <2>1, <2>2, <2>3 DEF TypeOK
<1>7. CASE empty_r = TRUE /\ full_r = FALSE /\ t = h /\ q = <<>>
  <2>1. ~deq_i /\ head_r' = h /\ full_r' = FALSE
    BY <1>3, <1>4, <1>7
  <2>2. CASE e
    <3>1. /\ empty_r' = FALSE /\ tail_r' = Other(h) /\ mem'[h] = d
      BY <2>1, <2>2, <1>1, <1>4, <1>7
    <3>2. q' = <<d>>
      BY <2>1, <2>2, <1>5, <1>7, <1>a, Zenon
    <3>3. QED
      BY <3>1, <3>2, <2>1, <1>6 DEF IInv, PtrInv, contents
  <2>3. CASE ~e
    BY <2>1, <2>3, <1>4, <1>5, <1>6, <1>7 DEF IInv, PtrInv, contents
  <2>4. QED
    BY <2>2, <2>3
<1>8. CASE empty_r = FALSE /\ full_r = FALSE /\ t = Other(h) /\ q = <<mem[h]>>
  <2>1. CASE e /\ deq_i
    <3>1. /\ empty_r' = FALSE /\ full_r' = FALSE /\ head_r' = Other(h)
          /\ tail_r' = h /\ mem'[Other(h)] = d
      BY <2>1, <1>1, <1>2, <1>4, <1>8
    <3>2. q' = <<d>>
      BY <2>1, <1>5, <1>8, <1>a, Zenon
    <3>3. QED
      BY <3>1, <3>2, <1>2, <1>6 DEF IInv, PtrInv, contents
  <2>2. CASE e /\ ~deq_i
    <3>1. /\ empty_r' = FALSE /\ full_r' = TRUE /\ head_r' = h /\ tail_r' = h
          /\ mem'[Other(h)] = d /\ mem'[h] = mem[h]
      BY <2>2, <1>1, <1>2, <1>4, <1>8
    <3>2. q' = <<mem[h], d>>
      BY <2>2, <1>5, <1>8, <1>a, Zenon
    <3>3. QED
      BY <3>1, <3>2, <1>6 DEF IInv, PtrInv, contents
  <2>3. CASE ~e /\ deq_i
    <3>1. /\ empty_r' = TRUE /\ full_r' = FALSE /\ head_r' = Other(h)
          /\ tail_r' = Other(h)
      BY <2>3, <1>4, <1>8
    <3>2. q' = <<>>
      BY <2>3, <1>5, <1>8, <1>a, Zenon
    <3>3. QED
      BY <3>1, <3>2, <1>6 DEF IInv, PtrInv, contents
  <2>4. CASE ~e /\ ~deq_i
    BY <2>4, <1>4, <1>5, <1>6, <1>8 DEF IInv, PtrInv, contents
  <2>5. QED
    BY <2>1, <2>2, <2>3, <2>4
<1>9. CASE /\ empty_r = FALSE /\ full_r = TRUE /\ t = h
           /\ q = <<mem[h], mem[Other(h)]>>
  <2>1. CASE e
    <3>1. /\ deq_i /\ empty_r' = FALSE /\ full_r' = TRUE
          /\ head_r' = Other(h) /\ tail_r' = Other(h)
          /\ mem'[h] = d /\ mem'[Other(h)] = mem[Other(h)]
      BY <2>1, <1>1, <1>2, <1>3, <1>4, <1>9
    <3>2. q' = <<mem[Other(h)], d>>
      BY <2>1, <3>1, <1>5, <1>9, <1>a, Zenon
    <3>3. QED
      BY <3>1, <3>2, <1>2, <1>6 DEF IInv, PtrInv, contents
  <2>2. CASE ~e /\ deq_i
    <3>1. /\ empty_r' = FALSE /\ full_r' = FALSE
          /\ head_r' = Other(h) /\ tail_r' = h /\ mem' = mem
      BY <2>2, <1>4, <1>9
    <3>2. q' = <<mem[Other(h)]>>
      BY <2>2, <1>5, <1>9, <1>a, Zenon
    <3>3. QED
      BY <3>1, <3>2, <1>2, <1>6 DEF IInv, PtrInv, contents
  <2>3. CASE ~e /\ ~deq_i
    <3>1. UNCHANGED <<head_r, tail_r, empty_r, full_r, mem, q>>
      <4>1. full_r' = TRUE /\ empty_r' = FALSE
        BY <2>3, <1>3, <1>4, <1>9
      <4>2. QED
        BY <4>1, <2>3, <1>4, <1>5, <1>9
    <3>2. QED
      BY <3>1, <1>6 DEF IInv, PtrInv, contents
  <2>4. QED
    BY <2>1, <2>2, <2>3
<1>10. QED
  BY <1>7, <1>8, <1>9, ThreeStates

LEMMA NextInv == IInv /\ [Next]_vars => IInv'
<1> SUFFICES ASSUME IInv, [Next]_vars
             PROVE  IInv'
  OBVIOUS
<1>1. CASE Clk
  BY <1>1, ClkInv DEF Clk
<1>2. CASE Reset
  <2>1. /\ head_r' = 0 /\ tail_r' = 0 /\ empty_r' = TRUE /\ full_r' = FALSE
        /\ mem' \in [0 .. 1 -> Data \cup {Junk}] /\ q' = <<>>
    BY <1>2 DEF Reset, Edge, IInv, TypeOK
  <2>2. TypeOK'
    BY <2>1 DEF TypeOK
  <2>3. QED
    BY <2>1, <2>2 DEF IInv, PtrInv, contents
<1>3. CASE UNCHANGED vars
  BY <1>3 DEF vars, IInv, TypeOK, PtrInv, contents
<1>4. QED
  BY <1>1, <1>2, <1>3 DEF Next

THEOREM InductiveInvariant == Spec => []IInv
BY InitInv, NextInv, PTL DEF Spec

(* The flops are exact although they are updated without the pointers.     *)
THEOREM FlagsAreExact == Spec => []ExactFlags
BY FlagsFromInv, InductiveInvariant, PTL

(* Every edge is a step of a queue of depth two, or a stutter.  Replacing  *)
(* a word of a full queue is EnqDeq.                                       *)
LEMMA StepImplements ==
  IInv /\ IInv' /\ [Next]_vars => [Fifo!Next]_contents
<1> SUFFICES ASSUME IInv, IInv', [Next]_vars
             PROVE  [Fifo!Next]_contents
  OBVIOUS
<1>1. contents = q /\ contents' = q'
  BY DEF IInv
<1>2. ASSUME NEW v_i \in BOOLEAN, NEW deq_i \in BOOLEAN, NEW d \in Data,
             Legal(v_i, deq_i), Edge(FALSE, v_i, d, deq_i),
             q' = InFlight(v_i, d, deq_i)
      PROVE  [Fifo!Next]_contents
  <2> DEFINE e == enq(v_i)
  <2>1. /\ q \in Seq(Data)
        /\ deq_i => q # <<>>
        /\ e /\ ~deq_i => Len(q) < 2
    <3>1. q \in Seq(Data) /\ ExactFlags
      BY FlagsFromInv DEF IInv, TypeOK
    <3>2. (deq_i => v_o) /\ (e /\ ~deq_i => ready_param_o)
      BY <1>2 DEF Legal, enq, ready_param_o
    <3>3. QED
      BY <3>1, <3>2 DEF ExactFlags
  <2>2. CASE e /\ deq_i
    <3>1. Tail(Append(q, d)) = Append(Tail(q), d)
      BY <2>1, <2>2
    <3>2. Fifo!EnqDeq(d)
      BY <3>1, <2>1, <2>2, <1>1, <1>2 DEF InFlight, Enqueued, Fifo!EnqDeq
    <3>3. QED
      BY <3>2 DEF Fifo!Next
  <2>3. CASE e /\ ~deq_i
    <3>1. Fifo!Enq(d)
      BY <2>1, <2>3, <1>1, <1>2 DEF InFlight, Enqueued, Fifo!Enq
    <3>2. QED
      BY <3>1 DEF Fifo!Next
  <2>4. CASE ~e /\ deq_i
    BY <2>1, <2>4, <1>1, <1>2 DEF InFlight, Enqueued, Fifo!Deq, Fifo!Next
  <2>5. CASE ~e /\ ~deq_i
    BY <2>5, <1>1, <1>2 DEF InFlight, Enqueued
  <2>6. QED
    BY <2>2, <2>3, <2>4, <2>5
<1>3. CASE Clk
  BY <1>2, <1>3 DEF Clk
<1>4. CASE Reset
  BY <1>4, <1>1 DEF Reset, Fifo!Next, Fifo!Reset
<1>5. CASE UNCHANGED vars
  BY <1>5, <1>1 DEF vars
<1>6. QED
  BY <1>3, <1>4, <1>5 DEF Next

(* bsg_two_fifo implements a queue of depth two.                           *)
THEOREM Refinement == Spec => ImplementsFifo
<1>1. Init => Fifo!Init
  <2>1. Init => contents = <<>>
    BY DEF Init, TwoInit, contents
  <2>2. QED
    BY <2>1 DEF Fifo!Init
<1>2. QED
  BY <1>1, StepImplements, InductiveInvariant, PTL
  DEF Spec, ImplementsFifo, Fifo!Spec
=============================================================================
