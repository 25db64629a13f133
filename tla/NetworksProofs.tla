--------------------------- MODULE NetworksProofs ---------------------------
(***************************************************************************)
(* The wormhole router of any dimensions, routing matrix and traffic:      *)
(* packets stay whole.  And the mesh of any size and kind: the decoder,    *)
(* the routing matrices and the links agree, and the response goes back    *)
(* the way the request has come.                                           *)
(***************************************************************************)
EXTENDS MCNetworks, FiniteSetTheorems, SequenceTheorems, WellFoundedInduction, TLAPS

(* The flits that arrive at input i. *)
FlitsOf(i) == {f \in [p : Traffic, idx : Nat] : f.idx <= f.p.len /\ f.p.src = i}

RouterTypeOK ==
  /\ \A i \in Dirs : fifo[i] \in Seq(FlitsOf(i)) /\ Len(fifo[i]) <= 2
  /\ payload_ctr_r \in [Dirs -> Nat]
  /\ scheduled_r \in [Dirs -> SUBSET Dirs]
  /\ last_r \in [Dirs -> Nat]
  /\ \A i \in Dirs : tx[i] \in SUBSET FlitsOf(i)

(* Input i is in the middle of a packet that leaves through output o. *)
Holds(i, o) == i \in scheduled_r[o] /\ payload_ctr_r[i] # 0

(* An input in the middle of a packet holds one output, which waits for    *)
(* the flits that the input has counted, and no other output waits.        *)
PathInv ==
  /\ \A i \in Dirs : payload_ctr_r[i] # 0 => \E o \in Dirs : Holds(i, o)
  /\ \A i, o, o2 \in Dirs : Holds(i, o) /\ Holds(i, o2) => o = o2
  /\ \A i, o \in Dirs : Holds(i, o) =>
       \E f \in FlitsOf(i) :
         rx[o] = {f} /\ Route[f.p] = o /\ f.p.len - f.idx + 1 = payload_ctr_r[i]
  /\ \A o \in Dirs : rx[o] # {} => \E i \in Dirs : Holds(i, o)

(* The flit of input i that the outputs wait for, if any. *)
owed(i) == {f \in UNION {rx[o] : o \in Dirs} : f.p.src = i}

Follows(due, f) == IF due = {} THEN f.idx = 0 ELSE f \in due

(* The flits s, sent after `due` was expected, leave t expected. *)
Stream(due, s, t) ==
  /\ \A k \in 1 .. Len(s) :
       Follows(IF k = 1 THEN due ELSE Following(s[k - 1]), s[k])
  /\ t = IF s = <<>> THEN due ELSE Following(s[Len(s)])

(* What waits at an input continues what has left, and what arrives        *)
(* continues what waits.                                                   *)
StreamInv == \A i \in Dirs : Stream(owed(i), fifo[i], tx[i])

WormInv == RouterTypeOK /\ PathInv /\ StreamInv

-----------------------------------------------------------------------------
(* A set of naturals has a least element, and one bounded by m a greatest. *)
LEMMA LeastElement ==
  ASSUME NEW T \in SUBSET Nat, T # {}
  PROVE  \E x \in T : \A y \in T : x <= y
<1>1. PICK x \in T : \A y \in T : ~(<<y, x>> \in OpToRel(<, Nat))
  BY NatLessThanWellFounded, WFMin
<1>2. \A y \in T : ~(y < x)
  BY <1>1 DEF OpToRel
<1>3. \A y \in T : y \in Nat
  OBVIOUS
<1>4. \A y \in T : x <= y
  BY <1>2, <1>3
<1>5. QED
  BY <1>4

(* A set of naturals up to m has a greatest element. *)
LEMMA GreatestElement ==
  ASSUME NEW m \in Nat, NEW S \in SUBSET (0 .. m), S # {}
  PROVE  \E x \in S : \A y \in S : y <= x
<1> DEFINE T == {k \in Nat : k <= m /\ m - k \in S}
<1>1. T \in SUBSET Nat
  OBVIOUS
<1>2. T # {}
  <2>1. PICK y \in S : TRUE
    OBVIOUS
  <2>2. m - y \in Nat /\ m - y <= m /\ m - (m - y) = y
    OBVIOUS
  <2>3. m - y \in T
    BY <2>2
  <2>4. QED
    BY <2>3
<1>3. PICK k \in T : \A l \in T : k <= l
  <2> HIDE DEF T
  <2>1. QED
    BY <1>1, <1>2, LeastElement
<1>4. k \in Nat /\ m - k \in S
  OBVIOUS
<1>5. ASSUME NEW y \in S
      PROVE  y <= m - k
  <2>1. m - y \in Nat /\ m - y <= m /\ m - (m - y) = y /\ y \in Nat
    OBVIOUS
  <2>2. m - y \in T
    BY <2>1
  <2>3. k <= m - y
    BY <1>3, <2>2
  <2>4. QED
    BY <1>4, <2>1, <2>3
<1>6. QED
  BY <1>4, <1>5

(* The router decodes to a direction that leads nearer. *)
LEMMA DecodeTowards ==
  ASSUME NEW cord \in [1 .. dims_p -> Nat]
  PROVE  Toward(Decode(cord), cord)
<1>1. dims_p \in Nat /\ my_cord_i \in [1 .. dims_p -> Nat]
  BY RouterAssumption DEF RouterAssumption
<1>2. CASE cord = my_cord_i
  BY <1>2 DEF Decode, Toward
<1>3. CASE cord # my_cord_i
  <2> DEFINE D == {d \in 1 .. dims_p : cord[d] # my_cord_i[d]}
  <2>1. D # {}
    BY <1>1, <1>3
  <2>2. \E d \in D : \A e \in D : d <= e
    <3>1. D \in SUBSET Nat
      OBVIOUS
    <3>2. QED
      <4> HIDE DEF D
      <4>1. QED
        BY <2>1, <3>1, LeastElement
  <2>3. \E d \in D : \A e \in D : e <= d
    <3>1. D \in SUBSET (0 .. dims_p)
      BY <1>1
    <3>2. QED
      <4> HIDE DEF D
      <4>1. QED
        BY <1>1, <2>1, <3>1, GreatestElement
  <2> DEFINE Right(d) == /\ cord[d] # my_cord_i[d]
                         /\ \A e \in 1 .. dims_p :
                              cord[e] # my_cord_i[e] =>
                                IF reverse_order_p THEN e <= d ELSE d <= e
             dd == CHOOSE d \in 1 .. dims_p : Right(d)
  <2>4. \E d \in 1 .. dims_p : Right(d)
    BY <2>2, <2>3
  <2>5. dd \in 1 .. dims_p /\ Right(dd)
    <3> HIDE DEF Right
    <3>1. QED
      BY <2>4
  <2>6. Decode(cord) = IF cord[dd] < my_cord_i[dd] THEN 2 * dd - 1 ELSE 2 * dd
    BY <1>3 DEF Decode
  <2>7. dd \in 1 .. dims_p /\ cord[dd] # my_cord_i[dd]
    BY <2>5
  <2> HIDE DEF dd
  <2>71. dd \in Nat /\ dd # 0 /\ cord[dd] \in Nat /\ my_cord_i[dd] \in Nat
    BY <1>1, <2>7
  <2>8. CASE cord[dd] < my_cord_i[dd]
    <3>1. Decode(cord) = 2 * dd - 1
      BY <2>6, <2>8
    <3>2. 2 * dd - 1 # 0 /\ (2 * dd - 1 + 1) \div 2 = dd /\ (2 * dd - 1) % 2 = 1
      BY <2>71
    <3>3. QED
      BY <3>1, <3>2, <2>8 DEF Toward
  <2>9. CASE ~(cord[dd] < my_cord_i[dd])
    <3>1. Decode(cord) = 2 * dd
      BY <2>6, <2>9
    <3>2. 2 * dd # 0 /\ (2 * dd + 1) \div 2 = dd /\ (2 * dd) % 2 = 0
      BY <2>71
    <3>3. cord[dd] > my_cord_i[dd]
      BY <2>7, <2>71, <2>9
    <3>4. QED
      BY <3>1, <3>2, <3>3 DEF Toward
  <2>10. QED
    BY <2>8, <2>9
<1>4. QED
  BY <1>2, <1>3

-----------------------------------------------------------------------------
(* The arbiter of an output.                                               *)

(* The arbiter chooses one of the requests, wherever its pointer is. *)
LEMMA TagRequests ==
  ASSUME NEW n \in Nat \ {0}, NEW last \in Nat, NEW reqs \in SUBSET Nat, reqs # {}
  PROVE  tag_o(n, last, reqs) \in reqs
<1> DEFINE T == {Turn(n, last, j) : j \in reqs}
<1>1. T \in SUBSET Nat /\ T # {}
  <2>1. \A j \in reqs : Turn(n, last, j) \in Nat
    BY DEF Turn
  <2>2. QED
    BY <2>1
<1>2. PICK x \in T : \A y \in T : x <= y
  <2> HIDE DEF T
  <2> QED
    BY <1>1, LeastElement
<1>3. \E i \in reqs : \A j \in reqs : Turn(n, last, i) <= Turn(n, last, j)
  BY <1>2
<1>4. QED
  BY <1>3 DEF tag_o

(* The concentrated position of an input is its own. *)
LEMMA RankIsOwn ==
  ASSUME NEW o \in Dirs
  PROVE  /\ Width[o] \in Nat
         /\ \A i \in Ins[o] : Rank[o][i] \in 0 .. Width[o] - 1
         /\ \A i, j \in Ins[o] : Rank[o][i] = Rank[o][j] => i = j
<1> DEFINE Below(i) == {j \in Ins[o] : j < i}
<1>1. Ins[o] \subseteq 0 .. 2 * dims_p /\ 2 * dims_p \in Nat
  BY RouterAssumption DEF Ins, Dirs, RouterAssumption
<1>2. IsFiniteSet(Ins[o])
  <2>1. IsFiniteSet(0 .. 2 * dims_p)
    BY <1>1, FS_Interval
  <2>2. QED
    BY <1>1, <2>1, FS_Subset
<1>3. ASSUME NEW i \in Ins[o]
      PROVE  /\ Below(i) \in SUBSET Ins[o] /\ i \notin Below(i)
             /\ IsFiniteSet(Below(i)) /\ Cardinality(Below(i)) \in Nat
             /\ Rank[o][i] = Cardinality(Below(i))
  <2>1. Below(i) \in SUBSET Ins[o] /\ i \notin Below(i)
    BY <1>1
  <2>2. IsFiniteSet(Below(i)) /\ Cardinality(Below(i)) \in Nat
    BY <2>1, <1>2, FS_Subset, FS_CardinalityType
  <2>3. Rank[o][i] = Cardinality(Below(i))
    BY DEF Rank
  <2>4. QED
    BY <2>1, <2>2, <2>3
<1>4. Width[o] = Cardinality(Ins[o]) /\ Width[o] \in Nat
  BY <1>2, FS_CardinalityType DEF Width
<1>5. ASSUME NEW i \in Ins[o]
      PROVE  Rank[o][i] \in 0 .. Width[o] - 1
  <2>1. Below(i) \in SUBSET Ins[o] /\ Below(i) # Ins[o]
    BY <1>3
  <2>2. Cardinality(Below(i)) <= Cardinality(Ins[o]) /\ Cardinality(Below(i)) # Cardinality(Ins[o])
    <3> HIDE DEF Below
    <3>1. QED
      BY <2>1, <1>2, FS_Subset
  <2>3. Cardinality(Below(i)) \in Nat /\ Rank[o][i] = Cardinality(Below(i))
    BY <1>3
  <2> HIDE DEF Below
  <2>4. QED
    BY <2>2, <2>3, <1>4
<1>6. ASSUME NEW i \in Ins[o], NEW j \in Ins[o], i < j
      PROVE  Rank[o][i] # Rank[o][j]
  <2>1. Below(i) \in SUBSET Below(j) /\ i \in Below(j)
    BY <1>1, <1>6
  <2>2. Below(i) # Below(j)
    BY <2>1, <1>3
  <2>3. Cardinality(Below(i)) # Cardinality(Below(j))
    <3>1. IsFiniteSet(Below(j))
      BY <1>3
    <3> HIDE DEF Below
    <3>2. QED
      BY <2>1, <2>2, <3>1, FS_Subset
  <2>4. QED
    BY <2>3, <1>3
<1>7. \A i, j \in Ins[o] : i \in Int /\ j \in Int
  BY <1>1
<1>8. QED
  BY <1>4, <1>5, <1>6, <1>7

(* An output grants one of its requesters, when none holds it. *)
LEMMA GrantsOne ==
  ASSUME RouterTypeOK, NEW o \in Dirs
  PROVE  /\ reqs_li(o) \in SUBSET (0 .. Width[o] - 1)
         /\ \A i \in grants_lo(o) :
              i \in requesters(o) /\ grants_lo(o) = {i} /\ free_to_schedule(o)
         /\ free_to_schedule(o) /\ requesters(o) # {} => grants_lo(o) # {}
<1> DEFINE tag == tag_o(Width[o], last_r[o], reqs_li(o))
<1>1. requesters(o) \subseteq Ins[o]
  BY DEF requesters
<1>2. /\ Width[o] \in Nat
      /\ \A i \in Ins[o] : Rank[o][i] \in 0 .. Width[o] - 1
      /\ \A i, j \in Ins[o] : Rank[o][i] = Rank[o][j] => i = j
  BY RankIsOwn
<1>3. reqs_li(o) \in SUBSET (0 .. Width[o] - 1)
  BY <1>1, <1>2 DEF reqs_li
<1>4. ASSUME requesters(o) # {}
      PROVE  \E i \in requesters(o) : Rank[o][i] = tag
  <2>1. reqs_li(o) # {} /\ reqs_li(o) \in SUBSET Nat
    BY <1>3, <1>4, <1>2 DEF reqs_li
  <2>2. Width[o] \in Nat \ {0}
    BY <1>1, <1>2, <1>4
  <2>3. last_r[o] \in Nat
    BY DEF RouterTypeOK
  <2>4. tag \in reqs_li(o)
    <3> HIDE DEF tag
    <3>1. tag_o(Width[o], last_r[o], reqs_li(o)) \in reqs_li(o)
      BY <2>1, <2>2, <2>3, TagRequests
    <3>2. QED
      BY <3>1 DEF tag
  <2>5. QED
    BY <2>4 DEF reqs_li
<1>5. ASSUME free_to_schedule(o), requesters(o) # {}
      PROVE  \E i \in requesters(o) : grants_lo(o) = {i}
  <2>1. PICK i \in requesters(o) : Rank[o][i] = tag
    BY <1>4, <1>5
  <2>2. grants_lo(o) = {j \in Ins[o] : Rank[o][j] = tag}
    BY <1>5 DEF grants_lo
  <2> HIDE DEF tag
  <2>3. grants_lo(o) = {i}
    BY <2>1, <2>2, <1>1, <1>2
  <2>4. QED
    BY <2>3
<1>6. ~(free_to_schedule(o) /\ requesters(o) # {}) => grants_lo(o) = {}
  BY DEF grants_lo
<1>7. QED
  BY <1>3, <1>5, <1>6

-----------------------------------------------------------------------------
(* What an output sends.                                                   *)

(* The output that an input holds waits for what the input owes; an input  *)
(* between packets owes nothing.                                           *)
Owing ==
  \A i \in Dirs :
    /\ payload_ctr_r[i] = 0 => owed(i) = {}
    /\ \A o \in Dirs : Holds(i, o) =>
         owed(i) = rx[o] /\ \A j \in Dirs : Holds(j, o) => j = i

(* Between flits of a packet an input is owed what its output waits for,   *)
(* and nothing when its counter is zero.                                   *)
LEMMA OwedIs == PathInv => Owing
<1> SUFFICES ASSUME PathInv, NEW i \in Dirs
             PROVE  /\ payload_ctr_r[i] = 0 => owed(i) = {}
                    /\ \A o \in Dirs : Holds(i, o) =>
                         owed(i) = rx[o] /\ \A j \in Dirs : Holds(j, o) => j = i
  BY DEF Owing
<1>1. ASSUME NEW o \in Dirs, NEW f \in rx[o]
      PROVE  Holds(f.p.src, o) /\ rx[o] = {f} /\ f.p.src \in Dirs
  <2>1. PICK j \in Dirs : Holds(j, o)
    BY <1>1 DEF PathInv
  <2>2. PICK g \in FlitsOf(j) : rx[o] = {g}
    BY <2>1 DEF PathInv
  <2>3. g = f /\ f.p.src = j
    BY <2>2, <1>1 DEF FlitsOf
  <2>4. QED
    BY <2>1, <2>2, <2>3
<1>2. ASSUME payload_ctr_r[i] = 0
      PROVE  owed(i) = {}
  BY <1>1, <1>2 DEF owed, Holds
<1>3. ASSUME NEW o \in Dirs, Holds(i, o)
      PROVE  owed(i) = rx[o] /\ \A j \in Dirs : Holds(j, o) => j = i
  <2>1. PICK f \in FlitsOf(i) : rx[o] = {f}
    BY <1>3 DEF PathInv
  <2>2. f.p.src = i
    BY DEF FlitsOf
  <2>3. \A j \in Dirs : Holds(j, o) => j = i
    <3>1. ASSUME NEW j \in Dirs, Holds(j, o)
          PROVE  j = i
      <4>1. PICK g \in FlitsOf(j) : rx[o] = {g}
        BY <3>1 DEF PathInv
      <4>2. g.p.src = j
        BY DEF FlitsOf
      <4>3. QED
        BY <4>1, <4>2, <2>1, <2>2
    <3>2. QED
      BY <3>1
  <2>4. ASSUME NEW o2 \in Dirs, NEW g \in rx[o2], g.p.src = i
        PROVE  g = f
    <3>1. Holds(i, o2)
      BY <1>1, <2>4
    <3>2. o2 = o
      BY <3>1, <1>3 DEF PathInv
    <3>3. QED
      BY <3>2, <2>1, <2>4
  <2>5. owed(i) = {f}
    BY <2>1, <2>2, <2>4 DEF owed
  <2>6. QED
    BY <2>1, <2>3, <2>5
<1>4. QED
  BY <1>2, <1>3

(* What an output that selects input i does: it takes a header while it    *)
(* is free, or the flit it waits for.                                      *)
LEMMA Selected ==
  ASSUME WormInv, NEW o \in Dirs, NEW i \in scheduled_n(o)
  PROVE  /\ i \in Dirs /\ scheduled_n(o) = {i}
         /\ \/ /\ payload_ctr_r[i] = 0 /\ valid(i)
               /\ Route[Head(fifo[i]).p] = o /\ rx[o] = {}
               /\ \A j \in Dirs : ~Holds(j, o)
            \/ Holds(i, o)
<1>1. RouterTypeOK /\ PathInv /\ scheduled_r[o] \in SUBSET Dirs
  BY DEF WormInv, RouterTypeOK
<1>2. \A j : j \in scheduled_with_release(o) <=> j \in Dirs /\ Holds(j, o)
  BY <1>1 DEF scheduled_with_release, Holds, counter_expired
<1>3. CASE i \in grants_lo(o)
  <2>1. i \in requesters(o) /\ grants_lo(o) = {i} /\ scheduled_with_release(o) = {}
    BY <1>1, <1>3, GrantsOne DEF free_to_schedule
  <2>2. i \in Dirs /\ o \in reqs_o(i)
    BY <2>1 DEF requesters, Ins
  <2>3. payload_ctr_r[i] = 0 /\ valid(i) /\ Route[Head(fifo[i]).p] = o
    BY <2>2 DEF reqs_o, counter_expired
  <2>4. \A j \in Dirs : ~Holds(j, o)
    BY <2>1, <1>2
  <2>5. rx[o] = {}
    BY <2>4, <1>1 DEF PathInv
  <2>6. scheduled_n(o) = {i}
    BY <2>1 DEF scheduled_n
  <2>7. QED
    BY <2>2, <2>3, <2>4, <2>5, <2>6
<1>4. CASE i \in scheduled_with_release(o)
  <2>1. i \in Dirs /\ Holds(i, o)
    BY <1>2, <1>4
  <2>2. scheduled_with_release(o) = {i}
    BY <2>1, <1>1, <1>2, OwedIs DEF Owing
  <2>3. grants_lo(o) = {}
    BY <1>4 DEF grants_lo, free_to_schedule
  <2>4. QED
    BY <2>1, <2>2, <2>3 DEF scheduled_n
<1>5. QED
  BY <1>3, <1>4 DEF scheduled_n

(* No two outputs select the flit of one input, and the flit belongs where *)
(* it is sent.                                                             *)
LEMMA SentOnce ==
  ASSUME WormInv, NEW o \in Dirs, NEW i \in sending(o)
  PROVE  /\ i \in Dirs /\ sending(o) = {i} /\ scheduled_n(o) = {i}
         /\ \A o2 \in Dirs : i \in sending(o2) => o2 = o
         /\ Head(fifo[i]) \in FlitsOf(i) /\ fifo[i] # <<>>
         /\ Route[Head(fifo[i]).p] = o
         /\ IF payload_ctr_r[i] = 0 THEN Head(fifo[i]).idx = 0 /\ rx[o] = {}
            ELSE /\ Holds(i, o) /\ rx[o] = {Head(fifo[i])}
                 /\ Head(fifo[i]).p.len - Head(fifo[i]).idx + 1 = payload_ctr_r[i]
<1>1. i \in scheduled_n(o) /\ fifo[i] # <<>>
  BY DEF sending, valid
<1>2. /\ i \in Dirs /\ scheduled_n(o) = {i}
      /\ \/ /\ payload_ctr_r[i] = 0 /\ valid(i)
            /\ Route[Head(fifo[i]).p] = o /\ rx[o] = {}
            /\ \A j \in Dirs : ~Holds(j, o)
         \/ Holds(i, o)
  BY <1>1, Selected
<1>3. sending(o) = {i}
  BY <1>2 DEF sending
<1>4. fifo[i] \in Seq(FlitsOf(i)) /\ Len(fifo[i]) >= 1 /\ Head(fifo[i]) = fifo[i][1]
      /\ Head(fifo[i]) \in FlitsOf(i)
  BY <1>1, <1>2 DEF WormInv, RouterTypeOK
<1>5. Follows(owed(i), Head(fifo[i]))
  <2>1. Stream(owed(i), fifo[i], tx[i])
    BY <1>2 DEF WormInv, StreamInv
  <2>2. 1 \in 1 .. Len(fifo[i])
    BY <1>4
  <2>3. QED
    BY <2>1, <2>2, <1>4 DEF Stream
<1>6. CASE payload_ctr_r[i] = 0
  <2>1. Route[Head(fifo[i]).p] = o /\ rx[o] = {}
    BY <1>2, <1>6 DEF Holds
  <2>2. owed(i) = {}
    BY <1>2, <1>6, OwedIs DEF WormInv, Owing
  <2>3. Head(fifo[i]).idx = 0
    BY <1>5, <2>2 DEF Follows
  <2>4. ASSUME NEW o2 \in Dirs, i \in sending(o2)
        PROVE  o2 = o
    <3>1. i \in scheduled_n(o2)
      BY <2>4 DEF sending
    <3>2. Route[Head(fifo[i]).p] = o2
      BY <3>1, <1>6, Selected DEF Holds
    <3>3. QED
      BY <3>2, <2>1
  <2>5. QED
    BY <1>1, <1>2, <1>3, <1>4, <1>6, <2>1, <2>3, <2>4
<1>7. CASE payload_ctr_r[i] # 0
  <2>1. Holds(i, o)
    BY <1>2, <1>7
  <2>2. PICK f \in FlitsOf(i) :
          rx[o] = {f} /\ Route[f.p] = o /\ f.p.len - f.idx + 1 = payload_ctr_r[i]
    BY <2>1, <1>2 DEF WormInv, PathInv
  <2>3. owed(i) = {f}
    BY <2>1, <2>2, <1>2, OwedIs DEF WormInv, Owing
  <2>4. Head(fifo[i]) = f
    BY <1>5, <2>3 DEF Follows
  <2>5. ASSUME NEW o2 \in Dirs, i \in sending(o2)
        PROVE  o2 = o
    <3>1. i \in scheduled_n(o2)
      BY <2>5 DEF sending
    <3>2. Holds(i, o2)
      BY <3>1, <1>7, Selected
    <3>3. QED
      BY <3>2, <2>1, <1>2 DEF WormInv, PathInv
  <2>6. QED
    BY <1>1, <1>2, <1>3, <1>4, <1>7, <2>1, <2>2, <2>4, <2>5
<1>8. QED
  BY <1>6, <1>7

-----------------------------------------------------------------------------
(* The flits at an input.                                                  *)

(* When the first flit has left, the rest continues it. *)
LEMMA StreamTail ==
  ASSUME NEW F, NEW due, NEW s \in Seq(F), NEW t, Stream(due, s, t), s # <<>>
  PROVE  Stream(Following(Head(s)), Tail(s), t)
<1>1. /\ Len(s) \in Nat /\ Len(s) >= 1 /\ Len(Tail(s)) = Len(s) - 1 /\ Head(s) = s[1]
      /\ \A k \in 1 .. Len(s) - 1 : Tail(s)[k] = s[k + 1]
  OBVIOUS
<1>2. /\ \A k \in 1 .. Len(s) :
           Follows(IF k = 1 THEN due ELSE Following(s[k - 1]), s[k])
      /\ t = Following(s[Len(s)])
  BY DEF Stream
<1>3. ASSUME NEW k \in 1 .. Len(Tail(s))
      PROVE  Follows(IF k = 1 THEN Following(Head(s)) ELSE Following(Tail(s)[k - 1]), Tail(s)[k])
  <2>1. k \in 1 .. Len(s) - 1 /\ k + 1 \in 1 .. Len(s) /\ k + 1 # 1 /\ k + 1 - 1 = k
    BY <1>1
  <2>2. Follows(Following(s[k]), s[k + 1])
    BY <2>1, <1>2
  <2>3. Tail(s)[k] = s[k + 1]
    BY <2>1, <1>1
  <2>4. (IF k = 1 THEN Following(Head(s)) ELSE Following(Tail(s)[k - 1])) = Following(s[k])
    <3>1. CASE k = 1
      BY <3>1, <1>1
    <3>2. CASE k # 1
      <4>1. k - 1 \in 1 .. Len(s) - 1 /\ k - 1 + 1 = k
        BY <3>2, <2>1
      <4>2. Tail(s)[k - 1] = s[k]
        BY <4>1, <1>1
      <4>3. QED
        BY <4>2, <3>2
    <3>3. QED
      BY <3>1, <3>2
  <2>5. QED
    BY <2>2, <2>3, <2>4
<1>4. t = IF Tail(s) = <<>> THEN Following(Head(s)) ELSE Following(Tail(s)[Len(Tail(s))])
  <2>1. CASE Len(s) = 1
    <3>1. Tail(s) \in Seq(F) /\ Len(Tail(s)) = 0
      BY <2>1, <1>1
    <3>2. Tail(s) = <<>>
      BY <3>1, EmptySeq
    <3>3. QED
      BY <3>2, <2>1, <1>1, <1>2
  <2>2. CASE Len(s) # 1
    <3>1. Tail(s) # <<>> /\ Len(s) - 1 \in 1 .. Len(s) - 1 /\ Len(s) - 1 + 1 = Len(s)
      BY <2>2, <1>1
    <3>2. Tail(s)[Len(Tail(s))] = s[Len(s)]
      BY <3>1, <1>1
    <3>3. QED
      BY <3>1, <3>2, <1>2
  <2>3. QED
    BY <2>1, <2>2
<1>5. QED
  BY <1>3, <1>4 DEF Stream

(* A flit that continues the last one is one more of the stream. *)
LEMMA StreamAppend ==
  ASSUME NEW F, NEW due, NEW s \in Seq(F), NEW t, NEW f \in F,
         Stream(due, s, t), Follows(t, f)
  PROVE  Stream(due, Append(s, f), Following(f))
<1>1. /\ Len(s) \in Nat /\ Len(Append(s, f)) = Len(s) + 1 /\ Append(s, f) # <<>>
      /\ \A k \in 1 .. Len(s) : Append(s, f)[k] = s[k]
      /\ Append(s, f)[Len(s) + 1] = f
  OBVIOUS
<1>2. /\ \A k \in 1 .. Len(s) :
           Follows(IF k = 1 THEN due ELSE Following(s[k - 1]), s[k])
      /\ t = IF s = <<>> THEN due ELSE Following(s[Len(s)])
  BY DEF Stream
<1> DEFINE a == Append(s, f)
<1>3. ASSUME NEW k \in 1 .. Len(a)
      PROVE  Follows(IF k = 1 THEN due ELSE Following(a[k - 1]), a[k])
  <2>1. CASE k \in 1 .. Len(s)
    <3>1. a[k] = s[k] /\ (k # 1 => k - 1 \in 1 .. Len(s) /\ a[k - 1] = s[k - 1])
      BY <2>1, <1>1
    <3>2. (IF k = 1 THEN due ELSE Following(a[k - 1])) = IF k = 1 THEN due ELSE Following(s[k - 1])
      BY <3>1
    <3>3. QED
      BY <3>1, <3>2, <2>1, <1>2
  <2>2. CASE k = Len(s) + 1
    <3>1. a[k] = f
      BY <2>2, <1>1
    <3>2. CASE Len(s) = 0
      <4>1. s = <<>> /\ k = 1
        BY <3>2, <2>2
      <4>2. QED
        BY <4>1, <3>1, <1>2
    <3>3. CASE Len(s) # 0
      <4>1. s # <<>> /\ k # 1 /\ k - 1 = Len(s) /\ Len(s) \in 1 .. Len(s)
        BY <3>3, <2>2, <1>1
      <4>2. a[k - 1] = s[Len(s)]
        BY <4>1, <1>1
      <4>3. QED
        BY <4>1, <4>2, <3>1, <1>2
    <3>4. QED
      BY <3>2, <3>3
  <2>3. QED
    BY <2>1, <2>2, <1>1
<1>4. a # <<>> /\ a[Len(a)] = f
  BY <1>1
<1>5. QED
  BY <1>3, <1>4 DEF Stream

(* The next flit of a packet, if there is one. *)
LEMMA FollowingIs ==
  ASSUME NEW i \in Dirs, NEW f \in FlitsOf(i)
  PROVE  /\ Following(f) \in SUBSET FlitsOf(i)
         /\ f.p \in Traffic /\ f.p.len \in Nat /\ f.idx \in Nat /\ f.idx <= f.p.len /\ f.p.src = i
         /\ f.idx = f.p.len => Following(f) = {}
         /\ f.idx # f.p.len => \E g \in FlitsOf(i) :
              Following(f) = {g} /\ g.p = f.p /\ g.idx = f.idx + 1
<1>1. f.p \in Traffic /\ f.p.len \in Nat /\ f.idx \in Nat /\ f.idx <= f.p.len /\ f.p.src = i
  BY RouterAssumption DEF FlitsOf, RouterAssumption
<1>2. f = [p |-> f.p, idx |-> f.idx]
  BY DEF FlitsOf
<1>3. CASE f.idx < f.p.len
  <2> DEFINE g == [p |-> f.p, idx |-> f.idx + 1]
  <2>1. g \in FlitsOf(i) /\ g.p = f.p /\ g.idx = f.idx + 1
    BY <1>1, <1>3 DEF FlitsOf
  <2>2. [f EXCEPT !.idx = f.idx + 1] = g
    BY <1>2
  <2>3. Following(f) = {g}
    BY <1>3, <2>2 DEF Following
  <2> HIDE DEF g
  <2>4. QED
    BY <1>1, <1>3, <2>1, <2>3
<1>4. CASE ~(f.idx < f.p.len)
  BY <1>1, <1>4 DEF Following
<1>5. QED
  BY <1>3, <1>4

(* What arrives at an input has room and continues its packet. *)
LEMMA Arriving ==
  ASSUME WormInv, NEW new \in Arrivals, NEW i \in Dirs,
         {f \in new : f.p.src = i} # {}
  PROVE  \E f \in FlitsOf(i) :
           /\ {g \in new : g.p.src = i} = {f}
           /\ Len(fifo[i]) <= 2 /\ Len(fifo[i]) # 2 /\ Follows(tx[i], f)
<1>1. PICK f \in new : f.p.src = i
  OBVIOUS
<1>2. {g \in new : g.p.src = i} = {f}
  BY <1>1 DEF Arrivals
<1>3. ASSUME NEW j \in Dirs, NEW g \in Coming(j)
      PROVE  g \in FlitsOf(j) /\ Len(fifo[j]) # 2 /\ Follows(tx[j], g)
  <2>1. Len(fifo[j]) # 2
    BY <1>3 DEF Coming
  <2>2. CASE tx[j] # {}
    BY <1>3, <2>1, <2>2 DEF Coming, Follows, WormInv, RouterTypeOK
  <2>3. CASE tx[j] = {}
    <3>1. PICK p \in Traffic : p.src = j /\ g = [p |-> p, idx |-> 0]
      BY <1>3, <2>1, <2>3 DEF Coming
    <3>2. p.len \in Nat
      BY RouterAssumption DEF RouterAssumption
    <3>3. g.p = p /\ g.idx = 0 /\ g \in [p : Traffic, idx : Nat]
      BY <3>1
    <3>4. QED
      BY <2>1, <2>3, <3>1, <3>2, <3>3 DEF FlitsOf, Follows
  <2>4. QED
    BY <2>2, <2>3
<1>4. PICK j \in Dirs : f \in Coming(j)
  BY DEF Arrivals
<1>5. j = i
  BY <1>1, <1>3, <1>4 DEF FlitsOf
<1>6. f \in FlitsOf(i) /\ Len(fifo[i]) # 2 /\ Follows(tx[i], f) /\ Len(fifo[i]) <= 2
  BY <1>3, <1>4, <1>5 DEF WormInv, RouterTypeOK
<1>7. QED
  BY <1>2, <1>6

-----------------------------------------------------------------------------
(* One clock edge.                                                         *)

Sent(i, ready_and_i) == \E o \in ready_and_i : i \in sending(o)

(* What an edge does at each input and output. *)
LEMMA EdgeMoves ==
  ASSUME WormInv, NEW new \in Arrivals,
         NEW ready_and_i \in SUBSET Offering, Edge(new, ready_and_i)
  PROVE  /\ payload_ctr_r' = [i \in Dirs |-> payload_ctr_r'[i]]
         /\ scheduled_r' = [o \in Dirs |-> scheduled_n(o)]
         /\ last_r' \in [Dirs -> Nat]
         /\ \A o \in ready_and_i : \E i \in Dirs :
              /\ sending(o) = {i} /\ rx'[o] = Following(Head(fifo[i]))
              /\ payload_ctr_r'[i] = Head(fifo[i]).p.len - Head(fifo[i]).idx
         /\ \A o \in Dirs \ ready_and_i : rx'[o] = rx[o]
         /\ \A i \in Dirs : ~Sent(i, ready_and_i) => payload_ctr_r'[i] = payload_ctr_r[i]
         /\ \A i \in Dirs : \E rest :
              /\ rest = IF Sent(i, ready_and_i) THEN Tail(fifo[i]) ELSE fifo[i]
              /\ \/ fifo'[i] = rest /\ tx'[i] = tx[i]
                 \/ \E f \in FlitsOf(i) :
                      /\ Len(fifo[i]) <= 2 /\ Len(fifo[i]) # 2 /\ Follows(tx[i], f)
                      /\ fifo'[i] = Append(rest, f) /\ tx'[i] = Following(f)
<1> DEFINE At(i) == {f \in new : f.p.src = i}
<1>1. PICK out \in {[o \in Dirs |-> sending(o)]} :
        /\ fifo' = [i \in Dirs |->
                LET rest == IF i \in UNION {out[o] : o \in ready_and_i}
                            THEN Tail(fifo[i]) ELSE fifo[i]
                IN  IF At(i) = {} THEN rest
                    ELSE Append(rest, CHOOSE f \in At(i) : TRUE)]
        /\ payload_ctr_r' = [i \in Dirs |-> Counter(i, i \in UNION {out[o] : o \in ready_and_i})]
        /\ scheduled_r' = [o \in Dirs |-> scheduled_n(o)]
        /\ last_r' = [o \in Dirs |-> Pointer(o, o \in ready_and_i /\ out[o] # {})]
        /\ tx' = [i \in Dirs |-> IF At(i) = {} THEN tx[i]
                                 ELSE UNION {Following(f) : f \in At(i)}]
        /\ rx' = [o \in Dirs |-> IF o \in ready_and_i
                    THEN UNION {Following(f) : f \in [o2 \in Dirs |-> {Head(fifo[i]) : i \in out[o2]}][o]}
                    ELSE rx[o]]
  BY Zenon DEF Edge
<1>2. /\ ready_and_i \in SUBSET Dirs
      /\ \A o \in Dirs : out[o] = sending(o)
      /\ \A o \in ready_and_i : sending(o) # {}
  BY DEF Offering
<1>3. \A i : i \in UNION {out[o] : o \in ready_and_i} <=> Sent(i, ready_and_i)
  BY <1>2 DEF Sent
<1>4. \A i \in Dirs : payload_ctr_r'[i] = Counter(i, Sent(i, ready_and_i))
  BY <1>1, <1>3 DEF Counter
<1>5. last_r' \in [Dirs -> Nat]
  <2>1. ASSUME NEW o \in Dirs, o \in ready_and_i => sending(o) # {}
        PROVE  Pointer(o, o \in ready_and_i /\ out[o] # {}) \in Nat
    <3> DEFINE n == Width[o]
               last == last_r[o]
               reqs == reqs_li(o)
               yumi == free_to_schedule(o) /\ o \in ready_and_i /\ out[o] # {}
    <3>1. n \in Nat /\ last \in Nat /\ reqs \in SUBSET (0 .. n - 1)
      BY RankIsOwn, GrantsOne DEF WormInv, RouterTypeOK
    <3>2. Pointer(o, o \in ready_and_i /\ out[o] # {}) = LastNext(n, Policy, last, reqs, yumi)
      BY DEF Pointer
    <3>3. Policy = "plain" \/ Policy = "hold_on_valid"
      BY DEF Policy
    <3> HIDE DEF n, last, reqs
    <3>4. tag_o(n, last, reqs) \in Nat /\ (reqs # {} => n \in Nat \ {0})
      <4>1. CASE reqs = {}
        BY <4>1 DEF tag_o
      <4>2. CASE reqs # {}
        <5>. PICK x \in reqs : TRUE
          BY <4>2
        <5>0. x \in 0 .. n - 1
          BY <3>1
        <5>1. n \in Nat \ {0} /\ reqs \in SUBSET Nat
          BY <5>0, <3>1
        <5>2. tag_o(n, last, reqs) \in reqs
          BY <4>2, <5>1, <3>1, TagRequests
        <5>3. QED
          BY <5>1, <5>2
      <4>3. QED
        BY <4>1, <4>2
    <3> DEFINE tag == tag_o(n, last, reqs)
    <3>5. reqs # {} => (tag - 1) % n \in Nat
      <4>1. ASSUME NEW x \in Int, NEW k \in Nat \ {0} PROVE x % k \in Nat
        OBVIOUS
      <4> HIDE DEF tag
      <4>2. QED
        BY <3>4, <4>1 DEF tag
    <3>6. LastNext(n, Policy, last, reqs, yumi) \in Nat
      <4> HIDE DEF yumi
      <4>1. tag \in Nat /\ last \in Nat
        BY <3>4, <3>1
      <4>2. CASE n = 1
        BY <4>2 DEF LastNext
      <4>3. CASE n # 1 /\ Policy = "plain"
        BY <4>1, <4>3 DEF LastNext
      <4>4. CASE n # 1 /\ Policy = "hold_on_valid"
        BY <4>1, <4>4, <3>5 DEF LastNext
      <4>5. QED
        BY <4>2, <4>3, <4>4, <3>3
    <3>7. QED
      BY <3>2, <3>6
  <2>2. QED
    BY <1>1, <1>2, <2>1
<1>6. ASSUME NEW o \in ready_and_i
      PROVE  \E i \in Dirs :
              /\ sending(o) = {i} /\ rx'[o] = Following(Head(fifo[i]))
              /\ payload_ctr_r'[i] = Head(fifo[i]).p.len - Head(fifo[i]).idx
  <2>1. PICK i : i \in sending(o)
    BY <1>2
  <2>2. o \in Dirs /\ i \in Dirs /\ sending(o) = {i} /\ Sent(i, ready_and_i)
    BY <1>2, <2>1, SentOnce DEF Sent
  <2> DEFINE h == Head(fifo[i])
  <2>3. h \in FlitsOf(i)
    BY <1>2, <2>1, SentOnce
  <2>4. h.p.len \in Nat /\ h.idx \in Nat
    BY <2>2, <2>3, FollowingIs
  <2>5. IF payload_ctr_r[i] = 0 THEN h.idx = 0 ELSE h.p.len - h.idx + 1 = payload_ctr_r[i]
    BY <1>2, <2>1, SentOnce
  <2>6. payload_ctr_r'[i] = IF payload_ctr_r[i] = 0 THEN h.p.len ELSE payload_ctr_r[i] - 1
    BY <1>4, <2>2 DEF Counter, counter_expired
  <2>7. rx'[o] = Following(h)
    <3>1. [o2 \in Dirs |-> {Head(fifo[j]) : j \in out[o2]}][o] = {h}
      BY <1>2, <2>2
    <3>2. rx'[o] = UNION {Following(f) : f \in {h}}
      BY <1>1, <1>2, <3>1
    <3>3. QED
      BY <3>2
  <2> HIDE DEF h
  <2>8. payload_ctr_r'[i] = h.p.len - h.idx
    BY <2>4, <2>5, <2>6
  <2>9. QED
    BY <2>2, <2>7, <2>8 DEF h
<1>7. \A o \in Dirs \ ready_and_i : rx'[o] = rx[o]
  BY <1>1
<1>8. \A i \in Dirs : ~Sent(i, ready_and_i) => payload_ctr_r'[i] = payload_ctr_r[i]
  BY <1>4 DEF Counter
<1>9. ASSUME NEW i \in Dirs
      PROVE  \E rest :
              /\ rest = IF Sent(i, ready_and_i) THEN Tail(fifo[i]) ELSE fifo[i]
              /\ \/ fifo'[i] = rest /\ tx'[i] = tx[i]
                 \/ \E f \in FlitsOf(i) :
                      /\ Len(fifo[i]) <= 2 /\ Len(fifo[i]) # 2 /\ Follows(tx[i], f)
                      /\ fifo'[i] = Append(rest, f) /\ tx'[i] = Following(f)
  <2> DEFINE rest == IF Sent(i, ready_and_i) THEN Tail(fifo[i]) ELSE fifo[i]
  <2>1. /\ fifo'[i] = IF At(i) = {} THEN rest
                      ELSE Append(rest, CHOOSE f \in At(i) : TRUE)
        /\ tx'[i] = IF At(i) = {} THEN tx[i] ELSE UNION {Following(f) : f \in At(i)}
    BY <1>1, <1>3
  <2>2. CASE At(i) = {}
    BY <2>1, <2>2
  <2>3. CASE At(i) # {}
    <3>1. PICK f \in FlitsOf(i) :
            /\ At(i) = {f}
            /\ Len(fifo[i]) <= 2 /\ Len(fifo[i]) # 2 /\ Follows(tx[i], f)
      BY <2>3, Arriving
    <3> HIDE DEF At, rest
    <3>2. fifo'[i] = Append(rest, f) /\ tx'[i] = Following(f)
      BY <2>1, <3>1
    <3>3. QED
      BY <3>1, <3>2 DEF rest
  <2>4. QED
    BY <2>2, <2>3
<1>10. payload_ctr_r' = [i \in Dirs |-> payload_ctr_r'[i]]
       /\ scheduled_r' = [o \in Dirs |-> scheduled_n(o)]
  BY <1>1
<1>11. QED
  BY <1>5, <1>6, <1>7, <1>8, <1>9, <1>10

(* Who holds an output after an edge: who held it and sent nothing, or who *)
(* has just sent to it a flit that is not its packet's last.               *)
LEMMA HoldsAfter ==
  ASSUME WormInv, NEW new \in Arrivals,
         NEW ready_and_i \in SUBSET Offering, Edge(new, ready_and_i)
  PROVE  /\ \A i, o \in Dirs : Holds(i, o)' =>
              \/ Holds(i, o) /\ ~Sent(i, ready_and_i)
              \/ o \in ready_and_i /\ i \in sending(o)
         /\ \A i, o \in Dirs : Holds(i, o) /\ ~Sent(i, ready_and_i) =>
              /\ Holds(i, o)' /\ rx'[o] = rx[o]
              /\ payload_ctr_r'[i] = payload_ctr_r[i]
         /\ \A o \in ready_and_i : \A i \in sending(o) :
              /\ i \in Dirs /\ Head(fifo[i]) \in FlitsOf(i)
              /\ Route[Head(fifo[i]).p] = o
              /\ rx'[o] = Following(Head(fifo[i]))
              /\ payload_ctr_r'[i] = Head(fifo[i]).p.len - Head(fifo[i]).idx
              /\ payload_ctr_r'[i] # 0 => Holds(i, o)'
<1>1. /\ ready_and_i \in SUBSET Dirs
      /\ \A o \in ready_and_i : sending(o) # {}
  BY DEF Offering
<1>2. /\ \A o \in Dirs : scheduled_r'[o] = scheduled_n(o)
      /\ \A o \in ready_and_i : \E i \in Dirs :
              /\ sending(o) = {i} /\ rx'[o] = Following(Head(fifo[i]))
              /\ payload_ctr_r'[i] = Head(fifo[i]).p.len - Head(fifo[i]).idx
      /\ \A o \in Dirs \ ready_and_i : rx'[o] = rx[o]
      /\ \A i \in Dirs : ~Sent(i, ready_and_i) => payload_ctr_r'[i] = payload_ctr_r[i]
  BY EdgeMoves
<1>3. ASSUME NEW i \in Dirs, NEW o \in Dirs, Holds(i, o)', Sent(i, ready_and_i)
      PROVE  o \in ready_and_i /\ i \in sending(o)
  <2>1. i \in scheduled_n(o)
    BY <1>2, <1>3 DEF Holds
  <2>2. PICK o2 \in ready_and_i : i \in sending(o2)
    BY <1>3 DEF Sent
  <2>3. valid(i)
    BY <2>2 DEF sending
  <2>4. i \in sending(o)
    BY <2>1, <2>3 DEF sending
  <2>5. o2 = o
    BY <1>1, <2>2, <2>4, SentOnce
  <2>6. QED
    BY <2>2, <2>4, <2>5
<1>4. ASSUME NEW i \in Dirs, NEW o \in Dirs, Holds(i, o)', ~Sent(i, ready_and_i)
      PROVE  Holds(i, o)
  <2>1. i \in scheduled_n(o) /\ payload_ctr_r[i] # 0
    BY <1>2, <1>4 DEF Holds
  <2>2. QED
    BY <2>1, Selected
<1>5. ASSUME NEW i \in Dirs, NEW o \in Dirs, Holds(i, o), ~Sent(i, ready_and_i)
      PROVE  /\ Holds(i, o)' /\ rx'[o] = rx[o]
             /\ payload_ctr_r'[i] = payload_ctr_r[i]
  <2>1. payload_ctr_r'[i] = payload_ctr_r[i]
    BY <1>2, <1>5
  <2>2. i \in scheduled_n(o)
    BY <1>5 DEF Holds, scheduled_n, scheduled_with_release, counter_expired
  <2>3. Holds(i, o)'
    BY <2>1, <2>2, <1>2, <1>5 DEF Holds
  <2>4. scheduled_n(o) = {i}
    BY <2>2, Selected
  <2>5. o \notin ready_and_i
    <3>1. SUFFICES ASSUME o \in ready_and_i PROVE FALSE
      OBVIOUS
    <3>2. i \in sending(o)
      BY <3>1, <1>1, <2>4 DEF sending
    <3>3. QED
      BY <3>1, <3>2, <1>5 DEF Sent
  <2>6. QED
    BY <1>2, <2>1, <2>3, <2>5
<1>6. ASSUME NEW o \in ready_and_i, NEW i \in sending(o)
      PROVE  /\ i \in Dirs /\ Head(fifo[i]) \in FlitsOf(i)
             /\ Route[Head(fifo[i]).p] = o
             /\ rx'[o] = Following(Head(fifo[i]))
             /\ payload_ctr_r'[i] = Head(fifo[i]).p.len - Head(fifo[i]).idx
             /\ payload_ctr_r'[i] # 0 => Holds(i, o)'
  <2>1. o \in Dirs
    BY <1>1
  <2>2. /\ i \in Dirs /\ Head(fifo[i]) \in FlitsOf(i) /\ scheduled_n(o) = {i}
        /\ Route[Head(fifo[i]).p] = o
    BY <2>1, SentOnce
  <2>3. /\ rx'[o] = Following(Head(fifo[i]))
        /\ payload_ctr_r'[i] = Head(fifo[i]).p.len - Head(fifo[i]).idx
    BY <1>2
  <2>4. payload_ctr_r'[i] # 0 => Holds(i, o)'
    BY <2>1, <2>2, <1>2 DEF Holds
  <2>5. QED
    BY <2>2, <2>3, <2>4
<1>7. QED
  BY <1>3, <1>4, <1>5, <1>6

(* An edge keeps each output to one input and each input to one output. *)
LEMMA EdgePath ==
  ASSUME WormInv, NEW new \in Arrivals,
         NEW ready_and_i \in SUBSET Offering, Edge(new, ready_and_i)
  PROVE  PathInv'
<1> DEFINE sent(i) == Sent(i, ready_and_i)
<1>0. /\ ready_and_i \in SUBSET Dirs
      /\ \A o \in ready_and_i : sending(o) # {}
      /\ \A o \in Dirs \ ready_and_i : rx'[o] = rx[o]
      /\ \A i \in Dirs : ~sent(i) => payload_ctr_r'[i] = payload_ctr_r[i]
  BY EdgeMoves DEF Offering
<1>1. \A i, o \in Dirs : Holds(i, o)' =>
              \/ Holds(i, o) /\ ~sent(i)
              \/ o \in ready_and_i /\ i \in sending(o)
  BY HoldsAfter
<1>2. \A i, o \in Dirs : Holds(i, o) /\ ~sent(i) =>
              /\ Holds(i, o)' /\ rx'[o] = rx[o]
              /\ payload_ctr_r'[i] = payload_ctr_r[i]
  BY HoldsAfter
<1>3. \A o \in ready_and_i : \A i \in sending(o) :
              /\ i \in Dirs /\ Head(fifo[i]) \in FlitsOf(i)
              /\ Route[Head(fifo[i]).p] = o
              /\ rx'[o] = Following(Head(fifo[i]))
              /\ payload_ctr_r'[i] = Head(fifo[i]).p.len - Head(fifo[i]).idx
              /\ payload_ctr_r'[i] # 0 => Holds(i, o)'
  BY HoldsAfter
<1>4. \A i : sent(i) <=> \E o \in ready_and_i : i \in sending(o)
  BY DEF Sent
<1> HIDE DEF sent
<1>5. ASSUME NEW i \in Dirs, payload_ctr_r'[i] # 0
      PROVE  \E o \in Dirs : Holds(i, o)'
  <2>1. CASE sent(i)
    BY <2>1, <1>0, <1>3, <1>4, <1>5
  <2>2. CASE ~sent(i)
    <3>1. payload_ctr_r[i] # 0
      BY <2>2, <1>0, <1>5
    <3>2. PICK o \in Dirs : Holds(i, o)
      BY <3>1 DEF WormInv, PathInv
    <3>3. QED
      BY <3>2, <2>2, <1>2
  <2>3. QED
    BY <2>1, <2>2
<1>6. ASSUME NEW i \in Dirs, NEW o \in Dirs, NEW o2 \in Dirs, Holds(i, o)', Holds(i, o2)'
      PROVE  o = o2
  <2>1. CASE sent(i)
    <3>1. i \in sending(o) /\ i \in sending(o2)
      BY <2>1, <1>1, <1>6
    <3>2. QED
      BY <3>1, SentOnce
  <2>2. CASE ~sent(i)
    <3>1. Holds(i, o) /\ Holds(i, o2)
      BY <2>2, <1>1, <1>4, <1>6
    <3>2. QED
      BY <3>1 DEF WormInv, PathInv
  <2>3. QED
    BY <2>1, <2>2
<1>7. ASSUME NEW i \in Dirs, NEW o \in Dirs, Holds(i, o)'
      PROVE  \E f \in FlitsOf(i) :
               rx'[o] = {f} /\ Route[f.p] = o /\ f.p.len - f.idx + 1 = payload_ctr_r'[i]
  <2>1. CASE Holds(i, o) /\ ~sent(i)
    <3>1. rx'[o] = rx[o] /\ payload_ctr_r'[i] = payload_ctr_r[i]
      BY <2>1, <1>2
    <3>2. QED
      BY <2>1, <3>1 DEF WormInv, PathInv
  <2>2. CASE o \in ready_and_i /\ i \in sending(o)
    <3> DEFINE h == Head(fifo[i])
    <3>1. /\ h \in FlitsOf(i) /\ Route[h.p] = o /\ rx'[o] = Following(h)
          /\ payload_ctr_r'[i] = h.p.len - h.idx
      BY <2>2, <1>3
    <3>2. payload_ctr_r'[i] # 0
      BY <1>7 DEF Holds
    <3> HIDE DEF h
    <3>3. h.p.len \in Nat /\ h.idx \in Nat /\ h.idx # h.p.len
      BY <3>1, <3>2, FollowingIs
    <3>4. PICK g \in FlitsOf(i) : Following(h) = {g} /\ g.p = h.p /\ g.idx = h.idx + 1
      BY <3>1, <3>3, FollowingIs
    <3> DEFINE n == h.p.len
               k == h.idx
    <3>a. g.p.len = n /\ g.idx = k + 1 /\ payload_ctr_r'[i] = n - k /\ n \in Nat /\ k \in Nat
      BY <3>1, <3>3, <3>4
    <3> HIDE DEF n, k
    <3>5. g.p.len - g.idx + 1 = payload_ctr_r'[i]
      BY <3>a
    <3>6. QED
      BY <3>1, <3>4, <3>5
  <2>3. QED
    BY <2>1, <2>2, <1>1, <1>7
<1>8. ASSUME NEW o \in Dirs, rx'[o] # {}
      PROVE  \E i \in Dirs : Holds(i, o)'
  <2>1. CASE o \in ready_and_i
    <3>1. PICK i : i \in sending(o)
      BY <2>1, <1>0
    <3> DEFINE h == Head(fifo[i])
    <3>2. /\ i \in Dirs /\ h \in FlitsOf(i) /\ rx'[o] = Following(h)
          /\ payload_ctr_r'[i] = h.p.len - h.idx
          /\ payload_ctr_r'[i] # 0 => Holds(i, o)'
      BY <2>1, <3>1, <1>3
    <3> HIDE DEF h
    <3>3. h.p.len \in Nat /\ h.idx \in Nat /\ h.idx # h.p.len
      BY <3>2, <1>8, FollowingIs
    <3>4. payload_ctr_r'[i] # 0
      BY <3>2, <3>3
    <3>5. QED
      BY <3>2, <3>4
  <2>2. CASE o \notin ready_and_i
    <3>1. rx[o] # {}
      BY <2>2, <1>0, <1>8
    <3>2. PICK i \in Dirs : Holds(i, o)
      BY <3>1 DEF WormInv, PathInv
    <3>3. ~sent(i)
      <4>1. SUFFICES ASSUME NEW o2 \in ready_and_i, i \in sending(o2) PROVE FALSE
        BY <1>4
      <4>2. valid(i)
        BY <4>1 DEF sending
      <4>3. i \in sending(o)
        BY <3>2, <4>2 DEF Holds, sending, scheduled_n, scheduled_with_release, counter_expired
      <4>4. o2 = o
        BY <1>0, <4>1, <4>3, SentOnce
      <4>5. QED
        BY <4>1, <4>4, <2>2
    <3>4. QED
      BY <3>2, <3>3, <1>2
  <2>3. QED
    BY <2>1, <2>2
<1>9. QED
  BY <1>5, <1>6, <1>7, <1>8 DEF PathInv

(* The same of the next state. *)
LEMMA OwedAfter == PathInv' => Owing'
BY OwedIs, PTL

(* An edge keeps what waits at an input in line with what has left. *)
LEMMA EdgeStream ==
  ASSUME WormInv, NEW new \in Arrivals,
         NEW ready_and_i \in SUBSET Offering, Edge(new, ready_and_i),
         PathInv', NEW i \in Dirs
  PROVE  /\ fifo'[i] \in Seq(FlitsOf(i)) /\ Len(fifo'[i]) <= 2
         /\ tx'[i] \in SUBSET FlitsOf(i)
         /\ Stream(owed(i)', fifo'[i], tx'[i])
<1>1. /\ payload_ctr_r'[i] = 0 => owed(i)' = {}
      /\ \A o \in Dirs : Holds(i, o)' => owed(i)' = rx'[o]
  <2>1. Owing'
    BY OwedAfter
  <2>2. QED
    BY <2>1 DEF Owing
<1>2. /\ payload_ctr_r[i] = 0 => owed(i) = {}
      /\ \A o \in Dirs : Holds(i, o) => owed(i) = rx[o]
  BY OwedIs DEF WormInv, Owing
<1>3. /\ fifo[i] \in Seq(FlitsOf(i)) /\ Len(fifo[i]) <= 2
      /\ tx[i] \in SUBSET FlitsOf(i)
      /\ Stream(owed(i), fifo[i], tx[i])
  BY DEF WormInv, RouterTypeOK, StreamInv
<1>4. PICK rest :
        /\ rest = IF Sent(i, ready_and_i) THEN Tail(fifo[i]) ELSE fifo[i]
        /\ \/ fifo'[i] = rest /\ tx'[i] = tx[i]
           \/ \E f \in FlitsOf(i) :
                /\ Len(fifo[i]) <= 2 /\ Len(fifo[i]) # 2 /\ Follows(tx[i], f)
                /\ fifo'[i] = Append(rest, f) /\ tx'[i] = Following(f)
  BY EdgeMoves
<1>5. /\ rest \in Seq(FlitsOf(i)) /\ Len(rest) <= Len(fifo[i])
      /\ Stream(owed(i)', rest, tx[i])
  <2>1. CASE Sent(i, ready_and_i)
    <3>1. PICK o \in ready_and_i : i \in sending(o)
      BY <2>1 DEF Sent
    <3>2. o \in Dirs
      BY DEF Offering
    <3> DEFINE h == Head(fifo[i])
    <3>3. /\ h \in FlitsOf(i) /\ rx'[o] = Following(h)
          /\ payload_ctr_r'[i] = h.p.len - h.idx
          /\ payload_ctr_r'[i] # 0 => Holds(i, o)'
      BY <3>1, HoldsAfter
    <3>4. fifo[i] # <<>>
      BY <3>1 DEF sending, valid
    <3>5. owed(i)' = Following(h)
      <4> HIDE DEF h
      <4>1. CASE payload_ctr_r'[i] = 0
        <5>1. h.idx = h.p.len
          BY <4>1, <3>3, FollowingIs
        <5>2. Following(h) = {}
          BY <5>1, <3>3, FollowingIs
        <5>3. QED
          BY <5>2, <4>1, <1>1
      <4>2. CASE payload_ctr_r'[i] # 0
        BY <4>2, <3>2, <3>3, <1>1
      <4>3. QED
        BY <4>1, <4>2
    <3>6. Stream(Following(h), Tail(fifo[i]), tx[i])
      BY <3>4, <1>3, StreamTail
    <3>7. Tail(fifo[i]) \in Seq(FlitsOf(i)) /\ Len(Tail(fifo[i])) <= Len(fifo[i])
      BY <3>4, <1>3
    <3>8. QED
      BY <3>5, <3>6, <3>7, <2>1, <1>4
  <2>2. CASE ~Sent(i, ready_and_i)
    <3>1. payload_ctr_r'[i] = payload_ctr_r[i]
      BY <2>2, EdgeMoves
    <3>2. owed(i)' = owed(i)
      <4>1. CASE payload_ctr_r[i] = 0
        BY <4>1, <3>1, <1>1, <1>2
      <4>2. CASE payload_ctr_r[i] # 0
        <5>1. PICK o \in Dirs : Holds(i, o)
          BY <4>2 DEF WormInv, PathInv
        <5>2. Holds(i, o)' /\ rx'[o] = rx[o]
          BY <5>1, <2>2, HoldsAfter
        <5>3. QED
          BY <5>1, <5>2, <1>1, <1>2
      <4>3. QED
        BY <4>1, <4>2
    <3>3. rest = fifo[i] /\ Len(fifo[i]) \in Nat
      BY <2>2, <1>3, <1>4
    <3>4. QED
      BY <3>2, <3>3, <1>3
  <2>3. QED
    BY <2>1, <2>2
<1>6. CASE fifo'[i] = rest /\ tx'[i] = tx[i]
  <2>1. Len(rest) <= 2
    BY <1>3, <1>5
  <2>2. QED
    BY <2>1, <1>3, <1>5, <1>6
<1>7. ASSUME NEW f \in FlitsOf(i), Len(fifo[i]) # 2, Follows(tx[i], f),
             fifo'[i] = Append(rest, f), tx'[i] = Following(f)
      PROVE  /\ fifo'[i] \in Seq(FlitsOf(i)) /\ Len(fifo'[i]) <= 2
             /\ tx'[i] \in SUBSET FlitsOf(i)
             /\ Stream(owed(i)', fifo'[i], tx'[i])
  <2>1. fifo'[i] \in Seq(FlitsOf(i)) /\ Len(fifo'[i]) = Len(rest) + 1
    BY <1>5, <1>7
  <2>2. Len(rest) \in Nat /\ Len(fifo[i]) \in Nat
    BY <1>3, <1>5
  <2>3. Len(fifo'[i]) <= 2
    <3> DEFINE m == Len(rest)
               n == Len(fifo[i])
               n2 == Len(fifo'[i])
    <3>1. m \in Nat /\ n \in Nat /\ m <= n /\ n <= 2 /\ n # 2 /\ n2 = m + 1
      BY <2>1, <2>2, <1>3, <1>5, <1>7
    <3> HIDE DEF m, n, n2
    <3>2. n2 <= 2
      BY <3>1
    <3>3. QED
      BY <3>2 DEF n2
  <2>4. tx'[i] \in SUBSET FlitsOf(i)
    BY <1>7, FollowingIs
  <2>5. Stream(owed(i)', Append(rest, f), Following(f))
    BY <1>5, <1>7, StreamAppend
  <2>6. QED
    BY <2>1, <2>3, <2>4, <2>5, <1>7
<1>8. QED
  BY <1>4, <1>6, <1>7

(* An edge keeps the invariant. *)
LEMMA EdgeInv ==
  ASSUME WormInv, NEW new \in Arrivals,
         NEW ready_and_i \in SUBSET Offering, Edge(new, ready_and_i)
  PROVE  WormInv'
<1>1. PathInv'
  BY EdgePath
<1>2. \A i \in Dirs : /\ fifo'[i] \in Seq(FlitsOf(i)) /\ Len(fifo'[i]) <= 2
                      /\ tx'[i] \in SUBSET FlitsOf(i)
                      /\ Stream(owed(i)', fifo'[i], tx'[i])
  BY <1>1, EdgeStream
<1>3. payload_ctr_r' \in [Dirs -> Nat]
  <2>1. ASSUME NEW i \in Dirs PROVE payload_ctr_r'[i] \in Nat
    <3>1. CASE Sent(i, ready_and_i)
      <4>1. PICK o \in ready_and_i : i \in sending(o)
        BY <3>1 DEF Sent
      <4> DEFINE h == Head(fifo[i])
      <4>2. h \in FlitsOf(i) /\ payload_ctr_r'[i] = h.p.len - h.idx
        BY <4>1, HoldsAfter
      <4> HIDE DEF h
      <4>3. QED
        BY <4>2, FollowingIs
    <3>2. CASE ~Sent(i, ready_and_i)
      BY <3>2, EdgeMoves DEF WormInv, RouterTypeOK
    <3>3. QED
      BY <3>1, <3>2
  <2>2. payload_ctr_r' = [i \in Dirs |-> payload_ctr_r'[i]]
    BY EdgeMoves
  <2>3. QED
    BY <2>1, <2>2
<1>4. scheduled_r' \in [Dirs -> SUBSET Dirs] /\ last_r' \in [Dirs -> Nat]
  <2>1. ASSUME NEW o \in Dirs PROVE scheduled_n(o) \in SUBSET Dirs
    BY Selected
  <2>2. scheduled_r' = [o \in Dirs |-> scheduled_n(o)] /\ last_r' \in [Dirs -> Nat]
    BY EdgeMoves
  <2>3. QED
    BY <2>1, <2>2
<1>5. RouterTypeOK'
  BY <1>2, <1>3, <1>4 DEF RouterTypeOK
<1>6. StreamInv'
  BY <1>2 DEF StreamInv
<1>7. QED
  BY <1>1, <1>5, <1>6 DEF WormInv

(* Reset establishes the invariant. *)
LEMMA EmptyInv ==
  ASSUME Init
  PROVE  WormInv
<1>1. /\ fifo = [i \in Dirs |-> <<>>] /\ payload_ctr_r = [i \in Dirs |-> 0]
      /\ last_r = [i \in Dirs |-> 0] /\ scheduled_r = [i \in Dirs |-> {}]
      /\ tx = [i \in Dirs |-> {}] /\ rx = [i \in Dirs |-> {}]
  BY DEF Init, NoFlits, Zeros
<1>2. RouterTypeOK
  <2>1. \A i \in Dirs : fifo[i] \in Seq(FlitsOf(i)) /\ Len(fifo[i]) <= 2
    BY <1>1
  <2>2. QED
    BY <1>1, <2>1 DEF RouterTypeOK
<1>3. PathInv
  BY <1>1 DEF PathInv, Holds
<1>4. StreamInv
  BY <1>1 DEF StreamInv, Stream, owed
<1>5. QED
  BY <1>2, <1>3, <1>4 DEF WormInv

(* Also when it comes later. *)
LEMMA EmptyAfter == Init' => WormInv'
BY EmptyInv, PTL

(* The invariant of the wormhole router. *)
THEOREM WormholeInvariant ==
  Spec => []WormInv
<1>1. Init => WormInv
  BY EmptyInv
<1>2. WormInv /\ [Next]_vars => WormInv'
  <2>1. ASSUME WormInv, UNCHANGED vars PROVE WormInv'
    <3>1. RouterTypeOK'
      BY <2>1 DEF vars, WormInv, RouterTypeOK
    <3>0. payload_ctr_r' = payload_ctr_r /\ scheduled_r' = scheduled_r /\ rx' = rx
      BY <2>1 DEF vars
    <3>2. PathInv'
      <4>1. \A i, o : Holds(i, o)' <=> Holds(i, o)
        BY <3>0 DEF Holds
      <4>2. PathInv
        BY <2>1 DEF WormInv
      <4>3. QED
        BY <3>0, <4>1, <4>2 DEF PathInv
    <3>3. StreamInv'
      BY <2>1, Zenon DEF vars, WormInv, StreamInv, owed
    <3>4. QED
      BY <3>1, <3>2, <3>3 DEF WormInv
  <2>2. ASSUME WormInv, Clk PROVE WormInv'
    BY <2>2, EdgeInv DEF Clk
  <2>3. ASSUME Reset PROVE WormInv'
    <3>1. Init'
      BY <2>3 DEF Reset, Init
    <3>2. QED
      BY <3>1, EmptyAfter
  <2>4. QED
    BY <2>1, <2>2, <2>3 DEF Next
<1>3. QED
  BY <1>1, <1>2, PTL DEF Spec

(* On every output of a wormhole router a header is followed by exactly    *)
(* the flits of its packet, in order, before the next header, and a packet *)
(* leaves in a direction that leads to its destination; the output is      *)
(* remembered for as long as the packet is under way.  This holds for      *)
(* every number of dimensions, coordinate, routing matrix and traffic, and *)
(* however the neighbours stall.                                           *)
THEOREM PacketsStayWhole ==
  Spec => []WholePackets
<1>1. WormInv => FlitsInOrder
  <2>1. SUFFICES ASSUME WormInv, NEW o \in Dirs, NEW f \in link_o(o)
                 PROVE  /\ IF rx[o] = {} THEN f.idx = 0 ELSE f \in rx[o]
                        /\ Toward(o, f.p.cord)
    BY DEF FlitsInOrder
  <2>2. PICK i \in sending(o) : f = Head(fifo[i])
    BY DEF link_o
  <2>3. /\ i \in Dirs /\ f \in FlitsOf(i) /\ Route[f.p] = o
        /\ \/ f.idx = 0 /\ rx[o] = {}
           \/ rx[o] = {f}
    <3>1. /\ i \in Dirs
          /\ Head(fifo[i]) \in FlitsOf(i)
          /\ Route[Head(fifo[i]).p] = o
          /\ IF payload_ctr_r[i] = 0 THEN Head(fifo[i]).idx = 0 /\ rx[o] = {}
             ELSE rx[o] = {Head(fifo[i])}
      BY <2>1, SentOnce
    <3>2. QED
      BY <3>1, <2>2
  <2>4. f.p \in Traffic /\ f.p.cord \in [1 .. dims_p -> Nat]
    BY <2>3, RouterAssumption DEF FlitsOf, RouterAssumption
  <2>5. Decode(f.p.cord) = o
    BY <2>3, <2>4 DEF Route
  <2>6. Toward(o, f.p.cord)
    BY <2>4, <2>5, DecodeTowards
  <2>7. QED
    BY <2>3, <2>6
<1>2. WormInv => PathHeld
  <2>1. SUFFICES ASSUME WormInv PROVE PathHeld
    OBVIOUS
  <2>2. ASSUME NEW i \in Dirs, payload_ctr_r[i] # 0
        PROVE  \E o \in Dirs :
                 /\ \A o2 \in Dirs : i \in scheduled_r[o2] <=> o2 = o
                 /\ \E f \in rx[o] : f.p.src = i /\ f.p.len - f.idx + 1 = payload_ctr_r[i]
    <3>1. PICK o \in Dirs : Holds(i, o)
      BY <2>1, <2>2 DEF WormInv, PathInv
    <3>2. \A o2 \in Dirs : i \in scheduled_r[o2] <=> o2 = o
      BY <2>1, <2>2, <3>1 DEF WormInv, PathInv, Holds
    <3>3. PICK f \in FlitsOf(i) :
            rx[o] = {f} /\ f.p.len - f.idx + 1 = payload_ctr_r[i]
      BY <2>1, <3>1 DEF WormInv, PathInv
    <3>4. f.p.src = i
      BY DEF FlitsOf
    <3>5. QED
      BY <3>2, <3>3, <3>4
  <2>3. ASSUME NEW o \in Dirs, rx[o] # {}
        PROVE  \E i \in scheduled_r[o] : payload_ctr_r[i] # 0
    BY <2>1, <2>3 DEF WormInv, PathInv, Holds
  <2>4. QED
    BY <2>2, <2>3 DEF PathHeld
<1>3. QED
  BY <1>1, <1>2, WormholeInvariant, PTL DEF WholePackets

-----------------------------------------------------------------------------
(* The mesh of any size, with ruche links of any length.                   *)
Axes == mesh!Axes
axis1 == IF XY_order_p THEN "X" ELSE "Y"
axis2 == mesh!Cross(axis1)

(* Division with remainder, and what a multiple less one divisor is. *)
LEMMA DivMod ==
  ASSUME NEW n \in Nat, NEW W \in Nat \ {0}
  PROVE  n \div W \in Nat /\ n % W \in 0 .. W - 1 /\ n = W * (n \div W) + (n % W)
OBVIOUS

(* A quotient and a remainder are the quotient and the remainder. *)
LEMMA RemainderIs ==
  ASSUME NEW W \in Nat \ {0}, NEW k \in Nat, NEW i \in 0 .. W - 1, NEW n, n = W * k + i
  PROVE  n % W = i
<1> DEFINE s == n \div W
           r == n % W
<1>1. W * k \in Nat /\ n \in Nat
  OBVIOUS
<1>2. s \in Nat /\ r \in 0 .. W - 1 /\ n = W * s + r
  BY <1>1, DivMod
<1>3. W * k + i = W * s + r
  BY <1>2
<1>4. W * (k - s) = W * k - W * s /\ W * k \in Int /\ W * s \in Int
  BY <1>2
<1> HIDE DEF s, r
<1>5. r - i = W * (k - s)
  BY <1>2, <1>3, <1>4
<1>6. k - s < 1
  <2>1. k - s >= 1 => W * (k - s) >= W
    BY <1>2
  <2>2. QED
    BY <1>2, <1>5, <2>1
<1>7. k - s > -1
  <2>1. k - s <= -1 => W * (k - s) <= -W
    BY <1>2
  <2>2. QED
    BY <1>2, <1>5, <2>1
<1>8. k - s = 0
  BY <1>2, <1>6, <1>7
<1>9. r = i
  BY <1>2, <1>5, <1>8
<1>10. QED
  BY <1>9 DEF r

(* Within the first divisor a number is its own remainder. *)
LEMMA SmallMod ==
  ASSUME NEW W \in Nat \ {0}, NEW x \in 0 .. W - 1
  PROVE  x % W = x
OBVIOUS

(* A multiple that is not zero has another one a divisor below it. *)
LEMMA MultipleBelow ==
  ASSUME NEW d \in Nat \ {0}, NEW W \in Nat \ {0}, d % W = 0
  PROVE  d >= W /\ (d - W) % W = 0
<1>1. PICK q \in Nat : d = W * q
  <2>1. d \div W \in Nat /\ d = W * (d \div W) + (d % W) /\ W * (d \div W) \in Int
    BY DivMod
  <2>2. d = W * (d \div W)
    BY <2>1
  <2>3. QED
    BY <2>1, <2>2
<1>2. q # 0
  BY <1>1
<1>3. q - 1 \in Nat /\ W * q = W * (q - 1) + W /\ W * (q - 1) \in Nat
  BY <1>2
<1>4. d - W = W * (q - 1) /\ d >= W
  BY <1>1, <1>3
<1>5. (W * (q - 1)) % W = 0
  <2>1. PICK n, k : n = W * (q - 1) /\ k = q - 1
    OBVIOUS
  <2>2. n = W * k + 0 /\ k \in Nat /\ 0 \in 0 .. W - 1
    BY <1>3, <2>1
  <2>3. QED
    BY <2>1, <2>2, RemainderIs
<1>6. QED
  BY <1>4, <1>5

MeshTypeOK ==
  /\ net \in Networks
  /\ XY_order_p \in BOOLEAN
  /\ \A a \in Axes : /\ src[a] \in 0 .. net.size[a] - 1
                     /\ dst[a] \in 0 .. net.size[a] - 1
                     /\ my[a] \in 0 .. net.size[a] - 1
  /\ src \in [Axes -> Nat] /\ dst \in [Axes -> Nat] /\ my \in [Axes -> Nat]
  /\ from \in {"P", "W", "E", "N", "S", "RW", "RE", "RN", "RS"}

(* Before the first axis is done with a packet has come in by no port of   *)
(* the other.  On the first axis it has come by ruche links first, and     *)
(* then by local ones over less than the length of a ruche link; on the    *)
(* second by local links first, and by ruche links only a multiple of      *)
(* their length away.  It has not passed the place it goes to.             *)
OnTheWay ==
  LET a == axis1
      b == axis2
      p == mesh!Ports[a]
      q == mesh!Ports[b]
      to == mesh!to
  IN  /\ from = p.lt => my[a] <= to[a] /\ (net.R[a] > 0 => to[a] - my[a] < net.R[a])
      /\ from = p.gt => to[a] <= my[a] /\ (net.R[a] > 0 => my[a] - to[a] < net.R[a])
      /\ from = p.rlt => /\ net.R[a] > 0 /\ my[a] <= to[a]
                         /\ net.depopulated => my[a] # to[a]
      /\ from = p.rgt => /\ net.R[a] > 0 /\ to[a] <= my[a]
                         /\ net.depopulated => my[a] # to[a]
      /\ from \in {q.lt, q.gt, q.rlt, q.rgt} => my[a] = to[a]
      /\ from = q.lt => my[b] <= to[b]
      /\ from = q.gt => to[b] <= my[b]
      /\ from = q.rlt => net.R[b] > 0 /\ my[b] <= to[b] /\ (to[b] - my[b]) % net.R[b] = 0
      /\ from = q.rgt => net.R[b] > 0 /\ to[b] <= my[b] /\ (my[b] - to[b]) % net.R[b] = 0

MeshInv == MeshTypeOK /\ OnTheWay

(* What is known of a network. *)
LEMMA NetworkIs ==
  ASSUME net \in Networks
  PROVE  /\ net.dims \in {2, 3, 4} /\ net.depopulated \in BOOLEAN
         /\ net.R["X"] > 0 <=> net.dims > 2
         /\ net.R["Y"] > 0 <=> net.dims > 3
         /\ mesh!Modulus \in Nat \ {0}
         /\ \A a \in Axes : /\ net.R[a] \in 0 .. mesh!Modulus - 1
                            /\ net.size[a] \in 1 .. mesh!Modulus
<1>1. /\ CordWidth \in Nat \ {0}
      /\ net.dims \in {2, 3, 4} /\ net.depopulated \in BOOLEAN
      /\ net.R["X"] > 0 <=> net.dims > 2
      /\ net.R["Y"] > 0 <=> net.dims > 3
      /\ \A a \in Axes : /\ net.R[a] \in Nat /\ net.size[a] \in Nat \ {0}
                         /\ net.R[a] < mesh!Modulus /\ net.size[a] <= mesh!Modulus
  BY MeshAssumption DEF mesh!NetworkAssumption, Axes, mesh!Axes
<1>2. mesh!Modulus \in Int
  BY <1>1 DEF mesh!Modulus
<1>3. "X" \in Axes
  BY DEF Axes, mesh!Axes
<1>4. QED
  BY <1>1, <1>2, <1>3

(* The ports of the axes by their names. *)
LEMMA PortNames ==
  /\ mesh!Ports["X"].lt = "W" /\ mesh!Ports["X"].gt = "E"
  /\ mesh!Ports["X"].rlt = "RW" /\ mesh!Ports["X"].rgt = "RE"
  /\ mesh!Ports["Y"].lt = "N" /\ mesh!Ports["Y"].gt = "S"
  /\ mesh!Ports["Y"].rlt = "RN" /\ mesh!Ports["Y"].rgt = "RS"
  /\ mesh!Cross("X") = "Y" /\ mesh!Cross("Y") = "X"
BY DEF mesh!Ports, mesh!Cross

(* A ruche link is taken on the first axis: it does not reach beyond the   *)
(* place, and in a depopulated network not to it either.                   *)
Reaches(a, d) ==
  net.R[a] > 0 /\ IF net.depopulated THEN d > net.R[a] ELSE d >= net.R[a]

(* The guards against under- and overflow do what they are for. *)
LEMMA FarMeans ==
  ASSUME MeshTypeOK, NEW a \in Axes, NEW t \in 0 .. net.size[a] - 1
  PROVE  /\ net.R[a] > 0 /\ mesh!FarGt(a, t) <=> Reaches(a, t - my[a])
         /\ net.R[a] > 0 /\ mesh!FarLt(a, t) <=> Reaches(a, my[a] - t)
<1> DEFINE M == mesh!Modulus
           R == net.R[a]
           x == my[a]
<1>1. M \in Nat \ {0} /\ R \in 0 .. M - 1 /\ net.size[a] \in 1 .. M
  BY NetworkIs DEF MeshTypeOK
<1>2. x \in 0 .. net.size[a] - 1
  BY DEF MeshTypeOK
<1>3. x \in 0 .. M - 1 /\ t \in 0 .. M - 1
  BY <1>1, <1>2
<1>4. x + R < M => (x + R) % M = x + R
  <2>1. x + R < M => x + R \in 0 .. M - 1
    BY <1>1, <1>3
  <2>2. QED
    BY <1>1, <2>1, SmallMod
<1>5. x >= R => (x - R) % M = x - R
  <2>1. x >= R => x - R \in 0 .. M - 1
    BY <1>1, <1>3
  <2>2. QED
    BY <1>1, <2>1, SmallMod
<1>6. /\ mesh!FarGt(a, t) <=> x + R < M /\ IF net.depopulated THEN t > (x + R) % M
                                           ELSE t >= (x + R) % M
      /\ mesh!FarLt(a, t) <=> IF net.depopulated THEN x > R /\ t < (x - R) % M
                              ELSE x >= R /\ t <= (x - R) % M
  BY DEF mesh!FarGt, mesh!FarLt
<1> HIDE DEF M, R, x
<1>7. mesh!FarGt(a, t) <=> IF net.depopulated THEN t > x + R ELSE t >= x + R
  BY <1>1, <1>3, <1>4, <1>6
<1>8. mesh!FarLt(a, t) <=> IF net.depopulated THEN t < x - R ELSE t <= x - R
  <2>1. x > R => x >= R
    BY <1>1, <1>3
  <2>2. CASE net.depopulated
    <3>1. mesh!FarLt(a, t) <=> x > R /\ t < x - R
      BY <1>5, <1>6, <2>1, <2>2
    <3>2. QED
      BY <1>1, <1>3, <2>2, <3>1
  <2>3. CASE ~net.depopulated
    <3>1. mesh!FarLt(a, t) <=> x >= R /\ t <= x - R
      BY <1>5, <1>6, <2>3
    <3>2. QED
      BY <1>1, <1>3, <2>3, <3>1
  <2>4. QED
    BY <2>2, <2>3
<1>9. /\ t > x + R <=> t - x > R
      /\ t >= x + R <=> t - x >= R
      /\ t < x - R <=> x - t > R
      /\ t <= x - R <=> x - t >= R
  BY <1>1, <1>3
<1>10. QED
  BY <1>7, <1>8, <1>9 DEF Reaches, R, x

(* What the first axis asks for. *)
LEMMA FirstAsks ==
  ASSUME MeshTypeOK, NEW a \in Axes, NEW t \in 0 .. net.size[a] - 1
  PROVE  LET p == mesh!Ports[a]
             x == my[a]
         IN  mesh!FirstAxis(a, t) =
               IF x = t THEN {}
               ELSE IF x < t THEN {IF Reaches(a, t - x) THEN p.rgt ELSE p.gt}
                    ELSE {IF Reaches(a, x - t) THEN p.rlt ELSE p.lt}
<1> DEFINE p == mesh!Ports[a]
           x == my[a]
           gt == Reaches(a, t - x)
           lt == Reaches(a, x - t)
<1>1. /\ net.R[a] > 0 /\ mesh!FarGt(a, t) <=> gt
      /\ net.R[a] > 0 /\ mesh!FarLt(a, t) <=> lt
  BY FarMeans
<1>2. x \in Nat /\ t \in Nat
  BY DEF MeshTypeOK
<1>3. net.R[a] \in Nat
  BY NetworkIs DEF MeshTypeOK
<1>4. (gt => x < t) /\ (lt => t < x)
  BY <1>2, <1>3 DEF Reaches
<1>5. mesh!FirstAxis(a, t) =
        {d \in {p.lt} : t < x /\ ~lt} \cup {d \in {p.gt} : t > x /\ ~gt}
          \cup {d \in {p.rlt} : lt} \cup {d \in {p.rgt} : gt}
  <2>1. /\ {d \in {p.lt} : t < x /\ ~(net.R[a] > 0 /\ mesh!FarLt(a, t))}
             = {d \in {p.lt} : t < x /\ ~lt}
        /\ {d \in {p.gt} : t > x /\ ~(net.R[a] > 0 /\ mesh!FarGt(a, t))}
             = {d \in {p.gt} : t > x /\ ~gt}
        /\ {d \in {p.rlt} : net.R[a] > 0 /\ mesh!FarLt(a, t)} = {d \in {p.rlt} : lt}
        /\ {d \in {p.rgt} : net.R[a] > 0 /\ mesh!FarGt(a, t)} = {d \in {p.rgt} : gt}
    BY <1>1
  <2>2. QED
    BY <2>1 DEF mesh!FirstAxis
<1> HIDE DEF x, gt, lt, p
<1>6. CASE x = t
  BY <1>2, <1>4, <1>5, <1>6 DEF x, gt, lt, p
<1>7. CASE x < t
  <2>1. ~(t < x) /\ ~lt /\ t > x /\ x # t
    BY <1>2, <1>4, <1>7
  <2>2. mesh!FirstAxis(a, t) = {IF gt THEN p.rgt ELSE p.gt}
    BY <1>5, <2>1
  <2>3. QED
    BY <1>7, <2>1, <2>2 DEF x, gt, p
<1>8. CASE t < x
  <2>1. ~(x < t) /\ ~gt /\ ~(t > x) /\ x # t
    BY <1>2, <1>4, <1>8
  <2>2. mesh!FirstAxis(a, t) = {IF lt THEN p.rlt ELSE p.lt}
    BY <1>5, <1>8, <2>1
  <2>3. QED
    BY <2>1, <2>2 DEF x, lt, p
<1>9. QED
  BY <1>2, <1>6, <1>7, <1>8

(* A ruche link is taken on the second axis. *)
Jumps(b, d) ==
  /\ net.R[b] > 0 /\ d % net.R[b] = 0
  /\ net.depopulated => from \in {mesh!Ports[b].lt, mesh!Ports[b].gt,
                                  mesh!Ports[b].rlt, mesh!Ports[b].rgt}

(* What the second axis asks for, once the first is done. *)
LEMMA SecondAsks ==
  ASSUME MeshInv, my[axis1] = mesh!to[axis1]
  PROVE  LET b == axis2
             q == mesh!Ports[b]
             x == my[b]
             t == mesh!to[b]
         IN  mesh!SecondAxis(b, t) =
               IF x = t THEN {}
               ELSE IF x < t THEN {IF Jumps(b, t - x) THEN q.rgt ELSE q.gt}
                    ELSE {IF Jumps(b, x - t) THEN q.rlt ELSE q.lt}
<1> DEFINE b == axis2
           q == mesh!Ports[b]
           c == mesh!Ports[axis1]
           x == my[b]
           t == mesh!to[b]
           R == net.R[b]
           up == Jumps(b, t - x)
           down == Jumps(b, x - t)
<1>1. /\ b \in Axes /\ mesh!Cross(b) = axis1
      /\ from \in {"P", q.lt, q.gt, q.rlt, q.rgt, c.lt, c.gt, c.rlt, c.rgt}
      /\ "P" \notin {q.lt, q.gt, q.rlt, q.rgt, c.lt, c.gt, c.rlt, c.rgt}
      /\ q.lt \notin {q.gt, q.rlt, q.rgt, c.lt, c.gt, c.rlt, c.rgt}
      /\ q.gt \notin {q.rlt, q.rgt, c.lt, c.gt, c.rlt, c.rgt}
      /\ q.rlt \notin {q.rgt, c.lt, c.gt, c.rlt, c.rgt}
      /\ q.rgt \notin {c.lt, c.gt, c.rlt, c.rgt}
      /\ c.lt # c.rlt /\ c.lt # c.rgt /\ c.gt # c.rlt /\ c.gt # c.rgt
  <2>1. CASE XY_order_p
    BY <2>1, PortNames DEF axis1, axis2, MeshInv, MeshTypeOK, Axes, mesh!Axes
  <2>2. CASE ~XY_order_p
    BY <2>2, PortNames DEF axis1, axis2, MeshInv, MeshTypeOK, Axes, mesh!Axes
  <2>3. QED
    BY <2>1, <2>2
<1>2. x \in Nat /\ t \in Nat /\ R \in Nat /\ net.depopulated \in BOOLEAN
  BY <1>1, NetworkIs DEF MeshInv, MeshTypeOK, mesh!to
<1>3. /\ from = q.lt => x <= t
      /\ from = q.gt => t <= x
      /\ from = q.rlt => R > 0 /\ x <= t /\ (t - x) % R = 0
      /\ from = q.rgt => R > 0 /\ t <= x /\ (x - t) % R = 0
      /\ from \in {c.rlt, c.rgt} => ~net.depopulated
  BY DEF MeshInv, OnTheWay
<1>4. /\ mesh!Straight(b, t) =
           IF x < t THEN {IF (t - x) % R = 0 THEN q.rgt ELSE q.gt}
           ELSE IF t < x THEN {IF (x - t) % R = 0 THEN q.rlt ELSE q.lt} ELSE {}
      /\ mesh!Local(b, t) = IF x < t THEN {q.gt} ELSE IF t < x THEN {q.lt} ELSE {}
  BY <1>2 DEF mesh!Straight, mesh!Local
<1>5. mesh!SecondAxis(b, t) =
        IF R = 0 THEN mesh!Local(b, t) ELSE
        CASE from \in {"P", c.lt, c.gt} ->
               IF net.depopulated THEN mesh!Local(b, t) ELSE mesh!Straight(b, t)
          [] from = q.lt        -> mesh!Straight(b, t) \cap {q.gt, q.rgt}
          [] from = q.gt        -> mesh!Straight(b, t) \cap {q.lt, q.rlt}
          [] from = q.rlt       -> IF x < t THEN {q.rgt} ELSE {}
          [] from = q.rgt       -> IF t < x THEN {q.rlt} ELSE {}
          [] from \in {c.rlt, c.rgt} ->
               IF net.depopulated THEN {} ELSE mesh!Straight(b, t)
  <2>1. t > x <=> x < t
    BY <1>2
  <2>2. QED
    BY <1>1, <2>1 DEF mesh!SecondAxis
<1>6. /\ up <=> R > 0 /\ (t - x) % R = 0
                /\ (net.depopulated => from \in {q.lt, q.gt, q.rlt, q.rgt})
      /\ down <=> R > 0 /\ (x - t) % R = 0
                /\ (net.depopulated => from \in {q.lt, q.gt, q.rlt, q.rgt})
  BY DEF Jumps
<1>7. PICK ku \in BOOLEAN, kd \in BOOLEAN :
        (ku <=> (t - x) % R = 0) /\ (kd <=> (x - t) % R = 0)
  <2>1. ((t - x) % R = 0) \in BOOLEAN /\ ((x - t) % R = 0) \in BOOLEAN
    OBVIOUS
  <2>2. QED
    BY <2>1
<1>8. PICK L, S :
        /\ L = mesh!Local(b, t) /\ S = mesh!Straight(b, t)
        /\ L = IF x < t THEN {q.gt} ELSE IF t < x THEN {q.lt} ELSE {}
        /\ S = IF x < t THEN {IF ku THEN q.rgt ELSE q.gt}
               ELSE IF t < x THEN {IF kd THEN q.rlt ELSE q.lt} ELSE {}
  BY <1>4, <1>7
<1>9. \/ x = t /\ ~(x < t) /\ ~(t < x)
      \/ x < t /\ x # t /\ ~(t < x)
      \/ t < x /\ x # t /\ ~(x < t)
  BY <1>2
<1> SUFFICES mesh!SecondAxis(b, t) =
               IF x = t THEN {} ELSE IF x < t THEN {IF up THEN q.rgt ELSE q.gt}
                                     ELSE {IF down THEN q.rlt ELSE q.lt}
  OBVIOUS
<1> DEFINE along == from \in {q.lt, q.gt, q.rlt, q.rgt}
<1>19. /\ up <=> R > 0 /\ ku /\ (net.depopulated => along)
       /\ down <=> R > 0 /\ kd /\ (net.depopulated => along)
  BY <1>6, <1>7
<1>20. (from = q.rlt => R > 0 /\ ku) /\ (from = q.rgt => R > 0 /\ kd)
  BY <1>3, <1>7
<1> HIDE DEF b, q, c, x, t, R, up, down
<1>10. CASE R = 0
  <2>1. ~up /\ ~down /\ mesh!SecondAxis(b, t) = L
    BY <1>2, <1>5, <1>8, <1>19, <1>10
  <2>2. QED
    BY <1>8, <1>9, <2>1
<1>11. CASE R > 0 /\ from \in {"P", c.lt, c.gt}
  <2>1. mesh!SecondAxis(b, t) = (IF net.depopulated THEN L ELSE S) /\ ~along /\ R # 0
    BY <1>1, <1>2, <1>5, <1>8, <1>11
  <2> HIDE DEF along
  <2>2. CASE net.depopulated
    <3>1. ~up /\ ~down /\ mesh!SecondAxis(b, t) = L
      BY <1>19, <2>1, <2>2
    <3>2. QED
      BY <1>8, <1>9, <3>1
  <2>3. CASE ~net.depopulated
    <3>1. (up <=> ku) /\ (down <=> kd) /\ mesh!SecondAxis(b, t) = S
      BY <1>11, <1>19, <2>1, <2>3
    <3>2. QED
      BY <1>8, <1>9, <3>1
  <2>4. QED
    BY <2>2, <2>3
<1>12. CASE R > 0 /\ from = q.lt
  <2>1. mesh!SecondAxis(b, t) = S \cap {q.gt, q.rgt} /\ ~(t < x) /\ along /\ R # 0
    BY <1>1, <1>2, <1>3, <1>5, <1>8, <1>12
  <2>2. up <=> ku
    BY <1>12, <1>19, <2>1
  <2>3. QED
    BY <1>8, <1>9, <2>1, <2>2
<1>13. CASE R > 0 /\ from = q.gt
  <2>1. mesh!SecondAxis(b, t) = S \cap {q.lt, q.rlt} /\ ~(x < t) /\ along /\ R # 0
    BY <1>1, <1>2, <1>3, <1>5, <1>8, <1>13
  <2>2. down <=> kd
    BY <1>13, <1>19, <2>1
  <2>3. QED
    BY <1>8, <1>9, <2>1, <2>2
<1>14. CASE from = q.rlt
  <2>1. mesh!SecondAxis(b, t) = (IF x < t THEN {q.rgt} ELSE {}) /\ ~(t < x) /\ up
    BY <1>1, <1>2, <1>3, <1>5, <1>14, <1>19, <1>20
  <2>2. QED
    BY <1>9, <2>1
<1>15. CASE from = q.rgt
  <2>1. mesh!SecondAxis(b, t) = (IF t < x THEN {q.rlt} ELSE {}) /\ ~(x < t) /\ down
    BY <1>1, <1>2, <1>3, <1>5, <1>15, <1>19, <1>20
  <2>2. QED
    BY <1>9, <2>1
<1>16. CASE R > 0 /\ from \in {c.rlt, c.rgt}
  <2>1. mesh!SecondAxis(b, t) = S /\ ~net.depopulated
    BY <1>1, <1>2, <1>3, <1>5, <1>8, <1>16
  <2>2. (up <=> ku) /\ (down <=> kd)
    BY <1>16, <1>19, <2>1
  <2>3. QED
    BY <1>8, <1>9, <2>1, <2>2
<1>17. R = 0 \/ R > 0
  BY <1>2
<1>18. QED
  BY <1>1, <1>10, <1>11, <1>12, <1>13, <1>14, <1>15, <1>16, <1>17

(* What the decoder asks for. *)
Asks(o) ==
  LET a == axis1
      b == axis2
      p == mesh!Ports[a]
      q == mesh!Ports[b]
      t == mesh!to
  IN  \/ /\ my[a] = t[a] /\ my[b] = t[b]
         /\ o = "P"
      \/ /\ my[a] < t[a]
         /\ o = IF Reaches(a, t[a] - my[a]) THEN p.rgt ELSE p.gt
      \/ /\ t[a] < my[a]
         /\ o = IF Reaches(a, my[a] - t[a]) THEN p.rlt ELSE p.lt
      \/ /\ my[a] = t[a] /\ my[b] < t[b]
         /\ o = IF Jumps(b, t[b] - my[b]) THEN q.rgt ELSE q.gt
      \/ /\ my[a] = t[a] /\ t[b] < my[b]
         /\ o = IF Jumps(b, my[b] - t[b]) THEN q.rlt ELSE q.lt

(* The two axes and where the packet is on them. *)
LEMMA AxesAre ==
  ASSUME MeshTypeOK
  PROVE  /\ axis1 \in Axes /\ axis2 \in Axes /\ axis1 # axis2
         /\ \A a \in Axes : a = axis1 \/ a = axis2
         /\ mesh!to \in [Axes -> Nat]
         /\ \A a \in Axes : /\ mesh!to[a] \in 0 .. net.size[a] - 1
                            /\ my[a] \in 0 .. net.size[a] - 1
                            /\ mesh!to[a] \in Nat /\ my[a] \in Nat
                            /\ net.R[a] \in Nat /\ net.size[a] \in Nat \ {0}
         /\ my = mesh!to <=> my[axis1] = mesh!to[axis1] /\ my[axis2] = mesh!to[axis2]
<1>1. /\ axis1 \in Axes /\ axis2 \in Axes /\ axis1 # axis2
      /\ \A a \in Axes : a = axis1 \/ a = axis2
  BY DEF axis1, axis2, mesh!Cross, Axes, mesh!Axes
<1>2. /\ mesh!to \in [Axes -> Nat] /\ my \in [Axes -> Nat]
      /\ \A a \in Axes : mesh!to[a] \in 0 .. net.size[a] - 1 /\ my[a] \in 0 .. net.size[a] - 1
  BY DEF MeshTypeOK, mesh!to
<1>3. \A a \in Axes : net.R[a] \in Nat /\ net.size[a] \in Nat \ {0}
  BY NetworkIs DEF MeshTypeOK
<1>4. (\A a \in Axes : my[a] = mesh!to[a]) => my = mesh!to
  BY <1>2
<1>5. QED
  BY <1>1, <1>2, <1>3, <1>4

(* It asks for one output. *)
LEMMA Decided ==
  ASSUME MeshInv
  PROVE  \E o : mesh!req_o = {o} /\ Asks(o)
<1> DEFINE a == axis1
           b == axis2
           p == mesh!Ports[a]
           q == mesh!Ports[b]
           x == my[a]
           y == my[b]
           t == mesh!to[a]
           u == mesh!to[b]
           F == mesh!FirstAxis(a, t)
           S == mesh!SecondAxis(b, u)
           og == IF Reaches(a, t - x) THEN p.rgt ELSE p.gt
           ol == IF Reaches(a, x - t) THEN p.rlt ELSE p.lt
           og2 == IF Jumps(b, u - y) THEN q.rgt ELSE q.gt
           ol2 == IF Jumps(b, y - u) THEN q.rlt ELSE q.lt
<1>1. /\ a \in Axes /\ t \in 0 .. net.size[a] - 1
      /\ x \in Nat /\ y \in Nat /\ t \in Nat /\ u \in Nat
      /\ my = mesh!to <=> x = t /\ y = u
  BY AxesAre DEF MeshInv
<1>2. mesh!req_o = {d \in {"P"} : x = t /\ y = u} \cup F \cup IF x = t THEN S ELSE {}
  BY <1>1 DEF mesh!req_o, axis1, axis2
<1>3. F = IF x = t THEN {} ELSE IF x < t THEN {og} ELSE {ol}
  BY <1>1, FirstAsks DEF MeshInv
<1>4. x = t => S = IF y = u THEN {} ELSE IF y < u THEN {og2} ELSE {ol2}
  BY SecondAsks
<1>5. \A o : Asks(o) <=> \/ x = t /\ y = u /\ o = "P"
                         \/ x < t /\ o = og
                         \/ t < x /\ o = ol
                         \/ x = t /\ y < u /\ o = og2
                         \/ x = t /\ u < y /\ o = ol2
  BY DEF Asks
<1> HIDE DEF a, b, p, q, x, y, t, u, F, S, og, ol, og2, ol2
<1>6. CASE x = t /\ y = u
  BY <1>2, <1>3, <1>4, <1>5, <1>6
<1>7. CASE x < t
  <2>1. x # t /\ ~(t < x)
    BY <1>1, <1>7
  <2>2. QED
    BY <1>2, <1>3, <1>5, <1>7, <2>1
<1>8. CASE t < x
  <2>1. x # t /\ ~(x < t)
    BY <1>1, <1>8
  <2>2. QED
    BY <1>2, <1>3, <1>5, <1>8, <2>1
<1>9. CASE x = t /\ y < u
  <2>1. y # u
    BY <1>1, <1>9
  <2>2. QED
    BY <1>2, <1>3, <1>4, <1>5, <1>9, <2>1
<1>10. CASE x = t /\ u < y
  <2>1. y # u /\ ~(y < u)
    BY <1>1, <1>10
  <2>2. QED
    BY <1>2, <1>3, <1>4, <1>5, <1>10, <2>1
<1>11. QED
  BY <1>1, <1>6, <1>7, <1>8, <1>9, <1>10

(* The turns that are asked for: to go on by a ruche link on the first     *)
(* axis one comes by none but those, on the second axis one comes to a     *)
(* local link by no ruche link of it; and a depopulated network has no     *)
(* turn to or from a ruche link but from and to the local links of its     *)
(* axis.                                                                   *)
MayTurn(i, o) ==
  LET p == mesh!Ports[axis1]
      q == mesh!Ports[axis2]
      crossing == {"P", p.lt, p.gt} \cup IF net.depopulated THEN {} ELSE {p.rlt, p.rgt}
      jumping == IF net.depopulated THEN {} ELSE crossing
  IN  \/ o = "P" /\ i \in crossing \cup {q.lt, q.gt, q.rlt, q.rgt}
      \/ o = p.gt /\ i \in {"P", p.lt, p.rlt}
      \/ o = p.lt /\ i \in {"P", p.gt, p.rgt}
      \/ o = p.rgt /\ net.R[axis1] > 0 /\ i \in {"P", p.rlt}
      \/ o = p.rlt /\ net.R[axis1] > 0 /\ i \in {"P", p.rgt}
      \/ o = q.gt /\ i \in crossing \cup {q.lt}
      \/ o = q.lt /\ i \in crossing \cup {q.gt}
      \/ o = q.rgt /\ net.R[axis2] > 0 /\ i \in jumping \cup {q.lt, q.rlt}
      \/ o = q.rlt /\ net.R[axis2] > 0 /\ i \in jumping \cup {q.gt, q.rgt}

(* The decoder asks for those turns alone. *)
LEMMA AsksForTurns ==
  ASSUME MeshInv, NEW o, Asks(o)
  PROVE  /\ MayTurn(from, o)
         /\ from \in {mesh!Ports[axis1].rlt, mesh!Ports[axis1].rgt} => net.R[axis1] > 0
         /\ from \in {mesh!Ports[axis2].rlt, mesh!Ports[axis2].rgt} => net.R[axis2] > 0
<1> DEFINE a == axis1
           b == axis2
           p == mesh!Ports[a]
           q == mesh!Ports[b]
           x == my[a]
           y == my[b]
           t == mesh!to[a]
           u == mesh!to[b]
           R == net.R[a]
           Q == net.R[b]
<1>1. /\ from \in {"P", q.lt, q.gt, q.rlt, q.rgt, p.lt, p.gt, p.rlt, p.rgt}
      /\ "P" \notin {q.lt, q.gt, q.rlt, q.rgt, p.lt, p.gt, p.rlt, p.rgt}
      /\ q.lt \notin {q.gt, q.rlt, q.rgt, p.lt, p.gt, p.rlt, p.rgt}
      /\ q.gt \notin {q.rlt, q.rgt, p.lt, p.gt, p.rlt, p.rgt}
      /\ q.rlt \notin {q.rgt, p.lt, p.gt, p.rlt, p.rgt}
      /\ q.rgt \notin {p.lt, p.gt, p.rlt, p.rgt}
  <2>1. CASE XY_order_p
    BY <2>1, PortNames DEF axis1, axis2, MeshInv, MeshTypeOK
  <2>2. CASE ~XY_order_p
    BY <2>2, PortNames DEF axis1, axis2, MeshInv, MeshTypeOK
  <2>3. QED
    BY <2>1, <2>2
<1>2. /\ x \in Nat /\ y \in Nat /\ t \in Nat /\ u \in Nat /\ R \in Nat /\ Q \in Nat
  BY AxesAre DEF MeshInv
<1>3. /\ from = p.lt => x <= t /\ (R > 0 => t - x < R)
      /\ from = p.gt => t <= x /\ (R > 0 => x - t < R)
      /\ from = p.rlt => R > 0 /\ x <= t /\ (net.depopulated => x # t)
      /\ from = p.rgt => R > 0 /\ t <= x /\ (net.depopulated => x # t)
      /\ from \in {q.lt, q.gt, q.rlt, q.rgt} => x = t
      /\ from = q.lt => y <= u
      /\ from = q.gt => u <= y
      /\ from = q.rlt => Q > 0 /\ y <= u /\ (u - y) % Q = 0
      /\ from = q.rgt => Q > 0 /\ u <= y /\ (y - u) % Q = 0
  BY DEF MeshInv, OnTheWay
<1>4. \/ x = t /\ y = u /\ o = "P"
      \/ x < t /\ o = IF Reaches(a, t - x) THEN p.rgt ELSE p.gt
      \/ t < x /\ o = IF Reaches(a, x - t) THEN p.rlt ELSE p.lt
      \/ x = t /\ y < u /\ o = IF Jumps(b, u - y) THEN q.rgt ELSE q.gt
      \/ x = t /\ u < y /\ o = IF Jumps(b, y - u) THEN q.rlt ELSE q.lt
  BY DEF Asks
<1>5. \A d : /\ Reaches(a, d) <=> R > 0 /\ IF net.depopulated THEN d > R ELSE d >= R
             /\ Jumps(b, d) <=> Q > 0 /\ d % Q = 0
                  /\ (net.depopulated => from \in {q.lt, q.gt, q.rlt, q.rgt})
  BY DEF Reaches, Jumps
<1>6. MayTurn(from, o) <=>
        LET crossing == {"P", p.lt, p.gt} \cup IF net.depopulated THEN {} ELSE {p.rlt, p.rgt}
            jumping == IF net.depopulated THEN {} ELSE crossing
        IN  \/ o = "P" /\ from \in crossing \cup {q.lt, q.gt, q.rlt, q.rgt}
            \/ o = p.gt /\ from \in {"P", p.lt, p.rlt}
            \/ o = p.lt /\ from \in {"P", p.gt, p.rgt}
            \/ o = p.rgt /\ R > 0 /\ from \in {"P", p.rlt}
            \/ o = p.rlt /\ R > 0 /\ from \in {"P", p.rgt}
            \/ o = q.gt /\ from \in crossing \cup {q.lt}
            \/ o = q.lt /\ from \in crossing \cup {q.gt}
            \/ o = q.rgt /\ Q > 0 /\ from \in jumping \cup {q.lt, q.rlt}
            \/ o = q.rlt /\ Q > 0 /\ from \in jumping \cup {q.gt, q.rgt}
  BY DEF MayTurn
<1> SUFFICES /\ MayTurn(from, o) /\ (from \in {p.rlt, p.rgt} => R > 0)
             /\ (from \in {q.rlt, q.rgt} => Q > 0)
  OBVIOUS
<1> HIDE DEF a, b, p, q, x, y, t, u, R, Q
<1>7. CASE x = t /\ y = u /\ o = "P"
  BY <1>1, <1>3, <1>6, <1>7
<1>8. CASE x < t /\ o = IF Reaches(a, t - x) THEN p.rgt ELSE p.gt
  <2>1. from \in {"P", p.lt, p.rlt}
    BY <1>1, <1>2, <1>3, <1>8
  <2>2. from = p.lt => ~Reaches(a, t - x)
    BY <1>2, <1>3, <1>5
  <2>3. Reaches(a, t - x) => R > 0
    BY <1>5
  <2>4. QED
    BY <1>1, <1>3, <1>6, <1>8, <2>1, <2>2, <2>3
<1>9. CASE t < x /\ o = IF Reaches(a, x - t) THEN p.rlt ELSE p.lt
  <2>1. from \in {"P", p.gt, p.rgt}
    BY <1>1, <1>2, <1>3, <1>9
  <2>2. from = p.gt => ~Reaches(a, x - t)
    BY <1>2, <1>3, <1>5
  <2>3. Reaches(a, x - t) => R > 0
    BY <1>5
  <2>4. QED
    BY <1>1, <1>3, <1>6, <1>9, <2>1, <2>2, <2>3
<1>10. CASE x = t /\ y < u /\ o = IF Jumps(b, u - y) THEN q.rgt ELSE q.gt
  <2>1. from \notin {q.gt, q.rgt}
    BY <1>2, <1>3, <1>10
  <2>2. from = q.rlt => Jumps(b, u - y)
    BY <1>3, <1>5
  <2>3. Jumps(b, u - y) => Q > 0 /\ (net.depopulated => from \in {q.lt, q.gt, q.rlt, q.rgt})
    BY <1>5
  <2>4. net.depopulated => from \notin {p.rlt, p.rgt}
    BY <1>3, <1>10
  <2>5. PICK j \in BOOLEAN : j <=> Jumps(b, u - y)
    BY DEF Jumps
  <2>6. o = IF j THEN q.rgt ELSE q.gt
    BY <1>10, <2>5
  <2>7. QED
    BY <1>1, <1>3, <1>6, <2>1, <2>2, <2>3, <2>4, <2>5, <2>6
<1>11. CASE x = t /\ u < y /\ o = IF Jumps(b, y - u) THEN q.rlt ELSE q.lt
  <2>1. from \notin {q.lt, q.rlt}
    BY <1>2, <1>3, <1>11
  <2>2. from = q.rgt => Jumps(b, y - u)
    BY <1>3, <1>5
  <2>3. Jumps(b, y - u) => Q > 0 /\ (net.depopulated => from \in {q.lt, q.gt, q.rlt, q.rgt})
    BY <1>5
  <2>4. net.depopulated => from \notin {p.rlt, p.rgt}
    BY <1>3, <1>11
  <2>5. PICK j \in BOOLEAN : j <=> Jumps(b, y - u)
    BY DEF Jumps
  <2>6. o = IF j THEN q.rlt ELSE q.lt
    BY <1>11, <2>5
  <2>7. QED
    BY <1>1, <1>3, <1>6, <2>1, <2>2, <2>3, <2>4, <2>5, <2>6
<1>12. QED
  BY <1>4, <1>7, <1>8, <1>9, <1>10, <1>11

(* The crossbars have those turns. *)
LEMMA TurnsAreThere ==
  ASSUME MeshTypeOK, NEW i, NEW o, MayTurn(i, o),
         i \in {mesh!Ports[axis1].rlt, mesh!Ports[axis1].rgt} => net.R[axis1] > 0,
         i \in {mesh!Ports[axis2].rlt, mesh!Ports[axis2].rgt} => net.R[axis2] > 0
  PROVE  i \in mesh!routing_matrix_p[o]
<1>1. /\ net.dims \in {2, 3, 4} /\ net.depopulated \in BOOLEAN /\ XY_order_p \in BOOLEAN
      /\ net.R["X"] > 0 <=> net.dims > 2
      /\ net.R["Y"] > 0 <=> net.dims > 3
  BY NetworkIs DEF MeshTypeOK
<1>2. /\ net.R["X"] > 0 <=> net.dims \in {3, 4}
      /\ net.R["Y"] > 0 <=> net.dims = 4
  BY <1>1
<1>3. /\ XY_order_p => axis1 = "X" /\ axis2 = "Y"
      /\ ~XY_order_p => axis1 = "Y" /\ axis2 = "X"
  BY PortNames DEF axis1, axis2
<1>4. CASE net.dims = 2 /\ XY_order_p
  BY <1>2, <1>3, <1>4, PortNames DEF MayTurn, mesh!routing_matrix_p, mesh!StrictXY
<1>5. CASE net.dims = 2 /\ ~XY_order_p
  BY <1>2, <1>3, <1>5, PortNames DEF MayTurn, mesh!routing_matrix_p, mesh!StrictYX
<1>6. CASE net.dims = 3 /\ net.depopulated /\ XY_order_p
  BY <1>2, <1>3, <1>6, PortNames DEF MayTurn, mesh!routing_matrix_p, mesh!HalfRucheX_StrictXY
<1>7. CASE net.dims = 3 /\ net.depopulated /\ ~XY_order_p
  BY <1>2, <1>3, <1>7, PortNames DEF MayTurn, mesh!routing_matrix_p, mesh!HalfRucheX_StrictYX
<1>8. CASE net.dims = 3 /\ ~net.depopulated /\ XY_order_p
  BY <1>2, <1>3, <1>8, PortNames
  DEF MayTurn, mesh!routing_matrix_p, mesh!HalfRucheX_FullyPopulated_StrictXY
<1>9. CASE net.dims = 3 /\ ~net.depopulated /\ ~XY_order_p
  BY <1>2, <1>3, <1>9, PortNames
  DEF MayTurn, mesh!routing_matrix_p, mesh!HalfRucheX_FullyPopulated_StrictYX
<1>10. CASE net.dims = 4 /\ net.depopulated /\ XY_order_p
  BY <1>2, <1>3, <1>10, PortNames DEF MayTurn, mesh!routing_matrix_p, mesh!FullRuche_StrictXY
<1>11. CASE net.dims = 4 /\ net.depopulated /\ ~XY_order_p
  BY <1>2, <1>3, <1>11, PortNames DEF MayTurn, mesh!routing_matrix_p, mesh!FullRuche_StrictYX
<1>12. CASE net.dims = 4 /\ ~net.depopulated /\ XY_order_p
  BY <1>2, <1>3, <1>12, PortNames
  DEF MayTurn, mesh!routing_matrix_p, mesh!FullRuche_FullyPopulated_StrictXY
<1>13. CASE net.dims = 4 /\ ~net.depopulated /\ ~XY_order_p
  BY <1>2, <1>3, <1>13, PortNames
  DEF MayTurn, mesh!routing_matrix_p, mesh!FullRuche_FullyPopulated_StrictYX
<1>14. QED
  BY <1>1, <1>4, <1>5, <1>6, <1>7, <1>8, <1>9, <1>10, <1>11, <1>12, <1>13

(* The coordinates d further on axis c. *)
Shifted(c, d) == [my EXCEPT ![c] = @ + d]

(* The links of an axis and their other ends. *)
LEMMA LinkIs ==
  ASSUME NEW c \in Axes
  PROVE  LET p == mesh!Ports[c]
         IN  /\ mesh!Beyond[p.gt].to = Shifted(c, 1) /\ mesh!Beyond[p.gt].at = p.lt
             /\ mesh!Beyond[p.lt].to = Shifted(c, -1) /\ mesh!Beyond[p.lt].at = p.gt
             /\ mesh!Beyond[p.rgt].to = Shifted(c, net.R[c]) /\ mesh!Beyond[p.rgt].at = p.rlt
             /\ mesh!Beyond[p.rlt].to = Shifted(c, -net.R[c]) /\ mesh!Beyond[p.rlt].at = p.rgt
<1>1. \A d : mesh!Shift("X", d) = Shifted("X", d) /\ mesh!Shift("Y", d) = Shifted("Y", d)
  BY DEF mesh!Shift, Shifted
<1>2. /\ mesh!Beyond["E"] = [to |-> mesh!Shift("X", 1), at |-> "W"]
      /\ mesh!Beyond["W"] = [to |-> mesh!Shift("X", -1), at |-> "E"]
      /\ mesh!Beyond["RE"] = [to |-> mesh!Shift("X", net.R["X"]), at |-> "RW"]
      /\ mesh!Beyond["RW"] = [to |-> mesh!Shift("X", -net.R["X"]), at |-> "RE"]
  BY DEF mesh!Beyond
<1>3. /\ mesh!Beyond["S"] = [to |-> mesh!Shift("Y", 1), at |-> "N"]
      /\ mesh!Beyond["N"] = [to |-> mesh!Shift("Y", -1), at |-> "S"]
      /\ mesh!Beyond["RS"] = [to |-> mesh!Shift("Y", net.R["Y"]), at |-> "RN"]
      /\ mesh!Beyond["RN"] = [to |-> mesh!Shift("Y", -net.R["Y"]), at |-> "RS"]
  BY DEF mesh!Beyond
<1>4. CASE c = "X"
  BY <1>1, <1>2, <1>4, PortNames
<1>5. CASE c = "Y"
  BY <1>1, <1>3, <1>5, PortNames
<1>6. QED
  BY <1>4, <1>5 DEF Axes, mesh!Axes

(* A packet passed on by output o is at router m, at port f. *)
Moves(o, m, f) ==
  LET a == axis1
      b == axis2
      p == mesh!Ports[a]
      q == mesh!Ports[b]
      t == mesh!to
  IN  \/ /\ my[a] < t[a]
         /\ \/ /\ ~Reaches(a, t[a] - my[a])
               /\ o = p.gt /\ f = p.lt /\ m = Shifted(a, 1)
            \/ /\ Reaches(a, t[a] - my[a])
               /\ o = p.rgt /\ f = p.rlt /\ m = Shifted(a, net.R[a])
      \/ /\ t[a] < my[a]
         /\ \/ /\ ~Reaches(a, my[a] - t[a])
               /\ o = p.lt /\ f = p.gt /\ m = Shifted(a, -1)
            \/ /\ Reaches(a, my[a] - t[a])
               /\ o = p.rlt /\ f = p.rgt /\ m = Shifted(a, -net.R[a])
      \/ /\ my[a] = t[a] /\ my[b] < t[b]
         /\ \/ /\ ~Jumps(b, t[b] - my[b])
               /\ o = q.gt /\ f = q.lt /\ m = Shifted(b, 1)
            \/ /\ Jumps(b, t[b] - my[b])
               /\ o = q.rgt /\ f = q.rlt /\ m = Shifted(b, net.R[b])
      \/ /\ my[a] = t[a] /\ t[b] < my[b]
         /\ \/ /\ ~Jumps(b, my[b] - t[b])
               /\ o = q.lt /\ f = q.gt /\ m = Shifted(b, -1)
            \/ /\ Jumps(b, my[b] - t[b])
               /\ o = q.rlt /\ f = q.rgt /\ m = Shifted(b, -net.R[b])

(* What the link of the requested output leads to. *)
LEMMA HopIs ==
  ASSUME MeshInv, NEW o, Asks(o), o # "P"
  PROVE  Moves(o, mesh!Beyond[o].to, mesh!Beyond[o].at)
<1>1. /\ axis1 \in Axes /\ axis2 \in Axes
      /\ my[axis1] = mesh!to[axis1] /\ my[axis2] = mesh!to[axis2] => my = mesh!to
  BY AxesAre DEF MeshInv
<1>2. PICK B : B = mesh!Beyond
  OBVIOUS
<1>3. \A c \in Axes :
        LET p == mesh!Ports[c]
        IN  /\ B[p.gt].to = Shifted(c, 1) /\ B[p.gt].at = p.lt
            /\ B[p.lt].to = Shifted(c, -1) /\ B[p.lt].at = p.gt
            /\ B[p.rgt].to = Shifted(c, net.R[c]) /\ B[p.rgt].at = p.rlt
            /\ B[p.rlt].to = Shifted(c, -net.R[c]) /\ B[p.rlt].at = p.rgt
  BY <1>2, LinkIs
<1>4. Moves(o, B[o].to, B[o].at)
  <2> DEFINE a == axis1
             b == axis2
             p == mesh!Ports[a]
             q == mesh!Ports[b]
             t == mesh!to
  <2>1. CASE my[a] < t[a] /\ o = IF Reaches(a, t[a] - my[a]) THEN p.rgt ELSE p.gt
    <3>1. CASE Reaches(a, t[a] - my[a])
      BY <1>1, <1>3, <2>1, <3>1 DEF Moves
    <3>2. CASE ~Reaches(a, t[a] - my[a])
      BY <1>1, <1>3, <2>1, <3>2 DEF Moves
    <3>3. QED
      BY <3>1, <3>2
  <2>2. CASE t[a] < my[a] /\ o = IF Reaches(a, my[a] - t[a]) THEN p.rlt ELSE p.lt
    <3>1. CASE Reaches(a, my[a] - t[a])
      BY <1>1, <1>3, <2>2, <3>1 DEF Moves
    <3>2. CASE ~Reaches(a, my[a] - t[a])
      BY <1>1, <1>3, <2>2, <3>2 DEF Moves
    <3>3. QED
      BY <3>1, <3>2
  <2>3. CASE /\ my[a] = t[a] /\ my[b] < t[b]
             /\ o = IF Jumps(b, t[b] - my[b]) THEN q.rgt ELSE q.gt
    <3>1. CASE Jumps(b, t[b] - my[b])
      BY <1>1, <1>3, <2>3, <3>1 DEF Moves
    <3>2. CASE ~Jumps(b, t[b] - my[b])
      BY <1>1, <1>3, <2>3, <3>2 DEF Moves
    <3>3. QED
      BY <3>1, <3>2
  <2>4. CASE /\ my[a] = t[a] /\ t[b] < my[b]
             /\ o = IF Jumps(b, my[b] - t[b]) THEN q.rlt ELSE q.lt
    <3>1. CASE Jumps(b, my[b] - t[b])
      BY <1>1, <1>3, <2>4, <3>1 DEF Moves
    <3>2. CASE ~Jumps(b, my[b] - t[b])
      BY <1>1, <1>3, <2>4, <3>2 DEF Moves
    <3>3. QED
      BY <3>1, <3>2
  <2>5. QED
    BY <2>1, <2>2, <2>3, <2>4 DEF Asks
<1>5. QED
  BY <1>2, <1>4

(* How far it is then on an axis: it comes nearer by a link and stays in   *)
(* the mesh.                                                               *)
LEMMA Shifts ==
  ASSUME MeshTypeOK, NEW c \in Axes, NEW d \in Int, my[c] + d \in 0 .. net.size[c] - 1
  PROVE  /\ Shifted(c, d) \in [Axes -> Nat]
         /\ Shifted(c, d)[c] = my[c] + d
         /\ \A x \in Axes : x # c => Shifted(c, d)[x] = my[x]
         /\ \A x \in Axes : Shifted(c, d)[x] \in 0 .. net.size[x] - 1
<1>1. /\ my \in [Axes -> Nat] /\ \A x \in Axes : my[x] \in 0 .. net.size[x] - 1
      /\ net.size[c] \in Nat
  BY NetworkIs DEF MeshTypeOK
<1>2. /\ DOMAIN Shifted(c, d) = Axes /\ Shifted(c, d)[c] = my[c] + d
      /\ \A x \in Axes : x # c => Shifted(c, d)[x] = my[x]
      /\ Shifted(c, d) = [x \in Axes |-> IF x = c THEN my[c] + d ELSE my[x]]
  BY <1>1 DEF Shifted
<1>3. my[c] + d \in Nat
  BY <1>1
<1>4. QED
  BY <1>1, <1>2, <1>3

(* Where it lands. *)
LEMMA Lands ==
  ASSUME MeshInv, NEW o, NEW m, NEW f, Moves(o, m, f)
  PROVE  LET a == axis1
             b == axis2
             p == mesh!Ports[a]
             q == mesh!Ports[b]
             t == mesh!to
             R == net.R[a]
             Q == net.R[b]
         IN  /\ m \in [Axes -> Nat] /\ \A c \in Axes : m[c] \in 0 .. net.size[c] - 1
             /\ \/ f = p.lt /\ m[a] <= t[a] /\ (R > 0 => t[a] - m[a] < R)
                \/ f = p.gt /\ t[a] <= m[a] /\ (R > 0 => m[a] - t[a] < R)
                \/ f = p.rlt /\ R > 0 /\ m[a] <= t[a] /\ (net.depopulated => m[a] # t[a])
                \/ f = p.rgt /\ R > 0 /\ t[a] <= m[a] /\ (net.depopulated => m[a] # t[a])
                \/ f = q.lt /\ m[a] = t[a] /\ m[b] <= t[b]
                \/ f = q.gt /\ m[a] = t[a] /\ t[b] <= m[b]
                \/ /\ f = q.rlt /\ m[a] = t[a] /\ Q > 0
                   /\ m[b] <= t[b] /\ (t[b] - m[b]) % Q = 0
                \/ /\ f = q.rgt /\ m[a] = t[a] /\ Q > 0
                   /\ t[b] <= m[b] /\ (m[b] - t[b]) % Q = 0
<1> DEFINE a == axis1
           b == axis2
           p == mesh!Ports[a]
           q == mesh!Ports[b]
           x == my[a]
           y == my[b]
           t == mesh!to[a]
           u == mesh!to[b]
           R == net.R[a]
           Q == net.R[b]
           n == net.size[a]
           k == net.size[b]
<1>1. /\ a \in Axes /\ b \in Axes /\ a # b
      /\ n \in Nat /\ k \in Nat /\ R \in Nat /\ Q \in Nat
      /\ x \in 0 .. n - 1 /\ t \in 0 .. n - 1 /\ y \in 0 .. k - 1 /\ u \in 0 .. k - 1
  BY AxesAre DEF MeshInv
<1>2. \A d : /\ Reaches(a, d) <=> R > 0 /\ IF net.depopulated THEN d > R ELSE d >= R
             /\ Jumps(b, d) => Q > 0 /\ d % Q = 0
  BY DEF Reaches, Jumps
<1>3. \A d \in Int : /\ x + d \in 0 .. n - 1 =>
                          /\ Shifted(a, d) \in [Axes -> Nat]
                          /\ \A c \in Axes : Shifted(a, d)[c] \in 0 .. net.size[c] - 1
                          /\ Shifted(a, d)[a] = x + d
                     /\ y + d \in 0 .. k - 1 =>
                          /\ Shifted(b, d) \in [Axes -> Nat]
                          /\ \A c \in Axes : Shifted(b, d)[c] \in 0 .. net.size[c] - 1
                          /\ Shifted(b, d)[b] = y + d /\ Shifted(b, d)[a] = x
  BY <1>1, Shifts DEF MeshInv
<1>4. \/ x < t /\ ~Reaches(a, t - x) /\ f = p.lt /\ m = Shifted(a, 1)
      \/ x < t /\ Reaches(a, t - x) /\ f = p.rlt /\ m = Shifted(a, R)
      \/ t < x /\ ~Reaches(a, x - t) /\ f = p.gt /\ m = Shifted(a, -1)
      \/ t < x /\ Reaches(a, x - t) /\ f = p.rgt /\ m = Shifted(a, -R)
      \/ x = t /\ y < u /\ ~Jumps(b, u - y) /\ f = q.lt /\ m = Shifted(b, 1)
      \/ x = t /\ y < u /\ Jumps(b, u - y) /\ f = q.rlt /\ m = Shifted(b, Q)
      \/ x = t /\ u < y /\ ~Jumps(b, y - u) /\ f = q.gt /\ m = Shifted(b, -1)
      \/ x = t /\ u < y /\ Jumps(b, y - u) /\ f = q.rgt /\ m = Shifted(b, -Q)
  BY DEF Moves
<1> DEFINE InSize == m \in [Axes -> Nat] /\ \A c \in Axes : m[c] \in 0 .. net.size[c] - 1
           Goal == \/ f = p.lt /\ m[a] <= t /\ (R > 0 => t - m[a] < R)
                   \/ f = p.gt /\ t <= m[a] /\ (R > 0 => m[a] - t < R)
                   \/ f = p.rlt /\ R > 0 /\ m[a] <= t /\ (net.depopulated => m[a] # t)
                   \/ f = p.rgt /\ R > 0 /\ t <= m[a] /\ (net.depopulated => m[a] # t)
                   \/ f = q.lt /\ m[a] = t /\ m[b] <= u
                   \/ f = q.gt /\ m[a] = t /\ u <= m[b]
                   \/ f = q.rlt /\ m[a] = t /\ Q > 0 /\ m[b] <= u /\ (u - m[b]) % Q = 0
                   \/ f = q.rgt /\ m[a] = t /\ Q > 0 /\ u <= m[b] /\ (m[b] - u) % Q = 0
<1> SUFFICES InSize /\ Goal
  OBVIOUS
<1> HIDE DEF a, b, p, q, x, y, t, u, R, Q, n, k
<1>5. CASE x < t /\ ~Reaches(a, t - x) /\ f = p.lt /\ m = Shifted(a, 1)
  <2>1. x + 1 \in 0 .. n - 1 /\ x + 1 <= t /\ (R > 0 => t - (x + 1) < R)
    BY <1>1, <1>2, <1>5
  <2>2. InSize /\ m[a] = x + 1
    BY <1>3, <1>5, <2>1
  <2>3. QED
    BY <1>5, <2>1, <2>2
<1>6. CASE x < t /\ Reaches(a, t - x) /\ f = p.rlt /\ m = Shifted(a, R)
  <2>1. /\ x + R \in 0 .. n - 1 /\ x + R <= t /\ R > 0 /\ R \in Int
        /\ net.depopulated => x + R # t
    BY <1>1, <1>2, <1>6
  <2>2. InSize /\ m[a] = x + R
    BY <1>3, <1>6, <2>1
  <2>3. QED
    BY <1>6, <2>1, <2>2
<1>7. CASE t < x /\ ~Reaches(a, x - t) /\ f = p.gt /\ m = Shifted(a, -1)
  <2>1. x + (-1) \in 0 .. n - 1 /\ t <= x + (-1) /\ (R > 0 => (x + (-1)) - t < R)
    BY <1>1, <1>2, <1>7
  <2>2. InSize /\ m[a] = x + (-1)
    BY <1>3, <1>7, <2>1
  <2>3. QED
    BY <1>7, <2>1, <2>2
<1>8. CASE t < x /\ Reaches(a, x - t) /\ f = p.rgt /\ m = Shifted(a, -R)
  <2>1. /\ x + (-R) \in 0 .. n - 1 /\ t <= x + (-R) /\ R > 0 /\ -R \in Int
        /\ net.depopulated => x + (-R) # t
    BY <1>1, <1>2, <1>8
  <2>2. InSize /\ m[a] = x + (-R)
    BY <1>3, <1>8, <2>1
  <2>3. QED
    BY <1>8, <2>1, <2>2
<1>9. CASE x = t /\ y < u /\ ~Jumps(b, u - y) /\ f = q.lt /\ m = Shifted(b, 1)
  <2>1. y + 1 \in 0 .. k - 1 /\ y + 1 <= u
    BY <1>1, <1>9
  <2>2. InSize /\ m[b] = y + 1 /\ m[a] = x
    BY <1>3, <1>9, <2>1
  <2>3. QED
    BY <1>9, <2>1, <2>2
<1>10. CASE x = t /\ y < u /\ Jumps(b, u - y) /\ f = q.rlt /\ m = Shifted(b, Q)
  <2>1. u - y \in Nat \ {0} /\ Q \in Nat \ {0} /\ (u - y) % Q = 0
    BY <1>1, <1>2, <1>10
  <2>2. u - y >= Q /\ ((u - y) - Q) % Q = 0
    BY <2>1, MultipleBelow
  <2>3. y + Q \in 0 .. k - 1 /\ y + Q <= u /\ u - (y + Q) = (u - y) - Q /\ Q \in Int
    BY <1>1, <2>1, <2>2
  <2>4. InSize /\ m[b] = y + Q /\ m[a] = x
    BY <1>3, <1>10, <2>3
  <2>5. Q > 0 /\ m[b] <= u /\ (u - m[b]) % Q = 0
    BY <2>1, <2>2, <2>3, <2>4
  <2>6. QED
    BY <1>10, <2>4, <2>5
<1>11. CASE x = t /\ u < y /\ ~Jumps(b, y - u) /\ f = q.gt /\ m = Shifted(b, -1)
  <2>1. y + (-1) \in 0 .. k - 1 /\ u <= y + (-1)
    BY <1>1, <1>11
  <2>2. InSize /\ m[b] = y + (-1) /\ m[a] = x
    BY <1>3, <1>11, <2>1
  <2>3. QED
    BY <1>11, <2>1, <2>2
<1>12. CASE x = t /\ u < y /\ Jumps(b, y - u) /\ f = q.rgt /\ m = Shifted(b, -Q)
  <2>1. y - u \in Nat \ {0} /\ Q \in Nat \ {0} /\ (y - u) % Q = 0
    BY <1>1, <1>2, <1>12
  <2>2. y - u >= Q /\ ((y - u) - Q) % Q = 0
    BY <2>1, MultipleBelow
  <2>3. y + (-Q) \in 0 .. k - 1 /\ u <= y + (-Q) /\ (y + (-Q)) - u = (y - u) - Q /\ -Q \in Int
    BY <1>1, <2>1, <2>2
  <2>4. InSize /\ m[b] = y + (-Q) /\ m[a] = x
    BY <1>3, <1>12, <2>3
  <2>5. Q > 0 /\ u <= m[b] /\ (m[b] - u) % Q = 0
    BY <2>1, <2>2, <2>3, <2>4
  <2>6. QED
    BY <1>12, <2>4, <2>5
<1>13. QED
  BY <1>4, <1>5, <1>6, <1>7, <1>8, <1>9, <1>10, <1>11, <1>12

(* The ports of the two axes and the processor's are nine different ones. *)
LEMMA PortsDiffer ==
  ASSUME MeshTypeOK
  PROVE  LET p == mesh!Ports[axis1]
             q == mesh!Ports[axis2]
             F == {"P", "W", "E", "N", "S", "RW", "RE", "RN", "RS"}
         IN  /\ {p.lt, p.gt, p.rlt, p.rgt, q.lt, q.gt, q.rlt, q.rgt} \subseteq F
             /\ p.lt \notin {p.gt, p.rlt, p.rgt, q.lt, q.gt, q.rlt, q.rgt}
             /\ p.gt \notin {p.rlt, p.rgt, q.lt, q.gt, q.rlt, q.rgt}
             /\ p.rlt \notin {p.rgt, q.lt, q.gt, q.rlt, q.rgt}
             /\ p.rgt \notin {q.lt, q.gt, q.rlt, q.rgt}
             /\ q.lt \notin {q.gt, q.rlt, q.rgt}
             /\ q.gt \notin {q.rlt, q.rgt}
             /\ q.rlt # q.rgt
             /\ "P" \notin {p.lt, p.gt, p.rlt, p.rgt, q.lt, q.gt, q.rlt, q.rgt}
<1>1. CASE XY_order_p
  BY <1>1, PortNames DEF axis1, axis2
<1>2. CASE ~XY_order_p
  BY <1>2, PortNames DEF axis1, axis2
<1>3. QED
  BY <1>1, <1>2

(* A hop keeps a packet on its way. *)
LEMMA HopStays ==
  ASSUME MeshInv, NEW o, Moves(o, my', from'), UNCHANGED <<net, src, dst, XY_order_p>>
  PROVE  MeshInv'
<1> DEFINE a == axis1
           b == axis2
           p == mesh!Ports[a]
           q == mesh!Ports[b]
           t == mesh!to
           R == net.R[a]
           Q == net.R[b]
<1>1. /\ axis1' = axis1 /\ axis2' = axis2 /\ mesh!to' = mesh!to
      /\ net' = net /\ src' = src /\ dst' = dst /\ XY_order_p' = XY_order_p
  BY DEF axis1, axis2, mesh!to
<1>2. PICK m : m = my'
  OBVIOUS
<1>3. PICK f : f = from'
  OBVIOUS
<1>4. /\ m \in [Axes -> Nat] /\ \A c \in Axes : m[c] \in 0 .. net.size[c] - 1
      /\ \/ f = p.lt /\ m[a] <= t[a] /\ (R > 0 => t[a] - m[a] < R)
         \/ f = p.gt /\ t[a] <= m[a] /\ (R > 0 => m[a] - t[a] < R)
         \/ f = p.rlt /\ R > 0 /\ m[a] <= t[a] /\ (net.depopulated => m[a] # t[a])
         \/ f = p.rgt /\ R > 0 /\ t[a] <= m[a] /\ (net.depopulated => m[a] # t[a])
         \/ f = q.lt /\ m[a] = t[a] /\ m[b] <= t[b]
         \/ f = q.gt /\ m[a] = t[a] /\ t[b] <= m[b]
         \/ f = q.rlt /\ m[a] = t[a] /\ Q > 0 /\ m[b] <= t[b] /\ (t[b] - m[b]) % Q = 0
         \/ f = q.rgt /\ m[a] = t[a] /\ Q > 0 /\ t[b] <= m[b] /\ (m[b] - t[b]) % Q = 0
  <2>1. Moves(o, m, f)
    BY <1>2, <1>3
  <2>2. QED
    BY <2>1, Lands
<1> DEFINE G == /\ f = p.lt => m[a] <= t[a] /\ (R > 0 => t[a] - m[a] < R)
                /\ f = p.gt => t[a] <= m[a] /\ (R > 0 => m[a] - t[a] < R)
                /\ f = p.rlt => /\ R > 0 /\ m[a] <= t[a]
                                /\ net.depopulated => m[a] # t[a]
                /\ f = p.rgt => /\ R > 0 /\ t[a] <= m[a]
                                /\ net.depopulated => m[a] # t[a]
                /\ f \in {q.lt, q.gt, q.rlt, q.rgt} => m[a] = t[a]
                /\ f = q.lt => m[b] <= t[b]
                /\ f = q.gt => t[b] <= m[b]
                /\ f = q.rlt => Q > 0 /\ m[b] <= t[b] /\ (t[b] - m[b]) % Q = 0
                /\ f = q.rgt => Q > 0 /\ t[b] <= m[b] /\ (m[b] - t[b]) % Q = 0
<1>5. G /\ f \in {"P", "W", "E", "N", "S", "RW", "RE", "RN", "RS"}
  <2>1. /\ {p.lt, p.gt, p.rlt, p.rgt, q.lt, q.gt, q.rlt, q.rgt}
             \subseteq {"P", "W", "E", "N", "S", "RW", "RE", "RN", "RS"}
        /\ p.lt \notin {p.gt, p.rlt, p.rgt, q.lt, q.gt, q.rlt, q.rgt}
        /\ p.gt \notin {p.rlt, p.rgt, q.lt, q.gt, q.rlt, q.rgt}
        /\ p.rlt \notin {p.rgt, q.lt, q.gt, q.rlt, q.rgt}
        /\ p.rgt \notin {q.lt, q.gt, q.rlt, q.rgt}
        /\ q.lt \notin {q.gt, q.rlt, q.rgt}
        /\ q.gt \notin {q.rlt, q.rgt}
        /\ q.rlt # q.rgt
    BY PortsDiffer DEF MeshInv
  <2> HIDE DEF a, b, p, q, t, R, Q
  <2>2. f \in {p.lt, p.gt, p.rlt, p.rgt, q.lt, q.gt, q.rlt, q.rgt}
    BY <1>4
  <2>3. G
    BY <1>4, <2>1
  <2>4. QED
    BY <2>1, <2>2, <2>3
<1>6. OnTheWay'
  <2>1. G
    BY <1>5
  <2>2. QED
    BY <1>1, <1>2, <1>3, <2>1 DEF OnTheWay
<1>7. MeshTypeOK'
  BY <1>1, <1>2, <1>3, <1>4, <1>5 DEF MeshInv, MeshTypeOK
<1>8. QED
  BY <1>6, <1>7 DEF MeshInv

(* A packet at the processor's port. *)
Ready == MeshTypeOK /\ from = "P"

(* There it may be anywhere. *)
LEMMA ReadyIsOnTheWay == Ready => MeshInv
<1>1. SUFFICES ASSUME Ready PROVE MeshInv
  OBVIOUS
<1>2. MeshTypeOK /\ from = "P"
  BY <1>1 DEF Ready
<1>3. "P" \notin {mesh!Ports[axis1].lt, mesh!Ports[axis1].gt,
                  mesh!Ports[axis1].rlt, mesh!Ports[axis1].rgt,
                  mesh!Ports[axis2].lt, mesh!Ports[axis2].gt,
                  mesh!Ports[axis2].rlt, mesh!Ports[axis2].rgt}
  BY <1>2, PortsDiffer
<1>4. OnTheWay
  BY <1>2, <1>3 DEF OnTheWay
<1>5. QED
  BY <1>2, <1>4 DEF MeshInv

(* The same of the next state. *)
LEMMA ReadyAfter == Ready' => MeshInv'
BY ReadyIsOnTheWay, PTL

(* A packet on its way is asked for by one output, through a turn that the *)
(* crossbar has, to a link that the mesh has.                              *)
LEMMA OneWay ==
  ASSUME MeshInv
  PROVE  /\ mesh!OneRequest /\ mesh!TurnsSupported
         /\ \A o \in mesh!req_o :
              o # "P" => Moves(o, mesh!Beyond[o].to, mesh!Beyond[o].at)
<1>1. PICK o : mesh!req_o = {o} /\ Asks(o)
  BY Decided
<1>2. mesh!OneRequest
  BY <1>1 DEF mesh!OneRequest
<1>3. from \in mesh!routing_matrix_p[o]
  <2>1. /\ MayTurn(from, o)
        /\ from \in {mesh!Ports[axis1].rlt, mesh!Ports[axis1].rgt} => net.R[axis1] > 0
        /\ from \in {mesh!Ports[axis2].rlt, mesh!Ports[axis2].rgt} => net.R[axis2] > 0
    BY <1>1, AsksForTurns
  <2>2. QED
    BY <2>1, TurnsAreThere DEF MeshInv
<1>4. o # "P" => Moves(o, mesh!Beyond[o].to, mesh!Beyond[o].at)
  BY <1>1, HopIs
<1>5. o # "P" => mesh!InMesh(mesh!Beyond[o].to)
  <2>1. SUFFICES ASSUME o # "P" PROVE mesh!InMesh(mesh!Beyond[o].to)
    OBVIOUS
  <2>2. PICK m : m = mesh!Beyond[o].to
    OBVIOUS
  <2>3. PICK f : f = mesh!Beyond[o].at
    OBVIOUS
  <2>4. Moves(o, m, f)
    BY <1>4, <2>1, <2>2, <2>3
  <2>5. \A c \in Axes : m[c] \in 0 .. net.size[c] - 1
    BY <2>4, Lands
  <2>6. QED
    BY <2>2, <2>5 DEF mesh!InMesh, Axes
<1>6. QED
  BY <1>1, <1>2, <1>3, <1>4, <1>5 DEF mesh!TurnsSupported

(* A step of the packet. *)
LEMMA NextStays ==
  ASSUME MeshInv, mesh!Next
  PROVE  MeshInv'
<1>1. CASE mesh!Hop
  <2>1. PICK o \in mesh!outputs \ {"P"} :
          /\ my' = mesh!Beyond[o].to /\ from' = mesh!Beyond[o].at
          /\ UNCHANGED <<net, src, dst, XY_order_p>>
    BY <1>1 DEF mesh!Hop
  <2>2. o \in mesh!req_o /\ o # "P"
    BY DEF mesh!outputs
  <2>3. Moves(o, mesh!Beyond[o].to, mesh!Beyond[o].at)
    BY <2>2, OneWay
  <2>4. Moves(o, my', from')
    BY <2>1, <2>3
  <2>5. QED
    BY <2>1, <2>4, HopStays
<1>2. CASE mesh!Answer
  <2>1. /\ XY_order_p' = FALSE /\ from' = "P"
        /\ net' = net /\ src' = src /\ dst' = dst /\ my' = my
    BY <1>2 DEF mesh!Answer
  <2>2. MeshTypeOK'
    BY <2>1 DEF MeshInv, MeshTypeOK
  <2>3. QED
    BY <2>1, <2>2, ReadyAfter DEF Ready
<1>3. QED
  BY <1>1, <1>2 DEF mesh!Next

(* The invariant of the mesh: a packet is where the dimension order leaves *)
(* it, and it has come by the ports that the order uses there.             *)
THEOREM OnItsWay == NetworksSpec => []MeshInv
<1>1. NetworksInit => MeshInv
  <2> SUFFICES ASSUME mesh!Init PROVE MeshInv
    BY DEF NetworksInit
  <2>2. mesh!Modulus \in Nat \ {0} /\ net \in Networks
    BY NetworkIs DEF mesh!Init
  <2>3. MeshTypeOK
    BY <2>2 DEF mesh!Init, mesh!InMesh, MeshTypeOK, Axes
  <2>4. QED
    BY <2>3, ReadyIsOnTheWay DEF Ready, mesh!Init
<1>2. MeshInv /\ [NetworksNext]_all => MeshInv'
  <2> SUFFICES ASSUME MeshInv, [NetworksNext]_all PROVE MeshInv'
    OBVIOUS
  <2>1. CASE mesh!Next
    BY <2>1, NextStays
  <2>2. CASE UNCHANGED mesh_vars
    <3>1. /\ net' = net /\ src' = src /\ dst' = dst /\ my' = my
          /\ from' = from /\ XY_order_p' = XY_order_p
      BY <2>2 DEF mesh_vars
    <3>2. axis1' = axis1 /\ axis2' = axis2 /\ mesh!to' = mesh!to
      BY <3>1 DEF axis1, axis2, mesh!to
    <3>3. QED
      BY <3>1, <3>2 DEF MeshInv, MeshTypeOK, OnTheWay
  <2>3. QED
    BY <2>1, <2>2 DEF NetworksNext, Travel, Wait, all
<1>3. QED
  BY <1>1, <1>2, PTL DEF NetworksSpec

(* RoutesExist: for every size of the mesh, every length of its ruche      *)
(* links, depopulated or not, in both orders and between any two routers,  *)
(* bsg_mesh_router_decoder_dor requests one output, the crossbar of that   *)
(* output has the turn, and the link it drives is in the mesh.             *)
THEOREM EveryRouteExists == NetworksSpec => []RoutesExist
<1>1. MeshInv => RoutesExist
  BY OneWay DEF RoutesExist
<1>2. QED
  BY <1>1, OnItsWay, PTL

-----------------------------------------------------------------------------
(* The way back.                                                           *)

(* How far x and y are apart, and x on the way from s to t. *)
Dist(x, y) == IF x <= y THEN y - x ELSE x - y
Between(s, x, t) == (s <= x /\ x <= t) \/ (t <= x /\ x <= s)

(* From c on axis a by k towards t. *)
Onward(c, a, t, k) == [c EXCEPT ![a] = IF @ < t[a] THEN @ + k ELSE @ - k]

(* How far it may still be where no ruche link is taken. *)
Slack(a) == IF net.depopulated THEN net.R[a] ELSE net.R[a] - 1

(* The response goes from router c to m.  It depends on nothing but c and  *)
(* the ends.                                                               *)
Returns(c, m) ==
  \/ /\ c["Y"] # src["Y"]
     /\ m = Onward(c, "Y", src, IF Reaches("Y", Dist(c["Y"], src["Y"]))
                                THEN net.R["Y"] ELSE 1)
  \/ /\ c["Y"] = src["Y"] /\ c["X"] # src["X"]
     /\ LET ruche == /\ net.R["X"] > 0 /\ Dist(c["X"], src["X"]) % net.R["X"] = 0
                     /\ net.depopulated => c["X"] # dst["X"]
        IN  m = Onward(c, "X", src, IF ruche THEN net.R["X"] ELSE 1)

begun == IF XY_order_p THEN src ELSE dst

(* Where the packet is: between the ends, on one of the two legs, and on   *)
(* the second leg when it has come by a port of it.                        *)
LegInv ==
  /\ \A a \in Axes : Between(src[a], my[a], dst[a])
  /\ my["Y"] # src["Y"] => my["X"] = dst["X"]
  /\ LET q == mesh!Ports[axis2]
     IN  from \in {q.lt, q.gt, q.rlt, q.rgt} <=> my[axis2] # begun[axis2]

(* On the first leg of the request: a multiple of a ruche link from its    *)
(* source as long as another ruche link fits, and then less than one       *)
(* further in all.  On the second: less than one from the source until     *)
(* what is left is a multiple of one.                                      *)
PaceInv ==
  XY_order_p =>
    /\ net.R["X"] > 0 =>
         LET e == Dist(src["X"], my["X"])
             d == Dist(my["X"], dst["X"])
         IN  IF Reaches("X", d) THEN e % net.R["X"] = 0
             ELSE (e % net.R["X"]) + d <= Slack("X")
    /\ net.R["Y"] > 0 =>
         LET e == Dist(src["Y"], my["Y"])
             d == Dist(my["Y"], dst["Y"])
         IN  d % net.R["Y"] # 0 => e + (d % net.R["Y"]) <= Slack("Y")

(* The response goes from each router on the trail to the one before.      *)
path == Append(trail, my)
TrailInv ==
  /\ trail \in Seq([Axes -> Nat])
  /\ path[1] = src
  /\ \A k \in 1 .. Len(trail) : Returns(path[k + 1], path[k])

(* Remainders one up, a divisor up and one down. *)
LEMMA RemaindersNear ==
  ASSUME NEW W \in Nat \ {0}, NEW e \in Nat
  PROVE  /\ e % W \in 0 .. W - 1
         /\ (e + 1) % W = IF (e % W) + 1 = W THEN 0 ELSE (e % W) + 1
         /\ e % W = 0 => (e + W) % W = 0
         /\ e > 0 => (e - 1) % W = IF e % W = 0 THEN W - 1 ELSE (e % W) - 1
<1>1. PICK k \in Nat, i \in 0 .. W - 1 : e = W * k + i
  BY DivMod
<1>2. e % W = i
  BY <1>1, RemainderIs
<1>3. W * (k + 1) = W * k + W /\ W * (k - 1) = W * k - W /\ W * k \in Nat
  BY <1>1
<1>4. (e + 1) % W = IF i + 1 = W THEN 0 ELSE i + 1
  <2>1. CASE i + 1 = W
    <3>1. PICK n, q : n = e + 1 /\ q = k + 1
      OBVIOUS
    <3>2. n = W * q + 0 /\ q \in Nat /\ 0 \in 0 .. W - 1
      BY <1>1, <1>3, <2>1, <3>1
    <3>3. n % W = 0
      BY <3>2, RemainderIs
    <3>4. QED
      BY <2>1, <3>1, <3>3
  <2>2. CASE i + 1 # W
    <3>1. PICK n, j : n = e + 1 /\ j = i + 1
      OBVIOUS
    <3>2. n = W * k + j /\ j \in 0 .. W - 1
      BY <1>1, <1>3, <2>2, <3>1
    <3>3. n % W = j
      BY <1>1, <3>2, RemainderIs
    <3>4. QED
      BY <2>2, <3>1, <3>3
  <2>3. QED
    BY <2>1, <2>2
<1>5. i = 0 => (e + W) % W = 0
  <2> SUFFICES ASSUME i = 0 PROVE (e + W) % W = 0
    OBVIOUS
  <2>1. PICK n, q : n = e + W /\ q = k + 1
    OBVIOUS
  <2>2. n = W * q + 0 /\ q \in Nat /\ 0 \in 0 .. W - 1
    BY <1>1, <1>3, <2>1
  <2>3. n % W = 0
    BY <2>2, RemainderIs
  <2>4. QED
    BY <2>1, <2>3
<1>6. e > 0 => (e - 1) % W = IF i = 0 THEN W - 1 ELSE i - 1
  <2> SUFFICES ASSUME e > 0 PROVE (e - 1) % W = IF i = 0 THEN W - 1 ELSE i - 1
    OBVIOUS
  <2>1. CASE i = 0
    <3>1. k # 0
      BY <1>1, <2>1
    <3>2. e - 1 = W * (k - 1) + (W - 1) /\ k - 1 \in Nat /\ W - 1 \in 0 .. W - 1
      BY <1>1, <1>3, <2>1, <3>1
    <3>3. QED
      BY <2>1, <3>2, RemainderIs
  <2>2. CASE i # 0
    <3>1. e - 1 = W * k + (i - 1) /\ i - 1 \in 0 .. W - 1
      BY <1>1, <1>3, <2>2
    <3>2. QED
      BY <2>2, <3>1, RemainderIs
  <2>3. QED
    BY <2>1, <2>2
<1>7. QED
  BY <1>1, <1>2, <1>4, <1>5, <1>6

(* The pace of the request on its first axis, where e is behind it and d   *)
(* before it, and on its second.                                           *)
Pace1(R, S, e, d) == IF d > S THEN e % R = 0 ELSE (e % R) + d <= S
Pace2(R, S, e, d) == d % R # 0 => e + (d % R) <= S

(* A step of k: a ruche link where the axis takes one, or a local link. *)
Lengths(R, S, e, d) ==
  R \in Nat \ {0} /\ S \in {R - 1, R} /\ e \in Nat /\ d \in Nat \ {0}
Step1(R, S, e, d, k) ==
  Lengths(R, S, e, d) /\ Pace1(R, S, e, d) /\ k = IF d > S THEN R ELSE 1
Step2(R, S, e, d, k) ==
  /\ Lengths(R, S, e, d) /\ Pace2(R, S, e, d)
  /\ k = IF d % R = 0 /\ (S = R => e > 0) THEN R ELSE 1

(* After it e + k and d - k are in pace, and tell of which kind it was. *)
Stepped1(R, S, e, d, k) ==
  /\ k \in 1 .. d /\ Pace1(R, S, e + k, d - k)
  /\ d > S <=> (e + k) % R = 0 /\ (S = R => d - k # 0)
Stepped2(R, S, e, d, k) ==
  /\ k \in 1 .. d /\ Pace2(R, S, e + k, d - k)
  /\ e + k > S <=> d % R = 0 /\ (S = R => e > 0)

(* On the first axis. *)
LEMMA FirstPace ==
  ASSUME NEW R, NEW S, NEW e, NEW d, NEW k, Step1(R, S, e, d, k)
  PROVE  Stepped1(R, S, e, d, k)
<1>   /\ R \in Nat \ {0} /\ S \in {R - 1, R} /\ e \in Nat /\ d \in Nat \ {0}
      /\ k = IF d > S THEN R ELSE 1
      /\ IF d > S THEN e % R = 0 ELSE (e % R) + d <= S
  BY DEF Step1, Lengths, Pace1
<1> SUFFICES /\ k \in 1 .. d
             /\ IF d - k > S THEN (e + k) % R = 0 ELSE ((e + k) % R) + (d - k) <= S
             /\ d > S <=> (e + k) % R = 0 /\ (S = R => d - k # 0)
  BY DEF Stepped1, Pace1
<1>1. PICK i, i1 : i = e % R /\ i1 = (e + 1) % R
  OBVIOUS
<1>2. i \in 0 .. R - 1 /\ i1 = IF i + 1 = R THEN 0 ELSE i + 1
  BY <1>1, RemaindersNear
<1>3. CASE d > S
  <2>1. k = R /\ i = 0 /\ (e + k) % R = 0
    BY <1>1, <1>3, RemaindersNear
  <2>2. k \in 1 .. d /\ d - k \in Nat
    BY <1>3, <2>1
  <2>3. d - k <= S => 0 + (d - k) <= S
    BY <2>2
  <2>4. S = R => d - k # 0
    BY <1>3, <2>1
  <2>5. d - k > S \/ d - k <= S
    BY <2>2
  <2>6. QED
    BY <1>3, <2>1, <2>2, <2>3, <2>4, <2>5
<1>4. CASE ~(d > S)
  <2>1. k = 1 /\ i + d <= S /\ (e + k) % R = i1
    BY <1>1, <1>4
  <2>2. k \in 1 .. d /\ ~(d - k > S)
    BY <1>4, <2>1
  <2>3. i1 + (d - k) <= S
    BY <1>2, <2>1
  <2>4. i1 = 0 => S = R /\ d - k = 0
    BY <1>2, <2>1
  <2>5. QED
    BY <1>4, <2>1, <2>2, <2>3, <2>4
<1>5. QED
  BY <1>3, <1>4

(* On the second. *)
LEMMA SecondPace ==
  ASSUME NEW R, NEW S, NEW e, NEW d, NEW k, Step2(R, S, e, d, k)
  PROVE  Stepped2(R, S, e, d, k)
<1>   /\ R \in Nat \ {0} /\ S \in {R - 1, R} /\ e \in Nat /\ d \in Nat \ {0}
      /\ k = IF d % R = 0 /\ (S = R => e > 0) THEN R ELSE 1
      /\ d % R # 0 => e + (d % R) <= S
  BY DEF Step2, Lengths, Pace2
<1> SUFFICES /\ k \in 1 .. d
             /\ (d - k) % R # 0 => (e + k) + ((d - k) % R) <= S
             /\ e + k > S <=> d % R = 0 /\ (S = R => e > 0)
  BY DEF Stepped2, Pace2
<1>1. PICK i, i1 : i = d % R /\ i1 = (d - 1) % R
  OBVIOUS
<1>2. i \in 0 .. R - 1 /\ i1 = IF i = 0 THEN R - 1 ELSE i - 1
  <2>1. d \in Nat /\ d > 0
    OBVIOUS
  <2>2. QED
    BY <1>1, <2>1, RemaindersNear
<1>3. CASE i = 0 /\ (S = R => e > 0)
  <2>1. k = R
    BY <1>1, <1>3
  <2>2. d >= R /\ (d - k) % R = 0
    BY <1>1, <1>3, <2>1, MultipleBelow
  <2>3. k \in 1 .. d /\ e + k > S
    BY <1>3, <2>1, <2>2
  <2>4. QED
    BY <1>1, <1>3, <2>2, <2>3
<1>4. CASE ~(i = 0 /\ (S = R => e > 0))
  <2>1. k = 1 /\ (d - k) % R = i1
    BY <1>1, <1>4
  <2>2. k \in 1 .. d
    BY <2>1
  <2>3. i # 0 => e + i <= S
    BY <1>1
  <2>4. i # 0 => (e + k) + i1 <= S /\ ~(e + k > S)
    BY <1>2, <2>1, <2>3
  <2>5. i = 0 => S = R /\ e = 0 /\ i1 = R - 1
    BY <1>2, <1>4
  <2>6. i = 0 => (e + k) + i1 <= S /\ ~(e + k > S)
    BY <2>1, <2>5
  <2>7. QED
    BY <1>1, <1>4, <2>1, <2>2, <2>4, <2>6
<1>5. QED
  BY <1>3, <1>4

(* A step of k onward, and back. *)
LEMMA OnwardIs ==
  ASSUME NEW c \in [Axes -> Nat], NEW s \in [Axes -> Nat], NEW t \in [Axes -> Nat],
         NEW a \in Axes, Between(s[a], c[a], t[a]),
         NEW k \in Nat \ {0}, k <= Dist(c[a], t[a]),
         NEW m, m = Onward(c, a, t, k)
  PROVE  /\ m \in [Axes -> Nat]
         /\ \A x \in Axes : x # a => m[x] = c[x]
         /\ Between(s[a], m[a], t[a]) /\ m[a] # s[a]
         /\ Dist(s[a], m[a]) = Dist(s[a], c[a]) + k
         /\ Dist(m[a], t[a]) = Dist(c[a], t[a]) - k
         /\ m # c /\ c = Onward(m, a, s, k)
<1> DEFINE x == c[a]
           y == m[a]
           u == s[a]
           v == t[a]
<1>1. x \in Nat /\ u \in Nat /\ v \in Nat
  OBVIOUS
<1>2. m = [z \in Axes |-> IF z = a THEN (IF x < v THEN x + k ELSE x - k) ELSE c[z]]
  BY DEF Onward
<1>3. y = (IF x < v THEN x + k ELSE x - k) /\ \A z \in Axes : z # a => m[z] = c[z]
  BY <1>2
<1>4. (u <= x /\ x <= v) \/ (v <= x /\ x <= u)
  BY DEF Between
<1>5. k <= IF x <= v THEN v - x ELSE x - v
  BY DEF Dist
<1> HIDE DEF x, y, u, v
<1>6. /\ y \in Nat
      /\ (u <= y /\ y <= v) \/ (v <= y /\ y <= u)
      /\ y # u /\ y # x
      /\ (IF u <= y THEN y - u ELSE u - y) = (IF u <= x THEN x - u ELSE u - x) + k
      /\ (IF y <= v THEN v - y ELSE y - v) = (IF x <= v THEN v - x ELSE x - v) - k
      /\ x = IF y < u THEN y + k ELSE y - k
  BY <1>1, <1>3, <1>4, <1>5
<1>7. m \in [Axes -> Nat]
  BY <1>2, <1>3, <1>6
<1>8. c = Onward(m, a, s, k)
  <2>1. Onward(m, a, s, k) = [z \in Axes |-> IF z = a THEN (IF y < u THEN y + k ELSE y - k)
                                             ELSE m[z]]
    BY <1>7 DEF Onward, y, u
  <2>2. \A z \in Axes : Onward(m, a, s, k)[z] = c[z]
    BY <1>3, <1>6, <2>1 DEF x
  <2>3. QED
    BY <2>1, <2>2
<1>9. QED
  BY <1>3, <1>6, <1>7, <1>8 DEF Between, Dist, x, y, u, v

WayInv == MeshInv /\ LegInv /\ PaceInv

(* A ruche link is taken on the first axis where more is left than the     *)
(* slack.                                                                  *)
LEMMA ReachesMeans ==
  ASSUME MeshTypeOK, NEW a \in Axes, NEW d \in Nat
  PROVE  /\ Reaches(a, d) <=> net.R[a] > 0 /\ d > Slack(a)
         /\ net.R[a] > 0 => Slack(a) \in {net.R[a] - 1, net.R[a]}
         /\ net.R[a] > 0 => (Slack(a) = net.R[a] <=> net.depopulated)
         /\ Reaches(a, d) => net.R[a] \in 1 .. d
<1>1. net.R[a] \in Nat
  BY NetworkIs DEF MeshTypeOK
<1>2. QED
  BY <1>1 DEF Reaches, Slack

(* The same of the way back. *)
LEMMA BetweenBack ==
  ASSUME NEW s \in Nat, NEW x \in Nat, NEW t \in Nat
  PROVE  /\ Between(s, x, t) <=> Between(t, x, s)
         /\ Dist(s, x) = Dist(x, s) /\ Dist(s, x) \in Nat
         /\ Dist(s, x) = 0 <=> s = x
BY DEF Between, Dist

(* A hop takes the packet onward on one axis. *)
Hops(m, f, k) ==
  LET a == axis1
      b == axis2
      p == mesh!Ports[a]
      q == mesh!Ports[b]
      t == mesh!to
  IN  \/ /\ my[a] # t[a] /\ f \in {p.lt, p.gt, p.rlt, p.rgt}
         /\ k = IF Reaches(a, Dist(my[a], t[a])) THEN net.R[a] ELSE 1
         /\ m = Onward(my, a, t, k)
      \/ /\ my[a] = t[a] /\ my[b] # t[b] /\ f \in {q.lt, q.gt, q.rlt, q.rgt}
         /\ k = IF Jumps(b, Dist(my[b], t[b])) THEN net.R[b] ELSE 1
         /\ m = Onward(my, b, t, k)

(* Every hop is of that kind. *)
LEMMA MovesAreHops ==
  ASSUME MeshInv, NEW o, NEW m, NEW f, Moves(o, m, f)
  PROVE  \E k : Hops(m, f, k)
<1> DEFINE a == axis1
           b == axis2
           p == mesh!Ports[a]
           q == mesh!Ports[b]
           t == mesh!to
<1>1. /\ a \in Axes /\ b \in Axes
      /\ my[a] \in Nat /\ t[a] \in Nat /\ my[b] \in Nat /\ t[b] \in Nat
      /\ net.R[a] \in Nat /\ net.R[b] \in Nat /\ my \in [Axes -> Nat]
  BY AxesAre DEF MeshInv, MeshTypeOK
<1>2. \A c \in {a, b} :
        /\ my[c] < t[c] => Dist(my[c], t[c]) = t[c] - my[c]
        /\ t[c] < my[c] => Dist(my[c], t[c]) = my[c] - t[c]
        /\ my[c] < t[c] \/ t[c] < my[c] <=> my[c] # t[c]
  BY <1>1 DEF Dist
<1>3. \A c \in {a, b} : \A n \in Nat :
        /\ my[c] < t[c] => Onward(my, c, t, n) = Shifted(c, n)
        /\ t[c] < my[c] => Onward(my, c, t, n) = Shifted(c, -n)
  <2> SUFFICES ASSUME NEW c \in {a, b}, NEW n \in Nat
               PROVE  /\ my[c] < t[c] => Onward(my, c, t, n) = Shifted(c, n)
                      /\ t[c] < my[c] => Onward(my, c, t, n) = Shifted(c, -n)
    OBVIOUS
  <2>1. PICK z : z = -n
    OBVIOUS
  <2>2. /\ Shifted(c, n) = [my EXCEPT ![c] = my[c] + n]
        /\ Shifted(c, z) = [my EXCEPT ![c] = my[c] + z]
        /\ my[c] < t[c] => Onward(my, c, t, n) = [my EXCEPT ![c] = my[c] + n]
        /\ ~(my[c] < t[c]) => Onward(my, c, t, n) = [my EXCEPT ![c] = my[c] - n]
    BY <1>1 DEF Shifted, Onward
  <2>3. my[c] + z = my[c] - n /\ ~(my[c] < t[c] /\ t[c] < my[c])
    BY <1>1, <2>1
  <2>4. QED
    BY <2>1, <2>2, <2>3
<1>4. \A c \in {a, b} :
        /\ my[c] < t[c] => /\ Onward(my, c, t, 1) = Shifted(c, 1)
                           /\ Onward(my, c, t, net.R[c]) = Shifted(c, net.R[c])
        /\ t[c] < my[c] => /\ Onward(my, c, t, 1) = Shifted(c, -1)
                           /\ Onward(my, c, t, net.R[c]) = Shifted(c, -net.R[c])
  BY <1>1, <1>3
<1> DEFINE up == my[a] < t[a]
           down == t[a] < my[a]
<1>5. CASE my[a] < t[a] \/ t[a] < my[a]
  <2> DEFINE h == Reaches(a, Dist(my[a], t[a]))
             k == IF h THEN net.R[a] ELSE 1
  <2>1. f \in {p.lt, p.gt, p.rlt, p.rgt} /\ m = Onward(my, a, t, k)
    <3>1. \/ up /\ ~h /\ f = p.lt /\ m = Shifted(a, 1)
          \/ up /\ h /\ f = p.rlt /\ m = Shifted(a, net.R[a])
          \/ down /\ ~h /\ f = p.gt /\ m = Shifted(a, -1)
          \/ down /\ h /\ f = p.rgt /\ m = Shifted(a, -net.R[a])
      <4>1. my[a] # t[a]
        BY <1>1, <1>5
      <4>2. /\ up => Dist(my[a], t[a]) = t[a] - my[a]
            /\ down => Dist(my[a], t[a]) = my[a] - t[a]
        BY <1>2
      <4>3. QED
        BY <4>1, <4>2 DEF Moves
    <3>2. QED
      BY <1>4, <3>1
  <2>2. my[a] # t[a]
    BY <1>1, <1>5
  <2>3. Hops(m, f, k)
    BY <2>1, <2>2 DEF Hops
  <2>4. QED
    BY <2>3
<1>6. CASE my[a] = t[a]
  <2> DEFINE h == Jumps(b, Dist(my[b], t[b]))
             k == IF h THEN net.R[b] ELSE 1
             up2 == my[b] < t[b]
             down2 == t[b] < my[b]
  <2>1. /\ f \in {q.lt, q.gt, q.rlt, q.rgt} /\ m = Onward(my, b, t, k)
        /\ my[b] # t[b]
    <3>1. \/ up2 /\ ~h /\ f = q.lt /\ m = Shifted(b, 1)
          \/ up2 /\ h /\ f = q.rlt /\ m = Shifted(b, net.R[b])
          \/ down2 /\ ~h /\ f = q.gt /\ m = Shifted(b, -1)
          \/ down2 /\ h /\ f = q.rgt /\ m = Shifted(b, -net.R[b])
      <4>1. ~up /\ ~down
        BY <1>1, <1>6
      <4>2. /\ up2 => Dist(my[b], t[b]) = t[b] - my[b]
            /\ down2 => Dist(my[b], t[b]) = my[b] - t[b]
        BY <1>2
      <4>3. QED
        BY <4>1, <4>2 DEF Moves
    <3>2. up2 \/ down2 => my[b] # t[b]
      BY <1>1
    <3>3. QED
      BY <1>4, <3>1, <3>2
  <2>2. Hops(m, f, k)
    BY <1>6, <2>1 DEF Hops
  <2>3. QED
    BY <2>2
<1>7. QED
  BY <1>2, <1>5, <1>6

(* Jumps, by how far the packet is from where the leg began. *)
LEMMA JumpsMeans ==
  ASSUME MeshInv, LegInv, NEW d
  PROVE  Jumps(axis2, d) <=> /\ net.R[axis2] > 0 /\ d % net.R[axis2] = 0
                             /\ net.depopulated => my[axis2] # begun[axis2]
BY DEF Jumps, LegInv

(* A hop leads at most to the place. *)
LEMMA HopFits ==
  ASSUME MeshInv, LegInv, NEW m, NEW f, NEW k, Hops(m, f, k)
  PROVE  \/ /\ my[axis1] # mesh!to[axis1]
            /\ k \in 1 .. Dist(my[axis1], mesh!to[axis1])
         \/ /\ my[axis1] = mesh!to[axis1] /\ my[axis2] # mesh!to[axis2]
            /\ k \in 1 .. Dist(my[axis2], mesh!to[axis2])
<1> DEFINE a == axis1
           b == axis2
           d == Dist(my[a], mesh!to[a])
           g == Dist(my[b], mesh!to[b])
<1>1. /\ a \in Axes /\ b \in Axes /\ MeshTypeOK
      /\ my[a] \in Nat /\ mesh!to[a] \in Nat /\ my[b] \in Nat /\ mesh!to[b] \in Nat
      /\ net.R[a] \in Nat /\ net.R[b] \in Nat
  BY AxesAre DEF MeshInv
<1>2. /\ d \in Nat /\ g \in Nat
      /\ d = 0 <=> my[a] = mesh!to[a]
      /\ g = 0 <=> my[b] = mesh!to[b]
  BY <1>1, BetweenBack
<1>3. Reaches(a, d) => net.R[a] \in 1 .. d
  BY <1>1, <1>2, ReachesMeans
<1>4. Jumps(b, g) /\ g # 0 => net.R[b] \in 1 .. g
  <2> SUFFICES ASSUME Jumps(b, g), g # 0 PROVE net.R[b] \in 1 .. g
    OBVIOUS
  <2>1. net.R[b] \in Nat \ {0} /\ g % net.R[b] = 0 /\ g \in Nat \ {0}
    BY <1>1, <1>2 DEF Jumps
  <2>2. g >= net.R[b]
    BY <2>1, MultipleBelow
  <2>3. QED
    BY <1>2, <2>1, <2>2
<1>5. \/ my[a] # mesh!to[a] /\ k = IF Reaches(a, d) THEN net.R[a] ELSE 1
      \/ my[a] = mesh!to[a] /\ my[b] # mesh!to[b] /\ k = IF Jumps(b, g) THEN net.R[b] ELSE 1
  BY DEF Hops
<1> HIDE DEF a, b, d, g
<1>6. CASE my[a] # mesh!to[a] /\ k = IF Reaches(a, d) THEN net.R[a] ELSE 1
  <2>1. k \in 1 .. d
    BY <1>2, <1>3, <1>6
  <2>2. QED
    BY <1>6, <2>1 DEF a, b, d, g
<1>7. CASE /\ my[a] = mesh!to[a] /\ my[b] # mesh!to[b]
           /\ k = IF Jumps(b, g) THEN net.R[b] ELSE 1
  <2>1. k \in 1 .. g
    BY <1>2, <1>4, <1>7
  <2>2. QED
    BY <1>7, <2>1 DEF a, b, d, g
<1>8. QED
  BY <1>5, <1>6, <1>7

(* The ends of the way and the axes of its two orders. *)
LEMMA TheWay ==
  ASSUME MeshTypeOK
  PROVE  /\ "X" \in Axes /\ "Y" \in Axes /\ \A a \in Axes : a = "X" \/ a = "Y"
         /\ XY_order_p => axis1 = "X" /\ axis2 = "Y" /\ mesh!to = dst /\ begun = src
         /\ ~XY_order_p => axis1 = "Y" /\ axis2 = "X" /\ mesh!to = src /\ begun = dst
         /\ my \in [Axes -> Nat] /\ src \in [Axes -> Nat] /\ dst \in [Axes -> Nat]
         /\ \A a \in Axes : my[a] \in Nat /\ src[a] \in Nat /\ dst[a] \in Nat
         /\ \A a \in Axes : net.R[a] \in Nat
<1>1. \A a \in Axes : net.R[a] \in Nat
  BY NetworkIs DEF MeshTypeOK
<1>2. "X" \in Axes /\ "Y" \in Axes /\ \A a \in Axes : a = "X" \/ a = "Y"
  BY DEF Axes, mesh!Axes
<1>3. /\ XY_order_p => axis1 = "X" /\ axis2 = "Y" /\ mesh!to = dst /\ begun = src
      /\ ~XY_order_p => axis1 = "Y" /\ axis2 = "X" /\ mesh!to = src /\ begun = dst
  BY PortNames DEF axis1, axis2, mesh!to, begun
<1>4. QED
  BY <1>1, <1>2, <1>3 DEF MeshTypeOK

(* What a hop of k on axis a does to where the packet is. *)
HopOn(a, m, k) ==
  /\ m \in [Axes -> Nat]
  /\ \A x \in Axes : x # a => m[x] = my[x]
  /\ Between(begun[a], m[a], mesh!to[a]) /\ m[a] # begun[a]
  /\ Dist(begun[a], m[a]) = Dist(begun[a], my[a]) + k
  /\ Dist(m[a], mesh!to[a]) = Dist(my[a], mesh!to[a]) - k
  /\ m # my /\ my = Onward(m, a, begun, k)

(* It is a hop on one of the axes. *)
LEMMA HopsAreOn ==
  ASSUME MeshInv, LegInv, NEW m, NEW f, NEW k, Hops(m, f, k)
  PROVE  \/ /\ my[axis1] # mesh!to[axis1] /\ HopOn(axis1, m, k)
            /\ f \notin {mesh!Ports[axis2].lt, mesh!Ports[axis2].gt,
                         mesh!Ports[axis2].rlt, mesh!Ports[axis2].rgt}
            /\ k = IF Reaches(axis1, Dist(my[axis1], mesh!to[axis1]))
                   THEN net.R[axis1] ELSE 1
         \/ /\ my[axis1] = mesh!to[axis1] /\ my[axis2] # mesh!to[axis2]
            /\ HopOn(axis2, m, k)
            /\ f \in {mesh!Ports[axis2].lt, mesh!Ports[axis2].gt,
                      mesh!Ports[axis2].rlt, mesh!Ports[axis2].rgt}
            /\ k = IF Jumps(axis2, Dist(my[axis2], mesh!to[axis2]))
                   THEN net.R[axis2] ELSE 1
<1> DEFINE p == mesh!Ports[axis1]
           q == mesh!Ports[axis2]
           t == mesh!to
<1>1. /\ axis1 \in Axes /\ axis2 \in Axes
      /\ my \in [Axes -> Nat] /\ begun \in [Axes -> Nat] /\ t \in [Axes -> Nat]
  BY TheWay DEF MeshInv
<1>2. \A a \in Axes : Between(begun[a], my[a], t[a])
  BY TheWay, BetweenBack DEF LegInv, MeshInv
<1>3. \A a \in Axes : \A n \in Nat \ {0} :
        m = Onward(my, a, t, n) /\ n <= Dist(my[a], t[a]) => HopOn(a, m, n)
  <2> SUFFICES ASSUME NEW a \in Axes, NEW n \in Nat \ {0},
                      m = Onward(my, a, t, n), n <= Dist(my[a], t[a])
               PROVE  HopOn(a, m, n)
    OBVIOUS
  <2>1. Between(begun[a], my[a], t[a])
    BY <1>2
  <2>2. PICK s, u : s = begun /\ u = t
    OBVIOUS
  <2>3. /\ s \in [Axes -> Nat] /\ u \in [Axes -> Nat] /\ my \in [Axes -> Nat]
        /\ Between(s[a], my[a], u[a]) /\ n <= Dist(my[a], u[a]) /\ m = Onward(my, a, u, n)
    BY <1>1, <2>1, <2>2
  <2>4. /\ m \in [Axes -> Nat]
        /\ \A x \in Axes : x # a => m[x] = my[x]
        /\ Between(s[a], m[a], u[a]) /\ m[a] # s[a]
        /\ Dist(s[a], m[a]) = Dist(s[a], my[a]) + n
        /\ Dist(m[a], u[a]) = Dist(my[a], u[a]) - n
        /\ m # my /\ my = Onward(m, a, s, n)
    BY <2>3, OnwardIs
  <2>5. QED
    BY <2>2, <2>4 DEF HopOn
<1>4. p.lt \notin {q.lt, q.gt, q.rlt, q.rgt} /\ p.gt \notin {q.lt, q.gt, q.rlt, q.rgt}
      /\ p.rlt \notin {q.lt, q.gt, q.rlt, q.rgt} /\ p.rgt \notin {q.lt, q.gt, q.rlt, q.rgt}
  BY PortsDiffer DEF MeshInv
<1>5. \/ my[axis1] # t[axis1] /\ k \in 1 .. Dist(my[axis1], t[axis1])
      \/ /\ my[axis1] = t[axis1] /\ my[axis2] # t[axis2]
         /\ k \in 1 .. Dist(my[axis2], t[axis2])
  BY HopFits
<1>6. \A a \in Axes : Dist(my[a], t[a]) \in Nat
  BY <1>1, BetweenBack
<1>7. CASE my[axis1] # t[axis1]
  <2>1. /\ f \in {p.lt, p.gt, p.rlt, p.rgt}
        /\ k = IF Reaches(axis1, Dist(my[axis1], t[axis1])) THEN net.R[axis1] ELSE 1
        /\ m = Onward(my, axis1, t, k)
    BY <1>7 DEF Hops
  <2>2. k \in Nat \ {0} /\ k <= Dist(my[axis1], t[axis1])
    BY <1>1, <1>5, <1>6, <1>7
  <2>3. HopOn(axis1, m, k)
    BY <1>1, <1>3, <2>1, <2>2
  <2>4. f \notin {q.lt, q.gt, q.rlt, q.rgt}
    BY <1>4, <2>1
  <2>5. QED
    BY <1>7, <2>1, <2>3, <2>4
<1>8. CASE my[axis1] = t[axis1]
  <2>1. /\ f \in {q.lt, q.gt, q.rlt, q.rgt} /\ my[axis2] # t[axis2]
        /\ k = IF Jumps(axis2, Dist(my[axis2], t[axis2])) THEN net.R[axis2] ELSE 1
        /\ m = Onward(my, axis2, t, k)
    BY <1>8 DEF Hops
  <2>2. k \in Nat \ {0} /\ k <= Dist(my[axis2], t[axis2])
    BY <1>1, <1>5, <1>6, <1>8
  <2>3. HopOn(axis2, m, k)
    BY <1>1, <1>3, <2>1, <2>2
  <2>4. QED
    BY <1>8, <2>1, <2>3
<1>9. QED
  BY <1>7, <1>8

(* A hop keeps the packet on its legs. *)
LEMMA LegStays ==
  ASSUME MeshInv, LegInv, NEW m, NEW f, NEW k, Hops(m, f, k)
  PROVE  /\ \A a \in Axes : Between(src[a], m[a], dst[a])
         /\ m["Y"] # src["Y"] => m["X"] = dst["X"]
         /\ LET q == mesh!Ports[axis2]
            IN  f \in {q.lt, q.gt, q.rlt, q.rgt} <=> m[axis2] # begun[axis2]
<1> DEFINE q == mesh!Ports[axis2]
           t == mesh!to
           onq == f \in {q.lt, q.gt, q.rlt, q.rgt}
<1>1. /\ "X" \in Axes /\ "Y" \in Axes /\ \A a \in Axes : a = "X" \/ a = "Y"
      /\ XY_order_p => axis1 = "X" /\ axis2 = "Y" /\ t = dst /\ begun = src
      /\ ~XY_order_p => axis1 = "Y" /\ axis2 = "X" /\ t = src /\ begun = dst
      /\ \A a \in Axes : my[a] \in Nat /\ src[a] \in Nat /\ dst[a] \in Nat
  BY TheWay DEF MeshInv
<1>2. /\ \A a \in Axes : Between(src[a], my[a], dst[a])
      /\ my["Y"] # src["Y"] => my["X"] = dst["X"]
  BY DEF LegInv
<1>3. \/ my[axis1] # t[axis1] /\ HopOn(axis1, m, k) /\ ~onq
      \/ my[axis1] = t[axis1] /\ my[axis2] # t[axis2] /\ HopOn(axis2, m, k) /\ onq
  BY HopsAreOn
<1>4. \A a \in Axes : HopOn(a, m, k) =>
        /\ \A x \in Axes : x # a => m[x] = my[x]
        /\ Between(src[a], m[a], dst[a]) /\ m[a] # begun[a]
  <2> SUFFICES ASSUME NEW a \in Axes, HopOn(a, m, k)
               PROVE  /\ \A x \in Axes : x # a => m[x] = my[x]
                      /\ Between(src[a], m[a], dst[a]) /\ m[a] # begun[a]
    OBVIOUS
  <2>1. /\ \A x \in Axes : x # a => m[x] = my[x]
        /\ Between(begun[a], m[a], t[a]) /\ m[a] # begun[a] /\ m[a] \in Nat
    BY DEF HopOn
  <2>2. Between(src[a], m[a], dst[a])
    BY <1>1, <2>1, BetweenBack
  <2>3. QED
    BY <2>1, <2>2
<1> HIDE DEF q, t, onq
<1>5. /\ \A a \in Axes : Between(src[a], m[a], dst[a])
      /\ m["Y"] # src["Y"] => m["X"] = dst["X"]
      /\ onq <=> m[axis2] # begun[axis2]
  <2>1. CASE XY_order_p
    <3>1. CASE my["X"] # dst["X"] /\ HopOn("X", m, k) /\ ~onq
      BY <1>1, <1>2, <1>4, <2>1, <3>1
    <3>2. CASE my["X"] = dst["X"] /\ HopOn("Y", m, k) /\ onq
      BY <1>1, <1>2, <1>4, <2>1, <3>2
    <3>3. QED
      BY <1>1, <1>3, <2>1, <3>1, <3>2
  <2>2. CASE ~XY_order_p
    <3>1. CASE my["Y"] # src["Y"] /\ HopOn("Y", m, k) /\ ~onq
      BY <1>1, <1>2, <1>4, <2>2, <3>1
    <3>2. CASE my["Y"] = src["Y"] /\ HopOn("X", m, k) /\ onq
      BY <1>1, <1>2, <1>4, <2>2, <3>2
    <3>3. QED
      BY <1>1, <1>3, <2>2, <3>1, <3>2
  <2>3. QED
    BY <2>1, <2>2
<1>6. QED
  BY <1>5 DEF onq, q

(* The two halves of the pace, of a packet at m. *)
FirstHalf(m) ==
  net.R["X"] > 0 =>
    LET e == Dist(src["X"], m["X"])
        d == Dist(m["X"], dst["X"])
    IN  IF Reaches("X", d) THEN e % net.R["X"] = 0
        ELSE (e % net.R["X"]) + d <= Slack("X")
SecondHalf(m) ==
  net.R["Y"] > 0 =>
    LET e == Dist(src["Y"], m["Y"])
        d == Dist(m["Y"], dst["Y"])
    IN  d % net.R["Y"] # 0 => e + (d % net.R["Y"]) <= Slack("Y")

(* A hop of the request on its first axis keeps pace, and the response     *)
(* takes the same link.                                                    *)
LEMMA FirstLeg ==
  ASSUME MeshInv, LegInv, PaceInv, XY_order_p, NEW m, NEW k,
         my["X"] # dst["X"], HopOn("X", m, k),
         k = IF Reaches("X", Dist(my["X"], dst["X"])) THEN net.R["X"] ELSE 1
  PROVE  FirstHalf(m) /\ SecondHalf(m) /\ Returns(m, my)
<1> DEFINE e == Dist(src["X"], my["X"])
           d == Dist(my["X"], dst["X"])
           R == net.R["X"]
           S == Slack("X")
           ruche == /\ R > 0 /\ Dist(m["X"], src["X"]) % R = 0
                    /\ net.depopulated => m["X"] # dst["X"]
<1>1. /\ "X" \in Axes /\ "Y" \in Axes /\ "X" # "Y"
      /\ mesh!to = dst /\ begun = src
      /\ \A a \in Axes : my[a] \in Nat /\ src[a] \in Nat /\ dst[a] \in Nat
      /\ R \in Nat
  BY TheWay DEF MeshInv
<1>2. /\ m \in [Axes -> Nat] /\ m["Y"] = my["Y"] /\ m["X"] # src["X"]
      /\ Dist(src["X"], m["X"]) = e + k /\ Dist(m["X"], dst["X"]) = d - k
      /\ my = Onward(m, "X", src, k)
  BY <1>1 DEF HopOn
<1>3. my["Y"] = src["Y"]
  BY DEF LegInv
<1>4. e \in Nat /\ d \in Nat \ {0}
  BY <1>1, BetweenBack
<1>5. /\ Dist(m["X"], src["X"]) = e + k
      /\ Dist(m["X"], dst["X"]) \in Nat
      /\ Dist(m["X"], dst["X"]) = 0 <=> m["X"] = dst["X"]
  BY <1>1, <1>2, BetweenBack
<1>6. \A n \in Nat : Reaches("X", n) <=> R > 0 /\ n > S
  BY <1>1, ReachesMeans DEF MeshInv
<1>7. R > 0 => S \in {R - 1, R} /\ (S = R <=> net.depopulated)
  BY <1>1, ReachesMeans DEF MeshInv
<1>8. SecondHalf(m)
  BY <1>2 DEF PaceInv, SecondHalf
<1>9. FirstHalf(m) /\ (R > 0 => (k = R /\ ruche) \/ (k = 1 /\ ~ruche))
  <2> SUFFICES ASSUME R > 0
               PROVE  FirstHalf(m) /\ ((k = R /\ ruche) \/ (k = 1 /\ ~ruche))
    BY DEF FirstHalf
  <2>1. IF d > S THEN e % R = 0 ELSE (e % R) + d <= S
    <3>1. IF Reaches("X", d) THEN e % R = 0 ELSE (e % R) + d <= S
      BY DEF PaceInv
    <3>2. QED
      BY <1>4, <1>6, <3>1
  <2>2. k = IF d > S THEN R ELSE 1
    BY <1>4, <1>6
  <2>3. R \in Nat \ {0} /\ S \in {R - 1, R}
    BY <1>1, <1>7
  <2>4. PICK e0, d0, S0, R0 : e0 = e /\ d0 = d /\ S0 = S /\ R0 = R
    OBVIOUS
  <2>5. /\ k \in 1 .. d0
        /\ Pace1(R0, S0, e0 + k, d0 - k)
        /\ d0 > S0 <=> (e0 + k) % R0 = 0 /\ (S0 = R0 => d0 - k # 0)
    <3>1. Step1(R0, S0, e0, d0, k)
      BY <1>4, <2>1, <2>2, <2>3, <2>4 DEF Step1, Lengths, Pace1
    <3>2. Stepped1(R0, S0, e0, d0, k)
      BY <3>1, FirstPace
    <3>3. QED
      BY <3>2 DEF Stepped1
  <2>6. FirstHalf(m)
    <3>1. IF Reaches("X", d - k) THEN (e + k) % R = 0 ELSE ((e + k) % R) + (d - k) <= S
      <4>1. d - k \in Nat
        BY <1>2, <1>5
      <4>2. QED
        BY <1>6, <2>4, <2>5, <4>1 DEF Pace1
    <3>2. QED
      BY <1>2, <3>1 DEF FirstHalf
  <2>7. ruche <=> d > S
    <3>1. ruche <=> (e + k) % R = 0 /\ (net.depopulated => d - k # 0)
      BY <1>2, <1>5
    <3>2. QED
      BY <1>7, <2>4, <2>5, <3>1
  <2>8. QED
    BY <2>2, <2>6, <2>7
<1>10. R = 0 => k = 1 /\ ~ruche
  BY <1>4, <1>6
<1>11. k = IF ruche THEN R ELSE 1
  BY <1>1, <1>9, <1>10
<1>12. Returns(m, my)
  <2>1. m["Y"] = src["Y"] /\ m["X"] # src["X"]
    BY <1>2, <1>3
  <2>2. my = Onward(m, "X", src, IF ruche THEN R ELSE 1)
    BY <1>2, <1>11
  <2>3. QED
    BY <2>1, <2>2 DEF Returns
<1>13. QED
  BY <1>8, <1>9, <1>12

(* And one on its second. *)
LEMMA SecondLeg ==
  ASSUME MeshInv, LegInv, PaceInv, XY_order_p, NEW m, NEW k,
         my["X"] = dst["X"], my["Y"] # dst["Y"], HopOn("Y", m, k),
         k = IF Jumps("Y", Dist(my["Y"], dst["Y"])) THEN net.R["Y"] ELSE 1
  PROVE  FirstHalf(m) /\ SecondHalf(m) /\ Returns(m, my)
<1> DEFINE e == Dist(src["Y"], my["Y"])
           d == Dist(my["Y"], dst["Y"])
           R == net.R["Y"]
           S == Slack("Y")
           J == d % R = 0 /\ (net.depopulated => e > 0)
<1>1. /\ "X" \in Axes /\ "Y" \in Axes /\ "X" # "Y"
      /\ mesh!to = dst /\ begun = src /\ axis2 = "Y"
      /\ \A a \in Axes : my[a] \in Nat /\ src[a] \in Nat /\ dst[a] \in Nat
      /\ R \in Nat
  BY TheWay DEF MeshInv
<1>2. /\ m \in [Axes -> Nat] /\ m["X"] = my["X"] /\ m["Y"] # src["Y"]
      /\ Dist(src["Y"], m["Y"]) = e + k /\ Dist(m["Y"], dst["Y"]) = d - k
      /\ my = Onward(m, "Y", src, k)
  BY <1>1 DEF HopOn
<1>3. /\ e \in Nat /\ d \in Nat \ {0}
      /\ e = 0 <=> my["Y"] = src["Y"]
  BY <1>1, BetweenBack
<1>4. Dist(m["Y"], src["Y"]) = e + k /\ Dist(m["Y"], src["Y"]) \in Nat
  BY <1>1, <1>2, BetweenBack
<1>5. \A n \in Nat : Reaches("Y", n) <=> R > 0 /\ n > S
  BY <1>1, ReachesMeans DEF MeshInv
<1>6. R > 0 => S \in {R - 1, R} /\ (S = R <=> net.depopulated)
  BY <1>1, ReachesMeans DEF MeshInv
<1>7. Jumps("Y", d) <=> R > 0 /\ J
  <2>1. e > 0 <=> my["Y"] # src["Y"]
    BY <1>3
  <2>2. QED
    BY <1>1, <2>1, JumpsMeans
<1>8. FirstHalf(m)
  BY <1>2 DEF PaceInv, FirstHalf
<1>9. SecondHalf(m) /\ (R > 0 => (k = R /\ e + k > S) \/ (k = 1 /\ ~(e + k > S)))
  <2> SUFFICES ASSUME R > 0
               PROVE  SecondHalf(m) /\ ((k = R /\ e + k > S) \/ (k = 1 /\ ~(e + k > S)))
    BY DEF SecondHalf
  <2>1. d % R # 0 => e + (d % R) <= S
    BY DEF PaceInv
  <2>2. R \in Nat \ {0} /\ S \in {R - 1, R}
    BY <1>1, <1>6
  <2>3. PICK e0, d0, S0, R0 : e0 = e /\ d0 = d /\ S0 = S /\ R0 = R
    OBVIOUS
  <2>4. k = IF d0 % R0 = 0 /\ (S0 = R0 => e0 > 0) THEN R0 ELSE 1
    BY <1>6, <1>7, <2>3
  <2>5. /\ Pace2(R0, S0, e0 + k, d0 - k)
        /\ e0 + k > S0 <=> d0 % R0 = 0 /\ (S0 = R0 => e0 > 0)
    <3>1. Step2(R0, S0, e0, d0, k)
      BY <1>3, <2>1, <2>2, <2>3, <2>4 DEF Step2, Lengths, Pace2
    <3>2. Stepped2(R0, S0, e0, d0, k)
      BY <3>1, SecondPace
    <3>3. QED
      BY <3>2 DEF Stepped2
  <2>6. SecondHalf(m)
    <3>1. (d - k) % R # 0 => (e + k) + ((d - k) % R) <= S
      BY <2>3, <2>5 DEF Pace2
    <3>2. QED
      BY <1>2, <3>1 DEF SecondHalf
  <2>7. QED
    BY <2>3, <2>4, <2>5, <2>6
<1>10. R = 0 => k = 1
  BY <1>7
<1>11. k = IF Reaches("Y", Dist(m["Y"], src["Y"])) THEN R ELSE 1
  BY <1>1, <1>4, <1>5, <1>9, <1>10
<1>12. Returns(m, my)
  <2>1. my = Onward(m, "Y", src, IF Reaches("Y", Dist(m["Y"], src["Y"])) THEN R ELSE 1)
    BY <1>2, <1>11
  <2>2. QED
    BY <1>2, <2>1 DEF Returns
<1>13. QED
  BY <1>8, <1>9, <1>12

(* The response takes the hop that Returns says. *)
LEMMA ResponseReturns ==
  ASSUME MeshInv, LegInv, ~XY_order_p, NEW m, NEW f, NEW k, Hops(m, f, k)
  PROVE  Returns(my, m) /\ my # src
<1>1. /\ axis1 = "Y" /\ axis2 = "X" /\ mesh!to = src /\ begun = dst
  BY TheWay DEF MeshInv
<1>2. CASE my["Y"] # src["Y"]
  <2>1. m = Onward(my, "Y", src, IF Reaches("Y", Dist(my["Y"], src["Y"]))
                                 THEN net.R["Y"] ELSE 1)
    BY <1>1, <1>2 DEF Hops
  <2>2. QED
    BY <1>2, <2>1 DEF Returns
<1>3. CASE my["Y"] = src["Y"]
  <2>1. /\ my["X"] # src["X"]
        /\ m = Onward(my, "X", src, IF Jumps("X", Dist(my["X"], src["X"]))
                                    THEN net.R["X"] ELSE 1)
    BY <1>1, <1>3 DEF Hops
  <2>2. Jumps("X", Dist(my["X"], src["X"])) <=>
          /\ net.R["X"] > 0 /\ Dist(my["X"], src["X"]) % net.R["X"] = 0
          /\ net.depopulated => my["X"] # dst["X"]
    BY <1>1, JumpsMeans
  <2>3. QED
    BY <1>3, <2>1, <2>2 DEF Returns
<1>4. QED
  BY <1>2, <1>3

(* The trail grows by a router that the response comes back to. *)
LEMMA TrailGrows ==
  ASSUME MeshTypeOK, TrailInv, NEW m, Returns(m, my)
  PROVE  LET s == Append(trail, my)
             r == Append(s, m)
         IN  /\ s \in Seq([Axes -> Nat]) /\ r[1] = src
             /\ \A k \in 1 .. Len(s) : Returns(r[k + 1], r[k])
<1> DEFINE s == Append(trail, my)
           r == Append(s, m)
           n == Len(trail)
<1>1. /\ trail \in Seq([Axes -> Nat]) /\ my \in [Axes -> Nat]
      /\ s[1] = src /\ \A k \in 1 .. n : Returns(s[k + 1], s[k])
  BY DEF TrailInv, path, MeshTypeOK
<1>2. n \in Nat /\ s \in Seq([Axes -> Nat]) /\ Len(s) = n + 1 /\ s[n + 1] = my
  BY <1>1
<1>3. r[n + 2] = m /\ \A k \in 1 .. n + 1 : r[k] = s[k]
  BY <1>2
<1> HIDE DEF s, r, n
<1>4. r[1] = src
  BY <1>1, <1>2, <1>3
<1>5. \A k \in 1 .. n + 1 : Returns(r[k + 1], r[k])
  <2>1. TAKE k \in 1 .. n + 1
  <2>2. CASE k = n + 1
    <3>1. r[k + 1] = m /\ r[k] = my
      BY <1>2, <1>3, <2>2
    <3>2. QED
      BY <3>1
  <2>3. CASE k # n + 1
    <3>1. k \in 1 .. n /\ k + 1 \in 1 .. n + 1
      BY <1>2, <2>3
    <3>2. r[k + 1] = s[k + 1] /\ r[k] = s[k]
      BY <1>3, <3>1
    <3>3. QED
      BY <1>1, <3>1, <3>2
  <2>4. QED
    BY <2>2, <2>3
<1>6. QED
  BY <1>2, <1>4, <1>5 DEF s, r, n

(* From a router other than the source the response has one way to go, and *)
(* the trail leads it there.                                               *)
LEMMA TrailShrinks ==
  ASSUME MeshTypeOK, TrailInv, NEW m, Returns(my, m), my # src
  PROVE  LET s == SubSeq(trail, 1, Len(trail) - 1)
             r == Append(s, m)
         IN  /\ trail # <<>> /\ m = trail[Len(trail)]
             /\ s \in Seq([Axes -> Nat]) /\ r[1] = src
             /\ \A k \in 1 .. Len(s) : Returns(r[k + 1], r[k])
<1> DEFINE s == SubSeq(trail, 1, Len(trail) - 1)
           r == Append(s, m)
           n == Len(trail)
<1>1. /\ trail \in Seq([Axes -> Nat]) /\ my \in [Axes -> Nat]
      /\ path = Append(trail, my)
      /\ path[1] = src /\ \A k \in 1 .. n : Returns(path[k + 1], path[k])
  BY DEF TrailInv, path, MeshTypeOK
<1>2. /\ n \in Nat /\ path[n + 1] = my /\ \A k \in 1 .. n : path[k] = trail[k]
  BY <1>1
<1>3. trail # <<>> /\ n >= 1
  <2>1. trail = <<>> => path[1] = my
    BY <1>1, <1>2
  <2>2. trail # <<>> => n >= 1
    BY <1>1
  <2>3. QED
    BY <1>1, <2>1, <2>2
<1>4. m = trail[n]
  <2>1. n \in 1 .. n
    BY <1>2, <1>3
  <2>2. Returns(my, trail[n])
    BY <1>1, <1>2, <2>1
  <2>3. QED
    BY <2>2 DEF Returns
<1>5. /\ s \in Seq([Axes -> Nat]) /\ Len(s) = n - 1
      /\ \A k \in 1 .. n - 1 : s[k] = trail[k]
  <2>1. PICK h : h = n - 1
    OBVIOUS
  <2>2. h \in 1 - 1 .. Len(trail) /\ 1 \in 1 .. Len(trail) + 1
    BY <1>2, <1>3, <2>1
  <2>3. /\ SubSeq(trail, 1, h) \in Seq([Axes -> Nat])
        /\ Len(SubSeq(trail, 1, h)) = IF 1 <= h THEN h - 1 + 1 ELSE 0
        /\ \A i \in 1 .. h - 1 + 1 : SubSeq(trail, 1, h)[i] = trail[1 + i - 1]
    BY <1>1, <2>2, SubSeqProperties
  <2>4. s = SubSeq(trail, 1, h)
    BY <2>1
  <2>5. h \in Nat /\ Len(s) = h /\ \A i \in 1 .. h : s[i] = trail[i]
    BY <2>2, <2>3, <2>4
  <2>6. QED
    BY <2>1, <2>3, <2>4, <2>5
<1>6. r[n] = m /\ \A k \in 1 .. n - 1 : r[k] = trail[k]
  BY <1>2, <1>3, <1>5
<1> HIDE DEF s, r, n
<1>7. \A k \in 1 .. n : r[k] = path[k]
  BY <1>2, <1>4, <1>6
<1>8. r[1] = src
  BY <1>1, <1>2, <1>3, <1>7
<1>9. \A k \in 1 .. n - 1 : Returns(r[k + 1], r[k])
  <2>1. TAKE k \in 1 .. n - 1
  <2>2. k \in 1 .. n /\ k + 1 \in 1 .. n
    BY <1>2
  <2>3. r[k + 1] = path[k + 1] /\ r[k] = path[k]
    BY <1>7, <2>2
  <2>4. QED
    BY <1>1, <2>2, <2>3
<1>10. QED
  BY <1>3, <1>4, <1>5, <1>8, <1>9 DEF s, r, n

WayBackInv == WayInv /\ TrailInv

(* What a hop does. *)
LEMMA HopDoes ==
  ASSUME MeshInv, mesh!Hop
  PROVE  /\ \E k : Hops(my', from', k)
         /\ trail' = IF XY_order_p THEN Append(trail, my)
                     ELSE IF trail = <<>> THEN <<>> ELSE SubSeq(trail, 1, Len(trail) - 1)
         /\ net' = net /\ src' = src /\ dst' = dst /\ XY_order_p' = XY_order_p
<1>1. PICK o \in mesh!outputs \ {"P"} :
        /\ my' = mesh!Beyond[o].to /\ from' = mesh!Beyond[o].at
        /\ trail' = IF XY_order_p THEN Append(trail, my)
                    ELSE IF trail = <<>> THEN <<>> ELSE SubSeq(trail, 1, Len(trail) - 1)
        /\ net' = net /\ src' = src /\ dst' = dst /\ XY_order_p' = XY_order_p
  BY DEF mesh!Hop
<1>2. o \in mesh!req_o /\ o # "P"
  BY DEF mesh!outputs
<1>3. PICK m, f : m = mesh!Beyond[o].to /\ f = mesh!Beyond[o].at
  OBVIOUS
<1>4. Moves(o, m, f)
  BY <1>2, <1>3, OneWay
<1>5. PICK k : Hops(m, f, k)
  BY <1>4, MovesAreHops
<1>6. my' = m /\ from' = f
  BY <1>1, <1>3
<1>7. Hops(my', from', k)
  BY <1>5, <1>6
<1>8. QED
  BY <1>1, <1>7

(* A hop of the request leaves a trail, and one of the response follows    *)
(* it.                                                                     *)
LEMMA HopRetraces ==
  ASSUME WayBackInv, mesh!Hop
  PROVE  /\ LegInv' /\ PaceInv' /\ TrailInv'
         /\ ~XY_order_p => trail # <<>> /\ my' = trail[Len(trail)]
<1>1. /\ MeshTypeOK /\ MeshInv /\ LegInv /\ PaceInv /\ TrailInv
  BY DEF WayBackInv, WayInv, MeshInv
<1>2. /\ \E k : Hops(my', from', k)
      /\ trail' = IF XY_order_p THEN Append(trail, my)
                  ELSE IF trail = <<>> THEN <<>> ELSE SubSeq(trail, 1, Len(trail) - 1)
      /\ net' = net /\ src' = src /\ dst' = dst /\ XY_order_p' = XY_order_p
  BY <1>1, HopDoes
<1>3. PICK m, f, s : m = my' /\ f = from' /\ s = trail'
  OBVIOUS
<1>4. PICK k : Hops(m, f, k)
  BY <1>2, <1>3
<1>5. axis1' = axis1 /\ axis2' = axis2 /\ begun' = begun
  BY <1>2 DEF axis1, axis2, begun
<1>6. LegInv'
  <2>1. /\ \A a \in Axes : Between(src[a], m[a], dst[a])
        /\ m["Y"] # src["Y"] => m["X"] = dst["X"]
        /\ LET q == mesh!Ports[axis2]
           IN  f \in {q.lt, q.gt, q.rlt, q.rgt} <=> m[axis2] # begun[axis2]
    BY <1>1, <1>4, LegStays
  <2>2. QED
    BY <1>2, <1>3, <1>5, <2>1 DEF LegInv
<1>7. \A c, d : Returns(c, d)' <=> Returns(c, d)
  BY <1>2 DEF Returns, Reaches
<1>8. (/\ s \in Seq([Axes -> Nat]) /\ Append(s, m)[1] = src
       /\ \A i \in 1 .. Len(s) : Returns(Append(s, m)[i + 1], Append(s, m)[i]))
      => TrailInv'
  BY <1>2, <1>3, <1>7 DEF TrailInv, path
<1>9. CASE XY_order_p
  <2>1. axis1 = "X" /\ axis2 = "Y" /\ mesh!to = dst
    BY <1>1, <1>9, TheWay
  <2>2. FirstHalf(m) /\ SecondHalf(m) /\ Returns(m, my)
    <3>1. \/ /\ my["X"] # dst["X"] /\ HopOn("X", m, k)
             /\ k = IF Reaches("X", Dist(my["X"], dst["X"])) THEN net.R["X"] ELSE 1
          \/ /\ my["X"] = dst["X"] /\ my["Y"] # dst["Y"] /\ HopOn("Y", m, k)
             /\ k = IF Jumps("Y", Dist(my["Y"], dst["Y"])) THEN net.R["Y"] ELSE 1
      BY <1>1, <1>4, <2>1, HopsAreOn
    <3>2. QED
      BY <1>1, <1>9, <3>1, FirstLeg, SecondLeg
  <2>3. PaceInv'
    BY <1>2, <1>3, <2>2 DEF PaceInv, FirstHalf, SecondHalf, Reaches, Slack
  <2>4. s = Append(trail, my)
    BY <1>2, <1>3, <1>9
  <2>5. TrailInv'
    BY <1>1, <1>8, <2>2, <2>4, TrailGrows
  <2>6. QED
    BY <1>6, <1>9, <2>3, <2>5
<1>10. CASE ~XY_order_p
  <2>1. Returns(my, m) /\ my # src
    BY <1>1, <1>4, <1>10, ResponseReturns
  <2>2. trail # <<>> /\ m = trail[Len(trail)]
    BY <1>1, <2>1, TrailShrinks
  <2>3. s = SubSeq(trail, 1, Len(trail) - 1)
    BY <1>2, <1>3, <1>10, <2>2
  <2>4. TrailInv'
    BY <1>1, <1>8, <2>1, <2>3, TrailShrinks
  <2>5. PaceInv'
    BY <1>2, <1>10 DEF PaceInv
  <2>6. QED
    BY <1>3, <1>6, <2>2, <2>4, <2>5
<1>11. QED
  BY <1>9, <1>10

(* The response begins its way where the request has ended. *)
LEMMA AnswerTurns ==
  ASSUME WayBackInv, mesh!Answer
  PROVE  LegInv' /\ PaceInv' /\ TrailInv'
<1>1. /\ MeshTypeOK /\ MeshInv /\ LegInv /\ PaceInv /\ TrailInv
  BY DEF WayBackInv, WayInv, MeshInv
<1>2. /\ XY_order_p /\ "P" \in mesh!req_o /\ XY_order_p' = FALSE /\ from' = "P"
      /\ net' = net /\ src' = src /\ dst' = dst /\ my' = my /\ trail' = trail
  BY DEF mesh!Answer, mesh!outputs
<1>3. my = dst
  <2>1. PICK o : mesh!req_o = {o} /\ Asks(o)
    BY <1>1, Decided
  <2>2. Asks("P")
    BY <1>2, <2>1
  <2>3. my[axis1] = mesh!to[axis1] /\ my[axis2] = mesh!to[axis2]
    BY <1>1, <2>2, PortsDiffer DEF Asks
  <2>4. my = mesh!to
    BY <1>1, <2>3, AxesAre
  <2>5. QED
    BY <1>1, <1>2, <2>4, TheWay
<1>4. LegInv'
  <2>1. begun' = dst /\ axis2' = "X"
    BY <1>2, PortNames DEF begun, axis2, axis1
  <2>2. from' \notin {mesh!Ports["X"].lt, mesh!Ports["X"].gt,
                      mesh!Ports["X"].rlt, mesh!Ports["X"].rgt}
    BY <1>2, PortNames
  <2>3. QED
    BY <1>1, <1>2, <1>3, <2>1, <2>2 DEF LegInv
<1>5. PaceInv'
  BY <1>2 DEF PaceInv
<1>6. \A c, d : Returns(c, d)' <=> Returns(c, d)
  BY <1>2 DEF Returns, Reaches
<1>7. TrailInv'
  BY <1>1, <1>2, <1>6 DEF TrailInv, path
<1>8. QED
  BY <1>4, <1>5, <1>7

(* The invariant of the way there and back: where the packet is on its two *)
(* legs, in which pace, and that the trail leads back.                     *)
THEOREM OnItsWayBack == NetworksSpec => []WayBackInv
<1>1. NetworksInit => LegInv /\ PaceInv /\ TrailInv
  <2> SUFFICES ASSUME mesh!Init PROVE LegInv /\ PaceInv /\ TrailInv
    BY DEF NetworksInit
  <2>1. /\ net \in Networks /\ XY_order_p = TRUE /\ from = "P" /\ my = src /\ trail = <<>>
        /\ src \in [Axes -> Nat] /\ dst \in [Axes -> Nat]
        /\ \A a \in Axes : net.R[a] \in Nat
    <3>1. mesh!Modulus \in Nat \ {0} /\ net \in Networks
      BY NetworkIs DEF mesh!Init
    <3>2. QED
      BY <3>1, NetworkIs DEF mesh!Init, Axes
  <2>2. \A a \in Axes : src[a] \in Nat /\ dst[a] \in Nat
    BY <2>1
  <2>3. "X" \in Axes /\ "Y" \in Axes
    BY DEF Axes, mesh!Axes
  <2>4. /\ \A a \in Axes : Between(src[a], my[a], dst[a]) /\ Dist(src[a], my[a]) = 0
        /\ \A a \in Axes : Dist(my[a], dst[a]) \in Nat
    BY <2>1, <2>2 DEF Between, Dist
  <2>5. LegInv
    <3>1. begun = src /\ axis2 = "Y"
      BY <2>1, PortNames DEF begun, axis2, axis1
    <3>2. from \notin {mesh!Ports["Y"].lt, mesh!Ports["Y"].gt,
                       mesh!Ports["Y"].rlt, mesh!Ports["Y"].rgt}
      BY <2>1, PortNames
    <3>3. QED
      BY <2>1, <2>4, <3>1, <3>2 DEF LegInv
  <2>6. PaceInv
    <3>1. \A a \in Axes : net.R[a] > 0 => net.R[a] \in Nat \ {0} /\ 0 % net.R[a] = 0
      <4>1. \A a \in Axes : net.R[a] > 0 => net.R[a] \in Nat \ {0} /\ 0 \in 0 .. net.R[a] - 1
        BY <2>1
      <4>2. QED
        BY <4>1, SmallMod
    <3>2. net.R["X"] > 0 =>
            LET e == Dist(src["X"], my["X"])
                d == Dist(my["X"], dst["X"])
            IN  IF Reaches("X", d) THEN e % net.R["X"] = 0
                ELSE (e % net.R["X"]) + d <= Slack("X")
      BY <2>1, <2>3, <2>4, <3>1 DEF Reaches, Slack
    <3>3. net.R["Y"] > 0 =>
            LET e == Dist(src["Y"], my["Y"])
                d == Dist(my["Y"], dst["Y"])
            IN  d % net.R["Y"] # 0 => e + (d % net.R["Y"]) <= Slack("Y")
      <4> SUFFICES ASSUME net.R["Y"] > 0
                   PROVE  Dist(src["Y"], my["Y"]) + (Dist(my["Y"], dst["Y"]) % net.R["Y"])
                             <= Slack("Y")
        OBVIOUS
      <4>1. Dist(my["Y"], dst["Y"]) % net.R["Y"] \in 0 .. net.R["Y"] - 1
        BY <2>3, <2>4, <3>1, DivMod
      <4>2. QED
        BY <2>1, <2>3, <2>4, <4>1 DEF Slack
    <3>4. QED
      BY <3>2, <3>3 DEF PaceInv
  <2>7. TrailInv
    BY <2>1 DEF TrailInv, path
  <2>8. QED
    BY <2>5, <2>6, <2>7
<1>2. WayBackInv /\ [NetworksNext]_all => LegInv' /\ PaceInv' /\ TrailInv'
  <2> SUFFICES ASSUME WayBackInv, [NetworksNext]_all
               PROVE  LegInv' /\ PaceInv' /\ TrailInv'
    OBVIOUS
  <2>1. CASE mesh!Next
    BY <2>1, HopRetraces, AnswerTurns DEF mesh!Next
  <2>2. CASE UNCHANGED mesh_vars
    <3>1. /\ net' = net /\ src' = src /\ dst' = dst /\ my' = my
          /\ from' = from /\ XY_order_p' = XY_order_p /\ trail' = trail
      BY <2>2 DEF mesh_vars
    <3>2. axis2' = axis2 /\ begun' = begun
      BY <3>1 DEF axis1, axis2, begun
    <3>3. \A c, d : Returns(c, d)' <=> Returns(c, d)
      BY <3>1 DEF Returns, Reaches
    <3>4. LegInv /\ PaceInv /\ TrailInv
      BY DEF WayBackInv, WayInv
    <3>5. LegInv'
      BY <3>1, <3>2, <3>4 DEF LegInv
    <3>6. PaceInv'
      BY <3>1, <3>4 DEF PaceInv, Reaches, Slack
    <3>7. TrailInv'
      BY <3>1, <3>3, <3>4 DEF TrailInv, path
    <3>8. QED
      BY <3>5, <3>6, <3>7
  <2>3. QED
    BY <2>1, <2>2 DEF NetworksNext, Travel, Wait, all
<1>3. WayBackInv <=> MeshInv /\ LegInv /\ PaceInv /\ TrailInv
  BY DEF WayBackInv, WayInv
<1>4. QED
  BY <1>1, <1>2, <1>3, OnItsWay, PTL DEF NetworksSpec

(* Retraces: for every mesh and any two routers the response, which is     *)
(* routed in the other order, goes from router to router back the way the  *)
(* request has come, link by link and none else.                           *)
THEOREM ResponseRetraces == NetworksSpec => Retraces
<1>1. WayBackInv /\ [NetworksNext]_all =>
        [~XY_order_p /\ my' # my =>
           trail # <<>> /\ my' = trail[Len(trail)]]_mesh!vars
  <2> SUFFICES ASSUME WayBackInv, [NetworksNext]_all, ~XY_order_p, my' # my
               PROVE  trail # <<>> /\ my' = trail[Len(trail)]
    OBVIOUS
  <2>1. mesh!Next
    BY DEF NetworksNext, Travel, Wait, all, mesh_vars
  <2>2. mesh!Hop
    BY <2>1 DEF mesh!Next, mesh!Answer
  <2>3. QED
    BY <2>2, HopRetraces
<1>2. QED
  BY <1>1, OnItsWayBack, PTL DEF NetworksSpec, Retraces, mesh!Retraces
=============================================================================
