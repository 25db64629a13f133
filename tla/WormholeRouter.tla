--------------------------- MODULE WormholeRouter ---------------------------
(***************************************************************************)
(* bsg_wormhole_router: a packet is a header flit, which says where it     *)
(* goes and how many flits follow, and those flits.  An output that takes  *)
(* a header belongs to that input until the packet has passed.             *)
(***************************************************************************)
EXTENDS RoundRobin, Sequences, FiniteSets

CONSTANTS
  dims_p,             \* the dimensions of the network
  reverse_order_p,    \* whether the last dimension is routed first
  my_cord_i,          \* this router's coordinate in each dimension
  Matrix,             \* routing_matrix_p[0]: the outputs an input may ask for
  hold_on_valid_p,
  Traffic             \* the packets that arrive: [src, cord, len]

Dirs == 0 .. 2 * dims_p

ASSUME RouterAssumption ==
  /\ dims_p \in Nat \ {0}
  /\ reverse_order_p \in BOOLEAN /\ hold_on_valid_p \in BOOLEAN
  /\ my_cord_i \in [1 .. dims_p -> Nat]
  /\ Matrix \in [Dirs -> SUBSET Dirs]
  /\ Traffic \subseteq [src : Dirs, cord : [1 .. dims_p -> Nat], len : Nat]

VARIABLES
  fifo,               \* twofer: the flits waiting at each input
  payload_ctr_r,      \* at each input, flits of its packet still to leave
  scheduled_r,        \* at each output, the inputs it belongs to
  last_r,             \* at each output, the round-robin pointer
  (* environment and history *)
  tx,                 \* the next flit of a packet whose header has arrived
  rx,                 \* the next flit of a packet whose header has left
  refused             \* the flits offered and not taken in the last cycle

vars == <<fifo, payload_ctr_r, scheduled_r, last_r, tx, rx, refused>>

(* bsg_wormhole_router_decoder_dor: the first dimension that differs, in   *)
(* the order of routing, decides; 0 is the processor.                      *)
Decode(cord) ==
  IF cord = my_cord_i THEN 0
  ELSE LET d == CHOOSE d \in 1 .. dims_p :
                  /\ cord[d] # my_cord_i[d]
                  /\ \A e \in 1 .. dims_p :
                       cord[e] # my_cord_i[e] =>
                         IF reverse_order_p THEN e <= d ELSE d <= e
       IN  IF cord[d] < my_cord_i[d] THEN 2 * d - 1 ELSE 2 * d

Route == [p \in Traffic |-> Decode(p.cord)]

(* The flit after f in its packet, if there is one. *)
Following(f) == IF f.idx < f.p.len THEN {[f EXCEPT !.idx = @ + 1]} ELSE {}

-----------------------------------------------------------------------------
(* bsg_wormhole_router_input_control *)
valid(i) == fifo[i] # <<>>
counter_expired(i) == payload_ctr_r[i] = 0

reqs_o(i) ==
  IF counter_expired(i) /\ valid(i)
  THEN {Route[Head(fifo[i]).p]} \cap Matrix[i] ELSE {}

(* Seeded fault: the counter is set one short. *)
MutCounter(i, yumi) ==
  IF ~yumi THEN payload_ctr_r[i]
  ELSE IF counter_expired(i)
       THEN IF Head(fifo[i]).p.len = 0 THEN 0 ELSE Head(fifo[i]).p.len - 1
       ELSE payload_ctr_r[i] - 1

(* bsg_counter_set_down, set by an accepted header. *)
Counter(i, yumi) ==
  IF ~yumi THEN payload_ctr_r[i]
  ELSE IF counter_expired(i) THEN Head(fifo[i]).p.len
       ELSE payload_ctr_r[i] - 1

(* bsg_wormhole_router_output_control, whose vectors are concentrated to   *)
(* the inputs that may ask for the output.                                 *)
Ins == [o \in Dirs |-> {i \in Dirs : o \in Matrix[i]}]
Width == [o \in Dirs |-> Cardinality(Ins[o])]
Rank == [o \in Dirs |-> [i \in Ins[o] |-> Cardinality({j \in Ins[o] : j < i})]]
requesters(o) == {i \in Ins[o] : o \in reqs_o(i)}
reqs_li(o) == {Rank[o][i] : i \in requesters(o)}

scheduled_with_release(o) == {i \in scheduled_r[o] : ~counter_expired(i)}

free_to_schedule(o) == scheduled_with_release(o) = {}

grants_lo(o) ==
  IF free_to_schedule(o) /\ requesters(o) # {}
  THEN LET tag == tag_o(Width[o], last_r[o], reqs_li(o))
       IN  {i \in Ins[o] : Rank[o][i] = tag}
  ELSE {}

scheduled_n(o) == grants_lo(o) \cup scheduled_with_release(o)

(* The inputs selected that have a flit, and the flits offered. *)
sending(o) == {i \in scheduled_n(o) : valid(i)}
link_o(o) == {Head(fifo[i]) : i \in sending(o)}

Policy == IF hold_on_valid_p THEN "hold_on_valid" ELSE "plain"

(* Seeded fault: the arbiter stays where it is, a fixed priority. *)
MutPointer(o, taken) == last_r[o]

(* The arbiter moves on when a header is taken. *)
Pointer(o, taken) ==
  LastNext(Width[o], Policy, last_r[o], reqs_li(o), free_to_schedule(o) /\ taken)

NoFlits == [d \in Dirs |-> {}]
Zeros == [d \in Dirs |-> 0]

Init ==
  /\ fifo = [i \in Dirs |-> <<>>]
  /\ payload_ctr_r = Zeros /\ last_r = Zeros
  /\ scheduled_r = NoFlits
  /\ tx = NoFlits /\ rx = NoFlits /\ refused = NoFlits

(* What each input may be given: the rest of its packet, or a new header.  *)
Coming(i) ==
  IF Len(fifo[i]) = 2 THEN {}
  ELSE IF tx[i] # {} THEN tx[i]
  ELSE {[p |-> p, idx |-> 0] :
          p \in {p \in Traffic : p.src = i}}

(* At most one flit arrives at each input. *)
Arrivals ==
  {new \in SUBSET UNION {Coming(i) : i \in Dirs} :
     \A f, g \in new : f.p.src = g.p.src => f = g}

Offering == {o \in Dirs : sending(o) # {}}

(* A clock edge at which the flits in new arrive and the neighbours behind *)
(* the outputs in ready_and_i are ready.                                   *)
Edge(new, ready_and_i) ==
  \E out \in {[o \in Dirs |-> sending(o)]} :     \* what each output reads
  LET At(i) == {f \in new : f.p.src = i}
      flits == [o \in Dirs |-> {Head(fifo[i]) : i \in out[o]}]
      yumi == UNION {out[o] : o \in ready_and_i}
  IN
  /\ fifo' = [i \in Dirs |->
                LET rest == IF i \in yumi THEN Tail(fifo[i]) ELSE fifo[i]
                IN  IF At(i) = {} THEN rest
                    ELSE Append(rest, CHOOSE f \in At(i) : TRUE)]
  /\ payload_ctr_r' = [i \in Dirs |-> Counter(i, i \in yumi)]
  /\ scheduled_r' = [o \in Dirs |-> scheduled_n(o)]
  /\ last_r' = [o \in Dirs |-> Pointer(o, o \in ready_and_i /\ out[o] # {})]
  /\ tx' = [i \in Dirs |-> IF At(i) = {} THEN tx[i]
                           ELSE UNION {Following(f) : f \in At(i)}]
  /\ rx' = [o \in Dirs |-> IF o \in ready_and_i
                           THEN UNION {Following(f) : f \in flits[o]}
                           ELSE rx[o]]
  /\ refused' = [o \in Dirs |-> IF o \in ready_and_i THEN {} ELSE flits[o]]

(* Only the readiness of neighbours that are offered a flit matters. *)
Clk ==
  \E new \in Arrivals : \E ready_and_i \in SUBSET Offering : Edge(new, ready_and_i)

Reset ==
  /\ fifo' = [i \in Dirs |-> <<>>]
  /\ payload_ctr_r' = Zeros /\ last_r' = Zeros
  /\ scheduled_r' = NoFlits
  /\ tx' = NoFlits /\ rx' = NoFlits /\ refused' = NoFlits

Next == Clk \/ Reset

Spec == Init /\ [][Next]_vars

(* The clock runs while a flit is offered; a neighbour does not refuse for *)
(* ever; a sender that has sent a header sends the rest as there is room.  *)
Fairness ==
  /\ []<>(Offering = {}) \/ []<><<Offering # {}>>_vars
  /\ \A o \in Dirs : []<>(refused[o] = {})
  /\ \A i \in Dirs : []<>(tx[i] = {} \/ Len(fifo[i]) = 2)

FairSpec == Spec /\ Fairness

-----------------------------------------------------------------------------
(* The direction of output o leads nearer to the coordinate. *)
Toward(o, cord) ==
  IF o = 0 THEN cord = my_cord_i
  ELSE LET d == (o + 1) \div 2
       IN  IF o % 2 = 1 THEN cord[d] < my_cord_i[d] ELSE cord[d] > my_cord_i[d]

(* Wormhole routing: on each output a header is followed by exactly the    *)
(* flits of its own packet, in order, before the next header, and a packet *)
(* leaves in a direction that leads to its destination.                    *)
FlitsInOrder ==
  \A o \in Dirs : \A f \in link_o(o) :
    /\ IF rx[o] = {} THEN f.idx = 0 ELSE f \in rx[o]
    /\ Toward(o, f.p.cord)

(* The path is held while a packet is under way: an input that still owes  *)
(* n flits belongs to the one output that waits for the last n of that     *)
(* packet, and only there does anything wait.                              *)
PathHeld ==
  /\ \A i \in Dirs : payload_ctr_r[i] # 0 =>
       \E o \in Dirs :
         /\ \A o2 \in Dirs : i \in scheduled_r[o2] <=> o2 = o
         /\ \E f \in rx[o] : f.p.src = i /\ f.p.len - f.idx + 1 = payload_ctr_r[i]
  /\ \A o \in Dirs : rx[o] # {} =>
       \E i \in scheduled_r[o] : payload_ctr_r[i] # 0

(* Packets stay whole, on the links and in what the router remembers of    *)
(* the packets it is in the middle of.                                     *)
WholePackets == FlitsInOrder /\ PathHeld

(* No input starves: a full one gets room, however the others press for    *)
(* the same output.                                                        *)
EveryInputMoves == \A i \in Dirs : Len(fifo[i]) = 2 ~> Len(fifo[i]) < 2

=============================================================================
