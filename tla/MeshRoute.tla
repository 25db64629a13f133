------------------------------ MODULE MeshRoute -----------------------------
(***************************************************************************)
(* bsg_mesh_router_decoder_dor in every node of a mesh with ruche links,   *)
(* which skip over nodes, and one packet that is passed from router to     *)
(* router: there in XY order, and back to its source in YX order, as a     *)
(* request and its response are.  The links between routers are the        *)
(* surrounding design's.                                                   *)
(***************************************************************************)
EXTENDS Integers, Sequences

CONSTANTS
  Networks,         \* [dims, depopulated, R : ruche factors, size : nodes]
  CordWidth         \* x_cord_width_p and y_cord_width_p

Modulus == 2^CordWidth
Axes == {"X", "Y"}

NetworkAssumption ==
  /\ CordWidth \in Nat \ {0}
  /\ \A n \in Networks :
       /\ n.dims \in {2, 3, 4} /\ n.depopulated \in BOOLEAN
       /\ n.R \in [Axes -> Nat] /\ n.size \in [Axes -> Nat \ {0}]
       /\ n.R["X"] > 0 <=> n.dims > 2
       /\ n.R["Y"] > 0 <=> n.dims > 3
       /\ \A a \in Axes : n.R[a] < Modulus /\ n.size[a] <= Modulus

VARIABLES
  net,              \* the network
  src, dst,         \* the ends of the request
  XY_order_p,       \* whether the packet is the request
  from,             \* the port at which the packet waits
  my,               \* the coordinates of the router it waits in
  trail             \* history: the routers the request was passed on by and
                    \* the response has not come back to
vars == <<net, src, dst, XY_order_p, from, my, trail>>

-----------------------------------------------------------------------------
(* The routing matrices of bsg_mesh_router_pkg: for each output, the       *)
(* inputs its crossbar is connected to.                                    *)

StrictXY ==
  [S |-> {"P", "W", "E", "N"},
   N |-> {"P", "W", "E", "S"},
   E |-> {"P", "W"},
   W |-> {"P", "E"},
   P |-> {"P", "W", "E", "N", "S"}]

StrictYX ==
  [S |-> {"P", "N"},
   N |-> {"P", "S"},
   E |-> {"P", "W", "N", "S"},
   W |-> {"P", "E", "N", "S"},
   P |-> {"P", "W", "E", "N", "S"}]

HalfRucheX_StrictXY ==
  [RE |-> {"P", "RW"},
   RW |-> {"P", "RE"},
   S |-> {"P", "W", "E", "N"},
   N |-> {"P", "W", "E", "S"},
   E |-> {"P", "W", "RW"},
   W |-> {"P", "E", "RE"},
   P |-> {"P", "W", "E", "N", "S"}]

HalfRucheX_StrictYX ==
  [RE |-> {"W", "RW"},
   RW |-> {"E", "RE"},
   S |-> {"P", "N"},
   N |-> {"P", "S"},
   E |-> {"P", "W", "N", "S"},
   W |-> {"P", "E", "N", "S"},
   P |-> {"P", "W", "E", "N", "S", "RW", "RE"}]

FullRuche_StrictXY ==
  [RS |-> {"N", "RN"},
   RN |-> {"S", "RS"},
   RE |-> {"P", "RW"},
   RW |-> {"P", "RE"},
   S |-> {"P", "W", "E", "N"},
   N |-> {"P", "W", "E", "S"},
   E |-> {"P", "W", "RW"},
   W |-> {"P", "E", "RE"},
   P |-> {"P", "W", "E", "N", "S", "RN", "RS"}]

FullRuche_StrictYX ==
  [RS |-> {"P", "RN"},
   RN |-> {"P", "RS"},
   RE |-> {"W", "RW"},
   RW |-> {"E", "RE"},
   S |-> {"P", "N", "RN"},
   N |-> {"P", "S", "RS"},
   E |-> {"P", "W", "N", "S"},
   W |-> {"P", "E", "N", "S"},
   P |-> {"P", "W", "E", "N", "S", "RW", "RE"}]

HalfRucheX_FullyPopulated_StrictXY ==
  [RE |-> {"P", "RW"},
   RW |-> {"P", "RE"},
   S |-> {"P", "W", "E", "N", "RW", "RE"},
   N |-> {"P", "W", "E", "S", "RW", "RE"},
   E |-> {"P", "W", "RW"},
   W |-> {"P", "E", "RE"},
   P |-> {"P", "W", "E", "N", "S", "RW", "RE"}]

HalfRucheX_FullyPopulated_StrictYX ==
  [RE |-> {"P", "W", "N", "S", "RW"},
   RW |-> {"P", "E", "N", "S", "RE"},
   S |-> {"P", "N"},
   N |-> {"P", "S"},
   E |-> {"P", "W", "N", "S"},
   W |-> {"P", "E", "N", "S"},
   P |-> {"P", "W", "E", "N", "S", "RW", "RE"}]

FullRuche_FullyPopulated_StrictXY ==
  [RS |-> {"P", "W", "E", "N", "RW", "RE", "RN"},
   RN |-> {"P", "W", "E", "S", "RW", "RE", "RS"},
   RE |-> {"P", "RW"},
   RW |-> {"P", "RE"},
   S |-> {"P", "W", "E", "N", "RW", "RE"},
   N |-> {"P", "W", "E", "S", "RW", "RE"},
   E |-> {"P", "W", "RW"},
   W |-> {"P", "E", "RE"},
   P |-> {"P", "W", "E", "N", "S", "RW", "RE", "RN", "RS"}]

FullRuche_FullyPopulated_StrictYX ==
  [RS |-> {"P", "RN"},
   RN |-> {"P", "RS"},
   RE |-> {"P", "W", "N", "S", "RW", "RN", "RS"},
   RW |-> {"P", "E", "N", "S", "RE", "RN", "RS"},
   S |-> {"P", "N", "RN"},
   N |-> {"P", "S", "RS"},
   E |-> {"P", "W", "N", "S", "RN", "RS"},
   W |-> {"P", "E", "N", "S", "RN", "RS"},
   P |-> {"P", "W", "E", "N", "S", "RW", "RE", "RN", "RS"}]

-----------------------------------------------------------------------------
(* The ports of an axis: towards lower and higher coordinates. *)
Ports == [X |-> [lt |-> "W", gt |-> "E", rlt |-> "RW", rgt |-> "RE"],
          Y |-> [lt |-> "N", gt |-> "S", rlt |-> "RN", rgt |-> "RS"]]
Cross(a) == IF a = "X" THEN "Y" ELSE "X"

to == IF XY_order_p THEN dst ELSE src

(* Seeded fault: the differences are taken without the guards against      *)
(* under- and overflow.                                                    *)
MutFarLt(a, t) ==
  IF net.depopulated THEN t < (my[a] - net.R[a]) % Modulus
  ELSE t <= (my[a] - net.R[a]) % Modulus

(* send_rw, send_rn: a ruche link towards lower coordinates is taken, and  *)
(* the difference does not underflow.                                      *)
FarLt(a, t) ==
  IF net.depopulated
  THEN my[a] > net.R[a] /\ t < (my[a] - net.R[a]) % Modulus
  ELSE my[a] >= net.R[a] /\ t <= (my[a] - net.R[a]) % Modulus

(* Seeded fault: the last hop of a depopulated network is by ruche link.   *)
MutFarGt(a, t) ==
  my[a] + net.R[a] < Modulus /\ t >= (my[a] + net.R[a]) % Modulus

(* send_re, send_rs: one that leads to higher coordinates is taken, and    *)
(* the sum does not overflow.                                              *)
FarGt(a, t) ==
  LET r_cord == my[a] + net.R[a]
  IN  r_cord < Modulus /\ IF net.depopulated THEN t > r_cord % Modulus
                          ELSE t >= r_cord % Modulus

(* The requests of the axis that is routed first. *)
FirstAxis(a, t) ==
  LET p == Ports[a]
      ruche == net.R[a] > 0
  IN  {d \in {p.lt}  : t < my[a] /\ ~(ruche /\ FarLt(a, t))} \cup
      {d \in {p.gt}  : t > my[a] /\ ~(ruche /\ FarGt(a, t))} \cup
      {d \in {p.rlt} : ruche /\ FarLt(a, t)} \cup
      {d \in {p.rgt} : ruche /\ FarGt(a, t)}

(* Seeded fault: a packet that travels on this axis by local links looks   *)
(* for a ruche link only where it entered.                                 *)
MutStraight(a, t) ==
  LET p == Ports[a]
  IN  IF t > my[a]
      THEN {IF (t - my[a]) % net.R[a] = 0 /\ from # p.lt THEN p.rgt ELSE p.gt}
      ELSE IF t < my[a]
           THEN {IF (my[a] - t) % net.R[a] = 0 /\ from # p.gt THEN p.rlt ELSE p.lt}
           ELSE {}

(* Local links until the distance is a multiple of the ruche factor, ruche *)
(* links from there on.                                                    *)
Straight(a, t) ==
  LET p == Ports[a]
  IN  IF t > my[a]
      THEN {IF (t - my[a]) % net.R[a] = 0 THEN p.rgt ELSE p.gt}
      ELSE IF t < my[a]
           THEN {IF (my[a] - t) % net.R[a] = 0 THEN p.rlt ELSE p.lt}
           ELSE {}

Local(a, t) ==
  LET p == Ports[a]
  IN  IF t > my[a] THEN {p.gt} ELSE IF t < my[a] THEN {p.lt} ELSE {}

(* The requests of the axis that is routed second, which depend on the     *)
(* port the packet came in by.                                             *)
SecondAxis(a, t) ==
  LET p == Ports[a]
      c == Ports[Cross(a)]
  IN  IF net.R[a] = 0 THEN Local(a, t) ELSE
      CASE from \in {"P", c.lt, c.gt} ->
             IF net.depopulated THEN Local(a, t) ELSE Straight(a, t)
        [] from = p.lt        -> Straight(a, t) \cap {p.gt, p.rgt}
        [] from = p.gt        -> Straight(a, t) \cap {p.lt, p.rlt}
        [] from = p.rlt       -> IF t > my[a] THEN {p.rgt} ELSE {}
        [] from = p.rgt       -> IF t < my[a] THEN {p.rlt} ELSE {}
        [] from \in {c.rlt, c.rgt} ->
             IF net.depopulated THEN {} ELSE Straight(a, t)

(* The outputs the decoder requests. *)
req_o ==
  LET first == IF XY_order_p THEN "X" ELSE "Y"
      second == Cross(first)
  IN  {d \in {"P"} : my = to}
      \cup FirstAxis(first, to[first])
      \cup IF my[first] = to[first] THEN SecondAxis(second, to[second]) ELSE {}

routing_matrix_p ==
  CASE net.dims = 2 -> IF XY_order_p THEN StrictXY ELSE StrictYX
    [] net.dims = 3 /\ net.depopulated ->
         IF XY_order_p THEN HalfRucheX_StrictXY ELSE HalfRucheX_StrictYX
    [] net.dims = 3 /\ ~net.depopulated ->
         IF XY_order_p THEN HalfRucheX_FullyPopulated_StrictXY
         ELSE HalfRucheX_FullyPopulated_StrictYX
    [] net.dims = 4 /\ net.depopulated ->
         IF XY_order_p THEN FullRuche_StrictXY ELSE FullRuche_StrictYX
    [] net.dims = 4 /\ ~net.depopulated ->
         IF XY_order_p THEN FullRuche_FullyPopulated_StrictXY
         ELSE FullRuche_FullyPopulated_StrictYX

(* The output that passes the packet on: one that is requested and whose   *)
(* crossbar is connected to the port.                                      *)
outputs == {o \in req_o : from \in routing_matrix_p[o]}

-----------------------------------------------------------------------------
(* The other end of the link at an output. *)
Shift(a, by) == [my EXCEPT ![a] = @ + by]

Beyond ==
  [W |-> [to |-> Shift("X", -1), at |-> "E"],
   E |-> [to |-> Shift("X", 1), at |-> "W"],
   N |-> [to |-> Shift("Y", -1), at |-> "S"],
   S |-> [to |-> Shift("Y", 1), at |-> "N"],
   RW |-> [to |-> Shift("X", -net.R["X"]), at |-> "RE"],
   RE |-> [to |-> Shift("X", net.R["X"]), at |-> "RW"],
   RN |-> [to |-> Shift("Y", -net.R["Y"]), at |-> "RS"],
   RS |-> [to |-> Shift("Y", net.R["Y"]), at |-> "RN"]]

InMesh(c) == \A a \in Axes : c[a] \in 0 .. net.size[a] - 1

Init ==
  /\ net \in Networks
  /\ src \in {c \in [Axes -> 0 .. Modulus - 1] : InMesh(c)}
  /\ dst \in {c \in [Axes -> 0 .. Modulus - 1] : InMesh(c)}
  /\ XY_order_p = TRUE
  /\ from = "P"
  /\ my = src
  /\ trail = <<>>

(* The packet crosses a link that the mesh has. *)
Hop ==
  \E o \in outputs \ {"P"} :
    /\ InMesh(Beyond[o].to)
    /\ my' = Beyond[o].to
    /\ from' = Beyond[o].at
    /\ trail' = IF XY_order_p THEN Append(trail, my)
                ELSE IF trail = <<>> THEN <<>> ELSE SubSeq(trail, 1, Len(trail) - 1)
    /\ UNCHANGED <<net, src, dst, XY_order_p>>

(* The request has arrived and is answered. *)
Answer ==
  /\ XY_order_p /\ "P" \in outputs
  /\ XY_order_p' = FALSE
  /\ from' = "P"
  /\ UNCHANGED <<net, src, dst, my, trail>>

Next == Hop \/ Answer

Spec == Init /\ [][Next]_vars /\ WF_vars(Next)

-----------------------------------------------------------------------------
(* debug_p's assertion, and its complement: the decoder requests one       *)
(* output, never two and never none.                                       *)
OneRequest == \E o \in req_o : req_o = {o}

(* The crossbar of the output that is requested is connected to the port,  *)
(* and the output's link exists: the decoder, the routing matrix and the   *)
(* layout of the ruche links agree for every network and both orders.      *)
TurnsSupported == \A o \in req_o : /\ from \in routing_matrix_p[o]
                                   /\ o # "P" => InMesh(Beyond[o].to)

(* "YX retraces XY": the response passes the routers of the request in     *)
(* reverse order, and none else.  The package says so of half ruche        *)
(* networks; it is so of the others too.                                   *)
Retraces ==
  [][~XY_order_p /\ my' # my =>
       trail # <<>> /\ my' = trail[Len(trail)]]_vars

(* Every request is answered and every response comes home. *)
ComesHome == <>(~XY_order_p /\ my = src)
=============================================================================
