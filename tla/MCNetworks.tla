----------------------------- MODULE MCNetworks -----------------------------
(***************************************************************************)
(* What a packet goes through: a wormhole router in the middle of a mesh,  *)
(* and the way there and back through every kind of mesh.  One unit is     *)
(* under test and the other stays as it is after reset.                    *)
(***************************************************************************)
EXTENDS WormholeRouter, TLC

CONSTANTS Networks, CordWidth

VARIABLES
  unit,
  net, src, dst, XY_order_p, from, my, trail

worm_vars ==
  <<fifo, payload_ctr_r, scheduled_r, last_r, tx, rx, refused>>
mesh_vars == <<net, src, dst, XY_order_p, from, my, trail>>
all == <<unit, worm_vars, mesh_vars>>

-----------------------------------------------------------------------------
(* The matrix of bsg_wormhole_router_pkg for a mesh routed X first         *)
(* (P = 0, W = 1, E = 2, N = 3, S = 4).                                    *)
StrictXY == (0 :> 0 .. 4) @@ (1 :> {0, 2, 3, 4}) @@ (2 :> {0, 1, 3, 4})
              @@ (3 :> {0, 4}) @@ (4 :> {0, 3})

Centre == <<1, 1>>

Packet(s, c, n) == [src |-> s, cord |-> c, len |-> n]

(* In the middle of a 3 by 3 mesh: packets from the west may turn, those   *)
(* from the north and the south have their column; three inputs contend    *)
(* for the processor and two for the south.                                *)
Crossing ==
  {Packet(1, <<1, 1>>, 2), Packet(1, <<1, 2>>, 1),
   Packet(3, <<1, 1>>, 0), Packet(3, <<1, 2>>, 1), Packet(4, <<1, 1>>, 0)}

(* A mesh of each kind, some that fill the range of the coordinates in X.  *)
Mesh(dims, depopulated, rx_factor, ry_factor, w, h) ==
  [dims |-> dims, depopulated |-> depopulated,
   R |-> [X |-> rx_factor, Y |-> ry_factor], size |-> [X |-> w, Y |-> h]]

Plain == Mesh(2, TRUE, 0, 0, 4, 3)
AllKinds ==
  {Plain} \cup
  {Mesh(3, dp, r, 0, 8, 2) : dp \in BOOLEAN, r \in {2, 3}} \cup
  {Mesh(4, dp, 2, 2, 5, 4) : dp \in BOOLEAN} \cup
  {Mesh(4, dp, 3, 2, 8, 3) : dp \in BOOLEAN}

mesh == INSTANCE MeshRoute

ASSUME MeshAssumption == mesh!NetworkAssumption

-----------------------------------------------------------------------------
NetworksInit ==
  /\ unit \in {"wormhole", "mesh"}
  /\ Init /\ mesh!Init
  /\ unit # "mesh" => net = Plain /\ src = [X |-> 0, Y |-> 0] /\ dst = src

(* A packet waits as long as it likes, and for ever once it is home.       *)
Wait == unit = "mesh" /\ UNCHANGED all

Travel == unit = "mesh" /\ mesh!Next /\ UNCHANGED <<unit, worm_vars>>

NetworksNext ==
  \/ unit = "wormhole" /\ Next /\ UNCHANGED <<unit, mesh_vars>>
  \/ Travel
  \/ Wait

NetworksSpec ==
  /\ NetworksInit /\ [][NetworksNext]_all
  /\ Fairness
  /\ WF_all(Travel)

-----------------------------------------------------------------------------
(* No input of the wormhole router starves.                                *)
NoInputStarves == unit = "wormhole" => EveryInputMoves

(* The decoder of the mesh asks for one output, and for a turn that the    *)
(* crossbar has and a link that the mesh has.                              *)
RoutesExist == unit = "mesh" => mesh!OneRequest /\ mesh!TurnsSupported

(* A response passes the routers of its request in reverse order.          *)
Retraces == mesh!Retraces

(* Every request is answered and every response comes home.                *)
ComesHome == unit = "mesh" => mesh!ComesHome
=============================================================================
