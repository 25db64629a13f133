---------------------------- MODULE CordicWiring ----------------------------
(***************************************************************************)
(* How the generate blocks printed by the CORDIC scripts connect the       *)
(* registers of the pipeline: register r is loaded from register from      *)
(* through the stage that does iteration iter.  A register may have no     *)
(* driver, one, or, where two generate branches meet, two.                 *)
(***************************************************************************)
EXTENDS Integers

wire(from, iter) == [from |-> from, iter |-> iter]

\* The negative stages: for i in 0..neg, register i + 1 through stage i.
stage_neg(neg, r) == {wire(i, i) : i \in {r - 1} \cap 0..neg}

\* The positive stages j in neg + 1 .. neg + pos, in the three branches of
\* the generate block.  Iterations neg + 4 and neg + 12 are instanced twice.
Repeated(neg, pos, j) == j = neg + 4 \/ j = neg + 12

stage_pos_twice(neg, pos, r) ==
     {wire(j, j) : j \in {i \in {r - 1} \cap (neg + 1)..(neg + pos) : Repeated(neg, pos, i)}}
  \cup
     {wire(j + 1, j) : j \in {i \in {r - 2} \cap (neg + 1)..(neg + pos) : Repeated(neg, pos, i)}}

stage_pos_after(neg, pos, r) ==
  {wire(j + 1, j) : j \in {i \in {r - 2} \cap (neg + 1)..(neg + pos) :
                             ~Repeated(neg, pos, i) /\ i > neg + 4}}

stage_pos_before(neg, pos, r) ==
  {wire(j, j) : j \in {i \in {r - 1} \cap (neg + 1)..(neg + pos) :
                         ~Repeated(neg, pos, i) /\ i < neg + 4}}

hyperbolic_drivers(neg, pos, r) ==
  stage_neg(neg, r) \cup stage_pos_twice(neg, pos, r)
    \cup stage_pos_after(neg, pos, r) \cup stage_pos_before(neg, pos, r)

\* The register whose valid bit is val_o.
hyperbolic_last(neg, pos) == neg + pos + 2

\* The circular pipelines: for i in 0..precis, register i + 1 through
\* iteration i; register precis + 1 drives val_o.
circular_drivers(precis, r) == {wire(i, i) : i \in {r - 1} \cap 0..precis}
circular_last(precis) == precis + 1
=============================================================================
