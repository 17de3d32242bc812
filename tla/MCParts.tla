------------------------------ MODULE MCParts ------------------------------
(***************************************************************************)
(* Instances of Parts for TLC: alternative bounds for the tree (removals   *)
(* with three servers; a deeper tree with two) and for the addresses (an   *)
(* extent that gets another server; a call that fails).                    *)
(***************************************************************************)
EXTENDS Parts

Trees ==
  {[nodes |-> 4, servers |-> 3, adjusts |-> 2, removes |-> 1],
   [nodes |-> 5, servers |-> 2, adjusts |-> 2, removes |-> 0]}

Addresses ==
  {[starts |-> 2, sends |-> 2, moved |-> 1, failed |-> 0],
   [starts |-> 2, sends |-> 2, moved |-> 0, failed |-> 1]}
=============================================================================
