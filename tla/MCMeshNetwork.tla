---------------------------- MODULE MCMeshNetwork ----------------------------
(***************************************************************************)
(* Five nodes: n1 hears n2, n3 and n4, and n5 is behind n2. The table of n1 *)
(* does not always fit into a ping of three pairs, and n3 and n4 report two *)
(* remote nodes to each other through n1.                                   *)
(***************************************************************************)
EXTENDS MeshNetwork

CONSTANTS n1, n2, n3, n4, n5

MCAfter(n) ==
  CASE n = n1 -> n2 [] n = n2 -> n3 [] n = n3 -> n4 [] n = n4 -> n5 [] n = n5 -> n1

MCLinks == {{n1, n2}, {n1, n3}, {n1, n4}, {n2, n5}}

MCTalks == {<<n3, n4>>}
=============================================================================
