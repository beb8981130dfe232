------------------------------ MODULE MCRbTree ------------------------------
(* Nine nodes, the last of which has the key of the fourth.  Eight nodes in *)
(* a tree are enough for every case of both fixups, with a second turn of   *)
(* each loop.                                                               *)
EXTENDS RbTree

Keys == [n \in Node |-> IF n = 9 THEN 4 ELSE n]
=============================================================================
