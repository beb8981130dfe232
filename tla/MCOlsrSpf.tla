----------------------------- MODULE MCOlsrSpf ------------------------------
(* A ring 1 - 2 - 4 - 5 - 3 - 1: every node is reachable both ways round,   *)
(* by routes of different lengths, and losing one link turns them around.   *)
EXTENDS OlsrSpf

Ring == {<<1, 2>>, <<1, 3>>, <<2, 1>>, <<2, 4>>, <<4, 2>>, <<4, 5>>, <<5, 3>>, <<5, 4>>}
=============================================================================
