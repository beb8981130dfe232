----------------------------- MODULE MCOlsrMpr ------------------------------
(* Five peers around node 1: three in range (2, 3, 4) and two behind them. *)
EXTENDS OlsrMpr

Edges == {{1, 2}, {1, 3}, {1, 4}, {2, 3}, {2, 5}, {3, 5}, {3, 6}, {4, 6}}
MCLos == {e \in Addr \X Addr : {e[1], e[2]} \in Edges}
=============================================================================
