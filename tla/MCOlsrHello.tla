---------------------------- MODULE MCOlsrHello -----------------------------
(* A chain 1 - 2 - 3, in which node 2 is the MPR of both ends; a pair of    *)
(* nodes with a third that hears but is not heard.                          *)
EXTENDS OlsrHello

Pair == {<<1, 2>>, <<2, 1>>}
OneDirection == {<<2, 1>>}
Chain == Pair \cup {<<2, 3>>, <<3, 2>>}
OneWay == Pair \cup {<<2, 3>>}

Conditions == {[reach |-> Chain, lossy |-> OneDirection], [reach |-> OneWay, lossy |-> Pair]}
=============================================================================
