--------------------------- MODULE MCOlsrTopology ---------------------------
(* The modulus of the ANSN is reduced so that wraps happen; it stays above  *)
(* the number of steps the ANSN can make within one hold time.              *)
EXTENDS OlsrTopology
=============================================================================
