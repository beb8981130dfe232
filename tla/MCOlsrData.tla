----------------------------- MODULE MCOlsrData -----------------------------
(* Enough nodes for a circle that the destination is not on.               *)
EXTENDS OlsrData
=============================================================================
