---------------------------- MODULE MCSimControl ----------------------------
(* Two nodes and a stream; queues that commands and reports can fill.      *)
EXTENDS SimControl
=============================================================================
