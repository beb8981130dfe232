-------------------------- MODULE MCPacketPipeline --------------------------
(* Two nodes and queues of one frame: every send meets a full queue in      *)
(* some behaviours, and a queue that is full holds a frame on its way.  Two *)
(* commands fit, so that contrary ones for a pair wait one behind the other.*)
EXTENDS PacketPipeline
=============================================================================
