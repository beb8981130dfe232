---------------------------- MODULE MCSimServer -----------------------------
(* A buffer that one frame fits into and two do not, so that pushes cross  *)
(* the edge and are refused; TCP_IO_SIZE is less than the buffer, and recv *)
(* takes less than a frame or the end of one with the start of the next.   *)
(* TLC does not go on once the framing is lost, after a send of less than  *)
(* all bytes, and where calls are refused after a race: any bytes may      *)
(* follow.                                                                 *)
EXTENDS SimServer

UpToOneTooMany == 0..(Size + 1)
FramedSoFar == intact /\ ~unsent /\ ~(raced /\ refused # "no")
=============================================================================
