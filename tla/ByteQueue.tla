----------------------------- MODULE ByteQueue ------------------------------
(***************************************************************************)
(* What a caller of RingBuffer may rely on: a bounded FIFO of bytes.  A    *)
(* request is served completely or refused completely.                     *)
(***************************************************************************)
EXTENDS Naturals, Sequences

CONSTANTS
    Byte,     \* the values a cell can hold
    Size,     \* the number of bytes the queue can hold
    Lengths   \* the request lengths that callers use

VARIABLES
    queue,    \* the bytes pushed and not yet popped or dropped
    reply     \* result of the last call: return code and the bytes delivered

qvars == <<queue, reply>>

Served(data) == [rc |-> "ok", data |-> data]
Refused(rc) == [rc |-> rc, data |-> <<>>]

QInit == queue = <<>> /\ reply = Served(<<>>)

QPush(data) ==
    IF Len(queue) + Len(data) <= Size
    THEN queue' = queue \o data /\ reply' = Served(<<>>)
    ELSE queue' = queue /\ reply' = Refused("full")

QRead(n) ==
    /\ queue' = queue
    /\ reply' = IF n <= Len(queue) THEN Served(SubSeq(queue, 1, n))
                                   ELSE Refused("not_enough")

QPop(n) ==
    IF n <= Len(queue)
    THEN /\ queue' = SubSeq(queue, n + 1, Len(queue))
         /\ reply' = Served(SubSeq(queue, 1, n))
    ELSE queue' = queue /\ reply' = Refused("not_enough")

QDrop == queue' = <<>> /\ reply' = Served(<<>>)

QNext ==
    \/ \E n \in Lengths : \E data \in [1..n -> Byte] : QPush(data)
    \/ \E n \in Lengths : QRead(n) \/ QPop(n)
    \/ QDrop

QSpec == QInit /\ [][QNext]_qvars
=============================================================================
