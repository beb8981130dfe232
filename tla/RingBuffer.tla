----------------------------- MODULE RingBuffer -----------------------------
(***************************************************************************)
(* util/ringbuffer.c used from one thread, as simnet uses it for           *)
(* olsr_tx_msgbuf: a buffer of Size + 1 cells of which one stays unused,   *)
(* so that head = tail means empty.  Every action is one call.             *)
(***************************************************************************)
EXTENDS Naturals, Sequences

CONSTANTS
    Byte,     \* the values a cell can hold
    Size,     \* ringbuf->size, equal to ringbuf->max_offset
    Lengths   \* the request lengths that callers use

ASSUME SizeAssumption == /\ Size \in Nat
                         /\ Lengths \subseteq Nat
                         /\ Byte # {}

VARIABLES
    head,     \* ringbuf->head
    tail,     \* ringbuf->tail
    buf,      \* ringbuf->buf, cells 0..Size
    reply     \* result of the last call: return code and the bytes delivered

vars == <<head, tail, buf, reply>>

Cell == 0..Size
Done(data) == [rc |-> "ok", data |-> data]
Fail(rc) == [rc |-> rc, data |-> <<>>]

(* RingBuffer_new: the cells are whatever malloc returned. *)
Init ==
    /\ head = 0 /\ tail = 0
    /\ buf \in [Cell -> Byte]
    /\ reply = Done(<<>>)

(* RingBuffer_get_remain_bufsize. *)
Remain ==
    IF head = tail THEN Size
    ELSE IF head < tail THEN Size - (tail - head)
    ELSE head - tail - 1

(* RingBuffer_get_readable_bufsize. *)
Readable == Size - Remain

(* Cells up to the end of the buffer from offset on: cont_remain and       *)
(* cont_readable.                                                          *)
Contiguous(offset) == Size - offset + 1

(* RingBuffer_push.  The second memcpy of a push across the edge starts at *)
(* cell 0; a push that ends exactly at the edge wraps tail to 0.           *)
Push(data) ==
    LET len == Len(data)
        cont == Contiguous(tail)
    IN  IF len > Remain
        THEN reply' = Fail("full") /\ UNCHANGED <<head, tail, buf>>
        ELSE /\ IF cont < len
                THEN /\ buf' = [i \in Cell |->
                                  IF i < len - cont THEN data[cont + i + 1]
                                  ELSE IF i >= tail THEN data[i - tail + 1]
                                  ELSE buf[i]]
                     /\ tail' = len - cont
                ELSE /\ buf' = [i \in Cell |->
                                  IF i >= tail /\ i < tail + len
                                  THEN data[i - tail + 1] ELSE buf[i]]
                     /\ tail' = (tail + len) % (Size + 1)
             /\ reply' = Done(<<>>)
             /\ UNCHANGED head

(* What RingBuffer_read_internal copies out: n bytes from head on, the     *)
(* ones beyond the edge from cell 0 on.                                    *)
CopyOut(n) ==
    [k \in 1..n |-> IF k <= Contiguous(head) THEN buf[head + k - 1]
                                             ELSE buf[k - Contiguous(head) - 1]]

(* Where head stands after a pop of n bytes. *)
HeadAfter(n) ==
    IF Contiguous(head) < n THEN n - Contiguous(head)
                            ELSE (head + n) % (Size + 1)

(* RingBuffer_read and RingBuffer_pop. *)
Read(n) ==
    /\ reply' = IF n > Readable THEN Fail("not_enough") ELSE Done(CopyOut(n))
    /\ UNCHANGED <<head, tail, buf>>

Pop(n) ==
    /\ IF n > Readable
       THEN reply' = Fail("not_enough") /\ UNCHANGED head
       ELSE reply' = Done(CopyOut(n)) /\ head' = HeadAfter(n)
    /\ UNCHANGED <<tail, buf>>

(* RingBuffer_drop_buffer. *)
DropBuffer ==
    /\ head' = 0 /\ tail' = 0
    /\ reply' = Done(<<>>)
    /\ UNCHANGED buf

Next ==
    \/ \E n \in Lengths : \E data \in [1..n -> Byte] : Push(data)
    \/ \E n \in Lengths : Read(n) \/ Pop(n)
    \/ DropBuffer

Spec == Init /\ [][Next]_vars
-----------------------------------------------------------------------------
Reply == [rc : {"ok", "full", "not_enough"}, data : Seq(Byte)]

(* Both offsets stay inside the buffer, so that no memcpy leaves it; every *)
(* cell holds a byte.                                                      *)
TypeOK ==
    /\ head \in Cell /\ tail \in Cell
    /\ buf \in [Cell -> Byte]
    /\ reply \in Reply

(* The bytes between head and tail, in order. *)
Wrap(i) == IF i <= Size THEN i ELSE i - (Size + 1)
Contents == [k \in 1..Readable |-> buf[Wrap(head + k - 1)]]

Promise == INSTANCE ByteQueue WITH queue <- Contents

(* The ring buffer is a bounded byte FIFO for its callers: what is read is *)
(* what was pushed, in order, whatever the offsets; a request is refused   *)
(* exactly when it does not fit, and then changes nothing.                 *)
IsByteQueue == Promise!QSpec
=============================================================================
