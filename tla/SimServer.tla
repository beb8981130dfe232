----------------------------- MODULE SimServer ------------------------------
(***************************************************************************)
(* The simulator's TCP server (sim_server.c, sim_hdlreport.c): the main    *)
(* thread and the TCP thread share two RingBuffers without a lock.  In     *)
(* sendq the main thread puts reports, in recvq the TCP thread puts what   *)
(* the frontend sends; both carry frames of a two byte length and a body.  *)
(* When a connection ends the TCP thread drops both buffers.               *)
(*                                                                         *)
(* The build has no optimisation (CMAKE_BUILD_TYPE Debug), so every access *)
(* to head and tail in the source is a load or a store that the other      *)
(* thread may come between: a call is one action per access.  The buffers  *)
(* do not depend on each other, so a behaviour is about one of them.  The  *)
(* third use, olsr_tx_msgbuf in simnet, has one thread: there the calls of *)
(* RingBuffer are the actions.                                             *)
(***************************************************************************)
EXTENDS RingBuffer, Integers

CONSTANTS
    Uses,     \* the buffers to look at: "sendq", "recvq", "olsr_tx_msgbuf"
    BodyLens, \* lengths of the bodies of frames
    IoSize    \* TCP_IO_SIZE

High == 0     \* the bytes of a frame: the length, all of it in the second, ...
Body == 9     \* ... what JSON consists of, ...
Stale == 5    \* ... and what a local array or fresh memory holds
Huge == 2^20  \* a negative int converted to size_t

ASSUME ServerAssumption == /\ Byte \subseteq Nat /\ BodyLens \subseteq Nat \ {0}
                           /\ BodyLens \cup {High, Body, Stale} \subseteq Byte
                           /\ IoSize \in Nat \ {0}

VARIABLES
    use,      \* which buffer this is
    w,        \* the writing thread: where it is in RingBuffer_push
    r,        \* the reading thread: where it is in its loop and its call
    stream,   \* recvq: bytes the frontend has sent and recv not returned
    conn,     \* the connection: "up", "down" or "dropping"
    expect,   \* what the receiver of frames waits for: High, length or body
    intact,   \* whether it has received nothing but frames
    refused,  \* whether a call was refused: "no", "full" or "race"
    unsent,   \* whether the socket did not take all that send() was given
    raced     \* whether a drop has met the main thread at work, or a pop a push

threads == <<w, r>>
history == <<expect, intact, refused, unsent, raced>>
svars == <<head, tail, buf, reply, use, w, r, stream, conn, history>>

Frame(len) == <<High, len>> \o [i \in 1..len |-> Body]

(* Outside of a call; what a thread keeps from earlier calls is forgotten. *)
WIdle(at) == [at |-> at, pc |-> "out", data |-> <<>>, tmp |-> 0]
RIdle == [at |-> "loop", pc |-> "out", n |-> 0, tmp |-> 0, out |-> <<>>, canread |-> 0]

ServerInit ==
    /\ use \in Uses
    /\ head = 0 /\ tail = 0 /\ buf = [i \in Cell |-> Stale] /\ reply = Done(<<>>)
    /\ w = WIdle("frame") /\ r = RIdle
    /\ stream = <<>> /\ conn = "down"
    /\ expect = <<"high", 0>> /\ intact = TRUE /\ refused = "no"
    /\ unsent = FALSE /\ raced = FALSE
-----------------------------------------------------------------------------
Tcp == IF use = "sendq" THEN "reader" ELSE "writer"

(* The TCP thread works on a connection that is up, the main thread always *)
(* - between the two stores of a drop it is a race.                        *)
Turn(thread, race) ==
    /\ use \in {"sendq", "recvq"}
    /\ thread = Tcp => conn = "up"
    /\ raced' = (raced \/ conn = "dropping" \/ race)

(* Mutant: the unused cell is handed out as well. *)
MeasuredWholeBuffer(pc) ==
    CASE pc = "eq"    -> IF head = tail THEN [pc |-> "got", remain |-> Size]
                                        ELSE [pc |-> "lt", remain |-> 0]
      [] pc = "lt"    -> [pc |-> IF head < tail THEN "below" ELSE "above", remain |-> 0]
      [] pc = "below" -> [pc |-> "got", remain |-> Size + 1 - (tail - head)]
      [] pc = "above" -> [pc |-> "got", remain |-> head - tail]

(* RingBuffer_get_remain_bufsize, one access to head and tail at a time:   *)
(* the next step, or "got" with the result.                                *)
Measured(pc) ==
    CASE pc = "eq"    -> IF head = tail THEN [pc |-> "got", remain |-> Size]
                                        ELSE [pc |-> "lt", remain |-> 0]
      [] pc = "lt"    -> [pc |-> IF head < tail THEN "below" ELSE "above", remain |-> 0]
      [] pc = "below" -> [pc |-> "got", remain |-> Size - (tail - head)]
      [] pc = "above" -> [pc |-> "got", remain |-> head - tail - 1]

(* A call is refused although it could be served, or rightly. *)
Refusal(rightly) ==
    refused' = IF rightly THEN "full" ELSE IF refused = "no" THEN "race" ELSE refused

(* The writer's next state once its call has returned; the results of both *)
(* pushes of a frame are ignored.                                          *)
WReturn == w' = WIdle(IF w.at = "header" THEN "body" ELSE "frame")

(* RingBuffer_push. *)
WMeasure ==
    /\ w.pc \in {"eq", "lt", "below", "above"}
    /\ Turn("writer", FALSE)
    /\ LET m == Measured(w.pc)
       IN  IF m.pc = "got" /\ Len(w.data) > m.remain
           THEN WReturn /\ Refusal(Len(w.data) > Remain)
           ELSE /\ w' = [w EXCEPT !.pc = IF m.pc = "got" THEN "cont" ELSE m.pc]
                /\ UNCHANGED refused
    /\ UNCHANGED <<head, tail, buf, reply, use, r, stream, conn, expect, intact, unsent>>

WCont ==
    /\ w.pc = "cont"
    /\ Turn("writer", FALSE)
    /\ w' = [w EXCEPT !.pc = "copy", !.tmp = Contiguous(tail)]
    /\ UNCHANGED <<head, tail, buf, reply, use, r, stream, conn, expect, intact, refused, unsent>>

(* The memcpys; tmp is cont_remain. *)
CopiedIn(data, cont) ==
    LET len == Len(data)
    IN  [i \in Cell |-> IF i < len - cont THEN data[cont + i + 1]
                        ELSE IF i >= tail /\ i < tail + len /\ i < tail + cont
                        THEN data[i - tail + 1] ELSE buf[i]]

WCopy ==
    /\ w.pc = "copy"
    /\ Turn("writer", FALSE)
    /\ buf' = CopiedIn(w.data, w.tmp)
    /\ w' = [w EXCEPT !.pc = "add"]
    /\ UNCHANGED <<head, tail, reply, use, r, stream, conn, expect, intact, refused, unsent>>

(* tail += len, a load and a store, and tail %= max_offset + 1; across the *)
(* edge there is one store only.                                           *)
WAdd ==
    /\ w.pc = "add"
    /\ Turn("writer", FALSE)
    /\ w' = IF w.tmp < Len(w.data)
            THEN [w EXCEPT !.pc = "last", !.tmp = Len(w.data) - w.tmp]
            ELSE [w EXCEPT !.pc = "store", !.tmp = tail + Len(w.data)]
    /\ UNCHANGED <<head, tail, buf, reply, use, r, stream, conn, expect, intact, refused, unsent>>

WStore ==
    /\ w.pc \in {"store", "last"}
    /\ Turn("writer", FALSE)
    /\ tail' = w.tmp
    /\ reply' = Done(<<>>)
    /\ IF w.pc = "last" THEN WReturn ELSE w' = [w EXCEPT !.pc = "wrap"]
    /\ UNCHANGED <<head, buf, use, r, stream, conn, expect, intact, refused, unsent>>

WWrap ==
    /\ w.pc = "wrap"
    /\ Turn("writer", FALSE)
    /\ tail' = tail % (Size + 1)
    /\ WReturn
    /\ UNCHANGED <<head, buf, reply, use, r, stream, conn, expect, intact, refused, unsent>>
-----------------------------------------------------------------------------
Pushing(data, at) == w' = [at |-> at, pc |-> "eq", data |-> data, tmp |-> 0]

(* send_json_to_front, and the answer to a Status message: the length, ... *)
SendHeader(len) ==
    /\ use = "sendq" /\ w.pc = "out" /\ w.at = "frame"
    /\ Turn("writer", FALSE)
    /\ Pushing(<<High, len>>, "header")
    /\ stream' = [i \in 1..len |-> Body]
    /\ UNCHANGED <<head, tail, buf, reply, use, r, conn, expect, intact, refused, unsent>>

(* ... then the JSON string. *)
SendBody ==
    /\ use = "sendq" /\ w.pc = "out" /\ w.at = "body"
    /\ Turn("writer", FALSE)
    /\ Pushing(stream, "rest")
    /\ stream' = <<>>
    /\ UNCHANGED <<head, tail, buf, reply, use, r, conn, expect, intact, refused, unsent>>

(* The frontend sends a frame.  It is not ahead of recv by more than recv  *)
(* can take: what comes behind that makes no difference.                   *)
FrontSends(len) ==
    /\ use = "recvq" /\ conn = "up" /\ w.pc = "out"
    /\ Len(stream) < IoSize - 1
    /\ stream' = stream \o Frame(len)
    /\ UNCHANGED <<head, tail, buf, reply, use, threads, conn, history>>

(* Mutant: the terminating zero is pushed as well. *)
RecvChunkWithNul(n) ==
    /\ use = "recvq" /\ w.pc = "out"
    /\ n <= Len(stream)
    /\ Turn("writer", FALSE)
    /\ Pushing(SubSeq(stream, 1, n) \o <<0>>, "rest")
    /\ stream' = SubSeq(stream, n + 1, Len(stream))
    /\ UNCHANGED <<head, tail, buf, reply, use, r, conn, expect, intact, refused, unsent>>

(* recv in do_server returns some of the bytes that have arrived, a part   *)
(* of a frame or the end of one and the start of the next; the result of   *)
(* the push is ignored.                                                    *)
RecvChunk(n) ==
    /\ use = "recvq" /\ w.pc = "out"
    /\ n <= Len(stream)
    /\ Turn("writer", FALSE)
    /\ Pushing(SubSeq(stream, 1, n), "rest")
    /\ stream' = SubSeq(stream, n + 1, Len(stream))
    /\ UNCHANGED <<head, tail, buf, reply, use, r, conn, expect, intact, refused, unsent>>
-----------------------------------------------------------------------------
(* What the receiver of frames makes of one more byte. *)
Receiving(state, byte) ==
    CASE state[1] = "high" -> IF byte = High THEN <<"low", 0>> ELSE <<"lost", 0>>
      [] state[1] = "low"  -> IF byte \in BodyLens THEN <<"body", byte>> ELSE <<"lost", 0>>
      [] state[1] = "body" -> IF byte # Body THEN <<"lost", 0>>
                              ELSE IF state[2] = 1 THEN <<"high", 0>>
                              ELSE <<"body", state[2] - 1>>
      [] state[1] = "lost" -> state

(* ... and of several. *)
AfterBytes(state, bytes) ==
    LET after[i \in 0..Len(bytes)] ==
          IF i = 0 THEN state ELSE Receiving(after[i - 1], bytes[i])
    IN  after[Len(bytes)]

Receive(bytes) ==
    /\ expect' = AfterBytes(expect, bytes)
    /\ intact' = (intact /\ expect'[1] # "lost")

Calling(at, n, canread) ==
    r' = [at |-> at, pc |-> "eq", n |-> n, tmp |-> 0, out |-> <<>>, canread |-> canread]

(* RingBuffer_get_readable_bufsize has returned.  do_server takes what     *)
(* there is up to TCP_IO_SIZE; parse_client_json looks at a length if      *)
(* there is one.                                                           *)
Found(readable) ==
    /\ IF use = "sendq"
       THEN IF readable = 0 THEN r' = RIdle
            ELSE Calling("pop", IF readable > IoSize THEN IoSize ELSE readable, readable)
       ELSE IF readable < 2 THEN r' = RIdle ELSE Calling("peek", 2, readable)
    /\ UNCHANGED <<expect, intact, unsent>>

(* RingBuffer_read or RingBuffer_pop has returned and the array it was     *)
(* given holds bytes.  do_server gives them to a socket that does not      *)
(* block and ignores how many it takes; parse_client_json compares the     *)
(* length with canread, removes it, and handles the JSON string.           *)
Returned(bytes) ==
    CASE r.at = "pop" ->
           /\ \E sent \in 0..Len(bytes) : /\ Receive(SubSeq(bytes, 1, sent))
                                         /\ unsent' = (unsent \/ sent < Len(bytes))
           /\ IF r.canread > IoSize THEN Calling("readable", 0, 0) ELSE r' = RIdle
      [] r.at = "peek" ->
           /\ \E jsonlen \in IF bytes[1] = High THEN {bytes[2]} ELSE {0, Size + 1} \cup BodyLens :
                IF r.canread >= 2 + jsonlen THEN Calling("header", 2, jsonlen) ELSE r' = RIdle
           /\ UNCHANGED <<expect, intact, unsent>>
      [] r.at = "header" -> Receive(bytes) /\ Calling("json", r.canread, 0) /\ UNCHANGED unsent
      [] r.at = "json" ->
           /\ expect' = AfterBytes(expect, bytes)
           /\ intact' = (intact /\ expect'[1] = "high")
           /\ Calling("readable", 0, 0)
           /\ UNCHANGED unsent

Garbage(n) == [i \in 1..n |-> Stale]

(* A reader enters its loop. *)
RStart ==
    /\ r.pc = "out"
    /\ Turn("reader", FALSE)
    /\ Calling("readable", 0, 0)
    /\ UNCHANGED <<head, tail, buf, reply, use, w, stream, conn, expect, intact, refused, unsent>>

(* The start of RingBuffer_read_internal; int readable is signed, the      *)
(* size_t of the callers is not.                                           *)
RMeasure ==
    /\ r.pc \in {"eq", "lt", "below", "above"}
    /\ Turn("reader", FALSE)
    /\ LET m == Measured(r.pc)
           readable == Size - m.remain
       IN  IF m.pc # "got"
           THEN r' = [r EXCEPT !.pc = m.pc] /\ UNCHANGED <<expect, intact, refused, unsent>>
           ELSE IF r.at = "readable"
           THEN Found(IF readable < 0 THEN Huge ELSE readable) /\ UNCHANGED refused
           ELSE IF r.n > readable THEN Returned(Garbage(r.n)) /\ Refusal(r.n > Readable)
           ELSE r' = [r EXCEPT !.pc = "cont"] /\ UNCHANGED <<expect, intact, refused, unsent>>
    /\ UNCHANGED <<head, tail, buf, reply, use, w, stream, conn>>

(* Mutant: one cell too many up to the edge. *)
RContOneTooMany ==
    /\ r.pc = "cont"
    /\ Turn("reader", FALSE)
    /\ r' = [r EXCEPT !.pc = "copy", !.tmp = Contiguous(head) + 1]
    /\ UNCHANGED <<head, tail, buf, reply, use, w, stream, conn, expect, intact, refused, unsent>>

RCont ==
    /\ r.pc = "cont"
    /\ Turn("reader", FALSE)
    /\ r' = [r EXCEPT !.pc = "copy", !.tmp = Contiguous(head)]
    /\ UNCHANGED <<head, tail, buf, reply, use, w, stream, conn, expect, intact, refused, unsent>>

(* The memcpys; tmp is cont_readable. *)
CopiedOut(n, cont) ==
    [k \in 1..n |-> IF k <= cont THEN buf[head + k - 1] ELSE buf[k - cont - 1]]

RCopy ==
    /\ r.pc = "copy"
    /\ Turn("reader", FALSE)
    /\ LET out == CopiedOut(r.n, r.tmp)
       IN  IF r.at = "peek"
           THEN Returned(out) /\ reply' = Done(out)
           ELSE /\ r' = [r EXCEPT !.pc = "add", !.out = out]
                /\ UNCHANGED <<reply, expect, intact, unsent>>
    /\ UNCHANGED <<head, tail, buf, use, w, stream, conn, refused>>

RAdd ==
    /\ r.pc = "add"
    /\ Turn("reader", FALSE)
    /\ r' = IF r.tmp < r.n THEN [r EXCEPT !.pc = "last", !.tmp = r.n - r.tmp]
                           ELSE [r EXCEPT !.pc = "store", !.tmp = head + r.n]
    /\ UNCHANGED <<head, tail, buf, reply, use, w, stream, conn, expect, intact, refused, unsent>>

RStore ==
    /\ r.pc \in {"store", "last"}
    /\ Turn("reader", FALSE)
    /\ head' = r.tmp
    /\ reply' = Done(r.out)
    /\ IF r.pc = "last" THEN Returned(r.out)
       ELSE r' = [r EXCEPT !.pc = "wrap"] /\ UNCHANGED <<expect, intact, unsent>>
    /\ UNCHANGED <<tail, buf, use, w, stream, conn, refused>>

(* When it comes between the two stores to tail of a push up to the edge,  *)
(* an empty buffer looks full until the second: a race as well.            *)
RWrap ==
    /\ r.pc = "wrap"
    /\ Turn("reader", head = Size + 1 /\ tail = Size + 1)
    /\ head' = head % (Size + 1)
    /\ Returned(r.out)
    /\ UNCHANGED <<tail, buf, reply, use, w, stream, conn, refused>>
-----------------------------------------------------------------------------
(* The main thread is neither in a call nor between the two pushes of a    *)
(* frame.                                                                  *)
MainApart == IF use = "sendq" THEN w.pc = "out" /\ w.at = "frame" ELSE r.pc = "out"
TcpApart == IF use = "sendq" THEN r.pc = "out" ELSE w.pc = "out"

(* RingBuffer_drop_buffer in the TCP thread, after five seconds without a  *)
(* byte from the frontend and in every second without a connection: head.. *)
Drop ==
    /\ use \in {"sendq", "recvq"} /\ conn # "dropping" /\ TcpApart
    /\ head' = 0
    /\ conn' = "dropping"
    /\ reply' = Done(<<>>)
    /\ raced' = ~MainApart
    /\ IF MainApart
       THEN refused' = "no" /\ unsent' = FALSE /\ expect' = <<"high", 0>> /\ intact' = TRUE
       ELSE UNCHANGED <<refused, unsent, expect, intact>>
    /\ UNCHANGED <<tail, buf, use, w, r, stream>>

(* ... and tail.  The bytes on their way go with the connection. *)
Dropped ==
    /\ conn = "dropping"
    /\ tail' = 0
    /\ conn' = "down"
    /\ IF use = "recvq" THEN stream' = <<>> /\ w' = WIdle("frame") ELSE UNCHANGED <<stream, w>>
    /\ UNCHANGED <<head, buf, reply, use, r, expect, intact, refused, unsent, raced>>

(* accept. *)
Accept ==
    /\ use \in {"sendq", "recvq"} /\ conn = "down"
    /\ conn' = "up"
    /\ UNCHANGED <<head, tail, buf, reply, use, threads, stream, history>>

(* olsr_tx_msgbuf: one thread, whole calls. *)
OneThread ==
    /\ use = "olsr_tx_msgbuf"
    /\ \/ \E n \in Lengths : \E data \in [1..n -> {High, Body}] : Push(data)
       \/ \E n \in Lengths : Read(n) \/ Pop(n)
       \/ DropBuffer
    /\ UNCHANGED <<use, threads, stream, conn, history>>

ServerNext ==
    \/ \E len \in BodyLens : SendHeader(len) \/ FrontSends(len)
    \/ \E n \in 1..(IoSize - 1) : RecvChunk(n)
    \/ SendBody \/ WMeasure \/ WCont \/ WCopy \/ WAdd \/ WStore \/ WWrap
    \/ RStart \/ RMeasure \/ RCont \/ RCopy \/ RAdd \/ RStore \/ RWrap
    \/ Drop \/ Dropped \/ Accept
    \/ OneThread

ServerSpec == ServerInit /\ [][ServerNext]_svars
-----------------------------------------------------------------------------
(* Every memcpy of a push, a read or a pop stays inside buf, whatever the  *)
(* other thread does to head and tail between two accesses, a drop         *)
(* included.                                                               *)
NoOverrun ==
    /\ w.pc = "copy" => /\ tail + w.tmp <= Size + 1 \/ tail + Len(w.data) <= Size + 1
                        /\ Len(w.data) - w.tmp <= Size + 1
    /\ r.pc = "copy" => /\ head + r.tmp <= Size + 1 \/ head + r.n <= Size + 1
                        /\ r.n - r.tmp <= Size + 1
    /\ {head, tail} \subseteq 0..(Size + 1)
    /\ buf \in [Cell -> Byte]

(* Between the two stores of a drop the buffer counts as empty. *)
Queue == INSTANCE ByteQueue WITH queue <- IF conn = "dropping" THEN <<>> ELSE Contents

(* A step of the byte queue, with the caller's own bytes and length. *)
Answered ==
    \/ Queue!QPush(w.data) \/ Queue!QRead(r.n) \/ Queue!QPop(r.n) \/ Queue!QDrop
    \/ \E n \in Lengths : Queue!QRead(n) \/ Queue!QPop(n)
    \/ \E n \in Lengths : \E data \in [1..n -> {High, Body}] : Queue!QPush(data)

(* Two threads without a lock are safe as long as one pushes and the other *)
(* pops: every call that is served acts as one step of a byte queue, with  *)
(* the caller's own bytes and length, and a refused one does nothing.      *)
(* Two things break this, until the next drop that does not: a drop that   *)
(* meets the main thread at work, and a pop that empties the buffer and    *)
(* wraps head between the two stores of tail at the end of a push.         *)
ServedAsQueue == [][raced' \/ Answered]_<<Queue!qvars, raced>>

(* The frontend receives whole frames and nothing else, and so does        *)
(* handle_remote_conf_msg, as long as no call was refused, the socket took *)
(* all it was given and the threads did not race as said above.  (Each of  *)
(* them is enough to lose the framing: the two pushes of a frame are       *)
(* refused one by one, the bytes of a pop that was refused are sent all    *)
(* the same, and what send() does not take has left the buffer.)           *)
FramesUnlessRefused == ~raced /\ refused = "no" /\ ~unsent => intact
=============================================================================
