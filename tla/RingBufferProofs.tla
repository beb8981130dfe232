-------------------------- MODULE RingBufferProofs --------------------------
(***************************************************************************)
(* The ring buffer, for every buffer size, every set of bytes and every    *)
(* set of request lengths: used from one thread it implements the byte     *)
(* FIFO; shared by the two threads of the TCP server without a lock, no    *)
(* copy leaves it, and it still is a byte FIFO unless the threads race, so *)
(* that frames arrive whole unless a call was refused or a send was short. *)
(***************************************************************************)
EXTENDS SimServer, SequenceTheorems, WellFoundedInduction, TLAPS

(* An offset at most one past the last cell wraps to 0 or stays: the only  *)
(* case of % that RingBuffer_push and RingBuffer_pop meet.                 *)
LEMMA WrapOnce ==
    ASSUME NEW x \in 0..(Size + 1)
    PROVE  x % (Size + 1) = IF x = Size + 1 THEN 0 ELSE x
<1>1. Size + 1 \in Nat \ {0} /\ x \in Nat
  BY SizeAssumption
<1>2. CASE x = Size + 1
  BY <1>1, <1>2
<1>3. CASE x # Size + 1
  BY <1>1, <1>3
<1> QED BY <1>2, <1>3

(* The two size queries add up, and stay within the capacity. *)
LEMMA SizesAddUp ==
    ASSUME TypeOK
    PROVE  /\ Remain \in 0..Size /\ Readable \in 0..Size
           /\ Readable = IF head <= tail THEN tail - head ELSE tail + Size + 1 - head
BY SizeAssumption DEF TypeOK, Cell, Remain, Readable

(* The same after a step. *)
LEMMA SizesAddUpNext ==
    ASSUME TypeOK'
    PROVE  Readable' = IF head' <= tail' THEN tail' - head' ELSE tail' + Size + 1 - head'
<1>1. \A h, t \in 0..Size :
        Size - (IF h = t THEN Size ELSE IF h < t THEN Size - (t - h) ELSE h - t - 1)
          = IF h <= t THEN t - h ELSE t + Size + 1 - h
  BY SizeAssumption
<1>2. head' \in 0..Size /\ tail' \in 0..Size
  BY DEF TypeOK, Cell
<1> QED BY <1>1, <1>2, Zenon DEF Readable, Remain

(* The abstract contents form a sequence of Readable bytes. *)
LEMMA ContentsSeq ==
    ASSUME TypeOK
    PROVE  /\ Contents \in Seq(Byte) /\ Len(Contents) = Readable
           /\ \A k \in 1..Readable : Contents[k] = buf[Wrap(head + k - 1)]
<1>1. Readable \in Nat
  BY SizesAddUp
<1>2. \A k \in 1..Readable : Wrap(head + k - 1) \in Cell
  BY SizesAddUp, SizeAssumption DEF TypeOK, Cell, Wrap
<1>3. \A k \in 1..Readable : buf[Wrap(head + k - 1)] \in Byte
  BY <1>2 DEF TypeOK
<1> QED BY <1>1, <1>3 DEF Contents

(* What a copy out of the buffer delivers: a prefix of the contents. *)
LEMMA CopyOutIsPrefix ==
    ASSUME TypeOK, NEW n \in Nat, n <= Readable
    PROVE  CopyOut(n) = SubSeq(Contents, 1, n) /\ CopyOut(n) \in Seq(Byte)
<1>1. /\ head \in 0..Size /\ Size \in Nat /\ Readable \in 0..Size
      /\ \A i \in 0..Size : buf[i] \in Byte
  BY SizesAddUp, SizeAssumption DEF TypeOK, Cell
<1>2. \A k \in 1..n : CopyOut(n)[k] = buf[Wrap(head + k - 1)]
  BY <1>1 DEF CopyOut, Contiguous, Wrap
<1>3. \A k \in 1..n : Wrap(head + k - 1) \in 0..Size
  BY <1>1 DEF Wrap
<1>4. CopyOut(n) \in [1..n -> Byte]
  BY <1>1, <1>2, <1>3 DEF CopyOut
<1>5. CopyOut(n) \in Seq(Byte) /\ Len(CopyOut(n)) = n
  BY <1>4
<1>6. /\ SubSeq(Contents, 1, n) \in Seq(Byte) /\ Len(SubSeq(Contents, 1, n)) = n
      /\ \A k \in 1..n : SubSeq(Contents, 1, n)[k] = Contents[k]
  BY <1>1, ContentsSeq
<1>7. \A k \in 1..n : CopyOut(n)[k] = SubSeq(Contents, 1, n)[k]
  BY <1>1, <1>2, <1>6, ContentsSeq
<1> QED BY <1>5, <1>6, <1>7, SeqEqual

(* Where head goes: n cells on, around the edge. *)
LEMMA HeadAfterWraps ==
    ASSUME TypeOK, NEW n \in Nat, n <= Readable
    PROVE  HeadAfter(n) \in Cell /\ HeadAfter(n) = Wrap(head + n)
<1>1. head \in 0..Size /\ Size \in Nat /\ n \in 0..Size
  BY SizesAddUp, SizeAssumption DEF TypeOK, Cell
<1>2. CASE Contiguous(head) < n
  BY <1>1, <1>2 DEF HeadAfter, Contiguous, Wrap, Cell
<1>3. CASE ~ (Contiguous(head) < n)
  <2>1. head + n \in 0..(Size + 1)
    BY <1>1, <1>3 DEF Contiguous
  <2>2. (head + n) % (Size + 1) = IF head + n = Size + 1 THEN 0 ELSE head + n
    BY <2>1, WrapOnce
  <2> QED BY <1>1, <1>3, <2>1, <2>2 DEF HeadAfter, Wrap, Cell
<1> QED BY <1>2, <1>3

(* A push that fits moves tail Len(data) cells on around the edge, fills   *)
(* the cells on the way with data and leaves the used ones alone.          *)
LEMMA PushFills ==
    ASSUME TypeOK, NEW data \in Seq(Byte), Push(data), Len(data) <= Remain
    PROVE  /\ tail' = Wrap(tail + Len(data)) /\ tail' \in Cell
           /\ buf' \in [Cell -> Byte]
           /\ \A k \in 1..Len(data) : buf'[Wrap(tail + k - 1)] = data[k]
           /\ \A k \in 1..Readable : buf'[Wrap(head + k - 1)] = buf[Wrap(head + k - 1)]
           /\ head' = head /\ reply' = Done(<<>>)
<1> DEFINE len == Len(data)
           cont == Contiguous(tail)
<1>1. /\ head \in 0..Size /\ tail \in 0..Size /\ Size \in Nat /\ len \in Nat
      /\ buf \in [0..Size -> Byte] /\ cont = Size - tail + 1
      /\ Readable = (IF head <= tail THEN tail - head ELSE tail + Size + 1 - head)
      /\ Remain = Size - Readable /\ len <= Remain
      /\ \A k \in 1..len : data[k] \in Byte
  BY SizesAddUp, SizeAssumption DEF TypeOK, Cell, Contiguous, Readable
<1>2. head' = head /\ reply' = Done(<<>>)
  BY <1>1 DEF Push
<1>3. CASE cont < len
  <2>1. /\ tail' = len - cont
        /\ buf' = [i \in Cell |-> IF i < len - cont THEN data[cont + i + 1]
                                  ELSE IF i >= tail THEN data[i - tail + 1]
                                  ELSE buf[i]]
    BY <1>1, <1>3 DEF Push
  <2> HIDE DEF len, cont
  <2>2. tail' = Wrap(tail + len) /\ tail' \in Cell
    BY <1>1, <1>3, <2>1 DEF Wrap, Cell
  <2>3. \A k \in 1..len : buf'[Wrap(tail + k - 1)] = data[k]
    <3> SUFFICES ASSUME NEW k \in 1..len PROVE buf'[Wrap(tail + k - 1)] = data[k]
      OBVIOUS
    <3>1. CASE tail + k - 1 <= Size
      <4>1. Wrap(tail + k - 1) = tail + k - 1 /\ tail + k - 1 \in Cell
        BY <1>1, <3>1 DEF Wrap, Cell
      <4>2. ~ (tail + k - 1 < len - cont) /\ tail + k - 1 >= tail /\ (tail + k - 1) - tail + 1 = k
        BY <1>1, <1>3, <3>1
      <4> QED BY <2>1, <4>1, <4>2
    <3>2. CASE ~ (tail + k - 1 <= Size)
      <4> DEFINE i == tail + k - 1 - (Size + 1)
      <4>1. Wrap(tail + k - 1) = i /\ i \in Cell
        BY <1>1, <1>3, <3>2 DEF Wrap, Cell
      <4>2. i < len - cont /\ cont + i + 1 = k
        BY <1>1, <1>3, <3>2
      <4> HIDE DEF i
      <4> QED BY <2>1, <4>1, <4>2
    <3> QED BY <3>1, <3>2
  <2>4. \A k \in 1..Readable : buf'[Wrap(head + k - 1)] = buf[Wrap(head + k - 1)]
    <3> SUFFICES ASSUME NEW k \in 1..Readable
                 PROVE  buf'[Wrap(head + k - 1)] = buf[Wrap(head + k - 1)]
      OBVIOUS
    <3> DEFINE i == Wrap(head + k - 1)
    <3>1. i \in Cell /\ ~ (i < len - cont) /\ ~ (i >= tail)
      BY <1>1, <1>3 DEF Wrap, Cell
    <3> HIDE DEF i
    <3> QED BY <2>1, <3>1 DEF i
  <2>5. buf' \in [Cell -> Byte]
    <3>1. \A i \in Cell : /\ i < len - cont => cont + i + 1 \in 1..len
                          /\ i >= tail => i - tail + 1 \in 1..len
      BY <1>1, <1>3 DEF Cell
    <3> QED BY <1>1, <2>1, <3>1 DEF Cell
  <2> QED BY <1>2, <2>2, <2>3, <2>4, <2>5 DEF len
<1>4. CASE ~ (cont < len)
  <2>1. /\ tail' = (tail + len) % (Size + 1)
        /\ buf' = [i \in Cell |-> IF i >= tail /\ i < tail + len
                                  THEN data[i - tail + 1] ELSE buf[i]]
    BY <1>1, <1>4 DEF Push
  <2> HIDE DEF len, cont
  <2>2. tail + len \in 0..(Size + 1)
    BY <1>1, <1>4
  <2>3. (tail + len) % (Size + 1) = IF tail + len = Size + 1 THEN 0 ELSE tail + len
    BY <2>2, WrapOnce
  <2>4. tail' = Wrap(tail + len) /\ tail' \in Cell
    BY <1>1, <2>1, <2>2, <2>3 DEF Wrap, Cell
  <2>5. \A k \in 1..len : buf'[Wrap(tail + k - 1)] = data[k]
    <3> SUFFICES ASSUME NEW k \in 1..len PROVE buf'[Wrap(tail + k - 1)] = data[k]
      OBVIOUS
    <3>1. Wrap(tail + k - 1) = tail + k - 1 /\ tail + k - 1 \in Cell
      BY <1>1, <2>2 DEF Wrap, Cell
    <3>2. /\ tail + k - 1 >= tail /\ tail + k - 1 < tail + len
          /\ (tail + k - 1) - tail + 1 = k
      BY <1>1
    <3> QED BY <2>1, <3>1, <3>2
  <2>6. \A k \in 1..Readable : buf'[Wrap(head + k - 1)] = buf[Wrap(head + k - 1)]
    <3> SUFFICES ASSUME NEW k \in 1..Readable
                 PROVE  buf'[Wrap(head + k - 1)] = buf[Wrap(head + k - 1)]
      OBVIOUS
    <3> DEFINE i == Wrap(head + k - 1)
    <3>1. i \in Cell /\ ~ (i >= tail /\ i < tail + len)
      BY <1>1, <2>2 DEF Wrap, Cell
    <3> HIDE DEF i
    <3> QED BY <2>1, <3>1 DEF i
  <2>7. buf' \in [Cell -> Byte]
    <3>1. \A i \in Cell : i >= tail /\ i < tail + len => i - tail + 1 \in 1..len
      BY <1>1 DEF Cell
    <3> QED BY <1>1, <2>1, <3>1 DEF Cell
  <2> QED BY <1>2, <2>4, <2>5, <2>6, <2>7 DEF len
<1> QED BY <1>3, <1>4

(* Data of a push request is a sequence of bytes. *)
LEMMA RequestIsSeq ==
    ASSUME NEW n \in Lengths, NEW data \in [1..n -> Byte]
    PROVE  data \in Seq(Byte) /\ Len(data) = n /\ n \in Nat
BY SizeAssumption

(* Every result of a call is a reply. *)
LEMMA ReplyTypes ==
    /\ Done(<<>>) \in Reply /\ Fail("full") \in Reply /\ Fail("not_enough") \in Reply
    /\ \A data \in Seq(Byte) : Done(data) \in Reply
BY DEF Done, Fail, Reply

(* No call moves an offset out of the buffer. *)
LEMMA StepKeepsTypes ==
    ASSUME TypeOK, [Next]_vars
    PROVE  TypeOK'
<1>1. ASSUME NEW n \in Lengths, NEW data \in [1..n -> Byte], Push(data) PROVE TypeOK'
  <2>1. data \in Seq(Byte) /\ Len(data) \in Nat /\ Remain \in Nat
    BY RequestIsSeq, SizesAddUp
  <2>2. CASE Len(data) > Remain
    <3>1. reply' = Fail("full") /\ UNCHANGED <<head, tail, buf>>
      BY <1>1, <2>2 DEF Push
    <3> QED BY <3>1, ReplyTypes DEF TypeOK
  <2>3. CASE Len(data) <= Remain
    <3>1. tail' \in Cell /\ buf' \in [Cell -> Byte] /\ head' = head /\ reply' = Done(<<>>)
      BY <1>1, <2>1, <2>3, PushFills
    <3> QED BY <3>1, ReplyTypes DEF TypeOK
  <2> QED BY <2>1, <2>2, <2>3
<1>2. ASSUME NEW n \in Lengths, Read(n) \/ Pop(n) PROVE TypeOK'
  <2>1. n \in Nat /\ Readable \in Nat
    BY SizesAddUp, SizeAssumption
  <2>2. CASE n > Readable
    <3>1. reply' = Fail("not_enough") /\ UNCHANGED <<head, tail, buf>>
      BY <1>2, <2>2 DEF Read, Pop
    <3> QED BY <3>1, ReplyTypes DEF TypeOK
  <2>3. CASE n <= Readable
    <3>1. CopyOut(n) \in Seq(Byte) /\ HeadAfter(n) \in Cell
      BY <2>1, <2>3, CopyOutIsPrefix, HeadAfterWraps
    <3>2. /\ reply' = Done(CopyOut(n)) /\ UNCHANGED <<tail, buf>>
          /\ head' = head \/ head' = HeadAfter(n)
      BY <1>2, <2>1, <2>3 DEF Read, Pop
    <3> QED BY <3>1, <3>2, ReplyTypes DEF TypeOK
  <2> QED BY <2>1, <2>2, <2>3
<1>3. CASE DropBuffer
  BY <1>3, ReplyTypes, SizeAssumption DEF DropBuffer, TypeOK, Cell
<1>4. CASE UNCHANGED vars
  BY <1>4 DEF vars, TypeOK
<1> QED BY <1>1, <1>2, <1>3, <1>4 DEF Next

(* No offset leaves the buffer: every memcpy of ringbuffer.c is in bounds. *)
THEOREM OffsetsInBounds == Spec => []TypeOK
<1>1. Init => TypeOK
  BY ReplyTypes, SizeAssumption DEF Init, TypeOK, Cell
<1>2. TypeOK /\ [Next]_vars => TypeOK'
  BY StepKeepsTypes
<1> QED BY <1>1, <1>2, PTL DEF Spec

(* Moving the tail on by l cells, around the end of the buffer if need be, *)
(* moves it l cells further from the head.                                 *)
LEMMA WrappedDistance ==
    ASSUME NEW S \in Nat, NEW h \in 0..S, NEW t \in 0..S, NEW l \in Nat, NEW t2,
           t2 = (IF t + l <= S THEN t + l ELSE t + l - (S + 1)),
           l <= S - (IF h <= t THEN t - h ELSE t + S + 1 - h)
    PROVE  (IF h <= t2 THEN t2 - h ELSE t2 + S + 1 - h)
             = (IF h <= t THEN t - h ELSE t + S + 1 - h) + l
OBVIOUS

(* A push that fits appends its data to the contents. *)
LEMMA PushAppends ==
    ASSUME TypeOK, TypeOK', NEW data \in Seq(Byte), Push(data), Len(data) <= Remain
    PROVE  Contents' = Contents \o data
<1> DEFINE len == Len(data)
<1>1. /\ head \in 0..Size /\ tail \in 0..Size /\ Size \in Nat /\ len \in Nat
      /\ Readable = (IF head <= tail THEN tail - head ELSE tail + Size + 1 - head)
      /\ Remain = Size - Readable /\ len <= Remain
  BY SizesAddUp, SizeAssumption DEF TypeOK, Cell, Readable
<1>2. /\ tail' = Wrap(tail + len) /\ head' = head
      /\ \A k \in 1..len : buf'[Wrap(tail + k - 1)] = data[k]
      /\ \A k \in 1..Readable : buf'[Wrap(head + k - 1)] = buf[Wrap(head + k - 1)]
  BY PushFills
<1>3. Readable' = IF head' <= tail' THEN tail' - head' ELSE tail' + Size + 1 - head'
  BY SizesAddUpNext
<1>4. Readable' = Readable + len
  <2>1. head' = head /\ tail' = Wrap(tail + len)
    BY <1>2
  <2>2. tail' = IF tail + len <= Size THEN tail + len ELSE tail + len - (Size + 1)
    BY <1>1, <2>1 DEF Wrap
  <2>3. len <= Size - (IF head <= tail THEN tail - head ELSE tail + Size + 1 - head)
    BY <1>1
  <2>4. (IF head <= tail' THEN tail' - head ELSE tail' + Size + 1 - head)
          = (IF head <= tail THEN tail - head ELSE tail + Size + 1 - head) + len
    <3> HIDE DEF len
    <3> QED BY <1>1, <2>2, <2>3, WrappedDistance
  <2> QED BY <1>1, <1>3, <2>1, <2>4
<1>5. /\ Contents' \in Seq(Byte) /\ Len(Contents') = Readable'
      /\ \A k \in 1..Readable' : Contents'[k] = buf'[Wrap(head' + k - 1)]
  <2>1. Readable' \in Nat
    BY <1>1, <1>4
  <2>2. \A k \in 1..Readable' : Wrap(head' + k - 1) \in Cell
    BY <1>1, <1>2, <1>4 DEF Wrap, Cell
  <2>3. \A k \in 1..Readable' : buf'[Wrap(head' + k - 1)] \in Byte
    BY <2>2 DEF TypeOK
  <2>4. Contents' = [k \in 1..Readable' |-> buf'[Wrap(head' + k - 1)]]
    BY DEF Contents, Wrap
  <2> QED BY <2>1, <2>3, <2>4
<1>6. /\ Contents \o data \in Seq(Byte) /\ Len(Contents \o data) = Readable + len
      /\ \A k \in 1..Readable : (Contents \o data)[k] = Contents[k]
      /\ \A k \in (Readable + 1)..(Readable + len) : (Contents \o data)[k] = data[k - Readable]
  <2>1. Contents \in Seq(Byte) /\ Len(Contents) = Readable /\ Readable \in Nat
    BY <1>1, ContentsSeq, SizesAddUp
  <2>2. /\ Contents \o data \in Seq(Byte) /\ Len(Contents \o data) = Len(Contents) + Len(data)
        /\ \A k \in 1..(Len(Contents) + Len(data)) :
              (Contents \o data)[k] = IF k <= Len(Contents) THEN Contents[k]
                                      ELSE data[k - Len(Contents)]
    BY <2>1, ConcatProperties
  <2> QED BY <1>1, <2>1, <2>2, SMTT(30)
<1>7. ASSUME NEW k \in 1..(Readable + len) PROVE Contents'[k] = (Contents \o data)[k]
  <2>1. CASE k <= Readable
    <3>1. k \in 1..Readable
      BY <1>1, <2>1
    <3>2. Contents[k] = buf[Wrap(head + k - 1)]
      BY <3>1, ContentsSeq
    <3> QED BY <1>2, <1>4, <1>5, <1>6, <3>1, <3>2
  <2>2. CASE k > Readable
    <3> DEFINE j == k - Readable
    <3>1. j \in 1..len /\ k \in (Readable + 1)..(Readable + len)
      BY <1>1, <2>2
    <3>2. Wrap(head + k - 1) = Wrap(tail + j - 1)
      BY <1>1, <3>1 DEF Wrap
    <3> QED BY <1>2, <1>4, <1>5, <1>6, <3>1, <3>2
  <2>3. k <= Readable \/ k > Readable
    BY <1>1
  <2> QED BY <2>1, <2>2, <2>3, Zenon
<1> HIDE DEF len
<1> QED BY <1>4, <1>5, <1>6, <1>7, SeqEqual

(* A pop removes the bytes it delivers from the front of the contents. *)
LEMMA PopShortens ==
    ASSUME TypeOK, TypeOK', NEW n \in Nat, n <= Readable,
           head' = HeadAfter(n), UNCHANGED <<tail, buf>>
    PROVE  Contents' = SubSeq(Contents, n + 1, Len(Contents))
<1>1. /\ head \in 0..Size /\ tail \in 0..Size /\ Size \in Nat
      /\ Readable = (IF head <= tail THEN tail - head ELSE tail + Size + 1 - head)
      /\ head' = Wrap(head + n)
  BY SizesAddUp, HeadAfterWraps, SizeAssumption DEF TypeOK, Cell
<1>2. Readable' = IF head' <= tail' THEN tail' - head' ELSE tail' + Size + 1 - head'
  BY SizesAddUp, SizeAssumption DEF TypeOK, Cell, Readable, Remain
<1>3. Readable' = Readable - n
  BY <1>1, <1>2 DEF Wrap
<1>4. \A k \in 1..(Readable - n) : Wrap(head' + k - 1) = Wrap(head + (n + k) - 1)
  BY <1>1 DEF Wrap
<1>5. Contents' = [k \in 1..(Readable - n) |-> buf[Wrap(head + (n + k) - 1)]]
  BY <1>3, <1>4 DEF Contents, Wrap
<1>6. \A k \in 1..(Readable - n) : Contents[n + k] = buf[Wrap(head + (n + k) - 1)]
  BY <1>1, ContentsSeq
<1>7. Contents' = [k \in 1..(Readable - n) |-> Contents[n + k]]
  BY <1>5, <1>6
<1>8. Len(Contents) = Readable /\ Readable \in Nat /\ Contents \in Seq(Byte)
  BY ContentsSeq, SizesAddUp
<1>9. /\ SubSeq(Contents, n + 1, Len(Contents)) \in Seq(Byte)
      /\ Len(SubSeq(Contents, n + 1, Len(Contents))) = Readable - n
      /\ \A k \in 1..(Readable - n) :
            SubSeq(Contents, n + 1, Len(Contents))[k] = Contents[n + k]
  BY <1>8
<1>10. Contents' \in Seq(Byte) /\ Len(Contents') = Readable - n
  <2>1. \A k \in 1..(Readable - n) : Contents[n + k] \in Byte
    BY <1>8
  <2> QED BY <1>7, <1>8, <2>1
<1>11. \A k \in 1..(Readable - n) :
          Contents'[k] = SubSeq(Contents, n + 1, Len(Contents))[k]
  BY <1>7, <1>9
<1> QED BY <1>9, <1>10, <1>11, SeqEqual

(* Every call of the ring buffer is a call of the byte FIFO with the same  *)
(* reply.                                                                  *)
LEMMA CallIsQueueCall ==
    ASSUME TypeOK, TypeOK'
    PROVE  /\ \A n \in Lengths : \A data \in [1..n -> Byte] : Push(data) => Promise!QPush(data)
           /\ \A n \in Lengths : (Read(n) => Promise!QRead(n)) /\ (Pop(n) => Promise!QPop(n))
           /\ DropBuffer => Promise!QDrop
<1>0. Readable \in Nat /\ Remain \in Nat /\ Remain = Size - Readable /\ Size \in Nat
  BY SizesAddUp, SizeAssumption DEF Readable
<1>1. ASSUME NEW n \in Lengths, NEW data \in [1..n -> Byte], Push(data)
      PROVE  Promise!QPush(data)
  <2>1. data \in Seq(Byte) /\ Len(data) \in Nat /\ Len(Contents) = Readable
    BY RequestIsSeq, ContentsSeq
  <2>2. CASE Len(data) > Remain
    <3>1. reply' = Fail("full") /\ UNCHANGED <<head, tail, buf>>
      BY <1>1, <2>2 DEF Push
    <3>2. Contents' = Contents
      BY <3>1 DEF Contents, Readable, Remain, Wrap
    <3>3. ~ (Len(Contents) + Len(data) <= Size)
      BY <1>0, <2>1, <2>2
    <3> QED BY <3>1, <3>2, <3>3 DEF Promise!QPush, Promise!Refused, Fail
  <2>3. CASE Len(data) <= Remain
    <3>1. Contents' = Contents \o data
      BY <1>1, <2>1, <2>3, PushAppends
    <3>2. reply' = Done(<<>>)
      BY <1>1, <2>1, <2>3, PushFills
    <3>3. Len(Contents) + Len(data) <= Size
      BY <1>0, <2>1, <2>3
    <3> QED BY <3>1, <3>2, <3>3 DEF Promise!QPush, Promise!Served, Done
  <2> QED BY <1>0, <2>1, <2>2, <2>3
<1>2. ASSUME NEW n \in Lengths, Read(n) PROVE Promise!QRead(n)
  <2>1. n \in Nat /\ Len(Contents) = Readable
    BY ContentsSeq, SizeAssumption
  <2>2. Contents' = Contents
    BY <1>2 DEF Read, Contents, Readable, Remain, Wrap
  <2>3. CASE n > Readable
    BY <1>0, <1>2, <2>1, <2>2, <2>3 DEF Read, Promise!QRead, Promise!Refused, Fail
  <2>4. CASE n <= Readable
    <3>1. CopyOut(n) = SubSeq(Contents, 1, n)
      BY <2>1, <2>4, CopyOutIsPrefix
    <3> QED BY <1>0, <1>2, <2>1, <2>2, <2>4, <3>1 DEF Read, Promise!QRead, Promise!Served, Done
  <2> QED BY <1>0, <2>1, <2>3, <2>4
<1>3. ASSUME NEW n \in Lengths, Pop(n) PROVE Promise!QPop(n)
  <2>1. n \in Nat /\ Len(Contents) = Readable
    BY ContentsSeq, SizeAssumption
  <2>2. CASE n > Readable
    <3>1. Contents' = Contents
      BY <1>3, <2>2 DEF Pop, Contents, Readable, Remain, Wrap
    <3> QED BY <1>0, <1>3, <2>1, <2>2, <3>1 DEF Pop, Promise!QPop, Promise!Refused, Fail
  <2>3. CASE n <= Readable
    <3>1. head' = HeadAfter(n) /\ reply' = Done(CopyOut(n)) /\ UNCHANGED <<tail, buf>>
      BY <1>0, <1>3, <2>1, <2>3 DEF Pop
    <3>2. CopyOut(n) = SubSeq(Contents, 1, n)
      BY <2>1, <2>3, CopyOutIsPrefix
    <3>3. Contents' = SubSeq(Contents, n + 1, Len(Contents))
      BY <2>1, <2>3, <3>1, PopShortens
    <3> QED BY <2>1, <2>3, <3>1, <3>2, <3>3 DEF Promise!QPop, Promise!Served, Done
  <2> QED BY <1>0, <2>1, <2>2, <2>3
<1>4. ASSUME DropBuffer PROVE Promise!QDrop
  <2>1. Readable' = 0
    BY <1>0, <1>4 DEF DropBuffer, Readable, Remain
  <2>2. Contents' = <<>>
    BY <2>1 DEF Contents
  <2> QED BY <1>4, <2>2 DEF DropBuffer, Promise!QDrop, Promise!Served, Done
<1> QED BY <1>1, <1>2, <1>3, <1>4

(* So is every step. *)
LEMMA StepIsQueueStep ==
    ASSUME TypeOK, TypeOK', [Next]_vars
    PROVE  [Promise!QNext]_(Promise!qvars)
<1>1. ASSUME UNCHANGED vars PROVE UNCHANGED Promise!qvars
  BY <1>1 DEF vars, Promise!qvars, Contents, Readable, Remain, Wrap
<1> QED BY <1>1, CallIsQueueCall DEF Next, Promise!QNext

(* RingBuffer implements the bounded byte FIFO: bytes come out as they     *)
(* went in, across the edge of the buffer too, and a refused request       *)
(* leaves the contents alone.                                              *)
THEOREM RingBufferIsByteQueue == Spec => IsByteQueue
<1>1. Init => Promise!QInit
  <2> SUFFICES ASSUME Init PROVE Promise!QInit
    OBVIOUS
  <2>1. Readable = 0
    BY SizeAssumption DEF Init, Readable, Remain
  <2>2. Contents = <<>>
    BY <2>1 DEF Contents
  <2> QED BY <2>2 DEF Init, Promise!QInit, Promise!Served, Done
<1>2. TypeOK /\ TypeOK' /\ [Next]_vars => [Promise!QNext]_(Promise!qvars)
  BY StepIsQueueStep
<1> QED BY <1>1, <1>2, OffsetsInBounds, PTL DEF Spec, IsByteQueue, Promise!QSpec
-----------------------------------------------------------------------------
(* Two threads, SimServer.  What a thread in a call keeps about the offset *)
(* that it moves, len bytes being asked for: the other thread may store to *)
(* the other offset at any time, and a drop sets this one to 0.            *)
InCall(pc, len, tmp, offset) ==
    /\ pc = "cont" => len <= 2 * (Size + 1) - offset
    /\ pc \in {"copy", "add"} => /\ tmp >= 0 /\ offset + tmp <= Size + 1
                                 /\ len - tmp <= Size + 1
    /\ pc \in {"store", "last"} => tmp \in 0..(Size + 1)

Measuring == {"eq", "lt", "below", "above"}
Moving == {"add", "store", "last", "wrap"}
Serving == {"cont", "copy"} \cup Moving

Writer == [at : {"frame", "header", "body", "rest"},
           pc : {"out"} \cup Measuring \cup Serving, data : Seq(Byte), tmp : Int]
Reader == [at : {"loop", "readable", "pop", "peek", "header", "json"},
           pc : {"out"} \cup Measuring \cup Serving, n : Nat, tmp : Int,
           out : Seq(Byte), canread : Nat]

WriterInv ==
    /\ w \in Writer
    /\ InCall(w.pc, Len(w.data), w.tmp, tail)

ReaderInv ==
    /\ r \in Reader
    /\ r.pc \in Measuring => r.at # "loop"
    /\ r.pc \in Serving => r.at \notin {"loop", "readable"}
    /\ r.pc \in Moving => r.at # "peek"
    /\ r.at = "peek" => r.n = 2
    /\ InCall(r.pc, r.n, r.tmp, head)

SharedInv ==
    /\ head \in 0..(Size + 1) /\ tail \in 0..(Size + 1)
    /\ buf \in [Cell -> Byte]
    /\ stream \in Seq(Byte)
    /\ use = "olsr_tx_msgbuf" =>
          TypeOK /\ conn # "dropping" /\ w.pc = "out" /\ r.pc = "out"

ServerInv == SharedInv /\ WriterInv /\ ReaderInv

(* RingBuffer_get_remain_bufsize, torn apart by the other thread: its      *)
(* result may be wrong, even negative, but never far enough for a copy     *)
(* that starts at the current offset to go round twice.                    *)
LEMMA MeasuredBounds ==
    ASSUME head \in 0..(Size + 1), tail \in 0..(Size + 1), NEW pc \in Measuring,
           NEW m, m = Measured(pc)
    PROVE  /\ m.pc \in Measuring \cup {"got"} /\ m.remain \in Int
           /\ m.pc = "got" => /\ m.remain <= 2 * (Size + 1) - tail
                              /\ Size - m.remain <= 2 * (Size + 1) - head
<1>1. Size \in Nat /\ head \in Nat /\ tail \in Nat /\ head <= Size + 1 /\ tail <= Size + 1
  BY SizeAssumption
<1>2. CASE pc = "eq"
  <2>1. m = IF head = tail THEN [pc |-> "got", remain |-> Size] ELSE [pc |-> "lt", remain |-> 0]
    BY <1>2 DEF Measured
  <2> QED BY <1>1, <2>1 DEF Measuring
<1>3. CASE pc = "lt"
  <2>1. m = [pc |-> IF head < tail THEN "below" ELSE "above", remain |-> 0]
    BY <1>3 DEF Measured
  <2> QED BY <1>1, <2>1 DEF Measuring
<1>4. CASE pc = "below"
  <2>1. m = [pc |-> "got", remain |-> Size - (tail - head)]
    BY <1>4 DEF Measured
  <2> QED BY <1>1, <2>1 DEF Measuring
<1>5. CASE pc = "above"
  <2>1. m = [pc |-> "got", remain |-> head - tail - 1]
    BY <1>5 DEF Measured
  <2> QED BY <1>1, <2>1 DEF Measuring
<1> QED BY <1>2, <1>3, <1>4, <1>5 DEF Measuring

(* RingBuffer_drop_buffer under a thread in a call. *)
LEMMA DropInCall ==
    ASSUME NEW pc, NEW len \in Nat, NEW tmp \in Int, NEW offset \in 0..(Size + 1),
           InCall(pc, len, tmp, offset)
    PROVE  InCall(pc, len, tmp, 0)
BY SizeAssumption DEF InCall

(* The steps of a call, from the offset to what is stored to it. *)
LEMMA CallSteps ==
    ASSUME NEW len \in Nat, NEW tmp \in Int, NEW offset \in 0..(Size + 1)
    PROVE  /\ InCall("cont", len, tmp, offset) =>
                 InCall("copy", len, Contiguous(offset), offset) /\ Contiguous(offset) \in Int
           /\ InCall("copy", len, tmp, offset) => InCall("add", len, tmp, offset)
           /\ InCall("add", len, tmp, offset) /\ tmp < len =>
                 InCall("last", len, len - tmp, offset) /\ len - tmp \in Int
           /\ InCall("add", len, tmp, offset) /\ ~(tmp < len) =>
                 InCall("store", len, offset + len, offset) /\ offset + len \in Int
           /\ InCall("store", len, tmp, offset) \/ InCall("last", len, tmp, offset) =>
                 tmp \in 0..(Size + 1)
           /\ \A pc \in Measuring \cup {"out", "wrap"} : \A o : InCall(pc, len, tmp, o)
<1>1. Size \in Nat /\ offset \in Nat /\ offset <= Size + 1
  BY SizeAssumption
<1>2. InCall("cont", len, tmp, offset) =>
         InCall("copy", len, Contiguous(offset), offset) /\ Contiguous(offset) \in Int
  BY <1>1 DEF InCall, Contiguous
<1>3. InCall("copy", len, tmp, offset) => InCall("add", len, tmp, offset)
  BY DEF InCall
<1>4. InCall("add", len, tmp, offset) /\ tmp < len =>
         InCall("last", len, len - tmp, offset) /\ len - tmp \in Int
  BY <1>1 DEF InCall
<1>5. InCall("add", len, tmp, offset) /\ ~(tmp < len) =>
         InCall("store", len, offset + len, offset) /\ offset + len \in Int
  BY <1>1 DEF InCall
<1>6. InCall("store", len, tmp, offset) \/ InCall("last", len, tmp, offset) =>
         tmp \in 0..(Size + 1)
  BY DEF InCall
<1>7. \A pc \in Measuring \cup {"out", "wrap"} : \A o : InCall(pc, len, tmp, o)
  BY DEF InCall, Measuring
<1> QED BY <1>2, <1>3, <1>4, <1>5, <1>6, <1>7

(* The memcpys of a push put bytes into cells of the buffer. *)
LEMMA CopiedInType ==
    ASSUME NEW data \in Seq(Byte), NEW cont \in Nat, tail \in Nat, buf \in [Cell -> Byte]
    PROVE  CopiedIn(data, cont) \in [Cell -> Byte]
<1>1. Len(data) \in Nat /\ \A k \in 1..Len(data) : data[k] \in Byte
  OBVIOUS
<1>2. ASSUME NEW i \in Cell, i < Len(data) - cont
      PROVE  data[cont + i + 1] \in Byte
  <2>1. cont + i + 1 \in 1..Len(data)
    BY <1>1, <1>2, SizeAssumption DEF Cell
  <2> QED BY <1>1, <2>1
<1>3. ASSUME NEW i \in Cell, i >= tail, i < tail + Len(data)
      PROVE  data[i - tail + 1] \in Byte
  <2>1. i - tail + 1 \in 1..Len(data)
    BY <1>1, <1>3, SizeAssumption DEF Cell
  <2> QED BY <1>1, <2>1
<1> QED BY <1>2, <1>3 DEF CopiedIn

(* The memcpys of a read or a pop take bytes from cells of the buffer. *)
LEMMA CopiedOutType ==
    ASSUME NEW n \in Nat, NEW cont \in Int, head \in 0..(Size + 1), buf \in [Cell -> Byte],
           InCall("copy", n, cont, head)
    PROVE  CopiedOut(n, cont) \in Seq(Byte) /\ DOMAIN CopiedOut(n, cont) = 1..n
<1>1. /\ Size \in Nat /\ head \in Nat /\ cont >= 0 /\ head + cont <= Size + 1
      /\ n - cont <= Size + 1
  BY SizeAssumption DEF InCall
<1>2. ASSUME NEW k \in 1..n
      PROVE  (IF k <= cont THEN buf[head + k - 1] ELSE buf[k - cont - 1]) \in Byte
  <2>1. k <= cont => head + k - 1 \in Cell
    BY <1>1 DEF Cell
  <2>2. ~(k <= cont) => k - cont - 1 \in Cell
    BY <1>1 DEF Cell
  <2> QED BY <2>1, <2>2
<1>3. CopiedOut(n, cont) \in [1..n -> Byte]
  BY <1>2 DEF CopiedOut
<1> QED BY <1>3

(* A step of the writing thread leaves the reading thread's part alone. *)
LEMMA WriterStep ==
    ASSUME ServerInv, use \in {"sendq", "recvq"}, UNCHANGED <<use, head, r>>,
           tail' \in 0..(Size + 1), buf' \in [Cell -> Byte], stream' \in Seq(Byte), WriterInv'
    PROVE  ServerInv'
BY DEF ServerInv, SharedInv, ReaderInv

(* RingBuffer_push: sizes, then the copy. *)
LEMMA PushSteps ==
    ASSUME ServerInv, WMeasure \/ WCont \/ WCopy
    PROVE  ServerInv'
<1>1. /\ use \in {"sendq", "recvq"} /\ UNCHANGED <<use, head, tail, r, stream>>
  BY DEF WMeasure, WCont, WCopy, Turn
<1>2. /\ head \in 0..(Size + 1) /\ tail \in 0..(Size + 1) /\ buf \in [Cell -> Byte]
      /\ stream \in Seq(Byte) /\ Len(w.data) \in Nat /\ w.tmp \in Int /\ w.data \in Seq(Byte)
      /\ w \in Writer
      /\ InCall(w.pc, Len(w.data), w.tmp, tail)
  BY DEF ServerInv, SharedInv, WriterInv, Writer
<1>3. CASE WMeasure
  <2>1. PICK m : m = Measured(w.pc)
    OBVIOUS
  <2>2. /\ w.pc \in Measuring /\ UNCHANGED buf
        /\ IF m.pc = "got" /\ Len(w.data) > m.remain THEN WReturn
           ELSE w' = [w EXCEPT !.pc = IF m.pc = "got" THEN "cont" ELSE m.pc]
    BY <1>3, <2>1 DEF WMeasure, Measuring
  <2>3. /\ m.pc \in Measuring \cup {"got"} /\ m.remain \in Int
        /\ m.pc = "got" => m.remain <= 2 * (Size + 1) - tail
    BY <1>2, <2>1, <2>2, MeasuredBounds
  <2>4. CASE m.pc = "got" /\ Len(w.data) > m.remain
    <3>1. w' = WIdle(IF w.at = "header" THEN "body" ELSE "frame")
      BY <2>2, <2>4 DEF WReturn
    <3>2. WriterInv'
      BY <3>1 DEF WIdle, WriterInv, Writer, InCall
    <3> QED BY <1>1, <1>2, <2>2, <3>2, WriterStep
  <2>5. CASE m.pc = "got" /\ ~(Len(w.data) > m.remain)
    <3>1. w' = [w EXCEPT !.pc = "cont"]
      BY <2>2, <2>5
    <3>2. /\ w' \in Writer
          /\ w'.pc = "cont" /\ w'.data = w.data /\ w'.tmp = w.tmp
      BY <1>2, <3>1 DEF Writer, Serving, Moving
    <3>3. Len(w.data) <= 2 * (Size + 1) - tail
      BY <1>2, <2>3, <2>5, SizeAssumption
    <3>4. InCall("cont", Len(w.data), w.tmp, tail)
      BY <3>3 DEF InCall
    <3>5. WriterInv'
      BY <1>1, <3>2, <3>4 DEF WriterInv
    <3> QED BY <1>1, <1>2, <2>2, <3>5, WriterStep
  <2>6. CASE m.pc \in Measuring
    <3>1. w' = [w EXCEPT !.pc = m.pc]
      BY <2>2, <2>6 DEF Measuring
    <3>2. /\ w' \in Writer
          /\ w'.pc = m.pc /\ w'.data = w.data /\ w'.tmp = w.tmp
      BY <1>2, <2>6, <3>1 DEF Writer
    <3>3. InCall(m.pc, Len(w.data), w.tmp, tail)
      BY <2>6, <1>2, CallSteps
    <3>4. WriterInv'
      BY <1>1, <3>2, <3>3 DEF WriterInv
    <3> QED BY <1>1, <1>2, <2>2, <3>4, WriterStep
  <2> QED BY <2>3, <2>4, <2>5, <2>6
<1>4. CASE WCont
  <2>1. /\ w.pc = "cont" /\ w' = [w EXCEPT !.pc = "copy", !.tmp = Contiguous(tail)]
        /\ UNCHANGED buf
    BY <1>4 DEF WCont
  <2>2. InCall("copy", Len(w.data), Contiguous(tail), tail) /\ Contiguous(tail) \in Int
    BY <1>2, <2>1, CallSteps
  <2>3. /\ w' \in Writer
        /\ w'.pc = "copy" /\ w'.data = w.data /\ w'.tmp = Contiguous(tail)
    BY <1>2, <2>1, <2>2 DEF Writer, Serving, Moving
  <2>4. WriterInv'
    BY <1>1, <2>2, <2>3 DEF WriterInv
  <2> QED BY <1>1, <1>2, <2>1, <2>4, WriterStep
<1>5. CASE WCopy
  <2>1. /\ w.pc = "copy" /\ w' = [w EXCEPT !.pc = "add"] /\ buf' = CopiedIn(w.data, w.tmp)
    BY <1>5 DEF WCopy
  <2>2. InCall("copy", Len(w.data), w.tmp, tail) /\ InCall("add", Len(w.data), w.tmp, tail)
    BY <1>2, <2>1, CallSteps
  <2>3. w.tmp \in Nat /\ tail \in Nat
    BY <1>2, <2>2, SizeAssumption DEF InCall
  <2>4. buf' \in [Cell -> Byte]
    BY <1>2, <2>1, <2>3, CopiedInType
  <2>5. /\ w' \in Writer
        /\ w'.pc = "add" /\ w'.data = w.data /\ w'.tmp = w.tmp
    BY <1>2, <2>1 DEF Writer, Serving, Moving
  <2>6. WriterInv'
    BY <1>1, <2>2, <2>5 DEF WriterInv
  <2> QED BY <1>1, <1>2, <2>4, <2>6, WriterStep
<1> QED BY <1>3, <1>4, <1>5

(* RingBuffer_push: the two ways to move tail. *)
LEMMA PushEnds ==
    ASSUME ServerInv, WAdd \/ WStore \/ WWrap
    PROVE  ServerInv'
<1>1. /\ use \in {"sendq", "recvq"} /\ UNCHANGED <<use, head, buf, r, stream>>
  BY DEF WAdd, WStore, WWrap, Turn
<1>2. /\ head \in 0..(Size + 1) /\ tail \in 0..(Size + 1) /\ buf \in [Cell -> Byte]
      /\ stream \in Seq(Byte) /\ Len(w.data) \in Nat /\ w.tmp \in Int /\ w.data \in Seq(Byte)
      /\ w \in Writer
      /\ InCall(w.pc, Len(w.data), w.tmp, tail)
  BY DEF ServerInv, SharedInv, WriterInv, Writer
<1>3. ASSUME WReturn PROVE WriterInv'
  <2>1. w' = WIdle(IF w.at = "header" THEN "body" ELSE "frame")
    BY <1>3 DEF WReturn
  <2> QED BY <2>1 DEF WIdle, WriterInv, Writer, InCall
<1>4. CASE WAdd
  <2>1. /\ w.pc = "add" /\ UNCHANGED tail
        /\ w' = IF w.tmp < Len(w.data)
                THEN [w EXCEPT !.pc = "last", !.tmp = Len(w.data) - w.tmp]
                ELSE [w EXCEPT !.pc = "store", !.tmp = tail + Len(w.data)]
    BY <1>4 DEF WAdd
  <2>2. CASE w.tmp < Len(w.data)
    <3>1. InCall("last", Len(w.data), Len(w.data) - w.tmp, tail) /\ Len(w.data) - w.tmp \in Int
      BY <1>2, <2>1, <2>2, CallSteps
    <3>2. /\ w' \in Writer /\ w'.pc = "last" /\ w'.data = w.data
          /\ w'.tmp = Len(w.data) - w.tmp
      BY <1>2, <2>1, <2>2, <3>1 DEF Writer, Serving, Moving
    <3>3. WriterInv'
      BY <2>1, <3>1, <3>2 DEF WriterInv
    <3> QED BY <1>1, <1>2, <2>1, <3>3, WriterStep
  <2>3. CASE ~(w.tmp < Len(w.data))
    <3>1. InCall("store", Len(w.data), tail + Len(w.data), tail) /\ tail + Len(w.data) \in Int
      BY <1>2, <2>1, <2>3, CallSteps
    <3>2. /\ w' \in Writer /\ w'.pc = "store" /\ w'.data = w.data
          /\ w'.tmp = tail + Len(w.data)
      BY <1>2, <2>1, <2>3, <3>1 DEF Writer, Serving, Moving
    <3>3. WriterInv'
      BY <2>1, <3>1, <3>2 DEF WriterInv
    <3> QED BY <1>1, <1>2, <2>1, <3>3, WriterStep
  <2> QED BY <2>2, <2>3
<1>5. CASE WStore
  <2>1. /\ w.pc \in {"store", "last"} /\ tail' = w.tmp
        /\ IF w.pc = "last" THEN WReturn ELSE w' = [w EXCEPT !.pc = "wrap"]
    BY <1>5 DEF WStore
  <2>2. tail' \in 0..(Size + 1)
    BY <1>2, <2>1, CallSteps
  <2>3. ASSUME w' = [w EXCEPT !.pc = "wrap"] PROVE WriterInv'
    <3>1. w' \in Writer /\ w'.pc = "wrap"
      BY <1>2, <2>3 DEF Writer, Serving, Moving
    <3> QED BY <3>1 DEF WriterInv, InCall
  <2>4. WriterInv'
    BY <1>3, <2>1, <2>3
  <2> QED BY <1>1, <1>2, <2>2, <2>4, WriterStep
<1>6. CASE WWrap
  <2>1. tail' = tail % (Size + 1) /\ WReturn
    BY <1>6 DEF WWrap
  <2>2. tail' \in 0..(Size + 1)
    BY <1>2, <2>1, WrapOnce, SizeAssumption
  <2>3. WriterInv'
    BY <1>3, <2>1
  <2> QED BY <1>1, <1>2, <2>2, <2>3, WriterStep
<1> QED BY <1>4, <1>5, <1>6

(* A call of RingBuffer_push begins, with bytes. *)
LEMMA PushBegins ==
    ASSUME NEW data \in Seq(Byte), NEW at \in {"frame", "header", "body", "rest"},
           Pushing(data, at)
    PROVE  WriterInv'
BY DEF Pushing, WriterInv, Writer, Measuring, InCall

(* send_json_to_front, and recv in do_server. *)
LEMMA SourceSteps ==
    ASSUME ServerInv,
           \/ \E len \in BodyLens : SendHeader(len)
           \/ \E n \in 1..(IoSize - 1) : RecvChunk(n)
           \/ SendBody
    PROVE  ServerInv'
<1>1. /\ head \in 0..(Size + 1) /\ tail \in 0..(Size + 1) /\ buf \in [Cell -> Byte]
      /\ stream \in Seq(Byte)
  BY DEF ServerInv, SharedInv
<1>2. BodyLens \subseteq Nat /\ BodyLens \subseteq Byte /\ High \in Byte /\ Body \in Byte
  BY ServerAssumption
<1>3. ASSUME NEW len \in BodyLens
      PROVE  /\ [i \in 1..len |-> Body] \in Seq(Byte) /\ <<High, len>> \in Seq(Byte)
  BY <1>2
<1>4. CASE \E len \in BodyLens : SendHeader(len)
  <2>1. PICK len \in BodyLens : SendHeader(len)
    BY <1>4
  <2>2. /\ use = "sendq" /\ Pushing(<<High, len>>, "header")
        /\ stream' = [i \in 1..len |-> Body] /\ UNCHANGED <<use, head, tail, buf, r>>
    BY <2>1 DEF SendHeader
  <2>3. WriterInv'
    BY <1>3, <2>2, PushBegins
  <2> QED BY <1>1, <1>3, <2>2, <2>3, WriterStep
<1>5. CASE \E n \in 1..(IoSize - 1) : RecvChunk(n)
  <2>1. PICK n \in 1..(IoSize - 1) : RecvChunk(n)
    BY <1>5
  <2>2. /\ use = "recvq" /\ n <= Len(stream) /\ Pushing(SubSeq(stream, 1, n), "rest")
        /\ stream' = SubSeq(stream, n + 1, Len(stream)) /\ UNCHANGED <<use, head, tail, buf, r>>
    BY <2>1 DEF RecvChunk
  <2>3. Len(stream) \in Nat /\ n \in Nat \ {0} /\ \A i \in 1..Len(stream) : stream[i] \in Byte
    BY <1>1, ServerAssumption
  <2>4. SubSeq(stream, 1, n) \in Seq(Byte)
    BY <1>1, <2>2, <2>3
  <2>5. SubSeq(stream, n + 1, Len(stream)) \in Seq(Byte)
    BY <1>1, <2>2, <2>3
  <2>6. WriterInv'
    BY <2>2, <2>4, PushBegins
  <2> QED BY <1>1, <2>2, <2>5, <2>6, WriterStep
<1>6. CASE SendBody
  <2>1. /\ use = "sendq" /\ Pushing(stream, "rest") /\ stream' = <<>>
        /\ UNCHANGED <<use, head, tail, buf, r>>
    BY <1>6 DEF SendBody
  <2>2. WriterInv'
    BY <1>1, <2>1, PushBegins
  <2>3. stream' \in Seq(Byte)
    BY <2>1
  <2> QED BY <1>1, <2>1, <2>2, <2>3, WriterStep
<1> QED BY <1>4, <1>5, <1>6

(* A frame consists of bytes. *)
LEMMA FrameBytes == ASSUME NEW len \in BodyLens PROVE Frame(len) \in Seq(Byte)
<1>1. len \in Nat /\ len \in Byte /\ High \in Byte /\ Body \in Byte
  BY ServerAssumption
<1>2. <<High, len>> \in Seq(Byte) /\ [i \in 1..len |-> Body] \in Seq(Byte)
  BY <1>1
<1> QED BY <1>2, ConcatProperties DEF Frame

(* The frontend sends. *)
LEMMA FrontSteps == ASSUME ServerInv, NEW len \in BodyLens, FrontSends(len) PROVE ServerInv'
<1>1. /\ use = "recvq" /\ stream' = stream \o Frame(len)
      /\ UNCHANGED <<use, head, tail, buf, r, w>>
  BY DEF FrontSends, threads
<1>2. stream \in Seq(Byte) /\ head \in 0..(Size + 1) /\ tail \in 0..(Size + 1)
      /\ buf \in [Cell -> Byte]
  BY DEF ServerInv, SharedInv
<1>3. stream' \in Seq(Byte)
  BY <1>1, <1>2, FrameBytes, ConcatProperties
<1>4. WriterInv'
  BY <1>1 DEF ServerInv, WriterInv
<1> QED BY <1>1, <1>2, <1>3, <1>4, WriterStep

(* A step of the reading thread leaves the writing thread's part alone. *)
LEMMA ReaderStep ==
    ASSUME ServerInv, use \in {"sendq", "recvq"}, UNCHANGED <<use, tail, buf, stream, w>>,
           head' \in 0..(Size + 1), ReaderInv'
    PROVE  ServerInv'
BY DEF ServerInv, SharedInv, WriterInv

(* The reading thread leaves its loop or calls once more. *)
LEMMA CallBegins ==
    /\ r' = RIdle => ReaderInv'
    /\ \A at \in {"readable", "pop", "peek", "header", "json"}, n \in Nat, canread \in Nat :
          Calling(at, n, canread) /\ (at = "peek" => n = 2) => ReaderInv'
<1>1. r' = RIdle => ReaderInv'
  BY DEF RIdle, ReaderInv, Reader, Measuring, Serving, Moving, InCall
<1>2. ASSUME NEW at \in {"readable", "pop", "peek", "header", "json"}, NEW n \in Nat,
             NEW canread \in Nat, Calling(at, n, canread), at = "peek" => n = 2
      PROVE  ReaderInv'
  <2>1. r' = [at |-> at, pc |-> "eq", n |-> n, tmp |-> 0, out |-> <<>>, canread |-> canread]
    BY <1>2 DEF Calling
  <2>2. /\ r' \in Reader /\ r'.at = at /\ r'.pc = "eq" /\ r'.n = n
    BY <2>1 DEF Reader, Measuring
  <2> QED BY <1>2, <2>2 DEF ReaderInv, Measuring, Serving, Moving, InCall
<1> QED BY <1>1, <1>2

(* RingBuffer_get_readable_bufsize has returned, whatever it found. *)
LEMMA FoundReader ==
    ASSUME NEW readable \in Nat, Found(readable) PROVE ReaderInv'
<1>1. IoSize \in Nat
  BY ServerAssumption
<1>2. \/ r' = RIdle
      \/ Calling("pop", IF readable > IoSize THEN IoSize ELSE readable, readable)
      \/ Calling("peek", 2, readable)
  BY DEF Found
<1> QED BY <1>1, <1>2, CallBegins

(* RingBuffer_read or RingBuffer_pop has returned. *)
LEMMA ReturnedReader ==
    ASSUME ReaderInv, r.at \in {"pop", "peek", "header", "json"}, NEW bytes,
           r.at = "peek" /\ bytes[1] = High => bytes[2] \in Byte,
           Returned(bytes)
    PROVE  ReaderInv'
<1>1. r.canread \in Nat
  BY DEF ReaderInv, Reader
<1>2. CASE r.at = "pop"
  <2>1. Calling("readable", 0, 0) \/ r' = RIdle
    BY <1>2 DEF Returned
  <2> QED BY <2>1, CallBegins
<1>3. CASE r.at = "peek"
  <2>1. PICK jsonlen \in IF bytes[1] = High THEN {bytes[2]} ELSE {0, Size + 1} \cup BodyLens :
           Calling("header", 2, jsonlen) \/ r' = RIdle
    BY <1>3 DEF Returned
  <2>2. jsonlen \in Nat
    <3>1. CASE bytes[1] = High
      <4>1. jsonlen = bytes[2] /\ bytes[2] \in Byte
        BY <1>3, <2>1, <3>1
      <4> QED BY <4>1, ServerAssumption
    <3>2. CASE bytes[1] # High
      <4>1. jsonlen \in {0, Size + 1} \cup BodyLens
        BY <2>1, <3>2
      <4> QED BY <4>1, ServerAssumption, SizeAssumption
    <3> QED BY <3>1, <3>2
  <2> QED BY <2>1, <2>2, CallBegins
<1>4. CASE r.at = "header"
  <2>1. Calling("json", r.canread, 0)
    BY <1>4 DEF Returned
  <2> QED BY <1>1, <2>1, CallBegins
<1>5. CASE r.at = "json"
  <2>1. Calling("readable", 0, 0)
    BY <1>5 DEF Returned
  <2> QED BY <2>1, CallBegins
<1> QED BY <1>2, <1>3, <1>4, <1>5

(* The steps of the reading thread. *)
LEMMA ReadSteps ==
    ASSUME ServerInv, RStart \/ RMeasure \/ RCont \/ RCopy
    PROVE  ServerInv'
<1>1. /\ use \in {"sendq", "recvq"} /\ UNCHANGED <<use, head, tail, buf, w, stream>>
  BY DEF RStart, RMeasure, RCont, RCopy, Turn
<1>2. /\ head \in 0..(Size + 1) /\ tail \in 0..(Size + 1) /\ buf \in [Cell -> Byte]
      /\ ReaderInv /\ r \in Reader /\ r.n \in Nat /\ r.tmp \in Int
      /\ InCall(r.pc, r.n, r.tmp, head)
  BY DEF ServerInv, SharedInv, ReaderInv, Reader
<1>3. SUFFICES ReaderInv'
  BY <1>1, <1>2, ReaderStep
<1>4. CASE RStart
  BY <1>4, CallBegins DEF RStart
<1>5. CASE RMeasure
  <2>1. PICK m : m = Measured(r.pc)
    OBVIOUS
  <2>2. PICK readable : readable = Size - m.remain
    OBVIOUS
  <2>3. /\ r.pc \in Measuring
        /\ IF m.pc # "got" THEN r' = [r EXCEPT !.pc = m.pc]
           ELSE IF r.at = "readable" THEN Found(IF readable < 0 THEN Huge ELSE readable)
           ELSE IF r.n > readable THEN Returned(Garbage(r.n))
           ELSE r' = [r EXCEPT !.pc = "cont"]
    BY <1>5, <2>1, <2>2 DEF RMeasure, Measuring
  <2>4. /\ m.pc \in Measuring \cup {"got"} /\ readable \in Int
        /\ m.pc = "got" => readable <= 2 * (Size + 1) - head
    BY <1>2, <2>1, <2>2, <2>3, MeasuredBounds, SizeAssumption
  <2>5. r.at # "loop"
    BY <1>2, <2>3 DEF ReaderInv
  <2>6. CASE m.pc # "got"
    <3>1. r' = [r EXCEPT !.pc = m.pc] /\ m.pc \in Measuring
      BY <2>3, <2>4, <2>6
    <3>2. r' \in Reader /\ r'.pc = m.pc /\ r'.at = r.at /\ r'.n = r.n /\ r'.tmp = r.tmp
      BY <1>2, <3>1 DEF Reader
    <3> QED BY <1>2, <2>5, <3>1, <3>2 DEF ReaderInv, Measuring, Serving, Moving, InCall
  <2>7. CASE m.pc = "got" /\ r.at = "readable"
    <3>1. Huge \in Nat
      BY DEF Huge
    <3>2. (IF readable < 0 THEN Huge ELSE readable) \in Nat
      BY <2>4, <3>1
    <3> QED BY <2>3, <2>7, <3>2, FoundReader
  <2>8. CASE m.pc = "got" /\ r.at # "readable" /\ r.n > readable
    <3>1. Returned(Garbage(r.n)) /\ r.at \in {"pop", "peek", "header", "json"}
      BY <1>2, <2>3, <2>5, <2>8 DEF Reader
    <3>2. r.at = "peek" => Garbage(r.n)[2] = Stale
      BY <1>2 DEF ReaderInv, Garbage
    <3> QED BY <1>2, <3>1, <3>2, ReturnedReader, ServerAssumption
  <2>9. CASE m.pc = "got" /\ r.at # "readable" /\ ~(r.n > readable)
    <3>1. r' = [r EXCEPT !.pc = "cont"]
      BY <2>3, <2>9
    <3>2. r' \in Reader /\ r'.pc = "cont" /\ r'.at = r.at /\ r'.n = r.n /\ r'.tmp = r.tmp
      BY <1>2, <3>1 DEF Reader, Serving, Moving
    <3>3. r.n <= 2 * (Size + 1) - head
      BY <1>2, <2>4, <2>9, SizeAssumption
    <3>4. InCall("cont", r.n, r.tmp, head)
      BY <3>3 DEF InCall
    <3> QED BY <1>1, <1>2, <2>5, <2>9, <3>2, <3>4 DEF ReaderInv, Measuring, Serving, Moving
  <2> QED BY <2>6, <2>7, <2>8, <2>9
<1>6. CASE RCont
  <2>1. r.pc = "cont" /\ r' = [r EXCEPT !.pc = "copy", !.tmp = Contiguous(head)]
    BY <1>6 DEF RCont
  <2>2. InCall("copy", r.n, Contiguous(head), head) /\ Contiguous(head) \in Int
    BY <1>2, <2>1, CallSteps
  <2>3. /\ r' \in Reader /\ r'.pc = "copy" /\ r'.at = r.at /\ r'.n = r.n
        /\ r'.tmp = Contiguous(head)
    BY <1>2, <2>1, <2>2 DEF Reader, Serving, Moving
  <2>4. r.at \notin {"loop", "readable"}
    BY <1>2, <2>1 DEF ReaderInv, Serving, Moving
  <2> QED BY <1>1, <1>2, <2>2, <2>3, <2>4 DEF ReaderInv, Measuring, Serving, Moving
<1>7. CASE RCopy
  <2>1. PICK out : out = CopiedOut(r.n, r.tmp)
    OBVIOUS
  <2>2. /\ r.pc = "copy"
        /\ IF r.at = "peek" THEN Returned(out) ELSE r' = [r EXCEPT !.pc = "add", !.out = out]
    BY <1>7, <2>1 DEF RCopy
  <2>3. out \in Seq(Byte) /\ DOMAIN out = 1..r.n
    BY <1>2, <2>1, <2>2, CopiedOutType
  <2>4. r.at \in {"pop", "peek", "header", "json"}
    BY <1>2, <2>2 DEF ReaderInv, Reader, Serving, Moving
  <2>5. CASE r.at = "peek"
    <3>1. out[2] \in Byte
      BY <1>2, <2>3, <2>5 DEF ReaderInv
    <3> QED BY <1>2, <2>2, <2>4, <2>5, <3>1, ReturnedReader
  <2>6. CASE r.at # "peek"
    <3>1. r' = [r EXCEPT !.pc = "add", !.out = out]
      BY <2>2, <2>6
    <3>2. r' \in Reader /\ r'.pc = "add" /\ r'.at = r.at /\ r'.n = r.n /\ r'.tmp = r.tmp
      BY <1>2, <2>3, <3>1 DEF Reader, Serving, Moving
    <3>3. InCall("add", r.n, r.tmp, head)
      BY <1>2, <2>2, CallSteps
    <3> QED BY <1>1, <1>2, <2>4, <2>6, <3>2, <3>3 DEF ReaderInv
  <2> QED BY <2>5, <2>6
<1> QED BY <1>4, <1>5, <1>6, <1>7

(* RingBuffer_pop: the two ways to move head. *)
LEMMA PopEnds ==
    ASSUME ServerInv, RAdd \/ RStore \/ RWrap
    PROVE  ServerInv'
<1>1. /\ use \in {"sendq", "recvq"} /\ UNCHANGED <<use, tail, buf, w, stream>>
  BY DEF RAdd, RStore, RWrap, Turn
<1>2. /\ head \in 0..(Size + 1) /\ ReaderInv /\ r \in Reader /\ r.n \in Nat /\ r.tmp \in Int
      /\ r.out \in Seq(Byte) /\ InCall(r.pc, r.n, r.tmp, head)
  BY DEF ServerInv, SharedInv, ReaderInv, Reader
<1>3. r.at \in {"pop", "header", "json"}
  BY <1>2 DEF RAdd, RStore, RWrap, ReaderInv, Reader, Serving, Moving
<1>4. CASE RAdd
  <2>1. /\ r.pc = "add" /\ UNCHANGED head
        /\ r' = IF r.tmp < r.n THEN [r EXCEPT !.pc = "last", !.tmp = r.n - r.tmp]
                ELSE [r EXCEPT !.pc = "store", !.tmp = head + r.n]
    BY <1>4 DEF RAdd
  <2>2. CASE r.tmp < r.n
    <3>1. InCall("last", r.n, r.n - r.tmp, head) /\ r.n - r.tmp \in Int
      BY <1>2, <2>1, <2>2, CallSteps
    <3>2. r' \in Reader /\ r'.pc = "last" /\ r'.at = r.at /\ r'.n = r.n /\ r'.tmp = r.n - r.tmp
      BY <1>2, <2>1, <2>2, <3>1 DEF Reader, Serving, Moving
    <3>3. ReaderInv'
      BY <1>3, <2>1, <3>1, <3>2 DEF ReaderInv
    <3> QED BY <1>1, <1>2, <2>1, <3>3, ReaderStep
  <2>3. CASE ~(r.tmp < r.n)
    <3>1. InCall("store", r.n, head + r.n, head) /\ head + r.n \in Int
      BY <1>2, <2>1, <2>3, CallSteps
    <3>2. r' \in Reader /\ r'.pc = "store" /\ r'.at = r.at /\ r'.n = r.n /\ r'.tmp = head + r.n
      BY <1>2, <2>1, <2>3, <3>1 DEF Reader, Serving, Moving
    <3>3. ReaderInv'
      BY <1>3, <2>1, <3>1, <3>2 DEF ReaderInv
    <3> QED BY <1>1, <1>2, <2>1, <3>3, ReaderStep
  <2> QED BY <2>2, <2>3
<1>5. CASE RStore
  <2>1. /\ r.pc \in {"store", "last"} /\ head' = r.tmp
        /\ IF r.pc = "last" THEN Returned(r.out) ELSE r' = [r EXCEPT !.pc = "wrap"]
    BY <1>5 DEF RStore
  <2>2. head' \in 0..(Size + 1)
    BY <1>2, <2>1, CallSteps
  <2>3. ASSUME r' = [r EXCEPT !.pc = "wrap"] PROVE ReaderInv'
    <3>1. r' \in Reader /\ r'.pc = "wrap" /\ r'.at = r.at
      BY <1>2, <2>3 DEF Reader, Serving, Moving
    <3> QED BY <1>3, <3>1 DEF ReaderInv, Measuring, InCall
  <2>4. ReaderInv'
    BY <1>2, <1>3, <2>1, <2>3, ReturnedReader
  <2> QED BY <1>1, <2>2, <2>4, ReaderStep
<1>6. CASE RWrap
  <2>1. head' = head % (Size + 1) /\ Returned(r.out)
    BY <1>6 DEF RWrap
  <2>2. head' \in 0..(Size + 1)
    BY <1>2, <2>1, WrapOnce, SizeAssumption
  <2>3. ReaderInv'
    BY <1>2, <1>3, <2>1, ReturnedReader
  <2> QED BY <1>1, <2>2, <2>3, ReaderStep
<1> QED BY <1>4, <1>5, <1>6

(* RingBuffer_drop_buffer in the TCP thread, whatever the main thread is   *)
(* doing, and accept.                                                      *)
LEMMA DropSteps ==
    ASSUME ServerInv, Drop \/ Dropped \/ Accept
    PROVE  ServerInv'
<1>1. /\ 0 \in 0..(Size + 1) /\ head \in 0..(Size + 1) /\ tail \in 0..(Size + 1)
      /\ Len(w.data) \in Nat /\ w.tmp \in Int /\ r.n \in Nat /\ r.tmp \in Int
      /\ w \in Writer /\ InCall(w.pc, Len(w.data), w.tmp, tail)
      /\ r \in Reader /\ InCall(r.pc, r.n, r.tmp, head)
  BY SizeAssumption DEF ServerInv, SharedInv, WriterInv, ReaderInv, Writer, Reader
<1>2. CASE Drop
  <2>1. /\ use \in {"sendq", "recvq"} /\ head' = 0 /\ UNCHANGED <<tail, buf, use, w, r, stream>>
    BY <1>2 DEF Drop
  <2>2. InCall(r.pc, r.n, r.tmp, 0)
    BY <1>1, DropInCall
  <2>3. ReaderInv'
    BY <2>1, <2>2 DEF ServerInv, ReaderInv
  <2> QED BY <1>1, <2>1, <2>3, ReaderStep
<1>3. CASE Dropped
  <2>1. /\ conn = "dropping" /\ conn' = "down" /\ tail' = 0 /\ UNCHANGED <<head, buf, use, r>>
        /\ (stream' = <<>> /\ w' = WIdle("frame")) \/ UNCHANGED <<stream, w>>
    BY <1>3 DEF Dropped
  <2>2. use # "olsr_tx_msgbuf"
    BY <2>1 DEF ServerInv, SharedInv
  <2>3. ASSUME w' = WIdle("frame") PROVE WriterInv'
    BY <2>3 DEF WIdle, WriterInv, Writer, InCall
  <2>4. ASSUME w' = w PROVE WriterInv'
    <3>1. InCall(w.pc, Len(w.data), w.tmp, 0)
      BY <1>1, DropInCall
    <3> QED BY <1>1, <2>1, <2>4, <3>1 DEF WriterInv
  <2>5. WriterInv' /\ stream' \in Seq(Byte)
    <3>1. WriterInv'
      BY <2>1, <2>3, <2>4
    <3>2. stream \in Seq(Byte) /\ <<>> \in Seq(Byte)
      BY DEF ServerInv, SharedInv
    <3>3. stream' = <<>> \/ stream' = stream
      BY <2>1
    <3>4. stream' \in Seq(Byte)
      BY <3>2, <3>3
    <3> QED BY <3>1, <3>4
  <2>6. SharedInv'
    BY <1>1, <2>1, <2>2, <2>5 DEF ServerInv, SharedInv
  <2>7. ReaderInv'
    BY <2>1 DEF ServerInv, ReaderInv
  <2> QED BY <2>5, <2>6, <2>7 DEF ServerInv
<1>4. CASE Accept
  BY <1>4 DEF Accept, threads, ServerInv, SharedInv, WriterInv, ReaderInv
<1> QED BY <1>2, <1>3, <1>4

(* olsr_tx_msgbuf has one thread; StepKeepsTypes is about its calls. *)
LEMMA OneThreadStep == ASSUME ServerInv, OneThread PROVE ServerInv'
<1>1. /\ use = "olsr_tx_msgbuf" /\ TypeOK /\ UNCHANGED <<use, w, r, stream, conn>>
      /\ \/ \E n \in Lengths : \E data \in [1..n -> {High, Body}] : Push(data)
         \/ \E n \in Lengths : Read(n) \/ Pop(n)
         \/ DropBuffer
  BY DEF OneThread, threads, ServerInv, SharedInv
<1>2. \A n \in Lengths : [1..n -> {High, Body}] \subseteq [1..n -> Byte]
  BY ServerAssumption
<1>3. Next
  BY <1>1, <1>2 DEF Next
<1>4. TypeOK'
  BY <1>1, <1>3, StepKeepsTypes
<1>5. /\ w.pc = "out" /\ w \in Writer /\ r.pc = "out" /\ ReaderInv
      /\ conn # "dropping" /\ stream \in Seq(Byte)
  BY <1>1 DEF ServerInv, SharedInv, WriterInv
<1>6. SharedInv'
  <2>1. head' \in 0..(Size + 1) /\ tail' \in 0..(Size + 1) /\ buf' \in [Cell -> Byte]
    BY <1>4, SizeAssumption DEF TypeOK, Cell
  <2> QED BY <1>1, <1>4, <1>5, <2>1 DEF SharedInv
<1>7. WriterInv'
  BY <1>1, <1>5 DEF WriterInv, InCall
<1>8. ReaderInv'
  BY <1>1, <1>5 DEF ReaderInv, InCall
<1> QED BY <1>6, <1>7, <1>8 DEF ServerInv

(* Every step of the server keeps the invariant. *)
LEMMA ServerStep == ASSUME ServerInv, [ServerNext]_svars PROVE ServerInv'
<1>1. CASE \/ \E len \in BodyLens : SendHeader(len)
           \/ \E n \in 1..(IoSize - 1) : RecvChunk(n)
           \/ SendBody
  BY <1>1, SourceSteps
<1>2. CASE WMeasure \/ WCont \/ WCopy
  BY <1>2, PushSteps
<1>3. CASE WAdd \/ WStore \/ WWrap
  BY <1>3, PushEnds
<1>4. CASE RStart \/ RMeasure \/ RCont \/ RCopy
  BY <1>4, ReadSteps
<1>5. CASE RAdd \/ RStore \/ RWrap
  BY <1>5, PopEnds
<1>6. CASE Drop \/ Dropped \/ Accept
  BY <1>6, DropSteps
<1>7. CASE OneThread
  BY <1>7, OneThreadStep
<1>8. CASE UNCHANGED svars
  BY <1>8 DEF svars, ServerInv, SharedInv, WriterInv, ReaderInv, TypeOK
<1>9. CASE \E len \in BodyLens : FrontSends(len)
  BY <1>9, FrontSteps
<1> QED BY <1>1, <1>2, <1>3, <1>4, <1>5, <1>6, <1>7, <1>8, <1>9 DEF ServerNext

(* The server starts with an empty buffer and both threads outside of a    *)
(* call.                                                                   *)
LEMMA ServerStart == ASSUME ServerInit PROVE ServerInv
<1>1. /\ head = 0 /\ tail = 0 /\ buf = [i \in Cell |-> Stale] /\ reply = Done(<<>>)
      /\ w = WIdle("frame") /\ r = RIdle /\ stream = <<>> /\ conn = "down"
  BY DEF ServerInit
<1>2. buf \in [Cell -> Byte]
  BY <1>1, ServerAssumption
<1>3. w.pc = "out" /\ r.pc = "out"
  BY <1>1 DEF WIdle, RIdle
<1>4. SharedInv
  BY <1>1, <1>2, <1>3, ReplyTypes, SizeAssumption DEF SharedInv, TypeOK, Cell
<1>5. WriterInv
  BY <1>1 DEF WIdle, WriterInv, Writer, InCall
<1>6. ReaderInv
  BY <1>1 DEF RIdle, ReaderInv, Reader, Measuring, Serving, Moving, InCall
<1> QED BY <1>4, <1>5, <1>6 DEF ServerInv

(* The memcpys of ringbuffer.c stay inside buf although two threads use it *)
(* without a lock, one of them drops it under the other, and sizes are     *)
(* measured while both offsets move: a wrong size may lose or repeat       *)
(* bytes, it cannot send a copy past the end.                              *)
THEOREM CopiesStayInside == ServerSpec => []NoOverrun
<1>1. ServerInv => NoOverrun
  BY DEF ServerInv, SharedInv, WriterInv, ReaderInv, InCall, NoOverrun
<1> QED BY <1>1, ServerStart, ServerStep, PTL DEF ServerSpec
-----------------------------------------------------------------------------
(* Two threads that do not race.  Offsets are at most one past the last    *)
(* cell, between the two stores of a call that ends at the edge; h and t   *)
(* stand for head and tail, b for buf.                                     *)
Apart(h, t) == h \in 0..(Size + 1) /\ t \in 0..(Size + 1) /\ ~(h = 0 /\ t = Size + 1)
Used(h, t) == IF h <= t THEN t - h ELSE t + Size + 1 - h
Held(h, t, b) == [k \in 1..Used(h, t) |-> b[Wrap(h + k - 1)]]

(* An offset moved on by len cells; at the edge a second store follows. *)
Forward(offset, len) ==
    IF offset + len <= Size + 1 THEN offset + len ELSE offset + len - (Size + 1)

(* From its test to its store a thread relies on the room or the bytes it  *)
(* has measured; a size measured in between by the other is too small.     *)
Holding == {"cont", "copy", "add", "store", "last"}

(* What the writing thread v relies on. *)
Pushes(v, h, t, b) ==
    /\ t = Size + 1 => v.pc = "wrap"
    /\ v.pc = "below" => h <= t
    /\ v.pc \in Holding => Len(v.data) <= Size - Used(h, t)
    /\ v.pc \in {"copy", "add"} => v.tmp = Contiguous(t)
    /\ v.pc = "store" => t + Len(v.data) <= Size + 1
    /\ v.pc = "last" => t + Len(v.data) > Size + 1
    /\ v.pc \in {"store", "last"} => v.tmp = Forward(t, Len(v.data))
    /\ v.pc \in {"add", "store", "last"} =>
          \A k \in 1..Len(v.data) : b[Wrap(t + k - 1)] = v.data[k]

(* What the reading thread u relies on. *)
Pops(u, h, t, b) ==
    /\ h = Size + 1 => u.pc = "wrap"
    /\ u.pc = "lt" => h # t
    /\ u.pc = "above" => h > t
    /\ u.pc \in Holding => u.n <= Used(h, t)
    /\ u.pc \in {"copy", "add"} => u.tmp = Contiguous(h)
    /\ u.pc = "last" => h + u.n > Size + 1
    /\ u.pc \in {"store", "last"} => u.tmp = Forward(h, u.n)
    /\ u.pc \in {"add", "store", "last"} =>
          u.out = [k \in 1..u.n |-> b[Wrap(h + k - 1)]]

TwoThreads == Apart(head, tail) /\ Pushes(w, head, tail, buf) /\ Pops(r, head, tail, buf)

ApartInv ==
    /\ raced \in BOOLEAN
    /\ use # "olsr_tx_msgbuf" /\ ~raced =>
          IF conn = "dropping" THEN w.pc = "out" /\ r.pc = "out" /\ head = 0 ELSE TwoThreads

(* The bytes held are at most Size. *)
LEMMA UsedBounds ==
    ASSUME NEW h, NEW t, Apart(h, t)
    PROVE  /\ Used(h, t) \in 0..Size /\ h \in Nat /\ t \in Nat /\ Size \in Nat
           /\ h <= Size + 1 /\ t <= Size + 1
           /\ Size - Used(h, t) = IF h = t THEN Size
                                  ELSE IF h < t THEN Size - (t - h) ELSE h - t - 1
BY SizeAssumption DEF Apart, Used

(* The two size queries and the contents, now ... *)
LEMMA HeldNow ==
    ASSUME Apart(head, tail)
    PROVE  /\ Remain = Size - Used(head, tail) /\ Readable = Used(head, tail)
           /\ Contents = Held(head, tail, buf)
<1>1. Remain = Size - Used(head, tail) /\ Readable = Used(head, tail)
  BY SizeAssumption DEF Apart, Used, Remain, Readable
<1> QED BY <1>1 DEF Contents, Held

(* ... and after a step. *)
LEMMA HeldNext ==
    ASSUME Apart(head', tail')
    PROVE  Contents' = Held(head', tail', buf')
<1>1. \A h, t : Apart(h, t) =>
         Size - (IF h = t THEN Size ELSE IF h < t THEN Size - (t - h) ELSE h - t - 1) = Used(h, t)
  BY SizeAssumption DEF Apart, Used
<1>2. Readable' = Used(head', tail')
  BY <1>1, Zenon DEF Readable, Remain
<1> QED BY <1>2, Zenon DEF Contents, Held, Wrap

(* The bytes held form a sequence. *)
LEMMA HeldSeq ==
    ASSUME NEW h, NEW t, Apart(h, t), NEW b \in [Cell -> Byte]
    PROVE  Held(h, t, b) \in Seq(Byte) /\ Len(Held(h, t, b)) = Used(h, t)
<1>1. Used(h, t) \in 0..Size /\ h \in Nat /\ h <= Size + 1 /\ Size \in Nat
  BY UsedBounds
<1>2. \A k \in 1..Used(h, t) : Wrap(h + k - 1) \in Cell
  BY <1>1 DEF Wrap, Cell
<1>3. \A k \in 1..Used(h, t) : b[Wrap(h + k - 1)] \in Byte
  BY <1>2
<1> QED BY <1>1, <1>3 DEF Held

(* tail moves on, into room that was measured. *)
LEMMA TailForward ==
    ASSUME NEW h, NEW t, Apart(h, t), t # Size + 1, NEW len \in Nat, len <= Size - Used(h, t),
           NEW t2, t2 = Forward(t, len)
    PROVE  /\ Apart(h, t2) /\ Used(h, t2) = Used(h, t) + len
           /\ h # t => h # t2
           /\ h > t => h > t2
           /\ t + len > Size + 1 => t2 # Size + 1
BY SizeAssumption DEF Apart, Used, Forward

(* The second store to tail changes nothing. *)
LEMMA TailWraps ==
    ASSUME NEW h, Apart(h, Size + 1)
    PROVE  Apart(h, 0) /\ Used(h, 0) = Used(h, Size + 1) /\ h # 0 /\ h > 0
BY SizeAssumption DEF Apart, Used

(* head moves on, over bytes that were measured. *)
LEMMA HeadForward ==
    ASSUME NEW h, NEW t, Apart(h, t), h # Size + 1, NEW n \in Nat, n <= Used(h, t),
           NEW h2, h2 = Forward(h, n)
    PROVE  /\ Apart(h2, t) /\ Used(h2, t) = Used(h, t) - n
           /\ h <= t /\ t # Size + 1 => h2 <= t
           /\ h + n > Size + 1 => h2 # Size + 1
BY SizeAssumption DEF Apart, Used, Forward

(* The second store to head changes nothing unless tail is there too. *)
LEMMA HeadWraps ==
    ASSUME NEW t, Apart(Size + 1, t), t # Size + 1
    PROVE  Apart(0, t) /\ Used(0, t) = Used(Size + 1, t)
BY SizeAssumption DEF Apart, Used

(* Bytes in place behind the held ones are appended once tail has moved. *)
LEMMA TailAppends ==
    ASSUME NEW h, NEW t, Apart(h, t), t # Size + 1, NEW b \in [Cell -> Byte],
           NEW data \in Seq(Byte), Len(data) <= Size - Used(h, t),
           \A k \in 1..Len(data) : b[Wrap(t + k - 1)] = data[k],
           NEW t2, t2 = Forward(t, Len(data))
    PROVE  Held(h, t2, b) = Held(h, t, b) \o data
<1> DEFINE len == Len(data)
           used == Used(h, t)
<1>1. /\ len \in Nat /\ used \in 0..Size /\ h \in Nat /\ t \in Nat /\ Size \in Nat
      /\ h <= Size + 1 /\ t <= Size + 1 /\ len <= Size - used
  BY UsedBounds
<1>2. Apart(h, t2) /\ Used(h, t2) = used + len
  BY <1>1, TailForward
<1>3. /\ Held(h, t2, b) \in Seq(Byte) /\ Len(Held(h, t2, b)) = used + len
      /\ Held(h, t, b) \in Seq(Byte) /\ Len(Held(h, t, b)) = used
  BY <1>2, HeldSeq
<1>4. /\ Held(h, t, b) \o data \in Seq(Byte) /\ Len(Held(h, t, b) \o data) = used + len
      /\ \A k \in 1..(used + len) :
            (Held(h, t, b) \o data)[k] = IF k <= used THEN Held(h, t, b)[k] ELSE data[k - used]
  BY <1>3, ConcatProperties
<1>5. ASSUME NEW k \in 1..(used + len)
      PROVE  Held(h, t2, b)[k] = (Held(h, t, b) \o data)[k]
  <2>1. Held(h, t2, b)[k] = b[Wrap(h + k - 1)]
    BY <1>2 DEF Held
  <2>2. CASE k <= used
    <3>1. k \in 1..used
      BY <1>1, <2>2
    <3>2. Held(h, t, b)[k] = b[Wrap(h + k - 1)]
      BY <3>1 DEF Held
    <3> QED BY <1>4, <2>1, <2>2, <3>2
  <2>3. CASE ~(k <= used)
    <3> DEFINE j == k - used
    <3>1. j \in 1..len
      BY <1>1, <2>3
    <3>2. Wrap(h + k - 1) = Wrap(t + j - 1)
      BY <1>1, <3>1 DEF Wrap, Used, Apart
    <3>3. b[Wrap(t + j - 1)] = data[j]
      BY <3>1
    <3> QED BY <1>4, <2>1, <2>3, <3>2, <3>3
  <2> QED BY <2>2, <2>3
<1> HIDE DEF len, used
<1> QED BY <1>1, <1>3, <1>4, <1>5, SeqEqual

(* What lies before head is held no longer. *)
LEMMA HeadShortens ==
    ASSUME NEW h, NEW t, Apart(h, t), h # Size + 1, NEW b \in [Cell -> Byte],
           NEW n \in Nat, n <= Used(h, t), NEW h2, h2 = Forward(h, n)
    PROVE  /\ Held(h2, t, b) = SubSeq(Held(h, t, b), n + 1, Len(Held(h, t, b)))
           /\ [k \in 1..n |-> b[Wrap(h + k - 1)]] = SubSeq(Held(h, t, b), 1, n)
<1> DEFINE used == Used(h, t)
           held == Held(h, t, b)
<1>1. /\ used \in 0..Size /\ h \in Nat /\ t \in Nat /\ Size \in Nat /\ h <= Size /\ n <= used
  BY UsedBounds
<1>2. Apart(h2, t) /\ Used(h2, t) = used - n
  BY <1>1, HeadForward
<1>3. /\ Held(h2, t, b) \in Seq(Byte) /\ Len(Held(h2, t, b)) = used - n
      /\ held \in Seq(Byte) /\ Len(held) = used
  BY <1>2, HeldSeq
<1>4. \A k \in 1..used : held[k] = b[Wrap(h + k - 1)] /\ held[k] \in Byte
  <2>1. \A k \in 1..used : held[k] = b[Wrap(h + k - 1)]
    BY DEF Held
  <2> QED BY <1>3, <2>1
<1>5. ASSUME NEW k \in 1..(used - n)
      PROVE  Held(h2, t, b)[k] = held[n + k]
  <2>1. Held(h2, t, b)[k] = b[Wrap(h2 + k - 1)]
    BY <1>2 DEF Held
  <2>2. Wrap(h2 + k - 1) = Wrap(h + (n + k) - 1)
    BY <1>1 DEF Wrap, Forward
  <2>3. n + k \in 1..used
    BY <1>1
  <2> QED BY <1>4, <2>1, <2>2, <2>3
<1> HIDE DEF used, held
<1>6. /\ SubSeq(held, n + 1, used) \in Seq(Byte) /\ Len(SubSeq(held, n + 1, used)) = used - n
      /\ \A k \in 1..(used - n) : SubSeq(held, n + 1, used)[k] = held[n + k]
  BY <1>1, <1>3
<1>7. Held(h2, t, b) = SubSeq(held, n + 1, used)
  BY <1>1, <1>3, <1>5, <1>6, SeqEqual
<1>8. /\ SubSeq(held, 1, n) \in Seq(Byte) /\ Len(SubSeq(held, 1, n)) = n
      /\ \A k \in 1..n : SubSeq(held, 1, n)[k] = held[k]
  BY <1>1, <1>3
<1>9. [k \in 1..n |-> b[Wrap(h + k - 1)]] = SubSeq(held, 1, n)
  <2> DEFINE out == [k \in 1..n |-> b[Wrap(h + k - 1)]]
  <2>1. \A k \in 1..n : out[k] = held[k] /\ held[k] \in Byte
    BY <1>1, <1>4
  <2>2. out \in [1..n -> Byte]
    BY <2>1
  <2>3. out \in Seq(Byte) /\ Len(out) = n
    BY <2>2
  <2> HIDE DEF out
  <2>4. out = SubSeq(held, 1, n)
    BY <1>8, <2>1, <2>3, SeqEqual
  <2> QED BY <2>4 DEF out
<1> QED BY <1>3, <1>7, <1>9 DEF used, held

(* Between its two stores to an offset, nothing else changes. *)
LEMMA HeldWraps ==
    ASSUME NEW b
    PROVE  /\ \A h : Apart(h, Size + 1) => Held(h, 0, b) = Held(h, Size + 1, b)
           /\ \A t : Apart(Size + 1, t) /\ t # Size + 1 => Held(0, t, b) = Held(Size + 1, t, b)
<1>1. ASSUME NEW h, Apart(h, Size + 1) PROVE Held(h, 0, b) = Held(h, Size + 1, b)
  BY <1>1, TailWraps DEF Held
<1>2. ASSUME NEW t, Apart(Size + 1, t), t # Size + 1
      PROVE  Held(0, t, b) = Held(Size + 1, t, b)
  <2>1. Used(0, t) = Used(Size + 1, t) /\ Used(0, t) \in 0..Size /\ Size \in Nat
    BY <1>2, HeadWraps, UsedBounds
  <2>2. \A k \in 1..Used(0, t) : Wrap(0 + k - 1) = Wrap(Size + 1 + k - 1)
    BY <2>1 DEF Wrap
  <2> QED BY <2>1, <2>2 DEF Held
<1> QED BY <1>1, <1>2

(* The memcpys of a push fill the room and leave the held bytes alone. *)
LEMMA CopyFills ==
    ASSUME Apart(head, tail), tail # Size + 1, buf \in [Cell -> Byte],
           NEW data \in Seq(Byte), Len(data) <= Size - Used(head, tail),
           NEW b, b = CopiedIn(data, Contiguous(tail))
    PROVE  /\ \A k \in 1..Len(data) : b[Wrap(tail + k - 1)] = data[k]
           /\ \A k \in 1..Used(head, tail) : b[Wrap(head + k - 1)] = buf[Wrap(head + k - 1)]
<1> DEFINE len == Len(data)
           cont == Contiguous(tail)
           used == Used(head, tail)
<1>1. /\ len \in Nat /\ used \in 0..Size /\ head \in Nat /\ tail \in Nat /\ Size \in Nat
      /\ head <= Size + 1 /\ tail <= Size /\ len <= Size - used /\ cont = Size - tail + 1
      /\ used = IF head <= tail THEN tail - head ELSE tail + Size + 1 - head
  BY UsedBounds DEF Contiguous, Used
<1>2. b = [i \in Cell |-> IF i < len - cont THEN data[cont + i + 1]
                          ELSE IF i >= tail /\ i < tail + len /\ i < tail + cont
                          THEN data[i - tail + 1] ELSE buf[i]]
  BY DEF CopiedIn
<1> HIDE DEF len, cont, used
<1>3. ASSUME NEW k \in 1..len PROVE b[Wrap(tail + k - 1)] = data[k]
  <2>1. CASE tail + k - 1 <= Size
    <3> DEFINE i == tail + k - 1
    <3>1. Wrap(i) = i /\ i \in Cell
      BY <1>1, <2>1 DEF Wrap, Cell
    <3>2. /\ ~(i < len - cont) /\ i >= tail /\ i < tail + len /\ i < tail + cont
          /\ i - tail + 1 = k
      BY <1>1, <2>1
    <3> HIDE DEF i
    <3> QED BY <1>2, <3>1, <3>2 DEF i
  <2>2. CASE ~(tail + k - 1 <= Size)
    <3> DEFINE i == tail + k - 1 - (Size + 1)
    <3>1. Wrap(tail + k - 1) = i /\ i \in Cell
      BY <1>1, <2>2 DEF Wrap, Cell
    <3>2. i < len - cont /\ cont + i + 1 = k
      BY <1>1, <2>2
    <3> HIDE DEF i
    <3> QED BY <1>2, <3>1, <3>2
  <2> QED BY <2>1, <2>2
<1>4. ASSUME NEW k \in 1..used PROVE b[Wrap(head + k - 1)] = buf[Wrap(head + k - 1)]
  <2> DEFINE i == Wrap(head + k - 1)
  <2>1. /\ i \in Cell /\ ~(i < len - cont)
        /\ ~(i >= tail /\ i < tail + len /\ i < tail + cont)
    BY <1>1 DEF Wrap, Cell
  <2> HIDE DEF i
  <2> QED BY <1>2, <2>1 DEF i
<1> QED BY <1>3, <1>4 DEF len, used

(* The memcpys of a read or a pop deliver the bytes from head on. *)
LEMMA CopyDelivers ==
    ASSUME Apart(head, tail), head # Size + 1, NEW n \in Nat, n <= Used(head, tail)
    PROVE  CopiedOut(n, Contiguous(head)) = [k \in 1..n |-> buf[Wrap(head + k - 1)]]
<1>1. /\ Used(head, tail) \in 0..Size /\ head \in Nat /\ head <= Size /\ Size \in Nat
  BY UsedBounds
<1>2. ASSUME NEW k \in 1..n
      PROVE  (IF k <= Contiguous(head) THEN buf[head + k - 1] ELSE buf[k - Contiguous(head) - 1])
               = buf[Wrap(head + k - 1)]
  BY <1>1 DEF Contiguous, Wrap
<1> QED BY <1>2 DEF CopiedOut

(* What the writing thread relies on survives a pop, ... *)
LEMMA PushesKept ==
    ASSUME NEW v, Len(v.data) \in Nat, NEW h, NEW t, NEW b, NEW h2, Apart(h, t), Apart(h2, t),
           Used(h2, t) <= Used(h, t), h <= t /\ t # Size + 1 => h2 <= t, Pushes(v, h, t, b)
    PROVE  Pushes(v, h2, t, b)
<1>1. /\ Used(h, t) \in Nat /\ Used(h2, t) \in Nat /\ Size \in Nat
  BY UsedBounds
<1>2. v.pc \in Holding => Len(v.data) <= Size - Used(h2, t)
  BY <1>1 DEF Pushes
<1>3. v.pc = "below" => t # Size + 1
  BY DEF Pushes
<1> QED BY <1>2, <1>3 DEF Pushes

(* ... and what the reading thread relies on survives a push. *)
LEMMA PopsKept ==
    ASSUME NEW u, u.n \in Nat, NEW h, NEW t, NEW b, NEW t2, NEW b2, Apart(h, t), Apart(h, t2),
           Used(h, t) <= Used(h, t2), h # t => h # t2, h > t => h > t2,
           \A k \in 1..Used(h, t) : b2[Wrap(h + k - 1)] = b[Wrap(h + k - 1)],
           Pops(u, h, t, b)
    PROVE  Pops(u, h, t2, b2)
<1>1. /\ Used(h, t) \in Nat /\ Used(h, t2) \in Nat
  BY UsedBounds
<1>2. u.pc \in Holding => u.n <= Used(h, t2)
  BY <1>1 DEF Pops
<1>3. ASSUME u.pc \in {"add", "store", "last"}
      PROVE  u.out = [k \in 1..u.n |-> b2[Wrap(h + k - 1)]]
  <2>1. u.n <= Used(h, t) /\ u.out = [k \in 1..u.n |-> b[Wrap(h + k - 1)]]
    BY <1>3 DEF Pops, Holding
  <2>2. \A k \in 1..u.n : b2[Wrap(h + k - 1)] = b[Wrap(h + k - 1)]
    BY <1>1, <2>1
  <2> QED BY <2>1, <2>2
<1> QED BY <1>2, <1>3 DEF Pops

(* A step that leaves the bytes held and the reply alone. *)
LEMMA Quiet ==
    ASSUME conn # "dropping", conn' = conn, Apart(head, tail), Apart(head', tail'),
           Held(head', tail', buf') = Held(head, tail, buf), reply' = reply
    PROVE  UNCHANGED Queue!qvars
<1>1. Contents' = Contents
  BY HeldNow, HeldNext
<1> QED BY <1>1 DEF Queue!qvars

(* A thread's turn: either a race, or both threads are as described. *)
LEMMA TurnOver ==
    ASSUME ApartInv, NEW thread, NEW race, Turn(thread, race), conn' = conn, use' = use,
           use # "olsr_tx_msgbuf" /\ conn # "dropping" /\ ~race /\ TwoThreads =>
              TwoThreads' /\ (Answered \/ UNCHANGED Queue!qvars)
    PROVE  ApartInv' /\ [raced' \/ Answered]_<<Queue!qvars, raced>>
<1>1. raced' \in BOOLEAN /\ raced \in BOOLEAN
  BY Zenon DEF Turn, ApartInv
<1>2. CASE raced'
  BY <1>1, <1>2 DEF ApartInv
<1>3. CASE ~raced'
  <2>1. /\ ~raced /\ conn # "dropping" /\ ~race /\ use # "olsr_tx_msgbuf"
    BY <1>3, Zenon DEF Turn
  <2>2. TwoThreads
    BY <2>1 DEF ApartInv
  <2>3. TwoThreads' /\ (Answered \/ UNCHANGED Queue!qvars)
    BY <2>1, <2>2
  <2>4. raced' = raced
    BY <1>1, <1>3, <2>1
  <2>5. ApartInv'
    BY <1>1, <2>1, <2>3 DEF ApartInv
  <2> QED BY <2>3, <2>4, <2>5
<1> QED BY <1>2, <1>3

(* A thread that is outside of a call, or at the start of one, relies on   *)
(* nothing.                                                                *)
LEMMA PushesNothing ==
    ASSUME NEW v, v.pc \in {"out", "eq", "lt", "above", "wrap"}, NEW h, NEW t, NEW b,
           t = Size + 1 => v.pc = "wrap"
    PROVE  Pushes(v, h, t, b)
BY DEF Pushes, Holding

(* So does the reading thread. *)
LEMMA PopsNothing ==
    ASSUME NEW u, u.pc \in {"out", "eq", "below", "wrap"}, NEW h, NEW t, NEW b,
           h = Size + 1 => u.pc = "wrap"
    PROVE  Pops(u, h, t, b)
BY DEF Pops, Holding

(* A step of the writing thread that moves its own pc only. *)
LEMMA WriterMoves ==
    ASSUME TwoThreads, conn # "dropping", conn' = conn, UNCHANGED <<head, tail, buf, reply, r>>,
           Pushes(w', head, tail, buf)
    PROVE  TwoThreads' /\ UNCHANGED Queue!qvars
<1>1. TwoThreads'
  BY DEF TwoThreads
<1> QED BY <1>1, Quiet DEF TwoThreads

(* The same for the reading thread. *)
LEMMA ReaderMoves ==
    ASSUME TwoThreads, conn # "dropping", conn' = conn, UNCHANGED <<head, tail, buf, reply, w>>,
           Pops(r', head, tail, buf)
    PROVE  TwoThreads' /\ UNCHANGED Queue!qvars
<1>1. TwoThreads'
  BY DEF TwoThreads
<1> QED BY <1>1, Quiet DEF TwoThreads

(* The types of both threads, for the steps below. *)
LEMMA ThreadTypes ==
    ASSUME ServerInv
    PROVE  /\ buf \in [Cell -> Byte] /\ w \in Writer /\ r \in Reader
           /\ w.data \in Seq(Byte) /\ Len(w.data) \in Nat /\ w.tmp \in Int
           /\ r.n \in Nat /\ r.tmp \in Int /\ r.out \in Seq(Byte)
BY DEF ServerInv, SharedInv, WriterInv, ReaderInv, Writer, Reader

(* A size measured while the other thread works is right or too small,     *)
(* whichever accesses it fell between.                                     *)
LEMMA MeasuredRoom ==
    ASSUME Apart(head, tail), NEW pc \in Measuring, NEW m, m = Measured(pc),
           NEW len \in Nat
    PROVE  /\ (pc = "below" => head <= tail) /\ m.pc = "got" /\ len <= m.remain =>
                 len <= Size - Used(head, tail)
           /\ (pc = "above" => head > tail) /\ m.pc = "got" /\ len <= Size - m.remain =>
                 len <= Used(head, tail)
           /\ m.pc = "got" \/ m.pc \in {"lt", "below", "above"}
           /\ m.pc = "lt" => head # tail
           /\ m.pc = "below" => head < tail
           /\ m.pc = "above" => head >= tail /\ pc = "lt"
<1>1. /\ Size \in Nat /\ head \in Nat /\ tail \in Nat /\ head <= Size + 1 /\ tail <= Size + 1
      /\ Used(head, tail) = IF head <= tail THEN tail - head ELSE tail + Size + 1 - head
  BY UsedBounds DEF Used
<1>2. CASE pc = "eq"
  <2>1. m = IF head = tail THEN [pc |-> "got", remain |-> Size] ELSE [pc |-> "lt", remain |-> 0]
    BY <1>2 DEF Measured
  <2> QED BY <1>1, <1>2, <2>1
<1>3. CASE pc = "lt"
  <2>1. m = [pc |-> IF head < tail THEN "below" ELSE "above", remain |-> 0]
    BY <1>3 DEF Measured
  <2> QED BY <1>1, <1>3, <2>1
<1>4. CASE pc = "below"
  <2>1. m = [pc |-> "got", remain |-> Size - (tail - head)]
    BY <1>4 DEF Measured
  <2> QED BY <1>1, <1>4, <2>1
<1>5. CASE pc = "above"
  <2>1. m = [pc |-> "got", remain |-> head - tail - 1]
    BY <1>5 DEF Measured
  <2> QED BY <1>1, <1>5, <2>1
<1> QED BY <1>2, <1>3, <1>4, <1>5 DEF Measuring

(* RingBuffer_push up to the copy. *)
LEMMA PushServes ==
    ASSUME ServerInv, TwoThreads, conn # "dropping", WMeasure \/ WCont \/ WCopy \/ WAdd
    PROVE  TwoThreads' /\ UNCHANGED Queue!qvars
<1>1. /\ conn' = conn /\ UNCHANGED <<head, tail, reply, r>>
  BY DEF WMeasure, WCont, WCopy, WAdd
<1>2. /\ Apart(head, tail) /\ Pushes(w, head, tail, buf) /\ Pops(r, head, tail, buf)
  BY DEF TwoThreads
<1>3. w.pc # "wrap" /\ tail # Size + 1
  BY <1>2 DEF WMeasure, WCont, WCopy, WAdd, Pushes
<1>4. /\ Used(head, tail) \in 0..Size /\ head \in Nat /\ tail \in Nat /\ Size \in Nat
      /\ tail <= Size
  BY <1>2, <1>3, UsedBounds
<1>5. CASE WMeasure
  <2>1. PICK m : m = Measured(w.pc)
    OBVIOUS
  <2>2. /\ w.pc \in Measuring /\ UNCHANGED buf
        /\ IF m.pc = "got" /\ Len(w.data) > m.remain THEN WReturn
           ELSE w' = [w EXCEPT !.pc = IF m.pc = "got" THEN "cont" ELSE m.pc]
    BY <1>5, <2>1 DEF WMeasure, Measuring
  <2>3. m.remain \in Int
    BY <2>1, <2>2, MeasuredBounds DEF ServerInv, SharedInv
  <2>4. /\ m.pc = "got" /\ Len(w.data) <= m.remain => Len(w.data) <= Size - Used(head, tail)
        /\ m.pc = "got" \/ m.pc \in {"lt", "below", "above"}
        /\ m.pc = "below" => head < tail
    BY <1>2, <2>1, <2>2, MeasuredRoom, ThreadTypes DEF Pushes
  <2>5. Pushes(w', head, tail, buf)
    <3>1. CASE m.pc = "got" /\ Len(w.data) > m.remain
      <4>1. w'.pc = "out"
        BY <2>2, <3>1 DEF WReturn, WIdle
      <4> QED BY <1>3, <4>1, PushesNothing
    <3>2. CASE m.pc = "got" /\ ~(Len(w.data) > m.remain)
      <4>1. w'.pc = "cont" /\ w'.data = w.data
        BY <2>2, <3>2, ThreadTypes DEF Writer
      <4>2. Len(w.data) <= Size - Used(head, tail)
        BY <2>3, <2>4, <3>2, ThreadTypes
      <4> QED BY <1>3, <4>1, <4>2 DEF Pushes
    <3>3. CASE m.pc # "got"
      <4>1. w'.pc = m.pc /\ m.pc \in {"lt", "below", "above"}
        BY <2>2, <2>4, <3>3, ThreadTypes DEF Writer
      <4>2. m.pc = "below" => head <= tail
        BY <1>4, <2>4
      <4> QED BY <1>3, <4>1, <4>2 DEF Pushes, Holding
    <3> QED BY <3>1, <3>2, <3>3
  <2> QED BY <1>1, <2>2, <2>5, WriterMoves
<1>6. CASE WCont
  <2>1. /\ w.pc = "cont" /\ UNCHANGED buf
        /\ w'.pc = "copy" /\ w'.data = w.data /\ w'.tmp = Contiguous(tail)
    BY <1>6, ThreadTypes DEF WCont, Writer
  <2>2. Pushes(w', head, tail, buf)
    BY <1>2, <1>3, <2>1 DEF Pushes, Holding
  <2> QED BY <1>1, <2>1, <2>2, WriterMoves
<1>7. CASE WCopy
  <2>1. /\ w.pc = "copy" /\ w.tmp = Contiguous(tail) /\ Len(w.data) <= Size - Used(head, tail)
        /\ buf' = CopiedIn(w.data, Contiguous(tail))
        /\ w'.pc = "add" /\ w'.data = w.data /\ w'.tmp = w.tmp
    BY <1>2, <1>7, ThreadTypes DEF WCopy, Writer, Pushes, Holding
  <2>2. /\ \A k \in 1..Len(w.data) : buf'[Wrap(tail + k - 1)] = w.data[k]
        /\ \A k \in 1..Used(head, tail) : buf'[Wrap(head + k - 1)] = buf[Wrap(head + k - 1)]
    BY <1>2, <1>3, <2>1, CopyFills, ThreadTypes
  <2>3. Pushes(w', head, tail, buf')
    BY <1>3, <2>1, <2>2 DEF Pushes, Holding
  <2>4. Pops(r, head, tail, buf')
    <3>1. r.n \in Nat /\ Used(head, tail) <= Used(head, tail)
      BY <1>4, ThreadTypes
    <3> QED BY <1>2, <2>2, <3>1, PopsKept
  <2>5. Held(head, tail, buf') = Held(head, tail, buf)
    BY <2>2 DEF Held
  <2>6. TwoThreads'
    BY <1>1, <1>2, <2>3, <2>4 DEF TwoThreads
  <2> QED BY <1>1, <1>2, <2>5, <2>6, Quiet
<1>8. CASE WAdd
  <2>1. /\ w.pc = "add" /\ w.tmp = Contiguous(tail) /\ Len(w.data) <= Size - Used(head, tail)
        /\ UNCHANGED buf /\ w'.data = w.data
        /\ \A k \in 1..Len(w.data) : buf[Wrap(tail + k - 1)] = w.data[k]
        /\ IF w.tmp < Len(w.data) THEN w'.pc = "last" /\ w'.tmp = Len(w.data) - w.tmp
                                  ELSE w'.pc = "store" /\ w'.tmp = tail + Len(w.data)
    BY <1>2, <1>8, ThreadTypes DEF WAdd, Writer, Pushes, Holding
  <2>2. /\ w'.pc \in {"store", "last"} /\ w'.tmp = Forward(tail, Len(w.data))
        /\ w'.pc = "store" => tail + Len(w.data) <= Size + 1
        /\ w'.pc = "last" => tail + Len(w.data) > Size + 1
    BY <1>4, <2>1, ThreadTypes DEF Forward, Contiguous
  <2>3. Pushes(w', head, tail, buf)
    BY <1>3, <2>1, <2>2 DEF Pushes, Holding
  <2> QED BY <1>1, <2>1, <2>3, WriterMoves
<1> QED BY <1>5, <1>6, <1>7, <1>8

(* The first or only store to tail of a push: its bytes are appended. *)
LEMMA PushAnswers ==
    ASSUME ServerInv, TwoThreads, conn # "dropping", WStore
    PROVE  TwoThreads' /\ Queue!QPush(w.data)
<1>1. /\ conn' = conn /\ UNCHANGED <<head, buf, r>> /\ w.pc \in {"store", "last"}
      /\ tail' = w.tmp /\ reply' = Done(<<>>)
      /\ IF w.pc = "last" THEN WReturn ELSE w' = [w EXCEPT !.pc = "wrap"]
  BY DEF WStore
<1>2. /\ Apart(head, tail) /\ Pushes(w, head, tail, buf) /\ Pops(r, head, tail, buf)
  BY DEF TwoThreads
<1>3. /\ tail # Size + 1 /\ tail' = Forward(tail, Len(w.data))
      /\ Len(w.data) <= Size - Used(head, tail)
      /\ \A k \in 1..Len(w.data) : buf[Wrap(tail + k - 1)] = w.data[k]
      /\ w.pc = "last" => tail + Len(w.data) > Size + 1
  BY <1>1, <1>2 DEF Pushes, Holding
<1>4. /\ Apart(head, tail') /\ Used(head, tail') = Used(head, tail) + Len(w.data)
      /\ head # tail => head # tail'
      /\ head > tail => head > tail'
      /\ w.pc = "last" => tail' # Size + 1
  BY <1>2, <1>3, TailForward, ThreadTypes
<1>5. Used(head, tail) \in 0..Size /\ Size \in Nat
  BY <1>2, UsedBounds
<1>6. Pops(r, head, tail', buf)
  BY <1>2, <1>4, <1>5, PopsKept, ThreadTypes
<1>7. w'.pc = IF w.pc = "last" THEN "out" ELSE "wrap"
  BY <1>1, ThreadTypes DEF WReturn, WIdle, Writer
<1>8. Pushes(w', head, tail', buf)
  BY <1>4, <1>7, PushesNothing
<1>9. TwoThreads'
  BY <1>1, <1>4, <1>6, <1>8 DEF TwoThreads
<1>10. Held(head, tail', buf) = Held(head, tail, buf) \o w.data
  <2> DEFINE data == w.data
  <2>1. data \in Seq(Byte) /\ buf \in [Cell -> Byte]
    BY ThreadTypes
  <2>2. /\ Len(data) <= Size - Used(head, tail) /\ tail' = Forward(tail, Len(data))
        /\ \A k \in 1..Len(data) : buf[Wrap(tail + k - 1)] = data[k]
    BY <1>3
  <2> HIDE DEF data
  <2>3. Held(head, tail', buf) = Held(head, tail, buf) \o data
    BY <1>2, <1>3, <2>1, <2>2, TailAppends
  <2> QED BY <2>3 DEF data
<1>11. Contents' = Contents \o w.data
  BY <1>1, <1>2, <1>4, <1>10, HeldNow, HeldNext
<1>12. Len(Contents) + Len(w.data) <= Size
  BY <1>2, <1>3, <1>5, HeldNow, HeldSeq, ThreadTypes
<1>13. Queue!QPush(w.data)
  BY <1>1, <1>11, <1>12 DEF Queue!QPush, Queue!Served, Done
<1> QED BY <1>9, <1>13

(* The second store. *)
LEMMA PushReturns ==
    ASSUME ServerInv, TwoThreads, conn # "dropping", WWrap
    PROVE  TwoThreads' /\ UNCHANGED Queue!qvars
<1>1. /\ conn' = conn /\ UNCHANGED <<head, buf, r, reply>>
      /\ tail' = tail % (Size + 1) /\ w'.pc = "out"
  BY DEF WWrap, WReturn, WIdle
<1>2. /\ Apart(head, tail) /\ Pushes(w, head, tail, buf) /\ Pops(r, head, tail, buf)
  BY DEF TwoThreads
<1>3. tail' = IF tail = Size + 1 THEN 0 ELSE tail
  BY <1>1, <1>2, WrapOnce DEF Apart
<1>4. /\ Apart(head, tail') /\ Used(head, tail') = Used(head, tail)
      /\ head # tail => head # tail'
      /\ head > tail => head > tail'
      /\ Held(head, tail', buf) = Held(head, tail, buf) /\ tail' # Size + 1
  <2>1. CASE tail = Size + 1
    BY <1>2, <1>3, <2>1, TailWraps, HeldWraps, SizeAssumption
  <2>2. CASE tail # Size + 1
    BY <1>2, <1>3, <2>2
  <2> QED BY <2>1, <2>2
<1>5. Used(head, tail) \in Nat
  BY <1>2, UsedBounds
<1>6. Pops(r, head, tail', buf)
  BY <1>2, <1>4, <1>5, PopsKept, ThreadTypes
<1>7. Pushes(w', head, tail', buf)
  BY <1>1, <1>4, PushesNothing
<1>8. TwoThreads'
  BY <1>1, <1>4, <1>6, <1>7 DEF TwoThreads
<1> QED BY <1>1, <1>2, <1>4, <1>8, Quiet

(* send_json_to_front and recv in do_server: a push begins. *)
LEMMA PushStarts ==
    ASSUME TwoThreads, conn # "dropping",
           \/ \E len \in BodyLens : SendHeader(len)
           \/ \E n \in 1..(IoSize - 1) : RecvChunk(n)
           \/ SendBody
    PROVE  TwoThreads' /\ UNCHANGED Queue!qvars
<1>1. /\ conn' = conn /\ UNCHANGED <<head, tail, buf, reply, r>> /\ w.pc = "out" /\ w'.pc = "eq"
  <2>1. ASSUME NEW len, SendHeader(len)
        PROVE  /\ UNCHANGED <<conn, head, tail, buf, reply, r>>
               /\ w.pc = "out" /\ Pushing(<<High, len>>, "header")
    BY <2>1 DEF SendHeader
  <2>2. ASSUME NEW n, RecvChunk(n)
        PROVE  /\ UNCHANGED <<conn, head, tail, buf, reply, r>> /\ w.pc = "out"
               /\ \E data : Pushing(data, "rest")
    BY <2>2 DEF RecvChunk
  <2>3. ASSUME SendBody
        PROVE  /\ UNCHANGED <<conn, head, tail, buf, reply, r>>
               /\ w.pc = "out" /\ Pushing(stream, "rest")
    BY <2>3 DEF SendBody
  <2>4. \A data, at : Pushing(data, at) => w'.pc = "eq"
    BY DEF Pushing
  <2> QED BY <2>1, <2>2, <2>3, <2>4
<1>2. tail # Size + 1
  BY <1>1 DEF TwoThreads, Pushes
<1>3. Pushes(w', head, tail, buf)
  BY <1>1, <1>2, PushesNothing
<1> QED BY <1>1, <1>3, WriterMoves

(* After a call the reading thread is outside of one or begins the next. *)
LEMMA CallEnds ==
    /\ \A readable : Found(readable) => r'.pc \in {"out", "eq"}
    /\ r.at \in {"pop", "peek", "header", "json"} =>
          \A bytes : Returned(bytes) => r'.pc \in {"out", "eq"}
<1>1. /\ r' = RIdle => r'.pc = "out"
      /\ \A at, n, canread : Calling(at, n, canread) => r'.pc = "eq"
  BY DEF RIdle, Calling
<1>2. ASSUME NEW readable, Found(readable) PROVE r'.pc \in {"out", "eq"}
  BY <1>1, <1>2 DEF Found
<1>3. ASSUME r.at \in {"pop", "peek", "header", "json"}, NEW bytes, Returned(bytes)
      PROVE  r'.pc \in {"out", "eq"}
  <2>1. CASE r.at = "pop"
    BY <1>1, <1>3, <2>1 DEF Returned
  <2>2. CASE r.at = "peek"
    BY <1>1, <1>3, <2>2 DEF Returned
  <2>3. CASE r.at = "header"
    BY <1>1, <1>3, <2>3 DEF Returned
  <2>4. CASE r.at = "json"
    BY <1>1, <1>3, <2>4 DEF Returned
  <2> QED BY <1>3, <2>1, <2>2, <2>3, <2>4
<1> QED BY <1>2, <1>3

(* RingBuffer_read and RingBuffer_pop up to the copy, and the size query. *)
LEMMA PopServes ==
    ASSUME ServerInv, TwoThreads, conn # "dropping", RStart \/ RMeasure \/ RCont \/ RAdd
    PROVE  TwoThreads' /\ UNCHANGED Queue!qvars
<1>1. /\ conn' = conn /\ UNCHANGED <<head, tail, buf, reply, w>>
  BY DEF RStart, RMeasure, RCont, RAdd
<1>2. /\ Apart(head, tail) /\ Pops(r, head, tail, buf)
  BY DEF TwoThreads
<1>3. head # Size + 1
  BY <1>2 DEF RStart, RMeasure, RCont, RAdd, Pops
<1>4. /\ Used(head, tail) \in 0..Size /\ head \in Nat /\ tail \in Nat /\ Size \in Nat
      /\ head <= Size
  BY <1>2, <1>3, UsedBounds
<1> SUFFICES Pops(r', head, tail, buf)
  BY <1>1, ReaderMoves
<1>5. CASE RStart
  <2>1. r'.pc = "eq"
    BY <1>5 DEF RStart, Calling
  <2> QED BY <1>3, <2>1, PopsNothing
<1>6. CASE RMeasure
  <2>1. PICK m : m = Measured(r.pc)
    OBVIOUS
  <2>2. PICK readable : readable = Size - m.remain
    OBVIOUS
  <2>3. /\ r.pc \in Measuring
        /\ IF m.pc # "got" THEN r' = [r EXCEPT !.pc = m.pc]
           ELSE IF r.at = "readable" THEN Found(IF readable < 0 THEN Huge ELSE readable)
           ELSE IF r.n > readable THEN Returned(Garbage(r.n))
           ELSE r' = [r EXCEPT !.pc = "cont"]
    BY <1>6, <2>1, <2>2 DEF RMeasure, Measuring
  <2>4. m.remain \in Int
    BY <2>1, <2>3, MeasuredBounds DEF ServerInv, SharedInv
  <2>5. /\ m.pc = "got" /\ r.n <= Size - m.remain => r.n <= Used(head, tail)
        /\ m.pc = "got" \/ m.pc \in {"lt", "below", "above"}
        /\ m.pc = "lt" => head # tail
        /\ m.pc = "above" => head >= tail /\ r.pc = "lt"
    BY <1>2, <2>1, <2>3, MeasuredRoom, ThreadTypes DEF Pops
  <2>6. r.at = "readable" \/ r.at \in {"pop", "peek", "header", "json"}
    BY <2>3 DEF ServerInv, ReaderInv, Reader
  <2>7. CASE m.pc # "got"
    <3>1. r'.pc = m.pc /\ m.pc \in {"lt", "below", "above"}
      BY <2>3, <2>5, <2>7, ThreadTypes DEF Reader
    <3>2. m.pc = "above" => head > tail
      BY <1>2, <1>4, <2>5 DEF Pops
    <3> QED BY <1>3, <2>5, <3>1, <3>2 DEF Pops, Holding
  <2>8. CASE m.pc = "got" /\ (r.at = "readable" \/ r.n > readable)
    <3>1. r'.pc \in {"out", "eq"}
      BY <2>3, <2>6, <2>8, CallEnds
    <3> QED BY <1>3, <3>1, PopsNothing
  <2>9. CASE m.pc = "got" /\ r.at # "readable" /\ ~(r.n > readable)
    <3>1. r'.pc = "cont" /\ r'.n = r.n
      BY <2>3, <2>9, ThreadTypes DEF Reader
    <3>2. r.n <= Used(head, tail)
      BY <1>4, <2>2, <2>4, <2>5, <2>9, ThreadTypes
    <3> QED BY <1>3, <3>1, <3>2 DEF Pops, Holding
  <2> QED BY <2>7, <2>8, <2>9
<1>7. CASE RCont
  <2>1. r.pc = "cont" /\ r'.pc = "copy" /\ r'.n = r.n /\ r'.tmp = Contiguous(head)
    BY <1>7, ThreadTypes DEF RCont, Reader
  <2> QED BY <1>2, <1>3, <2>1 DEF Pops, Holding
<1>8. CASE RAdd
  <2>1. /\ r.pc = "add" /\ r.tmp = Contiguous(head) /\ r.n <= Used(head, tail)
        /\ r'.n = r.n /\ r'.out = r.out
        /\ r.out = [k \in 1..r.n |-> buf[Wrap(head + k - 1)]]
        /\ IF r.tmp < r.n THEN r'.pc = "last" /\ r'.tmp = r.n - r.tmp
                          ELSE r'.pc = "store" /\ r'.tmp = head + r.n
    BY <1>2, <1>8, ThreadTypes DEF RAdd, Reader, Pops, Holding
  <2>2. /\ r'.pc \in {"store", "last"} /\ r'.tmp = Forward(head, r.n)
        /\ r'.pc = "last" => head + r.n > Size + 1
    BY <1>4, <2>1, ThreadTypes DEF Forward, Contiguous
  <2> QED BY <1>3, <2>1, <2>2 DEF Pops, Holding
<1> QED BY <1>5, <1>6, <1>7, <1>8

(* The copy: of a read it is the end. *)
LEMMA ReadAnswers ==
    ASSUME ServerInv, TwoThreads, conn # "dropping", RCopy
    PROVE  TwoThreads' /\ IF r.at = "peek" THEN Queue!QRead(r.n) ELSE UNCHANGED Queue!qvars
<1>1. /\ conn' = conn /\ UNCHANGED <<head, tail, buf, w>> /\ r.pc = "copy"
  BY DEF RCopy
<1>2. /\ Apart(head, tail) /\ Pushes(w, head, tail, buf) /\ Pops(r, head, tail, buf)
  BY DEF TwoThreads
<1>3. head # Size + 1 /\ r.n <= Used(head, tail) /\ r.tmp = Contiguous(head)
  BY <1>1, <1>2 DEF Pops, Holding
<1>4. PICK out : out = CopiedOut(r.n, r.tmp)
  OBVIOUS
<1>5. out = [k \in 1..r.n |-> buf[Wrap(head + k - 1)]]
  BY <1>2, <1>3, <1>4, CopyDelivers, ThreadTypes
<1>6. IF r.at = "peek" THEN Returned(out) /\ reply' = Done(out)
      ELSE r' = [r EXCEPT !.pc = "add", !.out = out] /\ UNCHANGED reply
  BY <1>4 DEF RCopy
<1>7. CASE r.at = "peek"
  <2>1. r'.pc \in {"out", "eq"}
    BY <1>6, <1>7, CallEnds
  <2>2. Pops(r', head, tail, buf)
    BY <1>3, <2>1, PopsNothing
  <2>3. TwoThreads'
    BY <1>1, <1>2, <2>2 DEF TwoThreads
  <2>4. out = SubSeq(Held(head, tail, buf), 1, r.n)
    BY <1>2, <1>3, <1>5, HeadShortens, ThreadTypes
  <2>5. Contents' = Contents /\ Contents = Held(head, tail, buf)
    BY <1>1, <1>2, HeldNow, HeldNext
  <2>6. r.n <= Len(Contents)
    BY <1>2, <1>3, <2>5, HeldSeq, ThreadTypes
  <2>7. Queue!QRead(r.n)
    BY <1>1, <1>6, <1>7, <2>4, <2>5, <2>6 DEF Queue!QRead, Queue!Served, Done
  <2> QED BY <1>7, <2>3, <2>7
<1>8. CASE r.at # "peek"
  <2>1. r'.pc = "add" /\ r'.n = r.n /\ r'.tmp = r.tmp /\ r'.out = out /\ UNCHANGED reply
    BY <1>6, <1>8, ThreadTypes DEF Reader
  <2>2. Pops(r', head, tail, buf)
    BY <1>3, <1>5, <2>1 DEF Pops, Holding
  <2> QED BY <1>1, <1>8, <2>1, <2>2, ReaderMoves
<1> QED BY <1>7, <1>8

(* The first or only store to head of a pop: its bytes are gone. *)
LEMMA PopAnswers ==
    ASSUME ServerInv, TwoThreads, conn # "dropping", RStore
    PROVE  TwoThreads' /\ Queue!QPop(r.n)
<1>1. /\ conn' = conn /\ UNCHANGED <<tail, buf, w>> /\ r.pc \in {"store", "last"}
      /\ head' = r.tmp /\ reply' = Done(r.out)
      /\ IF r.pc = "last" THEN Returned(r.out) ELSE r' = [r EXCEPT !.pc = "wrap"]
  BY DEF RStore
<1>2. /\ Apart(head, tail) /\ Pushes(w, head, tail, buf) /\ Pops(r, head, tail, buf)
  BY DEF TwoThreads
<1>3. /\ head # Size + 1 /\ head' = Forward(head, r.n) /\ r.n <= Used(head, tail)
      /\ r.out = [k \in 1..r.n |-> buf[Wrap(head + k - 1)]]
  BY <1>1, <1>2 DEF Pops, Holding
<1>4. /\ Apart(head', tail) /\ Used(head', tail) = Used(head, tail) - r.n
      /\ head <= tail /\ tail # Size + 1 => head' <= tail
      /\ head + r.n > Size + 1 => head' # Size + 1
  BY <1>2, <1>3, HeadForward, ThreadTypes
<1>5. Used(head, tail) \in 0..Size /\ Size \in Nat
  BY <1>2, UsedBounds
<1>6. Pushes(w, head', tail, buf)
  BY <1>2, <1>4, <1>5, PushesKept, ThreadTypes
<1>7. /\ w.data \in Seq(Byte) /\ r.n \in Nat /\ buf \in [Cell -> Byte]
  BY ThreadTypes
<1>8. Pops(r', head', tail, buf)
  <2>1. CASE r.pc = "store"
    <3>1. r'.pc = "wrap"
      BY <1>1, <2>1, ThreadTypes DEF Reader
    <3> QED BY <3>1, PopsNothing
  <2>2. CASE r.pc = "last"
    <3>1. r.at \in {"pop", "peek", "header", "json"}
      BY <2>2 DEF ServerInv, ReaderInv, Reader, Serving, Moving
    <3>2. r'.pc \in {"out", "eq"}
      BY <1>1, <2>2, <3>1, CallEnds
    <3>3. head' # Size + 1
      BY <1>2, <1>4, <2>2 DEF Pops
    <3> QED BY <3>2, <3>3, PopsNothing
  <2> QED BY <1>1, <2>1, <2>2
<1>9. TwoThreads'
  BY <1>1, <1>4, <1>6, <1>8 DEF TwoThreads
<1> DEFINE held == Held(head, tail, buf)
<1>10. Held(head', tail, buf) = SubSeq(held, r.n + 1, Len(held)) /\ r.out = SubSeq(held, 1, r.n)
  <2> DEFINE n == r.n
             out == r.out
  <2>1. n \in Nat /\ n <= Used(head, tail) /\ head' = Forward(head, n)
    BY <1>3, <1>7
  <2>2. out = [k \in 1..n |-> buf[Wrap(head + k - 1)]]
    BY <1>3
  <2> HIDE DEF n, out
  <2>3. /\ Held(head', tail, buf) = SubSeq(held, n + 1, Len(held))
        /\ [k \in 1..n |-> buf[Wrap(head + k - 1)]] = SubSeq(held, 1, n)
    BY <1>2, <1>3, <1>7, <2>1, HeadShortens
  <2> QED BY <2>2, <2>3 DEF n, out
<1>11. /\ Contents' = SubSeq(Contents, r.n + 1, Len(Contents)) /\ r.out = SubSeq(Contents, 1, r.n)
       /\ Len(Contents) = Used(head, tail)
  BY <1>1, <1>2, <1>4, <1>7, <1>10, HeldNow, HeldNext, HeldSeq
<1>12. Queue!QPop(r.n)
  BY <1>1, <1>3, <1>11 DEF Queue!QPop, Queue!Served, Done
<1> QED BY <1>9, <1>12

(* The second store, unless tail is between its two stores as well. *)
LEMMA PopReturns ==
    ASSUME ServerInv, TwoThreads, conn # "dropping", ~(head = Size + 1 /\ tail = Size + 1), RWrap
    PROVE  TwoThreads' /\ UNCHANGED Queue!qvars
<1>1. /\ conn' = conn /\ UNCHANGED <<tail, buf, w, reply>>
      /\ head' = head % (Size + 1) /\ r.pc = "wrap" /\ Returned(r.out)
  BY DEF RWrap
<1>2. /\ Apart(head, tail) /\ Pushes(w, head, tail, buf) /\ Pops(r, head, tail, buf)
  BY DEF TwoThreads
<1>3. head' = IF head = Size + 1 THEN 0 ELSE head
  BY <1>1, <1>2, WrapOnce DEF Apart
<1>4. r'.pc \in {"out", "eq"}
  <2>1. r.at \in {"pop", "peek", "header", "json"}
    BY <1>1 DEF ServerInv, ReaderInv, Reader, Serving, Moving
  <2> QED BY <1>1, <2>1, CallEnds
<1>5. Used(head, tail) \in Nat /\ Size \in Nat /\ head \in Nat /\ tail \in Nat /\ tail <= Size + 1
  BY <1>2, UsedBounds
<1>6. /\ Apart(head', tail) /\ Used(head', tail) = Used(head, tail)
      /\ head <= tail /\ tail # Size + 1 => head' <= tail
      /\ Held(head', tail, buf) = Held(head, tail, buf) /\ head' # Size + 1
  <2>1. CASE head = Size + 1
    <3>1. tail # Size + 1 /\ ~(head <= tail) /\ head' = 0
      BY <1>3, <1>5, <2>1
    <3> QED BY <1>2, <1>5, <2>1, <3>1, HeadWraps, HeldWraps
  <2>2. CASE head # Size + 1
    BY <1>2, <1>3, <2>2
  <2> QED BY <2>1, <2>2
<1>7. Pushes(w, head', tail, buf)
  BY <1>2, <1>5, <1>6, PushesKept, ThreadTypes
<1>8. Pops(r', head', tail, buf)
  BY <1>4, <1>6, PopsNothing
<1>9. TwoThreads'
  BY <1>1, <1>6, <1>7, <1>8 DEF TwoThreads
<1> QED BY <1>1, <1>2, <1>6, <1>9, Quiet

(* RingBuffer_drop_buffer and accept in the TCP thread: a drop that finds  *)
(* the main thread outside of a call ends every race there was.            *)
LEMMA DropAnswers ==
    ASSUME ServerInv, ApartInv, Drop \/ Dropped \/ Accept
    PROVE  ApartInv' /\ [raced' \/ Answered]_<<Queue!qvars, raced>>
<1>1. raced \in BOOLEAN
  BY DEF ApartInv
<1>2. CASE Drop
  <2>1. /\ conn' = "dropping" /\ head' = 0 /\ reply' = Done(<<>>) /\ raced' = ~MainApart
        /\ UNCHANGED <<w, r, use>> /\ TcpApart
    BY <1>2 DEF Drop
  <2>2. Queue!QDrop
    BY <2>1 DEF Queue!QDrop, Queue!Served, Done
  <2>3. MainApart => w.pc = "out" /\ r.pc = "out"
    BY <2>1 DEF MainApart, TcpApart
  <2>4. raced' \in BOOLEAN
    BY <2>1, Zenon DEF MainApart
  <2>5. ApartInv'
    BY <2>1, <2>3, <2>4 DEF ApartInv
  <2> QED BY <2>2, <2>5 DEF Answered
<1>3. CASE Dropped
  <2>1. /\ conn = "dropping" /\ conn' = "down" /\ tail' = 0 /\ raced' = raced
        /\ UNCHANGED <<head, buf, r, use, reply>>
        /\ w' = WIdle("frame") \/ w' = w
    BY <1>3 DEF Dropped
  <2>2. use # "olsr_tx_msgbuf"
    BY <2>1 DEF ServerInv, SharedInv
  <2>3. CASE raced
    BY <1>1, <2>1, <2>3 DEF ApartInv
  <2>4. CASE ~raced
    <3>1. w.pc = "out" /\ r.pc = "out" /\ head = 0
      BY <2>1, <2>2, <2>4 DEF ApartInv
    <3>2. w'.pc = "out" /\ head' = 0 /\ r'.pc = "out" /\ Size \in Nat
      BY <2>1, <3>1, SizeAssumption DEF WIdle
    <3>3. Apart(head', tail') /\ Used(head', tail') = 0
      BY <2>1, <3>2 DEF Apart, Used
    <3>4. Pushes(w', head', tail', buf') /\ Pops(r', head', tail', buf')
      BY <2>1, <3>2, PushesNothing, PopsNothing
    <3>5. TwoThreads'
      BY <3>3, <3>4 DEF TwoThreads
    <3>6. Contents' = <<>>
      BY <3>3, HeldNext DEF Held
    <3>7. UNCHANGED <<Queue!qvars, raced>>
      BY <2>1, <3>6 DEF Queue!qvars
    <3>8. ApartInv'
      BY <1>1, <2>1, <3>5 DEF ApartInv
    <3> QED BY <3>7, <3>8
  <2> QED BY <2>3, <2>4
<1>4. CASE Accept
  <2>1. /\ conn = "down" /\ conn' = "up"
        /\ UNCHANGED <<head, tail, buf, reply, use, w, r, raced>>
    BY <1>4 DEF Accept, threads, history
  <2>2. Contents' = Contents
    BY <2>1 DEF Contents, Readable, Remain, Wrap
  <2>3. UNCHANGED <<Queue!qvars, raced>>
    BY <2>1, <2>2 DEF Queue!qvars
  <2>4. ApartInv'
    BY <2>1 DEF ApartInv, TwoThreads
  <2> QED BY <2>3, <2>4
<1> QED BY <1>2, <1>3, <1>4

(* olsr_tx_msgbuf: whole calls of one thread. *)
LEMMA OneThreadAnswers ==
    ASSUME ServerInv, ServerInv', ApartInv, OneThread
    PROVE  ApartInv' /\ [raced' \/ Answered]_<<Queue!qvars, raced>>
<1>1. /\ use = "olsr_tx_msgbuf" /\ UNCHANGED <<use, conn, raced>>
      /\ \/ \E n \in Lengths : \E data \in [1..n -> {High, Body}] : Push(data)
         \/ \E n \in Lengths : Read(n) \/ Pop(n)
         \/ DropBuffer
  BY DEF OneThread, history
<1>2. TypeOK /\ TypeOK' /\ conn # "dropping"
  BY <1>1 DEF ServerInv, SharedInv
<1>3. \A n \in Lengths : [1..n -> {High, Body}] \subseteq [1..n -> Byte]
  BY ServerAssumption
<1>4. ApartInv'
  BY <1>1 DEF ApartInv
<1>5. /\ \A data : Promise!QPush(data) => Queue!QPush(data)
      /\ \A n : (Promise!QRead(n) => Queue!QRead(n)) /\ (Promise!QPop(n) => Queue!QPop(n))
      /\ Promise!QDrop => Queue!QDrop
  BY <1>1, <1>2 DEF Promise!QPush, Promise!QRead, Promise!QPop, Promise!QDrop, Promise!Served,
     Promise!Refused, Queue!QPush, Queue!QRead, Queue!QPop, Queue!QDrop, Queue!Served,
     Queue!Refused
<1>6. ASSUME NEW n \in Lengths, NEW data \in [1..n -> {High, Body}], Push(data)
      PROVE  Queue!QPush(data)
  BY <1>2, <1>3, <1>5, <1>6, CallIsQueueCall
<1>7. ASSUME NEW n \in Lengths, Read(n) \/ Pop(n) PROVE Queue!QRead(n) \/ Queue!QPop(n)
  BY <1>2, <1>5, <1>7, CallIsQueueCall
<1>8. DropBuffer => Queue!QDrop
  BY <1>2, <1>5, CallIsQueueCall
<1>9. Answered
  BY <1>1, <1>6, <1>7, <1>8 DEF Answered
<1> QED BY <1>4, <1>9

(* Every step of the server keeps the threads apart or is a race, and is   *)
(* a step of the byte queue or a race.                                     *)
LEMMA ServerAnswers ==
    ASSUME ServerInv, ServerInv', ApartInv, [ServerNext]_svars
    PROVE  ApartInv' /\ [raced' \/ Answered]_<<Queue!qvars, raced>>
<1>1. CASE \/ \E len \in BodyLens : SendHeader(len)
           \/ \E n \in 1..(IoSize - 1) : RecvChunk(n)
           \/ SendBody
  <2>1. Turn("writer", FALSE) /\ UNCHANGED <<conn, use>>
    BY <1>1 DEF SendHeader, RecvChunk, SendBody
  <2> QED BY <1>1, <2>1, PushStarts, TurnOver
<1>2. CASE WMeasure \/ WCont \/ WCopy \/ WAdd
  <2>1. Turn("writer", FALSE) /\ UNCHANGED <<conn, use>>
    BY <1>2 DEF WMeasure, WCont, WCopy, WAdd
  <2> QED BY <1>2, <2>1, PushServes, TurnOver
<1>3. CASE WStore
  <2>1. Turn("writer", FALSE) /\ UNCHANGED <<conn, use>>
    BY <1>3 DEF WStore
  <2>2. Queue!QPush(w.data) => Answered
    BY DEF Answered
  <2> QED BY <1>3, <2>1, <2>2, PushAnswers, TurnOver
<1>4. CASE WWrap
  <2>1. Turn("writer", FALSE) /\ UNCHANGED <<conn, use>>
    BY <1>4 DEF WWrap
  <2> QED BY <1>4, <2>1, PushReturns, TurnOver
<1>5. CASE RStart \/ RMeasure \/ RCont \/ RAdd
  <2>1. Turn("reader", FALSE) /\ UNCHANGED <<conn, use>>
    BY <1>5 DEF RStart, RMeasure, RCont, RAdd
  <2> QED BY <1>5, <2>1, PopServes, TurnOver
<1>6. CASE RCopy
  <2>1. Turn("reader", FALSE) /\ UNCHANGED <<conn, use>>
    BY <1>6 DEF RCopy
  <2>2. Queue!QRead(r.n) => Answered
    BY DEF Answered
  <2> QED BY <1>6, <2>1, <2>2, ReadAnswers, TurnOver
<1>7. CASE RStore
  <2>1. Turn("reader", FALSE) /\ UNCHANGED <<conn, use>>
    BY <1>7 DEF RStore
  <2>2. Queue!QPop(r.n) => Answered
    BY DEF Answered
  <2> QED BY <1>7, <2>1, <2>2, PopAnswers, TurnOver
<1>8. CASE RWrap
  <2>1. Turn("reader", head = Size + 1 /\ tail = Size + 1) /\ UNCHANGED <<conn, use>>
    BY <1>8 DEF RWrap
  <2> QED BY <1>8, <2>1, PopReturns, TurnOver
<1>9. CASE Drop \/ Dropped \/ Accept
  BY <1>9, DropAnswers
<1>10. CASE OneThread
  BY <1>10, OneThreadAnswers
<1>11. CASE UNCHANGED svars
  <2>1. UNCHANGED <<head, tail, buf, reply, use, w, r, conn, raced>>
    BY <1>11 DEF svars, history
  <2>2. Contents' = Contents
    BY <2>1 DEF Contents, Readable, Remain, Wrap
  <2>3. UNCHANGED <<Queue!qvars, raced>>
    BY <2>1, <2>2 DEF Queue!qvars
  <2>4. ApartInv'
    BY <2>1 DEF ApartInv, TwoThreads
  <2> QED BY <2>3, <2>4
<1>12. CASE \E len \in BodyLens : FrontSends(len)
  <2>1. UNCHANGED <<head, tail, buf, reply, use, w, r, conn, raced>>
    BY <1>12 DEF FrontSends, threads, history
  <2>2. Contents' = Contents
    BY <2>1 DEF Contents, Readable, Remain, Wrap
  <2>3. UNCHANGED <<Queue!qvars, raced>>
    BY <2>1, <2>2 DEF Queue!qvars
  <2>4. ApartInv'
    BY <2>1 DEF ApartInv, TwoThreads
  <2> QED BY <2>3, <2>4
<1> QED BY <1>1, <1>2, <1>3, <1>4, <1>5, <1>6, <1>7, <1>8, <1>9, <1>10, <1>11, <1>12 DEF ServerNext

(* The server starts with the threads apart. *)
LEMMA ApartStart == ASSUME ServerInit PROVE ApartInv
<1>1. /\ head = 0 /\ tail = 0 /\ w.pc = "out" /\ r.pc = "out" /\ conn = "down" /\ raced = FALSE
  BY DEF ServerInit, WIdle, RIdle
<1>2. Apart(head, tail) /\ tail # Size + 1 /\ head # Size + 1
  BY <1>1, SizeAssumption DEF Apart
<1>3. TwoThreads
  BY <1>1, <1>2, PushesNothing, PopsNothing DEF TwoThreads
<1> QED BY <1>1, <1>3 DEF ApartInv

(* RingBuffer_push, RingBuffer_read and RingBuffer_pop from two threads    *)
(* without a lock serve every call as one step of a byte queue, for every  *)
(* size of the buffer and every length of a call, however their accesses   *)
(* to head and tail interleave, unless a drop meets the main thread at     *)
(* work or both offsets are about to wrap.                                 *)
THEOREM TwoThreadsServeAQueue == ServerSpec => ServedAsQueue
BY ServerStart, ApartStart, ServerStep, ServerAnswers, PTL DEF ServerSpec, ServedAsQueue
-----------------------------------------------------------------------------
(* Frames.  The states of the receiver of frames while it is not lost, and *)
(* bytes that take it from one to another.                                 *)
Framing == {<<"high", 0>>, <<"low", 0>>} \cup {<<"body", k>> : k \in Nat \ {0}}

Reads(state, bytes, end) ==
    \E f \in [0..Len(bytes) -> Framing] :
       /\ f[0] = state /\ f[Len(bytes)] = end
       /\ \A i \in 1..Len(bytes) : f[i] = Receiving(f[i - 1], bytes[i])

(* Two functions that agree at 0, and at each place where they agree at    *)
(* the one before, agree.                                                  *)
LEMMA Agree ==
    ASSUME NEW len \in Nat, NEW f, NEW g, f[0] = g[0],
           \A i \in 1..len : f[i - 1] = g[i - 1] => f[i] = g[i]
    PROVE  \A i \in 0..len : f[i] = g[i]
<1> DEFINE T == {i \in 0..len : f[i] # g[i]}
           R == {ss \in Nat \X Nat : ss[1] < ss[2]}
<1> SUFFICES ASSUME T # {} PROVE FALSE
  OBVIOUS
<1>1. IsWellFoundedOn(R, Nat)
  BY NatLessThanWellFounded, Zenon DEF OpToRel
<1>2. T \subseteq Nat
  OBVIOUS
<1> HIDE DEF R, T
<1>3. PICK i \in T : \A j \in T : <<j, i>> \notin R
  BY <1>1, <1>2, WFMin
<1>4. i \in 0..len /\ f[i] # g[i]
  BY DEF T
<1>5. i \in 1..len /\ i - 1 \in 0..len
  BY <1>4
<1>6. <<i - 1, i>> \in R
  BY <1>5 DEF R
<1>7. f[i - 1] = g[i - 1]
  BY <1>3, <1>5, <1>6 DEF T
<1> QED BY <1>4, <1>5, <1>7

(* Receive computes where the bytes take the receiver. *)
LEMMA ReadsAfter ==
    ASSUME NEW state, NEW bytes, Len(bytes) \in Nat, NEW end, Reads(state, bytes, end)
    PROVE  AfterBytes(state, bytes) = end /\ end \in Framing
<1> DEFINE len == Len(bytes)
           Runs(h) == h = [i \in 0..len |-> IF i = 0 THEN state ELSE Receiving(h[i - 1], bytes[i])]
           chosen == CHOOSE h : Runs(h)
<1>1. PICK f \in [0..len -> Framing] :
         /\ f[0] = state /\ f[len] = end
         /\ \A i \in 1..len : f[i] = Receiving(f[i - 1], bytes[i])
  BY DEF Reads
<1>2. Runs(f)
  <2>1. ASSUME NEW i \in 0..len
        PROVE  f[i] = IF i = 0 THEN state ELSE Receiving(f[i - 1], bytes[i])
    <3>1. i = 0 \/ i \in 1..len
      OBVIOUS
    <3> QED BY <1>1, <3>1
  <2>2. f = [i \in 0..len |-> f[i]]
    BY <1>1
  <2> QED BY <2>1, <2>2
<1>3. Runs(chosen)
  <2> HIDE DEF Runs
  <2>1. \E h : Runs(h)
    BY <1>2
  <2> QED BY <2>1, Zenon
<1>4. AfterBytes(state, bytes) = chosen[len]
  BY Zenon DEF AfterBytes
<1> HIDE DEF chosen
<1>5. PICK g : g = chosen
  OBVIOUS
<1>6. g = [i \in 0..len |-> IF i = 0 THEN state ELSE Receiving(g[i - 1], bytes[i])]
  BY <1>3, <1>5
<1>7. \A i \in 0..len : g[i] = IF i = 0 THEN state ELSE Receiving(g[i - 1], bytes[i])
  BY <1>6, Zenon
<1> HIDE DEF len, Runs
<1>8. len \in Nat
  BY DEF len
<1>9. g[0] = f[0]
  BY <1>1, <1>7, <1>8
<1>10. ASSUME NEW i \in 1..len, g[i - 1] = f[i - 1] PROVE g[i] = f[i]
  <2>1. i \in 0..len /\ i # 0
    BY <1>8
  <2> QED BY <1>1, <1>7, <1>10, <2>1
<1>11. \A i \in 0..len : g[i] = f[i]
  BY <1>8, <1>9, <1>10, Agree
<1> QED BY <1>1, <1>4, <1>5, <1>8, <1>11

(* No bytes, ... *)
LEMMA ReadsNothing == ASSUME NEW state \in Framing PROVE Reads(state, <<>>, state)
<1> DEFINE f == [i \in 0..0 |-> state]
<1>1. Len(<<>>) = 0 /\ 1..0 = {}
  OBVIOUS
<1>2. f \in [0..0 -> Framing] /\ f[0] = state
  OBVIOUS
<1> HIDE DEF f
<1> QED BY <1>1, <1>2 DEF Reads

(* ... some bytes and then others, ... *)
LEMMA ReadsMore ==
    ASSUME NEW state, NEW a \in Seq(Byte), NEW b \in Seq(Byte), NEW middle, NEW end,
           Reads(state, a, middle), Reads(middle, b, end)
    PROVE  Reads(state, a \o b, end)
<1> DEFINE la == Len(a)
           lb == Len(b)
           c == a \o b
<1>1. /\ la \in Nat /\ lb \in Nat /\ Len(c) = la + lb
      /\ \A i \in 1..(la + lb) : c[i] = IF i <= la THEN a[i] ELSE b[i - la]
  BY ConcatProperties
<1>2. PICK f \in [0..la -> Framing] :
         /\ f[0] = state /\ f[la] = middle
         /\ \A i \in 1..la : f[i] = Receiving(f[i - 1], a[i])
  BY DEF Reads
<1>3. PICK g \in [0..lb -> Framing] :
         /\ g[0] = middle /\ g[lb] = end
         /\ \A i \in 1..lb : g[i] = Receiving(g[i - 1], b[i])
  BY DEF Reads
<1> HIDE DEF la, lb, c
<1> DEFINE h == [i \in 0..(la + lb) |-> IF i <= la THEN f[i] ELSE g[i - la]]
<1>4. h \in [0..(la + lb) -> Framing]
  BY <1>1, <1>2, <1>3
<1>5. h[0] = state /\ h[la + lb] = end
  <2>1. h[0] = state
    BY <1>1, <1>2
  <2>2. CASE lb = 0
    <3>1. la + lb = la /\ la \in 0..(la + lb)
      BY <1>1, <2>2
    <3> QED BY <1>1, <1>2, <1>3, <2>1, <2>2, <3>1
  <2>3. CASE lb # 0
    <3>1. ~(la + lb <= la) /\ la + lb \in 0..(la + lb) /\ (la + lb) - la = lb
      BY <1>1, <2>3
    <3> QED BY <1>3, <2>1, <3>1
  <2> QED BY <2>2, <2>3
<1>6. ASSUME NEW i \in 1..(la + lb) PROVE h[i] = Receiving(h[i - 1], c[i])
  <2>1. i - 1 \in 0..(la + lb) /\ i \in 0..(la + lb)
    BY <1>1
  <2>2. CASE i <= la
    <3>1. i \in 1..la /\ i - 1 <= la
      BY <1>1, <2>2
    <3>2. h[i] = f[i] /\ h[i - 1] = f[i - 1] /\ c[i] = a[i]
      BY <1>1, <2>1, <2>2, <3>1
    <3> QED BY <1>2, <3>1, <3>2
  <2>3. CASE ~(i <= la)
    <3> DEFINE j == i - la
    <3>1. j \in 1..lb
      BY <1>1, <2>3
    <3>2. h[i] = g[j] /\ c[i] = b[j]
      BY <1>1, <2>1, <2>3
    <3>3. h[i - 1] = g[j - 1]
      <4>1. CASE j = 1
        <5>1. i - 1 = la /\ j - 1 = 0
          BY <1>1, <4>1
        <5> QED BY <1>1, <1>2, <1>3, <2>1, <5>1
      <4>2. CASE j # 1
        <5>1. ~(i - 1 <= la) /\ (i - 1) - la = j - 1
          BY <1>1, <3>1, <4>2
        <5> QED BY <2>1, <5>1
      <4> QED BY <4>1, <4>2
    <3> QED BY <1>3, <3>1, <3>2, <3>3
  <2> QED BY <2>2, <2>3
<1> HIDE DEF h
<1>7. Reads(state, c, end)
  BY <1>1, <1>4, <1>5, <1>6 DEF Reads
<1> QED BY <1>7 DEF c

(* ... and the bytes up to the n-th and those behind it. *)
LEMMA ReadsSplit ==
    ASSUME NEW state, NEW a \in Seq(Byte), NEW end, Reads(state, a, end), NEW n \in 0..Len(a)
    PROVE  \E middle \in Framing : /\ Reads(state, SubSeq(a, 1, n), middle)
                                   /\ Reads(middle, SubSeq(a, n + 1, Len(a)), end)
<1> DEFINE la == Len(a)
           b == SubSeq(a, 1, n)
           c == SubSeq(a, n + 1, la)
<1>1. /\ la \in Nat /\ n \in Nat /\ n <= la
      /\ Len(b) = n /\ \A i \in 1..n : b[i] = a[i]
      /\ Len(c) = la - n /\ \A i \in 1..(la - n) : c[i] = a[n + i]
  OBVIOUS
<1>2. PICK f \in [0..la -> Framing] :
         /\ f[0] = state /\ f[la] = end
         /\ \A i \in 1..la : f[i] = Receiving(f[i - 1], a[i])
  BY DEF Reads
<1> HIDE DEF la, b, c
<1>3. Reads(state, b, f[n])
  <2> DEFINE g == [i \in 0..n |-> f[i]]
  <2>1. g \in [0..n -> Framing] /\ g[0] = state /\ g[n] = f[n]
    BY <1>1, <1>2
  <2>2. ASSUME NEW i \in 1..n PROVE g[i] = Receiving(g[i - 1], b[i])
    <3>1. i \in 1..la /\ i \in 0..n /\ i - 1 \in 0..n
      BY <1>1
    <3> QED BY <1>1, <1>2, <3>1
  <2> HIDE DEF g
  <2> QED BY <1>1, <2>1, <2>2 DEF Reads
<1>4. Reads(f[n], c, end)
  <2> DEFINE g == [i \in 0..(la - n) |-> f[n + i]]
  <2>1. g \in [0..(la - n) -> Framing] /\ g[0] = f[n] /\ g[la - n] = end
    BY <1>1, <1>2
  <2>2. ASSUME NEW i \in 1..(la - n) PROVE g[i] = Receiving(g[i - 1], c[i])
    <3>1. n + i \in 1..la /\ i \in 0..(la - n) /\ i - 1 \in 0..(la - n) /\ n + (i - 1) = (n + i) - 1
      BY <1>1
    <3> QED BY <1>1, <1>2, <3>1
  <2> HIDE DEF g
  <2> QED BY <1>1, <2>1, <2>2 DEF Reads
<1>5. f[n] \in Framing
  BY <1>1, <1>2
<1> QED BY <1>3, <1>4, <1>5 DEF la, b, c

(* What one byte does to the receiver. *)
LEMMA OneByte ==
    ASSUME NEW byte
    PROVE  /\ Receiving(<<"high", 0>>, byte) = IF byte = High THEN <<"low", 0>> ELSE <<"lost", 0>>
           /\ Receiving(<<"low", 0>>, byte) =
                 IF byte \in BodyLens THEN <<"body", byte>> ELSE <<"lost", 0>>
           /\ \A k : Receiving(<<"body", k>>, byte) =
                 IF byte # Body THEN <<"lost", 0>>
                 ELSE IF k = 1 THEN <<"high", 0>> ELSE <<"body", k - 1>>
           /\ <<"lost", 0>> \notin Framing
<1>1. <<"high", 0>>[1] = "high" /\ <<"low", 0>>[1] = "low"
  OBVIOUS
<1>2. \A k : <<"body", k>>[1] = "body" /\ <<"body", k>>[2] = k
  OBVIOUS
<1>3. Receiving(<<"high", 0>>, byte) = IF byte = High THEN <<"low", 0>> ELSE <<"lost", 0>>
  BY <1>1 DEF Receiving
<1>4. Receiving(<<"low", 0>>, byte) = IF byte \in BodyLens THEN <<"body", byte>> ELSE <<"lost", 0>>
  BY <1>1 DEF Receiving
<1>5. ASSUME NEW k
      PROVE  Receiving(<<"body", k>>, byte) =
                IF byte # Body THEN <<"lost", 0>>
                ELSE IF k = 1 THEN <<"high", 0>> ELSE <<"body", k - 1>>
  BY <1>2 DEF Receiving
<1>6. <<"lost", 0>> \notin Framing
  <2>1. \A k : <<"lost", 0>>[1] # <<"body", k>>[1]
    OBVIOUS
  <2>2. <<"lost", 0>>[1] # <<"high", 0>>[1] /\ <<"lost", 0>>[1] # <<"low", 0>>[1]
    OBVIOUS
  <2> QED BY <2>1, <2>2 DEF Framing
<1> QED BY <1>3, <1>4, <1>5, <1>6

(* The length of a frame is read from its first two bytes, ... *)
LEMMA ReadsLength ==
    ASSUME NEW bytes \in Seq(Byte), NEW end, Reads(<<"high", 0>>, bytes, end), Len(bytes) >= 2
    PROVE  /\ bytes[1] = High /\ bytes[2] \in BodyLens
           /\ Len(bytes) = 2 => end = <<"body", bytes[2]>>
<1>1. PICK f \in [0..Len(bytes) -> Framing] :
         /\ f[0] = <<"high", 0>> /\ f[Len(bytes)] = end
         /\ \A i \in 1..Len(bytes) : f[i] = Receiving(f[i - 1], bytes[i])
  BY DEF Reads
<1>2. /\ 1 \in 1..Len(bytes) /\ 2 \in 1..Len(bytes) /\ 1 - 1 = 0 /\ 2 - 1 = 1
      /\ 1 \in 0..Len(bytes) /\ 2 \in 0..Len(bytes)
  OBVIOUS
<1>3. f[1] = Receiving(<<"high", 0>>, bytes[1]) /\ f[1] \in Framing
  <2>1. f[1] = Receiving(f[1 - 1], bytes[1])
    BY <1>1, <1>2, Zenon
  <2>2. f[1] \in Framing
    BY <1>1, <1>2, Zenon
  <2>3. f[1 - 1] = <<"high", 0>>
    BY <1>1, <1>2
  <2> QED BY <2>1, <2>2, <2>3, Zenon
<1>4. bytes[1] = High /\ f[1] = <<"low", 0>>
  BY <1>3, OneByte
<1>5. f[2] = Receiving(<<"low", 0>>, bytes[2]) /\ f[2] \in Framing
  <2>1. f[2] = Receiving(f[2 - 1], bytes[2])
    BY <1>1, <1>2, Zenon
  <2>2. f[2] \in Framing
    BY <1>1, <1>2, Zenon
  <2>3. f[2 - 1] = <<"low", 0>>
    BY <1>1, <1>2, <1>4
  <2> QED BY <2>1, <2>2, <2>3, Zenon
<1>6. bytes[2] \in BodyLens /\ f[2] = <<"body", bytes[2]>>
  BY <1>5, OneByte
<1> QED BY <1>1, <1>4, <1>6

(* ... and its body has that length: the receiver counts down. *)
LEMMA CountsDown ==
    ASSUME NEW n \in Nat, n # 0, NEW bytes, NEW f, f[0] = <<"body", n>>,
           \A i \in 1..n : f[i] \in Framing /\ f[i] = Receiving(f[i - 1], bytes[i])
    PROVE  f[n] = <<"high", 0>>
<1> DEFINE At(i) == IF i = n THEN <<"high", 0>> ELSE <<"body", n - i>>
           T == {i \in 0..n : f[i] # At(i)}
           R == {ss \in Nat \X Nat : ss[1] < ss[2]}
<1>1. IsWellFoundedOn(R, Nat)
  BY NatLessThanWellFounded, Zenon DEF OpToRel
<1>2. T \subseteq Nat
  OBVIOUS
<1>3. f[0] = At(0)
  OBVIOUS
<1>4. n \in 0..n /\ At(n) = <<"high", 0>>
  OBVIOUS
<1>5. ASSUME NEW k \in Nat \ {0}, NEW b, Receiving(<<"body", k>>, b) \in Framing
      PROVE  Receiving(<<"body", k>>, b) = IF k = 1 THEN <<"high", 0>> ELSE <<"body", k - 1>>
  BY <1>5, OneByte
<1> HIDE DEF T, R
<1>6. ASSUME T # {} PROVE FALSE
  <2>1. PICK i \in T : \A j \in T : <<j, i>> \notin R
    BY <1>1, <1>2, <1>6, WFMin
  <2>2. i \in 0..n /\ f[i] # At(i)
    BY DEF T
  <2> HIDE DEF At
  <2>3. i \in 1..n /\ i - 1 \in 0..n
    BY <1>3, <2>2
  <2>4. <<i - 1, i>> \in R
    BY <2>3 DEF R
  <2>5. f[i - 1] = At(i - 1)
    BY <2>1, <2>3, <2>4 DEF T
  <2> DEFINE k == n - (i - 1)
  <2>6. k \in Nat \ {0} /\ (k = 1 <=> i = n) /\ k - 1 = n - i /\ i - 1 # n
    BY <2>3
  <2>7. At(i - 1) = <<"body", k>>
    BY <2>6 DEF At
  <2>8. At(i) = IF k = 1 THEN <<"high", 0>> ELSE <<"body", k - 1>>
    BY <2>6 DEF At
  <2> HIDE DEF k
  <2>9. f[i] = Receiving(<<"body", k>>, bytes[i]) /\ f[i] \in Framing
    BY <2>3, <2>5, <2>7, Zenon
  <2>10. f[i] = IF k = 1 THEN <<"high", 0>> ELSE <<"body", k - 1>>
    BY <1>5, <2>6, <2>9, Zenon
  <2> QED BY <2>2, <2>8, <2>10, Zenon
<1>7. n \notin T
  BY <1>6, Zenon
<1> QED BY <1>4, <1>7 DEF T

(* ... so that the last byte of the body leaves it between two frames. *)
LEMMA ReadsBody ==
    ASSUME NEW n \in Nat \ {0}, NEW bytes \in Seq(Byte), Len(bytes) = n, NEW end,
           Reads(<<"body", n>>, bytes, end)
    PROVE  end = <<"high", 0>>
<1>1. PICK f \in [0..n -> Framing] :
         /\ f[0] = <<"body", n>> /\ f[n] = end
         /\ \A i \in 1..n : f[i] = Receiving(f[i - 1], bytes[i])
  BY DEF Reads
<1>2. /\ n \in Nat /\ n # 0
      /\ \A i \in 1..n : f[i] \in Framing /\ f[i] = Receiving(f[i - 1], bytes[i])
  BY <1>1
<1>3. f[n] = <<"high", 0>>
  BY <1>1, <1>2, CountsDown, Zenon
<1> QED BY <1>1, <1>3

(* A frame is read as one. *)
LEMMA ReadsFrame ==
    ASSUME NEW len \in BodyLens
    PROVE  /\ Reads(<<"high", 0>>, <<High, len>>, <<"body", len>>)
           /\ Reads(<<"body", len>>, [i \in 1..len |-> Body], <<"high", 0>>)
           /\ Reads(<<"high", 0>>, Frame(len), <<"high", 0>>)
           /\ <<"body", len>> \in Framing
<1>1. len \in Nat \ {0} /\ len \in Byte /\ High \in Byte /\ Body \in Byte
  BY ServerAssumption
<1>2. /\ <<"body", len>> \in Framing /\ <<"high", 0>> \in Framing /\ <<"low", 0>> \in Framing
  BY <1>1 DEF Framing
<1>3. Reads(<<"high", 0>>, <<High, len>>, <<"body", len>>)
  <2> DEFINE f == [i \in 0..2 |-> IF i = 0 THEN <<"high", 0>>
                                  ELSE IF i = 1 THEN <<"low", 0>> ELSE <<"body", len>>]
             bytes == <<High, len>>
  <2>1. /\ f \in [0..2 -> Framing]
        /\ f[0] = <<"high", 0>> /\ f[1] = <<"low", 0>> /\ f[2] = <<"body", len>>
    BY <1>2
  <2>2. Len(bytes) = 2 /\ bytes[1] = High /\ bytes[2] = len
    OBVIOUS
  <2>3. f[1] = Receiving(f[0], bytes[1]) /\ f[2] = Receiving(f[1], bytes[2])
    BY <2>1, <2>2, OneByte
  <2> HIDE DEF f, bytes
  <2>4. \A i \in 1..2 : f[i] = Receiving(f[i - 1], bytes[i])
    <3>1. \A i \in 1..2 : i = 1 \/ i = 2
      OBVIOUS
    <3>2. 1 - 1 = 0 /\ 2 - 1 = 1
      OBVIOUS
    <3> QED BY <2>3, <3>1, <3>2
  <2>5. Reads(<<"high", 0>>, bytes, <<"body", len>>)
    BY <2>1, <2>2, <2>4 DEF Reads
  <2> QED BY <2>5 DEF bytes
<1>4. Reads(<<"body", len>>, [i \in 1..len |-> Body], <<"high", 0>>)
  <2> DEFINE f == [i \in 0..len |-> IF i = len THEN <<"high", 0>> ELSE <<"body", len - i>>]
             bytes == [i \in 1..len |-> Body]
  <2>1. Len(bytes) = len /\ \A i \in 1..len : bytes[i] = Body
    BY <1>1
  <2>2. f \in [0..len -> Framing]
    <3>1. ASSUME NEW i \in 0..len
          PROVE  (IF i = len THEN <<"high", 0>> ELSE <<"body", len - i>>) \in Framing
      <4>1. i # len => len - i \in Nat \ {0}
        BY <1>1
      <4> QED BY <1>2, <4>1 DEF Framing
    <3> QED BY <3>1
  <2>3. f[0] = <<"body", len>> /\ f[len] = <<"high", 0>>
    BY <1>1
  <2>4. ASSUME NEW i \in 1..len PROVE f[i] = Receiving(f[i - 1], bytes[i])
    <3>1. i \in 0..len /\ i - 1 \in 0..len /\ i - 1 # len
      BY <1>1
    <3>2. f[i - 1] = <<"body", len - (i - 1)>> /\ bytes[i] = Body
      BY <2>1, <3>1
    <3> DEFINE k == len - (i - 1)
    <3> HIDE DEF f, bytes, k
    <3>3. Receiving(<<"body", k>>, Body) = IF k = 1 THEN <<"high", 0>> ELSE <<"body", k - 1>>
      BY OneByte
    <3>4. k - 1 = len - i /\ (k = 1 <=> i = len)
      BY <1>1 DEF k
    <3>5. f[i] = IF i = len THEN <<"high", 0>> ELSE <<"body", len - i>>
      BY <3>1 DEF f
    <3> QED BY <3>2, <3>3, <3>4, <3>5 DEF k
  <2> HIDE DEF f, bytes
  <2>5. Reads(<<"body", len>>, bytes, <<"high", 0>>)
    BY <2>1, <2>2, <2>3, <2>4 DEF Reads
  <2> QED BY <2>5 DEF bytes
<1>5. <<High, len>> \in Seq(Byte) /\ [i \in 1..len |-> Body] \in Seq(Byte)
  BY <1>1
<1>6. Reads(<<"high", 0>>, Frame(len), <<"high", 0>>)
  BY <1>3, <1>4, <1>5, ReadsMore DEF Frame
<1> QED BY <1>2, <1>3, <1>4, <1>6

(* Bytes on their way to the receiver: copied out by a pop that has not    *)
(* returned, in the buffer, in a push not yet served, and to come.         *)
Pending(v) == IF v.pc \in Measuring \cup Holding THEN v.data ELSE <<>>
Taken(u) == IF u.pc = "wrap" THEN u.out ELSE <<>>

Chain(state, a, b, c, d) ==
    \E m1, m2, m3 \in Framing : /\ Reads(state, a, m1) /\ Reads(m1, b, m2)
                                /\ Reads(m2, c, m3) /\ Reads(m3, d, <<"high", 0>>)

(* Where the threads v and u can be in their loops, s being stream. *)
Places(which, v, u, s) ==
    /\ u.pc = "out" => u.at = "loop"
    /\ which = "recvq" => u.at # "pop"
    /\ which = "sendq" => /\ u.at \in {"loop", "readable", "pop"}
                          /\ v.at \in {"frame", "rest"} => s = <<>>
                          /\ v.pc # "out" => v.at \in {"header", "rest"}

(* parse_client_json is between two frames, or knows the length of the one *)
(* it is in; q are the bytes in the buffer.                                *)
ReaderAt(which, u, q, next) ==
    /\ u.pc = "wrap" => Len(u.out) = u.n
    /\ which = "recvq" =>
          /\ u.at \in {"loop", "readable", "peek"} => next = <<"high", 0>>
          /\ u.at = "header" =>
                /\ next = <<"high", 0>> /\ u.n = 2
                /\ IF u.pc = "wrap" THEN u.out[2] = u.canread
                                    ELSE Len(q) >= 2 /\ q[2] = u.canread
          /\ u.at = "json" => next = <<"body", u.n>>

Framed == /\ Chain(expect, Taken(r), Contents, Pending(w), stream)
          /\ ReaderAt(use, r, Contents, expect)

FramedInv ==
    /\ Places(use, w, r, stream)
    /\ ~raced /\ refused = "no" /\ ~unsent =>
          /\ intact
          /\ use \in {"sendq", "recvq"} =>
                IF conn = "dropping"
                THEN expect = <<"high", 0>> /\ (use = "sendq" => stream = <<>>)
                ELSE Framed

(* What the steps of the byte queue mean for the contents. *)
LEMMA ContentsNext ==
    ASSUME conn # "dropping", conn' = conn
    PROVE  /\ UNCHANGED Queue!qvars => Contents' = Contents
           /\ \A data : Queue!QPush(data) /\ reply' = Done(<<>>) => Contents' = Contents \o data
           /\ \A n, out : Queue!QRead(n) /\ reply' = Done(out) =>
                 Contents' = Contents /\ n <= Len(Contents) /\ out = SubSeq(Contents, 1, n)
           /\ \A n, out : Queue!QPop(n) /\ reply' = Done(out) =>
                 /\ n <= Len(Contents) /\ out = SubSeq(Contents, 1, n)
                 /\ Contents' = SubSeq(Contents, n + 1, Len(Contents))
<1>1. UNCHANGED Queue!qvars => Contents' = Contents
  BY DEF Queue!qvars
<1>2. \A out, data : Done(out) # Queue!Refused("full") /\ Done(out) # Queue!Refused("not_enough")
  BY DEF Done, Queue!Refused
<1>3. \A out, data : Done(out) = Queue!Served(data) => out = data
  BY DEF Done, Queue!Served
<1>4. ASSUME NEW data, Queue!QPush(data), reply' = Done(<<>>) PROVE Contents' = Contents \o data
  BY <1>2, <1>4, Zenon DEF Queue!QPush
<1>5. ASSUME NEW n, NEW out, Queue!QRead(n), reply' = Done(out)
      PROVE  Contents' = Contents /\ n <= Len(Contents) /\ out = SubSeq(Contents, 1, n)
  BY <1>2, <1>3, <1>5, Zenon DEF Queue!QRead
<1>6. ASSUME NEW n, NEW out, Queue!QPop(n), reply' = Done(out)
      PROVE  /\ n <= Len(Contents) /\ out = SubSeq(Contents, 1, n)
             /\ Contents' = SubSeq(Contents, n + 1, Len(Contents))
  BY <1>2, <1>3, <1>6, Zenon DEF Queue!QPop
<1> QED BY <1>1, <1>4, <1>5, <1>6

(* No bytes lead nowhere. *)
LEMMA NothingRead ==
    ASSUME NEW state, NEW end, Reads(state, <<>>, end)
    PROVE  state = end /\ end \in Framing
<1>1. Len(<<>>) = 0
  OBVIOUS
<1>2. PICK f \in [0..0 -> Framing] : f[0] = state /\ f[0] = end
  BY <1>1 DEF Reads
<1> QED BY <1>2

(* The contents are bytes. *)
LEMMA ContentsBytes ==
    ASSUME ServerInv, TwoThreads
    PROVE  Contents \in Seq(Byte) /\ Len(Contents) \in Nat
BY HeldNow, HeldSeq, ThreadTypes DEF TwoThreads

(* A step of the writing thread that leaves its bytes where they are. *)
LEMMA WriterQuiet ==
    ASSUME Framed, intact, Contents' = Contents, UNCHANGED <<r, stream, use, expect, intact>>,
           Pending(w') = Pending(w)
    PROVE  Framed' /\ intact'
<1>1. Chain(expect, Taken(r), Contents, Pending(w), stream) /\ ReaderAt(use, r, Contents, expect)
  BY DEF Framed
<1>2. Chain(expect', Taken(r'), Contents', Pending(w'), stream')
  BY <1>1
<1>3. ReaderAt(use', r', Contents', expect')
  BY <1>1
<1> QED BY <1>2, <1>3 DEF Framed

(* The same for the reading thread. *)
LEMMA ReaderQuiet ==
    ASSUME Framed, intact, Contents' = Contents, UNCHANGED <<w, stream, use, expect, intact>>,
           Taken(r') = Taken(r), ReaderAt(use, r', Contents, expect)
    PROVE  Framed' /\ intact'
<1>1. Chain(expect, Taken(r), Contents, Pending(w), stream)
  BY DEF Framed
<1>2. Chain(expect', Taken(r'), Contents', Pending(w'), stream')
  BY <1>1
<1>3. ReaderAt(use', r', Contents', expect')
  OBVIOUS
<1> QED BY <1>2, <1>3 DEF Framed

(* RingBuffer_push, unless refused: up to the store ... *)
LEMMA PushFramed ==
    ASSUME ServerInv, TwoThreads, conn # "dropping", Framed, intact, refused' = "no",
           WMeasure \/ WCont \/ WCopy \/ WAdd \/ WWrap
    PROVE  Framed' /\ intact'
<1>1. conn' = conn /\ UNCHANGED <<r, stream, use, expect, intact>>
  BY DEF WMeasure, WCont, WCopy, WAdd, WWrap
<1>2. Contents' = Contents
  BY <1>1, PushServes, PushReturns, ContentsNext
<1>3. w \in Writer
  BY ThreadTypes
<1> SUFFICES Pending(w') = Pending(w)
  BY <1>1, <1>2, WriterQuiet
<1>4. CASE WMeasure
  <2>1. PICK m : m = Measured(w.pc)
    OBVIOUS
  <2>2. /\ w.pc \in Measuring
        /\ IF m.pc = "got" /\ Len(w.data) > m.remain THEN Refusal(Len(w.data) > Remain)
           ELSE w' = [w EXCEPT !.pc = IF m.pc = "got" THEN "cont" ELSE m.pc]
    BY <1>4, <2>1 DEF WMeasure, Measuring
  <2>3. \A rightly : ~Refusal(rightly)
    BY Zenon DEF Refusal
  <2>4. w' = [w EXCEPT !.pc = IF m.pc = "got" THEN "cont" ELSE m.pc]
    BY <2>2, <2>3, Zenon
  <2>5. m.pc \in Measuring \cup {"got"}
    BY <2>1, <2>2, MeasuredBounds DEF ServerInv, SharedInv
  <2>6. w'.pc \in Measuring \cup Holding /\ w'.data = w.data
    BY <1>3, <2>4, <2>5 DEF Writer, Holding
  <2> QED BY <2>2, <2>6 DEF Pending
<1>5. CASE WCont
  BY <1>3, <1>5 DEF WCont, Writer, Pending, Holding
<1>6. CASE WCopy
  BY <1>3, <1>6 DEF WCopy, Writer, Pending, Holding
<1>7. CASE WAdd
  <2>1. w.pc = "add" /\ w'.pc \in {"store", "last"} /\ w'.data = w.data
    BY <1>3, <1>7 DEF WAdd, Writer
  <2> QED BY <2>1 DEF Pending, Holding
<1>8. CASE WWrap
  BY <1>8 DEF WWrap, WReturn, WIdle, Pending, Measuring, Holding
<1> QED BY <1>4, <1>5, <1>6, <1>7, <1>8

(* ... and the store. *)
LEMMA StoreFramed ==
    ASSUME ServerInv, TwoThreads, conn # "dropping", Framed, intact, WStore
    PROVE  Framed' /\ intact'
<1>1. /\ conn' = conn /\ UNCHANGED <<r, stream, use, expect, intact>> /\ reply' = Done(<<>>)
      /\ w.pc \in {"store", "last"}
      /\ IF w.pc = "last" THEN WReturn ELSE w' = [w EXCEPT !.pc = "wrap"]
  BY DEF WStore
<1>2. Contents' = Contents \o w.data
  BY <1>1, PushAnswers, ContentsNext
<1>3. Pending(w) = w.data
  BY <1>1 DEF Pending, Holding
<1>4. Pending(w') = <<>>
  <2>1. w'.pc \in {"out", "wrap"}
    BY <1>1, ThreadTypes DEF WReturn, WIdle, Writer
  <2> QED BY <2>1 DEF Pending, Measuring, Holding
<1>5. PICK m1, m2, m3 \in Framing :
         /\ Reads(expect, Taken(r), m1) /\ Reads(m1, Contents, m2)
         /\ Reads(m2, w.data, m3) /\ Reads(m3, stream, <<"high", 0>>)
  BY <1>3 DEF Framed, Chain
<1>6. Contents \in Seq(Byte) /\ w.data \in Seq(Byte)
  BY ContentsBytes, ThreadTypes
<1>7. Reads(m1, Contents', m3)
  BY <1>2, <1>5, <1>6, ReadsMore
<1>8. Reads(m3, Pending(w'), m3)
  BY <1>4, ReadsNothing
<1>9. Chain(expect', Taken(r'), Contents', Pending(w'), stream')
  BY <1>1, <1>5, <1>7, <1>8 DEF Chain
<1>10. Len(Contents) >= 2 => Len(Contents') >= 2 /\ Contents'[2] = Contents[2]
  <2> DEFINE a == Contents
             b == w.data
  <2>1. a \in Seq(Byte) /\ b \in Seq(Byte)
    BY <1>6
  <2> HIDE DEF a, b
  <2>2. /\ Len(a) \in Nat /\ Len(b) \in Nat /\ Len(a \o b) = Len(a) + Len(b)
        /\ \A i \in 1..(Len(a) + Len(b)) : (a \o b)[i] = IF i <= Len(a) THEN a[i] ELSE b[i - Len(a)]
    BY <2>1, ConcatProperties
  <2>3. Len(a) >= 2 => Len(a \o b) >= 2 /\ (a \o b)[2] = a[2]
    BY <2>2
  <2> QED BY <1>2, <2>3 DEF a, b
<1>11. ReaderAt(use', r', Contents', expect')
  BY <1>1, <1>10 DEF Framed, ReaderAt
<1> QED BY <1>1, <1>9, <1>11 DEF Framed

(* send_json_to_front and recv in do_server: what comes next is a frame,   *)
(* or the rest of one.                                                     *)
LEMMA SourceFramed ==
    ASSUME ServerInv, TwoThreads, conn # "dropping", Framed, intact, Places(use, w, r, stream),
           \/ \E len \in BodyLens : SendHeader(len)
           \/ \E n \in 1..(IoSize - 1) : RecvChunk(n)
           \/ SendBody
    PROVE  Framed' /\ intact'
<1>1. /\ conn' = conn /\ UNCHANGED <<r, use, expect, intact>> /\ w.pc = "out"
  BY DEF SendHeader, RecvChunk, SendBody
<1>2. Contents' = Contents
  BY <1>1, PushStarts, ContentsNext
<1>3. ReaderAt(use', r', Contents', expect')
  BY <1>1, <1>2 DEF Framed
<1>4. PICK m1, m2 \in Framing :
         /\ Reads(expect, Taken(r), m1) /\ Reads(m1, Contents, m2)
         /\ Reads(m2, stream, <<"high", 0>>)
  <2>1. Pending(w) = <<>>
    BY <1>1 DEF Pending, Measuring, Holding
  <2>2. PICK m1, m2, m3 \in Framing :
           /\ Reads(expect, Taken(r), m1) /\ Reads(m1, Contents, m2)
           /\ Reads(m2, <<>>, m3) /\ Reads(m3, stream, <<"high", 0>>)
    BY <2>1 DEF Framed, Chain
  <2>3. m2 = m3
    BY <2>2, NothingRead
  <2> QED BY <2>2, <2>3
<1>5. ASSUME NEW data, NEW at, Pushing(data, at) PROVE Pending(w') = data
  BY <1>5 DEF Pushing, Pending, Measuring
<1> SUFFICES \E m3 \in Framing : Reads(m2, Pending(w'), m3) /\ Reads(m3, stream', <<"high", 0>>)
  <2>1. Chain(expect', Taken(r'), Contents', Pending(w'), stream')
    BY <1>1, <1>2, <1>4 DEF Chain
  <2> QED BY <1>1, <1>3, <2>1 DEF Framed
<1>6. ASSUME stream = <<>> PROVE m2 = <<"high", 0>>
  BY <1>4, <1>6, NothingRead
<1>7. ASSUME NEW len \in BodyLens, SendHeader(len)
      PROVE  \E m3 \in Framing : Reads(m2, Pending(w'), m3) /\ Reads(m3, stream', <<"high", 0>>)
  <2>1. /\ use = "sendq" /\ w.at = "frame" /\ Pushing(<<High, len>>, "header")
        /\ stream' = [i \in 1..len |-> Body]
    BY <1>7 DEF SendHeader
  <2>2. m2 = <<"high", 0>> /\ Pending(w') = <<High, len>>
    BY <1>5, <1>6, <2>1 DEF Places
  <2>3. /\ Reads(m2, Pending(w'), <<"body", len>>) /\ <<"body", len>> \in Framing
        /\ Reads(<<"body", len>>, stream', <<"high", 0>>)
    BY <2>1, <2>2, ReadsFrame
  <2> QED BY <2>3
<1>8. ASSUME NEW n \in 1..(IoSize - 1), RecvChunk(n)
      PROVE  \E m3 \in Framing : Reads(m2, Pending(w'), m3) /\ Reads(m3, stream', <<"high", 0>>)
  <2>1. /\ n <= Len(stream) /\ Pushing(SubSeq(stream, 1, n), "rest")
        /\ stream' = SubSeq(stream, n + 1, Len(stream))
    BY <1>8 DEF RecvChunk
  <2>2. stream \in Seq(Byte)
    BY DEF ServerInv, SharedInv
  <2>3. n \in 0..Len(stream)
    <3>1. Len(stream) \in Nat /\ n \in Nat
      BY <2>2, ServerAssumption
    <3> QED BY <2>1, <3>1
  <2> QED BY <1>4, <1>5, <2>1, <2>2, <2>3, ReadsSplit
<1>9. ASSUME SendBody
      PROVE  \E m3 \in Framing : Reads(m2, Pending(w'), m3) /\ Reads(m3, stream', <<"high", 0>>)
  <2>1. Pushing(stream, "rest") /\ stream' = <<>>
    BY <1>9 DEF SendBody
  <2>2. <<"high", 0>> \in Framing
    BY DEF Framing
  <2>3. Reads(m2, Pending(w'), <<"high", 0>>) /\ Reads(<<"high", 0>>, stream', <<"high", 0>>)
    BY <1>4, <1>5, <2>1, <2>2, ReadsNothing
  <2> QED BY <2>2, <2>3
<1> QED BY <1>7, <1>8, <1>9

(* A frame follows what the frontend has sent before. *)
LEMMA FrontFramed ==
    ASSUME ServerInv, Framed, NEW len \in BodyLens, FrontSends(len)
    PROVE  Framed'
<1>1. /\ stream' = stream \o Frame(len)
      /\ UNCHANGED <<head, tail, buf, use, w, r, expect>>
  BY DEF FrontSends, threads, history
<1>2. Contents' = Contents
  BY <1>1 DEF Contents, Readable, Remain, Wrap
<1>3. stream \in Seq(Byte)
  BY DEF ServerInv, SharedInv
<1>4. PICK m1, m2, m3 \in Framing :
         /\ Reads(expect, Taken(r), m1) /\ Reads(m1, Contents, m2)
         /\ Reads(m2, Pending(w), m3) /\ Reads(m3, stream, <<"high", 0>>)
  BY DEF Framed, Chain
<1>5. Reads(m3, stream', <<"high", 0>>)
  BY <1>1, <1>3, <1>4, FrameBytes, ReadsFrame, ReadsMore
<1>6. Chain(expect', Taken(r'), Contents', Pending(w'), stream')
  BY <1>1, <1>2, <1>4, <1>5 DEF Chain
<1>7. ReaderAt(use', r', Contents', expect')
  BY <1>1, <1>2 DEF Framed
<1> QED BY <1>6, <1>7 DEF Framed

(* The states of the receiver while it is not lost. *)
LEMMA FramingStates ==
    /\ <<"high", 0>> \in Framing
    /\ \A state \in Framing : state[1] # "lost"
    /\ \A k : <<"body", k>> \in Framing => k \in Nat \ {0}
    /\ <<"high", 0>>[1] = "high"
<1>1. <<"high", 0>> \in Framing
  BY DEF Framing
<1>2. ASSUME NEW state \in Framing PROVE state[1] # "lost"
  <2>1. state = <<"high", 0>> \/ state = <<"low", 0>> \/ \E k \in Nat \ {0} : state = <<"body", k>>
    BY DEF Framing
  <2> QED BY <2>1
<1>3. ASSUME NEW k, <<"body", k>> \in Framing PROVE k \in Nat \ {0}
  <2>1. <<"body", k>>[1] = "body" /\ <<"body", k>>[2] = k
    OBVIOUS
  <2>2. <<"body", k>> # <<"high", 0>> /\ <<"body", k>> # <<"low", 0>>
    BY <2>1
  <2>3. PICK j \in Nat \ {0} : <<"body", k>> = <<"body", j>>
    BY <1>3, <2>2 DEF Framing
  <2> QED BY <2>1, <2>3
<1>4. <<"high", 0>>[1] = "high"
  OBVIOUS
<1> QED BY <1>1, <1>2, <1>3, <1>4

(* A reader at the start of a call, or outside of one. *)
LEMMA ReaderStarts ==
    /\ r' = RIdle => r'.at = "loop" /\ r'.pc = "out"
    /\ \A at, n, canread : Calling(at, n, canread) =>
          r'.at = at /\ r'.pc = "eq" /\ r'.n = n /\ r'.canread = canread
BY DEF RIdle, Calling

(* RingBuffer_pop has returned bytes that take the receiver to next:       *)
(* do_server has sent them, parse_client_json has the length or the JSON   *)
(* string of a frame.                                                      *)
LEMMA PopReturned ==
    ASSUME intact, use \in {"sendq", "recvq"}, Places(use, w, r, stream),
           r.at \in {"pop", "header", "json"}, r.n \in Nat, NEW bytes \in Seq(Byte),
           NEW next \in Framing, expect \in Framing, Reads(expect, bytes, next), Len(bytes) = r.n,
           use = "recvq" /\ r.at = "header" =>
              expect = <<"high", 0>> /\ r.n = 2 /\ bytes[2] = r.canread,
           use = "recvq" /\ r.at = "json" => expect = <<"body", r.n>>,
           Returned(bytes), ~unsent'
    PROVE  /\ expect' = next /\ intact' /\ Taken(r') = <<>>
           /\ \A q : ReaderAt(use, r', q, expect')
<1>1. AfterBytes(expect, bytes) = next
  BY ReadsAfter
<1>2. next[1] # "lost" /\ (next = <<"high", 0>> => next[1] = "high")
  BY FramingStates
<1>3. ASSUME Receive(bytes) PROVE expect' = next /\ intact'
  BY <1>1, <1>2, <1>3, Zenon DEF Receive
<1>4. Taken(r') = <<>> /\ r'.pc # "wrap"
  <2>1. r'.pc \in {"out", "eq"}
    BY CallEnds
  <2> QED BY <2>1 DEF Taken
<1>5. CASE r.at = "pop"
  <2>1. Receive(bytes)
    <3>1. PICK sent \in 0..Len(bytes) : /\ Receive(SubSeq(bytes, 1, sent))
                                        /\ unsent' = (unsent \/ sent < Len(bytes))
      BY <1>5 DEF Returned
    <3>2. ~(sent < Len(bytes))
      BY <3>1, Zenon
    <3>3. sent = Len(bytes)
      BY <3>2
    <3>4. SubSeq(bytes, 1, sent) = bytes
      BY <3>3
    <3> QED BY <3>1, <3>4
  <2>2. use # "recvq"
    BY <1>5 DEF Places
  <2> QED BY <1>3, <1>4, <2>1, <2>2 DEF ReaderAt
<1>6. CASE r.at = "header"
  <2>1. Receive(bytes) /\ Calling("json", r.canread, 0)
    BY <1>6 DEF Returned
  <2>2. use = "recvq"
    BY <1>6 DEF Places
  <2>3. next = <<"body", r.canread>>
    BY <1>6, <2>2, ReadsLength
  <2>4. r'.at = "json" /\ r'.n = r.canread
    BY <2>1, ReaderStarts
  <2> QED BY <1>3, <1>4, <2>1, <2>3, <2>4 DEF ReaderAt
<1>7. CASE r.at = "json"
  <2>1. /\ expect' = AfterBytes(expect, bytes) /\ intact' = (intact /\ expect'[1] = "high")
        /\ Calling("readable", 0, 0)
    BY <1>7 DEF Returned
  <2>2. use = "recvq"
    BY <1>7 DEF Places
  <2>3. r.n \in Nat \ {0}
    BY <1>7, <2>2, FramingStates
  <2>4. next = <<"high", 0>>
    BY <1>7, <2>2, <2>3, ReadsBody
  <2>5. r'.at = "readable"
    BY <2>1, ReaderStarts
  <2>6. expect' = next /\ intact'
    BY <1>1, <1>2, <2>1, <2>4, Zenon
  <2> QED BY <1>4, <2>4, <2>5, <2>6 DEF ReaderAt
<1> QED BY <1>5, <1>6, <1>7

(* The bytes of a pop leave the buffer: the store to head, ... *)
LEMMA PopFramed ==
    ASSUME ServerInv, TwoThreads, conn # "dropping", Framed, intact, Places(use, w, r, stream),
           use \in {"sendq", "recvq"}, RStore, ~unsent'
    PROVE  Framed' /\ intact'
<1>1. /\ conn' = conn /\ UNCHANGED <<w, stream, use>> /\ reply' = Done(r.out)
      /\ r.pc \in {"store", "last"}
      /\ IF r.pc = "last" THEN Returned(r.out)
         ELSE r' = [r EXCEPT !.pc = "wrap"] /\ UNCHANGED <<expect, intact>>
  BY DEF RStore
<1>2. /\ r.n <= Len(Contents) /\ r.out = SubSeq(Contents, 1, r.n)
      /\ Contents' = SubSeq(Contents, r.n + 1, Len(Contents))
  BY <1>1, PopAnswers, ContentsNext
<1>3. /\ r \in Reader /\ r.n \in Nat /\ r.out \in Seq(Byte)
      /\ Contents \in Seq(Byte) /\ Len(Contents) \in Nat /\ r.n \in 0..Len(Contents)
  BY <1>2, ContentsBytes, ThreadTypes
<1>4. r.at \in {"pop", "header", "json"}
  BY <1>1 DEF ServerInv, ReaderInv, Reader, Serving, Moving
<1>5. PICK m2, m3 \in Framing :
         /\ expect \in Framing /\ Reads(expect, Contents, m2)
         /\ Reads(m2, Pending(w), m3) /\ Reads(m3, stream, <<"high", 0>>)
  <2>1. Taken(r) = <<>>
    BY <1>1 DEF Taken
  <2>2. PICK m1, m2, m3 \in Framing :
           /\ Reads(expect, <<>>, m1) /\ Reads(m1, Contents, m2)
           /\ Reads(m2, Pending(w), m3) /\ Reads(m3, stream, <<"high", 0>>)
    BY <2>1 DEF Framed, Chain
  <2>3. expect = m1
    BY <2>2, NothingRead
  <2> QED BY <2>2, <2>3
<1>6. PICK next \in Framing : Reads(expect, r.out, next) /\ Reads(next, Contents', m2)
  <2> DEFINE n == r.n
  <2>1. n \in 0..Len(Contents)
    BY <1>3
  <2> HIDE DEF n
  <2>2. PICK next \in Framing :
           /\ Reads(expect, SubSeq(Contents, 1, n), next)
           /\ Reads(next, SubSeq(Contents, n + 1, Len(Contents)), m2)
    BY <1>3, <1>5, <2>1, ReadsSplit
  <2> QED BY <1>2, <2>2 DEF n
<1>7. Len(r.out) = r.n /\ (r.n = 2 => r.out[2] = Contents[2])
  <2> DEFINE n == r.n
             a == Contents
  <2>1. a \in Seq(Byte) /\ n \in 0..Len(a)
    BY <1>3
  <2> HIDE DEF n, a
  <2>2. Len(SubSeq(a, 1, n)) = n /\ (n = 2 => SubSeq(a, 1, n)[2] = a[2])
    BY <2>1
  <2> QED BY <1>2, <2>2 DEF n, a
<1>8. /\ r.at = "header" /\ use = "recvq" =>
            expect = <<"high", 0>> /\ r.n = 2 /\ r.out[2] = r.canread
      /\ r.at = "json" /\ use = "recvq" => expect = <<"body", r.n>>
  BY <1>1, <1>7 DEF Framed, ReaderAt
<1>9. CASE r.pc = "last"
  <2>1. Returned(r.out)
    BY <1>1, <1>9
  <2>2. /\ expect' = next /\ intact' /\ Taken(r') = <<>>
        /\ \A q : ReaderAt(use, r', q, expect')
    <3> DEFINE bytes == r.out
    <3>1. bytes \in Seq(Byte) /\ Len(bytes) = r.n /\ Reads(expect, bytes, next) /\ Returned(bytes)
      BY <1>3, <1>6, <1>7, <2>1
    <3>2. r.at = "header" /\ use = "recvq" =>
            expect = <<"high", 0>> /\ r.n = 2 /\ bytes[2] = r.canread
      BY <1>8
    <3> HIDE DEF bytes
    <3> QED BY <1>3, <1>4, <1>5, <1>8, <3>1, <3>2, PopReturned
  <2>3. Reads(expect', Taken(r'), next)
    BY <2>2, ReadsNothing
  <2>4. Chain(expect', Taken(r'), Contents', Pending(w'), stream')
    BY <1>1, <1>5, <1>6, <2>3 DEF Chain
  <2>5. ReaderAt(use', r', Contents', expect')
    BY <1>1, <2>2
  <2> QED BY <2>2, <2>4, <2>5 DEF Framed
<1>10. CASE r.pc = "store"
  <2>1. /\ r' = [r EXCEPT !.pc = "wrap"] /\ UNCHANGED <<expect, intact>>
    BY <1>1, <1>10
  <2>2. /\ r'.pc = "wrap" /\ r'.at = r.at /\ r'.n = r.n /\ r'.out = r.out
        /\ r'.canread = r.canread
    BY <1>3, <2>1 DEF Reader
  <2>3. Taken(r') = r.out
    BY <2>2 DEF Taken
  <2>4. Chain(expect', Taken(r'), Contents', Pending(w'), stream')
    BY <1>1, <1>5, <1>6, <2>1, <2>3 DEF Chain
  <2>5. ReaderAt(use', r', Contents', expect')
    BY <1>1, <1>4, <1>7, <1>8, <2>1, <2>2 DEF ReaderAt
  <2> QED BY <2>1, <2>4, <2>5 DEF Framed
<1> QED BY <1>1, <1>9, <1>10

(* ... and the second one, after which the pop returns. *)
LEMMA PopEndFramed ==
    ASSUME ServerInv, TwoThreads, conn # "dropping", Framed, intact, Places(use, w, r, stream),
           use \in {"sendq", "recvq"}, ~(head = Size + 1 /\ tail = Size + 1), RWrap,
           ~unsent'
    PROVE  Framed' /\ intact'
<1>1. /\ conn' = conn /\ UNCHANGED <<w, stream, use>> /\ r.pc = "wrap" /\ Returned(r.out)
  BY DEF RWrap
<1>2. Contents' = Contents
  BY <1>1, PopReturns, ContentsNext
<1>3. /\ r.n \in Nat /\ r.out \in Seq(Byte)
  BY ThreadTypes
<1>4. r.at \in {"pop", "header", "json"}
  BY <1>1 DEF ServerInv, ReaderInv, Reader, Serving, Moving
<1>5. PICK m1, m2, m3 \in Framing :
         /\ Reads(expect, r.out, m1) /\ Reads(m1, Contents, m2)
         /\ Reads(m2, Pending(w), m3) /\ Reads(m3, stream, <<"high", 0>>)
  BY <1>1 DEF Framed, Chain, Taken
<1>6. expect \in Framing
  <2> DEFINE bytes == r.out
  <2>1. Reads(expect, bytes, m1) /\ Len(bytes) \in Nat
    BY <1>3, <1>5
  <2> HIDE DEF bytes
  <2>2. PICK f \in [0..Len(bytes) -> Framing] : f[0] = expect
    BY <2>1 DEF Reads
  <2>3. 0 \in 0..Len(bytes)
    BY <2>1
  <2> QED BY <2>2, <2>3
<1>7. /\ Len(r.out) = r.n
      /\ r.at = "header" /\ use = "recvq" =>
            expect = <<"high", 0>> /\ r.n = 2 /\ r.out[2] = r.canread
      /\ r.at = "json" /\ use = "recvq" => expect = <<"body", r.n>>
  BY <1>1 DEF Framed, ReaderAt
<1>8. /\ expect' = m1 /\ intact' /\ Taken(r') = <<>>
      /\ \A q : ReaderAt(use, r', q, expect')
  <2> DEFINE bytes == r.out
  <2>1. bytes \in Seq(Byte) /\ Len(bytes) = r.n /\ Reads(expect, bytes, m1) /\ Returned(bytes)
    BY <1>1, <1>3, <1>5, <1>7
  <2>2. r.at = "header" /\ use = "recvq" =>
          expect = <<"high", 0>> /\ r.n = 2 /\ bytes[2] = r.canread
    BY <1>7
  <2> HIDE DEF bytes
  <2> QED BY <1>3, <1>4, <1>5, <1>6, <1>7, <2>1, <2>2, PopReturned
<1>9. Reads(expect', Taken(r'), m1)
  BY <1>8, ReadsNothing
<1>10. Chain(expect', Taken(r'), Contents', Pending(w'), stream')
  BY <1>1, <1>2, <1>5, <1>9 DEF Chain
<1>11. ReaderAt(use', r', Contents', expect')
  BY <1>1, <1>8
<1> QED BY <1>8, <1>10, <1>11 DEF Framed

(* RingBuffer_read has returned the first two bytes in the buffer: they    *)
(* are the length of a frame.                                              *)
LEMMA PeekReturned ==
    ASSUME ServerInv, TwoThreads, Framed, Places(use, w, r, stream),
           use \in {"sendq", "recvq"}, r.pc = "copy", r.at = "peek",
           NEW bytes, bytes = SubSeq(Contents, 1, r.n), r.n <= Len(Contents), Returned(bytes)
    PROVE  Taken(r') = <<>> /\ ReaderAt(use, r', Contents, expect) /\ UNCHANGED <<expect, intact>>
<1>1. use = "recvq"
  BY DEF Places
<1>2. r.n = 2 /\ Contents \in Seq(Byte)
  BY ContentsBytes DEF ServerInv, ReaderInv
<1>3. expect = <<"high", 0>>
  BY <1>1 DEF Framed, ReaderAt
<1>4. PICK m2 \in Framing : Reads(<<"high", 0>>, Contents, m2)
  <2>1. Taken(r) = <<>>
    BY DEF Taken
  <2>2. PICK m1, m2 \in Framing : Reads(expect, <<>>, m1) /\ Reads(m1, Contents, m2)
    BY <2>1 DEF Framed, Chain
  <2>3. expect = m1
    BY <2>2, NothingRead
  <2> QED BY <1>3, <2>2, <2>3
<1>5. bytes[1] = High /\ bytes[2] = Contents[2] /\ Len(Contents) >= 2
  <2> DEFINE a == Contents
  <2>1. a \in Seq(Byte) /\ 2 <= Len(a) /\ bytes = SubSeq(a, 1, 2)
           /\ Reads(<<"high", 0>>, a, m2)
    BY <1>2, <1>4
  <2> HIDE DEF a
  <2>2. bytes[1] = a[1] /\ bytes[2] = a[2] /\ Len(a) >= 2
    <3>1. Len(a) \in Nat /\ 1 \in 1..Len(a) /\ 2 \in 1..Len(a)
      BY <2>1
    <3>2. \A n \in 0..Len(a) : \A i \in 1..n : SubSeq(a, 1, n)[i] = a[i]
      BY <2>1, <3>1
    <3>3. 1 \in 1..2 /\ 2 \in 1..2 /\ 2 \in 0..Len(a)
      BY <3>1
    <3> QED BY <2>1, <3>1, <3>2, <3>3
  <2>3. a[1] = High
    BY <2>1, <2>2, ReadsLength
  <2> QED BY <2>2, <2>3 DEF a
<1>6. /\ IF r.canread >= 2 + bytes[2] THEN Calling("header", 2, bytes[2]) ELSE r' = RIdle
      /\ UNCHANGED <<expect, intact>>
  BY <1>5 DEF Returned
<1>7. CASE r' = RIdle
  <2>1. r'.at = "loop" /\ r'.pc = "out"
    BY <1>7, ReaderStarts
  <2> QED BY <1>3, <1>6, <2>1 DEF ReaderAt, Taken
<1>8. CASE Calling("header", 2, bytes[2])
  <2>1. r'.at = "header" /\ r'.pc = "eq" /\ r'.n = 2 /\ r'.canread = bytes[2]
    BY <1>8, ReaderStarts
  <2> QED BY <1>3, <1>5, <1>6, <2>1 DEF ReaderAt, Taken
<1> QED BY <1>6, <1>7, <1>8

(* A step of the reading thread inside of a call. *)
LEMMA ReaderGoesOn ==
    ASSUME Framed, r'.at = r.at, r'.n = r.n, r'.canread = r.canread, r.pc # "wrap", r'.pc # "wrap"
    PROVE  Taken(r') = Taken(r) /\ ReaderAt(use, r', Contents, expect)
BY DEF Framed, ReaderAt, Taken

(* RingBuffer_read and RingBuffer_pop, unless refused, up to the copy, and *)
(* the size query.                                                         *)
LEMMA ReadFramed ==
    ASSUME ServerInv, TwoThreads, conn # "dropping", Framed, intact, Places(use, w, r, stream),
           use \in {"sendq", "recvq"}, refused' = "no",
           RStart \/ RMeasure \/ RCont \/ RCopy \/ RAdd
    PROVE  Framed' /\ intact'
<1>1. conn' = conn /\ UNCHANGED <<w, stream, use>>
  BY DEF RStart, RMeasure, RCont, RCopy, RAdd
<1>2. Contents' = Contents
  <2>1. CASE RCopy
    <3>1. r.at = "peek" => \E out : reply' = Done(out)
      BY <2>1 DEF RCopy
    <3> QED BY <1>1, <2>1, <3>1, ReadAnswers, ContentsNext
  <2>2. CASE ~RCopy
    BY <1>1, <2>2, PopServes, ContentsNext
  <2> QED BY <2>1, <2>2
<1>3. r \in Reader
  BY ThreadTypes
<1> SUFFICES /\ Taken(r') = Taken(r) /\ ReaderAt(use, r', Contents, expect)
             /\ UNCHANGED <<expect, intact>>
  BY <1>1, <1>2, ReaderQuiet
<1>4. CASE RStart
  <2>1. r.pc = "out" /\ Calling("readable", 0, 0) /\ UNCHANGED <<expect, intact>>
    BY <1>4 DEF RStart
  <2>2. r'.at = "readable" /\ r'.pc = "eq" /\ r.at = "loop"
    BY <2>1, ReaderStarts DEF Places
  <2> QED BY <2>1, <2>2 DEF Framed, ReaderAt, Taken
<1>5. CASE RMeasure
  <2>1. PICK m : m = Measured(r.pc)
    OBVIOUS
  <2>2. PICK readable : readable = Size - m.remain
    OBVIOUS
  <2>3. /\ r.pc \in Measuring
        /\ IF m.pc # "got" THEN r' = [r EXCEPT !.pc = m.pc] /\ UNCHANGED <<expect, intact>>
           ELSE IF r.at = "readable" THEN Found(IF readable < 0 THEN Huge ELSE readable)
           ELSE IF r.n > readable THEN Refusal(r.n > Readable)
           ELSE r' = [r EXCEPT !.pc = "cont"] /\ UNCHANGED <<expect, intact>>
    BY <1>5, <2>1, <2>2 DEF RMeasure, Measuring
  <2>4. m.pc \in Measuring \cup {"got"}
    BY <2>1, <2>3, MeasuredBounds DEF ServerInv, SharedInv
  <2>5. r.pc # "wrap" /\ \A rightly : ~Refusal(rightly)
    BY <2>3, Zenon DEF Refusal, Measuring
  <2>6. CASE m.pc # "got"
    <3>1. /\ r'.at = r.at /\ r'.n = r.n /\ r'.canread = r.canread /\ r'.pc = m.pc
          /\ UNCHANGED <<expect, intact>>
      BY <1>3, <2>3, <2>6 DEF Reader
    <3>2. m.pc # "wrap"
      BY <2>4 DEF Measuring
    <3> QED BY <2>5, <3>1, <3>2, ReaderGoesOn
  <2>7. CASE m.pc = "got" /\ r.at = "readable"
    <3>1. PICK size : Found(size)
      BY <2>3, <2>7
    <3>2. UNCHANGED <<expect, intact>>
      BY <3>1 DEF Found
    <3>3. CASE use = "sendq"
      <4>1. r'.pc \in {"out", "eq"}
        BY <3>1, CallEnds
      <4> QED BY <2>5, <3>2, <3>3, <4>1 DEF ReaderAt, Taken
    <3>4. CASE use = "recvq"
      <4>1. r' = RIdle \/ Calling("peek", 2, size)
        BY <3>1, <3>4 DEF Found
      <4>2. r'.pc \in {"out", "eq"} /\ r'.at \in {"loop", "peek"}
        BY <4>1, ReaderStarts
      <4> QED BY <2>5, <2>7, <3>2, <4>2 DEF Framed, ReaderAt, Taken
    <3> QED BY <3>3, <3>4
  <2>8. CASE m.pc = "got" /\ r.at # "readable"
    <3>1. r' = [r EXCEPT !.pc = "cont"] /\ UNCHANGED <<expect, intact>>
      BY <2>3, <2>5, <2>8, Zenon
    <3>2. /\ r'.at = r.at /\ r'.n = r.n /\ r'.canread = r.canread /\ r'.pc = "cont"
      BY <1>3, <3>1 DEF Reader
    <3> QED BY <2>5, <3>1, <3>2, ReaderGoesOn
  <2> QED BY <2>6, <2>7, <2>8
<1>6. CASE RCont
  <2>1. /\ r'.at = r.at /\ r'.n = r.n /\ r'.canread = r.canread /\ r.pc = "cont" /\ r'.pc = "copy"
        /\ UNCHANGED <<expect, intact>>
    BY <1>3, <1>6 DEF RCont, Reader
  <2> QED BY <2>1, ReaderGoesOn
<1>7. CASE RCopy
  <2>1. PICK out : out = CopiedOut(r.n, r.tmp)
    OBVIOUS
  <2>2. /\ r.pc = "copy"
        /\ IF r.at = "peek" THEN Returned(out) /\ reply' = Done(out)
           ELSE r' = [r EXCEPT !.pc = "add", !.out = out] /\ UNCHANGED <<expect, intact>>
    BY <1>7, <2>1 DEF RCopy
  <2>3. CASE r.at = "peek"
    <3>1. out = SubSeq(Contents, 1, r.n) /\ r.n <= Len(Contents)
      BY <1>1, <1>7, <2>2, <2>3, ReadAnswers, ContentsNext
    <3>2. Taken(r) = <<>>
      BY <2>2 DEF Taken
    <3> QED BY <2>2, <2>3, <3>1, <3>2, PeekReturned
  <2>4. CASE r.at # "peek"
    <3>1. r' = [r EXCEPT !.pc = "add", !.out = out] /\ UNCHANGED <<expect, intact>>
      BY <2>2, <2>4
    <3>2. /\ r'.at = r.at /\ r'.n = r.n /\ r'.canread = r.canread /\ r'.pc = "add"
      BY <1>3, <3>1 DEF Reader
    <3> QED BY <2>2, <3>1, <3>2, ReaderGoesOn
  <2> QED BY <2>3, <2>4
<1>8. CASE RAdd
  <2>1. /\ r'.at = r.at /\ r'.n = r.n /\ r'.canread = r.canread /\ r.pc = "add"
        /\ r'.pc \in {"last", "store"} /\ UNCHANGED <<expect, intact>>
    BY <1>3, <1>8 DEF RAdd, Reader
  <2> QED BY <2>1, ReaderGoesOn
<1> QED BY <1>4, <1>5, <1>6, <1>7, <1>8

(* A thread's turn: a race, a refusal, or the receiver gets frames. *)
LEMMA TurnFramed ==
    ASSUME ApartInv, FramedInv, NEW thread, NEW race, Turn(thread, race), conn' = conn, use' = use,
           Places(use, w, r, stream)',
           refused' = "no" /\ ~unsent' => refused = "no" /\ ~unsent,
           /\ conn # "dropping" /\ ~race /\ TwoThreads /\ Framed /\ intact
           /\ refused' = "no" /\ ~unsent'
           /\ use \in {"sendq", "recvq"} /\ Places(use, w, r, stream)
           => Framed' /\ intact'
    PROVE  FramedInv'
<1>1. CASE raced' \/ refused' # "no" \/ unsent'
  BY <1>1, Zenon DEF FramedInv
<1>2. CASE ~raced' /\ refused' = "no" /\ ~unsent'
  <2>1. /\ ~raced /\ conn # "dropping" /\ ~race /\ use \in {"sendq", "recvq"}
        /\ refused = "no" /\ ~unsent
    BY <1>2, Zenon DEF Turn
  <2>2. TwoThreads
    BY <2>1 DEF ApartInv
  <2>3. Framed /\ intact /\ Places(use, w, r, stream)
    BY <2>1 DEF FramedInv
  <2>4. Framed' /\ intact'
    BY <1>2, <2>1, <2>2, <2>3
  <2> QED BY <2>1, <2>4 DEF FramedInv
<1> QED BY <1>1, <1>2

(* A send of less than all bytes is not forgotten. *)
LEMMA UnsentStays ==
    ASSUME ServerInv, RStart \/ RMeasure \/ RCont \/ RCopy \/ RAdd \/ RStore \/ RWrap, ~unsent'
    PROVE  ~unsent
<1>1. ASSUME NEW bytes, Returned(bytes), r.at \in {"pop", "peek", "header", "json"}
      PROVE  ~unsent
  <2>1. CASE r.at = "pop"
    <3>1. \E sent : unsent' = (unsent \/ sent < Len(bytes))
      BY <1>1, <2>1 DEF Returned
    <3> QED BY <3>1, Zenon
  <2>2. CASE r.at = "peek"
    BY <1>1, <2>2 DEF Returned
  <2>3. CASE r.at = "header"
    BY <1>1, <2>3 DEF Returned
  <2>4. CASE r.at = "json"
    BY <1>1, <2>4 DEF Returned
  <2> QED BY <1>1, <2>1, <2>2, <2>3, <2>4
<1>2. r \in Reader
  BY ThreadTypes
<1>3. CASE RStart \/ RCont \/ RAdd
  BY <1>3 DEF RStart, RCont, RAdd
<1>4. CASE RMeasure
  <2>1. /\ r.pc \in Measuring
        /\ \/ unsent' = unsent
           \/ \E size : Found(size)
           \/ r.at # "readable" /\ Returned(Garbage(r.n))
    BY <1>4 DEF RMeasure, Measuring
  <2>2. r.at \in {"readable", "pop", "peek", "header", "json"}
    BY <1>2, <2>1 DEF ServerInv, ReaderInv, Reader
  <2>3. ASSUME NEW size, Found(size) PROVE ~unsent
    BY <2>3 DEF Found
  <2> QED BY <1>1, <2>1, <2>2, <2>3
<1>5. CASE RCopy
  <2>1. unsent' = unsent \/ \E out : r.at = "peek" /\ Returned(out)
    BY <1>5 DEF RCopy
  <2> QED BY <1>1, <2>1
<1>6. CASE RStore \/ RWrap
  <2>1. r.pc \in Moving /\ (unsent' = unsent \/ Returned(r.out))
    BY <1>6 DEF RStore, RWrap, Moving
  <2>2. r.at \in {"pop", "peek", "header", "json"}
    BY <1>2, <2>1 DEF ServerInv, ReaderInv, Reader, Serving
  <2> QED BY <1>1, <2>1, <2>2
<1> QED BY <1>3, <1>4, <1>5, <1>6

(* Neither is it nor a refusal forgotten by a thread. *)
LEMMA RefusalStays ==
    ASSUME ServerInv,
           \/ \E len \in BodyLens : SendHeader(len)
           \/ \E n \in 1..(IoSize - 1) : RecvChunk(n)
           \/ SendBody \/ WMeasure \/ WCont \/ WCopy \/ WAdd \/ WStore \/ WWrap
           \/ RStart \/ RMeasure \/ RCont \/ RCopy \/ RAdd \/ RStore \/ RWrap
    PROVE  refused' = "no" /\ ~unsent' => refused = "no" /\ ~unsent
<1>1. ASSUME NEW rightly, Refusal(rightly) PROVE refused' # "no"
  BY <1>1, Zenon DEF Refusal
<1>2. CASE WMeasure
  BY <1>1, <1>2, Zenon DEF WMeasure
<1>3. CASE RMeasure
  <2>1. refused' = "no" => refused = "no"
    BY <1>1, <1>3, Zenon DEF RMeasure
  <2> QED BY <1>3, <2>1, UnsentStays
<1>4. ASSUME NEW len, SendHeader(len) PROVE refused' = refused /\ unsent' = unsent
  BY <1>4 DEF SendHeader
<1>5. ASSUME NEW n, RecvChunk(n) PROVE refused' = refused /\ unsent' = unsent
  BY <1>5 DEF RecvChunk
<1>6. CASE SendBody \/ WCont \/ WCopy \/ WAdd \/ WStore \/ WWrap
  BY <1>6 DEF SendBody, WCont, WCopy, WAdd, WStore, WWrap
<1>7. CASE RStart \/ RCont \/ RCopy \/ RAdd \/ RStore \/ RWrap
  <2>1. refused' = refused
    BY <1>7 DEF RStart, RCont, RCopy, RAdd, RStore, RWrap
  <2> QED BY <1>7, <2>1, UnsentStays
<1> QED BY <1>2, <1>3, <1>4, <1>5, <1>6, <1>7

(* The writing thread goes round its loop: both pushes of a frame, ... *)
LEMMA WriterPlaces ==
    ASSUME ServerInv, Places(use, w, r, stream),
           \/ \E len \in BodyLens : SendHeader(len)
           \/ \E n \in 1..(IoSize - 1) : RecvChunk(n)
           \/ SendBody \/ WMeasure \/ WCont \/ WCopy \/ WAdd \/ WStore \/ WWrap
    PROVE  Places(use, w, r, stream)'
<1>1. UNCHANGED <<r, use>>
  BY DEF SendHeader, RecvChunk, SendBody, WMeasure, WCont, WCopy, WAdd, WStore, WWrap
<1>2. w \in Writer
  BY ThreadTypes
<1>3. ASSUME NEW data, NEW at, Pushing(data, at) PROVE w'.at = at /\ w'.pc = "eq"
  BY <1>3 DEF Pushing
<1>4. ASSUME NEW len, SendHeader(len) PROVE Places(use, w, r, stream)'
  <2>1. Pushing(<<High, len>>, "header")
    BY <1>4 DEF SendHeader
  <2>2. w'.at = "header"
    BY <1>3, <2>1
  <2> QED BY <1>1, <2>2 DEF Places
<1>5. ASSUME NEW n, RecvChunk(n) PROVE Places(use, w, r, stream)'
  <2>1. use = "recvq"
    BY <1>5 DEF RecvChunk
  <2> QED BY <1>1, <2>1 DEF Places
<1>6. CASE SendBody
  <2>1. Pushing(stream, "rest") /\ stream' = <<>>
    BY <1>6 DEF SendBody
  <2>2. w'.at = "rest"
    BY <1>3, <2>1
  <2> QED BY <1>1, <2>1, <2>2 DEF Places
<1>7. ASSUME w.pc # "out", stream' = stream, WReturn PROVE Places(use, w, r, stream)'
  <2>1. w'.pc = "out" /\ w'.at = IF w.at = "header" THEN "body" ELSE "frame"
    BY <1>7 DEF WReturn, WIdle
  <2> QED BY <1>1, <1>7, <2>1 DEF Places
<1>8. ASSUME w.pc # "out", stream' = stream, w'.at = w.at PROVE Places(use, w, r, stream)'
  BY <1>1, <1>8 DEF Places
<1>9. CASE WMeasure
  <2>1. /\ w.pc # "out" /\ stream' = stream
        /\ WReturn \/ \E pc : w' = [w EXCEPT !.pc = pc]
    BY <1>9 DEF WMeasure
  <2>2. (\E pc : w' = [w EXCEPT !.pc = pc]) => w'.at = w.at
    BY <1>2 DEF Writer
  <2> QED BY <1>7, <1>8, <2>1, <2>2
<1>10. CASE WCont \/ WCopy \/ WAdd
  <2>1. w.pc # "out" /\ stream' = stream /\ w'.at = w.at
    BY <1>2, <1>10 DEF WCont, WCopy, WAdd, Writer
  <2> QED BY <1>8, <2>1
<1>11. CASE WStore
  <2>1. w.pc # "out" /\ stream' = stream /\ (WReturn \/ w' = [w EXCEPT !.pc = "wrap"])
    BY <1>11 DEF WStore
  <2>2. w' = [w EXCEPT !.pc = "wrap"] => w'.at = w.at
    BY <1>2 DEF Writer
  <2> QED BY <1>7, <1>8, <2>1, <2>2
<1>12. CASE WWrap
  BY <1>7, <1>12 DEF WWrap
<1> QED BY <1>4, <1>5, <1>6, <1>9, <1>10, <1>11, <1>12

(* ... and so does the reading thread. *)
LEMMA ReaderPlaces ==
    ASSUME ServerInv, Places(use, w, r, stream), use \in {"sendq", "recvq"},
           RStart \/ RMeasure \/ RCont \/ RCopy \/ RAdd \/ RStore \/ RWrap
    PROVE  Places(use, w, r, stream)'
<1>1. UNCHANGED <<w, use, stream>>
  BY DEF RStart, RMeasure, RCont, RCopy, RAdd, RStore, RWrap
<1>2. r \in Reader
  BY ThreadTypes
<1>3. ASSUME r' = RIdle PROVE Places(use, w, r, stream)'
  BY <1>1, <1>3, ReaderStarts DEF Places
<1>4. ASSUME NEW at, NEW n, NEW canread, Calling(at, n, canread),
             use = "sendq" => at \in {"readable", "pop"}, use = "recvq" => at # "pop"
      PROVE  Places(use, w, r, stream)'
  BY <1>1, <1>4, ReaderStarts DEF Places
<1>5. ASSUME r'.pc # "out", r'.at = r.at PROVE Places(use, w, r, stream)'
  BY <1>1, <1>5 DEF Places
<1>6. ASSUME NEW size, Found(size) PROVE Places(use, w, r, stream)'
  <2>1. CASE use = "sendq"
    <3>1. r' = RIdle \/ \E n : Calling("pop", n, size)
      BY <1>6, <2>1 DEF Found
    <3> QED BY <1>3, <1>4, <2>1, <3>1
  <2>2. CASE use = "recvq"
    <3>1. r' = RIdle \/ Calling("peek", 2, size)
      BY <1>6, <2>2 DEF Found
    <3> QED BY <1>3, <1>4, <2>2, <3>1
  <2> QED BY <2>1, <2>2
<1>7. ASSUME NEW bytes, Returned(bytes), r.at \in {"pop", "peek", "header", "json"}
      PROVE  Places(use, w, r, stream)'
  <2>1. CASE r.at = "pop"
    <3>1. r' = RIdle \/ Calling("readable", 0, 0)
      BY <1>7, <2>1 DEF Returned
    <3> QED BY <1>3, <1>4, <3>1
  <2>2. CASE r.at = "peek"
    <3>1. use # "sendq" /\ (r' = RIdle \/ \E n : Calling("header", 2, n))
      BY <1>7, <2>2 DEF Returned, Places
    <3> QED BY <1>3, <1>4, <3>1
  <2>3. CASE r.at = "header"
    <3>1. use # "sendq" /\ Calling("json", r.canread, 0)
      BY <1>7, <2>3 DEF Returned, Places
    <3> QED BY <1>4, <3>1
  <2>4. CASE r.at = "json"
    <3>1. Calling("readable", 0, 0)
      BY <1>7, <2>4 DEF Returned
    <3> QED BY <1>4, <3>1
  <2> QED BY <1>7, <2>1, <2>2, <2>3, <2>4
<1>8. CASE RStart
  BY <1>4, <1>8 DEF RStart
<1>9. CASE RMeasure
  <2>1. PICK m : m = Measured(r.pc)
    OBVIOUS
  <2>2. /\ r.pc \in Measuring
        /\ \/ m.pc # "got" /\ r' = [r EXCEPT !.pc = m.pc]
           \/ r.at = "readable" /\ \E size : Found(size)
           \/ r.at # "readable" /\ Returned(Garbage(r.n))
           \/ r' = [r EXCEPT !.pc = "cont"]
    BY <1>9, <2>1 DEF RMeasure, Measuring
  <2>3. m.pc \in Measuring \cup {"got"}
    BY <2>1, <2>2, MeasuredBounds DEF ServerInv, SharedInv
  <2>4. r.at \in {"readable", "pop", "peek", "header", "json"}
    BY <1>2, <2>2 DEF ServerInv, ReaderInv, Reader
  <2>5. CASE m.pc # "got" /\ r' = [r EXCEPT !.pc = m.pc]
    <3>1. r'.pc # "out" /\ r'.at = r.at
      BY <1>2, <2>3, <2>5 DEF Reader, Measuring
    <3> QED BY <1>5, <3>1
  <2>6. CASE r' = [r EXCEPT !.pc = "cont"]
    <3>1. r'.pc # "out" /\ r'.at = r.at
      BY <1>2, <2>6 DEF Reader
    <3> QED BY <1>5, <3>1
  <2> QED BY <1>6, <1>7, <2>2, <2>4, <2>5, <2>6
<1>10. CASE RCont \/ RAdd
  <2>1. r'.pc # "out" /\ r'.at = r.at
    BY <1>2, <1>10 DEF RCont, RAdd, Reader
  <2> QED BY <1>5, <2>1
<1>11. CASE RCopy
  <2>1. \/ \E out : r.at = "peek" /\ Returned(out)
        \/ \E out : r' = [r EXCEPT !.pc = "add", !.out = out]
    BY <1>11 DEF RCopy
  <2>2. (\E out : r' = [r EXCEPT !.pc = "add", !.out = out]) => r'.pc # "out" /\ r'.at = r.at
    BY <1>2 DEF Reader
  <2> QED BY <1>5, <1>7, <2>1, <2>2
<1>12. CASE RStore
  <2>1. r.pc \in Moving /\ (Returned(r.out) \/ r' = [r EXCEPT !.pc = "wrap"])
    BY <1>12 DEF RStore, Moving
  <2>2. r' = [r EXCEPT !.pc = "wrap"] => r'.pc # "out" /\ r'.at = r.at
    BY <1>2 DEF Reader
  <2>3. r.at \in {"pop", "peek", "header", "json"}
    BY <1>2, <2>1 DEF ServerInv, ReaderInv, Reader, Serving
  <2> QED BY <1>5, <1>7, <2>1, <2>2, <2>3
<1>13. CASE RWrap
  <2>1. r.pc \in Moving /\ Returned(r.out)
    BY <1>13 DEF RWrap, Moving
  <2>2. r.at \in {"pop", "peek", "header", "json"}
    BY <1>2, <2>1 DEF ServerInv, ReaderInv, Reader, Serving
  <2> QED BY <1>7, <2>1, <2>2
<1> QED BY <1>8, <1>9, <1>10, <1>11, <1>12, <1>13

(* Nothing in the buffer and nothing on its way. *)
LEMMA NothingFramed ==
    ASSUME NEW which, NEW v, v.pc = "out", NEW u, u.pc = "out", Places(which, v, u, <<>>)
    PROVE  /\ Chain(<<"high", 0>>, Taken(u), <<>>, Pending(v), <<>>)
           /\ ReaderAt(which, u, <<>>, <<"high", 0>>)
<1>1. Taken(u) = <<>> /\ Pending(v) = <<>>
  BY DEF Taken, Pending, Measuring, Holding
<1>2. <<"high", 0>> \in Framing /\ Reads(<<"high", 0>>, <<>>, <<"high", 0>>)
  BY ReadsNothing, FramingStates
<1>3. Chain(<<"high", 0>>, Taken(u), <<>>, Pending(v), <<>>)
  BY <1>1, <1>2 DEF Chain
<1>4. u.at = "loop"
  BY DEF Places
<1> QED BY <1>3, <1>4 DEF ReaderAt

(* A drop that meets nobody at work: the next bytes are a frame. *)
LEMMA DropFramed ==
    ASSUME ServerInv, ApartInv, FramedInv, Drop \/ Dropped \/ Accept
    PROVE  FramedInv'
<1>1. Places(use, w, r, stream)
  BY DEF FramedInv
<1>2. CASE Drop
  <2>1. /\ conn' = "dropping" /\ raced' = ~MainApart /\ UNCHANGED <<w, r, use, stream>>
        /\ MainApart => expect' = <<"high", 0>> /\ intact' = TRUE
    BY <1>2 DEF Drop
  <2>2. MainApart => (use = "sendq" => stream = <<>>)
    BY <1>1 DEF MainApart, Places
  <2>3. CASE MainApart
    BY <1>1, <2>1, <2>2, <2>3 DEF FramedInv
  <2>4. CASE ~MainApart
    BY <1>1, <2>1, <2>4, Zenon DEF FramedInv
  <2> QED BY <2>3, <2>4
<1>3. CASE Dropped
  <2>1. /\ conn = "dropping" /\ conn' = "down" /\ tail' = 0
        /\ UNCHANGED <<head, buf, r, use, expect, intact, refused, unsent, raced>>
        /\ IF use = "recvq" THEN stream' = <<>> /\ w' = WIdle("frame") ELSE UNCHANGED <<stream, w>>
    BY <1>3 DEF Dropped
  <2>2. Places(use, w, r, stream)'
    <3>1. CASE use = "recvq"
      BY <1>1, <2>1, <3>1 DEF Places
    <3>2. CASE use # "recvq"
      BY <1>1, <2>1, <3>2 DEF Places
    <3> QED BY <3>1, <3>2
  <2>3. CASE raced \/ refused # "no" \/ unsent \/ use \notin {"sendq", "recvq"}
    BY <2>1, <2>2, <2>3 DEF FramedInv
  <2>4. CASE ~raced /\ refused = "no" /\ ~unsent /\ use \in {"sendq", "recvq"}
    <3>1. w.pc = "out" /\ r.pc = "out" /\ head = 0
      BY <2>1, <2>4 DEF ApartInv
    <3>2. intact /\ expect = <<"high", 0>> /\ (use = "sendq" => stream = <<>>)
      BY <2>1, <2>4 DEF FramedInv
    <3>3. w'.pc = "out" /\ r'.pc = "out" /\ head' = 0 /\ stream' = <<>> /\ Size \in Nat
      BY <2>1, <2>4, <3>1, <3>2, SizeAssumption DEF WIdle
    <3>4. Apart(head', tail') /\ Used(head', tail') = 0
      BY <2>1, <3>3 DEF Apart, Used
    <3>5. Contents' = <<>>
      BY <3>4, HeldNext DEF Held
    <3>6. Framed'
      <4>1. expect' = <<"high", 0>> /\ Places(use', w', r', <<>>)
        BY <2>1, <2>2, <3>2, <3>3
      <4> QED BY <3>3, <3>5, <4>1, NothingFramed DEF Framed
    <3> QED BY <2>1, <2>2, <3>2, <3>6 DEF FramedInv
  <2> QED BY <2>3, <2>4
<1>4. CASE Accept
  <2>1. /\ conn = "down" /\ conn' = "up"
        /\ UNCHANGED <<head, tail, buf, use, w, r, stream, expect, intact, refused, unsent, raced>>
    BY <1>4 DEF Accept, threads, history
  <2>2. Contents' = Contents
    BY <2>1 DEF Contents, Readable, Remain, Wrap
  <2>3. Framed => Framed'
    BY <2>1, <2>2 DEF Framed
  <2> QED BY <1>1, <2>1, <2>3 DEF FramedInv
<1> QED BY <1>2, <1>3, <1>4

(* Every step keeps the frames whole, unless it is a race or a refusal. *)
LEMMA ServerFramed ==
    ASSUME ServerInv, ApartInv, FramedInv, [ServerNext]_svars
    PROVE  FramedInv'
<1>1. Places(use, w, r, stream)
  BY DEF FramedInv
<1>2. CASE \/ \E len \in BodyLens : SendHeader(len)
           \/ \E n \in 1..(IoSize - 1) : RecvChunk(n)
           \/ SendBody
  <2>1. Turn("writer", FALSE) /\ UNCHANGED <<conn, use>>
    BY <1>2 DEF SendHeader, RecvChunk, SendBody
  <2> QED BY <1>1, <1>2, <2>1, WriterPlaces, RefusalStays, SourceFramed, TurnFramed
<1>3. CASE WMeasure \/ WCont \/ WCopy \/ WAdd \/ WWrap
  <2>1. Turn("writer", FALSE) /\ UNCHANGED <<conn, use>>
    BY <1>3 DEF WMeasure, WCont, WCopy, WAdd, WWrap
  <2> QED BY <1>1, <1>3, <2>1, WriterPlaces, RefusalStays, PushFramed, TurnFramed
<1>4. CASE WStore
  <2>1. Turn("writer", FALSE) /\ UNCHANGED <<conn, use>>
    BY <1>4 DEF WStore
  <2> QED BY <1>1, <1>4, <2>1, WriterPlaces, RefusalStays, StoreFramed, TurnFramed
<1>5. CASE RStart \/ RMeasure \/ RCont \/ RCopy \/ RAdd
  <2>1. Turn("reader", FALSE) /\ UNCHANGED <<conn, use>>
    BY <1>5 DEF RStart, RMeasure, RCont, RCopy, RAdd
  <2>2. use \in {"sendq", "recvq"}
    BY <2>1 DEF Turn
  <2> QED BY <1>1, <1>5, <2>1, <2>2, ReaderPlaces, RefusalStays, ReadFramed, TurnFramed
<1>6. CASE RStore
  <2>1. Turn("reader", FALSE) /\ UNCHANGED <<conn, use>>
    BY <1>6 DEF RStore
  <2>2. use \in {"sendq", "recvq"}
    BY <2>1 DEF Turn
  <2> QED BY <1>1, <1>6, <2>1, <2>2, ReaderPlaces, RefusalStays, PopFramed, TurnFramed
<1>7. CASE RWrap
  <2>1. Turn("reader", head = Size + 1 /\ tail = Size + 1) /\ UNCHANGED <<conn, use>>
    BY <1>7 DEF RWrap
  <2>2. use \in {"sendq", "recvq"}
    BY <2>1 DEF Turn
  <2> QED BY <1>1, <1>7, <2>1, <2>2, ReaderPlaces, RefusalStays, PopEndFramed, TurnFramed
<1>8. CASE Drop \/ Dropped \/ Accept
  BY <1>8, DropFramed
<1>9. CASE OneThread
  <2>1. /\ use = "olsr_tx_msgbuf"
        /\ UNCHANGED <<use, w, r, stream, conn, intact, refused, unsent, raced>>
    BY <1>9 DEF OneThread, threads, history
  <2> QED BY <2>1 DEF FramedInv
<1>10. CASE UNCHANGED svars
  <2>1. UNCHANGED <<head, tail, buf, use, w, r, stream, conn, expect, intact, refused, unsent,
                    raced>>
    BY <1>10 DEF svars, history
  <2>2. Contents' = Contents
    BY <2>1 DEF Contents, Readable, Remain, Wrap
  <2>3. Framed => Framed'
    BY <2>1, <2>2 DEF Framed
  <2> QED BY <1>1, <2>1, <2>3 DEF FramedInv
<1>11. CASE \E len \in BodyLens : FrontSends(len)
  <2>1. PICK len \in BodyLens : FrontSends(len)
    BY <1>11
  <2>2. /\ use = "recvq" /\ conn = "up"
        /\ UNCHANGED <<use, w, r, conn, expect, intact, refused, unsent, raced>>
    BY <2>1 DEF FrontSends, threads, history
  <2>3. Places(use, w, r, stream)'
    BY <1>1, <2>2 DEF Places
  <2>4. Framed => Framed'
    BY <2>1, FrontFramed
  <2> QED BY <2>2, <2>3, <2>4 DEF FramedInv
<1> QED BY <1>2, <1>3, <1>4, <1>5, <1>6, <1>7, <1>8, <1>9, <1>10, <1>11 DEF ServerNext

(* The server starts with nothing on its way. *)
LEMMA FramedStart == ASSUME ServerInit PROVE FramedInv
<1>1. /\ head = 0 /\ tail = 0 /\ w = WIdle("frame") /\ r = RIdle /\ stream = <<>>
      /\ conn = "down" /\ expect = <<"high", 0>> /\ intact = TRUE
  BY DEF ServerInit
<1>2. w.pc = "out" /\ w.at = "frame" /\ r.pc = "out" /\ r.at = "loop"
  BY <1>1 DEF WIdle, RIdle
<1>3. Places(use, w, r, stream)
  BY <1>1, <1>2 DEF Places
<1>4. Contents = <<>>
  <2>1. Apart(head, tail) /\ Used(head, tail) = 0
    BY <1>1, SizeAssumption DEF Apart, Used
  <2> QED BY <2>1, HeldNow DEF Held
<1>5. Framed
  BY <1>1, <1>2, <1>3, <1>4, NothingFramed DEF Framed
<1> QED BY <1>1, <1>3, <1>5 DEF FramedInv

(* The frontend gets whole frames from send_json_to_front through sendq,   *)
(* and handle_remote_conf_msg whole JSON strings from recvq, wherever the  *)
(* buffer wraps, however recv cuts the stream and whatever the two threads *)
(* interleave, as long as no call is refused, send() takes all it is given *)
(* and they do not race.                                                   *)
THEOREM WholeFramesOnly == ServerSpec => []FramesUnlessRefused
<1>1. FramedInv => FramesUnlessRefused
  BY DEF FramedInv, FramesUnlessRefused
<1>2. ServerInit => ServerInv /\ ApartInv /\ FramedInv
  BY ServerStart, ApartStart, FramedStart
<1>3. ServerInv /\ ApartInv /\ FramedInv /\ [ServerNext]_svars
         => (ServerInv /\ ApartInv /\ FramedInv)'
  BY ServerStep, ServerAnswers, ServerFramed
<1> QED BY <1>1, <1>2, <1>3, PTL DEF ServerSpec
=============================================================================
