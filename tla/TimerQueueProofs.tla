-------------------------- MODULE TimerQueueProofs --------------------------
(***************************************************************************)
(* The four invariants of TimerQueue together are inductive: the tree is   *)
(* sound because an inactive timer is marked for its detachment, and it is *)
(* marked because only the record that points to a timer takes it away.    *)
(***************************************************************************)
EXTENDS TimerQueue, TLAPS

IInv == TypeOK /\ TreeSound /\ ArgLive /\ NoLeak

(* What TypeOK says of one allocated timer. *)
TimerOK(t) ==
    /\ t \in Timer
    /\ t.left <= t.interval
    /\ t.use_once <=> t.slot \in LinkSlot \cup {"entry"}
    /\ t.slot \in Stream => t.free_on_detach
-----------------------------------------------------------------------------
(* Streams are none of the named pointers. *)
LEMMA SlotFacts ==
    /\ \A c \in Stream : c \notin LinkSlot /\ c # "job" /\ c # "selector" /\ c # "entry"
    /\ NULL \notin Slot /\ NULL \notin Elem
    /\ "job" \in Slot /\ "job" \notin LinkSlot /\ LinkSlot \subseteq Slot
    /\ "entry" \in Slot /\ "selector" \in Slot /\ Stream \subseteq Slot
    /\ 1 \in Nat /\ Hold \in Nat /\ Intervals \subseteq Nat
BY TimerAssumption DEF Slot, LinkSlot

(* A freed element differs from every timer: it has no slot. *)
LEMMA FreeIsNoTimer ==
    /\ Free \notin Timer
    /\ ~Free.active /\ ~Free.attached
<1>1. Free.slot = NULL /\ Free.active = FALSE /\ Free.attached = FALSE
  BY DEF Free
<1>2. \A t \in Timer : t.slot \in Slot
  BY DEF Timer
<1> QED
  BY <1>1, <1>2, SlotFacts

(* timerqueue_new_timer and register: an active timer of its slot's kind. *)
LEMMA NewTimerFacts ==
    ASSUME NEW s \in Slot, NEW i \in Nat
    PROVE  /\ TimerOK(NewTimer(s, i))
           /\ NewTimer(s, i).active /\ NewTimer(s, i).attached
           /\ NewTimer(s, i).slot = s
<1> DEFINE t == NewTimer(s, i)
<1>1. /\ t.active = TRUE /\ t.attached = TRUE /\ t.left = i /\ t.interval = i /\ t.slot = s
      /\ t.use_once = (s \in LinkSlot \cup {"entry"})
      /\ t.free_on_detach = (s \in Stream)
  BY DEF NewTimer
<1>2. (s \in LinkSlot \cup {"entry"}) \in BOOLEAN /\ (s \in Stream) \in BOOLEAN
  OBVIOUS
<1>3. t \in Timer
  BY <1>2, Zenon DEF NewTimer, Timer
<1>4. t.left <= t.interval
  BY <1>1
<1> QED
  BY <1>1, <1>3, <1>4 DEF TimerOK

(* timerqueue_reactivate_timer keeps what the timer is for. *)
LEMMA ReactivatedFacts ==
    ASSUME NEW t \in Timer, TimerOK(t)
    PROVE  /\ TimerOK(Reactivated(t))
           /\ Reactivated(t).active /\ Reactivated(t).attached
           /\ Reactivated(t).slot = t.slot
<1> DEFINE r == Reactivated(t)
<1>1. /\ r.active = TRUE /\ r.attached = TRUE /\ r.left = t.interval /\ r.interval = t.interval
      /\ r.use_once = t.use_once /\ r.free_on_detach = t.free_on_detach /\ r.slot = t.slot
  BY DEF Reactivated, Timer
<1>2. r \in Timer
  BY DEF Reactivated, Timer
<1>3. r.left <= r.interval
  BY <1>1 DEF Timer
<1> QED
  BY <1>1, <1>2, <1>3 DEF TimerOK

(* unregister_dummypkt_send_job only makes the timer inactive. *)
LEMMA UnregisteredFacts ==
    ASSUME NEW t \in Timer, TimerOK(t)
    PROVE  /\ TimerOK(Unregistered(t))
           /\ ~Unregistered(t).active
           /\ Unregistered(t).attached = t.attached
           /\ Unregistered(t).slot = t.slot
           /\ Unregistered(t).free_on_detach = t.free_on_detach
BY DEF Unregistered, TimerOK, Timer

(* timerqueue_free_timer for an element the tree holds. *)
LEMMA FreedTimerFacts ==
    ASSUME NEW t \in Timer, TimerOK(t), t.attached
    PROVE  /\ TimerOK(FreedTimer(t))
           /\ ~FreedTimer(t).active
           /\ FreedTimer(t).attached
           /\ FreedTimer(t).slot = t.slot
           /\ FreedTimer(t).free_on_detach
           /\ FreedTimer(t).interval = t.interval
BY DEF FreedTimer, TimerOK, Timer

(* The time that is left changes nothing else. *)
LEMMA LeftFacts ==
    ASSUME NEW t \in Timer, TimerOK(t), NEW i \in Nat, i <= t.interval,
           NEW r, r = [t EXCEPT !.left = i]
    PROVE  /\ TimerOK(r)
           /\ r.active = t.active /\ r.attached = t.attached /\ r.slot = t.slot
           /\ r.free_on_detach = t.free_on_detach
<1>1. /\ r.active = t.active /\ r.attached = t.attached /\ r.slot = t.slot
      /\ r.free_on_detach = t.free_on_detach /\ r.use_once = t.use_once
      /\ r.left = i /\ r.interval = t.interval
  BY DEF Timer
<1>2. r \in Timer
  BY DEF Timer
<1> QED
  BY <1>1, <1>2 DEF TimerOK
-----------------------------------------------------------------------------
(* The invariant as statements about each element and each pointer. *)
ElemInv(e) ==
    /\ timer[e] = Free \/ TimerOK(timer[e])
    /\ e \in tree <=> timer[e] # Free
    /\ e \in tree => timer[e].attached /\ (timer[e].active \/ timer[e].free_on_detach)
    /\ timer[e].active => ptr[timer[e].slot] = e

PtrInv(s) == ptr[s] # NULL => timer[ptr[s]].active /\ timer[ptr[s]].slot = s

Shape ==
    /\ queue \in {"olsr", "snctx"}
    /\ DOMAIN timer = Elem /\ timer = [e \in Elem |-> timer[e]]
    /\ tree \subseteq Elem
    /\ ptr \in [Slot -> Elem \cup {NULL}]
    /\ ptr["job"] \in tree

(* IInv, taken apart. *)
LEMMA InvByParts == IInv <=> Shape /\ (\A e \in Elem : ElemInv(e)) /\ (\A s \in Slot : PtrInv(s))
<1>1. ASSUME IInv PROVE Shape /\ (\A e \in Elem : ElemInv(e)) /\ (\A s \in Slot : PtrInv(s))
  <2>1. Shape
    BY <1>1 DEF IInv, TypeOK, TreeSound, Shape
  <2>2. ASSUME NEW e \in Elem PROVE ElemInv(e)
    <3>1. timer[e] = Free \/ TimerOK(timer[e])
      BY <1>1 DEF IInv, TypeOK, Allocated, TimerOK
    <3>2. e \in tree <=> timer[e] # Free
      BY <1>1 DEF IInv, TreeSound, NoLeak, Allocated
    <3>3. e \in tree => timer[e].attached /\ (timer[e].active \/ timer[e].free_on_detach)
      BY <1>1 DEF IInv, TreeSound, NoLeak, Allocated
    <3>4. timer[e].active => ptr[timer[e].slot] = e
      BY <1>1 DEF IInv, ArgLive
    <3> QED
      BY <3>1, <3>2, <3>3, <3>4 DEF ElemInv
  <2>3. ASSUME NEW s \in Slot PROVE PtrInv(s)
    BY <1>1 DEF IInv, ArgLive, PtrInv
  <2> QED
    BY <2>1, <2>2, <2>3
<1>2. ASSUME Shape, \A e \in Elem : ElemInv(e), \A s \in Slot : PtrInv(s) PROVE IInv
  <2>1. timer \in [Elem -> Timer \cup {Free}]
    <3>1. \A e \in Elem : timer[e] \in Timer \cup {Free}
      BY <1>2 DEF ElemInv, TimerOK
    <3> QED
      BY <1>2, <3>1 DEF Shape
  <2>2. TypeOK
    BY <1>2, <2>1 DEF TypeOK, Shape, ElemInv, TimerOK, Allocated
  <2>3. TreeSound
    BY <1>2 DEF TreeSound, Shape, ElemInv, Allocated
  <2>4. ArgLive
    BY <1>2 DEF ArgLive, ElemInv, PtrInv
  <2>5. NoLeak
    BY <1>2 DEF NoLeak, ElemInv, Allocated
  <2> QED
    BY <2>2, <2>3, <2>4, <2>5 DEF IInv
<1> QED
  BY <1>1, <1>2

(* A pointer leads to an element of the tree, and to one only it points to. *)
LEMMA PointerFacts ==
    ASSUME IInv
    PROVE  \A s \in Slot : ptr[s] # NULL =>
              /\ ptr[s] \in Elem /\ ptr[s] \in tree
              /\ TimerOK(timer[ptr[s]]) /\ timer[ptr[s]] \in Timer
              /\ timer[ptr[s]].active /\ timer[ptr[s]].attached
              /\ timer[ptr[s]].slot = s
<1> SUFFICES ASSUME NEW s \in Slot, ptr[s] # NULL
             PROVE  /\ ptr[s] \in Elem /\ ptr[s] \in tree
                    /\ TimerOK(timer[ptr[s]]) /\ timer[ptr[s]] \in Timer
                    /\ timer[ptr[s]].active /\ timer[ptr[s]].attached
                    /\ timer[ptr[s]].slot = s
  OBVIOUS
<1>1. ptr[s] \in Elem
  BY InvByParts DEF Shape
<1>2. timer[ptr[s]].active /\ timer[ptr[s]].slot = s
  BY InvByParts DEF PtrInv
<1>3. timer[ptr[s]] # Free
  BY <1>2, FreeIsNoTimer
<1> QED
  BY <1>1, <1>2, <1>3, InvByParts DEF ElemInv, TimerOK
-----------------------------------------------------------------------------
(* The parts after a step give the invariant after it. *)
LEMMA InvByPartsNext ==
    ASSUME Shape', \A e \in Elem : ElemInv(e)', \A s \in Slot : PtrInv(s)'
    PROVE  IInv'
<1>1. (\A e \in Elem : ElemInv(e))' /\ (\A s \in Slot : PtrInv(s))'
  OBVIOUS
<1> QED
  BY <1>1, InvByParts, PTL

(* Setting timers, by a HELLO, a TC, a flooded message or a new stream,    *)
(* keeps the invariant for every set of pointers without the job's.        *)
LEMMA SetTimersStep ==
    ASSUME IInv, NEW slots \in SUBSET (Slot \ {"job"}), NEW interval \in Nat,
           SetTimers(slots, interval)
    PROVE  IInv'
<1> DEFINE D == {s \in slots : ptr[s] = NULL}
<1>1. PICK new \in [D -> Elem \ Allocated] :
         /\ \A s, r \in D : new[s] = new[r] => s = r
         /\ ptr' = [s \in Slot |-> IF s \in D THEN new[s] ELSE ptr[s]]
         /\ timer' = [e \in Elem |->
               IF \E s \in D : new[s] = e
               THEN NewTimer(CHOOSE s \in D : new[s] = e, interval)
               ELSE IF \E s \in slots : ptr[s] = e THEN Reactivated(timer[e])
               ELSE timer[e]]
         /\ tree' = tree \cup {ptr'[s] : s \in slots}
         /\ queue' = queue
  BY DEF SetTimers
<1>2. \A s \in D : /\ s \in Slot /\ s \in slots /\ new[s] \in Elem /\ timer[new[s]] = Free
                   /\ new[s] # NULL
  BY <1>1, SlotFacts DEF Allocated
<1>3. \A s \in Slot : ptr[s] # NULL => \A r \in D : ptr[s] # new[r]
  BY <1>2, PointerFacts, FreeIsNoTimer
<1>4. \A s \in D : timer'[new[s]] = NewTimer(s, interval) /\ ptr'[s] = new[s]
  <2> SUFFICES ASSUME NEW s \in D PROVE timer'[new[s]] = NewTimer(s, interval) /\ ptr'[s] = new[s]
    OBVIOUS
  <2>1. (CHOOSE r \in D : new[r] = new[s]) = s
    BY <1>1
  <2> QED
    BY <1>1, <1>2, <2>1
<1>5. \A s \in slots : s \notin D =>
         /\ ptr[s] # NULL /\ ptr'[s] = ptr[s]
         /\ timer'[ptr[s]] = Reactivated(timer[ptr[s]])
  <2> SUFFICES ASSUME NEW s \in slots, s \notin D
               PROVE  /\ ptr[s] # NULL /\ ptr'[s] = ptr[s]
                      /\ timer'[ptr[s]] = Reactivated(timer[ptr[s]])
    OBVIOUS
  <2>1. s \in Slot /\ ptr[s] # NULL /\ ptr[s] \in Elem
    BY PointerFacts
  <2>2. ~\E r \in D : new[r] = ptr[s]
    BY <2>1, <1>3
  <2> QED
    BY <2>1, <2>2, <1>1
<1>6. \A s \in Slot : s \notin slots => ptr'[s] = ptr[s]
  BY <1>1
<1>7. ASSUME NEW e \in Elem, \A s \in slots : ptr'[s] # e
      PROVE  timer'[e] = timer[e] /\ (e \in tree' <=> e \in tree)
  <2>1. ~\E s \in D : new[s] = e
    BY <1>2, <1>4, <1>7
  <2>2. ~\E s \in slots : ptr[s] = e
    BY <1>5, <1>7, SlotFacts
  <2> QED
    BY <1>1, <2>1, <2>2, <1>7
<1>8. \A s \in slots :
         /\ ptr'[s] \in Elem /\ ptr'[s] \in tree'
         /\ TimerOK(timer'[ptr'[s]]) /\ timer'[ptr'[s]].active /\ timer'[ptr'[s]].attached
         /\ timer'[ptr'[s]].slot = s
  <2> SUFFICES ASSUME NEW s \in slots
               PROVE  /\ ptr'[s] \in Elem /\ ptr'[s] \in tree'
                      /\ TimerOK(timer'[ptr'[s]]) /\ timer'[ptr'[s]].active /\ timer'[ptr'[s]].attached
                      /\ timer'[ptr'[s]].slot = s
    OBVIOUS
  <2>1. ptr'[s] \in tree'
    BY <1>1
  <2>2. CASE s \in D
    BY <2>1, <2>2, <1>2, <1>4, NewTimerFacts
  <2>3. CASE s \notin D
    BY <2>1, <2>3, <1>5, PointerFacts, ReactivatedFacts
  <2> QED
    BY <2>2, <2>3
<1>9. Shape'
  <2>1. ptr' \in [Slot -> Elem \cup {NULL}]
    BY <1>1, <1>2, InvByParts DEF Shape
  <2>2. tree' \subseteq Elem
    <3>1. {ptr'[s] : s \in slots} \subseteq Elem
      BY <1>8
    <3> QED
      BY <3>1, <1>1, InvByParts DEF Shape
  <2>3. ptr'["job"] \in tree'
    BY <1>1, <1>6, SlotFacts, InvByParts DEF Shape
  <2>4. DOMAIN timer' = Elem /\ timer' = [e \in Elem |-> timer'[e]]
    BY <1>1
  <2>5. queue' \in {"olsr", "snctx"}
    BY <1>1, InvByParts DEF Shape
  <2> QED
    BY <2>1, <2>2, <2>3, <2>4, <2>5 DEF Shape
<1>10. ASSUME NEW e \in Elem PROVE ElemInv(e)'
  <2>1. CASE \E s \in slots : ptr'[s] = e
    <3>1. PICK s \in slots : ptr'[s] = e
      BY <2>1
    <3>2. timer'[e] # Free
      BY <3>1, <1>8, FreeIsNoTimer
    <3> QED
      BY <3>1, <3>2, <1>8 DEF ElemInv
  <2>2. CASE \A s \in slots : ptr'[s] # e
    <3>1. timer'[e] = timer[e] /\ (e \in tree' <=> e \in tree) /\ ElemInv(e)
      BY <2>2, <1>7, InvByParts
    <3>2. ASSUME timer[e].active PROVE ptr'[timer[e].slot] = e
      <4>1. ptr[timer[e].slot] = e /\ timer[e].slot \in Slot
        BY <3>1, <3>2, FreeIsNoTimer DEF ElemInv, TimerOK, Timer
      <4>2. timer[e].slot \notin slots
        BY <4>1, <2>2, <1>5, SlotFacts
      <4> QED
        BY <4>1, <4>2, <1>6
    <3> QED
      BY <3>1, <3>2 DEF ElemInv
  <2> QED
    BY <2>1, <2>2
<1>11. ASSUME NEW s \in Slot PROVE PtrInv(s)'
  <2>1. CASE s \in slots
    BY <2>1, <1>8 DEF PtrInv
  <2>2. CASE s \notin slots /\ ptr[s] # NULL
    <3>1. ptr'[s] = ptr[s] /\ ptr[s] \in Elem
      BY <2>2, <1>6, PointerFacts
    <3>2. \A r \in slots : ptr'[r] # ptr[s]
      BY <2>2, <1>3, <1>4, <1>5, PointerFacts
    <3>3. timer'[ptr[s]] = timer[ptr[s]]
      BY <3>1, <3>2, <1>7
    <3> QED
      BY <3>1, <3>3, <2>2, PointerFacts DEF PtrInv
  <2>3. CASE s \notin slots /\ ptr[s] = NULL
    BY <2>3, <1>6 DEF PtrInv
  <2> QED
    BY <2>1, <2>2, <2>3
<1> QED
  BY <1>9, <1>10, <1>11, InvByPartsNext
-----------------------------------------------------------------------------
(* unregister_dummypkt_send_job: the stream's timer stays in the tree,     *)
(* marked since its creation, and nothing points to it.                    *)
LEMMA UnregisterStep ==
    ASSUME IInv, NEW c \in Stream, UnregisterStream(c)
    PROVE  IInv'
<1> DEFINE e == ptr[c]
<1>1. /\ c \in Slot /\ c # "job" /\ e \in Elem /\ e \in tree /\ TimerOK(timer[e])
      /\ timer[e] \in Timer /\ timer[e].attached /\ timer[e].slot = c
      /\ timer[e].free_on_detach
  BY SlotFacts, PointerFacts DEF UnregisterStream, TimerOK
<1>2. /\ timer' = [timer EXCEPT ![e] = Unregistered(timer[e])]
      /\ ptr' = [ptr EXCEPT ![c] = NULL] /\ queue' = queue /\ tree' = tree
  BY DEF UnregisterStream
<1>3. /\ TimerOK(timer'[e]) /\ ~timer'[e].active /\ timer'[e].attached
      /\ timer'[e].free_on_detach /\ timer'[e] # Free
  BY <1>1, <1>2, UnregisteredFacts, FreeIsNoTimer, InvByParts DEF Shape, TimerOK
<1>4. \A s \in Slot : ptr'[s] = IF s = c THEN NULL ELSE ptr[s]
  BY <1>1, <1>2, InvByParts DEF Shape
<1>5. \A s \in Slot : s # c /\ ptr[s] # NULL => ptr[s] # e
  BY <1>1, PointerFacts
<1>6. Shape'
  <2>1. ptr' \in [Slot -> Elem \cup {NULL}] /\ ptr'["job"] \in tree'
    BY <1>1, <1>2, <1>4, SlotFacts, InvByParts DEF Shape
  <2>2. DOMAIN timer' = Elem /\ timer' = [x \in Elem |-> timer'[x]]
    BY <1>2, InvByParts DEF Shape
  <2> QED
    BY <1>2, <2>1, <2>2, InvByParts DEF Shape
<1>7. ASSUME NEW x \in Elem PROVE ElemInv(x)'
  <2>1. CASE x = e
    BY <2>1, <1>1, <1>2, <1>3 DEF ElemInv
  <2>2. CASE x # e
    <3>1. timer'[x] = timer[x] /\ ElemInv(x)
      BY <2>2, <1>2, InvByParts DEF Shape
    <3>2. ASSUME timer[x].active PROVE ptr'[timer[x].slot] = x
      <4>1. ptr[timer[x].slot] = x /\ timer[x].slot \in Slot
        BY <3>1, <3>2, FreeIsNoTimer DEF ElemInv, TimerOK, Timer
      <4> QED
        BY <4>1, <2>2, <1>4
    <3> QED
      BY <3>1, <3>2, <1>2 DEF ElemInv
  <2> QED
    BY <2>1, <2>2
<1>8. ASSUME NEW s \in Slot PROVE PtrInv(s)'
  <2>1. CASE s # c /\ ptr[s] # NULL
    BY <2>1, <1>2, <1>4, <1>5, PointerFacts, InvByParts DEF PtrInv, Shape
  <2> QED
    BY <2>1, <1>4 DEF PtrInv
<1> QED
  BY <1>6, <1>7, <1>8, InvByPartsNext

(* CONF_MSG_TYPE_NET_UPDATE_DUMMY_TRAFFIC: the old timer as above, if      *)
(* there is one, and a new one that the stream points to instead.          *)
LEMMA UpdateStep ==
    ASSUME IInv, NEW c \in Stream, NEW interval \in Nat, UpdateStream(c, interval)
    PROVE  IInv'
<1>1. PICK e \in Elem \ Allocated :
         /\ timer' = [x \in Elem |-> IF x = e THEN NewTimer(c, interval)
                                     ELSE IF x = ptr[c] THEN Unregistered(timer[x])
                                     ELSE timer[x]]
         /\ ptr' = [ptr EXCEPT ![c] = e]
         /\ tree' = tree \cup {e}
         /\ queue' = queue
  BY DEF UpdateStream
<1>2. e \in Elem /\ timer[e] = Free /\ e # NULL /\ c \in Slot /\ c # "job"
  BY SlotFacts DEF Allocated
<1>3. \A s \in Slot : ptr[s] # e
  BY <1>2, PointerFacts, FreeIsNoTimer
<1>4. /\ TimerOK(timer'[e]) /\ timer'[e].active /\ timer'[e].attached
      /\ timer'[e].slot = c /\ timer'[e] # Free
  BY <1>1, <1>2, NewTimerFacts, FreeIsNoTimer
<1>5. \A s \in Slot : ptr'[s] = IF s = c THEN e ELSE ptr[s]
  BY <1>1, <1>2, InvByParts DEF Shape
<1>6. Shape'
  <2>1. ptr' \in [Slot -> Elem \cup {NULL}] /\ ptr'["job"] \in tree'
    BY <1>1, <1>2, <1>5, SlotFacts, InvByParts DEF Shape
  <2>2. DOMAIN timer' = Elem /\ timer' = [x \in Elem |-> timer'[x]]
    BY <1>1
  <2> QED
    BY <1>1, <2>1, <2>2, InvByParts DEF Shape
<1>7. ASSUME NEW x \in Elem PROVE ElemInv(x)'
  <2>1. CASE x = e
    BY <2>1, <1>1, <1>2, <1>4, <1>5 DEF ElemInv
  <2>2. CASE x # e /\ x = ptr[c]
    <3>1. /\ x \in tree /\ TimerOK(timer[x]) /\ timer[x] \in Timer /\ timer[x].attached
          /\ timer[x].free_on_detach
      BY <2>2, <1>2, SlotFacts, PointerFacts DEF TimerOK
    <3>2. /\ TimerOK(timer'[x]) /\ ~timer'[x].active /\ timer'[x].attached
          /\ timer'[x].free_on_detach /\ timer'[x] # Free
      BY <2>2, <3>1, <1>1, UnregisteredFacts, FreeIsNoTimer DEF TimerOK
    <3> QED
      BY <3>1, <3>2, <1>1 DEF ElemInv
  <2>3. CASE x # e /\ x # ptr[c]
    <3>1. timer'[x] = timer[x] /\ (x \in tree' <=> x \in tree) /\ ElemInv(x)
      BY <2>3, <1>1, InvByParts
    <3>2. ASSUME timer[x].active PROVE ptr'[timer[x].slot] = x
      <4>1. ptr[timer[x].slot] = x /\ timer[x].slot \in Slot
        BY <3>1, <3>2, FreeIsNoTimer DEF ElemInv, TimerOK, Timer
      <4> QED
        BY <4>1, <2>3, <1>5
    <3> QED
      BY <3>1, <3>2 DEF ElemInv
  <2> QED
    BY <2>1, <2>2, <2>3
<1>8. ASSUME NEW s \in Slot PROVE PtrInv(s)'
  <2>1. CASE s = c
    BY <2>1, <1>4, <1>5 DEF PtrInv
  <2>2. CASE s # c /\ ptr[s] # NULL
    <3>1. ptr'[s] = ptr[s] /\ ptr[s] # e /\ ptr[s] # ptr[c] /\ ptr[s] \in Elem
      BY <2>2, <1>2, <1>3, <1>5, PointerFacts
    <3> QED
      BY <3>1, <2>2, <1>1, PointerFacts DEF PtrInv
  <2>3. CASE s # c /\ ptr[s] = NULL
    BY <2>3, <1>5 DEF PtrInv
  <2> QED
    BY <2>1, <2>2, <2>3
<1> QED
  BY <1>6, <1>7, <1>8, InvByPartsNext
-----------------------------------------------------------------------------
(* One turn of the loop of timerqueue_work.  A one-shot timer is released  *)
(* by its own callback, so its detachment frees it; an inactive one has    *)
(* been marked; the others return to the tree.                             *)
LEMMA WorkStep ==
    ASSUME IInv, NEW e \in Elem, Work(e)
    PROVE  IInv'
<1> DEFINE R == IF timer[e].active THEN ReleasedBy(e) ELSE {}
           after == AfterCallback(e)
<1>1. /\ e \in tree /\ TimerOK(timer[e]) /\ timer[e] \in Timer /\ timer[e].attached
      /\ timer[e] # Free /\ (timer[e].active \/ timer[e].free_on_detach)
      /\ timer[e].slot \in Slot /\ timer[e].interval \in Nat
  BY InvByParts DEF Work, ElemInv, TimerOK, Timer
<1>2. R \in SUBSET (Slot \ {"job"})
  BY <1>1, SlotFacts DEF ReleasedBy
<1>3. ptr' = [s \in Slot |-> IF s \in R THEN NULL ELSE ptr[s]] /\ queue' = queue
  BY DEF Work
<1>4. \A s \in Slot : ptr'[s] = IF s \in R THEN NULL ELSE ptr[s]
  BY <1>3
<1>5. after = [x \in Elem |-> IF \E s \in R : ptr[s] = x THEN FreedTimer(timer[x]) ELSE timer[x]]
  BY DEF AfterCallback
<1>6. timer' = [after EXCEPT ![e] =
                   IF Stays(e) THEN [after[e] EXCEPT !.left = timer[e].interval]
                   ELSE IF after[e].free_on_detach THEN Free
                   ELSE [after[e] EXCEPT !.active = FALSE, !.attached = FALSE]]
  BY DEF Work
<1>7. tree' = IF Stays(e) THEN tree ELSE tree \ {e}
  BY DEF Work
<1> HIDE DEF after
<1>8. \A x \in Elem : x # e =>
         timer'[x] = IF \E s \in R : ptr[s] = x THEN FreedTimer(timer[x]) ELSE timer[x]
  BY <1>5, <1>6
<1>9. \A s \in Slot : s \notin R /\ ptr[s] # NULL => \A r \in R : ptr[r] # ptr[s]
  BY <1>2, PointerFacts
<1>10. \A s \in Slot : s \notin R /\ ptr[s] = e => Stays(e)
  <2> SUFFICES ASSUME NEW s \in Slot, s \notin R, ptr[s] = e PROVE Stays(e)
    OBVIOUS
  <2>1. timer[e].active /\ timer[e].slot = s
    BY PointerFacts, SlotFacts
  <2>2. s \notin LinkSlot /\ (s = "job" \/ s \in Stream)
    BY <2>1 DEF ReleasedBy
  <2>3. s \notin LinkSlot \cup {"entry"}
    BY <2>2, SlotFacts
  <2> QED
    BY <2>1, <2>3, <1>1 DEF Stays, TimerOK
<1>11. /\ TimerOK(after[e]) /\ after[e] \in Timer /\ after[e].attached
       /\ after[e].interval = timer[e].interval
       /\ after[e].active \/ after[e].free_on_detach
  <2>1. CASE \E s \in R : ptr[s] = e
    BY <2>1, <1>1, <1>5, FreedTimerFacts DEF TimerOK
  <2>2. CASE ~\E s \in R : ptr[s] = e
    BY <2>2, <1>1, <1>5
  <2> QED
    BY <2>1, <2>2
<1>12. Shape'
  <2>1. ptr' \in [Slot -> Elem \cup {NULL}]
    BY <1>3, InvByParts DEF Shape
  <2>2. ptr'["job"] \in tree'
    BY <1>2, <1>4, <1>7, <1>10, SlotFacts, InvByParts DEF Shape
  <2>3. DOMAIN timer' = Elem /\ timer' = [x \in Elem |-> timer'[x]]
    BY <1>5, <1>6
  <2>4. tree' \subseteq Elem /\ queue' \in {"olsr", "snctx"}
    BY <1>3, <1>7, InvByParts DEF Shape
  <2> QED
    BY <2>1, <2>2, <2>3, <2>4 DEF Shape
<1>13. ASSUME NEW x \in Elem PROVE ElemInv(x)'
  <2>1. CASE x # e /\ \E s \in R : ptr[s] = x
    <3>1. x \in tree /\ TimerOK(timer[x]) /\ timer[x] \in Timer /\ timer[x].attached
      BY <2>1, <1>2, PointerFacts, SlotFacts
    <3>2. timer'[x] = FreedTimer(timer[x]) /\ x \in tree'
      BY <2>1, <3>1, <1>7, <1>8
    <3>3. /\ TimerOK(timer'[x]) /\ ~timer'[x].active /\ timer'[x].attached
          /\ timer'[x].free_on_detach /\ timer'[x] # Free
      BY <3>1, <3>2, FreedTimerFacts, FreeIsNoTimer DEF TimerOK
    <3> QED
      BY <3>2, <3>3 DEF ElemInv
  <2>2. CASE x # e /\ ~\E s \in R : ptr[s] = x
    <3>1. timer'[x] = timer[x] /\ (x \in tree' <=> x \in tree) /\ ElemInv(x)
      BY <2>2, <1>7, <1>8, InvByParts
    <3>2. ASSUME timer[x].active PROVE ptr'[timer[x].slot] = x
      <4>1. ptr[timer[x].slot] = x /\ timer[x].slot \in Slot
        BY <3>1, <3>2, FreeIsNoTimer DEF ElemInv, TimerOK, Timer
      <4> QED
        BY <4>1, <2>2, <1>4
    <3> QED
      BY <3>1, <3>2 DEF ElemInv
  <2>3. CASE x = e /\ Stays(e)
    <3>1. timer'[e] = [after[e] EXCEPT !.left = timer[e].interval] /\ e \in tree'
      BY <2>3, <1>1, <1>5, <1>6, <1>7
    <3>2. timer[e].interval <= after[e].interval
      BY <1>1, <1>11
    <3>3. /\ TimerOK(timer'[e]) /\ timer'[e].active = after[e].active
          /\ timer'[e].attached = after[e].attached /\ timer'[e].slot = after[e].slot
          /\ timer'[e].free_on_detach = after[e].free_on_detach
      <4>1. PICK t \in Timer : t = after[e]
        BY <1>11
      <4>2. TimerOK(t) /\ timer[e].interval \in Nat /\ timer[e].interval <= t.interval
        BY <4>1, <1>1, <1>11, <3>2
      <4>3. timer'[e] = [t EXCEPT !.left = timer[e].interval]
        BY <4>1, <3>1
      <4>4. /\ TimerOK(timer'[e]) /\ timer'[e].active = t.active
            /\ timer'[e].attached = t.attached /\ timer'[e].slot = t.slot
            /\ timer'[e].free_on_detach = t.free_on_detach
        BY <4>2, <4>3, LeftFacts
      <4> QED
        BY <4>1, <4>4
    <3>4. timer'[e] # Free
      BY <3>3, FreeIsNoTimer DEF TimerOK
    <3>5. ASSUME after[e].active PROVE ptr'[after[e].slot] = e
      <4>1. ~\E s \in R : ptr[s] = e
        BY <3>5, <1>1, <1>5, FreedTimerFacts
      <4>2. after[e] = timer[e]
        BY <4>1, <1>5
      <4>3. ptr[timer[e].slot] = e
        BY <3>5, <4>2, InvByParts DEF ElemInv
      <4> QED
        BY <4>1, <4>2, <4>3, <1>1, <1>4
    <3> QED
      BY <2>3, <3>1, <3>3, <3>4, <3>5, <1>11 DEF ElemInv
  <2>4. CASE x = e /\ ~Stays(e)
    <3>1. after[e].free_on_detach
      <4>1. CASE timer[e].active
        <5>1. ptr[timer[e].slot] = e
          BY <4>1, InvByParts DEF ElemInv
        <5>2. timer[e].slot \in R
          BY <5>1, <1>1, <1>10, <2>4
        <5> QED
          BY <5>1, <5>2, <1>1, <1>5, FreedTimerFacts
      <4>2. CASE ~timer[e].active
        BY <4>2, <1>1, <1>5
      <4> QED
        BY <4>1, <4>2
    <3>2. timer'[e] = Free /\ e \notin tree'
      BY <3>1, <2>4, <1>5, <1>6, <1>7
    <3> QED
      BY <2>4, <3>2, FreeIsNoTimer DEF ElemInv
  <2> QED
    BY <2>1, <2>2, <2>3, <2>4
<1>14. ASSUME NEW s \in Slot PROVE PtrInv(s)'
  <2>1. CASE s \in R \/ ptr[s] = NULL
    BY <2>1, <1>4 DEF PtrInv
  <2>2. CASE s \notin R /\ ptr[s] # NULL /\ ptr[s] # e
    <3>1. timer'[ptr[s]] = timer[ptr[s]] /\ ptr'[s] = ptr[s]
      BY <2>2, <1>4, <1>8, <1>9, PointerFacts
    <3> QED
      BY <2>2, <3>1, PointerFacts DEF PtrInv
  <2>3. CASE s \notin R /\ ptr[s] # NULL /\ ptr[s] = e
    <3>1. after[e] = timer[e] /\ Stays(e)
      BY <2>3, <1>5, <1>9, <1>10
    <3>2. timer'[e] = [timer[e] EXCEPT !.left = timer[e].interval]
      BY <3>1, <1>5, <1>6
    <3>3. timer[e].interval <= timer[e].interval
      BY <1>1
    <3>4. timer'[e].active = timer[e].active /\ timer'[e].slot = timer[e].slot
      BY <1>1, <3>2, <3>3, LeftFacts
    <3> QED
      BY <2>3, <3>4, <1>4, PointerFacts DEF PtrInv
  <2> QED
    BY <2>1, <2>2, <2>3
<1> QED
  BY <1>12, <1>13, <1>14, InvByPartsNext

(* Time passes for the timers in the tree. *)
LEMMA TickStep ==
    ASSUME IInv, Tick
    PROVE  IInv'
<1>1. tree' = tree /\ ptr' = ptr /\ queue' = queue
  BY DEF Tick
<1>2. timer' = [e \in Elem |-> IF e \in tree THEN [timer[e] EXCEPT !.left = timer[e].left - 1]
                               ELSE timer[e]]
  BY DEF Tick
<1>3. ASSUME NEW e \in tree
      PROVE  /\ e \in Elem /\ timer[e] # Free
             /\ TimerOK(timer'[e]) /\ timer'[e].active = timer[e].active
             /\ timer'[e].attached = timer[e].attached /\ timer'[e].slot = timer[e].slot
             /\ timer'[e].free_on_detach = timer[e].free_on_detach
  <2>1. e \in Elem /\ timer[e] # Free /\ TimerOK(timer[e]) /\ timer[e] \in Timer
    BY InvByParts DEF Shape, ElemInv, TimerOK
  <2>2. timer[e].left > 0 /\ timer[e].left \in Nat /\ timer[e].interval \in Nat
        /\ timer[e].left <= timer[e].interval
    BY <2>1 DEF Tick, TimerOK, Timer
  <2>3. timer[e].left - 1 \in Nat /\ timer[e].left - 1 <= timer[e].interval
    BY <2>2
  <2>4. timer'[e] = [timer[e] EXCEPT !.left = timer[e].left - 1]
    BY <1>2, <2>1
  <2> QED
    BY <2>1, <2>3, <2>4, LeftFacts
<1>4. \A e \in Elem : e \notin tree => timer'[e] = timer[e]
  BY <1>2
<1>5. Shape'
  BY <1>1, <1>2, InvByParts DEF Shape
<1>6. ASSUME NEW e \in Elem PROVE ElemInv(e)'
  <2>1. CASE e \in tree
    <3>1. timer'[e] # Free /\ ElemInv(e)
      BY <2>1, <1>3, FreeIsNoTimer, InvByParts DEF TimerOK
    <3> QED
      BY <2>1, <3>1, <1>1, <1>3 DEF ElemInv
  <2>2. CASE e \notin tree
    BY <2>2, <1>1, <1>4, InvByParts DEF ElemInv
  <2> QED
    BY <2>1, <2>2
<1>7. ASSUME NEW s \in Slot PROVE PtrInv(s)'
  <2>1. CASE ptr[s] # NULL
    BY <2>1, <1>1, <1>3, PointerFacts DEF PtrInv
  <2> QED
    BY <2>1, <1>1 DEF PtrInv
<1> QED
  BY <1>5, <1>6, <1>7, InvByPartsNext

(* A queue starts with one job. *)
LEMMA InitInv == Init => IInv
<1> SUFFICES ASSUME Init PROVE IInv
  OBVIOUS
<1>1. PICK e \in Elem :
         /\ timer = [x \in Elem |-> IF x = e THEN NewTimer("job", 1) ELSE Free]
         /\ tree = {e}
         /\ ptr = [s \in Slot |-> IF s = "job" THEN e ELSE NULL]
         /\ queue \in {"olsr", "snctx"}
  BY DEF Init
<1>2. /\ TimerOK(timer[e]) /\ timer[e].active /\ timer[e].attached
      /\ timer[e].slot = "job" /\ timer[e] # Free
  BY <1>1, NewTimerFacts, FreeIsNoTimer, SlotFacts
<1>3. Shape
  BY <1>1, SlotFacts DEF Shape
<1>4. \A x \in Elem : ElemInv(x)
  <2> SUFFICES ASSUME NEW x \in Elem PROVE ElemInv(x)
    OBVIOUS
  <2>1. CASE x = e
    BY <2>1, <1>1, <1>2, SlotFacts DEF ElemInv
  <2>2. CASE x # e
    BY <2>2, <1>1, FreeIsNoTimer DEF ElemInv
  <2> QED
    BY <2>1, <2>2
<1>5. \A s \in Slot : PtrInv(s)
  BY <1>1, <1>2, SlotFacts DEF PtrInv
<1> QED
  BY <1>3, <1>4, <1>5, InvByParts

(* Every step keeps the invariant: one case per action. *)
LEMMA NextInv == IInv /\ [Next]_vars => IInv'
<1> SUFFICES ASSUME IInv, [Next]_vars PROVE IInv'
  OBVIOUS
<1>1. ASSUME NEW more \in SUBSET {"sym", "selector", "entry"}, RecvHello(more) PROVE IInv'
  <2>1. {"expire", "asym"} \cup more \in SUBSET (Slot \ {"job"})
    BY DEF Slot, LinkSlot
  <2> QED
    BY <1>1, <2>1, SetTimersStep, SlotFacts DEF RecvHello
<1>2. CASE RefreshEntry
  <2>1. {"entry"} \in SUBSET (Slot \ {"job"})
    BY DEF Slot
  <2> QED
    BY <1>2, <2>1, SetTimersStep, SlotFacts DEF RefreshEntry
<1>3. ASSUME NEW c \in Stream, NEW interval \in Intervals, RegisterStream(c, interval) PROVE IInv'
  <2>1. {c} \in SUBSET (Slot \ {"job"})
    BY SlotFacts
  <2> QED
    BY <1>3, <2>1, SetTimersStep, SlotFacts DEF RegisterStream
<1>4. ASSUME NEW c \in Stream, UnregisterStream(c) PROVE IInv'
  BY <1>4, UnregisterStep
<1>5. ASSUME NEW c \in Stream, NEW interval \in Intervals, UpdateStream(c, interval) PROVE IInv'
  BY <1>5, UpdateStep, SlotFacts
<1>6. ASSUME NEW e \in Elem, Work(e) PROVE IInv'
  BY <1>6, WorkStep
<1>7. CASE Tick
  BY <1>7, TickStep
<1>8. CASE UNCHANGED vars
  BY <1>8 DEF vars, IInv, TypeOK, TreeSound, ArgLive, NoLeak, Allocated
<1> QED
  BY <1>1, <1>2, <1>3, <1>4, <1>5, <1>6, <1>7, <1>8 DEF Next
-----------------------------------------------------------------------------
(* The tree of timerqueue_work never holds a freed element and is never    *)
(* empty, whatever the handlers and callbacks do and for any number of     *)
(* records and streams.                                                    *)
THEOREM TimersSound == Spec => [](TypeOK /\ TreeSound)
<1>1. IInv => TypeOK /\ TreeSound
  BY DEF IInv
<1> QED
  BY InitInv, NextInv, <1>1, PTL DEF Spec

(* A callback never runs with the arg of a freed record, nor twice for one *)
(* stream.                                                                 *)
THEOREM CallbacksSafe == Spec => []ArgLive
<1>1. IInv => ArgLive
  BY DEF IInv
<1> QED
  BY InitInv, NextInv, <1>1, PTL DEF Spec

(* No element is left behind: each is in the tree, and what is no longer   *)
(* active is marked to be freed when timerqueue_work detaches it.          *)
THEOREM NoTimerLost == Spec => []NoLeak
<1>1. IInv => NoLeak
  BY DEF IInv
<1> QED
  BY InitInv, NextInv, <1>1, PTL DEF Spec
=============================================================================
