----------------------------- MODULE TimerQueue -----------------------------
(***************************************************************************)
(* ext/timerqueue/timerqueue.c together with the records of simnet that    *)
(* own timers: links, MPR selectors and table entries in the queue of the  *)
(* OLSR context, traffic streams (dummy.c) in the queue of SimNetCtx, and  *)
(* the periodic job each queue has.                                        *)
(*                                                                         *)
(* What is at stake is memory.  A timer may be freed while the tree still  *)
(* holds it, by its own callback or by that of another timer, and its arg  *)
(* is a record that callbacks free.  An action is one message handler,     *)
(* one command or one turn of the loop of timerqueue_work.                 *)
(***************************************************************************)
EXTENDS Naturals, FiniteSets

CONSTANTS
    Elem,       \* memory for TimerqueueElems; bounds how many exist at a time
    NULL,       \* the null pointer
    Stream,     \* conf_ids of traffic streams
    Hold,       \* the hold time of a record, in ticks
    Intervals   \* sending intervals of a stream, in ticks; the job's is 1

(* The pointers to timers: expire_timer, asym_timer and sym_timer of a     *)
(* LinkElem, expire_timer of an MprSelectorElem and of a DuplicateSetElem, *)
(* Neighbor2Elem or TopologyInfoElem, and dummy_traffic_timers[conf_id].   *)
LinkSlot == {"expire", "asym", "sym"}
Slot == LinkSlot \cup {"job", "selector", "entry"} \cup Stream

ASSUME TimerAssumption == /\ NULL \notin Elem \cup Slot
                          /\ Stream \cap (LinkSlot \cup {"job", "selector", "entry"}) = {}
                          /\ Hold \in Nat \ {0}
                          /\ Intervals \subseteq Nat \ {0}

VARIABLES
    queue,      \* which queue this is, "olsr" or "snctx"
    timer,      \* the fields of each allocated TimerqueueElem
    tree,       \* tq->rbt, the elements in it
    ptr         \* the pointers of the records that exist

vars == <<queue, timer, tree, ptr>>

Free == [active |-> FALSE, attached |-> FALSE, free_on_detach |-> FALSE,
         use_once |-> FALSE, left |-> 0, interval |-> 0, slot |-> NULL]
Allocated == {e \in Elem : timer[e] # Free}

(* timerqueue_new_timer and timerqueue_register_timer for a new element.   *)
(* slot names the pointer it is made for, which determines callback, arg   *)
(* and flags: links and entries have one-shot timers, a selector's goes on *)
(* like those of jobs, a stream's is to be freed on detachment.            *)
NewTimer(slot, interval) ==
    [active |-> TRUE, attached |-> TRUE, free_on_detach |-> slot \in Stream,
     use_once |-> slot \in LinkSlot \cup {"entry"},
     left |-> interval, interval |-> interval, slot |-> slot]

(* timerqueue_reactivate_timer: out of the tree if in it, and in again. *)
Reactivated(t) == [t EXCEPT !.active = TRUE, !.attached = TRUE, !.left = t.interval]

(* Mutant: an element is freed although the tree holds it. *)
FreedTimerAtOnce(t) == Free

(* Mutant: the element is not marked for its detachment. *)
FreedTimerUnmarked(t) ==
    IF t.attached THEN [t EXCEPT !.active = FALSE] ELSE Free

(* timerqueue_free_timer. *)
FreedTimer(t) ==
    IF t.attached THEN [t EXCEPT !.active = FALSE, !.free_on_detach = TRUE] ELSE Free

Init ==
    /\ queue \in {"olsr", "snctx"}
    /\ \E e \in Elem :
          /\ timer = [x \in Elem |-> IF x = e THEN NewTimer("job", 1) ELSE Free]
          /\ tree = {e}
          /\ ptr = [s \in Slot |-> IF s = "job" THEN e ELSE NULL]
-----------------------------------------------------------------------------
(* Set the timers of the given pointers: the existing ones are reactivated,*)
(* the others created.                                                     *)
SetTimers(slots, interval) ==
    LET missing == {s \in slots : ptr[s] = NULL}
    IN  \E new \in [missing -> Elem \ Allocated] :
           /\ \A s, r \in missing : new[s] = new[r] => s = r
           /\ ptr' = [s \in Slot |-> IF s \in missing THEN new[s] ELSE ptr[s]]
           /\ timer' = [e \in Elem |->
                 IF \E s \in missing : new[s] = e
                 THEN NewTimer(CHOOSE s \in missing : new[s] = e, interval)
                 ELSE IF \E s \in slots : ptr[s] = e THEN Reactivated(timer[e])
                 ELSE timer[e]]
           /\ tree' = tree \cup {ptr'[s] : s \in slots}
           /\ UNCHANGED queue

(* process_olsr_hello sets expire_timer and asym_timer of the link to its  *)
(* sender; sym_timer if the HELLO lists this node, the selector's if it    *)
(* lists it as MPR, and those of Neighbor2Elems.                           *)
RecvHello(more) ==
    /\ queue = "olsr"
    /\ "selector" \in more => "sym" \in more
    /\ SetTimers({"expire", "asym"} \cup more, Hold)

(* A TC refreshes a TopologyInfoElem, or a message enters the duplicate    *)
(* set.                                                                    *)
RefreshEntry == queue = "olsr" /\ SetTimers({"entry"}, Hold)
-----------------------------------------------------------------------------
(* register_dummypkt_send_job.  The commands are assumed to start a stream *)
(* only if it does not run: for one that runs, the code would register an  *)
(* element that the tree already holds.                                    *)
RegisterStream(c, interval) ==
    /\ queue = "snctx"
    /\ ptr[c] = NULL
    /\ SetTimers({c}, interval)

(* Mutant: the timer is forgotten but goes on. *)
UnregisteredRunning(t) == t

(* unregister_dummypkt_send_job: the timer is told to leave. *)
Unregistered(t) == [t EXCEPT !.active = FALSE]

UnregisterStream(c) ==
    /\ queue = "snctx"
    /\ ptr[c] # NULL
    /\ timer' = [timer EXCEPT ![ptr[c]] = Unregistered(@)]
    /\ ptr' = [ptr EXCEPT ![c] = NULL]
    /\ UNCHANGED <<queue, tree>>

(* CONF_MSG_TYPE_NET_UPDATE_DUMMY_TRAFFIC: the running timer, if there is  *)
(* one, is told to leave and a new one takes its place.                    *)
UpdateStream(c, interval) ==
    /\ queue = "snctx"
    /\ \E e \in Elem \ Allocated :
          /\ timer' = [x \in Elem |-> IF x = e THEN NewTimer(c, interval)
                                      ELSE IF x = ptr[c] THEN Unregistered(timer[x])
                                      ELSE timer[x]]
          /\ ptr' = [ptr EXCEPT ![c] = e]
          /\ tree' = tree \cup {e}
    /\ UNCHANGED queue
-----------------------------------------------------------------------------
(* The pointers of the record that the callback of e frees, together with  *)
(* the timers: link_timer_expire has those of the whole link,              *)
(* mpr_selector_expire and the callbacks of entries their own.  Jobs and   *)
(* streams free nothing.                                                   *)
ReleasedBy(e) ==
    IF timer[e].slot \in LinkSlot THEN LinkSlot
    ELSE {timer[e].slot} \ ({"job"} \cup Stream)

(* The elements after the callback of e. *)
AfterCallback(e) ==
    [x \in Elem |-> IF timer[e].active /\ \E s \in ReleasedBy(e) : ptr[s] = x
                    THEN FreedTimer(timer[x]) ELSE timer[x]]

(* Whether e returns to the tree after its turn. *)
Stays(e) == timer[e].active /\ ~timer[e].use_once

(* One turn of the loop of timerqueue_work for an element that is due: out *)
(* of the tree, the callback if active, and in again or detached.          *)
Work(e) ==
    /\ e \in tree
    /\ timer[e].left = 0
    /\ LET after == AfterCallback(e)
       IN  timer' = [after EXCEPT ![e] =
              IF Stays(e) THEN [@ EXCEPT !.left = timer[e].interval]
              ELSE IF @.free_on_detach THEN Free
              ELSE [@ EXCEPT !.active = FALSE, !.attached = FALSE]]
    /\ tree' = IF Stays(e) THEN tree ELSE tree \ {e}
    /\ ptr' = [s \in Slot |-> IF timer[e].active /\ s \in ReleasedBy(e) THEN NULL ELSE ptr[s]]
    /\ UNCHANGED queue

(* Time passes; work is called every millisecond, so nothing stays due. *)
Tick ==
    /\ \A e \in tree : timer[e].left > 0
    /\ timer' = [e \in Elem |-> IF e \in tree THEN [timer[e] EXCEPT !.left = @ - 1] ELSE timer[e]]
    /\ UNCHANGED <<queue, tree, ptr>>

Next ==
    \/ \E more \in SUBSET {"sym", "selector", "entry"} : RecvHello(more)
    \/ RefreshEntry
    \/ \E c \in Stream, interval \in Intervals : RegisterStream(c, interval)
    \/ \E c \in Stream : UnregisterStream(c)
    \/ \E c \in Stream, interval \in Intervals : UpdateStream(c, interval)
    \/ \E e \in Elem : Work(e)
    \/ Tick

Spec == Init /\ [][Next]_vars
-----------------------------------------------------------------------------
Timer == [active : BOOLEAN, attached : BOOLEAN, free_on_detach : BOOLEAN,
          use_once : BOOLEAN, left : Nat, interval : Nat, slot : Slot]

(* Fields have their types, a timer never has more than its interval left, *)
(* and its flags are those of its kind for as long as it lives.            *)
TypeOK ==
    /\ queue \in {"olsr", "snctx"}
    /\ timer \in [Elem -> Timer \cup {Free}]
    /\ tree \subseteq Elem
    /\ ptr \in [Slot -> Elem \cup {NULL}]
    /\ \A e \in Allocated :
          /\ timer[e].left <= timer[e].interval
          /\ timer[e].use_once <=> timer[e].slot \in LinkSlot \cup {"entry"}
          /\ timer[e].slot \in Stream => timer[e].free_on_detach

(* The tree never holds freed memory, and what it holds knows it.  It is   *)
(* never without the job, so never empty: timerqueue_work looks at the     *)
(* first element after each turn without asking whether there is one.      *)
TreeSound ==
    /\ ptr["job"] \in tree
    /\ \A e \in tree : e \in Allocated /\ timer[e].attached

(* A callback runs only with a live arg: an active timer is the one its    *)
(* record points to, and a pointer of a record leads to an active timer    *)
(* made for it.  In particular a stream has one sender at most.            *)
ArgLive ==
    /\ \A e \in Elem : timer[e].active => ptr[timer[e].slot] = e
    /\ \A s \in Slot : ptr[s] # NULL => timer[ptr[s]].active /\ timer[ptr[s]].slot = s

(* No timer is leaked: every allocated one is in the tree, and one that is *)
(* no longer active is freed when its time comes.                          *)
NoLeak ==
    \A e \in Allocated : e \in tree /\ (timer[e].active \/ timer[e].free_on_detach)
=============================================================================
