---------------------------- MODULE DataQueue ----------------------------
(***************************************************************************)
(* A data queue (kernel/dataqueue.c), created and deleted at run time, and *)
(* the tasks and handlers that use it: a ring buffer between two wait      *)
(* queues, that of the senders and that of the receivers.                  *)
(***************************************************************************)
EXTENDS SyncKernel

CONSTANTS
  dtq_swait, dtq_rwait,    \* the wait queues
  Data,
  MaxDtqcnt      \* bound on the capacity of a data queue

DataQueueAssumption ==
  /\ {dtq_swait, dtq_rwait} \subseteq WaitQueue /\ dtq_swait # dtq_rwait
  /\ dtq_rwait \notin TPRI
  /\ NULL \notin Data
  /\ MaxDtqcnt \in Nat

VARIABLES
  p_dtqcb,    \* the DTQCB, with the fields of the DTQINIB
  received    \* the data received last, by whichever task

vars == <<taskVars, p_dtqcb, received>>

swaiting == kernel.wait_queue[dtq_swait]
rwaiting == kernel.wait_queue[dtq_rwait]
dtqcnt   == p_dtqcb.dtqcnt
exists   == p_dtqcb.exists     \* dtqatr is not TA_NOEXS

ObjectInit ==
  /\ p_dtqcb = [exists |-> FALSE, dtqcnt |-> 0, count |-> 0, head |-> 0,
                tail |-> 0, dtqmb |-> [i \in 0..MaxDtqcnt-1 |-> NULL]]
  /\ received = NULL

Init == TaskInit /\ ObjectInit

--------------------------------------------------------------------------
(* The management area. *)

NextIndex(q, i) == IF i + 1 >= q.dtqcnt THEN 0 ELSE i + 1

enqueue_data(q, data) ==
  [q EXCEPT !.dtqmb[q.tail] = data, !.count = @ + 1, !.tail = NextIndex(q, @)]

(* The data at the head stays the oldest. *)
bug_force_enqueue_data(q, data) ==
  [q EXCEPT !.dtqmb[q.tail] = data,
            !.tail = NextIndex(q, @),
            !.count = IF @ < q.dtqcnt THEN @ + 1 ELSE @]

force_enqueue_data(q, data) ==
  LET q1 == [q EXCEPT !.dtqmb[q.tail] = data, !.tail = NextIndex(q, @)] IN
  IF q.count < q.dtqcnt THEN [q1 EXCEPT !.count = @ + 1]
  ELSE [q1 EXCEPT !.head = q1.tail]

dequeue_data(q) == [q EXCEPT !.count = @ - 1, !.head = NextIndex(q, @)]

--------------------------------------------------------------------------
(* Sending and receiving. *)

(* The first waiting receiver gets the data. *)
hand_over(data) ==
  /\ rwaiting # << >>
  /\ received' = data
  /\ Dispatch(wait_complete([kernel EXCEPT !.wait_queue[dtq_rwait] = Tail(@)],
                            Head(rwaiting)))
  /\ UNCHANGED p_dtqcb

send_data(data) ==
  \/ hand_over(data)
  \/ /\ rwaiting = << >> /\ p_dtqcb.count < dtqcnt
     /\ p_dtqcb' = enqueue_data(p_dtqcb, data)
     /\ UNCHANGED <<taskVars, received>>

force_send_data(data) ==
  \/ hand_over(data)
  \/ /\ rwaiting = << >>
     /\ p_dtqcb' = force_enqueue_data(p_dtqcb, data)
     /\ UNCHANGED <<taskVars, received>>

(* The first waiting sender is released, its data taken.                   *)
sent == kernel.tcb[Head(swaiting)].winfo
release_sender ==
  Dispatch(wait_complete([kernel EXCEPT !.wait_queue[dtq_swait] = Tail(@)],
                         Head(swaiting)))

(* The senders wait on although there is room. *)
bug_receive_data ==
  \/ /\ p_dtqcb.count > 0
     /\ received' = p_dtqcb.dtqmb[p_dtqcb.head]
     /\ p_dtqcb' = dequeue_data(p_dtqcb)
     /\ UNCHANGED taskVars
  \/ /\ p_dtqcb.count = 0 /\ swaiting # << >>
     /\ received' = sent
     /\ release_sender
     /\ UNCHANGED p_dtqcb

receive_data ==
  \/ /\ p_dtqcb.count > 0
     /\ received' = p_dtqcb.dtqmb[p_dtqcb.head]
     /\ \/ /\ swaiting = << >>
           /\ p_dtqcb' = dequeue_data(p_dtqcb)
           /\ UNCHANGED taskVars
        \/ /\ swaiting # << >>
           /\ p_dtqcb' = enqueue_data(dequeue_data(p_dtqcb), sent)
           /\ release_sender
  \/ /\ p_dtqcb.count = 0 /\ swaiting # << >>
     /\ received' = sent
     /\ release_sender
     /\ UNCHANGED p_dtqcb

(* All tasks that wait are released, the senders first. *)
release_all == init_wait_queue(init_wait_queue(kernel, dtq_swait), dtq_rwait)

--------------------------------------------------------------------------
(* The services. *)

Empty(q) == [q EXCEPT !.count = 0, !.head = 0, !.tail = 0]

acre_dtq(cnt) ==
  /\ TaskContext /\ ~exists
  /\ p_dtqcb' = [Empty(p_dtqcb) EXCEPT !.exists = TRUE, !.dtqcnt = cnt]
  /\ UNCHANGED <<taskVars, received>>

del_dtq ==
  /\ TaskContext /\ exists
  /\ Dispatch(release_all)
  /\ p_dtqcb' = [p_dtqcb EXCEPT !.exists = FALSE]
  /\ UNCHANGED received

psnd_dtq(data) == AnyContext /\ exists /\ send_data(data)

(* snd_dtq() and tsnd_dtq(). *)
tsnd_dtq(data, timed) ==
  /\ TaskContext /\ exists
  /\ \/ send_data(data)
     \/ /\ rwaiting = << >> /\ p_dtqcb.count >= dtqcnt
        /\ wobj_wait(dtq_swait, TS_WAITING_SDTQ, data, timed)
        /\ UNCHANGED <<p_dtqcb, received>>

fsnd_dtq(data) == AnyContext /\ exists /\ dtqcnt > 0 /\ force_send_data(data)

prcv_dtq == TaskContext /\ exists /\ receive_data

(* rcv_dtq() and trcv_dtq(). *)
trcv_dtq(timed) ==
  /\ TaskContext /\ exists
  /\ \/ receive_data
     \/ /\ p_dtqcb.count = 0 /\ swaiting = << >>
        /\ wobj_wait(dtq_rwait, TS_WAITING_RDTQ, NULL, timed)
        /\ UNCHANGED <<p_dtqcb, received>>

ini_dtq ==
  /\ TaskContext /\ exists
  /\ Dispatch(release_all)
  /\ p_dtqcb' = Empty(p_dtqcb)
  /\ UNCHANGED received

Services ==
  \/ \E cnt \in 0..MaxDtqcnt : acre_dtq(cnt)
  \/ \E data \in Data :
       \/ psnd_dtq(data) \/ fsnd_dtq(data)
       \/ \E timed \in BOOLEAN : tsnd_dtq(data, timed)
  \/ prcv_dtq \/ \E timed \in BOOLEAN : trcv_dtq(timed)
  \/ del_dtq \/ ini_dtq

Next == Services \/ (TaskNext /\ UNCHANGED <<p_dtqcb, received>>)

Spec == Init /\ [][Next]_vars

--------------------------------------------------------------------------
(* Parts of the properties of SyncObjects. *)

(* No receiver waits while there are data in the buffer or a sender waits, *)
(* no sender while there is room, and nobody for a data queue that is not. *)
NobodyWaitsInVain ==
  /\ rwaiting # << >> => p_dtqcb.count = 0 /\ swaiting = << >>
  /\ swaiting # << >> => p_dtqcb.count = dtqcnt
  /\ (swaiting \o rwaiting) # << >> => exists

(* The ring's indexes and its count agree.                                 *)
RingOK ==
  /\ p_dtqcb.count \in 0..dtqcnt
  /\ IF dtqcnt = 0 THEN p_dtqcb.head = 0 /\ p_dtqcb.tail = 0
     ELSE /\ p_dtqcb.head \in 0..dtqcnt-1
          /\ p_dtqcb.tail = (p_dtqcb.head + p_dtqcb.count) % dtqcnt

Abstract == INSTANCE Channel WITH
  Sender  <- Task,
  Nothing <- NULL,
  MaxCap  <- MaxDtqcnt,
  cap     <- IF exists THEN dtqcnt ELSE 0,
  ch      <- IF ~exists THEN << >>
             ELSE [i \in 1..p_dtqcb.count |->
                     p_dtqcb.dtqmb[(p_dtqcb.head + i - 1) % dtqcnt]],
  offered <- [t \in Task |-> IF kernel.tcb[t].wobj = dtq_swait /\ Waiting(t)
                             THEN kernel.tcb[t].winfo ELSE NULL],
  got     <- received
==========================================================================
