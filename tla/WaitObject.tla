--------------------------- MODULE WaitObject ---------------------------
(***************************************************************************)
(* What the synchronization and communication objects have in common:      *)
(* wait queues (kernel/wait.h and kernel/wait.c) and the priority change   *)
(* of a task that may be in one (change_priority() of kernel/task.c).      *)
(*                                                                         *)
(* The record of TaskSched has one field more, wait_queue, the sequence of *)
(* the tasks in every wait queue, and a TCB the field wobj: the queue the  *)
(* task is in (p_wobjcb of the WINFO), meaningful during a wait for an     *)
(* object.                                                                 *)
(***************************************************************************)
EXTENDS TaskSched

CONSTANTS
  WaitQueue,
  TPRI         \* the wait queues in priority order; the others are FIFO

ASSUME WaitQueueAssumption == NULL \notin WaitQueue /\ TPRI \subseteq WaitQueue

--------------------------------------------------------------------------
(* wait.h and wait.c: wait queues. *)

wobj_make_wait_tmout(k, w, t, tstat, timed) ==
  LET k1 == make_wait_tmout(k, t, tstat, timed) IN
  [k1 EXCEPT !.wait_queue[w] = IF w \in TPRI THEN queue_insert_tpri(k1, @, t)
                                             ELSE Append(@, t),
             !.tcb[t].wobj = w]

wait_dequeue_wobj(k, t) ==
  IF TSTAT_WAIT_WOBJ(k.tcb[t].tstat)
  THEN [k EXCEPT !.wait_queue[k.tcb[t].wobj] = RemoveFirst(@, t)]
  ELSE k

wobj_change_priority(k, w, t) ==
  IF w \in TPRI
  THEN [k EXCEPT !.wait_queue[w] = queue_insert_tpri(k, RemoveFirst(@, t), t)]
  ELSE k

(* Every waiting task is released, in the order of the queue, with E_DLT. *)
init_wait_queue(k, w) ==
  LET q == k.wait_queue[w]
      released[i \in 0..Len(q)] ==
        IF i = 0 THEN [k EXCEPT !.wait_queue[w] = << >>]
        ELSE wait_complete(released[i - 1], q[i])
  IN  released[Len(q)]

--------------------------------------------------------------------------
(* task.c *)

(* The wait queue is left as it is. *)
bug_change_priority(k, t, newpri, mtxmode) ==
  LET k1 == [k EXCEPT !.tcb[t].priority = newpri] IN
  IF TSTAT_RUNNABLE(k.tcb[t].tstat)
  THEN requeue(k1, t, k.tcb[t].priority, newpri, mtxmode) ELSE k1

change_priority(k, t, newpri, mtxmode) ==
  LET k1 == [k EXCEPT !.tcb[t].priority = newpri] IN
  IF TSTAT_RUNNABLE(k.tcb[t].tstat)
  THEN requeue(k1, t, k.tcb[t].priority, newpri, mtxmode)
  ELSE IF TSTAT_WAIT_WOBJCB(k.tcb[t].tstat)
       THEN wobj_change_priority(k1, k.tcb[t].wobj, t)
       ELSE k1

make_active(k, t) == make_runnable(set_tstat(k, t, TS_RUNNABLE), t)
==========================================================================
