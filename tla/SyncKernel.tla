--------------------------- MODULE SyncKernel ---------------------------
(***************************************************************************)
(* The tasks, handlers and task services around a synchronization or       *)
(* communication object: what Semaphore, EventFlag, DataQueue, MemPool,    *)
(* PriDataQueue and MessageBuffer have in common.  A task is in the wait   *)
(* queue of an object while the services here change its priority, release,*)
(* terminate or time it out.                                               *)
(*                                                                         *)
(* The application uses these services and those of the object.  It does   *)
(* not suspend tasks, disable dispatching or terminate by request (see     *)
(* TaskKernel), so that CHECK_DISPATCH is CHECK_TSKCTX, and uses no mutex  *)
(* (see MutexKernel), so that the base and the current priority are equal. *)
(***************************************************************************)
EXTENDS WaitObject

CONSTANTS
  ipriority,   \* the initial priority of every task
  MaxNest      \* bound on the nesting of interrupts

ASSUME SyncAssumption == ipriority \in [Task -> TPri] /\ MaxNest \in Nat

VARIABLES
  kernel,      \* the record of TaskSched and WaitObject
  p_runtsk, excpt_nest_count

taskVars == <<kernel, p_runtsk, excpt_nest_count>>

(* winfo is what the WINFO of a wait for an object has beyond the queue.   *)
DormantTCB(t) ==
  [tstat |-> TS_DORMANT, priority |-> ipriority[t], wobj |-> NULL, winfo |-> NULL]

tstat(t)   == kernel.tcb[t].tstat
Dormant(t) == TSTAT_DORMANT(tstat(t))
Waiting(t) == TSTAT_WAITING(tstat(t))

(* Initially no task has been activated, and the processor is idle.        *)
TaskInit ==
  /\ kernel = [tcb          |-> [t \in Task |-> DormantTCB(t)],
               ready_queue  |-> [p \in TPri |-> << >>],
               ready_primap |-> {},
               p_schedtsk   |-> NULL,
               dspflg       |-> TRUE,
               tmevtb       |-> {},
               asserted     |-> TRUE,
               wait_queue   |-> [w \in WaitQueue |-> << >>]]
  /\ p_runtsk = NULL
  /\ excpt_nest_count = 0

sense_context == excpt_nest_count > 0
TaskContext == ~sense_context /\ p_runtsk # NULL
AnyContext  == sense_context \/ TaskContext

(* A WINFO lives on the stack of the waiting task: it ends with the wait.  *)
EndWinfo(k) ==
  [k EXCEPT !.tcb = [t \in Task |->
      IF TSTAT_WAITING(@[t].tstat) THEN @[t]
      ELSE [@[t] EXCEPT !.wobj = NULL, !.winfo = NULL]]]

(* The end of a service call: dispatch(), in task context, to the task     *)
(* that should run.                                                        *)
Dispatch(k) ==
  /\ kernel' = EndWinfo(k)
  /\ p_runtsk' = IF sense_context THEN p_runtsk ELSE k.p_schedtsk
  /\ UNCHANGED excpt_nest_count

(* The running task starts to wait in the queue w.                         *)
wobj_wait(w, waiting, winfo, timed) ==
  Dispatch([wobj_make_wait_tmout(kernel, w, p_runtsk, waiting, timed)
              EXCEPT !.tcb[p_runtsk].winfo = winfo])

--------------------------------------------------------------------------
(* Task services, timeouts and interrupts, as in TaskKernel.               *)

act_tsk(t) ==
  /\ AnyContext
  /\ Dormant(t)
  /\ Dispatch(make_active(kernel, t))

chg_pri(t, newbpri) ==
  /\ TaskContext
  /\ ~Dormant(t)
  /\ Dispatch(change_priority(kernel, t, newbpri, FALSE))

(* A task forced out of its wait leaves the queue and its time event.      *)
end_wait(k, t) == wait_dequeue_tmevtb(wait_dequeue_wobj(k, t), t)

rel_wai(t) ==
  /\ AnyContext
  /\ Waiting(t)
  /\ Dispatch(make_non_wait(set_wercd(end_wait(kernel, t), t), t))

wait_tmout(t) ==
  /\ sense_context
  /\ t \in kernel.tmevtb
  /\ Dispatch(make_non_wait(set_wercd(end_wait(kernel, t), t), t))

task_terminate(k, t) ==
  LET k1 == IF TSTAT_RUNNABLE(tstat(t)) THEN make_non_runnable(k, t)
            ELSE end_wait(k, t)
  IN  [k1 EXCEPT !.tcb[t] = DormantTCB(t)]

ext_tsk == TaskContext /\ Dispatch(task_terminate(kernel, p_runtsk))

ter_tsk(t) ==
  /\ TaskContext
  /\ t # p_runtsk /\ ~Dormant(t)
  /\ Dispatch(task_terminate(kernel, t))

irq_handler ==
  /\ excpt_nest_count < MaxNest
  /\ excpt_nest_count' = excpt_nest_count + 1
  /\ UNCHANGED <<kernel, p_runtsk>>

irq_return ==
  /\ sense_context
  /\ excpt_nest_count' = excpt_nest_count - 1
  /\ p_runtsk' = IF excpt_nest_count = 1 THEN kernel.p_schedtsk ELSE p_runtsk
  /\ UNCHANGED kernel

TaskNext ==
  \/ \E t \in Task :
       \/ act_tsk(t) \/ (\E pri \in TPri : chg_pri(t, pri))
       \/ rel_wai(t) \/ wait_tmout(t) \/ ter_tsk(t)
  \/ ext_tsk \/ irq_handler \/ irq_return

--------------------------------------------------------------------------
(* A part of every object's invariant. *)

(* A task is in a wait queue exactly while it waits for that object, once, *)
(* a queue in priority order is sorted, only waiting tasks have a time     *)
(* event, cancelled before wercd is stored over the pointer to it, the     *)
(* ready queues hold each task that can run once, and the first of the     *)
(* highest priority runs.                                                  *)
KernelOK ==
  /\ \A w \in WaitQueue :
       /\ IsInjective(kernel.wait_queue[w])
       /\ ToSet(kernel.wait_queue[w]) = {t \in Task : Waiting(t) /\ kernel.tcb[t].wobj = w}
       /\ w \in TPRI => \A i, j \in DOMAIN kernel.wait_queue[w] :
            i < j => kernel.tcb[kernel.wait_queue[w][i]].priority
                       <= kernel.tcb[kernel.wait_queue[w][j]].priority
  /\ \A t \in kernel.tmevtb : Waiting(t)
  /\ \A p \in TPri :
       /\ IsInjective(kernel.ready_queue[p])
       /\ ToSet(kernel.ready_queue[p]) =
            {t \in Task : TSTAT_RUNNABLE(tstat(t)) /\ kernel.tcb[t].priority = p}
  /\ kernel.ready_primap = {p \in TPri : kernel.ready_queue[p] # << >>}
  /\ kernel.p_schedtsk = IF kernel.ready_primap = {} THEN NULL
                         ELSE search_schedtsk(kernel)
  /\ sense_context \/ p_runtsk = kernel.p_schedtsk
  /\ kernel.asserted
==========================================================================
