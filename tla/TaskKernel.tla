---------------------------- MODULE TaskKernel ---------------------------
(***************************************************************************)
(* The task part of the kernel: activation, priorities, sleeping, delays,  *)
(* suspension, termination with deferred termination requests, dispatching *)
(* control, and the switches between tasks and interrupt handlers          *)
(* (kernel/task_manage.c, task_sync.c, task_term.c, sys_manage.c, chg_ipm  *)
(* of interrupt.c, the dispatcher of arch/arm_gcc/common/core_support.S).  *)
(*                                                                         *)
(* The processor is single: a service call runs from lock_cpu() to         *)
(* unlock_cpu() without interference and is one action, dispatch           *)
(* included.  rot_rdq(TPRI_SELF) reads the caller's priority before        *)
(* lock_cpu(), so it is two.  Calls that return an error change nothing    *)
(* and are left out; their conditions are guards.  The application has no  *)
(* mutexes here: mtxhook_release_all is never called and boosted is always *)
(* FALSE (module MutexKernel has them).                                    *)
(***************************************************************************)
EXTENDS TaskSched

CONSTANTS
  Static,      \* the tasks that are created by configuration, and never deleted
  itskpri,     \* their initial priority
  ACT,         \* those of them that are created with TA_ACT
  NOACTQUE,    \* the tasks created with TA_NOACTQUE
  MaxNest      \* bound on the nesting of interrupts

ASSUME itskpriAssumption == itskpri \in [Static -> TPri]
ASSUME ACTAssumption == ACT \subseteq Static /\ Static \subseteq Task
ASSUME MaxNestAssumption == MaxNest \in Nat

VARIABLES
  tcb, ready_queue, ready_primap, p_schedtsk, dspflg, tmevtb, asserted,
  p_runtsk,           \* the running task, NULL when idle
  enadsp,             \* FALSE between dis_dsp and ena_dsp
  ipmall,             \* the interrupt priority mask is TIPM_ENAALL
  lock,               \* CPU-locked by loc_cpu
  excpt_nest_count    \* how many interrupt handlers are active

sched == <<tcb, ready_queue, ready_primap, p_schedtsk, dspflg, tmevtb, asserted>>
vars == <<sched, p_runtsk, enadsp, ipmall, lock, excpt_nest_count>>

(* The scheduler state the helpers work on, and its update. *)
kernel == [tcb |-> tcb, ready_queue |-> ready_queue,
           ready_primap |-> ready_primap, p_schedtsk |-> p_schedtsk,
           dspflg |-> dspflg, tmevtb |-> tmevtb, asserted |-> asserted]

Update(k) ==
  /\ tcb' = k.tcb
  /\ ready_queue' = k.ready_queue
  /\ ready_primap' = k.ready_primap
  /\ p_schedtsk' = k.p_schedtsk
  /\ dspflg' = k.dspflg
  /\ tmevtb' = k.tmevtb
  /\ asserted' = k.asserted

NoPri == -1     \* the task is not inside rot_rdq(TPRI_SELF)

(* A task that does not exist (tskatr is TA_NOEXS) is one of those in      *)
(* free_tcb; its TCB still has what was there, initially zeros.            *)
NoTCB == [exists |-> FALSE, ipriority |-> 0, tstat |-> TS_DORMANT, bpriority |-> 0,
          priority |-> 0, actque |-> FALSE, wupque |-> FALSE, raster |-> FALSE,
          enater |-> FALSE, rotpri |-> NoPri]

(* What make_dormant() and activate_context() leave in a TCB; rotpri is    *)
(* the local variable pri of rot_rdq() on the discarded stack.             *)
DormantTCB(r) ==
  [r EXCEPT !.tstat = TS_DORMANT, !.bpriority = r.ipriority, !.priority = r.ipriority,
            !.wupque = FALSE, !.raster = FALSE, !.enater = TRUE, !.rotpri = NoPri]

(* Of a task that is created: every field is set. *)
CreatedTCB(pri) == DormantTCB([NoTCB EXCEPT !.exists = TRUE, !.ipriority = pri])

(* With exists and ipriority of the TINIB that it points to. *)
TCB == [exists : BOOLEAN, ipriority : TPri, tstat : TStat, bpriority : TPri,
        priority : TPri, actque : BOOLEAN, wupque : BOOLEAN, raster : BOOLEAN,
        enater : BOOLEAN, rotpri : TPri \cup {NoPri}]

Exists(t)    == tcb[t].exists
Runnable(t)  == TSTAT_RUNNABLE(tcb[t].tstat)
Dormant(t)   == TSTAT_DORMANT(tcb[t].tstat)
Waiting(t)   == TSTAT_WAITING(tcb[t].tstat)
Suspended(t) == TSTAT_SUSPENDED(tcb[t].tstat)

--------------------------------------------------------------------------
(* Helpers of task.c that set whole TCBs. *)

make_dormant(k, t) == [k EXCEPT !.tcb[t] = DormantTCB(@)]

make_active(k, t) == make_runnable(set_tstat(k, t, TS_RUNNABLE), t)

(* The task's state is not looked at. *)
bug_change_priority(k, t, newpri, mtxmode) ==
  requeue([k EXCEPT !.tcb[t].priority = newpri], t, k.tcb[t].priority,
          newpri, mtxmode)

(* Every change of priority is taken for one by a mutex. *)
bug_change_priority_head(k, t, newpri, mtxmode) ==
  LET k1 == [k EXCEPT !.tcb[t].priority = newpri] IN
  IF TSTAT_RUNNABLE(k.tcb[t].tstat)
  THEN requeue(k1, t, k.tcb[t].priority, newpri, TRUE) ELSE k1

change_priority(k, t, newpri, mtxmode) ==
  LET k1 == [k EXCEPT !.tcb[t].priority = newpri] IN
  IF TSTAT_RUNNABLE(k.tcb[t].tstat)
  THEN requeue(k1, t, k.tcb[t].priority, newpri, mtxmode)
  ELSE k1

(* A queued activation is kept for later. *)
bug_task_terminate(k, t) ==
  make_dormant(IF TSTAT_RUNNABLE(k.tcb[t].tstat) THEN make_non_runnable(k, t)
               ELSE wait_dequeue_tmevtb(k, t), t)

task_terminate(k, t) ==
  LET tstat == k.tcb[t].tstat
      k1 == IF TSTAT_RUNNABLE(tstat) THEN make_non_runnable(k, t)
            ELSE IF TSTAT_WAITING(tstat) THEN wait_dequeue_tmevtb(k, t)
            ELSE k
      k2 == make_dormant(k1, t)
  IN  IF k2.tcb[t].actque
      THEN make_active([k2 EXCEPT !.tcb[t].actque = FALSE], t)
      ELSE k2

--------------------------------------------------------------------------
(* initialize_task(): the TA_ACT tasks are activated in the order of       *)
(* torder_table, a configuration table: any order is possible.  Then       *)
(* start_dispatch enters the dispatcher.                                   *)
Orders == UNION {[1..n -> Task] : n \in 0..Cardinality(Task)}

BootQueue(q) ==
  /\ \A p \in TPri : IsInjective(q[p])
  /\ \A p \in TPri : ToSet(q[p]) = {t \in ACT : itskpri[t] = p}

Init ==
  /\ tcb = [t \in Task |->
             [IF t \in Static THEN CreatedTCB(itskpri[t]) ELSE NoTCB EXCEPT
               !.tstat = IF t \in ACT THEN TS_RUNNABLE ELSE TS_DORMANT]]
  /\ ready_queue \in {q \in [TPri -> Orders] : BootQueue(q)}
  /\ ready_primap = {p \in TPri : ready_queue[p] # << >>}
  /\ dspflg = TRUE
  /\ tmevtb = {}
  /\ asserted = TRUE
  /\ p_schedtsk = IF ready_primap = {} THEN NULL
                  ELSE Head(ready_queue[primap_search(ready_primap)])
  /\ p_runtsk = p_schedtsk
  /\ enadsp = TRUE
  /\ ipmall = TRUE
  /\ lock = FALSE
  /\ excpt_nest_count = 0

--------------------------------------------------------------------------
(* Contexts. *)

sense_context == excpt_nest_count > 0

(* CHECK_TSKCTX_UNL and CHECK_UNL; a task inside rot_rdq(TPRI_SELF) makes  *)
(* no other call.                                                          *)
TaskUnlocked == /\ ~sense_context
                /\ ~lock
                /\ p_runtsk # NULL
                /\ tcb[p_runtsk].rotpri = NoPri
Unlocked     == ~lock /\ (sense_context \/ TaskUnlocked)

(* The rest of a call that ends with "if (p_runtsk != p_schedtsk)": a task *)
(* dispatches at once, a handler leaves it to the interrupt exit.          *)
Dispatch(k) ==
  /\ Update(k)
  /\ p_runtsk' = IF sense_context THEN p_runtsk ELSE k.p_schedtsk

Return(k) == Update(k) /\ UNCHANGED p_runtsk

UnchangedModes == UNCHANGED <<enadsp, ipmall, lock, excpt_nest_count>>

--------------------------------------------------------------------------
(* task_manage.c *)

(* A TCB is taken from free_tcb; which one does not matter. *)
acre_tsk(t, pri, tskatr) ==
  LET k1 == [kernel EXCEPT !.tcb[t] = CreatedTCB(pri)] IN
  /\ TaskUnlocked
  /\ ~Exists(t)
  /\ IF "ACT" \in tskatr THEN Dispatch(make_active(k1, t)) ELSE Return(k1)
  /\ UnchangedModes

(* A task that waits or is suspended is taken for one that has ended. *)
bug_del_tsk(t) ==
  /\ TaskUnlocked
  /\ Exists(t) /\ t \notin Static /\ ~Runnable(t)
  /\ Return([kernel EXCEPT !.tcb[t].exists = FALSE])
  /\ UnchangedModes

del_tsk(t) ==
  /\ TaskUnlocked
  /\ Exists(t) /\ t \notin Static /\ Dormant(t)
  /\ Return([kernel EXCEPT !.tcb[t].exists = FALSE])
  /\ UnchangedModes

act_tsk(t) ==
  /\ Unlocked /\ Exists(t)
  /\ \/ /\ Dormant(t)
        /\ Dispatch(make_active(kernel, t))
     \/ /\ ~Dormant(t) /\ t \notin NOACTQUE /\ ~tcb[t].actque
        /\ Return([kernel EXCEPT !.tcb[t].actque = TRUE])
  /\ UnchangedModes

can_act(t) ==
  /\ TaskUnlocked /\ Exists(t)
  /\ tcb[t].actque
  /\ Return([kernel EXCEPT !.tcb[t].actque = FALSE])
  /\ UnchangedModes

(* newbpri stands for the argument or, for TPRI_INI, the initial priority. *)
chg_pri(t, newbpri) ==
  /\ TaskUnlocked /\ Exists(t)
  /\ ~Dormant(t)
  /\ Dispatch(change_priority([kernel EXCEPT !.tcb[t].bpriority = newbpri],
                              t, newbpri, FALSE))
  /\ UnchangedModes

--------------------------------------------------------------------------
(* task_sync.c *)

(* No look at raster. *)
bug_slp_tsk(timed) ==
  /\ TaskUnlocked /\ dspflg
  /\ ~tcb[p_runtsk].wupque
  /\ Dispatch(make_wait_tmout(kernel, p_runtsk, TS_WAITING_SLP, timed))
  /\ UnchangedModes

(* slp_tsk() and tslp_tsk(): a pending wakeup is consumed without waiting. *)
slp_tsk(timed) ==
  /\ TaskUnlocked /\ dspflg
  /\ ~tcb[p_runtsk].raster
  /\ \/ /\ tcb[p_runtsk].wupque
        /\ Return([kernel EXCEPT !.tcb[p_runtsk].wupque = FALSE])
     \/ /\ ~tcb[p_runtsk].wupque
        /\ Dispatch(make_wait_tmout(kernel, p_runtsk, TS_WAITING_SLP, timed))
  /\ UnchangedModes

wup_tsk(t) ==
  /\ Unlocked /\ Exists(t)
  /\ ~Dormant(t)
  /\ \/ /\ TSTAT_WAIT_SLP(tcb[t].tstat)
        /\ Dispatch(wait_complete(kernel, t))
     \/ /\ ~TSTAT_WAIT_SLP(tcb[t].tstat) /\ ~tcb[t].wupque
        /\ Return([kernel EXCEPT !.tcb[t].wupque = TRUE])
  /\ UnchangedModes

can_wup(t) ==
  /\ TaskUnlocked /\ Exists(t)
  /\ ~Dormant(t) /\ tcb[t].wupque
  /\ Return([kernel EXCEPT !.tcb[t].wupque = FALSE])
  /\ UnchangedModes

(* The time event stays registered. *)
bug_rel_wai(t) ==
  /\ Unlocked /\ Waiting(t)
  /\ Dispatch(make_non_wait(kernel, t))
  /\ UnchangedModes

rel_wai(t) ==
  /\ Unlocked /\ Exists(t)
  /\ Waiting(t)
  /\ Dispatch(make_non_wait(set_wercd(wait_dequeue_tmevtb(kernel, t), t), t))
  /\ UnchangedModes

(* A task may suspend itself while dispatching is disabled. *)
bug_sus_tsk(t) ==
  /\ TaskUnlocked /\ Runnable(t) /\ ~tcb[t].raster
  /\ Dispatch(make_non_runnable(set_tstat(kernel, t, TS_SUSPENDED), t))
  /\ UnchangedModes

sus_tsk(t) ==
  /\ TaskUnlocked /\ Exists(t)
  /\ t = p_runtsk => dspflg
  /\ ~Dormant(t) /\ ~tcb[t].raster /\ ~Suspended(t)
  /\ \/ /\ Runnable(t)
        /\ Dispatch(make_non_runnable(set_tstat(kernel, t, TS_SUSPENDED), t))
     \/ /\ ~Runnable(t)
        /\ Return(set_tstat(kernel, t, tcb[t].tstat \cup TS_SUSPENDED))
  /\ UnchangedModes

(* No dispatch. *)
bug_rsm_tsk(t) ==
  /\ TaskUnlocked /\ Suspended(t) /\ ~Waiting(t)
  /\ Return(make_runnable(set_tstat(kernel, t, TS_RUNNABLE), t))
  /\ UnchangedModes

rsm_tsk(t) ==
  /\ TaskUnlocked /\ Exists(t)
  /\ Suspended(t)
  /\ \/ /\ ~Waiting(t)
        /\ Dispatch(make_runnable(set_tstat(kernel, t, TS_RUNNABLE), t))
     \/ /\ Waiting(t)
        /\ Return(set_tstat(kernel, t, tcb[t].tstat \ TS_SUSPENDED))
  /\ UnchangedModes

dly_tsk ==
  /\ TaskUnlocked /\ dspflg
  /\ ~tcb[p_runtsk].raster
  /\ Dispatch(make_wait_tmout(kernel, p_runtsk, TS_WAITING_DLY, TRUE))
  /\ UnchangedModes

(* wait_tmout() and wait_tmout_ok(), called back by signal_time() in the   *)
(* timer interrupt handler after the event is taken out of the heap.       *)
wait_tmout(t) ==
  /\ sense_context /\ ~lock
  /\ t \in tmevtb
  /\ Dispatch(make_non_wait(set_wercd(wait_dequeue_tmevtb(kernel, t), t), t))
  /\ UnchangedModes

--------------------------------------------------------------------------
(* task_term.c *)

(* exit_and_dispatch() abandons the running context. *)
ExitAndDispatch(k) ==
  LET k1 == task_terminate(k, p_runtsk) IN
  Update(k1) /\ p_runtsk' = k1.p_schedtsk

(* enadsp survives the task. *)
bug_ext_tsk ==
  /\ ~sense_context /\ p_runtsk # NULL /\ tcb[p_runtsk].rotpri = NoPri
  /\ ExitAndDispatch(IF dspflg THEN kernel ELSE set_dspflg(kernel))
  /\ lock' = FALSE
  /\ UNCHANGED <<enadsp, ipmall, excpt_nest_count>>

ext_tsk ==
  /\ ~sense_context /\ p_runtsk # NULL /\ tcb[p_runtsk].rotpri = NoPri
  /\ ExitAndDispatch(IF dspflg THEN kernel ELSE set_dspflg(kernel))
  /\ enadsp' = TRUE
  /\ ipmall' = TRUE
  /\ lock' = FALSE
  /\ UNCHANGED excpt_nest_count

ras_ter(t) ==
  /\ TaskUnlocked /\ Exists(t)
  /\ t # p_runtsk /\ ~Dormant(t)
  /\ LET k1 == [kernel EXCEPT !.tcb[t].raster = TRUE]
         k2 == IF Waiting(t) THEN set_wercd(wait_dequeue_tmevtb(k1, t), t)
               ELSE k1
     IN  \/ tcb[t].enater /\ Dispatch(task_terminate(kernel, t))
         \/ ~tcb[t].enater /\ Runnable(t) /\ Return(k1)
         \/ /\ ~tcb[t].enater /\ ~Runnable(t)
            /\ Dispatch(make_runnable(set_tstat(k2, t, TS_RUNNABLE), t))
  /\ UnchangedModes

dis_ter ==
  /\ TaskUnlocked
  /\ Return([kernel EXCEPT !.tcb[p_runtsk].enater = FALSE])
  /\ UnchangedModes

ena_ter ==
  /\ TaskUnlocked
  /\ IF tcb[p_runtsk].raster /\ dspflg
     THEN ExitAndDispatch(kernel)
     ELSE Return([kernel EXCEPT !.tcb[p_runtsk].enater = TRUE])
  /\ UnchangedModes

ter_tsk(t) ==
  /\ TaskUnlocked /\ Exists(t)
  /\ t # p_runtsk /\ ~Dormant(t)
  /\ Dispatch(task_terminate(kernel, t))
  /\ UnchangedModes

--------------------------------------------------------------------------
(* sys_manage.c and interrupt.c *)

(* rot_rdq() with a priority: no task context needed, one critical section. *)
rot_rdq(pri) ==
  /\ Unlocked
  /\ Dispatch(rotate_ready_queue(kernel, pri))
  /\ UnchangedModes

(* rot_rdq(TPRI_SELF) reads the base priority with the CPU unlocked ...     *)
rot_rdq_self ==
  /\ TaskUnlocked
  /\ Return([kernel EXCEPT !.tcb[p_runtsk].rotpri = tcb[p_runtsk].bpriority])
  /\ UnchangedModes

(* ... and rotates the queue of the priority it read.                       *)
rot_rdq_locked ==
  /\ ~sense_context /\ ~lock /\ p_runtsk # NULL
  /\ tcb[p_runtsk].rotpri # NoPri
  /\ Dispatch(rotate_ready_queue([kernel EXCEPT !.tcb[p_runtsk].rotpri = NoPri],
                                 tcb[p_runtsk].rotpri))
  /\ UnchangedModes

(* The common end of ena_dsp() and chg_ipm(): dispatching is possible      *)
(* again, and a termination request that was deferred takes effect.        *)
EnableDispatch ==
  IF tcb[p_runtsk].raster /\ tcb[p_runtsk].enater
  THEN ExitAndDispatch(set_dspflg(kernel))
  ELSE Dispatch(set_dspflg(kernel))

dis_dsp ==
  /\ TaskUnlocked
  /\ enadsp' = FALSE
  /\ Return([kernel EXCEPT !.dspflg = FALSE])
  /\ UNCHANGED <<ipmall, lock, excpt_nest_count>>

ena_dsp ==
  /\ TaskUnlocked
  /\ enadsp' = TRUE
  /\ IF ipmall THEN EnableDispatch ELSE Return(kernel)
  /\ UNCHANGED <<ipmall, lock, excpt_nest_count>>

chg_ipm(all) ==
  /\ TaskUnlocked
  /\ ipmall' = all
  /\ IF all /\ enadsp THEN EnableDispatch
     ELSE Return([kernel EXCEPT !.dspflg = FALSE])
  /\ UNCHANGED <<enadsp, lock, excpt_nest_count>>

loc_cpu ==
  /\ Unlocked
  /\ lock' = TRUE
  /\ UNCHANGED <<sched, p_runtsk, enadsp, ipmall, excpt_nest_count>>

unl_cpu ==
  /\ lock
  /\ lock' = FALSE
  /\ UNCHANGED <<sched, p_runtsk, enadsp, ipmall, excpt_nest_count>>

--------------------------------------------------------------------------
(* core_support.S: the entry of an interrupt handler and its exit, which   *)
(* enters the dispatcher from the outermost handler when the processor was *)
(* idle or another task should run.                                        *)
irq_handler ==
  /\ ~lock
  /\ excpt_nest_count < MaxNest
  /\ excpt_nest_count' = excpt_nest_count + 1
  /\ UNCHANGED <<sched, p_runtsk, enadsp, ipmall, lock>>

(* A second return from one handler. *)
bug_irq_return ==
  /\ excpt_nest_count' = excpt_nest_count - 1
  /\ UNCHANGED <<sched, p_runtsk, enadsp, ipmall, lock>>

irq_return ==
  /\ sense_context
  /\ excpt_nest_count' = excpt_nest_count - 1
  /\ lock' = FALSE
  /\ p_runtsk' = IF excpt_nest_count = 1 THEN p_schedtsk ELSE p_runtsk
  /\ UNCHANGED <<sched, enadsp, ipmall>>

--------------------------------------------------------------------------
TaskAction(t) ==
  \/ act_tsk(t) \/ can_act(t) \/ wup_tsk(t) \/ can_wup(t) \/ rel_wai(t)
  \/ sus_tsk(t) \/ rsm_tsk(t) \/ ras_ter(t) \/ ter_tsk(t) \/ wait_tmout(t)
  \/ \E pri \in TPri : \/ chg_pri(t, pri)
                       \/ \E tskatr \in SUBSET {"ACT"} : acre_tsk(t, pri, tskatr)
  \/ del_tsk(t)

SelfAction ==
  \/ \E timed \in BOOLEAN : slp_tsk(timed)
  \/ dly_tsk \/ ext_tsk \/ dis_ter \/ ena_ter
  \/ rot_rdq_self \/ rot_rdq_locked

SystemAction ==
  \/ \E pri \in TPri : rot_rdq(pri)
  \/ dis_dsp \/ ena_dsp \/ (\E all \in BOOLEAN : chg_ipm(all))
  \/ loc_cpu \/ unl_cpu
  \/ irq_handler \/ irq_return

Next ==
  \/ \E t \in Task : TaskAction(t)
  \/ SelfAction
  \/ SystemAction

Spec == Init /\ [][Next]_vars

--------------------------------------------------------------------------
(* Properties. *)

(* The types of the variables. *)
TypeOK ==
  /\ tcb \in [Task -> TCB]
  /\ ready_queue \in [TPri -> Seq(Task)]
  /\ ready_primap \subseteq TPri
  /\ p_schedtsk \in Task \cup {NULL}
  /\ dspflg \in BOOLEAN
  /\ tmevtb \subseteq Task
  /\ asserted \in BOOLEAN
  /\ p_runtsk \in Task \cup {NULL}
  /\ enadsp \in BOOLEAN
  /\ ipmall \in BOOLEAN
  /\ lock \in BOOLEAN
  /\ excpt_nest_count \in 0..MaxNest

(* A task is linked into a ready queue exactly when it can run, once, and  *)
(* into the queue of its current priority; the bitmap marks the queues     *)
(* that are not empty.  task_queue is a single link: a second insertion    *)
(* would corrupt two lists.                                                *)
ReadyQueuesOK ==
  /\ \A p \in TPri :
       /\ IsInjective(ready_queue[p])
       /\ ToSet(ready_queue[p]) = {t \in Task : Runnable(t) /\ tcb[t].priority = p}
  /\ ready_primap = {p \in TPri : ready_queue[p] # << >>}

(* p_schedtsk is maintained incrementally by every helper; while           *)
(* dispatching is possible it is the first task of the highest priority,   *)
(* and NULL only when no task can run.                                     *)
SchedIsFirst ==
  dspflg => IF ready_primap = {} THEN p_schedtsk = NULL
            ELSE /\ p_schedtsk \in Task
                 /\ Runnable(p_schedtsk)
                 /\ p_schedtsk = Head(ready_queue[tcb[p_schedtsk].priority])
                 /\ \A p \in ready_primap : tcb[p_schedtsk].priority <= p

(* While dispatching is impossible p_schedtsk stays the running task,      *)
(* which can run: interrupt exits and unlocked sections never switch it.   *)
DisabledKeepsRunning ==
  ~dspflg => /\ p_runtsk \in Task
             /\ Runnable(p_runtsk)
             /\ p_schedtsk = p_runtsk

(* No service call of a task returns with a dispatch outstanding: the      *)
(* task that runs is the task that should.                                 *)
RunningIsScheduled == ~sense_context => p_runtsk = p_schedtsk

(* dspflg sums up what dis_dsp() and chg_ipm() have said, in whichever     *)
(* order they and the end of a task change it.                             *)
DspflgOK == dspflg <=> enadsp /\ ipmall

(* Dispatching is possible exactly when neither dis_dsp() nor the          *)
(* interrupt mask forbids it, and while it is not the running task stays.  *)
DispatchingOK == DspflgOK /\ DisabledKeepsRunning

(* A task with a deferred termination request is never left waiting or     *)
(* suspended, and never executes with termination enabled unless the       *)
(* disabled dispatching defers the termination.                            *)
RasterOK ==
  \A t \in Task : tcb[t].raster =>
    /\ Runnable(t)
    /\ tcb[t].enater => t = p_runtsk /\ ~dspflg

(* A time event is registered only for a waiting task: the block is on     *)
(* that task's stack inside the waiting call.  A delayed task always has   *)
(* one, or it would never return.                                          *)
TimeEventsOK ==
  \A t \in Task :
    /\ t \in tmevtb => Waiting(t)
    /\ "WAITING_DLY" \in tcb[t].tstat => t \in tmevtb

(* No request is lost or forgotten: a queued activation belongs to a task  *)
(* that is not dormant, a queued wakeup to a task that is neither dormant  *)
(* nor asleep; and a task that was deleted left nothing behind, its TCB    *)
(* being linked into free_tcb by the link of the ready and wait queues.    *)
RequestsOK ==
  \A t \in Task :
    /\ tcb[t].actque => ~Dormant(t)
    /\ ~Dormant(t) => Exists(t)
    /\ tcb[t].wupque => ~Dormant(t) /\ ~TSTAT_WAIT_SLP(tcb[t].tstat)

(* No assert() of the helpers fails: make_non_runnable() moves p_schedtsk  *)
(* only while dispatching is possible, make_non_wait() is given a waiting  *)
(* task.  Nor is wercd ever stored over the pointer to a time event that   *)
(* is still registered, which could not be cancelled any more.             *)
AssertsHold == asserted

(* No event that ends a wait resumes a suspended task: only rsm_tsk(), a   *)
(* termination request or a termination does.                              *)
SuspendedUntilResumed ==
  [][\A t \in Task : Suspended(t) /\ Runnable(t)' =>
        rsm_tsk(t) \/ ras_ter(t) \/ ter_tsk(t)]_vars

(* Tasks of one priority run in the order in which they became ready: a    *)
(* task falls behind another only by rotation, by a new base priority or   *)
(* by ending and starting again; being preempted costs it nothing.         *)
FifoKept ==
  [][\A p \in TPri : \A i, j \in DOMAIN ready_queue[p] :
       LET a == ready_queue[p][i]
           b == ready_queue[p][j]
           q == ready_queue'[p]
       IN  i < j /\ a \in ToSet(q) /\ b \in ToSet(q) =>
             \/ \E m, n \in DOMAIN q : m < n /\ q[m] = a /\ q[n] = b
             \/ rot_rdq(p) \/ rot_rdq_locked \/ chg_pri(a, p)
             \/ ter_tsk(a) \/ ras_ter(a) \/ (a = p_runtsk /\ (ext_tsk \/ ena_ter))
    ]_vars
==========================================================================
