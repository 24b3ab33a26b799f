--------------------------- MODULE MutexKernel ---------------------------
(***************************************************************************)
(* Mutexes (kernel/mutex.c) and the task services that meet them: base     *)
(* priority changes, termination, forced release, timeouts, suspension and *)
(* disabled dispatching.  A mutex is plain (FIFO or priority order) or has *)
(* a priority ceiling.  The application uses the services below and no     *)
(* other, and its tasks are created with TA_NOACTQUE, so that actque,      *)
(* wupque, raster and enater keep their initial values.                    *)
(*                                                                         *)
(* The list of the mutexes a task has locked, from p_lastmtx along         *)
(* p_prevmtx, is a sequence: its head is p_lastmtx.                        *)
(***************************************************************************)
EXTENDS WaitObject

CONSTANTS
  CEILING,     \* the mutexes with TA_CEILING, which are in TPRI
  ceilpri,     \* their ceiling
  ipriority,   \* the initial priority of every task
  MaxNest      \* bound on the nesting of interrupts

ASSUME MutexAssumption ==
  /\ CEILING \subseteq TPRI
  /\ ceilpri \in [CEILING -> TPri]
  /\ ipriority \in [Task -> TPri]
  /\ MaxNest \in Nat

Mutex == WaitQueue   \* each has one wait queue

VARIABLES
  tcb, ready_queue, ready_primap, p_schedtsk, dspflg, tmevtb, asserted,
  wait_queue,         \* the wait queue of every mutex
  p_loctsk,           \* its owner, or NULL
  existing,           \* the mutexes whose mtxatr is not TA_NOEXS
  p_runtsk, excpt_nest_count

kernelVars == <<tcb, ready_queue, ready_primap, p_schedtsk, dspflg, tmevtb,
                asserted, wait_queue, p_loctsk>>
vars == <<kernelVars, existing, p_runtsk, excpt_nest_count>>

kernel == [tcb |-> tcb, ready_queue |-> ready_queue,
           ready_primap |-> ready_primap, p_schedtsk |-> p_schedtsk,
           dspflg |-> dspflg, tmevtb |-> tmevtb, asserted |-> asserted,
           wait_queue |-> wait_queue, p_loctsk |-> p_loctsk]

Update(k) ==
  /\ tcb' = k.tcb
  /\ ready_queue' = k.ready_queue
  /\ ready_primap' = k.ready_primap
  /\ p_schedtsk' = k.p_schedtsk
  /\ dspflg' = k.dspflg
  /\ tmevtb' = k.tmevtb
  /\ asserted' = k.asserted
  /\ wait_queue' = k.wait_queue
  /\ p_loctsk' = k.p_loctsk

(* What make_dormant() leaves in a TCB, whose mutex list is empty by then. *)
(* wobj is p_wobjcb of the WINFO, meaningful during a wait for a mutex.    *)
DormantTCB(t) ==
  [tstat |-> TS_DORMANT, bpriority |-> ipriority[t], priority |-> ipriority[t],
   boosted |-> FALSE, p_lastmtx |-> << >>, wobj |-> NULL]

TCB == [tstat : TStat, bpriority : TPri, priority : TPri, boosted : BOOLEAN,
        p_lastmtx : Seq(Mutex), wobj : Mutex \cup {NULL}]

Runnable(t)  == TSTAT_RUNNABLE(tcb[t].tstat)
Dormant(t)   == TSTAT_DORMANT(tcb[t].tstat)
Waiting(t)   == TSTAT_WAITING(tcb[t].tstat)
Suspended(t) == TSTAT_SUSPENDED(tcb[t].tstat)

--------------------------------------------------------------------------
(* mutex.c: helpers. *)

Ceilings(k, t) == {ceilpri[m] : m \in ToSet(k.tcb[t].p_lastmtx) \cap CEILING}

(* No mutex the task has locked or waits for has a ceiling below the base  *)
(* priority it would get.                                                  *)
mutex_check_ceilpri(k, t, bpriority) ==
  /\ \A c \in Ceilings(k, t) : bpriority >= c
  /\ TSTAT_WAIT_MTX(k.tcb[t].tstat) /\ k.tcb[t].wobj \in CEILING
       => bpriority >= ceilpri[k.tcb[t].wobj]

mutex_calc_priority(k, t) == Min(Ceilings(k, t) \cup {k.tcb[t].bpriority})

mutex_raise_priority(k, t, newpri) ==
  LET k1 == [k EXCEPT !.tcb[t].boosted = TRUE] IN
  IF newpri < k.tcb[t].priority THEN change_priority(k1, t, newpri, TRUE) ELSE k1

(* The other mutexes of the task are forgotten. *)
bug_mutex_drop_priority(k, t, oldpri) ==
  LET k1 == [k EXCEPT !.tcb[t].boosted = FALSE] IN
  IF oldpri # k.tcb[t].priority \/ k.tcb[t].bpriority = oldpri THEN k1
  ELSE change_priority(k1, t, k.tcb[t].bpriority, TRUE)

(* boosted is never reset. *)
bug_mutex_drop_boosted(k, t, oldpri) ==
  IF oldpri # k.tcb[t].priority \/ mutex_calc_priority(k, t) = oldpri THEN k
  ELSE change_priority(k, t, mutex_calc_priority(k, t), TRUE)

(* The task goes behind its equals, as if it had arrived. *)
bug_mutex_drop_tail(k, t, oldpri) ==
  LET k1 == [k EXCEPT !.tcb[t].boosted = Ceilings(k, t) # {}] IN
  IF oldpri # k.tcb[t].priority THEN k
  ELSE change_priority(k1, t, mutex_calc_priority(k, t), FALSE)

mutex_drop_priority(k, t, oldpri) ==
  LET k1     == [k EXCEPT !.tcb[t].boosted = Ceilings(k, t) # {}]
      newpri == mutex_calc_priority(k, t)
  IN  IF oldpri # k.tcb[t].priority THEN k
      ELSE IF newpri = oldpri THEN k1
      ELSE change_priority(k1, t, newpri, TRUE)

(* The mutex becomes the last one locked by the task. *)
push_mutex(k, t, m) ==
  [k EXCEPT !.p_loctsk[m] = t, !.tcb[t].p_lastmtx = Cons(m, @)]

mutex_acquire(k, t, m) ==
  LET k1 == push_mutex(k, t, m) IN
  IF m \in CEILING THEN mutex_raise_priority(k1, t, ceilpri[m]) ELSE k1

(* The new owner's time event stays registered. *)
bug_mutex_release(k, m) ==
  LET t == Head(k.wait_queue[m])
      k1 == push_mutex([k EXCEPT !.wait_queue[m] = Tail(@)], t, m)
  IN  IF k.wait_queue[m] = << >> THEN [k EXCEPT !.p_loctsk[m] = NULL]
      ELSE make_non_wait(k1, t)

(* The new owner is raised when it is in a ready queue already. *)
bug_mutex_release_late(k, m) ==
  LET t  == Head(k.wait_queue[m])
      k1 == wait_dequeue_tmevtb([k EXCEPT !.wait_queue[m] = Tail(@)], t)
      k2 == make_non_wait(push_mutex(k1, t, m), t)
  IN  IF k.wait_queue[m] = << >> THEN [k EXCEPT !.p_loctsk[m] = NULL]
      ELSE IF m \notin CEILING THEN k2
      ELSE [k2 EXCEPT !.tcb[t].boosted = TRUE,
                      !.tcb[t].priority = Min({@, ceilpri[m]})]

(* The first waiting task, if any, becomes the owner at once; it is in no  *)
(* queue when its priority is raised.                                      *)
mutex_release(k, m) ==
  LET t  == Head(k.wait_queue[m])
      k1 == wait_dequeue_tmevtb([k EXCEPT !.wait_queue[m] = Tail(@)], t)
      k2 == push_mutex(set_wercd(k1, t), t, m)
      k3 == [k2 EXCEPT !.tcb[t].boosted = TRUE,
                       !.tcb[t].priority = Min({@, ceilpri[m]})]
  IN  IF k.wait_queue[m] = << >> THEN [k EXCEPT !.p_loctsk[m] = NULL]
      ELSE make_non_wait(IF m \in CEILING THEN k3 ELSE k2, t)

(* From the mutex locked last to the one locked first.                     *)
mutex_release_all(k, t) ==
  LET list == k.tcb[t].p_lastmtx
      released[i \in 0..Len(list)] ==
        IF i = 0 THEN k
        ELSE mutex_release([released[i - 1] EXCEPT !.tcb[t].p_lastmtx = Tail(@)],
                           list[i])
  IN  released[Len(list)]

task_terminate(k, t) ==
  LET tstat == k.tcb[t].tstat
      k1 == IF TSTAT_RUNNABLE(tstat) THEN make_non_runnable(k, t)
            ELSE IF TSTAT_WAITING(tstat)
                 THEN wait_dequeue_tmevtb(wait_dequeue_wobj(k, t), t)
            ELSE k
  IN  [mutex_release_all(k1, t) EXCEPT !.tcb[t] = DormantTCB(t)]

--------------------------------------------------------------------------
(* Initially no task has been activated and the processor is idle.         *)
Boot ==
  /\ tcb = [t \in Task |-> DormantTCB(t)]
  /\ ready_queue = [p \in TPri |-> << >>]
  /\ ready_primap = {}
  /\ p_schedtsk = NULL
  /\ dspflg = TRUE
  /\ tmevtb = {}
  /\ asserted = TRUE
  /\ wait_queue = [m \in Mutex |-> << >>]
  /\ p_loctsk = [m \in Mutex |-> NULL]
  /\ p_runtsk = NULL
  /\ excpt_nest_count = 0

(* Every mutex is created at run time. *)
Init == Boot /\ existing = {}

sense_context == excpt_nest_count > 0
TaskContext == ~sense_context /\ p_runtsk # NULL

Dispatch(k) ==
  /\ Update(k)
  /\ p_runtsk' = IF sense_context THEN p_runtsk ELSE k.p_schedtsk
  /\ UNCHANGED excpt_nest_count

Return(k) == Update(k) /\ UNCHANGED <<p_runtsk, excpt_nest_count>>

UsesMutex(m) == m \in existing /\ UNCHANGED existing

--------------------------------------------------------------------------
(* mutex.c: services. *)

(* The conditions loc_mtx(), ploc_mtx() and tloc_mtx() share. *)
CeilingRespected(m) == m \in CEILING => tcb[p_runtsk].bpriority >= ceilpri[m]

(* A free mutex: the three calls do the same, but only ploc_mtx() may be   *)
(* called while dispatching is disabled.  Locking needs no dispatch, and   *)
(* the code asserts it.                                                    *)
ploc_mtx(m) ==
  /\ TaskContext /\ UsesMutex(m)
  /\ CeilingRespected(m)
  /\ p_loctsk[m] = NULL
  /\ LET k == mutex_acquire(kernel, p_runtsk, m) IN
     Return([k EXCEPT !.asserted = @ /\ p_runtsk = k.p_schedtsk])

(* loc_mtx() and tloc_mtx() on a locked mutex. *)
tloc_mtx(m, timed) ==
  /\ TaskContext /\ dspflg /\ UsesMutex(m)
  /\ CeilingRespected(m)
  /\ p_loctsk[m] \notin {NULL, p_runtsk}
  /\ Dispatch(wobj_make_wait_tmout(kernel, m, p_runtsk, TS_WAITING_MTX, timed))

(* Only the mutex locked last can be unlocked. *)
unl_mtx(m) ==
  /\ TaskContext /\ UsesMutex(m)
  /\ tcb[p_runtsk].p_lastmtx # << >> /\ Head(tcb[p_runtsk].p_lastmtx) = m
  /\ LET k1 == [kernel EXCEPT !.tcb[p_runtsk].p_lastmtx = Tail(@)]
         k2 == IF m \in CEILING THEN mutex_drop_priority(k1, p_runtsk, ceilpri[m])
               ELSE k1
     IN  Dispatch(mutex_release(k2, m))

(* The owner's list keeps the mutex. *)
bug_free_mutex(k, m) == [init_wait_queue(k, m) EXCEPT !.p_loctsk[m] = NULL]

(* What ini_mtx() and del_mtx() share: the waiting tasks are released, and *)
(* the owner, whichever task that is, loses the mutex, from the middle of  *)
(* its list if need be, and the priority it had from it.                   *)
free_mutex(k, m) ==
  LET t  == k.p_loctsk[m]
      k1 == init_wait_queue(k, m)
      k2 == [k1 EXCEPT !.p_loctsk[m] = NULL,
                       !.tcb[t].p_lastmtx = RemoveFirst(@, m)]
  IN  IF t = NULL THEN k1
      ELSE IF m \in CEILING THEN mutex_drop_priority(k2, t, ceilpri[m])
      ELSE k2

ini_mtx(m) == TaskContext /\ UsesMutex(m) /\ Dispatch(free_mutex(kernel, m))

(* A mutex always comes back with the attributes it had.                   *)
acre_mtx(m) ==
  /\ TaskContext
  /\ m \notin existing
  /\ existing' = existing \cup {m}
  /\ UNCHANGED <<kernelVars, p_runtsk, excpt_nest_count>>

(* p_loctsk is cleared by the next acre_mtx(), before anyone reads it.     *)
del_mtx(m) ==
  /\ TaskContext
  /\ m \in existing
  /\ existing' = existing \ {m}
  /\ Dispatch(free_mutex(kernel, m))

--------------------------------------------------------------------------
(* The other services, as in TaskKernel. *)

act_tsk(t) ==
  /\ sense_context \/ TaskContext
  /\ Dormant(t)
  /\ Dispatch(make_active(kernel, t))

(* No check of the ceilings. *)
bug_chg_pri(t, newbpri) ==
  /\ TaskContext /\ ~Dormant(t)
  /\ LET k == [kernel EXCEPT !.tcb[t].bpriority = newbpri] IN
     IF tcb[t].boosted THEN Return(k)
     ELSE Dispatch(change_priority(k, t, newbpri, FALSE))

chg_pri(t, newbpri) ==
  /\ TaskContext
  /\ ~Dormant(t)
  /\ tcb[t].boosted \/ TSTAT_WAIT_MTX(tcb[t].tstat)
       => mutex_check_ceilpri(kernel, t, newbpri)
  /\ LET k == [kernel EXCEPT !.tcb[t].bpriority = newbpri] IN
     IF tcb[t].boosted THEN Return(k)
     ELSE Dispatch(change_priority(k, t, newbpri, FALSE))

dly_tsk ==
  /\ TaskContext /\ dspflg
  /\ Dispatch(make_wait_tmout(kernel, p_runtsk, TS_WAITING_DLY, TRUE))

(* The task stays in the wait queue. *)
bug_rel_wai(t) ==
  /\ sense_context \/ TaskContext
  /\ Waiting(t)
  /\ Dispatch(make_non_wait(wait_dequeue_tmevtb(kernel, t), t))

rel_wai(t) ==
  /\ sense_context \/ TaskContext
  /\ Waiting(t)
  /\ Dispatch(make_non_wait(set_wercd(
       wait_dequeue_tmevtb(wait_dequeue_wobj(kernel, t), t), t), t))

sus_tsk(t) ==
  /\ TaskContext
  /\ t = p_runtsk => dspflg
  /\ ~Dormant(t) /\ ~Suspended(t)
  /\ \/ /\ Runnable(t)
        /\ Dispatch(make_non_runnable(set_tstat(kernel, t, TS_SUSPENDED), t))
     \/ /\ ~Runnable(t)
        /\ Return(set_tstat(kernel, t, tcb[t].tstat \cup TS_SUSPENDED))

rsm_tsk(t) ==
  /\ TaskContext
  /\ Suspended(t)
  /\ \/ /\ ~Waiting(t)
        /\ Dispatch(make_runnable(set_tstat(kernel, t, TS_RUNNABLE), t))
     \/ /\ Waiting(t)
        /\ Return(set_tstat(kernel, t, tcb[t].tstat \ TS_SUSPENDED))

ext_tsk ==
  /\ TaskContext
  /\ Dispatch(task_terminate(IF dspflg THEN kernel ELSE set_dspflg(kernel),
                             p_runtsk))

ter_tsk(t) ==
  /\ TaskContext
  /\ t # p_runtsk /\ ~Dormant(t)
  /\ Dispatch(task_terminate(kernel, t))

dis_dsp == TaskContext /\ Return([kernel EXCEPT !.dspflg = FALSE])

ena_dsp == TaskContext /\ Dispatch(set_dspflg(kernel))

wait_tmout(t) ==
  /\ sense_context
  /\ t \in tmevtb
  /\ Dispatch(make_non_wait(set_wercd(
       wait_dequeue_wobj(wait_dequeue_tmevtb(kernel, t), t), t), t))

irq_handler ==
  /\ excpt_nest_count < MaxNest
  /\ excpt_nest_count' = excpt_nest_count + 1
  /\ UNCHANGED <<kernelVars, p_runtsk>>

(* A second return from one handler. *)
bug_irq_return ==
  /\ excpt_nest_count' = excpt_nest_count - 1
  /\ UNCHANGED <<kernelVars, p_runtsk>>

irq_return ==
  /\ sense_context
  /\ excpt_nest_count' = excpt_nest_count - 1
  /\ p_runtsk' = IF excpt_nest_count = 1 THEN p_schedtsk ELSE p_runtsk
  /\ UNCHANGED kernelVars

--------------------------------------------------------------------------
(* What an application does that uses priority ceilings as they are meant: *)
(* a task does not wait and is not suspended while it holds a mutex, base  *)
(* priorities change while nobody does and dispatching is enabled, and no  *)
(* mutex without a ceiling is used.                                        *)
Holds(t) == tcb[t].p_lastmtx # << >>
Settled  == dspflg /\ \A t \in Task : ~Holds(t)

DisciplinedNext ==
  \/ \E m \in CEILING : ploc_mtx(m) \/ unl_mtx(m)
  \/ \E m \in Mutex : acre_mtx(m)
  \/ /\ UNCHANGED existing
     /\ \/ \E t \in Task :
             \/ act_tsk(t) \/ ter_tsk(t) \/ wait_tmout(t)
             \/ Settled /\ \E pri \in TPri : chg_pri(t, pri)
        \/ p_runtsk # NULL /\ ~Holds(p_runtsk) /\ dly_tsk
        \/ ext_tsk \/ dis_dsp \/ ena_dsp \/ irq_handler \/ irq_return

(* Everything else. *)
UndisciplinedNext ==
  \/ \E m \in Mutex \ CEILING : ploc_mtx(m) \/ unl_mtx(m)
  \/ \E m \in Mutex :
       \/ (\E timed \in BOOLEAN : tloc_mtx(m, timed))
       \/ ini_mtx(m) \/ del_mtx(m)
  \/ /\ UNCHANGED existing
     /\ \/ \E t \in Task :
             \/ rel_wai(t) \/ sus_tsk(t) \/ rsm_tsk(t)
             \/ ~Settled /\ \E pri \in TPri : chg_pri(t, pri)
        \/ p_runtsk # NULL /\ Holds(p_runtsk) /\ dly_tsk

Next == DisciplinedNext \/ UndisciplinedNext

Spec == Init /\ [][Next]_vars

--------------------------------------------------------------------------
(* Properties. *)

(* The types of the variables. *)
TypeOK ==
  /\ tcb \in [Task -> TCB]
  /\ ready_queue \in [TPri -> Seq(Task)]
  /\ ready_primap \subseteq TPri
  /\ p_schedtsk \in Task \cup {NULL}
  /\ dspflg \in BOOLEAN
  /\ tmevtb \subseteq Task
  /\ asserted \in BOOLEAN
  /\ wait_queue \in [Mutex -> Seq(Task)]
  /\ p_loctsk \in [Mutex -> Task \cup {NULL}]
  /\ existing \subseteq Mutex
  /\ p_runtsk \in Task \cup {NULL}
  /\ excpt_nest_count \in 0..MaxNest

Held(t) == ToSet(tcb[t].p_lastmtx)

(* The owner recorded in a mutex and the list of the mutexes a task has    *)
(* locked agree, and no mutex is in a list twice (the list would be a      *)
(* cycle).  A dormant task holds none, and nobody holds a deleted one,     *)
(* whose block may become another mutex.                                   *)
OwnerListsAgree ==
  \A t \in Task :
    /\ Held(t) = {m \in Mutex : p_loctsk[m] = t}
    /\ IsInjective(tcb[t].p_lastmtx)
    /\ Dormant(t) => Held(t) = {}
    /\ Held(t) \subseteq existing

(* A task is in a wait queue exactly while it waits for that mutex, once,  *)
(* and nobody waits for a mutex that is free, deleted or its own.  A queue *)
(* with TA_TPRI or TA_CEILING stays in the order of the current            *)
(* priorities, whatever changes them during the wait.  Only a waiting task *)
(* has a time event, in whichever of the ways its wait may end.            *)
WaitQueuesOK ==
  /\ \A m \in Mutex :
       /\ IsInjective(wait_queue[m])
       /\ ToSet(wait_queue[m]) =
            {t \in Task : TSTAT_WAIT_MTX(tcb[t].tstat) /\ tcb[t].wobj = m}
       /\ wait_queue[m] # << >> =>
            p_loctsk[m] \notin ToSet(wait_queue[m]) \cup {NULL}
       /\ m \in TPRI => \A i, j \in DOMAIN wait_queue[m] :
            i < j => tcb[wait_queue[m][i]].priority <= tcb[wait_queue[m][j]].priority
  /\ \A t \in tmevtb : Waiting(t)

(* The current priority is the highest of the base priority and of the     *)
(* ceilings of the mutexes the task has locked, although unlocking         *)
(* recomputes it only in some cases; boosted says whether one of them has  *)
(* a ceiling.  No ceiling of a mutex that the task has, or waits for, is   *)
(* below its base priority, whichever of chg_pri() and locking came first. *)
PriorityIsCeiling ==
  \A t \in Task :
    /\ tcb[t].priority = Min(Ceilings(kernel, t) \cup {tcb[t].bpriority})
    /\ tcb[t].boosted <=> Ceilings(kernel, t) # {}
    /\ mutex_check_ceilpri(kernel, t, tcb[t].bpriority)

(* The ready queues hold each task that can run once, at its current       *)
(* priority, and the first of the highest priority should run, also while  *)
(* locking, unlocking and hand-over change priorities.  No assert() fails: *)
(* locking never makes a dispatch necessary, and what ends a wait is given *)
(* a waiting task, whose time event is cancelled before wercd is stored.   *)
SchedulerOK ==
  /\ TypeOK
  /\ \A p \in TPri :
       /\ IsInjective(ready_queue[p])
       /\ ToSet(ready_queue[p]) = {t \in Task : Runnable(t) /\ tcb[t].priority = p}
  /\ ready_primap = {p \in TPri : ready_queue[p] # << >>}
  /\ dspflg => p_schedtsk = IF ready_primap = {} THEN NULL
                            ELSE search_schedtsk(kernel)
  /\ asserted

(* Releasing a mutex by whatever means (unlock, termination of its owner)  *)
(* hands it to a waiting task of the highest priority, never to a task     *)
(* that was not waiting.                                                   *)
HandedToBestWaiter ==
  [][\A m \in TPRI :
       p_loctsk[m] # NULL /\ p_loctsk'[m] \notin {NULL, p_loctsk[m]} =>
         /\ p_loctsk'[m] \in ToSet(wait_queue[m])
         /\ \A t \in ToSet(wait_queue[m]) :
              tcb[p_loctsk'[m]].priority <= tcb[t].priority]_vars
==========================================================================
