-------------------------- MODULE InheritKernel --------------------------
(***************************************************************************)
(* Mutexes with priority inheritance (TA_INHERIT): the package             *)
(* extension/inherit, which replaces kernel/mutex.c, and change_priority() *)
(* chg_pri() and wait_dequeue_wobj() of the kernel.  What a task that      *)
(* waits for such a mutex lends to its owner may have to be passed on to   *)
(* the owner of the mutex that one waits for, and be taken back along the  *)
(* same way when a wait ends, a base priority changes or a mutex is        *)
(* unlocked or re-initialised.                                             *)
(*                                                                         *)
(* The definitions replaced are here with inherit_ before their name; what *)
(* is the same in both is used from MutexKernel.  The mutexes are created  *)
(* by configuration: the package has no acre_mtx() and no del_mtx().       *)
(***************************************************************************)
EXTENDS MutexKernel

CONSTANTS
  INHERIT,       \* the mutexes with TA_INHERIT
  rank,          \* the order in which the application locks mutexes ...
  Deadlocks,     \* ... unless this is TRUE
  LowersOwners   \* a base priority may be lowered below that of a waiting task

ASSUME InheritAssumption ==
  /\ INHERIT \subseteq TPRI \ CEILING
  /\ rank \in [Mutex -> Nat]
  /\ Deadlocks \in BOOLEAN /\ LowersOwners \in BOOLEAN

--------------------------------------------------------------------------
(* mutex.c and task.c: priorities. *)

(* What the first tasks waiting for the mutexes of a task lend to it. *)
HeadPriorities(k, t) ==
  {k.tcb[Head(k.wait_queue[m])].priority :
     m \in {n \in ToSet(k.tcb[t].p_lastmtx) \cap INHERIT : k.wait_queue[n] # << >>}}

(* mutex_calc_priority(): the priority, and what it leaves in boosted. *)
inherit_calc_priority(k, t) ==
  Min({k.tcb[t].bpriority} \cup Ceilings(k, t) \cup HeadPriorities(k, t))

IsBoosted(k, t) ==
  \/ Ceilings(k, t) # {}
  \/ \E p \in HeadPriorities(k, t) : p <= k.tcb[t].bpriority

set_boosted(k, t) == [k EXCEPT !.tcb[t].boosted = IsBoosted(k, t)]

RECURSIVE inherit_change_priority(_, _, _, _)

inherit_raise_priority(k, t, newpri, mtxmode) ==
  LET k1 == [k EXCEPT !.tcb[t].boosted = TRUE] IN
  IF newpri > k.tcb[t].priority THEN k
  ELSE IF newpri = k.tcb[t].priority THEN k1
  ELSE inherit_change_priority(k1, t, newpri, mtxmode)

inherit_drop_priority(k, t, oldpri, mtxmode) ==
  LET newpri == inherit_calc_priority(k, t) IN
  IF oldpri # k.tcb[t].priority THEN k
  ELSE IF newpri = oldpri THEN set_boosted(k, t)
  ELSE inherit_change_priority(set_boosted(k, t), t, newpri, mtxmode)

(* What is taken back is not taken back from those further on. *)
bug_transitive_inheritance(k, m, oldpri, newpri, mtxmode) ==
  IF m \notin INHERIT \/ newpri >= oldpri THEN k
  ELSE inherit_raise_priority(k, k.p_loctsk[m], newpri, mtxmode)

(* mutex_change_priority(): t has a new place in the wait queue of m; the  *)
(* owner follows.  asserted is FALSE, too, when p_loctsk is NULL and would *)
(* be dereferenced.                                                        *)
transitive_inheritance(k, m, oldpri, newpri, mtxmode) ==
  IF m \notin INHERIT \/ newpri = oldpri THEN k
  ELSE IF k.p_loctsk[m] = NULL THEN [k EXCEPT !.asserted = FALSE]
  ELSE IF newpri < oldpri
       THEN inherit_raise_priority(k, k.p_loctsk[m], newpri, mtxmode)
       ELSE inherit_drop_priority(k, k.p_loctsk[m], oldpri, mtxmode)

(* The code jumps back to the start of change_priority() for the owner,    *)
(* here it is a recursion.                                                 *)
inherit_change_priority(k, t, newpri, mtxmode) ==
  LET oldpri == k.tcb[t].priority
      m      == k.tcb[t].wobj
      k1     == [k EXCEPT !.tcb[t].priority = newpri]
  IN  IF TSTAT_RUNNABLE(k.tcb[t].tstat)
      THEN requeue(k1, t, oldpri, newpri, mtxmode)
      ELSE IF TSTAT_WAIT_MTX(k.tcb[t].tstat)
      THEN transitive_inheritance(wobj_change_priority(k1, m, t), m,
                                  oldpri, newpri, mtxmode)
      ELSE k1

--------------------------------------------------------------------------
(* mutex.c and wait.h: locks and waits. *)

inherit_acquire(k, t, m) ==
  LET k1 == push_mutex(k, t, m) IN
  IF m \in CEILING THEN inherit_raise_priority(k1, t, ceilpri[m], TRUE) ELSE k1

(* A task of the same priority that goes on waiting is not looked at. *)
bug_inherit_release(k, m) ==
  LET t  == Head(k.wait_queue[m])
      k1 == wait_dequeue_tmevtb([k EXCEPT !.wait_queue[m] = Tail(@)], t)
      k2 == push_mutex(set_wercd(k1, t), t, m)
  IN  IF k.wait_queue[m] = << >> THEN [k EXCEPT !.p_loctsk[m] = NULL]
      ELSE make_non_wait(IF m \notin CEILING THEN k2
             ELSE [k2 EXCEPT !.tcb[t].boosted = TRUE,
                             !.tcb[t].priority = Min({@, ceilpri[m]})], t)

(* The new owner inherits the tasks that go on waiting: none has a higher  *)
(* priority, but one of the same makes it boosted.                         *)
inherit_release(k, m) ==
  LET t     == Head(k.wait_queue[m])
      rest  == Tail(k.wait_queue[m])
      k1    == wait_dequeue_tmevtb([k EXCEPT !.wait_queue[m] = rest], t)
      k2    == push_mutex(set_wercd(k1, t), t, m)
      lends == \/ m \in CEILING
               \/ /\ m \in INHERIT /\ rest # << >>
                  /\ k.tcb[Head(rest)].priority <= k.tcb[t].priority
      k3    == [k2 EXCEPT
                 !.tcb[t].boosted = @ \/ lends,
                 !.tcb[t].priority = IF m \in CEILING THEN Min({@, ceilpri[m]}) ELSE @]
  IN  IF k.wait_queue[m] = << >> THEN [k EXCEPT !.p_loctsk[m] = NULL]
      ELSE make_non_wait(k3, t)

inherit_release_all(k, t) ==
  LET release(k1, m) ==
        inherit_release([k1 EXCEPT !.tcb[t].p_lastmtx = Tail(@)], m)
  IN  FoldLeft(release, k, k.tcb[t].p_lastmtx)

(* The owner keeps the priority. *)
bug_inherit_dequeue_wobj(k, t) == wait_dequeue_wobj(k, t)

(* wait_dequeue_wobj() with mutex_dequeue_wobj(): the owner gives back     *)
(* what the task lent to it.                                               *)
inherit_dequeue_wobj(k, t) ==
  LET m  == k.tcb[t].wobj
      k1 == wait_dequeue_wobj(k, t)
  IN  IF ~TSTAT_WAIT_MTX(k.tcb[t].tstat) \/ m \notin INHERIT THEN k1
      ELSE IF k.p_loctsk[m] = NULL THEN [k1 EXCEPT !.asserted = FALSE]
      ELSE inherit_drop_priority(k1, k.p_loctsk[m], k.tcb[t].priority, TRUE)

inherit_terminate(k, t) ==
  LET tstat == k.tcb[t].tstat
      k1 == IF TSTAT_RUNNABLE(tstat) THEN make_non_runnable(k, t)
            ELSE IF TSTAT_WAITING(tstat)
                 THEN wait_dequeue_tmevtb(inherit_dequeue_wobj(k, t), t)
            ELSE k
  IN  [inherit_release_all(k1, t) EXCEPT !.tcb[t] = DormantTCB(t)]

(* What the owner of a mutex loses with it: the ceiling, or what the first *)
(* waiting task lends.                                                     *)
drop_mutex(k, t, m) ==
  IF m \in CEILING THEN inherit_drop_priority(k, t, ceilpri[m], TRUE)
  ELSE IF m \in INHERIT /\ k.wait_queue[m] # << >>
  THEN inherit_drop_priority(k, t, k.tcb[Head(k.wait_queue[m])].priority, TRUE)
  ELSE k

--------------------------------------------------------------------------
(* The services. *)

InOrder(m) ==
  Deadlocks \/ \A n \in ToSet(tcb[p_runtsk].p_lastmtx) : rank[n] < rank[m]

inherit_ploc_mtx(m) ==
  /\ TaskContext /\ UsesMutex(m) /\ InOrder(m)
  /\ CeilingRespected(m)
  /\ p_loctsk[m] = NULL
  /\ LET k == inherit_acquire(kernel, p_runtsk, m) IN
     Return([k EXCEPT !.asserted = @ /\ p_runtsk = k.p_schedtsk])

inherit_tloc_mtx(m, timed) ==
  LET k == wobj_make_wait_tmout(kernel, m, p_runtsk, TS_WAITING_MTX, timed) IN
  /\ TaskContext /\ dspflg /\ UsesMutex(m) /\ InOrder(m)
  /\ CeilingRespected(m)
  /\ p_loctsk[m] \notin {NULL, p_runtsk}
  /\ Dispatch(IF m \notin INHERIT THEN k
              ELSE inherit_raise_priority(k, p_loctsk[m], tcb[p_runtsk].priority, TRUE))

inherit_unl_mtx(m) ==
  /\ TaskContext /\ UsesMutex(m)
  /\ tcb[p_runtsk].p_lastmtx # << >> /\ Head(tcb[p_runtsk].p_lastmtx) = m
  /\ LET k1 == [kernel EXCEPT !.tcb[p_runtsk].p_lastmtx = Tail(@)] IN
     Dispatch(inherit_release(drop_mutex(k1, p_runtsk, m), m))

(* The owner loses the priority while the tasks still wait, then they are  *)
(* released.                                                               *)
inherit_ini_mtx(m) ==
  LET t  == p_loctsk[m]
      k1 == [kernel EXCEPT !.p_loctsk[m] = NULL,
                           !.tcb[t].p_lastmtx = RemoveFirst(@, m)]
  IN  /\ TaskContext /\ UsesMutex(m)
      /\ Dispatch(init_wait_queue(
           IF t = NULL THEN kernel ELSE drop_mutex(k1, t, m), m))

(* Lowers a task below what it knows not to be boosted by. *)
LosesWaiters(t, newbpri) ==
  ~tcb[t].boosted /\ \E p \in HeadPriorities(kernel, t) : p <= newbpri

(* The priority is only calculated for a boosted task; and it is newbpri   *)
(* that is passed on.                                                      *)
inherit_chg_pri(t, newbpri) ==
  /\ TaskContext
  /\ ~Dormant(t)
  /\ tcb[t].boosted \/ TSTAT_WAIT_MTX(tcb[t].tstat)
       => mutex_check_ceilpri(kernel, t, newbpri)
  /\ LosesWaiters(t, newbpri) => LowersOwners
  /\ LET k1 == [kernel EXCEPT !.tcb[t].bpriority = newbpri]
         k2 == IF tcb[t].boosted THEN set_boosted(k1, t) ELSE k1
         newpri == IF tcb[t].boosted THEN inherit_calc_priority(k1, t) ELSE newbpri
     IN  IF tcb[t].priority = newpri /\ k2.tcb[t].boosted THEN Return(k2)
         ELSE Dispatch(inherit_change_priority(k2, t, newbpri, FALSE))

inherit_rel_wai(t) ==
  /\ sense_context \/ TaskContext
  /\ Waiting(t)
  /\ Dispatch(make_non_wait(set_wercd(
       wait_dequeue_tmevtb(inherit_dequeue_wobj(kernel, t), t), t), t))

inherit_wait_tmout(t) ==
  /\ sense_context
  /\ t \in tmevtb
  /\ Dispatch(make_non_wait(set_wercd(
       inherit_dequeue_wobj(wait_dequeue_tmevtb(kernel, t), t), t), t))

inherit_ext_tsk ==
  /\ TaskContext
  /\ Dispatch(inherit_terminate(IF dspflg THEN kernel ELSE set_dspflg(kernel),
                                p_runtsk))

inherit_ter_tsk(t) ==
  /\ TaskContext
  /\ t # p_runtsk /\ ~Dormant(t)
  /\ Dispatch(inherit_terminate(kernel, t))

--------------------------------------------------------------------------
InheritInit == Boot /\ existing = Mutex

InheritNext ==
  \/ \E m \in Mutex :
       \/ inherit_ploc_mtx(m) \/ inherit_unl_mtx(m) \/ inherit_ini_mtx(m)
       \/ \E timed \in BOOLEAN : inherit_tloc_mtx(m, timed)
  \/ /\ UNCHANGED existing
     /\ \/ \E t \in Task :
             \/ act_tsk(t) \/ sus_tsk(t) \/ rsm_tsk(t)
             \/ inherit_rel_wai(t) \/ inherit_wait_tmout(t) \/ inherit_ter_tsk(t)
             \/ \E pri \in TPri : inherit_chg_pri(t, pri)
        \/ dly_tsk \/ inherit_ext_tsk \/ dis_dsp \/ ena_dsp
        \/ irq_handler \/ irq_return

InheritSpec == InheritInit /\ [][InheritNext]_vars

--------------------------------------------------------------------------
(* Properties. *)

(* Every structure of MutexKernel stays consistent while priorities are    *)
(* passed on along chains of waiting tasks, which re-sorts wait queues and *)
(* moves tasks between ready queues in the middle of a service call: the   *)
(* owners, the wait queues in the order of the current priorities, the     *)
(* ready queues and the task that should run.  boosted tells exactly       *)
(* whether the mutexes determine the priority, although it is calculated   *)
(* in full only when what is lost was what determined it.  No assert()     *)
(* fails and no mutex without an owner is followed.                        *)
InheritOK ==
  /\ OwnerListsAgree
  /\ WaitQueuesOK
  /\ SchedulerOK
  /\ \A t \in Task : tcb[t].boosted <=> IsBoosted(kernel, t)

(* NGKI2014: the current priority is always the highest of the base        *)
(* priority, of the ceilings of the mutexes the task has locked, and of    *)
(* the current priorities of the tasks that wait for one it has locked.    *)
PriorityInherited ==
  \A t \in Task :
    LET Lends(u) == /\ TSTAT_WAIT_MTX(tcb[u].tstat)
                    /\ tcb[u].wobj \in ToSet(tcb[t].p_lastmtx) \cap INHERIT
    IN  tcb[t].priority = Min({tcb[t].bpriority} \cup Ceilings(kernel, t)
                                \cup {tcb[u].priority : u \in {v \in Task : Lends(v)}})
==========================================================================
