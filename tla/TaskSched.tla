---------------------------- MODULE TaskSched ----------------------------
(***************************************************************************)
(* The task-management helpers of the kernel: kernel/task.c and the        *)
(* waiting-state helpers of kernel/wait.h and kernel/wait.c.               *)
(*                                                                         *)
(* The C helpers run with the CPU locked and call one another on shared    *)
(* globals.  Here each is an operator from a scheduler state to the next:  *)
(* a record k with the fields                                              *)
(*   tcb           the task control blocks                                 *)
(*   ready_queue   a sequence of tasks for every priority                  *)
(*   ready_primap  the bitmap of non-empty queues, as a set of priorities  *)
(*   p_schedtsk    the task that should run, or NULL                       *)
(*   dspflg        dispatching is possible                                 *)
(*   tmevtb        the tasks that have a time event registered             *)
(*   asserted      FALSE once an assert() of the code has failed, or a     *)
(*                 WINFO has lost the pointer to a registered time event   *)
(* so that a service call is a composition of helpers in the order of the  *)
(* code.  A priority is the internal one, 0 being the highest.             *)
(*                                                                         *)
(* Definitions named bug_... here and in the other modules are no part of  *)
(* the model: each is a slip that could be made in the definition it       *)
(* precedes, and PROJECT.json says which property it would violate.        *)
(***************************************************************************)
EXTENDS Integers, Sequences, SequencesExt

CONSTANTS Task, NULL, TNUM_TPRI

ASSUME TNUM_TPRIAssumption == TNUM_TPRI \in Nat \ {0}
ASSUME NULLAssumption == NULL \notin Task

TPri == 0 .. TNUM_TPRI - 1

(***************************************************************************)
(* Task states.  tstat is a word of flags; here the set of its flags: {}   *)
(* is TS_DORMANT, and a task in the double wait has a waiting factor and   *)
(* "SUSPENDED".                                                            *)
(***************************************************************************)
TS_DORMANT   == {}
TS_RUNNABLE  == {"RUNNABLE"}
TS_SUSPENDED == {"SUSPENDED"}
TS_WAITING_SLP == {"WAITING_SLP"}
TS_WAITING_DLY == {"WAITING_DLY"}
TS_WAITING_MTX == {"WAITING_MTX"}
TS_WAITING_SEM == {"WAITING_SEM"}
TS_WAITING_FLG == {"WAITING_FLG"}
TS_WAITING_MPF == {"WAITING_MPF"}
TS_WAITING_SDTQ == {"WAITING_SDTQ"}
TS_WAITING_RDTQ == {"WAITING_RDTQ"}
TS_WAITING_SPDQ == {"WAITING_SPDQ"}
TS_WAITING_RPDQ == {"WAITING_RPDQ"}
TS_WAITING_SMBF == {"WAITING_SMBF"}      \* with extension/messagebuf
TS_WAITING_RMBF == {"WAITING_RMBF"}

(* Waits in the wait queue that objects have in common, in any wait queue, *)
(* and all waits.                                                          *)
WobjcbFactor == {"WAITING_MTX", "WAITING_SEM", "WAITING_FLG", "WAITING_MPF",
                 "WAITING_SDTQ", "WAITING_SPDQ", "WAITING_SMBF"}
WobjFactor == WobjcbFactor \cup {"WAITING_RDTQ", "WAITING_RPDQ", "WAITING_RMBF"}
WaitFactor == WobjFactor \cup {"WAITING_SLP", "WAITING_DLY"}

TSTAT_DORMANT(tstat)   == tstat = TS_DORMANT
TSTAT_RUNNABLE(tstat)  == "RUNNABLE" \in tstat
TSTAT_SUSPENDED(tstat) == "SUSPENDED" \in tstat
TSTAT_WAITING(tstat)   == \E f \in WaitFactor : f \in tstat
TSTAT_WAIT_SLP(tstat)  == "WAITING_SLP" \in tstat
TSTAT_WAIT_MTX(tstat)  == "WAITING_MTX" \in tstat
TSTAT_WAIT_WOBJ(tstat)   == \E f \in WobjFactor : f \in tstat
TSTAT_WAIT_WOBJCB(tstat) == \E f \in WobjcbFactor : f \in tstat

(* The values tstat takes. *)
TStat == {TS_DORMANT, TS_RUNNABLE, TS_SUSPENDED}
            \cup {{f} : f \in WaitFactor}
            \cup {{f, "SUSPENDED"} : f \in WaitFactor}

--------------------------------------------------------------------------
(* The ready queues. *)

(* The task at the head of the non-empty queue of the highest priority. *)
primap_search(map) == CHOOSE p \in map : \A q \in map : p <= q

search_schedtsk(k) == Head(k.ready_queue[primap_search(k.ready_primap)])

set_dspflg(k) ==
  [k EXCEPT !.dspflg = TRUE,
            !.p_schedtsk = search_schedtsk(k)]

make_runnable(k, t) ==
  LET pri == k.tcb[t].priority IN
  [k EXCEPT
    !.ready_queue[pri] = Append(@, t),
    !.ready_primap = @ \cup {pri},
    !.p_schedtsk =
        IF k.dspflg /\ (@ = NULL \/ pri < k.tcb[@].priority) THEN t ELSE @]

make_non_runnable(k, t) ==
  LET pri == k.tcb[t].priority
      q   == RemoveFirst(k.ready_queue[pri], t)
      k1  == [k EXCEPT !.ready_queue[pri] = q,
                       !.ready_primap = IF q = << >> THEN @ \ {pri} ELSE @]
  IN  IF k.p_schedtsk # t THEN k1
      ELSE [k1 EXCEPT
             !.asserted = @ /\ k.dspflg,
             !.p_schedtsk = IF q # << >> THEN Head(q)
                            ELSE IF k1.ready_primap = {} THEN NULL
                            ELSE search_schedtsk(k1)]

(* The running task keeps the processor when it goes behind its equals. *)
bug_requeue(k, t, oldpri, newpri, mtxmode) ==
  LET q1  == RemoveFirst(k.ready_queue[oldpri], t)
      rq1 == [k.ready_queue EXCEPT ![oldpri] = q1]
      q2  == IF mtxmode THEN Cons(t, rq1[newpri]) ELSE Append(rq1[newpri], t)
      rq2 == [rq1 EXCEPT ![newpri] = q2]
      k1  == [k EXCEPT !.ready_queue = rq2,
                       !.ready_primap = {p \in TPri : rq2[p] # << >>}]
  IN  IF k.dspflg /\ (IF k.p_schedtsk = t THEN newpri > oldpri
                      ELSE newpri <= k.tcb[k.p_schedtsk].priority)
      THEN [k1 EXCEPT !.p_schedtsk = search_schedtsk(k1)] ELSE k1

(* The part of change_priority() for a task that can run: the task moves   *)
(* to the tail of its new queue, or to its head on behalf of a mutex.      *)
requeue(k, t, oldpri, newpri, mtxmode) ==
  LET q   == RemoveFirst(k.ready_queue[oldpri], t)
      map == IF q = << >> THEN k.ready_primap \ {oldpri} ELSE k.ready_primap
      rq1 == [k.ready_queue EXCEPT ![oldpri] = q]
      rq2 == [rq1 EXCEPT ![newpri] = IF mtxmode THEN Cons(t, @)
                                                ELSE Append(@, t)]
      k1  == [k EXCEPT !.ready_queue = rq2, !.ready_primap = map \cup {newpri}]
  IN  IF /\ k.dspflg
         /\ IF k.p_schedtsk = t THEN newpri >= oldpri
            ELSE newpri <= k.tcb[k.p_schedtsk].priority
      THEN [k1 EXCEPT !.p_schedtsk =
                        IF @ = t THEN search_schedtsk(k1) ELSE Head(rq2[newpri])]
      ELSE k1

rotate_ready_queue(k, pri) ==
  LET q == k.ready_queue[pri] IN
  IF Len(q) < 2 THEN k
  ELSE [k EXCEPT
         !.ready_queue[pri] = Append(Tail(q), Head(q)),
         !.p_schedtsk = IF k.dspflg /\ @ = Head(q) THEN Head(Tail(q)) ELSE @]

--------------------------------------------------------------------------
(* Waiting states. *)

set_tstat(k, t, tstat) == [k EXCEPT !.tcb[t].tstat = tstat]

(* make_wait() and make_wait_tmout(): `timed' says that a time event is    *)
(* registered, that is, tmout is not TMO_FEVR.                             *)
make_wait_tmout(k, t, tstat, timed) ==
  LET k1 == make_non_runnable(set_tstat(k, t, tstat), t) IN
  IF timed THEN [k1 EXCEPT !.tmevtb = @ \cup {t}] ELSE k1

wait_dequeue_tmevtb(k, t) == [k EXCEPT !.tmevtb = @ \ {t}]

(* Stores what the service call will return.  WINFO is a union: wercd is   *)
(* written over p_tmevtb, the only way to the time event of the wait.      *)
set_wercd(k, t) == [k EXCEPT !.asserted = @ /\ t \notin k.tmevtb]

(* Resumes a suspended task. *)
bug_make_non_wait(k, t) == make_runnable(set_tstat(k, t, TS_RUNNABLE), t)

make_non_wait(k, t) ==
  LET tstat == k.tcb[t].tstat
      k1    == [k EXCEPT !.asserted = @ /\ TSTAT_WAITING(tstat)]
  IN  IF TSTAT_SUSPENDED(tstat) THEN set_tstat(k1, t, TS_SUSPENDED)
      ELSE make_runnable(set_tstat(k1, t, TS_RUNNABLE), t)

(* The code is stored too early: p_tmevtb is read as E_OK, or NULL. *)
bug_wait_complete(k, t) ==
  LET k1 == set_wercd(k, t) IN
  make_non_wait(IF k1.asserted THEN wait_dequeue_tmevtb(k1, t) ELSE k1, t)

wait_complete(k, t) ==
  make_non_wait(set_wercd(wait_dequeue_tmevtb(k, t), t), t)

(* Wait queues in the order of priorities: how a task enters one. *)

(* In the order of arrival. *)
bug_queue_insert_tpri(k, q, t) == Append(q, t)

(* Behind the tasks of the same or a higher priority. *)
queue_insert_tpri(k, q, t) ==
  LET i == SelectInSeq(q, LAMBDA u : k.tcb[t].priority < k.tcb[u].priority)
  IN  IF i = 0 THEN Append(q, t) ELSE InsertAt(q, i, t)
==========================================================================
